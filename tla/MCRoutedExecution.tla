------------------------- MODULE MCRoutedExecution -------------------------
\* A root task of two steps: evidence is retrieved, then a recipe uses it.
EXTENDS RoutedExecution

CONSTANTS evidence, recipe

StepIds == {evidence, recipe}
RecipeIds == {recipe}
StepOrder == [s \in StepIds |-> IF s = recipe THEN {evidence} ELSE {}]

=============================================================================
