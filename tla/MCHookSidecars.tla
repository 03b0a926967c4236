--------------------------- MODULE MCHookSidecars ---------------------------
\* Instances of HookSidecars: what the planner proposes.
EXTENDS HookSidecars

EitherLane == {<<"context-1", "decompose-1">>, <<"verify-1">>}
BothLanes == {<<"context-1", "decompose-1", "verify-1", "acceptance-1">>}
OneLane == {<<"context-1">>}
DesktopLanes == {"context-1", "verify-1"}
=============================================================================
