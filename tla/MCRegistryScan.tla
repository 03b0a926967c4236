--------------------------- MODULE MCRegistryScan ---------------------------
(* Instances of RegistryScan: the requests and the processes they run in. *)
EXTENDS RegistryScan, TLC

CONSTANTS a1, a2, b1, b2, ProcessA, ProcessB

TwoByTwo == (a1 :> ProcessA) @@ (a2 :> ProcessA) @@ (b1 :> ProcessB) @@ (b2 :> ProcessB)
TwoAndOne == (a1 :> ProcessA) @@ (a2 :> ProcessA) @@ (b1 :> ProcessB)

\* The doctor command forces its scan; failures do not.
ForcedLast == {b2}
ForcedOnly == {b1}
=============================================================================
