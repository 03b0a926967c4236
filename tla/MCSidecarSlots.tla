--------------------------- MODULE MCSidecarSlots ---------------------------
\* An instance of SidecarSlots: five calls with two different limits.
EXTENDS SidecarSlots, TLC

CONSTANTS c1, c2, c3, c4, c5

FiveCalls == {c1, c2, c3, c4, c5}

MixedLimits == c1 :> 2 @@ c2 :> 2 @@ c3 :> 3 @@ c4 :> 2 @@ c5 :> 3
=============================================================================
