-------------------------- MODULE MCLockTakeovers --------------------------
(* Locks taken over from processes that died: that of the OAuth registry, on *)
(* the platform where it can be, and those of the Atelier refresh.  The two  *)
(* share no state: a behaviour is one of a single side, whose own            *)
(* specification it satisfies, and the other stays in its initial state.     *)
EXTENDS RegistryFile, AtelierRefresh, TLC

VARIABLE takeover

TakeoversInit == Init /\ RefreshInit /\ takeover \in {"registry", "refresh"}

TakeoversNext ==
    /\ UNCHANGED takeover
    /\ \/ takeover = "registry" /\ Next /\ UNCHANGED refreshVars
       \/ takeover = "refresh" /\ RefreshNext /\ UNCHANGED vars

TakeoversSpec == TakeoversInit /\ [][TakeoversNext]_<<vars, refreshVars, takeover>>

TwoSources == <<"plain", "reconciled">>

\* Passes are told apart by nothing.
PassSymmetry == Permutations(Passes)
=============================================================================
