---------------------------- MODULE SessionRoute ----------------------------
(***************************************************************************)
(* planWithContext of src/src/decision/session-route.js: the project a     *)
(* prompt without one inherits from the prompts before it.                 *)
(*                                                                         *)
(* A session remembers one owner in one file, which a call reads, decides  *)
(* on, and overwrites in place without a lock.  The callers are the prompt *)
(* hook of a desktop and the steps of a routed task, which have the same   *)
(* session but no surface; they overlap, and die.  What a prompt says is   *)
(* reduced to what the code reads out of it: a project it names, a         *)
(* correction, a short reference to what went before, or none of these.    *)
(***************************************************************************)
EXTENDS Naturals, Sequences

CONSTANTS
    Askers,    \* calls that may be under way at one time
    Desktops,  \* those of the desktop's prompt hook; the others are of steps
    Owners,    \* projects
    Movable,   \* those whose registration is edited meanwhile
    Dirs       \* working directories

Saying == {"names", "corrects and names", "rejects", "refers", "other"}
Nothing == [owner |-> "nobody"]
Idling == [writes |-> <<>>, inherits |-> "no"]

VARIABLES
    remembered, \* the file: nothing, or the record of the last owner
    projects,   \* per project: "gone", "bare", or "repository" registered
    asking,     \* per call: the writes it has yet to do, whether it inherits
    standing,   \* the owner a desktop prompt named last, and where; none once corrected
    late        \* calls that read the file before the last naming or correction

routeVars == <<remembered, projects, asking, standing, late>>

Records == [owner : Owners, dir : Dirs, version : {1, 2}, target : {"none", "repository"},
            aged : {"yes", "no"}, sure : {"yes", "no"}]

SessionRouteTypeOK ==
    /\ remembered \in Records \cup {Nothing}
    /\ projects \in [Owners -> {"gone", "bare", "repository"}]
    /\ \A a \in Askers : /\ \A i \in 1..Len(asking[a].writes) : asking[a].writes[i] \in Records \cup {Nothing}
                         /\ Len(asking[a].writes) <= 2 /\ asking[a].inherits \in {"yes", "no"}
    /\ standing \in SUBSET (Owners \X Dirs) /\ late \subseteq Askers

SessionRouteInit ==
    /\ remembered = Nothing
    /\ projects = [p \in Owners |-> "repository"]
    /\ asking = [a \in Askers |-> Idling]
    /\ standing = {} /\ late = {}

-----------------------------------------------------------------------------
Version(a) == IF a \in Desktops THEN 2 ELSE 1

\* Changed form of Fresh: what a step remembered is good enough for a desktop.
Fresh_AnyVersion(prior, a, dir) ==
    prior # Nothing /\ prior.dir = dir /\ prior.aged = "no"

\* A desktop does not trust what other surfaces remembered.
Fresh(prior, a, dir) ==
    /\ prior # Nothing
    /\ a \in Desktops => prior.version = 2
    /\ prior.dir = dir /\ prior.aged = "no"

\* A desktop looks for the repository where it was, in the registry and on disk.
StaleTarget(prior, a, dir) ==
    /\ a \in Desktops /\ Fresh(prior, a, dir)
    /\ prior.target # "none" /\ projects[prior.owner] # "repository"

\* The record of a prompt that names its owner; a header may name a repository.
Named(p, a, dir, target) ==
    [owner |-> p, dir |-> dir, version |-> Version(a), target |-> target, aged |-> "no", sure |-> "yes"]

Targets(p, a) ==
    {"none"} \cup (IF a \in Desktops /\ projects[p] = "repository" THEN {"repository"} ELSE {})

\* A call reads the file, whole or while another call writes it, and decides.
Ask(a, dir, saying) ==
    /\ asking[a] = Idling
    /\ \E prior \in {remembered} \cup (IF \E b \in Askers : asking[b] # Idling THEN {Nothing} ELSE {}) :
         CASE saying = "rejects" ->
                asking' = [asking EXCEPT ![a].writes = <<Nothing>>]
           [] saying \in {"names", "corrects and names"} ->
                \E p \in {q \in Owners : projects[q] # "gone"} : \E target \in Targets(p, a) :
                  asking' = [asking EXCEPT ![a].writes =
                               (IF saying = "names" THEN <<>> ELSE <<Nothing>>)
                                 \o <<Named(p, a, dir, target)>>]
           [] saying \in {"refers", "other"} /\ StaleTarget(prior, a, dir) ->
                asking' = [asking EXCEPT ![a].writes = <<Nothing>>]
           [] saying = "refers" /\ ~StaleTarget(prior, a, dir)
              /\ Fresh(prior, a, dir) /\ projects[prior.owner] # "gone" ->
                asking' = [asking EXCEPT ![a] = [writes |-> <<[prior EXCEPT !.version = Version(a)]>>,
                                                 inherits |-> "yes"]]
           [] OTHER -> UNCHANGED asking
    /\ UNCHANGED <<remembered, projects, standing, late>>

\* The file is overwritten; a correction is written before anything else.
Write(a) ==
    /\ asking[a] # Idling
    /\ LET next == Head(asking[a].writes)
           rest == Tail(asking[a].writes)
       IN /\ remembered' = IF a \in late /\ asking[a].inherits = "yes"
                           THEN [next EXCEPT !.sure = "no"] ELSE next
          /\ asking' = [asking EXCEPT ![a] = IF rest = <<>> THEN Idling ELSE [@ EXCEPT !.writes = rest]]
          /\ standing' = CASE next = Nothing -> {}
                           [] next # Nothing /\ next.version = 2 /\ asking[a].inherits = "no" ->
                                {<<next.owner, next.dir>>}
                           [] OTHER -> standing
          /\ late' = IF asking[a].inherits = "yes" THEN late \ {a}
                     ELSE {b \in Askers \ {a} : asking[b] # Idling}
    /\ UNCHANGED projects

\* The process dies before or in the middle of the write.
Perish(a) ==
    /\ asking[a] # Idling
    /\ remembered' \in {remembered, Nothing}
    /\ asking' = [asking EXCEPT ![a] = Idling]
    /\ late' = late \ {a}
    /\ UNCHANGED <<projects, standing>>

\* An hour passes after the last write; no call takes that long.
OwnerAges ==
    /\ \A a \in Askers : asking[a] = Idling
    /\ remembered # Nothing /\ remembered.aged = "no"
    /\ remembered' = [remembered EXCEPT !.aged = "yes"]
    /\ standing' = {}
    /\ UNCHANGED <<projects, asking, late>>

\* Projects and their repositories are registered, moved and removed.
EditRegistry(p) ==
    /\ \E state \in {"gone", "bare", "repository"} \ {projects[p]} :
         projects' = [projects EXCEPT ![p] = state]
    /\ UNCHANGED <<remembered, asking, standing, late>>

SessionRouteNext ==
    \/ \E a \in Askers :
         \/ \E dir \in Dirs, saying \in Saying : Ask(a, dir, saying)
         \/ Write(a) \/ Perish(a)
    \/ OwnerAges
    \/ \E p \in Movable : EditRegistry(p)

SessionRouteSpec == SessionRouteInit /\ [][SessionRouteNext]_routeVars

-----------------------------------------------------------------------------
\* "Only explicit evidence or previously confirmed ownership may seed later
\* turns": what a desktop prompt inherits is what a desktop prompt named last,
\* in the same directory, less than an hour before or handed on from there,
\* and uncorrected since, unless a call that had read the file before that
\* handed on what it read.  The repository it inherits is still registered,
\* although steps hand it on without looking.
InheritsWhatStands ==
    [][SessionRouteTypeOK' /\ \A a \in Askers :
         asking[a] = Idling /\ asking'[a].inherits = "yes" /\ Head(asking'[a].writes).version = 2 =>
           LET taken == Head(asking'[a].writes) IN
           /\ taken.sure = "yes" => <<taken.owner, taken.dir>> \in standing
           /\ taken.target = "repository" => projects[taken.owner] = "repository"]_routeVars
=============================================================================
