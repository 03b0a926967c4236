----------------------------- MODULE Onboarding -----------------------------
(***************************************************************************)
(* Who may use the Atelier access service, and the operators' commands     *)
(* that change it: src/packages/atelier-access/onboarding.mjs with         *)
(* onboarding-store.mjs.                                                   *)
(*                                                                         *)
(* Access rests on three things: the grants file, the allow list of the    *)
(* service's configuration, and the e-mail rules of the provider.  A       *)
(* command with --apply changes one after the other under a workflow lock, *)
(* each file under a lock of its own against the contents it read first,   *)
(* the provider after a second look.  Commands fail and die anywhere, the  *)
(* provider's answer may be lost, and people edit all three by hand.       *)
(***************************************************************************)
EXTENDS Naturals

CONSTANTS
    MaxOperations,  \* commands run with --apply
    People,         \* e-mail addresses they are about
    Owner,          \* the one who is there from the start
    HandEdits       \* entries others make, in any of the three places

ASSUME OnboardingAssumption == Owner \in People /\ People \cap HandEdits = {}

\* Commands are numbered in the order they start.
Operations == 1..MaxOperations
Unlocked == 0

Files == {"grants", "config"}
Stores == Files \cup {"provider"}
OnboardKinds == {"add", "enroll", "revoke"}
Verdicts == {"none", "rejected", "partial", "applied"}

VARIABLES
    entries,   \* per place: the people and hand-made entries in it
    workflow,  \* holder of the workflow lock
    guard,     \* per file: holder of its lock
    op,        \* per command: what it is, where it is, and what it read
    promise,   \* per person: what a revocation has told the operator
    written,    \* per hand-made entry: the place it was made in
    inWindow    \* entries made between a command's last look and its write

onboardVars == <<entries, workflow, guard, op, promise, written, inWindow>>

Idle == [at |-> "idle", kind |-> "add", person |-> Owner, file |-> "grants", verdict |-> "none",
         read |-> [f \in Files |-> {}], seen |-> {}]

OnboardingTypeOK ==
    /\ entries \in [Stores -> SUBSET (People \cup HandEdits)]
    /\ workflow \in Operations \cup {Unlocked} /\ guard \in [Files -> Operations \cup {Unlocked}]
    /\ \A o \in Operations :
         /\ op[o].at \in {"idle", "reading", "rechecking", "locking", "comparing", "renaming", "releasing",
                          "inspecting", "refreshing", "putting", "confirming", "ending", "answered", "dead"}
         /\ op[o].kind \in OnboardKinds /\ op[o].person \in People
         /\ op[o].file \in Files /\ op[o].verdict \in Verdicts
    /\ promise \in [People -> {"nothing", "no grants", "no trace"}]
    /\ written \in [HandEdits -> Stores \cup {"nowhere"}] /\ inWindow \subseteq HandEdits

\* Ann, who is not the owner, may be known or not, in any of the places.
OnboardingInit ==
    /\ entries \in [Stores -> {{Owner} \cup known : known \in SUBSET People}]
    /\ workflow = Unlocked /\ guard = [f \in Files |-> Unlocked]
    /\ op = [o \in Operations |-> Idle]
    /\ promise = [p \in People |-> "nothing"]
    /\ written = [x \in HandEdits |-> "nowhere"] /\ inWindow = {}

-----------------------------------------------------------------------------
\* What a command makes of the entries it read.
Wanted(o, before) ==
    IF op[o].kind = "revoke" THEN before \ {op[o].person} ELSE before \cup {op[o].person}

\* Where a command goes next: a file that needs writing, the provider, the end.
ToFile(o, f) == [op EXCEPT ![o].at = "locking", ![o].file = f]
ToPlace(o, at) == [op EXCEPT ![o].at = at]
Closed(o, at) == [op EXCEPT ![o] = [Idle EXCEPT !.at = at]]
Ended(o, verdict) == [op EXCEPT ![o].at = "ending", ![o].verdict = verdict]

Changes(o, before) == Wanted(o, before) # before

ToProvider(o, seen) == IF Changes(o, seen) THEN ToPlace(o, "refreshing") ELSE Ended(o, "applied")

\* Changed form of Start: commands overlap, each file is locked by itself.
Start_NoWorkflowLock(o) ==
    /\ op[o].at = "idle" /\ \A before \in 1..(o - 1) : op[before].at # "idle"
    /\ \E kind \in OnboardKinds, p \in People :
         /\ op' = [op EXCEPT ![o] = [Idle EXCEPT !.at = "reading", !.kind = kind, !.person = p]]
         /\ promise' = [promise EXCEPT ![p] =
                CASE kind = "enroll" -> "nothing"
                  [] kind = "add" /\ @ = "no trace" -> "no grants"
                  [] OTHER -> @]
    /\ UNCHANGED <<entries, workflow, guard, written, inWindow>>

\* withWorkflowLock.
Start(o) ==
    /\ op[o].at = "idle" /\ \A before \in 1..(o - 1) : op[before].at # "idle"
    /\ \E kind \in OnboardKinds, p \in People :
         IF workflow = Unlocked
         THEN /\ workflow' = o
              /\ op' = [op EXCEPT ![o] = [Idle EXCEPT !.at = "reading", !.kind = kind, !.person = p]]
              /\ promise' = [promise EXCEPT ![p] =
                    CASE kind = "enroll" -> "nothing"
                      [] kind = "add" /\ @ = "no trace" -> "no grants"
                      [] OTHER -> @]
         ELSE /\ op' = Closed(o, "answered")
              /\ UNCHANGED <<workflow, promise>>
    /\ UNCHANGED <<entries, guard, written, inWindow>>

\* runOnboarding: the files are read and validated, and the branches begin.
\* Enrollment needs an assertion of a person on the allow list and grants that
\* do not conflict; nobody revokes the last one of the list.
ReadFiles(o) ==
    /\ op[o].at = "reading"
    /\ LET p == op[o].person
           read == [f \in Files |-> entries[f]]
           next == CASE op[o].kind = "add" -> ToPlace(o, "inspecting")
                     [] op[o].kind = "enroll" /\ p \notin read["config"] -> Ended(o, "rejected")
                     [] op[o].kind = "enroll" /\ p \in read["config"] -> ToPlace(o, "rechecking")
                     [] op[o].kind = "revoke" /\ read["config"] = {p} -> Ended(o, "rejected")
                     [] OTHER -> IF p \in read["grants"] THEN ToFile(o, "grants")
                                 ELSE IF p \in read["config"] THEN ToFile(o, "config")
                                 ELSE ToPlace(o, "inspecting")
       IN \E after \in {next, Ended(o, "rejected")} : op' = [after EXCEPT ![o].read = read]
    /\ UNCHANGED <<entries, workflow, guard, promise, written, inWindow>>

\* Enrollment reads the configuration and the registry once more.
Recheck(o) ==
    /\ op[o].at = "rechecking"
    /\ \/ /\ entries["config"] = op[o].read["config"]
          /\ op' = IF Changes(o, op[o].read["grants"]) THEN ToFile(o, "grants") ELSE Ended(o, "applied")
       \/ op' = Ended(o, "rejected")
    /\ UNCHANGED <<entries, workflow, guard, promise, written, inWindow>>

-----------------------------------------------------------------------------
(* atomicJsonWrite.                                                        *)

\* A revocation that fails after its grants are gone says so.
Failure(o) == IF op[o].kind = "revoke" /\ op[o].file = "config" THEN "partial" ELSE "rejected"

LockFile(o) ==
    /\ op[o].at = "locking"
    /\ \/ /\ guard[op[o].file] = Unlocked
          /\ guard' = [guard EXCEPT ![op[o].file] = o]
          /\ op' = ToPlace(o, "comparing")
       \/ op' = Ended(o, Failure(o)) /\ UNCHANGED guard
    /\ UNCHANGED <<entries, workflow, promise, written, inWindow>>

\* Compared, and a backup and the new file are written beside it.
Compare(o) ==
    /\ op[o].at = "comparing"
    /\ \/ entries[op[o].file] = op[o].read[op[o].file] /\ op' = ToPlace(o, "renaming")
       \/ op' = [op EXCEPT ![o].at = "releasing", ![o].verdict = Failure(o)]
    /\ UNCHANGED <<entries, workflow, guard, promise, written, inWindow>>

ReplaceFile(o) ==
    /\ op[o].at = "renaming"
    /\ entries' = [entries EXCEPT ![op[o].file] = Wanted(o, op[o].read[op[o].file])]
    /\ op' = ToPlace(o, "releasing")
    /\ UNCHANGED <<workflow, guard, promise, written, inWindow>>

\* Grants come first, then the allow list, then the provider; an addition has
\* inspected the provider before its only file.
ReleaseFile(o) ==
    /\ op[o].at = "releasing"
    /\ guard' = [guard EXCEPT ![op[o].file] = Unlocked]
    /\ op' = CASE op[o].verdict # "none" -> ToPlace(o, "ending")
               [] op[o].verdict = "none" /\ op[o].kind = "enroll" -> Ended(o, "applied")
               [] op[o].verdict = "none" /\ op[o].kind = "add" -> ToProvider(o, op[o].seen)
               [] OTHER -> IF op[o].file = "grants" /\ op[o].person \in op[o].read["config"]
                           THEN ToFile(o, "config") ELSE ToPlace(o, "inspecting")
    /\ UNCHANGED <<entries, workflow, promise, written, inWindow>>

-----------------------------------------------------------------------------
(* The provider.                                                           *)

\* inspectProvider, before anything else (add) or after the files (revoke).
Inspect(o) ==
    /\ op[o].at = "inspecting"
    /\ LET seen == entries["provider"]
           after == IF op[o].kind = "add" /\ Changes(o, op[o].read["config"]) THEN ToFile(o, "config")
                    ELSE ToProvider(o, seen)
       IN \/ op' = [after EXCEPT ![o].seen = seen]
          \/ op' = Ended(o, IF op[o].kind = "revoke" THEN "partial" ELSE "rejected")
    /\ UNCHANGED <<entries, workflow, guard, promise, written, inWindow>>

\* updateProvider: a second look, and never an empty list of rules.
SecondLook(o) ==
    /\ op[o].at = "refreshing"
    /\ \/ /\ entries["provider"] = op[o].seen /\ Wanted(o, op[o].seen) # {}
          /\ op' = ToPlace(o, "putting")
       \/ op' = Ended(o, "partial")
    /\ UNCHANGED <<entries, workflow, guard, promise, written, inWindow>>

\* The rules are replaced; the answer may be lost on the way.
Put(o) ==
    /\ op[o].at = "putting"
    /\ \/ /\ entries' = [entries EXCEPT !["provider"] = Wanted(o, op[o].seen)]
          /\ op' \in {ToPlace(o, "confirming"), Ended(o, "partial")}
       \/ op' = Ended(o, "partial") /\ UNCHANGED entries
    /\ UNCHANGED <<workflow, guard, promise, written, inWindow>>

ReadBack(o) ==
    /\ op[o].at = "confirming"
    /\ \/ entries["provider"] = Wanted(o, op[o].seen) /\ op' = Ended(o, "applied")
       \/ op' = Ended(o, "partial")
    /\ UNCHANGED <<entries, workflow, guard, promise, written, inWindow>>

-----------------------------------------------------------------------------
\* The workflow lock is removed, and the operator reads the answer.
End(o) ==
    /\ op[o].at = "ending"
    /\ workflow' = Unlocked
    /\ op' = Closed(o, "answered")
    /\ promise' = [promise EXCEPT ![op[o].person] =
          CASE op[o].kind = "revoke" /\ op[o].verdict = "applied" -> "no trace"
            [] op[o].kind = "revoke" /\ op[o].verdict = "partial" /\ @ = "nothing" -> "no grants"
            [] OTHER -> @]
    /\ UNCHANGED <<entries, guard, written, inWindow>>

\* The process dies with its locks; a request on its way may still arrive.
DieAnywhere(o) ==
    /\ op[o].at \notin {"idle", "answered", "dead"}
    /\ entries' \in {entries} \cup
         (IF op[o].at = "putting" THEN {[entries EXCEPT !["provider"] = Wanted(o, op[o].seen)]} ELSE {})
    /\ op' = Closed(o, "dead")
    /\ UNCHANGED <<workflow, guard, promise, written, inWindow>>

\* Nothing takes a lock over: the operator removes those of dead commands.
ClearWorkflow ==
    /\ workflow # Unlocked /\ op[workflow].at = "dead"
    /\ workflow' = Unlocked
    /\ UNCHANGED <<entries, guard, op, promise, written, inWindow>>

ClearFile(f) ==
    /\ guard[f] # Unlocked /\ op[guard[f]].at = "dead"
    /\ guard' = [guard EXCEPT ![f] = Unlocked]
    /\ UNCHANGED <<entries, workflow, op, promise, written, inWindow>>

\* Between the last look at a place and the write.
Writing(o, s) ==
    \/ op[o].at = "renaming" /\ s = op[o].file
    \/ op[o].at = "putting" /\ s = "provider"

\* Someone else adds an entry: a legacy grant, an address, a rule.
HandEdit(x, s) ==
    /\ written[x] = "nowhere"
    /\ written' = [written EXCEPT ![x] = s]
    /\ entries' = [entries EXCEPT ![s] = @ \cup {x}]
    /\ inWindow' = inWindow \cup (IF \E o \in Operations : Writing(o, s) THEN {x} ELSE {})
    /\ UNCHANGED <<workflow, guard, op, promise>>

OnboardStep(o) ==
    \/ Start(o) \/ ReadFiles(o) \/ Recheck(o)
    \/ LockFile(o) \/ Compare(o) \/ ReplaceFile(o) \/ ReleaseFile(o)
    \/ Inspect(o) \/ SecondLook(o) \/ Put(o) \/ ReadBack(o) \/ End(o) \/ DieAnywhere(o)

OnboardingNext ==
    \/ \E o \in Operations : OnboardStep(o)
    \/ ClearWorkflow \/ \E f \in Files : ClearFile(f)
    \/ \E x \in HandEdits, s \in Stores : HandEdit(x, s)

OnboardingSpec == OnboardingInit /\ [][OnboardingNext]_onboardVars

-----------------------------------------------------------------------------
\* ONBOARDING.md: "local grant revocation happens before any provider
\* inspection, so a provider outage cannot prevent that local step".  What a
\* revocation told the operator stays true until someone adds or enrolls the
\* person again, whatever other commands do, fail to do, or die at.
RevocationsStand ==
    \A p \in People :
        /\ promise[p] # "nothing" => p \notin entries["grants"]
        /\ promise[p] = "no trace" => p \notin entries["config"] \cup entries["provider"]

\* "Applied" is true when the operator reads it.
AppliedIsTrue ==
    \A o \in Operations :
        op[o].at = "ending" /\ op[o].verdict = "applied" =>
            CASE op[o].kind = "add" -> op[o].person \in entries["config"] \cap entries["provider"]
              [] op[o].kind = "enroll" -> op[o].person \in entries["grants"]
              [] op[o].kind = "revoke" -> op[o].person \notin UNION {entries[s] : s \in Stores}

\* ONBOARDING.md: "It rechecks provider state immediately before PUT".  The
\* work of others is lost only between that look, or the comparison of a
\* file, and the write that follows.
OthersWorkIsKept ==
    \A x \in HandEdits : written[x] # "nowhere" /\ x \notin inWindow => x \in entries[written[x]]

\* ONBOARDING.md: "The last local allowlisted email cannot be removed", and the
\* provider keeps a rule: no sequence of commands locks everybody out.
SomebodyRemains == entries["config"] # {} /\ entries["provider"] # {}

\* What onboarding promises over commands, deaths and the work of others.
OnboardingHolds == OnboardingTypeOK /\ RevocationsStand /\ AppliedIsTrue /\ OthersWorkIsKept /\ SomebodyRemains
=============================================================================
