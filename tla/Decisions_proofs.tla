-------------------------- MODULE Decisions_proofs --------------------------
(***************************************************************************)
(* Proofs about what is decided from evidence: what the index of a search  *)
(* vouches for, the authority of the typed-evidence planner, the health of *)
(* the dispatcher, the stages of parallel work, and the plan of a          *)
(* dispatch.  The components share nothing; each has a part of its own.    *)
(***************************************************************************)
EXTENDS SearchIndex, DispatchPlan, EvidenceShadow, DispatcherHealth, ParallelizationPolicy,
        FiniteSetTheorems, SequenceTheorems, WellFoundedInduction, TLAPS

----------------------------------------------------------------------------
(***************************************************************************)
(* The index of a root is what the catalogue says of it, for every number  *)
(* of files, changes, passes and sweeps.                                   *)
(***************************************************************************)

Phases == {"idle", "observing", "hydrating", "sweeping", "collecting", "placing", "listing", "delisting",
           "updating", "embedding", "checking", "failing"}
\* From the mark on, a pass may write every place.
Writing == {"collecting", "placing", "listing", "delisting", "updating", "embedding", "checking", "failing"}
Records == [known : BOOLEAN, indexed : Contents, mark : 0..MaxStamp]
Revisions == SUBSET (SUBSET (Indexable \X Contents \X BOOLEAN))
Catalogues == [record : [Indexable -> Records], revision : Revisions, pending : BOOLEAN, degraded : BOOLEAN]
Passes ==
    [at : Phases, copy : Catalogues, left : SUBSET Indexable, seen : [Indexable -> FileStates],
     hydrated : SUBSET Indexable, picked : SUBSET Indexable, placed : SUBSET Indexable,
     revision : Revisions, outdated : SUBSET Indexable, skipped : BOOLEAN, begun : 0..MaxPasses]
Searches ==
    [at : {"idle", "asked", "loaded", "found", "emitted"}, mode : {"live", "indexed"}, file : SUBSET Indexable,
     listing : [revision : Revisions, files : SUBSET Texts],
     book : [indexed : Contents, revision : Revisions], saw : FileStates, hit : Contents]

IndexShape ==
    /\ disk \in [Indexable -> FileStates]
    /\ staging \subseteq Texts /\ listing \in [revision : Revisions, files : SUBSET Texts]
    /\ engine \in [words : SUBSET Texts, vectors : SUBSET Texts]
    /\ catalogue \in Catalogues
    /\ indexing \in Passes
    /\ query \in Searches

\* What was ever seen of a file, or is vouched for, is not newer than the file.
FilesGrow ==
    \A f \in Indexable :
      /\ disk[f].content <= disk[f].stamp + 1
      /\ indexing.seen[f].content <= disk[f].content
      /\ catalogue.record[f].indexed <= disk[f].content
      /\ indexing.copy.record[f].indexed <= disk[f].content

\* Only a known file is vouched for.
VouchesForKnown ==
    \A f \in Indexable :
      /\ catalogue.record[f].indexed # 0 => catalogue.record[f].known
      /\ indexing.copy.record[f].indexed # 0 => indexing.copy.record[f].known

\* What a catalogue that says nothing is pending owes: the places agree with
\* it, and no file of its revision is vouched for in an older content.
Kept(c) ==
    ~c.pending =>
      /\ c.revision # {} =>
           /\ staging = listing.files /\ listing.files = engine.words /\ engine.words = engine.vectors
           /\ \A f \in Indexable : c.record[f].indexed # 0 =>
                \A x \in Contents : <<f, x>> \in staging <=> x = c.record[f].indexed
      /\ \A R \in c.revision, f \in Indexable, x \in Contents, b \in BOOLEAN :
           <<f, x, b>> \in R => x <= c.record[f].indexed

\* The published catalogue owes it always, the copy of a pass until it is
\* marked as pending, which is before anything is staged.
KeptByBoth ==
    /\ Kept(catalogue)
    /\ indexing.at \in {"observing", "hydrating", "sweeping"} => Kept(indexing.copy)
    /\ indexing.at \in Writing => catalogue.pending /\ indexing.copy.pending

\* What a pass has seen, its copy knows, and its revision is not newer.
PassKnows ==
    /\ indexing.at \in {"observing", "hydrating"} =>
         \A f \in Indexable : indexing.seen[f].state # "gone" => indexing.copy.record[f].known
    /\ indexing.at \in Writing =>
         \A R \in indexing.revision, f \in Indexable, x \in Contents, b \in BOOLEAN :
           <<f, x, b>> \in R => indexing.copy.record[f].known /\ x <= indexing.seen[f].content

\* A pass takes only what it knows.
PassTakes ==
    /\ indexing.at \in {"observing", "hydrating"} => indexing.picked = {} /\ indexing.placed = {}
    /\ indexing.at \in Writing => \A f \in indexing.picked \cup indexing.placed : indexing.copy.record[f].known

\* A pass that has left nothing out has every known file at hand.
PassMisses ==
    /\ indexing.at = "collecting" => indexing.placed = {}
    /\ indexing.at = "collecting" /\ ~indexing.skipped =>
         \A f \in Indexable \ indexing.left : indexing.copy.record[f].known => f \in indexing.picked
    /\ indexing.at = "placing" /\ ~indexing.skipped =>
         \A f \in Indexable : indexing.copy.record[f].known => f \in indexing.picked \cup indexing.placed
    /\ indexing.at \in {"listing", "updating", "embedding", "checking"} /\ ~indexing.skipped =>
         \A f \in Indexable : indexing.copy.record[f].known => f \in indexing.placed

\* How far the places hold what was placed.
PlacesFollow ==
    /\ indexing.at \in {"placing", "listing", "updating", "embedding", "checking"} =>
         staging = {Content(f) : f \in indexing.placed}
    /\ indexing.at \in {"updating", "embedding", "checking"} => listing.files = staging
    /\ indexing.at \in {"embedding", "checking"} => engine.words = staging
    /\ indexing.at = "checking" => engine.vectors = engine.words

IndexInv ==
    /\ IndexShape /\ FilesGrow /\ VouchesForKnown /\ KeptByBoth
    /\ PassKnows /\ PassTakes /\ PassMisses /\ PlacesFollow /\ ShownAsFound

----------------------------------------------------------------------------
(* Every place holds what it is meant for.                                 *)

\* A revision is one of the contents of files.
LEMMA RevisionShape ==
    ASSUME NEW states \in [Indexable -> FileStates], NEW parsed
    PROVE  /\ Revision(states, parsed) \in Revisions
           /\ \A R \in Revision(states, parsed), f \in Indexable, x \in Contents, b \in BOOLEAN :
                <<f, x, b>> \in R => states[f].state = "there" /\ x = states[f].content
PROOF
  <1> DEFINE row(f) == <<f, states[f].content, f \in parsed>>
             rows == {row(f) : f \in {g \in Indexable : states[g].state = "there"}}
  <1>1. ASSUME NEW f \in Indexable PROVE row(f) \in Indexable \X Contents \X BOOLEAN
    <2>1. states[f].content \in Contents BY DEF FileStates
    <2>2. (f \in parsed) \in BOOLEAN OBVIOUS
    <2>3. \A g \in Indexable, x \in Contents, b \in BOOLEAN : <<g, x, b>> \in Indexable \X Contents \X BOOLEAN OBVIOUS
    <2> QED BY <2>1, <2>2, <2>3, Zenon
  <1>2. Revision(states, parsed) = {rows} BY Zenon DEF Revision
  <1>3. rows \subseteq Indexable \X Contents \X BOOLEAN BY <1>1
  <1>4. ASSUME NEW f \in Indexable, NEW x \in Contents, NEW b \in BOOLEAN, <<f, x, b>> \in rows
        PROVE  states[f].state = "there" /\ x = states[f].content
    <2>1. PICK g \in Indexable : states[g].state = "there" /\ <<f, x, b>> = row(g) BY <1>4
    <2> QED BY <2>1
  <1> HIDE DEF rows
  <1>5. Revision(states, parsed) \in Revisions BY <1>2, <1>3 DEF Revisions
  <1> QED BY <1>2, <1>4, <1>5

\* Catalogues that a pass makes of its copy are catalogues.
LEMMA CopyShape ==
    ASSUME IndexShape
    PROVE  /\ indexing.copy \in Catalogues
           /\ Complete \in Catalogues
           /\ Complete.revision = indexing.copy.revision /\ Complete.pending = indexing.copy.pending
           /\ \A f \in Indexable : Complete.record[f] =
                IF indexing.seen[f].state = "gone" THEN Unknown ELSE indexing.copy.record[f]
           /\ \A c \in Catalogues : Troubled(c) \in Catalogues /\ Troubled(c).record = c.record /\ Troubled(c).pending
           /\ Unknown \in Records /\ NoCatalogue \in Catalogues /\ NoIndexing \in Passes
           /\ Finished \in Passes
PROOF
  <1> USE IndexAssumption
  <1>1. indexing \in Passes /\ indexing.copy \in Catalogues BY DEF IndexShape, Passes
  <1>2. Unknown \in Records BY DEF Unknown, Records, Contents
  <1>3. Complete \in Catalogues BY <1>1, <1>2 DEF Complete, Catalogues
  <1>4. /\ Complete.revision = indexing.copy.revision /\ Complete.pending = indexing.copy.pending
        /\ \A f \in Indexable : Complete.record[f] =
             IF indexing.seen[f].state = "gone" THEN Unknown ELSE indexing.copy.record[f]
    BY <1>1 DEF Complete, Catalogues
  <1>5. \A c \in Catalogues : Troubled(c) \in Catalogues /\ Troubled(c).record = c.record /\ Troubled(c).pending
    BY DEF Troubled, Catalogues
  <1>6. NoCatalogue \in Catalogues BY <1>2 DEF NoCatalogue, Catalogues, Revisions
  <1>7. Unseen \in FileStates BY DEF Unseen, FileStates, Contents
  <1>8. NoIndexing \in Passes BY <1>6, <1>7 DEF NoIndexing, Passes, Phases, Revisions
  <1>9. Finished \in Passes
    <2>1. indexing.begun \in 0..MaxPasses BY <1>1 DEF Passes
    <2> QED BY <1>8, <2>1 DEF Finished, Passes
  <1> QED BY <1>1, <1>2, <1>3, <1>4, <1>5, <1>6, <1>8, <1>9

\* The places have their shape at the start.
LEMMA InitShape == SearchIndexInit => IndexShape
PROOF
  <1> SUFFICES ASSUME SearchIndexInit PROVE IndexShape OBVIOUS
  <1> USE IndexAssumption
  <1>1. disk \in [Indexable -> FileStates]
    <2>1. \A d \in [state : {"there", "hidden"}, content : {1}, stamp : {0}] : d \in FileStates
      BY DEF FileStates, Contents
    <2> QED BY <2>1 DEF SearchIndexInit
  <1>2. PICK earlier \in BOOLEAN :
         LET all == IF earlier THEN {<<f, 1>> : f \in {g \in Indexable : Reads(g) # 0}} ELSE {}
             revision == IF earlier THEN {{<<t[1], 1, t[1] \in Parsed>> : t \in all}} ELSE {}
         IN /\ staging = all /\ engine = [words |-> all, vectors |-> all]
            /\ listing = [revision |-> revision, files |-> all]
            /\ catalogue = [NoCatalogue EXCEPT !.revision = revision,
                 !.record = [f \in Indexable |-> [known |-> earlier, mark |-> 0,
                                                indexed |-> IF <<f, 1>> \in all THEN 1 ELSE 0]]]
    BY Zenon DEF SearchIndexInit
  <1> DEFINE all == IF earlier THEN {<<f, 1>> : f \in {g \in Indexable : Reads(g) # 0}} ELSE {}
             revision == IF earlier THEN {{<<t[1], 1, t[1] \in Parsed>> : t \in all}} ELSE {}
             record == [f \in Indexable |-> [known |-> earlier, mark |-> 0,
                                            indexed |-> IF <<f, 1>> \in all THEN 1 ELSE 0]]
  <1>3. 1 \in Contents /\ 0 \in Contents BY DEF Contents
  <1>4. all \subseteq Texts BY <1>3 DEF Texts
  <1>5. revision \in Revisions
    <2>1. ASSUME NEW t \in all PROVE <<t[1], 1, t[1] \in Parsed>> \in Indexable \X Contents \X BOOLEAN
      <3>1. t[1] \in Indexable BY <1>4 DEF Texts
      <3>2. (t[1] \in Parsed) \in BOOLEAN OBVIOUS
      <3>3. \A g \in Indexable, x \in Contents, b \in BOOLEAN : <<g, x,
          b>> \in Indexable \X Contents \X BOOLEAN OBVIOUS
      <3> QED BY <3>1, <3>2, <3>3, <1>3, Zenon
    <2> QED BY <2>1 DEF Revisions
  <1>6. record \in [Indexable -> Records] BY <1>3 DEF Records
  <1>7. /\ staging = all /\ engine = [words |-> all, vectors |-> all]
        /\ listing = [revision |-> revision, files |-> all]
        /\ catalogue = [NoCatalogue EXCEPT !.revision = revision, !.record = record]
    BY <1>2, Zenon
  <1> HIDE DEF all, revision, record
  <1>8. NoCatalogue = [record |-> [f \in Indexable |-> Unknown], revision |-> {}, pending |-> FALSE,
      degraded |-> FALSE]
    BY DEF NoCatalogue
  <1>9. catalogue \in Catalogues BY <1>5, <1>6, <1>7, <1>8 DEF Catalogues
  <1>10. Unseen \in FileStates BY DEF Unseen, FileStates, Contents
  <1>11. indexing \in Passes
    <2>1. NoCatalogue \in Catalogues
      <3>1. Unknown \in Records BY DEF Unknown, Records, Contents
      <3> QED BY <1>8, <3>1 DEF Catalogues, Revisions
    <2>2. indexing = NoIndexing BY DEF SearchIndexInit
    <2> QED BY <2>1, <2>2, <1>10 DEF NoIndexing, Passes, Phases, Revisions
  <1>12. query \in Searches
    <2>1. NoListing \in [revision : Revisions, files : SUBSET Texts] BY DEF NoListing, Revisions
    <2>2. query = NoQuery BY DEF SearchIndexInit
    <2> QED BY <2>1, <2>2, <1>3, <1>10 DEF NoQuery, Searches, Revisions
  <1> QED BY <1>1, <1>4, <1>5, <1>7, <1>9, <1>11, <1>12 DEF IndexShape

\* Every step keeps the shape.
LEMMA NextShape == IndexShape /\ [SearchIndexNext]_indexVars => IndexShape'
PROOF
  <1> SUFFICES ASSUME IndexShape, [SearchIndexNext]_indexVars PROVE IndexShape' OBVIOUS
  <1> USE IndexAssumption
  <1>0. /\ indexing \in Passes /\ catalogue \in Catalogues /\ disk \in [Indexable -> FileStates] /\ query \in Searches
        /\ listing \in [revision : Revisions, files : SUBSET Texts]
        /\ engine \in [words : SUBSET Texts, vectors : SUBSET Texts] /\ staging \subseteq Texts
    BY DEF IndexShape
  <1>01. /\ indexing.copy \in Catalogues /\ indexing.left \subseteq Indexable /\ indexing.picked \subseteq Indexable
         /\ indexing.placed \subseteq Indexable /\ indexing.hydrated \subseteq Indexable
         /\ indexing.seen \in [Indexable -> FileStates] /\ indexing.skipped \in BOOLEAN
         /\ indexing.copy.record \in [Indexable -> Records] /\ indexing.begun \in 0..MaxPasses
    BY <1>0 DEF Passes, Catalogues
  <1>1. CASE UNCHANGED indexVars BY <1>0, <1>1 DEF IndexShape, indexVars
  <1>2. CASE Alter
    <2>1. PICK f \in Indexable, s \in {"there", "hidden", "gone"}, fresh \in BOOLEAN :
            /\ disk[f].stamp < MaxStamp
            /\ disk' = [disk EXCEPT ![f] = [state |-> s, stamp |-> @.stamp + 1,
                                          content |-> IF fresh THEN @.stamp + 2 ELSE @.content]]
      BY <1>2 DEF Alter
    <2>2. disk[f].stamp \in 0..MaxStamp /\ disk[f].content \in Contents BY <1>0 DEF FileStates
    <2>3. disk' \in [Indexable -> FileStates] BY <1>0, <2>1, <2>2 DEF FileStates, Contents
    <2> QED BY <1>0, <1>2, <2>3 DEF IndexShape, Alter
  <1>3. CASE Readmit
    <2>1. indexing' \in Passes BY <1>0, <1>01, <1>3 DEF Readmit, Passes
    <2> QED BY <1>0, <1>3, <2>1 DEF IndexShape, Readmit
  <1>4. ASSUME NEW at \in {"observing", "sweeping"}, Begin(at) PROVE IndexShape'
    <2>1. indexing' \in Passes
      <3>1. at \in Phases /\ indexing.begun + 1 \in 0..MaxPasses BY <1>01, <1>4 DEF Phases, Begin
      <3> QED BY <1>0, <1>4, <3>1, CopyShape DEF Begin, Passes
    <2> QED BY <1>0, <1>4, <2>1 DEF IndexShape, Begin, InPass
  <1>5. CASE Observe
    <2>1. PICK f \in indexing.left :
            indexing' = [indexing EXCEPT !.seen[f] = disk[f],
             !.at = IF indexing.left = {f} THEN "hydrating" ELSE @,
             !.left = IF indexing.left = {f} THEN Parsed ELSE @ \ {f},
             !.copy.record[f] = IF disk[f].state = "gone" THEN @
                                ELSE [known |-> TRUE, indexed |-> @.indexed, mark |-> disk[f].stamp]]
      BY <1>5 DEF Observe
    <2> DEFINE record == IF disk[f].state = "gone" THEN indexing.copy.record[f]
                         ELSE [known |-> TRUE, indexed |-> indexing.copy.record[f].indexed, mark |-> disk[f].stamp]
    <2>2. disk[f].stamp \in 0..MaxStamp /\ indexing.copy.record[f] \in Records /\ f \in Indexable /\ disk[f] \in FileStates
      BY <1>0, <1>01 DEF FileStates
    <2>3. record \in Records BY <2>2 DEF Records
    <2>4. [indexing.copy EXCEPT !.record[f] = record] \in Catalogues BY <1>01, <2>3 DEF Catalogues
    <2>5. [indexing.seen EXCEPT ![f] = disk[f]] \in [Indexable -> FileStates] BY <1>01, <2>2
    <2>6. indexing' = [indexing EXCEPT !.seen = [indexing.seen EXCEPT ![f] = disk[f]],
             !.at = IF indexing.left = {f} THEN "hydrating" ELSE indexing.at,
             !.left = IF indexing.left = {f} THEN Parsed ELSE indexing.left \ {f},
             !.copy = [indexing.copy EXCEPT !.record[f] = record]]
      BY <1>0, <1>01, <2>1, <2>2 DEF Passes, Catalogues
    <2> HIDE DEF record
    <2>7. indexing' \in Passes BY <1>0, <1>01, <2>4, <2>5, <2>6 DEF Passes, Phases
    <2> QED BY <1>0, <1>5, <2>7 DEF IndexShape, Observe, InPass
  <1>6. CASE Hydrate
    <2>1. PICK f \in indexing.left, whole \in BOOLEAN :
            \/ indexing' = [indexing EXCEPT !.left = @ \ {f}, !.seen[f] = disk[f], !.hydrated = @ \cup {f},
                                    !.skipped = @ \/ ~whole]
            \/ indexing' = [indexing EXCEPT !.left = @ \ {f}, !.skipped = @ \/ indexing.seen[f].state # "gone"]
      BY <1>6 DEF Hydrate
    <2>2. f \in Indexable /\ [indexing.seen EXCEPT ![f] = disk[f]] \in [Indexable -> FileStates] BY <1>0, <1>01
    <2>3. indexing' \in Passes
      <3>1. CASE indexing' = [indexing EXCEPT !.left = @ \ {f}, !.seen[f] = disk[f], !.hydrated = @ \cup {f},
                                    !.skipped = @ \/ ~whole]
        <4>1. indexing' = [indexing EXCEPT !.left = indexing.left \ {f},
            !.seen = [indexing.seen EXCEPT ![f] = disk[f]],
                             !.hydrated = indexing.hydrated \cup {f}, !.skipped = indexing.skipped \/ ~whole]
          BY <1>0, <3>1 DEF Passes
        <4> QED BY <1>0, <1>01, <2>2, <4>1 DEF Passes
      <3>2. CASE indexing' = [indexing EXCEPT !.left = @ \ {f}, !.skipped = @ \/ indexing.seen[f].state # "gone"]
        BY <1>0, <1>01, <3>2 DEF Passes
      <3> QED BY <2>1, <3>1, <3>2
    <2> QED BY <1>0, <1>6, <2>3 DEF IndexShape, Hydrate, InPass
  <1>7. CASE StopsEarly
    <2>1. catalogue' \in Catalogues /\ indexing' \in Passes BY <1>7, CopyShape DEF StopsEarly
    <2> QED BY <1>0, <1>7, <2>1 DEF IndexShape, StopsEarly, InPass
  <1>8. CASE Unchanged
    <2>1. [Complete EXCEPT !.degraded = FALSE] \in Catalogues BY CopyShape DEF Catalogues
    <2>2. catalogue' \in Catalogues /\ indexing' \in Passes BY <1>8, <2>1, CopyShape DEF Unchanged
    <2> QED BY <1>0, <1>8, <2>2 DEF IndexShape, Unchanged, InPass
  <1>9. CASE MarkPending
    <2>1. [Complete EXCEPT !.pending = TRUE] \in Catalogues BY CopyShape DEF Catalogues
    <2>2. Revision(indexing.seen, indexing.hydrated) \in Revisions BY <1>01, RevisionShape
    <2>3. indexing' \in Passes BY <1>0, <1>01, <1>9, <2>1, <2>2 DEF MarkPending, ToStage, Passes, Phases
    <2> QED BY <1>0, <1>9, <2>1, <2>3 DEF IndexShape, MarkPending, InPass
  <1>10. CASE CollectTexts
    <2>1. PICK f \in indexing.left :
         LET takes == indexing.copy.record[f].known /\ Stageable(f) IN
         indexing' = [indexing EXCEPT !.left = @ \ {f},
             !.seen[f] = IF takes THEN disk[f] ELSE @,
             !.picked = IF takes THEN @ \cup {f} ELSE @,
             !.skipped = @ \/ (indexing.copy.record[f].known /\ ~takes)]
      BY <1>10 DEF CollectTexts
    <2>2. disk[f] \in FileStates /\ indexing.seen[f] \in FileStates /\ f \in Indexable BY <1>0, <1>01
    <2>3. indexing' \in Passes BY ZenonT(60), <1>0, <1>01, <2>1, <2>2 DEF Passes
    <2> QED BY <1>0, <1>10, <2>3 DEF IndexShape, CollectTexts, InPass
  <1>11. CASE Clear
    <2>1. indexing' \in Passes /\ staging' \subseteq Texts BY <1>0, <1>01, <1>11 DEF Clear, Passes, Phases
    <2> QED BY <1>0, <1>11, <2>1 DEF IndexShape, Clear, InPass
  <1>12. \A f \in Indexable : Content(f) \in Texts BY <1>01 DEF Content, Texts, FileStates
  <1>13. CASE Place
    <2>1. PICK f \in indexing.picked :
         \/ /\ staging' = staging \cup {Content(f)}
            /\ indexing' = [indexing EXCEPT !.picked = @ \ {f}, !.placed = @ \cup {f}]
         \/ /\ indexing' = [indexing EXCEPT !.picked = @ \ {f}, !.skipped = TRUE]
            /\ staging' = staging
      BY <1>13 DEF Place
    <2>2. staging' \subseteq Texts BY <1>0, <1>01, <1>12, <2>1
    <2>3. indexing' \in Passes
      <3>1. /\ f \in Indexable /\ indexing.placed \cup {f} \subseteq Indexable
            /\ indexing.picked \ {f} \subseteq Indexable
        BY <1>01
      <3>2. CASE indexing' = [indexing EXCEPT !.picked = @ \ {f}, !.placed = @ \cup {f}]
        BY <1>0, <3>1, <3>2 DEF Passes
      <3>3. CASE indexing' = [indexing EXCEPT !.picked = @ \ {f}, !.skipped = TRUE]
        BY <1>0, <3>1, <3>3 DEF Passes
      <3> QED BY <2>1, <3>2, <3>3
    <2> QED BY <1>0, <1>13, <2>2, <2>3 DEF IndexShape, Place, InPass
  <1>14. CASE ConfirmAdmission
    <2>1. staging' \subseteq Texts BY <1>0, <1>14 DEF ConfirmAdmission
    <2>2. \/ indexing' = [indexing EXCEPT !.at = "listing"]
          \/ \E next \in {"listing", "delisting"} :
               indexing' = [indexing EXCEPT !.at = next, !.placed = {}, !.skipped = TRUE]
      BY <1>14 DEF ConfirmAdmission
    <2>3. indexing' \in Passes
      <3>1. CASE indexing' = [indexing EXCEPT !.at = "listing"] BY <1>0, <3>1 DEF Passes, Phases
      <3>2. ASSUME NEW next \in {"listing", "delisting"},
                   indexing' = [indexing EXCEPT !.at = next, !.placed = {}, !.skipped = TRUE]
            PROVE  indexing' \in Passes
        BY <1>0, <3>2 DEF Passes, Phases
      <3> QED BY <2>2, <3>1, <3>2
    <2> QED BY <1>0, <1>14, <2>1, <2>3 DEF IndexShape, ConfirmAdmission, InPass
  <1>15. CASE PublishList
    <2>1. indexing' \in Passes BY <1>0, <1>01, <1>15 DEF PublishList, Passes, Phases
    <2>2. {Content(f) : f \in indexing.placed} \subseteq Texts BY <1>01, <1>12
    <2>3. indexing.revision \in Revisions BY <1>0 DEF Passes
    <2>4. listing' \in [revision : Revisions, files : SUBSET Texts] BY <1>15, <2>2, <2>3 DEF PublishList
    <2> QED BY <1>0, <1>15, <2>1, <2>4 DEF IndexShape, PublishList, InPass
  <1>16. CASE UpdateEngine
    <2>1. indexing' \in Passes BY <1>0, <1>01, <1>16 DEF UpdateEngine, Passes, Phases
    <2>2. engine' \in [words : SUBSET Texts, vectors : SUBSET Texts] BY <1>0, <1>16 DEF UpdateEngine
    <2> QED BY <1>0, <1>16, <2>1, <2>2 DEF IndexShape, UpdateEngine, InPass
  <1>17. CASE Embed
    <2>1. indexing' \in Passes BY <1>0, <1>01, <1>17 DEF Embed, Passes, Phases
    <2>2. engine' \in [words : SUBSET Texts, vectors : SUBSET Texts] BY <1>0, <1>17 DEF Embed
    <2> QED BY <1>0, <1>17, <2>1, <2>2 DEF IndexShape, Embed, InPass
  <1>18. CASE PublishFailure
    <2>1. catalogue' \in Catalogues /\ indexing' \in Passes BY <1>18, CopyShape DEF PublishFailure
    <2> QED BY <1>0, <1>18, <2>1 DEF IndexShape, PublishFailure, InPass
  <1>19. CASE RecheckSources
    <2>1. indexing' \in Passes BY <1>0, <1>01, <1>19 DEF RecheckSources, Passes, Phases
    <2> QED BY <1>0, <1>19, <2>1 DEF IndexShape, RecheckSources, InPass
  <1>20. CASE PublishIndexed
    <2> DEFINE record == [f \in Indexable |-> IF f \in indexing.placed
                                       THEN [indexing.copy.record[f] EXCEPT !.indexed = indexing.seen[f].content]
                                       ELSE indexing.copy.record[f]]
    <2>1. record \in [Indexable -> Records] BY <1>01 DEF Records, FileStates
    <2>2. indexing.revision \in Revisions BY <1>0 DEF Passes
    <2>3. catalogue' = [indexing.copy EXCEPT !.record = record, !.revision = indexing.revision,
                          !.pending = indexing.skipped, !.degraded = indexing.skipped]
      BY <1>20, Zenon DEF PublishIndexed
    <2> HIDE DEF record
    <2>4. catalogue' \in Catalogues BY <1>01, <2>1, <2>2, <2>3 DEF Catalogues
    <2>5. indexing' \in Passes BY <1>20, CopyShape DEF PublishIndexed
    <2> QED BY <1>0, <1>20, <2>4, <2>5 DEF IndexShape, PublishIndexed, InPass
  <1>21. CASE DiePass
    <2>1. indexing' \in Passes BY <1>21, CopyShape DEF DiePass
    <2> QED BY <1>0, <1>21, <2>1 DEF IndexShape, DiePass, InPass
  <1>22. CASE Sweep
    <2>1. PICK f \in indexing.left :
         LET now == IF disk[f].state = "gone" THEN Unknown
                    ELSE IF indexing.copy.record[f].known /\ indexing.copy.record[f].mark = disk[f].stamp
                    THEN indexing.copy.record[f]
                    ELSE [known |-> TRUE, indexed |-> 0, mark |-> disk[f].stamp]
         IN indexing' = [indexing EXCEPT !.left = @ \ {f}, !.copy.record[f] = now,
                                 !.copy.pending = @ \/ now # indexing.copy.record[f]]
      BY <1>22 DEF Sweep
    <2> DEFINE now == IF disk[f].state = "gone" THEN Unknown
                    ELSE IF indexing.copy.record[f].known /\ indexing.copy.record[f].mark = disk[f].stamp
                    THEN indexing.copy.record[f]
                    ELSE [known |-> TRUE, indexed |-> 0, mark |-> disk[f].stamp]
    <2>2. disk[f].stamp \in 0..MaxStamp /\ indexing.copy.record[f] \in Records /\ f \in Indexable
      BY <1>0, <1>01 DEF FileStates
    <2>3. now \in Records BY <2>2, CopyShape DEF Records, Contents
    <2>4. indexing' = [indexing EXCEPT !.left = @ \ {f}, !.copy.record[f] = now,
                                 !.copy.pending = @ \/ now # indexing.copy.record[f]]
      BY <2>1, Zenon
    <2> HIDE DEF now
    <2>5. indexing' = [indexing EXCEPT !.left = indexing.left \ {f},
             !.copy = [indexing.copy EXCEPT !.record[f] = now,
                                 !.pending = @ \/ now # indexing.copy.record[f]]]
      BY <1>0, <1>01, <2>4 DEF Passes, Catalogues
    <2>6. [indexing.copy EXCEPT !.record[f] = now, !.pending = @ \/ now # indexing.copy.record[f]] \in Catalogues
      BY <1>01, <2>3 DEF Catalogues
    <2>7. indexing' \in Passes BY <1>0, <1>01, <2>5, <2>6 DEF Passes
    <2> QED BY <1>0, <1>22, <2>7 DEF IndexShape, Sweep, InPass
  <1>23. CASE PublishSweep
    <2>1. catalogue' \in Catalogues /\ indexing' \in Passes BY <1>23, CopyShape DEF PublishSweep
    <2> QED BY <1>0, <1>23, <2>1 DEF IndexShape, PublishSweep, InPass
  <1>24. CASE Ask
    <2>2. PICK mode \in {"live", "indexed"}, f \in Indexable :
            query' = [query EXCEPT !.at = "asked", !.mode = mode, !.file = {f}, !.listing = listing]
      BY <1>24 DEF Ask
    <2>1. query' \in Searches BY <1>0, <2>2 DEF Searches
    <2> QED BY <1>0, <1>24, <2>1 DEF IndexShape, Ask, Asking
  <1>25. NoQuery \in Searches
    <2>1. NoListing \in [revision : Revisions, files : SUBSET Texts] BY DEF NoListing, Revisions
    <2>2. Unseen \in FileStates BY DEF Unseen, FileStates, Contents
    <2> QED BY <2>1, <2>2 DEF NoQuery, Searches, Revisions, Contents
  <1>26. CASE LoadBook
    <2>1. \A f \in Indexable : [indexed |-> catalogue.record[f].indexed, revision |-> catalogue.revision]
                                 \in [indexed : Contents, revision : Revisions]
      BY <1>0 DEF Catalogues, Records
    <2>2. query.file \subseteq Indexable BY <1>0 DEF Searches
    <2>4. PICK f \in query.file :
            \/ query' = NoQuery
            \/ query' = [query EXCEPT !.at = "loaded",
                          !.book = [indexed |-> catalogue.record[f].indexed, revision |-> catalogue.revision]]
      BY <1>26 DEF LoadBook
    <2> DEFINE book == [indexed |-> catalogue.record[f].indexed, revision |-> catalogue.revision]
    <2>5. book \in [indexed : Contents, revision : Revisions] BY <2>1, <2>2
    <2>6. query' = NoQuery \/ query' = [query EXCEPT !.at = "loaded", !.book = book] BY <2>4
    <2> HIDE DEF book
    <2>3. query' \in Searches BY ZenonT(60), <1>0, <1>25, <2>5, <2>6 DEF Searches
    <2> QED BY <1>0, <1>26, <2>3 DEF IndexShape, LoadBook, Asking
  <1>27. CASE Retrieve
    <2>1. query' \in Searches BY ZenonT(60), <1>0, <1>27 DEF Retrieve, Searches
    <2> QED BY <1>0, <1>27, <2>1 DEF IndexShape, Retrieve, Asking
  <1>28. CASE Emit
    <2>2. PICK f \in query.file : query' = NoQuery \/ query' = [query EXCEPT !.at = "emitted", !.saw = disk[f]]
      BY <1>28 DEF Emit
    <2>3. f \in Indexable BY <1>0 DEF Searches
    <2>1. query' \in Searches BY ZenonT(60), <1>0, <1>25, <2>2, <2>3 DEF Searches
    <2> QED BY <1>0, <1>28, <2>1 DEF IndexShape, Emit, Asking
  <1> QED
    BY <1>1, <1>2, <1>3, <1>4, <1>5, <1>6, <1>7, <1>8, <1>9, <1>10, <1>11, <1>13, <1>14, <1>15, <1>16, <1>17,
       <1>18, <1>19, <1>20, <1>21, <1>22, <1>23, <1>24, <1>26, <1>27, <1>28 DEF SearchIndexNext

----------------------------------------------------------------------------
(* The invariant at the start.                                             *)

LEMMA InitInv == SearchIndexInit => IndexInv
PROOF
  <1> SUFFICES ASSUME SearchIndexInit PROVE IndexInv OBVIOUS
  <1> USE IndexAssumption
  <1>1. IndexShape BY InitShape
  <1>2. PICK earlier \in BOOLEAN :
         LET all == IF earlier THEN {<<f, 1>> : f \in {g \in Indexable : Reads(g) # 0}} ELSE {}
             revision == IF earlier THEN {{<<t[1], 1, t[1] \in Parsed>> : t \in all}} ELSE {}
         IN /\ staging = all /\ engine = [words |-> all, vectors |-> all]
            /\ listing = [revision |-> revision, files |-> all]
            /\ catalogue = [NoCatalogue EXCEPT !.revision = revision,
                 !.record = [f \in Indexable |-> [known |-> earlier, mark |-> 0,
                                                indexed |-> IF <<f, 1>> \in all THEN 1 ELSE 0]]]
    BY Zenon DEF SearchIndexInit
  <1> DEFINE all == IF earlier THEN {<<f, 1>> : f \in {g \in Indexable : Reads(g) # 0}} ELSE {}
             revision == IF earlier THEN {{<<t[1], 1, t[1] \in Parsed>> : t \in all}} ELSE {}
             record == [f \in Indexable |-> [known |-> earlier, mark |-> 0,
                                            indexed |-> IF <<f, 1>> \in all THEN 1 ELSE 0]]
  <1>3. /\ staging = all /\ engine = [words |-> all, vectors |-> all]
        /\ listing = [revision |-> revision, files |-> all]
        /\ catalogue = [NoCatalogue EXCEPT !.revision = revision, !.record = record]
    BY <1>2, Zenon
  <1>4. \A f \in Indexable, x \in Contents : <<f, x>> \in all => x = 1 /\ earlier OBVIOUS
  <1>5. ASSUME NEW R \in revision, NEW f \in Indexable, NEW x \in Contents, NEW b \in BOOLEAN, <<f, x, b>> \in R
        PROVE  x = 1 /\ <<f, 1>> \in all
    <2>1. R = {<<t[1], 1, t[1] \in Parsed>> : t \in all} BY <1>5
    <2>2. PICK t \in all : <<f, x, b>> = <<t[1], 1, t[1] \in Parsed>> BY <1>5, <2>1
    <2>3. t[1] = f /\ x = 1 BY <2>2
    <2>4. t = <<t[1], 1>> OBVIOUS
    <2> QED BY <2>3, <2>4
  <1>6. /\ \A f \in Indexable : <<f, 1>> \in all => record[f].indexed = 1
        /\ \A f \in Indexable : <<f, 1>> \notin all => record[f].indexed = 0
    OBVIOUS
  <1>61. \A f \in Indexable : earlier => record[f].known OBVIOUS
  <1>7. catalogue.record = record /\ catalogue.revision = revision /\ ~catalogue.pending
    <2>1. NoCatalogue = [record |-> [f \in Indexable |-> Unknown], revision |-> {}, pending |-> FALSE,
        degraded |-> FALSE]
      BY DEF NoCatalogue
    <2> HIDE DEF record, revision
    <2> QED BY <1>3, <2>1
  <1>8. staging = all /\ listing.files = all /\ engine.words = all /\ engine.vectors = all BY <1>3
  <1> HIDE DEF all, revision, record
  <1>9. /\ indexing.at = "idle" /\ \A f \in Indexable : indexing.seen[f].content = 0
        /\ \A f \in Indexable : indexing.copy.record[f].indexed = 0
    BY DEF SearchIndexInit, NoIndexing, NoCatalogue, Unknown, Unseen
  <1>10. \A f \in Indexable : disk[f].content = 1 /\ disk[f].stamp = 0 BY DEF SearchIndexInit
  <1>11. FilesGrow
    <2>1. ASSUME NEW f \in Indexable PROVE record[f].indexed <= 1
      <3>1. record[f].indexed = 1 \/ record[f].indexed = 0 BY <1>6
      <3> QED BY <3>1
    <2> QED BY <2>1, <1>7, <1>9, <1>10 DEF FilesGrow
  <1>12. VouchesForKnown
    <2>1. ASSUME NEW f \in Indexable, record[f].indexed # 0 PROVE record[f].known
      <3>1. <<f, 1>> \in all BY <1>6, <2>1
      <3>2. earlier BY <1>4, <3>1 DEF Contents
      <3> QED BY <1>61, <3>2
    <2> QED BY <2>1, <1>7, <1>9 DEF VouchesForKnown
  <1>13. Kept(catalogue)
    <2>1. \A f \in Indexable : record[f].indexed # 0 => \A x \in Contents : <<f, x>> \in all <=> x = record[f].indexed
      BY <1>4, <1>6
    <2>2. \A R \in revision, f \in Indexable, x \in Contents, b \in BOOLEAN : <<f, x,
        b>> \in R => x <= record[f].indexed
      <3>1. ASSUME NEW R \in revision, NEW f \in Indexable, NEW x \in Contents, NEW b \in BOOLEAN, <<f, x, b>> \in R
            PROVE  x <= record[f].indexed
        <4>1. x = 1 /\ record[f].indexed = 1 BY ZenonT(60), <1>5, <1>6, <3>1
        <4> QED BY <4>1
      <3> QED BY <3>1
    <2> QED BY <1>7, <1>8, <2>1, <2>2 DEF Kept
  <1>14. KeptByBoth BY <1>9, <1>13 DEF KeptByBoth, Writing
  <1>15. PassKnows /\ PassTakes /\ PassMisses /\ PlacesFollow
      BY <1>9 DEF PassKnows, PassTakes, PassMisses, PlacesFollow, Writing
  <1>16. ShownAsFound BY DEF ShownAsFound, SearchIndexInit, NoQuery
  <1> QED BY <1>1, <1>11, <1>12, <1>14, <1>15, <1>16 DEF IndexInv

----------------------------------------------------------------------------
(* The invariant through every step.                                       *)

\* What the end of a pass leaves.
LEMMA FinishedFields ==
    ASSUME IndexShape
    PROVE  /\ Finished.at = "idle"
           /\ \A f \in Indexable : Finished.seen[f].content = 0 /\ Finished.copy.record[f].indexed = 0
PROOF
  BY DEF Finished, NoIndexing, NoCatalogue, Unknown, Unseen

\* Files only grow newer than what was seen and vouched for.
LEMMA NextGrow == IndexShape /\ FilesGrow /\ [SearchIndexNext]_indexVars => FilesGrow'
PROOF
  <1> SUFFICES ASSUME IndexShape, FilesGrow, [SearchIndexNext]_indexVars, NEW f \in Indexable
               PROVE  /\ disk'[f].content <= disk'[f].stamp + 1
                      /\ indexing'.seen[f].content <= disk'[f].content
                      /\ catalogue'.record[f].indexed <= disk'[f].content
                      /\ indexing'.copy.record[f].indexed <= disk'[f].content
    BY DEF FilesGrow
  <1> DEFINE Goal == /\ disk'[f].content <= disk'[f].stamp + 1
                     /\ indexing'.seen[f].content <= disk'[f].content
                     /\ catalogue'.record[f].indexed <= disk'[f].content
                     /\ indexing'.copy.record[f].indexed <= disk'[f].content
  <1> USE IndexAssumption
  <1>0. /\ indexing \in Passes /\ catalogue \in Catalogues /\ disk \in [Indexable -> FileStates]
        /\ indexing.copy \in Catalogues /\ indexing.seen \in [Indexable -> FileStates]
        /\ indexing.copy.record \in [Indexable -> Records] /\ indexing.left \subseteq Indexable
    BY DEF IndexShape, Passes, Catalogues
  <1>01. /\ disk[f].content \in Nat /\ disk[f].stamp \in Nat /\ indexing.seen[f].content \in Nat
         /\ catalogue.record[f].indexed \in Nat /\ indexing.copy.record[f].indexed \in Nat
    BY <1>0 DEF FileStates, Catalogues, Records, Contents
  <1>02. /\ disk[f].content <= disk[f].stamp + 1 /\ indexing.seen[f].content <= disk[f].content
         /\ catalogue.record[f].indexed <= disk[f].content /\ indexing.copy.record[f].indexed <= disk[f].content
    BY DEF FilesGrow
  <1>03. ASSUME indexing' = Finished, disk' = disk, catalogue'.record[f].indexed <= disk[f].content PROVE Goal
    BY <1>01, <1>02, <1>03, FinishedFields
  <1>04. ASSUME disk' = disk, catalogue' = catalogue, indexing'.seen = indexing.seen, indexing'.copy = indexing.copy
         PROVE  Goal
    BY <1>02, <1>04
  <1>1. CASE UNCHANGED indexVars BY <1>04, <1>1 DEF indexVars
  <1>2. CASE Alter
    <2>1. PICK g \in Indexable, s \in {"there", "hidden", "gone"}, fresh \in BOOLEAN :
            disk' = [disk EXCEPT ![g] = [state |-> s, stamp |-> @.stamp + 1,
                                          content |-> IF fresh THEN @.stamp + 2 ELSE @.content]]
      BY <1>2 DEF Alter
    <2>2. catalogue' = catalogue /\ indexing' = indexing BY <1>2 DEF Alter
    <2>3. CASE g = f BY <1>0, <1>01, <1>02, <2>1, <2>2, <2>3
    <2>4. CASE g # f BY <1>0, <1>02, <2>1, <2>2, <2>4
    <2> QED BY <2>3, <2>4
  <1>3. CASE Readmit BY <1>0, <1>04, <1>3 DEF Readmit, Passes
  <1>4. ASSUME NEW at, Begin(at) PROVE Goal
    <2>1. /\ indexing'.copy = catalogue /\ indexing'.seen = NoIndexing.seen
          /\ disk' = disk /\ catalogue' = catalogue
      BY <1>4 DEF Begin, NoIndexing, InPass
    <2>2. NoIndexing.seen[f].content = 0 BY DEF NoIndexing, Unseen
    <2> QED BY <1>01, <1>02, <2>1, <2>2
  <1>5. CASE Observe
    <2>1. PICK g \in indexing.left :
            indexing' = [indexing EXCEPT !.seen[g] = disk[g],
             !.at = IF indexing.left = {g} THEN "hydrating" ELSE @,
             !.left = IF indexing.left = {g} THEN Parsed ELSE @ \ {g},
             !.copy.record[g] = IF disk[g].state = "gone" THEN @
                                ELSE [known |-> TRUE, indexed |-> @.indexed, mark |-> disk[g].stamp]]
      BY <1>5 DEF Observe
    <2>2. indexing'.seen[f] = (IF f = g THEN disk[f] ELSE indexing.seen[f]) BY <1>0, <2>1 DEF Passes
    <2>3. indexing'.copy.record[f].indexed = indexing.copy.record[f].indexed
      BY <1>0, <2>1 DEF Passes, Catalogues, Records
    <2> QED BY <1>01, <1>02, <1>5, <2>2, <2>3 DEF Observe, InPass
  <1>6. CASE Hydrate
    <2>1. indexing'.copy = indexing.copy /\ (indexing'.seen[f] = indexing.seen[f] \/ indexing'.seen[f] = disk[f])
      <3>1. PICK g \in indexing.left, whole \in BOOLEAN :
              \/ indexing' = [indexing EXCEPT !.left = @ \ {g}, !.seen[g] = disk[g], !.hydrated = @ \cup {g},
                                    !.skipped = @ \/ ~whole]
              \/ indexing' = [indexing EXCEPT !.left = @ \ {g}, !.skipped = @ \/ indexing.seen[g].state # "gone"]
        BY <1>6 DEF Hydrate
      <3>2. indexing'.copy = indexing.copy BY <1>0, <3>1 DEF Passes
      <3>3. indexing'.seen = indexing.seen \/ indexing'.seen = [indexing.seen EXCEPT ![g] = disk[g]]
        BY <1>0, <3>1 DEF Passes
      <3> QED BY <1>0, <3>2, <3>3
    <2> QED BY <1>01, <1>02, <1>6, <2>1 DEF Hydrate, InPass
  <1>7. ASSUME catalogue'.record = Complete.record \/ catalogue'.record = indexing.copy.record
        PROVE  catalogue'.record[f].indexed <= disk[f].content
    <2>1. Unknown.indexed = 0 BY DEF Unknown
    <2> QED BY <1>01, <1>02, <1>7, <2>1, CopyShape
  <1>8. CASE StopsEarly
    <2>1. /\ disk' = disk /\ indexing' = Finished
          /\ catalogue'.record = Complete.record \/ catalogue'.record = indexing.copy.record
      BY <1>0, <1>8, CopyShape DEF StopsEarly, InPass
    <2> QED BY <1>03, <1>7, <2>1
  <1>9. CASE Unchanged
    <2>1. disk' = disk /\ indexing' = Finished /\ catalogue'.record = Complete.record
      BY <1>9, CopyShape DEF Unchanged, InPass, Catalogues
    <2> QED BY <1>03, <1>7, <2>1
  <1>10. CASE MarkPending
    <2>1. /\ disk' = disk /\ catalogue'.record = Complete.record /\ indexing'.copy.record = Complete.record
          /\ indexing'.seen = indexing.seen
      BY <1>0, <1>10, CopyShape DEF MarkPending, ToStage, InPass, Catalogues, Passes
    <2> QED BY <1>01, <1>02, <1>7, <2>1
  <1>11. CASE CollectTexts
    <2>1. indexing'.copy = indexing.copy /\ (indexing'.seen[f] = indexing.seen[f] \/ indexing'.seen[f] = disk[f])
      BY <1>0, <1>11 DEF CollectTexts, Passes
    <2> QED BY <1>01, <1>02, <1>11, <2>1 DEF CollectTexts, InPass
  <1>12. CASE Clear BY <1>0, <1>04, <1>12 DEF Clear, InPass, Passes
  <1>13. CASE Place BY <1>0, <1>04, <1>13 DEF Place, InPass, Passes
  <1>14. CASE ConfirmAdmission BY <1>0, <1>04, <1>14 DEF ConfirmAdmission, InPass, Passes
  <1>15. CASE PublishList BY <1>0, <1>04, <1>15 DEF PublishList, InPass, Passes
  <1>16. CASE UpdateEngine BY <1>0, <1>04, <1>16 DEF UpdateEngine, InPass, Passes
  <1>17. CASE Embed BY <1>0, <1>04, <1>17 DEF Embed, InPass, Passes
  <1>18. CASE PublishFailure
    <2>1. disk' = disk /\ indexing' = Finished /\ catalogue'.record = indexing.copy.record
      BY <1>0, <1>18, CopyShape DEF PublishFailure, InPass
    <2> QED BY <1>03, <1>7, <2>1
  <1>19. CASE RecheckSources BY <1>0, <1>04, <1>19 DEF RecheckSources, InPass, Passes
  <1>20. CASE PublishIndexed
    <2>1. disk' = disk /\ indexing' = Finished BY <1>20 DEF PublishIndexed, InPass
    <2>2. catalogue'.record = [g \in Indexable |-> IF g \in indexing.placed
                                       THEN [indexing.copy.record[g] EXCEPT !.indexed = indexing.seen[g].content]
                                       ELSE indexing.copy.record[g]]
      BY <1>0, <1>20 DEF PublishIndexed, Catalogues
    <2>3. \/ catalogue'.record[f].indexed = indexing.seen[f].content
          \/ catalogue'.record[f].indexed = indexing.copy.record[f].indexed
      BY <1>0, <2>2 DEF Records
    <2> QED BY <1>02, <1>03, <2>1, <2>3
  <1>21. CASE DiePass BY <1>02, <1>03, <1>21 DEF DiePass, InPass
  <1>22. CASE Sweep
    <2>4. PICK g \in indexing.left :
            \E now \in {indexing.copy.record[g], Unknown, [known |-> TRUE, indexed |-> 0, mark |-> disk[g].stamp]} :
              indexing' = [indexing EXCEPT !.left = @ \ {g}, !.copy.record[g] = now,
                                      !.copy.pending = @ \/ now # indexing.copy.record[g]]
      BY <1>22 DEF Sweep
    <2>1. PICK now \in {indexing.copy.record[g], Unknown, [known |-> TRUE, indexed |-> 0, mark |-> disk[g].stamp]} :
            indexing' = [indexing EXCEPT !.left = @ \ {g}, !.copy.record[g] = now,
                                    !.copy.pending = @ \/ now # indexing.copy.record[g]]
      BY <2>4
    <2>2. indexing'.seen = indexing.seen /\ indexing'.copy.record = [indexing.copy.record EXCEPT ![g] = now]
      BY <1>0, <2>1 DEF Passes, Catalogues
    <2>3. indexing'.copy.record[f].indexed = indexing.copy.record[f].indexed \/ indexing'.copy.record[f].indexed = 0
      BY <1>0, <2>1, <2>2 DEF Unknown
    <2>5. disk' = disk /\ catalogue' = catalogue BY <1>22 DEF Sweep, InPass
    <2>6. indexing'.copy.record[f].indexed <= disk[f].content BY <1>01, <1>02, <2>3
    <2> QED BY <1>02, <2>2, <2>5, <2>6
  <1>23. CASE PublishSweep
    <2>1. disk' = disk /\ indexing' = Finished /\ catalogue'.record = indexing.copy.record
      BY <1>23 DEF PublishSweep, InPass
    <2> QED BY <1>03, <1>7, <2>1
  <1>24. CASE Ask \/ LoadBook \/ Retrieve \/ Emit BY <1>04, <1>24 DEF Ask, LoadBook, Retrieve, Emit, Asking
  <1> QED
    BY <1>1, <1>2, <1>3, <1>4, <1>5, <1>6, <1>8, <1>9, <1>10, <1>11, <1>12, <1>13, <1>14, <1>15, <1>16, <1>17,
       <1>18, <1>19, <1>20, <1>21, <1>22, <1>23, <1>24 DEF SearchIndexNext

\* What the steps of a writing pass leave alone.
LEMMA QuietFields ==
    ASSUME IndexShape,
           Readmit \/ Clear \/ Place \/ ConfirmAdmission \/ PublishList \/ UpdateEngine \/ Embed \/ RecheckSources
    PROVE  /\ disk' = disk /\ catalogue' = catalogue /\ query' = query
           /\ indexing'.seen = indexing.seen /\ indexing'.copy = indexing.copy
           /\ indexing'.revision = indexing.revision /\ indexing'.left = indexing.left
           /\ indexing.at \in Writing /\ indexing'.at \in Writing
           /\ indexing'.picked \cup indexing'.placed \subseteq indexing.picked \cup indexing.placed
PROOF
  <1>0. indexing \in Passes BY DEF IndexShape
  <1>1. CASE Readmit BY <1>0, <1>1 DEF Readmit, Passes, Writing
  <1>2. CASE Clear BY <1>0, <1>2 DEF Clear, InPass, Passes, Writing
  <1>3. CASE Place
    <2>1. PICK f \in indexing.picked :
            \/ indexing' = [indexing EXCEPT !.picked = @ \ {f}, !.placed = @ \cup {f}]
            \/ indexing' = [indexing EXCEPT !.picked = @ \ {f}, !.skipped = TRUE]
      BY <1>3 DEF Place
    <2>2. indexing'.picked \cup indexing'.placed \subseteq indexing.picked \cup indexing.placed
        BY ZenonT(60), <1>0, <2>1 DEF Passes
    <2>3. /\ indexing'.seen = indexing.seen /\ indexing'.copy = indexing.copy
          /\ indexing'.revision = indexing.revision /\ indexing'.left = indexing.left
          /\ indexing'.at = indexing.at
      BY <1>0, <2>1 DEF Passes
    <2> QED BY <1>3, <2>2, <2>3 DEF Place, InPass, Writing
  <1>4. CASE ConfirmAdmission BY <1>0, <1>4 DEF ConfirmAdmission, InPass, Passes, Writing
  <1>5. CASE PublishList BY <1>0, <1>5 DEF PublishList, InPass, Passes, Writing
  <1>6. CASE UpdateEngine BY <1>0, <1>6 DEF UpdateEngine, InPass, Passes, Writing
  <1>7. CASE Embed BY <1>0, <1>7 DEF Embed, InPass, Passes, Writing
  <1>8. CASE RecheckSources BY <1>0, <1>8 DEF RecheckSources, InPass, Passes, Writing
  <1> QED BY <1>1, <1>2, <1>3, <1>4, <1>5, <1>6, <1>7, <1>8

\* What a query leaves alone.
LEMMA QueryFields ==
    ASSUME Ask \/ LoadBook \/ Retrieve \/ Emit
    PROVE  UNCHANGED <<disk, catalogue, staging, listing, engine, indexing>>
PROOF
  BY DEF Ask, LoadBook, Retrieve, Emit, Asking

\* What the beginning of a pass or a sweep gives it.
LEMMA BeginFields ==
    ASSUME NEW at \in {"observing", "sweeping"}, Begin(at)
    PROVE  /\ UNCHANGED <<disk, catalogue, staging, listing, engine, query>>
           /\ indexing'.at = at /\ indexing'.copy = catalogue /\ at \notin Writing
           /\ \A f \in Indexable : indexing'.seen[f].state = "gone"
           /\ indexing'.picked = {} /\ indexing'.placed = {}
PROOF
  BY DEF Begin, NoIndexing, InPass, Unseen, Writing

\* What the observation of a file does to the copy.
LEMMA ObserveFields ==
    ASSUME IndexShape, Observe
    PROVE  /\ UNCHANGED <<disk, catalogue, staging, listing, engine, query>>
           /\ indexing.at = "observing" /\ indexing'.at \in {"observing", "hydrating"}
           /\ indexing'.copy.revision = indexing.copy.revision
           /\ indexing'.copy.pending <=> indexing.copy.pending
           /\ indexing'.picked = indexing.picked /\ indexing'.placed = indexing.placed
           /\ \A f \in Indexable :
                /\ indexing'.copy.record[f].indexed = indexing.copy.record[f].indexed
                /\ indexing.copy.record[f].known => indexing'.copy.record[f].known
                /\ \/ indexing'.seen[f] = indexing.seen[f]
                   \/ indexing'.seen[f].state # "gone" => indexing'.copy.record[f].known
PROOF
  <1>0. /\ indexing \in Passes /\ indexing.copy \in Catalogues /\ indexing.copy.record \in [Indexable -> Records]
        /\ indexing.seen \in [Indexable -> FileStates] /\ indexing.left \subseteq Indexable
    BY DEF IndexShape, Passes, Catalogues
  <1>1. PICK g \in indexing.left :
            indexing' = [indexing EXCEPT !.seen[g] = disk[g],
             !.at = IF indexing.left = {g} THEN "hydrating" ELSE @,
             !.left = IF indexing.left = {g} THEN Parsed ELSE @ \ {g},
             !.copy.record[g] = IF disk[g].state = "gone" THEN @
                                ELSE [known |-> TRUE, indexed |-> @.indexed, mark |-> disk[g].stamp]]
    BY DEF Observe
  <1> DEFINE now == IF disk[g].state = "gone" THEN indexing.copy.record[g]
                    ELSE [known |-> TRUE, indexed |-> indexing.copy.record[g].indexed, mark |-> disk[g].stamp]
  <1>2. /\ indexing'.copy = [indexing.copy EXCEPT !.record = [indexing.copy.record EXCEPT ![g] = now]]
        /\ indexing'.seen = [indexing.seen EXCEPT ![g] = disk[g]]
    BY <1>0, <1>1 DEF Passes, Catalogues
  <1>3. /\ now.indexed = indexing.copy.record[g].indexed /\ (indexing.copy.record[g].known => now.known)
        /\ disk[g].state # "gone" => now.known
    BY <1>0 DEF Records
  <1> HIDE DEF now
  <1>4. /\ indexing'.copy.record = [indexing.copy.record EXCEPT ![g] = now]
        /\ indexing'.copy.revision = indexing.copy.revision /\ (indexing'.copy.pending <=> indexing.copy.pending)
    BY <1>0, <1>2 DEF Catalogues
  <1>5. \A f \in Indexable :
                /\ indexing'.copy.record[f].indexed = indexing.copy.record[f].indexed
                /\ indexing.copy.record[f].known => indexing'.copy.record[f].known
                /\ \/ indexing'.seen[f] = indexing.seen[f]
                   \/ indexing'.seen[f].state # "gone" => indexing'.copy.record[f].known
    BY <1>0, <1>2, <1>3, <1>4
  <1>6. /\ UNCHANGED <<disk, catalogue, staging, listing, engine, query>>
        /\ indexing.at = "observing" /\ indexing'.at \in {"observing", "hydrating"}
        /\ indexing'.picked = indexing.picked /\ indexing'.placed = indexing.placed
    BY <1>0, <1>1 DEF Observe, InPass, Passes
  <1> QED BY <1>4, <1>5, <1>6

\* What the hydration of a document does.
LEMMA HydrateFields ==
    ASSUME IndexShape, Hydrate
    PROVE  /\ UNCHANGED <<disk, catalogue, staging, listing, engine, query>>
           /\ indexing.at = "hydrating" /\ indexing'.at = "hydrating" /\ indexing'.copy = indexing.copy
           /\ indexing'.picked = indexing.picked /\ indexing'.placed = indexing.placed
           /\ \A f \in Indexable : indexing'.seen[f] = indexing.seen[f] \/ indexing.seen[f].state # "gone"
PROOF
  <1>0. /\ indexing \in Passes /\ indexing.seen \in [Indexable -> FileStates] /\ indexing.left \subseteq Indexable
    BY DEF IndexShape, Passes
  <1>1. PICK g \in indexing.left, whole \in BOOLEAN :
         \/ /\ Reads(g) # 0 /\ indexing.seen[g].state \in {"hidden", disk[g].state}
            /\ indexing' = [indexing EXCEPT !.left = @ \ {g}, !.seen[g] = disk[g], !.hydrated = @ \cup {g},
                                    !.skipped = @ \/ ~whole]
         \/ indexing' = [indexing EXCEPT !.left = @ \ {g}, !.skipped = @ \/ indexing.seen[g].state # "gone"]
    BY DEF Hydrate
  <1>2. /\ indexing'.copy = indexing.copy /\ indexing'.at = indexing.at
        /\ indexing'.picked = indexing.picked /\ indexing'.placed = indexing.placed
    BY <1>0, <1>1 DEF Passes
  <1>3. \/ indexing'.seen = indexing.seen
        \/ Reads(g) # 0 /\ indexing.seen[g].state \in {"hidden", disk[g].state}
           /\ indexing'.seen = [indexing.seen EXCEPT ![g] = disk[g]]
    BY <1>0, <1>1 DEF Passes
  <1>4. Reads(g) # 0 => disk[g].state = "there" BY DEF Reads
  <1>5. \A f \in Indexable : indexing'.seen[f] = indexing.seen[f] \/ indexing.seen[f].state # "gone"
    BY <1>0, <1>3, <1>4
  <1>6. UNCHANGED <<disk, catalogue, staging, listing, engine, query>> /\ indexing.at = "hydrating"
      BY DEF Hydrate, InPass
  <1> QED BY <1>2, <1>5, <1>6

\* What the mark gives the catalogue and the copy.
LEMMA MarkFields ==
    ASSUME IndexShape, MarkPending
    PROVE  /\ UNCHANGED <<disk, staging, listing, engine, query>>
           /\ catalogue'.record = Complete.record /\ indexing'.copy.record = Complete.record
           /\ catalogue'.pending /\ indexing'.copy.pending
           /\ indexing.at = "hydrating" /\ indexing'.at = "collecting"
           /\ indexing'.revision = Revision(indexing.seen, indexing.hydrated)
           /\ indexing'.seen = indexing.seen /\ indexing'.left = Indexable
           /\ indexing'.placed = indexing.placed /\ indexing'.picked = indexing.picked
PROOF
  <1>0. indexing \in Passes /\ Complete \in Catalogues BY CopyShape DEF IndexShape
  <1> QED BY <1>0 DEF MarkPending, ToStage, AllObserved, InPass, Passes, Catalogues

\* What the collection of a file does.
LEMMA CollectFields ==
    ASSUME IndexShape, CollectTexts
    PROVE  /\ UNCHANGED <<disk, catalogue, staging, listing, engine, query>>
           /\ indexing.at = "collecting" /\ indexing'.at = "collecting"
           /\ indexing'.copy = indexing.copy /\ indexing'.placed = indexing.placed
           /\ indexing'.revision = indexing.revision
           /\ \A f \in Indexable : indexing'.seen[f] = indexing.seen[f] \/ indexing'.seen[f] = disk[f]
           /\ \E g \in indexing.left :
                /\ indexing'.left = indexing.left \ {g} /\ indexing.picked \subseteq indexing'.picked
                /\ indexing.skipped => indexing'.skipped
                /\ \A f \in indexing'.picked : f \in indexing.picked \/ indexing.copy.record[f].known
                /\ indexing.copy.record[g].known => indexing'.skipped \/ g \in indexing'.picked
PROOF
  <1>0. /\ indexing \in Passes /\ indexing.seen \in [Indexable -> FileStates] /\ indexing.left \subseteq Indexable
    BY DEF IndexShape, Passes
  <1>1. PICK g \in indexing.left :
         LET takes == indexing.copy.record[g].known /\ Stageable(g) IN
         indexing' = [indexing EXCEPT !.left = @ \ {g},
             !.seen[g] = IF takes THEN disk[g] ELSE @,
             !.picked = IF takes THEN @ \cup {g} ELSE @,
             !.skipped = @ \/ (indexing.copy.record[g].known /\ ~takes)]
    BY DEF CollectTexts
  <1>2. /\ indexing'.copy = indexing.copy /\ indexing'.at = indexing.at /\ indexing'.placed = indexing.placed
        /\ indexing'.revision = indexing.revision /\ indexing'.left = indexing.left \ {g}
    BY <1>0, <1>1 DEF Passes
  <1>3. \A f \in Indexable : indexing'.seen[f] = indexing.seen[f] \/ indexing'.seen[f] = disk[f]
    BY <1>0, <1>1 DEF Passes
  <1>4. /\ indexing.picked \subseteq indexing'.picked /\ (indexing.skipped => indexing'.skipped)
        /\ \A f \in indexing'.picked : f \in indexing.picked \/ indexing.copy.record[f].known
        /\ indexing.copy.record[g].known => indexing'.skipped \/ g \in indexing'.picked
    BY <1>0, <1>1 DEF Passes
  <1>5. UNCHANGED <<disk, catalogue, staging, listing, engine, query>> /\ indexing.at = "collecting"
    BY DEF CollectTexts, InPass
  <1> QED BY <1>2, <1>3, <1>4, <1>5

\* What the sweep of a file does: it keeps the record, or marks the copy.
LEMMA SweepFields ==
    ASSUME IndexShape, Sweep
    PROVE  /\ UNCHANGED <<disk, catalogue, staging, listing, engine, query>>
           /\ indexing.at = "sweeping" /\ indexing'.at = "sweeping"
           /\ indexing'.copy.pending \/ indexing'.copy.record = indexing.copy.record
           /\ indexing'.copy.revision = indexing.copy.revision /\ (indexing.copy.pending => indexing'.copy.pending)
           /\ \A f \in Indexable :
                indexing'.copy.record[f] = indexing.copy.record[f] \/ indexing'.copy.record[f].indexed = 0
PROOF
  <1>0. /\ indexing \in Passes /\ indexing.copy \in Catalogues /\ indexing.copy.record \in [Indexable -> Records]
        /\ indexing.left \subseteq Indexable
    BY DEF IndexShape, Passes, Catalogues
  <1>1. PICK g \in indexing.left :
            \E now \in {indexing.copy.record[g], Unknown, [known |-> TRUE, indexed |-> 0, mark |-> disk[g].stamp]} :
              indexing' = [indexing EXCEPT !.left = @ \ {g}, !.copy.record[g] = now,
                                      !.copy.pending = @ \/ now # indexing.copy.record[g]]
    BY DEF Sweep
  <1>2. PICK now \in {indexing.copy.record[g], Unknown, [known |-> TRUE, indexed |-> 0, mark |-> disk[g].stamp]} :
            indexing' = [indexing EXCEPT !.left = @ \ {g}, !.copy.record[g] = now,
                                    !.copy.pending = @ \/ now # indexing.copy.record[g]]
    BY <1>1
  <1>3. indexing'.copy = [indexing.copy EXCEPT !.record = [indexing.copy.record EXCEPT ![g] = now],
                            !.pending = indexing.copy.pending \/ now # indexing.copy.record[g]]
    BY <1>0, <1>2 DEF Passes, Catalogues
  <1>4. indexing'.copy.record = [indexing.copy.record EXCEPT ![g] = now] BY <1>0, <1>3 DEF Catalogues
  <1>7. indexing'.at = indexing.at BY <1>0, <1>2 DEF Passes
  <1>8. UNCHANGED <<disk, catalogue, staging, listing, engine, query>> /\ indexing.at = "sweeping"
      BY DEF Sweep, InPass
  <1>9. /\ indexing'.copy.pending \/ indexing'.copy.record = indexing.copy.record
        /\ indexing'.copy.revision = indexing.copy.revision /\ (indexing.copy.pending => indexing'.copy.pending)
        /\ \A f \in Indexable :
             indexing'.copy.record[f] = indexing.copy.record[f] \/ indexing'.copy.record[f].indexed = 0
    <2>1. CASE now = indexing.copy.record[g]
      <3>1. indexing'.copy.record = indexing.copy.record BY <1>0, <1>4, <2>1
      <3>2. indexing'.copy.revision = indexing.copy.revision /\ (indexing.copy.pending => indexing'.copy.pending)
        BY <1>0, <1>3, <2>1 DEF Catalogues
      <3> QED BY <3>1, <3>2
    <2>2. CASE now # indexing.copy.record[g]
      <3>1. indexing'.copy.pending /\ indexing'.copy.revision = indexing.copy.revision
          BY <1>0, <1>3, <2>2 DEF Catalogues
      <3>2. now.indexed = 0 BY <1>2, <2>2 DEF Unknown
      <3> QED BY <1>0, <1>4, <3>1, <3>2
    <2> QED BY <2>1, <2>2
  <1> QED BY <1>7, <1>8, <1>9

\* Only what is known is vouched for.
LEMMA NextKnown ==
    IndexShape /\ VouchesForKnown /\ PassTakes /\ [SearchIndexNext]_indexVars => VouchesForKnown'
PROOF
  <1> SUFFICES ASSUME IndexShape, VouchesForKnown, PassTakes, [SearchIndexNext]_indexVars, NEW f \in Indexable
               PROVE  /\ catalogue'.record[f].indexed # 0 => catalogue'.record[f].known
                      /\ indexing'.copy.record[f].indexed # 0 => indexing'.copy.record[f].known
    BY DEF VouchesForKnown
  <1>0. /\ indexing \in Passes /\ catalogue \in Catalogues /\ indexing.copy \in Catalogues
        /\ indexing.copy.record \in [Indexable -> Records]
    BY DEF IndexShape, Passes, Catalogues
  <1>01. /\ catalogue.record[f].indexed # 0 => catalogue.record[f].known
         /\ indexing.copy.record[f].indexed # 0 => indexing.copy.record[f].known
         /\ Complete.record[f].indexed # 0 => Complete.record[f].known
    BY CopyShape DEF VouchesForKnown, Unknown
  <1>02. \A g \in Indexable : Finished.copy.record[g].indexed = 0 BY FinishedFields
  <1>1. CASE UNCHANGED indexVars BY <1>01, <1>1 DEF indexVars
  <1>2. CASE Alter BY <1>01, <1>2 DEF Alter
  <1>3. CASE Readmit \/ Clear \/ Place \/ ConfirmAdmission \/ PublishList \/ UpdateEngine \/ Embed \/ RecheckSources
    BY <1>01, <1>3, QuietFields
  <1>4. ASSUME NEW at \in {"observing", "sweeping"}, Begin(at)
        PROVE  /\ catalogue'.record[f].indexed # 0 => catalogue'.record[f].known
               /\ indexing'.copy.record[f].indexed # 0 => indexing'.copy.record[f].known
    BY <1>01, <1>4, BeginFields
  <1>5. CASE Observe BY <1>01, <1>5, ObserveFields
  <1>6. CASE Hydrate BY <1>01, <1>6, HydrateFields
  <1>7. CASE StopsEarly
    <2>1. indexing' = Finished /\ (catalogue'.record = Complete.record \/ catalogue'.record = indexing.copy.record)
      BY <1>0, <1>7, CopyShape DEF StopsEarly
    <2> QED BY <1>01, <1>02, <2>1
  <1>8. CASE Unchanged
    <2>1. indexing' = Finished /\ catalogue'.record = Complete.record BY <1>8, CopyShape DEF Unchanged, Catalogues
    <2> QED BY <1>01, <1>02, <2>1
  <1>9. CASE MarkPending BY <1>01, <1>9, MarkFields
  <1>10. CASE CollectTexts BY <1>01, <1>10, CollectFields
  <1>11. CASE PublishFailure
    <2>1. indexing' = Finished /\ catalogue'.record = indexing.copy.record
        BY <1>0, <1>11, CopyShape DEF PublishFailure
    <2> QED BY <1>01, <1>02, <2>1
  <1>12. CASE PublishIndexed
    <2>1. indexing' = Finished BY <1>12 DEF PublishIndexed
    <2>2. catalogue'.record = [g \in Indexable |-> IF g \in indexing.placed
                                       THEN [indexing.copy.record[g] EXCEPT !.indexed = indexing.seen[g].content]
                                       ELSE indexing.copy.record[g]]
      BY <1>0, <1>12 DEF PublishIndexed, Catalogues
    <2>3. f \in indexing.placed => indexing.copy.record[f].known BY <1>12 DEF PublishIndexed, PassTakes, Writing
    <2> QED BY <1>0, <1>01, <1>02, <2>1, <2>2, <2>3 DEF Records
  <1>13. CASE DiePass BY <1>01, <1>02, <1>13 DEF DiePass
  <1>14. CASE Sweep BY <1>01, <1>14, SweepFields
  <1>15. CASE PublishSweep BY <1>01, <1>02, <1>15 DEF PublishSweep
  <1>16. CASE Ask \/ LoadBook \/ Retrieve \/ Emit BY <1>01, <1>16, QueryFields
  <1> QED
    BY <1>1, <1>2, <1>3, <1>4, <1>5, <1>6, <1>7, <1>8, <1>9, <1>10, <1>11, <1>12, <1>13, <1>14, <1>15, <1>16
    DEF SearchIndexNext

\* A pass takes only what it knows, through every step.
LEMMA NextTakes == IndexShape /\ PassTakes /\ [SearchIndexNext]_indexVars => PassTakes'
PROOF
  <1> SUFFICES ASSUME IndexShape, PassTakes, [SearchIndexNext]_indexVars PROVE PassTakes' OBVIOUS
  <1>0. indexing \in Passes /\ indexing.picked \subseteq Indexable /\ indexing.placed \subseteq Indexable
      BY DEF IndexShape, Passes
  <1>1. CASE UNCHANGED indexVars BY <1>1 DEF indexVars, PassTakes
  <1>2. CASE Alter BY <1>2 DEF Alter, PassTakes
  <1>3. CASE Readmit \/ Clear \/ Place \/ ConfirmAdmission \/ PublishList \/ UpdateEngine \/ Embed \/ RecheckSources
    <2>1. indexing'.at \notin {"observing", "hydrating"} BY <1>3, QuietFields DEF Writing
    <2>2. indexing'.copy = indexing.copy /\ indexing.at \in Writing
          /\ indexing'.picked \cup indexing'.placed \subseteq indexing.picked \cup indexing.placed
      BY <1>3, QuietFields
    <2> QED BY <2>1, <2>2 DEF PassTakes
  <1>4. ASSUME NEW at \in {"observing", "sweeping"}, Begin(at) PROVE PassTakes' BY <1>4, BeginFields DEF PassTakes
  <1>5. CASE Observe BY <1>5, ObserveFields DEF PassTakes, Writing
  <1>6. CASE Hydrate BY <1>6, HydrateFields DEF PassTakes, Writing
  <1>7. CASE MarkPending BY <1>7, MarkFields DEF PassTakes, Writing
  <1>8. CASE CollectTexts
    <2>1. \A f \in indexing'.picked : f \in indexing.picked \/ indexing.copy.record[f].known BY <1>8, CollectFields
    <2>2. /\ indexing'.copy = indexing.copy /\ indexing'.placed = indexing.placed
          /\ indexing.at = "collecting" /\ indexing'.at = "collecting"
      BY <1>8, CollectFields
    <2> QED BY <2>1, <2>2 DEF PassTakes, Writing
  <1>9. ASSUME indexing' = Finished PROVE PassTakes'
    BY <1>9, FinishedFields DEF PassTakes, Writing
  <1>10. CASE StopsEarly \/ Unchanged \/ PublishFailure \/ PublishIndexed \/ DiePass \/ PublishSweep
    BY <1>9, <1>10 DEF StopsEarly, Unchanged, PublishFailure, PublishIndexed, DiePass, PublishSweep
  <1>11. CASE Sweep BY <1>11, SweepFields DEF PassTakes, Writing
  <1>12. CASE Ask \/ LoadBook \/ Retrieve \/ Emit BY <1>12, QueryFields DEF PassTakes
  <1> QED BY <1>1, <1>2, <1>3, <1>4, <1>5, <1>6, <1>7, <1>8, <1>10, <1>11, <1>12 DEF SearchIndexNext

\* What a pass has seen it knows, through every step.
LEMMA NextKnows ==
    IndexShape /\ FilesGrow /\ PassKnows /\ [SearchIndexNext]_indexVars => PassKnows'
PROOF
  <1> SUFFICES ASSUME IndexShape, FilesGrow, PassKnows, [SearchIndexNext]_indexVars PROVE PassKnows' OBVIOUS
  <1>0. /\ indexing \in Passes /\ indexing.seen \in [Indexable -> FileStates]
    BY DEF IndexShape, Passes
  <1>1. CASE UNCHANGED indexVars BY <1>1 DEF indexVars, PassKnows
  <1>2. CASE Alter BY <1>2 DEF Alter, PassKnows
  <1>3. CASE Readmit \/ Clear \/ Place \/ ConfirmAdmission \/ PublishList \/ UpdateEngine \/ Embed \/ RecheckSources
    <2>1. indexing'.at \notin {"observing", "hydrating"} BY <1>3, QuietFields DEF Writing
    <2>2. /\ indexing'.copy = indexing.copy /\ indexing'.seen = indexing.seen
          /\ indexing'.revision = indexing.revision /\ indexing.at \in Writing
      BY <1>3, QuietFields
    <2> QED BY <2>1, <2>2 DEF PassKnows
  <1>4. ASSUME NEW at \in {"observing", "sweeping"}, Begin(at) PROVE PassKnows' BY <1>4, BeginFields DEF PassKnows
  <1>5. CASE Observe
    <2>1. ASSUME NEW f \in Indexable, indexing'.seen[f].state # "gone" PROVE indexing'.copy.record[f].known
      BY <1>5, <2>1, ObserveFields DEF PassKnows
    <2> QED BY <1>5, <2>1, ObserveFields DEF PassKnows, Writing
  <1>6. CASE Hydrate
    <2>1. ASSUME NEW f \in Indexable, indexing'.seen[f].state # "gone" PROVE indexing'.copy.record[f].known
      BY <1>6, <2>1, HydrateFields DEF PassKnows
    <2> QED BY <1>6, <2>1, HydrateFields DEF PassKnows, Writing
  <1>7. CASE MarkPending
    <2>1. ASSUME NEW R \in indexing'.revision, NEW f \in Indexable, NEW x \in Contents, NEW b \in BOOLEAN, <<f, x,
        b>> \in R
          PROVE  indexing'.copy.record[f].known /\ x <= indexing'.seen[f].content
      <3>1. indexing.seen[f].state = "there" /\ x = indexing.seen[f].content
        BY <1>0, <1>7, <2>1, MarkFields, RevisionShape
      <3>2. indexing.copy.record[f].known BY <1>7, <3>1, MarkFields DEF PassKnows
      <3>3. indexing'.copy.record[f] = indexing.copy.record[f] BY <1>7, <3>1, MarkFields, CopyShape
      <3>4. x <= x BY IndexAssumption DEF Contents
      <3> QED BY <1>7, <3>1, <3>2, <3>3, <3>4, MarkFields
    <2> QED BY <1>7, <2>1, MarkFields DEF PassKnows, Writing
  <1>8. CASE CollectTexts
    <2>1. ASSUME NEW R \in indexing'.revision, NEW f \in Indexable, NEW x \in Contents, NEW b \in BOOLEAN, <<f, x,
        b>> \in R
          PROVE  indexing'.copy.record[f].known /\ x <= indexing'.seen[f].content
      <3>1. indexing.copy.record[f].known /\ x <= indexing.seen[f].content
        BY <1>8, <2>1, CollectFields DEF PassKnows, Writing
      <3>2. indexing.seen[f].content <= disk[f].content BY DEF FilesGrow
      <3>3. x \in Nat /\ indexing.seen[f].content \in Nat /\ disk[f].content \in Nat
        BY <1>0, IndexAssumption DEF IndexShape, FileStates, Contents
      <3>4. x <= disk[f].content BY <3>1, <3>2, <3>3
      <3> QED BY <1>8, <3>1, <3>4, CollectFields
    <2> QED BY <1>8, <2>1, CollectFields DEF PassKnows, Writing
  <1>9. ASSUME indexing' = Finished PROVE PassKnows'
    BY <1>9, FinishedFields DEF PassKnows, Writing
  <1>10. CASE StopsEarly \/ Unchanged \/ PublishFailure \/ PublishIndexed \/ DiePass \/ PublishSweep
    BY <1>9, <1>10 DEF StopsEarly, Unchanged, PublishFailure, PublishIndexed, DiePass, PublishSweep
  <1>11. CASE Sweep BY <1>11, SweepFields DEF PassKnows, Writing
  <1>12. CASE Ask \/ LoadBook \/ Retrieve \/ Emit BY <1>12, QueryFields DEF PassKnows
  <1> QED BY <1>1, <1>2, <1>3, <1>4, <1>5, <1>6, <1>7, <1>8, <1>10, <1>11, <1>12 DEF SearchIndexNext

\* A pass that has left nothing out has all it knows, through every step.
LEMMA NextMisses ==
    IndexShape /\ PassTakes /\ PassMisses /\ [SearchIndexNext]_indexVars => PassMisses'
PROOF
  <1> SUFFICES ASSUME IndexShape, PassTakes, PassMisses, [SearchIndexNext]_indexVars PROVE PassMisses' OBVIOUS
  <1>0. indexing \in Passes BY DEF IndexShape
  <1>1. CASE UNCHANGED indexVars BY <1>1 DEF indexVars, PassMisses
  <1>2. CASE Alter BY <1>2 DEF Alter, PassMisses
  <1>3. CASE Readmit
    <2>1. /\ indexing'.at = indexing.at /\ indexing'.copy = indexing.copy /\ indexing'.left = indexing.left
          /\ indexing'.picked = indexing.picked /\ indexing'.placed = indexing.placed
          /\ indexing'.skipped <=> indexing.skipped
      BY <1>0, <1>3 DEF Readmit, Passes
    <2> QED BY <2>1 DEF PassMisses
  <1>4. ASSUME NEW at \in {"observing", "sweeping"}, Begin(at) PROVE PassMisses' BY <1>4, BeginFields DEF PassMisses
  <1>5. CASE Observe BY <1>5, ObserveFields DEF PassMisses
  <1>6. CASE Hydrate BY <1>6, HydrateFields DEF PassMisses
  <1>7. CASE MarkPending BY <1>7, MarkFields DEF PassMisses, PassTakes
  <1>8. CASE CollectTexts
    <2>1. /\ indexing.at = "collecting" /\ indexing'.at = "collecting"
          /\ indexing'.copy = indexing.copy /\ indexing'.placed = indexing.placed
      BY <1>8, CollectFields
    <2>2. PICK g \in indexing.left :
                /\ indexing'.left = indexing.left \ {g} /\ indexing.picked \subseteq indexing'.picked
                /\ indexing.skipped => indexing'.skipped
                /\ indexing.copy.record[g].known => indexing'.skipped \/ g \in indexing'.picked
      BY <1>8, CollectFields
    <2>3. ASSUME ~indexing'.skipped, NEW f \in Indexable \ indexing'.left, indexing'.copy.record[f].known
          PROVE  f \in indexing'.picked
      BY <2>1, <2>2, <2>3 DEF PassMisses
    <2> QED BY <2>1, <2>3 DEF PassMisses
  <1>9. CASE Clear
    <2>1. /\ indexing'.copy = indexing.copy /\ indexing'.placed = indexing.placed /\ indexing'.picked = indexing.picked
          /\ indexing'.skipped <=> indexing.skipped
          /\ indexing'.left = indexing.left /\ indexing.left = {} /\ indexing.at = "collecting"
          /\ indexing'.at \in {"collecting", "failing", "placing"}
      BY <1>0, <1>9 DEF Clear, Passes
    <2> QED BY <2>1 DEF PassMisses
  <1>10. CASE Place
    <2>1. PICK f \in indexing.picked :
            \/ indexing' = [indexing EXCEPT !.picked = @ \ {f}, !.placed = @ \cup {f}]
            \/ indexing' = [indexing EXCEPT !.picked = @ \ {f}, !.skipped = TRUE]
      BY <1>10 DEF Place
    <2>2. indexing'.skipped \/ (indexing.picked \cup indexing.placed \subseteq indexing'.picked \cup indexing'.placed
                                /\ (indexing.skipped => indexing'.skipped))
      BY ZenonT(60), <1>0, <2>1 DEF Passes
    <2>3. /\ indexing'.copy = indexing.copy /\ indexing'.at = indexing.at BY <1>0, <2>1 DEF Passes
    <2>4. indexing.at = "placing" BY <1>10 DEF Place
    <2> QED BY <2>2, <2>3, <2>4 DEF PassMisses
  <1>11. CASE ConfirmAdmission
    <2>1. /\ indexing'.copy = indexing.copy /\ indexing'.at \in {"listing", "delisting"}
          /\ indexing'.skipped \/ (indexing'.placed = indexing.placed /\ (indexing.skipped => indexing'.skipped))
          /\ indexing.at = "placing" /\ indexing.picked = {}
      BY <1>0, <1>11 DEF ConfirmAdmission, Passes
    <2> QED BY <2>1 DEF PassMisses
  <1>12. CASE PublishList \/ UpdateEngine \/ Embed \/ RecheckSources
    <2>1. /\ indexing'.copy = indexing.copy /\ indexing'.placed = indexing.placed
          /\ indexing'.skipped <=> indexing.skipped
      BY <1>0, <1>12 DEF PublishList, UpdateEngine, Embed, RecheckSources, Passes
    <2>2. \/ indexing'.at = "failing"
          \/ /\ indexing.at \in {"listing", "updating", "embedding", "checking"}
             /\ indexing'.at \in {"updating", "embedding", "checking"}
      BY <1>0, <1>12 DEF PublishList, UpdateEngine, Embed, RecheckSources, Passes
    <2> QED BY <2>1, <2>2 DEF PassMisses
  <1>13. ASSUME indexing' = Finished PROVE PassMisses' BY <1>13, FinishedFields DEF PassMisses
  <1>14. CASE StopsEarly \/ Unchanged \/ PublishFailure \/ PublishIndexed \/ DiePass \/ PublishSweep
    BY <1>13, <1>14 DEF StopsEarly, Unchanged, PublishFailure, PublishIndexed, DiePass, PublishSweep
  <1>15. CASE Sweep BY <1>15, SweepFields DEF PassMisses
  <1>16. CASE Ask \/ LoadBook \/ Retrieve \/ Emit BY <1>16, QueryFields DEF PassMisses
  <1> QED BY <1>1, <1>2, <1>3, <1>4, <1>5, <1>6, <1>7, <1>8, <1>9, <1>10, <1>11, <1>12, <1>14, <1>15, <1>16
          DEF SearchIndexNext

\* The places follow what was placed, through every step.
LEMMA NextPlaces ==
    IndexShape /\ PassMisses /\ PlacesFollow /\ [SearchIndexNext]_indexVars => PlacesFollow'
PROOF
  <1> SUFFICES ASSUME IndexShape, PassMisses, PlacesFollow, [SearchIndexNext]_indexVars PROVE PlacesFollow' OBVIOUS
  <1>0. indexing \in Passes /\ engine \in [words : SUBSET Texts, vectors : SUBSET Texts] BY DEF IndexShape
  <1> DEFINE Placed == {Content(f) : f \in indexing.placed}
  <1>01. ASSUME indexing'.seen = indexing.seen PROVE \A f : Content(f)' = Content(f) BY <1>01 DEF Content
  <1>02. ASSUME indexing'.at \notin {"placing", "listing", "updating", "embedding", "checking"} PROVE PlacesFollow'
    BY <1>02 DEF PlacesFollow
  <1>1. CASE UNCHANGED indexVars BY <1>1 DEF indexVars, PlacesFollow, Content
  <1>2. CASE Alter BY <1>2 DEF Alter, PlacesFollow, Content
  <1>3. CASE Readmit
    <2>1. indexing'.at = indexing.at /\ indexing'.placed = indexing.placed /\ indexing'.seen = indexing.seen
      BY <1>0, <1>3 DEF Readmit, Passes
    <2> QED BY <1>3, <2>1 DEF Readmit, PlacesFollow, Content
  <1>4. ASSUME NEW at \in {"observing", "sweeping"}, Begin(at) PROVE PlacesFollow' BY <1>02, <1>4, BeginFields
  <1>5. CASE Observe \/ Hydrate BY <1>02, <1>5, ObserveFields, HydrateFields
  <1>6. CASE MarkPending \/ CollectTexts BY <1>02, <1>6, MarkFields, CollectFields
  <1>7. CASE Clear
    <2>1. \/ indexing'.at \in {"failing", "collecting"}
          \/ indexing'.at = "placing" /\ staging' = {} /\ indexing'.placed = indexing.placed /\ indexing.at = "collecting"
      BY <1>0, <1>7 DEF Clear, Passes
    <2>2. CASE indexing'.at = "placing" /\ staging' = {} /\ indexing'.placed = indexing.placed /\ indexing.at = "collecting"
      <3>1. indexing'.placed = {} BY <2>2 DEF PassMisses
      <3> QED BY <2>2, <3>1 DEF PlacesFollow
    <2> QED BY <1>02, <2>1, <2>2
  <1>8. CASE Place
    <2>1. PICK f \in indexing.picked :
         \/ /\ staging' = staging \cup {Content(f)}
            /\ indexing' = [indexing EXCEPT !.picked = @ \ {f}, !.placed = @ \cup {f}]
         \/ /\ indexing' = [indexing EXCEPT !.picked = @ \ {f}, !.skipped = TRUE]
            /\ staging' = staging
      BY <1>8 DEF Place
    <2>2. indexing.at = "placing" BY <1>8 DEF Place
    <2>3. indexing'.seen = indexing.seen /\ indexing'.at = "placing" BY <1>0, <2>1, <2>2 DEF Passes
    <2>4. \/ staging' = staging \cup {Content(f)} /\ indexing'.placed = indexing.placed \cup {f}
          \/ staging' = staging /\ indexing'.placed = indexing.placed
      BY <1>0, <2>1 DEF Passes
    <2>5. staging = Placed BY <2>2 DEF PlacesFollow
    <2>6. staging' = {Content(g) : g \in indexing'.placed} BY <2>4, <2>5
    <2>7. staging' = {Content(g) : g \in indexing.placed}' BY <2>3, <2>6 DEF Content
    <2> QED BY <2>3, <2>7 DEF PlacesFollow
  <1>9. CASE ConfirmAdmission
    <2>1. /\ indexing.at = "placing" /\ indexing'.seen = indexing.seen
          /\ \/ indexing'.at = "delisting"
             \/ indexing'.at = "listing" /\ staging' = staging /\ indexing'.placed = indexing.placed
             \/ indexing'.at = "listing" /\ staging' = {} /\ indexing'.placed = {}
      BY <1>0, <1>9 DEF ConfirmAdmission, Passes
    <2>2. CASE indexing'.at = "listing" /\ staging' = staging /\ indexing'.placed = indexing.placed
      BY <2>1, <2>2 DEF PlacesFollow, Content
    <2>3. CASE indexing'.at = "listing" /\ staging' = {} /\ indexing'.placed = {}
      BY <2>3 DEF PlacesFollow
    <2> QED BY <1>02, <2>1, <2>2, <2>3
  <1>10. CASE PublishList
    <2>1. /\ indexing'.seen = indexing.seen /\ indexing'.placed = indexing.placed /\ staging' = staging
          /\ listing'.files = Placed
          /\ indexing'.at = "failing" \/ (indexing'.at = "updating" /\ indexing.at = "listing")
      BY <1>0, <1>10 DEF PublishList, Passes
    <2>2. CASE indexing'.at = "updating" /\ indexing.at = "listing"
      BY <2>1, <2>2 DEF PlacesFollow, Content
    <2> QED BY <1>02, <2>1, <2>2
  <1>11. CASE UpdateEngine
    <2>1. /\ indexing'.seen = indexing.seen /\ indexing'.placed = indexing.placed /\ staging' = staging
          /\ listing' = listing /\ indexing.at = "updating"
          /\ indexing'.at = "failing" \/ (indexing'.at = "embedding" /\ engine'.words = staging)
      BY <1>0, <1>11 DEF UpdateEngine, Passes
    <2>2. CASE indexing'.at = "embedding" /\ engine'.words = staging
      BY <2>1, <2>2 DEF PlacesFollow, Content
    <2> QED BY <1>02, <2>1, <2>2
  <1>12. CASE Embed
    <2>1. /\ indexing'.seen = indexing.seen /\ indexing'.placed = indexing.placed /\ staging' = staging
          /\ listing' = listing /\ indexing.at = "embedding"
          /\ \/ indexing'.at = "failing"
             \/ indexing'.at = "checking" /\ engine'.words = engine.words /\ engine'.vectors = engine.words
      BY <1>0, <1>12 DEF Embed, Passes
    <2>2. CASE indexing'.at = "checking" /\ engine'.words = engine.words /\ engine'.vectors = engine.words
      BY <2>1, <2>2 DEF PlacesFollow, Content
    <2> QED BY <1>02, <2>1, <2>2
  <1>13. CASE RecheckSources
    <2>1. /\ indexing'.seen = indexing.seen /\ indexing'.placed = indexing.placed /\ staging' = staging
          /\ listing' = listing /\ engine' = engine /\ indexing.at = "checking"
          /\ indexing'.at = "failing" \/ indexing'.at = "checking"
      BY <1>0, <1>13 DEF RecheckSources, Passes
    <2>2. CASE indexing'.at = "checking" BY <2>1, <2>2 DEF PlacesFollow, Content
    <2> QED BY <1>02, <2>1, <2>2
  <1>14. CASE StopsEarly \/ Unchanged \/ PublishFailure \/ PublishIndexed \/ DiePass \/ PublishSweep
    BY <1>02, <1>14, FinishedFields DEF StopsEarly, Unchanged, PublishFailure, PublishIndexed, DiePass, PublishSweep
  <1>15. CASE Sweep BY <1>02, <1>15, SweepFields
  <1>16. CASE Ask \/ LoadBook \/ Retrieve \/ Emit BY <1>16, QueryFields DEF PlacesFollow, Content
  <1> QED BY <1>1, <1>2, <1>3, <1>4, <1>5, <1>6, <1>7, <1>8, <1>9, <1>10, <1>11, <1>12, <1>13, <1>14, <1>15, <1>16
          DEF SearchIndexNext

\* A catalogue that keeps of another the revision, the mark, and the contents
\* vouched for or nothing where the revision says nothing, owes what it owed.
LEMMA KeptByLess ==
    ASSUME IndexShape, NEW c, NEW d, Kept(c), UNCHANGED <<staging, listing, engine>>,
           c.pending => d.pending,
           ~d.pending =>
             /\ d.revision = c.revision
             /\ \A f \in Indexable :
                  \/ d.record[f].indexed = c.record[f].indexed
                  \/ /\ d.record[f].indexed = 0
                     /\ \A R \in c.revision, x \in Contents, b \in BOOLEAN : <<f, x, b>> \notin R
    PROVE  ~d.pending =>
             /\ d.revision # {} =>
                  /\ staging' = listing'.files /\ listing'.files = engine'.words /\ engine'.words = engine'.vectors
                  /\ \A f \in Indexable : d.record[f].indexed # 0 =>
                       \A x \in Contents : <<f, x>> \in staging' <=> x = d.record[f].indexed
             /\ \A R \in d.revision, f \in Indexable, x \in Contents, b \in BOOLEAN :
                  <<f, x, b>> \in R => x <= d.record[f].indexed
PROOF
  <1> SUFFICES ASSUME ~d.pending
               PROVE  /\ d.revision # {} =>
                           /\ staging' = listing'.files /\ listing'.files = engine'.words
                           /\ engine'.words = engine'.vectors
                           /\ \A f \in Indexable : d.record[f].indexed # 0 =>
                                \A x \in Contents : <<f, x>> \in staging' <=> x = d.record[f].indexed
                      /\ \A R \in d.revision, f \in Indexable, x \in Contents, b \in BOOLEAN :
                           <<f, x, b>> \in R => x <= d.record[f].indexed
    OBVIOUS
  <1>1. ~c.pending /\ d.revision = c.revision OBVIOUS
  <1>2. staging' = staging /\ listing' = listing /\ engine' = engine OBVIOUS
  <1>3. c.revision # {} => staging = listing.files /\ listing.files = engine.words /\ engine.words = engine.vectors
    BY <1>1 DEF Kept
  <1>4. ASSUME d.revision # {}, NEW f \in Indexable, d.record[f].indexed # 0, NEW x \in Contents
        PROVE  <<f, x>> \in staging <=> x = d.record[f].indexed
    <2>1. d.record[f].indexed = c.record[f].indexed BY <1>4
    <2> QED BY <1>1, <1>4, <2>1 DEF Kept
  <1>5. ASSUME NEW R \in d.revision, NEW f \in Indexable, NEW x \in Contents, NEW b \in BOOLEAN, <<f, x, b>> \in R
        PROVE  x <= d.record[f].indexed
    <2>1. d.record[f].indexed = c.record[f].indexed BY <1>1, <1>5
    <2>2. x <= c.record[f].indexed BY <1>1, <1>5 DEF Kept
    <2> QED BY <2>1, <2>2
  <1> QED BY <1>1, <1>2, <1>3, <1>4, <1>5

\* What both catalogues owe, through every step.
LEMMA NextKept ==
    IndexShape /\ VouchesForKnown /\ KeptByBoth /\ PassKnows /\ PassMisses /\ PlacesFollow
      /\ [SearchIndexNext]_indexVars => KeptByBoth'
PROOF
  <1> SUFFICES ASSUME IndexShape, VouchesForKnown, KeptByBoth, PassKnows, PassMisses, PlacesFollow,
                      [SearchIndexNext]_indexVars
               PROVE  KeptByBoth'
    OBVIOUS
  <1> USE IndexAssumption
  <1>0. /\ indexing \in Passes /\ indexing.copy \in Catalogues /\ indexing.copy.record \in [Indexable -> Records]
        /\ indexing.seen \in [Indexable -> FileStates] /\ catalogue \in Catalogues
    BY DEF IndexShape, Passes, Catalogues
  <1>01. ASSUME UNCHANGED <<catalogue, staging, listing, engine>> PROVE Kept(catalogue)'
    <2>1. Kept(catalogue) BY DEF KeptByBoth
    <2> QED BY <1>01, <2>1 DEF Kept
  <1>02. ASSUME indexing' = Finished, Kept(catalogue)' PROVE KeptByBoth'
    BY <1>02, FinishedFields DEF KeptByBoth, Writing
  <1>03. ASSUME catalogue'.pending PROVE Kept(catalogue)' BY <1>03 DEF Kept
  <1>1. CASE UNCHANGED <<catalogue, staging, listing, engine, indexing>> BY <1>1 DEF KeptByBoth, Kept
  <1>2. CASE Alter \/ Ask \/ LoadBook \/ Retrieve \/ Emit BY <1>1, <1>2, QueryFields DEF Alter
  <1>3. CASE Readmit \/ Clear \/ Place \/ ConfirmAdmission \/ PublishList \/ UpdateEngine \/ Embed \/ RecheckSources
    <2>1. /\ catalogue' = catalogue /\ indexing'.copy = indexing.copy /\ indexing.at \in Writing /\ indexing'.at \in Writing
      BY <1>3, QuietFields
    <2>2. catalogue.pending /\ indexing.copy.pending BY <2>1 DEF KeptByBoth
    <2> QED BY <2>1, <2>2 DEF KeptByBoth, Kept, Writing
  <1>4. ASSUME NEW at \in {"observing", "sweeping"}, Begin(at) PROVE KeptByBoth'
    <2>1. Kept(catalogue)' BY <1>01, <1>4, BeginFields
    <2>2. indexing'.copy = catalogue' /\ indexing'.at \notin Writing BY <1>4, BeginFields
    <2>3. Kept(indexing.copy)' BY <2>1, <2>2 DEF Kept
    <2> QED BY <2>1, <2>2, <2>3 DEF KeptByBoth
  <1>5. CASE Observe
    <2>1. Kept(catalogue)' BY <1>01, <1>5, ObserveFields
    <2>2. Kept(indexing.copy) /\ UNCHANGED <<staging, listing, engine>> /\ indexing'.at \in {"observing", "hydrating"}
      BY <1>5, ObserveFields DEF KeptByBoth
    <2>3. /\ indexing'.copy.revision = indexing.copy.revision /\ (indexing'.copy.pending <=> indexing.copy.pending)
          /\ \A f \in Indexable : indexing'.copy.record[f].indexed = indexing.copy.record[f].indexed
      BY <1>5, ObserveFields
    <2>4. Kept(indexing.copy)' BY <2>2, <2>3 DEF Kept
    <2> QED BY <2>1, <2>2, <2>4 DEF KeptByBoth, Writing
  <1>6. CASE Hydrate
    <2>1. Kept(catalogue)' BY <1>01, <1>6, HydrateFields
    <2>2. Kept(indexing.copy) BY <1>6, HydrateFields DEF KeptByBoth
    <2>3. UNCHANGED <<staging, listing, engine>> /\ indexing'.at = "hydrating" /\ indexing'.copy = indexing.copy
      BY <1>6, HydrateFields
    <2>4. Kept(indexing.copy)' BY <2>2, <2>3 DEF Kept
    <2> QED BY <2>1, <2>3, <2>4 DEF KeptByBoth, Writing
  <1>7. CASE StopsEarly
    <2>1. indexing' = Finished BY <1>7 DEF StopsEarly
    <2>2. catalogue'.pending BY <1>0, <1>7, CopyShape DEF StopsEarly
    <2> QED BY <1>02, <1>03, <2>1, <2>2
  <1>8. CASE Unchanged
    <2>1. /\ indexing' = Finished /\ UNCHANGED <<staging, listing, engine>>
          /\ catalogue'.record = Complete.record /\ catalogue'.revision = indexing.copy.revision
          /\ catalogue'.pending <=> indexing.copy.pending
      BY <1>8, CopyShape DEF Unchanged, Catalogues
    <2>2. Kept(indexing.copy) BY <1>8 DEF KeptByBoth, Unchanged, AllObserved
    <2>3. indexing.copy.revision = Revision(indexing.seen, indexing.hydrated) BY <1>8 DEF Unchanged, Current
    <2>4. ASSUME NEW f \in Indexable, indexing.seen[f].state = "gone"
          PROVE  \A R \in indexing.copy.revision, x \in Contents, b \in BOOLEAN : <<f, x, b>> \notin R
      BY <1>0, <2>3, <2>4, RevisionShape
    <2>5. \A f \in Indexable :
            \/ catalogue'.record[f].indexed = indexing.copy.record[f].indexed
            \/ /\ catalogue'.record[f].indexed = 0
               /\ \A R \in indexing.copy.revision, x \in Contents, b \in BOOLEAN : <<f, x, b>> \notin R
      BY <2>1, <2>4, CopyShape DEF Unknown
    <2>6. \A d : /\ indexing.copy.pending => d.pending
                 /\ ~d.pending =>
                      /\ d.revision = indexing.copy.revision
                      /\ \A f \in Indexable :
                           \/ d.record[f].indexed = indexing.copy.record[f].indexed
                           \/ /\ d.record[f].indexed = 0
                              /\ \A R \in indexing.copy.revision, x \in Contents, b \in BOOLEAN : <<f, x, b>> \notin R
            => (~d.pending =>
             /\ d.revision # {} =>
                  /\ staging' = listing'.files /\ listing'.files = engine'.words /\ engine'.words = engine'.vectors
                  /\ \A f \in Indexable : d.record[f].indexed # 0 =>
                       \A x \in Contents : <<f, x>> \in staging' <=> x = d.record[f].indexed
             /\ \A R \in d.revision, f \in Indexable, x \in Contents, b \in BOOLEAN :
                  <<f, x, b>> \in R => x <= d.record[f].indexed)
      BY <2>1, <2>2, KeptByLess
    <2>7. Kept(catalogue)' BY <2>1, <2>5, <2>6 DEF Kept
    <2> QED BY <1>02, <2>1, <2>7
  <1>9. CASE MarkPending
    <2>1. catalogue'.pending /\ indexing'.copy.pending /\ indexing'.at = "collecting" BY <1>9, MarkFields
    <2> QED BY <1>03, <2>1 DEF KeptByBoth
  <1>10. CASE CollectTexts
    <2>1. /\ catalogue' = catalogue /\ indexing'.copy = indexing.copy /\ indexing.at \in Writing /\ indexing'.at = "collecting"
      BY <1>10, CollectFields DEF Writing
    <2>2. catalogue.pending /\ indexing.copy.pending BY <2>1 DEF KeptByBoth
    <2> QED BY <1>03, <2>1, <2>2 DEF KeptByBoth
  <1>11. CASE PublishFailure
    <2>1. indexing' = Finished /\ catalogue'.pending BY <1>0, <1>11, CopyShape DEF PublishFailure
    <2> QED BY <1>02, <1>03, <2>1
  <1>12. CASE PublishIndexed
    <2>1. indexing' = Finished /\ UNCHANGED <<staging, listing, engine>> /\ indexing.at = "checking"
      BY <1>12 DEF PublishIndexed
    <2>2. /\ catalogue'.record = [g \in Indexable |-> IF g \in indexing.placed
                                       THEN [indexing.copy.record[g] EXCEPT !.indexed = indexing.seen[g].content]
                                       ELSE indexing.copy.record[g]]
          /\ catalogue'.revision = indexing.revision /\ (catalogue'.pending <=> indexing.skipped)
      BY <1>0, <1>12 DEF PublishIndexed, Catalogues
    <2> SUFFICES ASSUME ~indexing.skipped PROVE KeptByBoth' BY <1>02, <1>03, <2>1, <2>2
    <2>3. ASSUME NEW f \in Indexable
          PROVE  /\ indexing.copy.record[f].known =>
                      f \in indexing.placed /\ catalogue'.record[f].indexed = indexing.seen[f].content
                 /\ catalogue'.record[f].indexed # 0 =>
                      f \in indexing.placed /\ catalogue'.record[f].indexed = indexing.seen[f].content
      <3>1. indexing.copy.record[f].known => f \in indexing.placed BY <2>1 DEF PassMisses
      <3>2. f \in indexing.placed => catalogue'.record[f].indexed = indexing.seen[f].content BY <1>0, <2>2 DEF Records
      <3>3. f \notin indexing.placed => catalogue'.record[f].indexed = indexing.copy.record[f].indexed BY <2>2
      <3>4. indexing.copy.record[f].indexed # 0 => indexing.copy.record[f].known BY DEF VouchesForKnown
      <3> QED BY <3>1, <3>2, <3>3, <3>4
    <2>4. /\ staging = {Content(f) : f \in indexing.placed} /\ listing.files = staging /\ engine.words = staging
          /\ engine.vectors = engine.words
      BY <2>1 DEF PlacesFollow
    <2>5. ASSUME NEW f \in Indexable, catalogue'.record[f].indexed # 0, NEW x \in Contents
          PROVE  <<f, x>> \in staging' <=> x = catalogue'.record[f].indexed
      <3>1. f \in indexing.placed /\ catalogue'.record[f].indexed = indexing.seen[f].content BY <2>3, <2>5
      <3>2. Content(f) = <<f, indexing.seen[f].content>> BY DEF Content
      <3>3. \A g : Content(g) = <<f, x>> => g = f /\ x = indexing.seen[f].content BY DEF Content
      <3> QED BY <2>1, <2>4, <3>1, <3>2, <3>3
    <2>6. ASSUME NEW R \in catalogue'.revision, NEW f \in Indexable, NEW x \in Contents, NEW b \in BOOLEAN, <<f, x,
        b>> \in R
          PROVE  x <= catalogue'.record[f].indexed
      <3>1. indexing.copy.record[f].known /\ x <= indexing.seen[f].content
        BY <2>1, <2>2, <2>6 DEF PassKnows, Writing
      <3> QED BY <2>3, <3>1
    <2>7. Kept(catalogue)' BY <2>1, <2>4, <2>5, <2>6 DEF Kept
    <2> QED BY <1>02, <2>1, <2>7
  <1>13. CASE DiePass BY <1>01, <1>02, <1>13 DEF DiePass
  <1>14. CASE Sweep
    <2>1. Kept(catalogue)' BY <1>01, <1>14, SweepFields
    <2>2. Kept(indexing.copy) /\ UNCHANGED <<staging, listing, engine>> /\ indexing'.at = "sweeping"
      BY <1>14, SweepFields DEF KeptByBoth
    <2>3. /\ indexing'.copy.pending \/ indexing'.copy.record = indexing.copy.record
          /\ indexing'.copy.revision = indexing.copy.revision /\ (indexing.copy.pending => indexing'.copy.pending)
      BY <1>14, SweepFields
    <2>4. Kept(indexing.copy)' BY <2>2, <2>3 DEF Kept
    <2> QED BY <2>1, <2>2, <2>4 DEF KeptByBoth, Writing
  <1>15. CASE PublishSweep
    <2>1. indexing' = Finished /\ catalogue' = indexing.copy /\ UNCHANGED <<staging, listing,
        engine>> /\ Kept(indexing.copy)
      BY <1>15 DEF PublishSweep, KeptByBoth
    <2>2. Kept(catalogue)' BY <2>1 DEF Kept
    <2> QED BY <1>02, <2>1, <2>2
  <1> QED BY <1>1, <1>2, <1>3, <1>4, <1>5, <1>6, <1>7, <1>8, <1>9, <1>10, <1>11, <1>12, <1>13, <1>14, <1>15
          DEF SearchIndexNext, indexVars

\* What a query shows, through every step.
LEMMA NextShown == IndexShape /\ ShownAsFound /\ [SearchIndexNext]_indexVars => ShownAsFound'
PROOF
  <1> SUFFICES ASSUME IndexShape, ShownAsFound, [SearchIndexNext]_indexVars PROVE ShownAsFound' OBVIOUS
  <1>0. query \in Searches BY DEF IndexShape
  <1>1. CASE query' = query BY <1>1 DEF ShownAsFound
  <1>2. CASE Ask \/ LoadBook \/ Retrieve
    <2>1. query'.at # "emitted"
      <3>1. CASE Ask BY <1>0, <3>1 DEF Ask, Searches
      <3>2. CASE LoadBook
        <4>1. PICK f \in query.file :
                \/ query' = NoQuery
                \/ query' = [query EXCEPT !.at = "loaded",
                              !.book = [indexed |-> catalogue.record[f].indexed, revision |-> catalogue.revision]]
          BY <3>2 DEF LoadBook
        <4> DEFINE book == [indexed |-> catalogue.record[f].indexed, revision |-> catalogue.revision]
        <4>2. query' = NoQuery \/ query' = [query EXCEPT !.at = "loaded", !.book = book] BY <4>1
        <4> HIDE DEF book
        <4>3. [query EXCEPT !.at = "loaded", !.book = book].at = "loaded" BY <1>0 DEF Searches
        <4>4. NoQuery.at = "idle" BY DEF NoQuery
        <4> QED BY <4>2, <4>3, <4>4
      <3>3. CASE Retrieve BY <1>0, <3>3 DEF Retrieve, Searches
      <3> QED BY <1>2, <3>1, <3>2, <3>3
    <2> QED BY <2>1 DEF ShownAsFound
  <1>3. CASE Emit
    <2>1. PICK f \in query.file :
            \/ query' = NoQuery
            \/ /\ query' = [query EXCEPT !.at = "emitted", !.saw = disk[f]]
               /\ BoundIndexed(f) \/ (BoundLive(f) /\ disk[f] = query.saw)
      BY <1>3 DEF Emit
    <2>2. CASE query' = NoQuery BY <2>2 DEF ShownAsFound, NoQuery
    <2>3. CASE query' = [query EXCEPT !.at = "emitted", !.saw = disk[f]]
               /\ (BoundIndexed(f) \/ (BoundLive(f) /\ disk[f] = query.saw))
      <3>1. disk[f].content = query.hit BY <2>3 DEF BoundIndexed, BoundLive, Matches
      <3>2. query'.saw = disk[f] /\ query'.hit = query.hit BY <1>0, <2>3 DEF Searches
      <3> QED BY <3>1, <3>2 DEF ShownAsFound
    <2> QED BY <2>1, <2>2, <2>3
  <1>4. CASE Alter \/ Readmit BY <1>1, <1>4 DEF Alter, Readmit
  <1>5. ASSUME UNCHANGED indexVars PROVE query' = query BY <1>5 DEF indexVars
  <1>6. ASSUME InPass PROVE query' = query BY <1>6 DEF InPass
  <1>7. ASSUME NEW at, Begin(at) PROVE query' = query BY <1>6, <1>7 DEF Begin
  <1>8. CASE Observe \/ Hydrate \/ StopsEarly \/ Unchanged \/ MarkPending \/ CollectTexts \/ Clear \/ Place
             \/ ConfirmAdmission \/ PublishList \/ UpdateEngine \/ Embed \/ PublishFailure \/ RecheckSources
             \/ PublishIndexed \/ DiePass \/ Sweep \/ PublishSweep
    BY <1>1, <1>6, <1>8
    DEF Observe, Hydrate, StopsEarly, Unchanged, MarkPending, CollectTexts, Clear, Place, ConfirmAdmission,
        PublishList,
        UpdateEngine, Embed, PublishFailure, RecheckSources, PublishIndexed, DiePass, Sweep, PublishSweep
  <1> QED BY <1>1, <1>2, <1>3, <1>4, <1>5, <1>7, <1>8 DEF SearchIndexNext

----------------------------------------------------------------------------

\* The invariant implies what the index promises.
LEMMA InvHolds == IndexInv => IndexHolds
PROOF
  <1> SUFFICES ASSUME IndexInv PROVE IndexHolds OBVIOUS
  <1> USE IndexAssumption
  <1>0. /\ IndexShape /\ FilesGrow /\ Kept(catalogue) /\ ShownAsFound
        /\ disk \in [Indexable -> FileStates] /\ catalogue \in Catalogues
    BY DEF IndexInv, KeptByBoth, IndexShape
  <1>1. SearchIndexTypeOK
    <2>1. catalogue.record \in [Indexable -> [known : BOOLEAN, indexed : Contents, mark : 0..MaxStamp]]
      BY <1>0 DEF Catalogues, Records
    <2>2. indexing.begun \in 0..MaxPasses BY <1>0 DEF IndexShape, Passes
    <2>3. listing.files \subseteq Texts BY <1>0 DEF IndexShape
    <2> QED BY <1>0, <2>1, <2>2, <2>3 DEF SearchIndexTypeOK, IndexShape
  <1>2. VouchesForAll BY <1>0 DEF VouchesForAll, Kept
  <1>3. UnchangedIsRight
    <2> SUFFICES ASSUME catalogue.revision = Revision(disk, Parsed), ~catalogue.pending,
                        NEW f \in Indexable, Reads(f) # 0
                 PROVE  catalogue.record[f].indexed = Reads(f)
      BY DEF UnchangedIsRight
    <2> DEFINE R == {<<g, disk[g].content, g \in Parsed>> : g \in {h \in Indexable : disk[h].state = "there"}}
    <2>1. disk[f].state = "there" /\ Reads(f) = disk[f].content BY DEF Reads
    <2>2. R \in catalogue.revision /\ <<f, disk[f].content, f \in Parsed>> \in R BY <2>1 DEF Revision
    <2>3. (f \in Parsed) \in BOOLEAN /\ disk[f].content \in Contents BY <1>0 DEF FileStates
    <2> HIDE DEF R
    <2>4. disk[f].content <= catalogue.record[f].indexed BY <1>0, <2>2, <2>3 DEF Kept
    <2>5. catalogue.record[f].indexed <= disk[f].content BY <1>0 DEF FilesGrow
    <2>6. catalogue.record[f].indexed \in Nat /\ disk[f].content \in Nat
      BY <1>0 DEF Catalogues, Records, FileStates, Contents
    <2> QED BY <2>1, <2>4, <2>5, <2>6
  <1> QED BY <1>0, <1>1, <1>2, <1>3 DEF IndexHolds

\* While nothing is pending, the staged files, their list and the engine hold
\* the contents the catalogue vouches for, a pass that would find nothing to do
\* is right to, and what a query shows is what it found, for every number of
\* files, of changes and of passes (index.js performIndex).
THEOREM IndexAlwaysHolds == SearchIndexSpec => []IndexHolds
PROOF
  <1>1. SearchIndexInit => IndexInv BY InitInv
  <1>2. IndexInv /\ [SearchIndexNext]_indexVars => IndexInv'
    BY NextShape, NextGrow, NextKnown, NextKept, NextKnows, NextTakes, NextMisses, NextPlaces, NextShown DEF IndexInv
  <1>3. IndexInv => IndexHolds BY InvHolds
  <1> QED BY <1>1, <1>2, <1>3, PTL DEF SearchIndexSpec

----------------------------------------------------------------------------
(***************************************************************************)
(* The stages of typed evidence, for any replays, comparisons, corpus and  *)
(* criteria.                                                               *)
(***************************************************************************)

Counts == [cases : Nat, passed : Nat, safe : Nat, dangerous : Nat, live : Nat, uses : Nat, good : Nat]
Earnings == [stage : {"v1", "v2", "v3"}, v1 : Counts, v2 : Counts]
Showings == {"a clean replay", "a replay", "a comparison", "a good use"}
Uses == {"a good use"}
Lives == {"a comparison", "a good use"}

\* What records S show: a clean replay, and uses and comparisons at v2.
CleanReplay(S) == \E p \in Replays : <<p, "v1", "a clean replay">> \in S
Later(S, kinds) == {e \in S : e[2] = "v2" /\ e[3] \in kinds}
LaterCount(S, kinds) == Cardinality(Later(S, kinds))

\* What the records S justify of a state s.
EarnedBy(s, S) ==
    /\ MeetsCriteria("v1", s.v1) \/ s.stage # "v1" => CleanReplay(S)
    /\ s.v2.live <= LaterCount(S, Lives) /\ s.v2.good <= LaterCount(S, Uses)
    /\ s.stage = "v3" => MinLive <= LaterCount(S, Lives) /\ MinUses <= LaterCount(S, Uses)

\* What is recorded is what was found.
FlagsFit(r) == r.clean \in BOOLEAN /\ r.used \in BOOLEAN /\ r.good \in BOOLEAN

RecordFits(r, p) ==
    /\ FlagsFit(r)
    /\ \/ /\ r.kind = "replay" /\ p \in Replays /\ r.result \in Counts /\ r.used = FALSE
          /\ MeetsCriteria("v1", r.result) => r.clean
       \/ r.kind = "comparison"

\* A process records what it found, in a state that was there.
RecorderFits(q, p) ==
    /\ q.at = "dispatched" => q.record.kind = "comparison" /\ FlagsFit(q.record)
    /\ q.at = "recording" => RecordFits(q.record, p) /\ q.state \in Earnings

\* Every process shows one thing, when it is done.
ShownFits ==
    /\ IsFiniteSet(shown)
    /\ shown \subseteq EvidenceWriters \X {"v1", "v2", "v3"} \X Showings
    /\ \A p \in EvidenceWriters : recorder[p].at # "done" => \A e \in shown : e[1] # p

EvidenceInv ==
    /\ shadowState \in Earnings
    /\ DOMAIN recorder = EvidenceWriters
    /\ \A p \in EvidenceWriters : RecorderFits(recorder[p], p)
    /\ ShownFits
    /\ EarnedBy(shadowState, shown)
    /\ \A p \in EvidenceWriters : recorder[p].at = "recording" => EarnedBy(recorder[p].state, shown)

\* A replay whose counts meet the criteria of v1 was clean.
LEMMA ReplayIsJudged ==
    ASSUME NEW cases \in SUBSET Cases, NEW outcome \in [cases -> CaseOutcomes]
    PROVE  /\ Replayed(outcome) \in Counts
           /\ MeetsCriteria("v1", Replayed(outcome)) => Clean(outcome)
<1> DEFINE K(some) == {c \in DOMAIN outcome : outcome[c] \in some}
           passing == {o \in CaseOutcomes : Passed(o)}
           safe == {o \in CaseOutcomes : Safe(o)}
           r == Replayed(outcome)
<1>1. DOMAIN outcome = cases /\ IsFiniteSet(cases)
  BY EvidenceAssumption, FS_Subset
<1>2. ASSUME NEW some PROVE IsFiniteSet(K(some)) /\ Cardinality(K(some)) \in Nat /\ K(some) \in SUBSET cases
  BY <1>1, FS_Subset, FS_CardinalityType
<1>3. K(CaseOutcomes) = cases
  BY <1>1
<1>7. r = [cases |-> Cardinality(K(CaseOutcomes)), passed |-> Cardinality(K(passing)),
           safe |-> Cardinality(K(safe)), dangerous |-> Cardinality(K({"forbidden"})),
           live |-> 0, uses |-> 0, good |-> 0]
  <2>1. r = [NoCounts EXCEPT !.cases = Cardinality(K(CaseOutcomes)), !.passed = Cardinality(K(passing)),
                             !.safe = Cardinality(K(safe)), !.dangerous = Cardinality(K({"forbidden"}))]
    BY DEF Replayed
  <2> HIDE DEF r, K
  <2> QED BY <2>1 DEF NoCounts
<1>4. /\ r.cases = Cardinality(K(CaseOutcomes)) /\ r.passed = Cardinality(K(passing))
      /\ r.safe = Cardinality(K(safe)) /\ r.dangerous = Cardinality(K({"forbidden"}))
      /\ r.live = 0 /\ r.uses = 0 /\ r.good = 0
      /\ r = [cases |-> r.cases, passed |-> r.passed, safe |-> r.safe, dangerous |-> r.dangerous,
              live |-> r.live, uses |-> r.uses, good |-> r.good]
  <2> HIDE DEF r
  <2> QED BY <1>7
<1>5. r \in Counts
  <2>1. r.cases \in Nat /\ r.passed \in Nat /\ r.safe \in Nat /\ r.dangerous \in Nat
    BY <1>2, <1>4
  <2> HIDE DEF r
  <2> QED BY <1>4, <2>1 DEF Counts
<1>6. ASSUME MeetsCriteria("v1", r) PROVE Clean(outcome)
  <2>1. r.cases >= MinCases /\ r.passed = r.cases /\ r.safe >= MinSafe
    BY <1>6 DEF MeetsCriteria
  <2>2. Cardinality(K(passing)) = Cardinality(cases)
    BY <2>1, <1>3, <1>4
  <2>3. K(passing) = cases
    BY <2>2, <1>1, <1>2, FS_Subset
  <2>4. \A c \in cases : outcome[c] \in {"expected", "expected and safe"}
    BY <2>3 DEF Passed
  <2>5. K(safe) = {c \in DOMAIN outcome : Safe(outcome[c])}
    BY <1>1 DEF Safe
  <2>6. Cardinality(DOMAIN outcome) >= MinCases
    BY <2>1, <1>1, <1>3, <1>4
  <2>7. Cardinality({c \in DOMAIN outcome : Safe(outcome[c])}) >= MinSafe
    BY <2>1, <1>4, <2>5
  <2> QED BY <1>1, <2>4, <2>6, <2>7 DEF Clean
<1> QED BY <1>5, <1>6

LEMMA LaterFacts ==
    ASSUME NEW S, IsFiniteSet(S), NEW kinds
    PROVE  IsFiniteSet(Later(S, kinds)) /\ LaterCount(S, kinds) \in Nat
<1>1. Later(S, kinds) \in SUBSET S
  BY DEF Later
<1> QED BY <1>1, FS_Subset, FS_CardinalityType DEF LaterCount

\* One more record counts where it belongs, and nothing counts less.
LEMMA OneMore ==
    ASSUME NEW S, IsFiniteSet(S), NEW kinds, NEW e, e \notin S
    PROVE  LaterCount(S \cup {e}, kinds) =
               LaterCount(S, kinds) + OneIf(e[2] = "v2" /\ e[3] \in kinds)
<1>1. CASE e[2] = "v2" /\ e[3] \in kinds
  <2>1. Later(S \cup {e}, kinds) = Later(S, kinds) \cup {e} /\ e \notin Later(S, kinds)
    BY <1>1 DEF Later
  <2> QED BY <1>1, <2>1, LaterFacts, FS_AddElement DEF LaterCount, OneIf
<1>2. CASE ~(e[2] = "v2" /\ e[3] \in kinds)
  <2>1. Later(S \cup {e}, kinds) = Later(S, kinds)
    BY <1>2 DEF Later
  <2> QED BY <1>2, <2>1, LaterFacts DEF LaterCount, OneIf
<1> QED BY <1>1, <1>2

\* What a state is worth does not depend on later records.
LEMMA EarnedStays ==
    ASSUME NEW S, IsFiniteSet(S), NEW e, e \notin S, NEW s \in Earnings, EarnedBy(s, S)
    PROVE  EarnedBy(s, S \cup {e})
<1> DEFINE live == LaterCount(S, Lives)
           good == LaterCount(S, Uses)
           more == LaterCount(S \cup {e}, Lives)
           better == LaterCount(S \cup {e}, Uses)
<1>1. live \in Nat /\ good \in Nat /\ more \in Nat /\ better \in Nat /\ more >= live /\ better >= good
  <2>1. ASSUME NEW kinds
        PROVE  LaterCount(S \cup {e}, kinds) \in {LaterCount(S, kinds), LaterCount(S, kinds) + 1}
    <3>1. LaterCount(S, kinds) \in Nat
      BY LaterFacts
    <3>2. OneIf(e[2] = "v2" /\ e[3] \in kinds) \in {0, 1}
      BY DEF OneIf
    <3>3. LaterCount(S \cup {e}, kinds) = LaterCount(S, kinds) + OneIf(e[2] = "v2" /\ e[3] \in kinds)
      BY OneMore
    <3> QED BY <3>1, <3>2, <3>3
  <2>2. live \in Nat /\ good \in Nat
    BY LaterFacts
  <2> HIDE DEF live, good
  <2> QED BY <2>1, <2>2 DEF live, good
<1>2. CleanReplay(S) => CleanReplay(S \cup {e})
  BY DEF CleanReplay
<1>3. s.v2.live \in Nat /\ s.v2.good \in Nat /\ MinLive \in Nat /\ MinUses \in Nat
  BY EvidenceAssumption DEF Earnings, Counts
<1>4. /\ MeetsCriteria("v1", s.v1) \/ s.stage # "v1" => CleanReplay(S)
      /\ s.v2.live <= live /\ s.v2.good <= good
      /\ s.stage = "v3" => MinLive <= live /\ MinUses <= good
  BY DEF EarnedBy
<1> HIDE DEF live, good, more, better
<1>5. /\ s.v2.live <= more /\ s.v2.good <= better
      /\ s.stage = "v3" => MinLive <= more /\ MinUses <= better
  BY <1>1, <1>3, <1>4
<1> QED BY <1>2, <1>4, <1>5 DEF EarnedBy, more, better

\* A record that is counted in a state, which may then be promoted.
LEMMA RecordIsEarned ==
    ASSUME NEW S, IsFiniteSet(S), NEW p \in EvidenceWriters, NEW s \in Earnings, EarnedBy(s, S),
           NEW r, RecordFits(r, p), <<p, s.stage, Shows(r)>> \notin S,
           NEW t \in PromotedFrom(CountedIn(s, r))
    PROVE  t \in Earnings /\ EarnedBy(t, S \cup {<<p, s.stage, Shows(r)>>})
<1> DEFINE e == <<p, s.stage, Shows(r)>>
           T == S \cup {e}
           n == CountedIn(s, r)
           live == LaterCount(S, Lives)
           good == LaterCount(S, Uses)
<1>1. EarnedBy(s, T)
  BY EarnedStays
<1>2. /\ LaterCount(T, Lives) = live + OneIf(s.stage = "v2" /\ Shows(r) \in Lives)
      /\ LaterCount(T, Uses) = good + OneIf(s.stage = "v2" /\ Shows(r) \in Uses)
      /\ live \in Nat /\ good \in Nat
  <2>1. live \in Nat /\ good \in Nat
    BY LaterFacts
  <2>2. e[2] = s.stage /\ e[3] = Shows(r)
    OBVIOUS
  <2> HIDE DEF e, live, good
  <2>3. ASSUME NEW kinds
        PROVE  LaterCount(T, kinds) = LaterCount(S, kinds) + OneIf(s.stage = "v2" /\ Shows(r) \in kinds)
    <3>1. e \notin S
      BY DEF e
    <3>2. LaterCount(T, kinds) = LaterCount(S, kinds) + OneIf(e[2] = "v2" /\ e[3] \in kinds)
      BY <3>1, OneMore
    <3> QED BY <2>2, <3>2
  <2> QED BY <2>1, <2>3 DEF live, good
<1>3. n \in Earnings /\ n.stage = s.stage
  <2>1. CASE r.kind = "replay"
    <3>1. /\ Remeasured(r.result, s.v1) \in Counts /\ Remeasured(r.result, s.v2) \in Counts
      BY <2>1 DEF RecordFits, Remeasured, Counts, Earnings
    <3> QED BY <2>1, <3>1 DEF CountedIn, Earnings
  <2>2. CASE r.kind = "comparison"
    <3>2. OneIf(r.used) \in Nat /\ OneIf(r.used /\ r.good) \in Nat
      BY DEF OneIf
    <3>3. ASSUME NEW m \in Counts, NEW a \in Nat, NEW b \in Nat
          PROVE  [m EXCEPT !.live = @ + 1, !.uses = @ + a, !.good = @ + b] \in Counts
      <4>1. ASSUME NEW x \in Nat, NEW y \in Nat, NEW z \in Nat
            PROVE  [m EXCEPT !.live = x, !.uses = y, !.good = z] \in Counts
        BY DEF Counts
      <4>2. m.live + 1 \in Nat /\ m.uses + a \in Nat /\ m.good + b \in Nat
        BY DEF Counts
      <4> QED BY <4>1, <4>2
    <3>4. s.v1 \in Counts /\ s.v2 \in Counts
      BY DEF Earnings
    <3>1. Compared(r, s.v1) \in Counts /\ Compared(r, s.v2) \in Counts
      BY <3>2, <3>3, <3>4 DEF Compared
    <3> QED BY <2>2, <3>1 DEF CountedIn, Earnings
  <2> QED BY <2>1, <2>2 DEF RecordFits
<1>4. EarnedBy(n, T)
  <2>1. CASE s.stage = "v1"
    <3>1. n.v2 = s.v2 /\ n.stage = "v1"
      BY <2>1 DEF CountedIn, Earnings
    <3>2. ASSUME MeetsCriteria("v1", n.v1) PROVE CleanReplay(T)
      <4>1. CASE r.kind = "replay"
        <5>1. n.v1 = Remeasured(r.result, s.v1)
          BY <2>1, <4>1 DEF CountedIn, Earnings
        <5>2. MeetsCriteria("v1", r.result)
          BY <3>2, <4>1, <5>1 DEF MeetsCriteria, Remeasured, RecordFits, Counts
        <5>3. r.clean /\ p \in Replays
          BY <4>1, <5>2 DEF RecordFits
        <5>4. Shows(r) = "a clean replay"
          <6>1. r.clean = TRUE
            BY <5>3 DEF RecordFits, FlagsFit
          <6>2. r.used = FALSE
            BY <4>1 DEF RecordFits
          <6> QED BY <4>1, <6>1, <6>2 DEF Shows
        <5> QED BY <2>1, <5>3, <5>4 DEF CleanReplay
      <4>2. CASE r.kind = "comparison"
        <5>1. n.v1 = Compared(r, s.v1)
          BY <2>1, <4>2 DEF CountedIn, Earnings
        <5>2. MeetsCriteria("v1", s.v1)
          BY <3>2, <5>1 DEF MeetsCriteria, Compared, Earnings, Counts
        <5> QED BY <1>1, <5>2 DEF EarnedBy
      <4> QED BY <4>1, <4>2 DEF RecordFits
    <3> QED BY <1>1, <2>1, <3>1, <3>2 DEF EarnedBy
  <2>2. CASE s.stage = "v2"
    <3>1. n.v1 = s.v1 /\ n.stage = "v2"
      BY <2>2 DEF CountedIn, Earnings
    <3>2. s.v2.live \in Nat /\ s.v2.good \in Nat /\ s.v2.live <= live /\ s.v2.good <= good
      BY DEF EarnedBy, Earnings, Counts
    <3>3. n.v2.live <= LaterCount(T, Lives) /\ n.v2.good <= LaterCount(T, Uses)
      <4>1. CASE r.kind = "replay"
        <5>1. n.v2.live = s.v2.live /\ n.v2.good = s.v2.good
          BY <2>2, <4>1 DEF CountedIn, Earnings, Remeasured, RecordFits, Counts
        <5> QED BY <1>1, <5>1 DEF EarnedBy
      <4>2. CASE r.kind = "comparison"
        <5>1. /\ n.v2.live = s.v2.live + 1
              /\ n.v2.good = s.v2.good + OneIf(r.used /\ r.good)
          BY <2>2, <4>2 DEF CountedIn, Earnings, Compared, Counts
        <5>2. Shows(r) = IF r.used /\ r.good THEN "a good use" ELSE "a comparison"
          BY <4>2 DEF Shows, RecordFits, FlagsFit
        <5>3. Shows(r) \in Lives /\ (Shows(r) \in Uses <=> r.used /\ r.good)
          BY <5>2 DEF Lives, Uses
        <5>4. LaterCount(T, Lives) = live + 1 /\ LaterCount(T, Uses) = good + OneIf(r.used /\ r.good)
          BY <1>2, <2>2, <5>3 DEF OneIf
        <5> HIDE DEF live, good, T, n
        <5>5. OneIf(r.used /\ r.good) \in Nat
          BY DEF OneIf
        <5> QED BY <1>2, <3>2, <5>1, <5>4, <5>5
      <4> QED BY <4>1, <4>2 DEF RecordFits
    <3> QED BY <1>1, <2>2, <3>1, <3>3 DEF EarnedBy
  <2>3. CASE s.stage = "v3"
    <3>1. n = s
      BY <2>3 DEF CountedIn
    <3> QED BY <1>1, <3>1
  <2> QED BY <2>1, <2>2, <2>3 DEF Earnings
<1>5. CASE t = n
  BY <1>3, <1>4, <1>5
<1>6. CASE n.stage = "v1" /\ MeetsCriteria("v1", n.v1) /\ t = [n EXCEPT !.stage = "v2"]
  <2>1. t.stage = "v2" /\ t.v1 = n.v1 /\ t.v2 = n.v2 /\ t \in Earnings
    BY <1>3, <1>6 DEF Earnings
  <2> QED BY <1>4, <1>6, <2>1 DEF EarnedBy
<1>7. CASE n.stage = "v2" /\ MeetsCriteria("v2", n.v2) /\ t = [n EXCEPT !.stage = "v3"]
  <2>1. t.stage = "v3" /\ t.v1 = n.v1 /\ t.v2 = n.v2 /\ t \in Earnings
    BY <1>3, <1>7 DEF Earnings
  <2>2. n.v2.live >= MinLive /\ n.v2.good >= MinUses
    BY <1>7 DEF MeetsCriteria
  <2>3. n.v2.live <= LaterCount(T, Lives) /\ n.v2.good <= LaterCount(T, Uses) /\ CleanReplay(T)
    BY <1>4, <1>7 DEF EarnedBy
  <2>4. /\ n.v2.live \in Nat /\ n.v2.good \in Nat /\ MinLive \in Nat /\ MinUses \in Nat
        /\ LaterCount(T, Lives) \in Nat /\ LaterCount(T, Uses) \in Nat
    <3>1. LaterCount(T, Lives) \in Nat /\ LaterCount(T, Uses) \in Nat
      BY LaterFacts, FS_AddElement
    <3> QED BY <1>3, <3>1, EvidenceAssumption DEF Earnings, Counts
  <2>5. MinLive <= LaterCount(T, Lives) /\ MinUses <= LaterCount(T, Uses)
    BY <2>2, <2>3, <2>4
  <2> QED BY <2>1, <2>3, <2>5 DEF EarnedBy
<1>8. t = n \/ (n.stage = "v1" /\ MeetsCriteria("v1", n.v1) /\ t = [n EXCEPT !.stage = "v2"])
            \/ (n.stage = "v2" /\ MeetsCriteria("v2", n.v2) /\ t = [n EXCEPT !.stage = "v3"])
  BY DEF PromotedFrom
<1> QED BY <1>5, <1>6, <1>7, <1>8

LEMMA EvidenceInitHolds == EvidenceInit => EvidenceInv
<1> SUFFICES ASSUME EvidenceInit PROVE EvidenceInv
  OBVIOUS
<1>1. NoEvidence \in Earnings
  BY DEF NoEvidence, Earnings, Counts, NoCounts
<1>2. EarnedBy(NoEvidence, {})
  <2>1. LaterCount({}, Lives) = 0 /\ LaterCount({}, Uses) = 0
    <3>1. Later({}, Lives) = {} /\ Later({}, Uses) = {}
      BY DEF Later
    <3> QED BY <3>1, FS_EmptySet DEF LaterCount
  <2>2. ~MeetsCriteria("v1", NoCounts)
    BY EvidenceAssumption DEF MeetsCriteria, NoCounts
  <2> QED BY <2>1, <2>2 DEF EarnedBy, NoEvidence, NoCounts
<1>3. ShownFits
  BY FS_EmptySet DEF EvidenceInit, ShownFits
<1> QED BY <1>1, <1>2, <1>3 DEF EvidenceInit, EvidenceInv, RecorderFits

LEMMA EvidenceStep == EvidenceInv /\ [EvidenceNext]_evidenceVars => EvidenceInv'
<1> SUFFICES ASSUME EvidenceInv, [EvidenceNext]_evidenceVars PROVE EvidenceInv'
  OBVIOUS
<1> USE DEF EvidenceInv
<1>1. ASSUME NEW p \in EvidenceWriters, EndRecord(p) PROVE EvidenceInv'
  <2> DEFINE s == recorder[p].state
             r == recorder[p].record
             e == <<p, s.stage, Shows(r)>>
  <2>1. /\ recorder[p].at = "recording" /\ shadowState' \in PromotedFrom(CountedIn(s, r)) /\ shown' = shown \cup {e}
        /\ recorder' = [recorder EXCEPT ![p] = [at |-> "done", record |-> NoRecord, state |-> NoEvidence]]
    BY <1>1 DEF EndRecord
  <2>2. e \notin shown /\ IsFiniteSet(shown) /\ s \in Earnings /\ RecordFits(r, p) /\ EarnedBy(s, shown)
    <3>1. e[1] = p
      OBVIOUS
    <3>2. \A d \in shown : d[1] # p
      BY <2>1 DEF ShownFits
    <3> QED BY <2>1, <3>1, <3>2 DEF RecorderFits, ShownFits
  <2>3. shadowState' \in Earnings /\ EarnedBy(shadowState', shown')
    BY <2>1, <2>2, RecordIsEarned
  <2>4. ShownFits'
    <3>1. e \in EvidenceWriters \X {"v1", "v2", "v3"} \X Showings
      <4>1. s.stage \in {"v1", "v2", "v3"} /\ Shows(r) \in Showings
        BY <2>2 DEF Earnings, Shows, Showings, RecordFits, FlagsFit
      <4> QED BY <4>1
    <3>2. IsFiniteSet(shown')
      BY <2>1, <2>2, FS_AddElement
    <3>3. \A q \in EvidenceWriters : recorder'[q].at # "done" => q # p /\ recorder[q].at # "done"
      BY <2>1
    <3>4. \A q \in EvidenceWriters : recorder'[q].at # "done" => \A d \in shown' : d[1] # q
      <4> HIDE DEF e
      <4>1. e[1] = p
        BY DEF e
      <4> QED BY <2>1, <3>3, <4>1 DEF ShownFits
    <3> HIDE DEF e
    <3> QED BY <2>1, <3>1, <3>2, <3>4 DEF ShownFits
  <2>5. DOMAIN recorder' = EvidenceWriters /\ \A q \in EvidenceWriters : RecorderFits(recorder'[q], q)
    BY <2>1 DEF RecorderFits
  <2>6. \A q \in EvidenceWriters : recorder'[q].at = "recording" => EarnedBy(recorder'[q].state, shown')
    <3> SUFFICES ASSUME NEW q \in EvidenceWriters, recorder'[q].at = "recording"
                 PROVE  EarnedBy(recorder'[q].state, shown')
      OBVIOUS
    <3>1. recorder'[q] = recorder[q]
      BY <2>1
    <3>2. recorder[q].state \in Earnings /\ EarnedBy(recorder[q].state, shown)
      BY <3>1 DEF RecorderFits
    <3> HIDE DEF e
    <3> QED BY <2>1, <2>2, <3>1, <3>2, EarnedStays
  <2> QED BY <2>3, <2>4, <2>5, <2>6
<1>2. ASSUME NEW p \in EvidenceWriters, UNCHANGED <<shadowState, shown>>, DOMAIN recorder' = EvidenceWriters,
             \A q \in EvidenceWriters \ {p} : recorder'[q] = recorder[q],
             recorder[p].at # "done", RecorderFits(recorder'[p], p),
             recorder'[p].at = "recording" => EarnedBy(recorder'[p].state, shown)
      PROVE  EvidenceInv'
  <2>1. \A q \in EvidenceWriters : RecorderFits(recorder'[q], q)
    BY <1>2
  <2>2. ShownFits'
    BY <1>2 DEF ShownFits
  <2>3. \A q \in EvidenceWriters : recorder'[q].at = "recording" => EarnedBy(recorder'[q].state, shown')
    BY <1>2
  <2> QED BY <1>2, <2>1, <2>2, <2>3
<1>3. ASSUME NEW p \in EvidenceWriters, RecordLost(p) PROVE EvidenceInv'
  <2>1. recorder'[p].at = "done"
    BY <1>3 DEF RecordLost
  <2>2. RecorderFits(recorder'[p], p)
    BY <2>1 DEF RecorderFits
  <2> QED BY <1>2, <1>3, <2>1, <2>2 DEF RecordLost
<1>4. ASSUME NEW p \in Replays, BeginReplay(p) PROVE EvidenceInv'
  <2>1. p \in EvidenceWriters
    BY DEF EvidenceWriters
  <2>2. PICK cases \in (SUBSET Cases) \ {{}} : \E outcome \in [cases -> CaseOutcomes] :
          recorder' = [recorder EXCEPT ![p] =
            [at |-> "recording", state |-> shadowState,
             record |-> [NoRecord EXCEPT !.kind = "replay", !.result = Replayed(outcome), !.clean = Clean(outcome)]]]
    BY <1>4 DEF BeginReplay
  <2>3. PICK outcome \in [cases -> CaseOutcomes] :
          recorder' = [recorder EXCEPT ![p] =
            [at |-> "recording", state |-> shadowState,
             record |-> [NoRecord EXCEPT !.kind = "replay", !.result = Replayed(outcome), !.clean = Clean(outcome)]]]
    BY <2>2
  <2> DEFINE r == recorder'[p].record
  <2>4. /\ recorder'[p].state = shadowState /\ recorder'[p].at = "recording"
        /\ r.kind = "replay" /\ r.result = Replayed(outcome) /\ r.clean = Clean(outcome)
        /\ r.used = FALSE /\ r.good = FALSE
    BY <2>1, <2>3 DEF NoRecord
  <2>5. Replayed(outcome) \in Counts /\ (MeetsCriteria("v1", Replayed(outcome)) => Clean(outcome))
    BY ReplayIsJudged
  <2>7. Clean(outcome) \in BOOLEAN
    BY DEF Clean
  <2>6. RecorderFits(recorder'[p], p)
    BY <2>4, <2>5, <2>7 DEF RecorderFits, RecordFits, FlagsFit
  <2> QED BY <1>2, <1>4, <2>1, <2>3, <2>4, <2>6 DEF BeginReplay
<1>5. ASSUME NEW p \in Comparisons, Dispatch(p) PROVE EvidenceInv'
  <2>1. p \in EvidenceWriters
    BY DEF EvidenceWriters
  <2>2. recorder[p].at = "idle" /\ UNCHANGED <<shadowState, shown>>
    BY <1>5 DEF Dispatch
  <2>3. /\ recorder'[p].at = "dispatched" /\ recorder'[p].record.kind = "comparison"
        /\ FlagsFit(recorder'[p].record)
        /\ DOMAIN recorder' = EvidenceWriters /\ \A q \in EvidenceWriters \ {p} : recorder'[q] = recorder[q]
    BY <1>5, <2>1 DEF Dispatch, NoRecord, FlagsFit, SafeAuthoritative
  <2> QED BY <1>2, <2>1, <2>2, <2>3 DEF RecorderFits
<1>6. ASSUME NEW p \in Comparisons, BeginComparison(p) PROVE EvidenceInv'
  <2>1. p \in EvidenceWriters
    BY DEF EvidenceWriters
  <2>2. recorder[p].at = "dispatched" /\ UNCHANGED <<shadowState, shown>> /\ recorder[p].record.kind = "comparison"
        /\ FlagsFit(recorder[p].record)
    BY <1>6, <2>1 DEF BeginComparison, RecorderFits
  <2>3. /\ recorder'[p].at = "recording" /\ recorder'[p].record.kind = recorder[p].record.kind
        /\ recorder'[p].state = shadowState /\ FlagsFit(recorder'[p].record)
        /\ DOMAIN recorder' = EvidenceWriters /\ \A q \in EvidenceWriters \ {p} : recorder'[q] = recorder[q]
    <3>1. PICK good \in BOOLEAN : recorder' = [recorder EXCEPT
            ![p].at = "recording", ![p].record.good = good, ![p].state = shadowState]
      BY <1>6 DEF BeginComparison
    <3>2. recorder'[p] = [recorder[p] EXCEPT !.at = "recording", !.record.good = good, !.state = shadowState]
      BY <2>1, <3>1
    <3> QED BY <2>1, <2>2, <3>1, <3>2 DEF FlagsFit
  <2> QED BY <1>2, <2>1, <2>2, <2>3 DEF RecorderFits, RecordFits
<1>7. CASE UNCHANGED evidenceVars
  BY <1>7 DEF evidenceVars, ShownFits
<1> QED BY <1>1, <1>3, <1>4, <1>5, <1>6, <1>7 DEF EvidenceNext

\* A stage was earned by records of the stages before it, however the processes
\* that recorded them overlapped, overwrote one another and were lost
\* (typed-evidence-shadow-policy.js).
THEOREM AuthorityAlwaysEarned == EvidenceSpec => []AuthorityIsEarned
<1>1. EvidenceInv => AuthorityIsEarned
  BY DEF EvidenceInv, AuthorityIsEarned, EarnedBy, CleanReplay, LaterCount, Later, Lives, Uses, Earnings
<1> QED BY <1>1, EvidenceInitHolds, EvidenceStep, PTL DEF EvidenceSpec

----------------------------------------------------------------------------
(***************************************************************************)
(* What the health of the dispatcher rests on, for any targets, criteria   *)
(* and processes that overlap, overwrite one another and die.  A state is  *)
(* worth no more than the reports made; each process holds a copy that     *)
(* was, and a report of its own that is still to come.                     *)
(***************************************************************************)

\* What a repair action may be, and what the files and processes hold.
ActionStates == {"open", "validated", "resolved", "auto_repair_blocked", "auto_applied"}
HealthStates ==
    [stage : {"v1", "v2"}, observed : Nat, created : Nat, validated : Nat, incidents : Nat,
     failures : [HealthTargets -> Nat], quarantined : SUBSET HealthTargets,
     actions : [HealthTargets -> Seq(ActionStates)]]
HealthEvents ==
    [kind : {"failure", "success", "validated", "resolved", "incident", "repair", "none"},
     target : HealthTargets, protected : BOOLEAN, action : Nat]
Documents == [Sources -> Nat]
Operations == [at : {"idle", "recording", "gap", "checking", "planned", "replacing", "replaced", "done", "failed"},
               event : HealthEvents, state : HealthStates, doc : Documents]

\* The reports of a kind about a target, and of a kind at all, among those of S.
About(S, kind, t) == {o \in S : o[2].kind = kind /\ o[2].target = t}
OfKind(S, kind) == {o \in S : o[2].kind = kind /\ o[2].target \in HealthTargets}

\* What the stage that repairs by itself asks for.
Proven(S) ==
    /\ Cardinality(S) >= MinObserved
    /\ Cardinality(OfKind(S, "failure")) >= MinCreated
    /\ Cardinality(OfKind(S, "validated")) >= MinValidated
    /\ \E t \in HealthTargets : About(S, "validated", t) # {} /\ About(S, "failure", t) # {}

\* A state is worth no more than the reports of S.
WorthTargets(s, S) ==
    \A t \in HealthTargets :
        /\ s.failures[t] <= Cardinality(About(S, "failure", t))
        /\ t \in s.quarantined =>
             /\ Cardinality(About(S, "failure", t)) >= RepeatedFailure
             /\ \E o \in About(S, "failure", t) : o[2].protected = FALSE
        /\ s.actions[t] # <<>> =>
             /\ About(S, "failure", t) # {}
             /\ t \in Sources => Cardinality(About(S, "failure", t)) >= RepeatedFailure

WorthCounts(s, S) ==
    /\ s.observed <= Cardinality(S)
    /\ s.created <= Cardinality(OfKind(S, "failure"))
    /\ s.validated <= Cardinality(OfKind(S, "validated"))
    /\ s.validated > 0 => \E t \in HealthTargets : About(S, "validated", t) # {} /\ About(S, "failure", t) # {}
    /\ s.stage = "v2" => Proven(S)

Worth(s, S) == WorthTargets(s, S) /\ WorthCounts(s, S)

\* So is a document of fast paths.
DocWorth(d, S) ==
    \A s \in Sources :
        /\ d[s] <= 1
        /\ d[s] > 0 => Proven(S) /\ Cardinality(About(S, "failure", s)) >= RepeatedFailure

\* A part of a finite set is no larger.
LEMMA SubsetSize ==
    ASSUME NEW S, IsFiniteSet(S), NEW T \in SUBSET S
    PROVE  IsFiniteSet(T) /\ Cardinality(T) \in Nat /\ Cardinality(S) \in Nat /\ Cardinality(T) <= Cardinality(S)
BY FS_Subset, FS_CardinalityType

\* The reports of a kind can be counted.
LEMMA AboutSize ==
    ASSUME NEW S, IsFiniteSet(S), NEW kind, NEW t
    PROVE  /\ IsFiniteSet(About(S, kind, t)) /\ Cardinality(About(S, kind, t)) \in Nat
           /\ IsFiniteSet(OfKind(S, kind)) /\ Cardinality(OfKind(S, kind)) \in Nat
           /\ Cardinality(S) \in Nat
<1>1. About(S, kind, t) \in SUBSET S /\ OfKind(S, kind) \in SUBSET S
  BY DEF About, OfKind
<1> QED BY <1>1, SubsetSize

\* Further reports take none away.
LEMMA AboutGrows ==
    ASSUME NEW S, NEW R, IsFiniteSet(R), S \subseteq R, NEW kind, NEW t
    PROVE  /\ About(S, kind, t) \subseteq About(R, kind, t)
           /\ Cardinality(About(S, kind, t)) <= Cardinality(About(R, kind, t))
           /\ Cardinality(OfKind(S, kind)) <= Cardinality(OfKind(R, kind))
           /\ Cardinality(S) <= Cardinality(R)
           /\ IsFiniteSet(S)
<1>1. About(S, kind, t) \in SUBSET About(R, kind, t) /\ OfKind(S, kind) \in SUBSET OfKind(R, kind) /\ S \in SUBSET R
  BY DEF About, OfKind
<1>2. IsFiniteSet(About(R, kind, t)) /\ IsFiniteSet(OfKind(R, kind))
  BY AboutSize
<1> QED BY <1>1, <1>2, SubsetSize

\* What is proven stays proven, whoever reports next.
LEMMA ProvenStays ==
    ASSUME NEW S, NEW R, IsFiniteSet(R), S \subseteq R, Proven(S)
    PROVE  Proven(R)
<1>1. IsFiniteSet(S)
  BY SubsetSize
<1>2. /\ Cardinality(S) <= Cardinality(R) /\ Cardinality(OfKind(S, "failure")) <= Cardinality(OfKind(R, "failure"))
      /\ Cardinality(OfKind(S, "validated")) <= Cardinality(OfKind(R, "validated"))
  BY AboutGrows
<1>3. /\ Cardinality(S) \in Nat /\ Cardinality(R) \in Nat
      /\ Cardinality(OfKind(S, "failure")) \in Nat /\ Cardinality(OfKind(R, "failure")) \in Nat
      /\ Cardinality(OfKind(S, "validated")) \in Nat /\ Cardinality(OfKind(R, "validated")) \in Nat
      /\ {MinObserved, MinCreated, MinValidated} \subseteq Nat
  BY <1>1, AboutSize, HealthAssumption
<1>4. \E t \in HealthTargets : About(R, "validated", t) # {} /\ About(R, "failure", t) # {}
  <2>1. PICK t \in HealthTargets : About(S, "validated", t) # {} /\ About(S, "failure", t) # {}
    BY DEF Proven
  <2>2. About(S, "validated", t) \subseteq About(R, "validated", t) /\ About(S, "failure", t) \subseteq About(R,
      "failure", t)
    BY AboutGrows
  <2> QED BY <2>1, <2>2
<1> QED BY <1>2, <1>3, <1>4 DEF Proven

\* What was worth its state stays so, whoever reports next.
LEMMA WorthStays ==
    ASSUME NEW s \in HealthStates, NEW S, NEW R, IsFiniteSet(R), S \subseteq R, Worth(s, S)
    PROVE  Worth(s, R)
<1>1. IsFiniteSet(S) /\ RepeatedFailure \in Nat
  BY SubsetSize, HealthAssumption
<1>2. WorthTargets(s, R)
  <2> SUFFICES ASSUME NEW t \in HealthTargets
               PROVE  /\ s.failures[t] <= Cardinality(About(R, "failure", t))
                      /\ t \in s.quarantined =>
                           /\ Cardinality(About(R, "failure", t)) >= RepeatedFailure
                           /\ \E o \in About(R, "failure", t) : o[2].protected = FALSE
                      /\ s.actions[t] # <<>> =>
                           /\ About(R, "failure", t) # {}
                           /\ t \in Sources => Cardinality(About(R, "failure", t)) >= RepeatedFailure
    BY DEF WorthTargets
  <2>1. /\ About(S, "failure", t) \subseteq About(R, "failure", t)
        /\ Cardinality(About(S, "failure", t)) <= Cardinality(About(R, "failure", t))
        /\ Cardinality(About(S, "failure", t)) \in Nat /\ Cardinality(About(R, "failure", t)) \in Nat
    BY <1>1, AboutGrows, AboutSize
  <2>2. s.failures[t] \in Nat
    BY DEF HealthStates
  <2>3. /\ s.failures[t] <= Cardinality(About(S, "failure", t))
        /\ t \in s.quarantined =>
             /\ Cardinality(About(S, "failure", t)) >= RepeatedFailure
             /\ \E o \in About(S, "failure", t) : o[2].protected = FALSE
        /\ s.actions[t] # <<>> =>
             /\ About(S, "failure", t) # {}
             /\ t \in Sources => Cardinality(About(S, "failure", t)) >= RepeatedFailure
    BY DEF Worth, WorthTargets
  <2> QED BY <1>1, <2>1, <2>2, <2>3
<1>3. WorthCounts(s, R)
  <2>1. /\ Cardinality(S) <= Cardinality(R) /\ Cardinality(OfKind(S, "failure")) <= Cardinality(OfKind(R, "failure"))
        /\ Cardinality(OfKind(S, "validated")) <= Cardinality(OfKind(R, "validated"))
    BY AboutGrows
  <2>2. /\ Cardinality(S) \in Nat /\ Cardinality(R) \in Nat
        /\ Cardinality(OfKind(S, "failure")) \in Nat /\ Cardinality(OfKind(R, "failure")) \in Nat
        /\ Cardinality(OfKind(S, "validated")) \in Nat /\ Cardinality(OfKind(R, "validated")) \in Nat
        /\ s.observed \in Nat /\ s.created \in Nat /\ s.validated \in Nat
    BY <1>1, AboutSize DEF HealthStates
  <2>3. ASSUME NEW t \in HealthTargets, About(S, "validated", t) # {}, About(S, "failure", t) # {}
        PROVE  About(R, "validated", t) # {} /\ About(R, "failure", t) # {}
    BY <2>3, AboutGrows
  <2>4. s.stage = "v2" => Proven(R)
    BY ProvenStays DEF Worth, WorthCounts
  <2> QED BY <2>1, <2>2, <2>3, <2>4 DEF Worth, WorthCounts
<1> QED BY <1>2, <1>3 DEF Worth

\* So does what a document of fast paths rests on.
LEMMA DocWorthStays ==
    ASSUME NEW d \in Documents, NEW S, NEW R, IsFiniteSet(R), S \subseteq R, DocWorth(d, S)
    PROVE  DocWorth(d, R)
<1> SUFFICES ASSUME NEW s \in Sources
             PROVE  d[s] <= 1 /\ (d[s] > 0 => Proven(R) /\ Cardinality(About(R, "failure", s)) >= RepeatedFailure)
  BY DEF DocWorth
<1>1. IsFiniteSet(S) /\ RepeatedFailure \in Nat
  BY SubsetSize, HealthAssumption
<1>2. /\ Cardinality(About(S, "failure", s)) <= Cardinality(About(R, "failure", s))
      /\ Cardinality(About(S, "failure", s)) \in Nat /\ Cardinality(About(R, "failure", s)) \in Nat
  BY <1>1, AboutGrows, AboutSize
<1>3. Proven(S) => Proven(R)
  BY ProvenStays
<1> QED BY <1>1, <1>2, <1>3 DEF DocWorth

\* A report that was not made yet counts as one more.
LEMMA OneReport ==
    ASSUME NEW S, IsFiniteSet(S), NEW p, NEW e \in HealthEvents, <<p, e>> \notin S, NEW R, R = S \cup {<<p, e>>}
    PROVE  /\ IsFiniteSet(R) /\ S \subseteq R /\ Cardinality(R) = Cardinality(S) + 1
           /\ <<p, e>> \in About(R, e.kind, e.target)
           /\ Cardinality(About(R, e.kind, e.target)) = Cardinality(About(S, e.kind, e.target)) + 1
           /\ Cardinality(OfKind(R, e.kind)) = Cardinality(OfKind(S, e.kind)) + 1
<1>1. e.target \in HealthTargets
  BY DEF HealthEvents
<1>2. /\ About(R, e.kind, e.target) = About(S, e.kind, e.target) \cup {<<p, e>>}
      /\ OfKind(R, e.kind) = OfKind(S, e.kind) \cup {<<p, e>>}
      /\ <<p, e>> \notin About(S, e.kind, e.target) /\ <<p, e>> \notin OfKind(S, e.kind)
  BY <1>1 DEF About, OfKind
<1>3. IsFiniteSet(About(S, e.kind, e.target)) /\ IsFiniteSet(OfKind(S, e.kind))
  BY AboutSize
<1> QED BY <1>2, <1>3, FS_AddElement

\* A repair action that is closed was there, and stays there.
LEMMA ClosedFacts ==
    ASSUME NEW s \in HealthStates, NEW e \in HealthEvents, NEW status \in ActionStates,
           e.action \in DOMAIN s.actions[e.target]
    PROVE  /\ Closed(s, e, status) \in HealthStates
           /\ [Closed(s, e, status) EXCEPT !.actions = s.actions] = s
           /\ \A t \in HealthTargets : Closed(s, e, status).actions[t] # <<>> => s.actions[t] # <<>>
           /\ s.actions[e.target] # <<>>
<1> DEFINE t == e.target
           n == e.action
           marked == [s.actions[t] EXCEPT ![n] = status]
           actions == [s.actions EXCEPT ![t] = marked]
<1>1. t \in HealthTargets /\ s.actions \in [HealthTargets -> Seq(ActionStates)] /\ s.actions[t] \in Seq(ActionStates)
  BY DEF HealthEvents, HealthStates
<1>2. n \in 1..Len(s.actions[t]) /\ s.actions[t] # <<>>
  BY <1>1, LenProperties, EmptySeq
<1>3. marked \in Seq(ActionStates)
  BY <1>1, <1>2, ExceptSeq
<1>4. Closed(s, e, status) = [s EXCEPT !.actions = actions]
  BY <1>1 DEF Closed, HealthStates
<1> HIDE DEF marked
<1>5. actions \in [HealthTargets -> Seq(ActionStates)]
  BY <1>1, <1>3
<1>6. \A u \in HealthTargets : actions[u] # <<>> => s.actions[u] # <<>>
  BY <1>1, <1>2
<1> HIDE DEF actions
<1> QED BY <1>2, <1>4, <1>5, <1>6 DEF HealthStates

\* Closing an action takes no more evidence than opening it did.
LEMMA ClosedWorth ==
    ASSUME NEW s \in HealthStates, NEW e \in HealthEvents, NEW status \in ActionStates,
           e.action \in DOMAIN s.actions[e.target], NEW S, Worth(s, S)
    PROVE  /\ Worth(Closed(s, e, status), S) /\ Closed(s, e, status) \in HealthStates
           /\ Closed(s, e, status).observed = s.observed
           /\ Closed(s, e, status).validated = s.validated
           /\ Closed(s, e, status).created = s.created /\ Closed(s, e, status).stage = s.stage
<1> DEFINE c == Closed(s, e, status)
<1>1. c \in HealthStates /\ \A t \in HealthTargets : c.actions[t] # <<>> => s.actions[t] # <<>>
  BY ClosedFacts
<1>2. [c EXCEPT !.actions = s.actions] = s
  BY ClosedFacts
<1> HIDE DEF c
<1>3. /\ c.observed = s.observed /\ c.created = s.created /\ c.validated = s.validated /\ c.stage = s.stage
      /\ c.failures = s.failures /\ c.quarantined = s.quarantined
  BY <1>1, <1>2 DEF HealthStates
<1>4. WorthTargets(c, S)
  BY <1>1, <1>3 DEF Worth, WorthTargets
<1>5. WorthCounts(c, S)
  BY <1>3 DEF Worth, WorthCounts
<1> QED BY <1>1, <1>3, <1>4, <1>5 DEF Worth, c

\* RecordFailure field by field.
LEMMA FailureFields ==
    ASSUME NEW s \in HealthStates, NEW e \in HealthEvents
    PROVE  LET t == e.target
               r == RecordFailure(s, e)
               create == (t \in Corrected \/ s.failures[t] + 1 >= RepeatedFailure) /\ "open" \notin ToSet(s.actions[t])
           IN  /\ r \in HealthStates
               /\ r.stage = s.stage /\ r.observed = s.observed /\ r.validated = s.validated
               /\ r.failures = [s.failures EXCEPT ![t] = s.failures[t] + 1]
               /\ r.actions = [s.actions EXCEPT ![t] = IF create THEN Append(s.actions[t], "open") ELSE s.actions[t]]
               /\ r.created \in {s.created, s.created + 1}
               /\ \/ r.quarantined = s.quarantined
                  \/ /\ r.quarantined = s.quarantined \cup {t}
                     /\ s.failures[t] + 1 >= RepeatedFailure /\ e.protected = FALSE
<1> DEFINE t == e.target
           create == (t \in Corrected \/ s.failures[t] + 1 >= RepeatedFailure) /\ "open" \notin ToSet(s.actions[t])
           failures == [s.failures EXCEPT ![t] = s.failures[t] + 1]
           actions == [s.actions EXCEPT ![t] = IF create THEN Append(s.actions[t], "open") ELSE s.actions[t]]
           created == s.created + IF create /\ s.stage = "v1" THEN 1 ELSE 0
           safe == s.failures[t] + 1 >= RepeatedFailure /\ ~e.protected /\ t \in Quarantinable
           quarantined == IF safe THEN s.quarantined \cup {t} ELSE s.quarantined
<1>1. /\ t \in HealthTargets /\ s.actions \in [HealthTargets -> Seq(ActionStates)]
      /\ s.failures \in [HealthTargets -> Nat] /\ s.created \in Nat /\ s.quarantined \subseteq HealthTargets
  BY DEF HealthEvents, HealthStates
<1>2. RecordFailure(s, e) = [s EXCEPT !.failures = failures, !.actions = actions, !.created = created,
                                      !.quarantined = quarantined]
  BY <1>1 DEF RecordFailure, HealthStates
<1>3. failures \in [HealthTargets -> Nat]
  BY <1>1
<1>4. actions \in [HealthTargets -> Seq(ActionStates)]
  <2>1. Append(s.actions[t], "open") \in Seq(ActionStates)
    BY <1>1, AppendProperties DEF ActionStates
  <2> HIDE DEF create
  <2> QED BY <1>1, <2>1
<1>5. created \in {s.created, s.created + 1} /\ created \in Nat
  <2> HIDE DEF create
  <2> QED BY <1>1
<1>6. /\ quarantined \subseteq HealthTargets
      /\ quarantined = s.quarantined \/ (quarantined = s.quarantined \cup {t} /\ safe)
  <2> HIDE DEF safe
  <2> QED BY <1>1
<1>7. safe => s.failures[t] + 1 >= RepeatedFailure /\ e.protected = FALSE
  <2>1. e.protected \in BOOLEAN
    BY DEF HealthEvents
  <2> QED BY <2>1
<1> HIDE DEF failures, actions, created, quarantined, safe
<1>8. RecordFailure(s, e) \in HealthStates
  BY <1>2, <1>3, <1>4, <1>5, <1>6 DEF HealthStates
<1>9. /\ RecordFailure(s, e).stage = s.stage /\ RecordFailure(s, e).observed = s.observed
      /\ RecordFailure(s, e).validated = s.validated /\ RecordFailure(s, e).failures = failures
      /\ RecordFailure(s, e).actions = actions /\ RecordFailure(s, e).created = created
      /\ RecordFailure(s, e).quarantined = quarantined
  BY <1>2 DEF HealthStates
<1> QED BY <1>5, <1>6, <1>7, <1>8, <1>9 DEF failures, actions

\* A failure that is reported pays for what it adds.
LEMMA FailureWorth ==
    ASSUME NEW s \in HealthStates, NEW e \in HealthEvents, e.kind = "failure", NEW p,
           NEW S, IsFiniteSet(S), <<p, e>> \notin S, Worth(s, S), NEW R, R = S \cup {<<p, e>>}
    PROVE  RecordFailure(s, e) \in HealthStates /\ Worth(RecordFailure(s, e), R)
           /\ RecordFailure(s, e).observed = s.observed
<1> DEFINE t == e.target
           r == RecordFailure(s, e)
<1>1. /\ IsFiniteSet(R) /\ S \subseteq R /\ <<p, e>> \in About(R, "failure", t)
      /\ Cardinality(About(R, "failure", t)) = Cardinality(About(S, "failure", t)) + 1
      /\ Cardinality(OfKind(R, "failure")) = Cardinality(OfKind(S, "failure")) + 1
  BY OneReport
<1>2. Worth(s, R)
  BY <1>1, WorthStays
<1>3. /\ t \in HealthTargets /\ s.failures \in [HealthTargets -> Nat] /\ s.created \in Nat
      /\ s.actions \in [HealthTargets -> Seq(ActionStates)] /\ RepeatedFailure \in Nat
      /\ Sources \cap Corrected = {}
  BY HealthAssumption DEF HealthEvents, HealthStates
<1>4. /\ r \in HealthStates
      /\ r.stage = s.stage /\ r.observed = s.observed /\ r.validated = s.validated
      /\ r.failures = [s.failures EXCEPT ![t] = s.failures[t] + 1]
      /\ r.created \in {s.created, s.created + 1}
      /\ \/ r.quarantined = s.quarantined
         \/ r.quarantined = s.quarantined \cup {t} /\ s.failures[t] + 1 >= RepeatedFailure /\ e.protected = FALSE
  BY FailureFields
<1>5. /\ \A u \in HealthTargets : u # t => r.actions[u] = s.actions[u]
      /\ r.actions[t] = s.actions[t] \/ t \in Corrected \/ s.failures[t] + 1 >= RepeatedFailure
  <2> DEFINE create == (t \in Corrected \/ s.failures[t] + 1 >= RepeatedFailure) /\ "open" \notin ToSet(s.actions[t])
  <2>1. r.actions = [s.actions EXCEPT ![t] = IF create THEN Append(s.actions[t], "open") ELSE s.actions[t]]
    BY FailureFields
  <2>2. create => t \in Corrected \/ s.failures[t] + 1 >= RepeatedFailure
    OBVIOUS
  <2> HIDE DEF create, r, t
  <2> QED BY <1>3, <2>1, <2>2
<1> HIDE DEF r
<1>6. /\ Cardinality(About(S, "failure", t)) \in Nat /\ Cardinality(About(R, "failure", t)) \in Nat
      /\ Cardinality(OfKind(S, "failure")) \in Nat
      /\ s.failures[t] + 1 <= Cardinality(About(R, "failure", t))
  <2>1. Cardinality(About(S, "failure", t)) \in Nat /\ Cardinality(OfKind(S, "failure")) \in Nat
    BY AboutSize
  <2>2. s.failures[t] \in Nat /\ s.failures[t] <= Cardinality(About(S, "failure", t))
    BY <1>3 DEF Worth, WorthTargets
  <2> QED BY <1>1, <2>1, <2>2
<1>7. WorthTargets(r, R)
  <2> SUFFICES ASSUME NEW u \in HealthTargets
               PROVE  /\ r.failures[u] <= Cardinality(About(R, "failure", u))
                      /\ u \in r.quarantined =>
                           /\ Cardinality(About(R, "failure", u)) >= RepeatedFailure
                           /\ \E o \in About(R, "failure", u) : o[2].protected = FALSE
                      /\ r.actions[u] # <<>> =>
                           /\ About(R, "failure", u) # {}
                           /\ u \in Sources => Cardinality(About(R, "failure", u)) >= RepeatedFailure
    BY DEF WorthTargets
  <2>1. /\ s.failures[u] <= Cardinality(About(R, "failure", u))
        /\ u \in s.quarantined =>
             /\ Cardinality(About(R, "failure", u)) >= RepeatedFailure
             /\ \E o \in About(R, "failure", u) : o[2].protected = FALSE
        /\ s.actions[u] # <<>> =>
             /\ About(R, "failure", u) # {}
             /\ u \in Sources => Cardinality(About(R, "failure", u)) >= RepeatedFailure
    BY <1>2 DEF Worth, WorthTargets
  <2>2. CASE u # t
    BY <1>3, <1>4, <1>5, <2>1, <2>2
  <2>3. CASE u = t
    <3>1. r.failures[t] = s.failures[t] + 1
      BY <1>3, <1>4
    <3>2. s.failures[t] + 1 >= RepeatedFailure => Cardinality(About(R, "failure", t)) >= RepeatedFailure
      <4>1. s.failures[t] \in Nat
        BY <1>3
      <4> QED BY <1>3, <1>6, <4>1
    <3>3. t \in r.quarantined =>
             /\ Cardinality(About(R, "failure", t)) >= RepeatedFailure
             /\ \E o \in About(R, "failure", t) : o[2].protected = FALSE
      BY <1>1, <1>4, <2>1, <2>3, <3>2
    <3>4. r.actions[t] # <<>> =>
             /\ About(R, "failure", t) # {}
             /\ t \in Sources => Cardinality(About(R, "failure", t)) >= RepeatedFailure
      BY <1>1, <1>3, <1>5, <2>1, <2>3, <3>2
    <3> QED BY <1>6, <2>3, <3>1, <3>3, <3>4
  <2> QED BY <2>2, <2>3
<1>8. WorthCounts(r, R)
  <2>1. /\ s.observed <= Cardinality(R) /\ s.validated <= Cardinality(OfKind(R, "validated"))
        /\ s.validated > 0 => \E u \in HealthTargets : About(R, "validated", u) # {} /\ About(R, "failure", u) # {}
        /\ s.stage = "v2" => Proven(R)
    BY <1>2 DEF Worth, WorthCounts
  <2>2. s.created <= Cardinality(OfKind(S, "failure"))
    BY DEF Worth, WorthCounts
  <2>3. r.created <= Cardinality(OfKind(R, "failure"))
    BY <1>1, <1>3, <1>4, <1>6, <2>2
  <2> QED BY <1>4, <2>1, <2>3 DEF WorthCounts
<1> QED BY <1>4, <1>7, <1>8 DEF Worth, r

\* So does every event.
LEMMA ReportedWorth ==
    ASSUME NEW s \in HealthStates, NEW e \in HealthEvents, NEW p,
           NEW S, IsFiniteSet(S), <<p, e>> \notin S, Worth(s, S), NEW R, R = S \cup {<<p, e>>}
    PROVE  Reported(s, e) \in HealthStates /\ Worth(Reported(s, e), R) /\ Reported(s,
        e).observed + 1 <= Cardinality(R)
<1> DEFINE t == e.target
<1>1. /\ IsFiniteSet(R) /\ S \subseteq R /\ <<p, e>> \in About(R, e.kind, t)
      /\ Cardinality(R) = Cardinality(S) + 1
      /\ Cardinality(OfKind(R, e.kind)) = Cardinality(OfKind(S, e.kind)) + 1
  BY OneReport
<1>2. Worth(s, R)
  BY <1>1, WorthStays
<1>3. t \in HealthTargets /\ s.observed \in Nat /\ Cardinality(S) \in Nat /\ s.observed <= Cardinality(S)
  BY AboutSize DEF HealthEvents, HealthStates, Worth, WorthCounts
<1>4. s.observed + 1 <= Cardinality(R)
  BY <1>1, <1>3
<1>5. CASE e.kind = "failure"
  <2>1. Reported(s, e) = RecordFailure(s, e)
    BY <1>5 DEF Reported
  <2> QED BY <1>4, <1>5, <2>1, FailureWorth
<1>6. CASE e.kind = "success"
  <2>1. Reported(s, e) = [s EXCEPT !.failures = [s.failures EXCEPT ![t] = 0]]
    BY <1>6 DEF Reported, HealthStates
  <2> DEFINE r == [s EXCEPT !.failures = [s.failures EXCEPT ![t] = 0]]
  <2>2. [s.failures EXCEPT ![t] = 0] \in [HealthTargets -> Nat]
    BY <1>3 DEF HealthStates
  <2>3. /\ r \in HealthStates
        /\ r.observed = s.observed /\ r.created = s.created /\ r.validated = s.validated /\ r.stage = s.stage
        /\ r.actions = s.actions /\ r.quarantined = s.quarantined
        /\ \A u \in HealthTargets : r.failures[u] = IF u = t THEN 0 ELSE s.failures[u]
    BY <2>2 DEF HealthStates
  <2> HIDE DEF r
  <2>4. WorthTargets(r, R)
    <3>1. \A u \in HealthTargets : Cardinality(About(R, "failure", u)) \in Nat
      BY <1>1, AboutSize
    <3>2. ASSUME NEW u \in HealthTargets
          PROVE  /\ s.failures[u] <= Cardinality(About(R, "failure", u))
                 /\ u \in s.quarantined =>
                      /\ Cardinality(About(R, "failure", u)) >= RepeatedFailure
                      /\ \E o \in About(R, "failure", u) : o[2].protected = FALSE
                 /\ s.actions[u] # <<>> =>
                      /\ About(R, "failure", u) # {}
                      /\ u \in Sources => Cardinality(About(R, "failure", u)) >= RepeatedFailure
      BY <1>2 DEF Worth, WorthTargets
    <3>3. ASSUME NEW u \in HealthTargets PROVE r.failures[u] <= Cardinality(About(R, "failure", u))
      <4>1. CASE u = t
        <5>1. r.failures[u] = 0
          BY <2>3, <4>1
        <5> QED BY <3>1, <5>1
      <4>2. CASE u # t
        <5>1. r.failures[u] = s.failures[u]
          BY <2>3, <4>2
        <5> QED BY <3>2, <5>1
      <4> QED BY <4>1, <4>2
    <3> QED BY <2>3, <3>2, <3>3 DEF WorthTargets
  <2>5. WorthCounts(r, R)
    BY <1>2, <2>3 DEF Worth, WorthCounts
  <2> QED BY <1>4, <2>1, <2>3, <2>4, <2>5 DEF Worth, r
<1>7. ASSUME NEW status \in ActionStates
      PROVE  LET m == Marked(s, e, status)
             IN  /\ m \in HealthStates /\ Worth(m, R) /\ m.observed = s.observed /\ m.stage = s.stage
                 /\ m.validated = s.validated
  <2>1. CASE e.action \in DOMAIN s.actions[e.target]
    <3>1. Marked(s, e, status) = Closed(s, e, status)
      BY <2>1 DEF Marked, Closed
    <3> QED BY <1>2, <2>1, <3>1, ClosedWorth
  <2>2. CASE e.action \notin DOMAIN s.actions[e.target]
    <3>1. Marked(s, e, status) = s
      BY <2>2 DEF Marked
    <3> QED BY <1>2, <3>1
  <2> QED BY <2>1, <2>2
<1>8. CASE e.kind = "validated"
  <2> DEFINE m == Marked(s, e, "validated")
             counts == s.stage = "v1" /\ e.action \in DOMAIN s.actions[t]
             more == IF counts THEN 1 ELSE 0
             n == m.validated + more
             r == [m EXCEPT !.validated = n]
  <2>1. m \in HealthStates /\ Worth(m, R) /\ m.observed = s.observed /\ m.stage = s.stage /\ m.validated = s.validated
    BY <1>7 DEF ActionStates
  <2>2. Reported(s, e) = r
    BY <1>8 DEF Reported
  <2>3. counts => About(R, "failure", t) # {}
    <3> SUFFICES ASSUME counts PROVE About(R, "failure", t) # {}
      OBVIOUS
    <3>1. s.actions[t] # <<>>
      BY ClosedFacts DEF ActionStates
    <3> QED BY <1>2, <1>3, <3>1 DEF Worth, WorthTargets
  <2>4. more \in {0, 1} /\ (more = 1 => counts)
    OBVIOUS
  <2> HIDE DEF m, counts, more
  <2>10. n \in Nat /\ n = s.validated + more
    BY <2>1, <2>4 DEF HealthStates
  <2> HIDE DEF n
  <2>5. /\ r \in HealthStates /\ r.observed = m.observed /\ r.created = m.created /\ r.stage = m.stage
        /\ r.failures = m.failures /\ r.actions = m.actions /\ r.quarantined = m.quarantined
        /\ r.validated = s.validated + more
    BY <2>1, <2>10 DEF HealthStates
  <2> HIDE DEF r
  <2>6. WorthTargets(r, R)
    BY <2>1, <2>5 DEF Worth, WorthTargets
  <2>7. r.validated <= Cardinality(OfKind(R, "validated"))
    <3>1. s.validated \in Nat /\ Cardinality(OfKind(S, "validated")) \in Nat
      BY AboutSize DEF HealthStates
    <3>2. s.validated <= Cardinality(OfKind(S, "validated"))
      BY DEF Worth, WorthCounts
    <3> QED BY <1>1, <1>8, <2>4, <2>5, <3>1, <3>2
  <2>8. r.validated > 0 => \E u \in HealthTargets : About(R, "validated", u) # {} /\ About(R, "failure", u) # {}
    <3>1. CASE more = 1
      <4>1. About(R, "validated", t) # {} /\ About(R, "failure", t) # {}
        BY <1>1, <1>8, <2>3, <2>4, <3>1
      <4> QED BY <1>3, <4>1
    <3>2. CASE more = 0
      <4>1. r.validated = s.validated
        BY <2>5, <3>2 DEF HealthStates
      <4> QED BY <1>2, <4>1 DEF Worth, WorthCounts
    <3> QED BY <2>4, <3>1, <3>2
  <2>9. WorthCounts(r, R)
    BY <2>1, <2>5, <2>7, <2>8 DEF Worth, WorthCounts
  <2> QED BY <1>4, <2>1, <2>2, <2>5, <2>6, <2>9 DEF Worth
<1>9. CASE e.kind = "resolved"
  <2>1. Reported(s, e) = Marked(s, e, "resolved")
    BY <1>9 DEF Reported
  <2> QED BY <1>4, <1>7, <2>1 DEF ActionStates
<1>10. CASE e.kind = "incident"
  <2> DEFINE n == s.incidents + IF s.stage = "v1" THEN 1 ELSE 0
             r == [s EXCEPT !.incidents = n]
  <2>1. Reported(s, e) = r /\ n \in Nat
    BY <1>10 DEF Reported, HealthStates
  <2> HIDE DEF n
  <2>2. /\ r \in HealthStates /\ r.observed = s.observed /\ r.created = s.created /\ r.stage = s.stage
        /\ r.failures = s.failures /\ r.actions = s.actions /\ r.quarantined = s.quarantined
        /\ r.validated = s.validated
    BY <2>1 DEF HealthStates
  <2> HIDE DEF r
  <2>3. WorthTargets(r, R) /\ WorthCounts(r, R)
    BY <1>2, <2>2 DEF Worth, WorthTargets, WorthCounts
  <2> QED BY <1>4, <2>1, <2>2, <2>3 DEF Worth
<1>11. CASE e.kind \in {"repair", "none"}
  <2>1. Reported(s, e) = s
    BY <1>11 DEF Reported
  <2> QED BY <1>2, <1>4, <2>1
<1> QED BY <1>5, <1>6, <1>8, <1>9, <1>10, <1>11 DEF HealthEvents

\* Counting the event, and a promotion, rest on the reports made.
LEMMA MeasuredWorth ==
    ASSUME NEW s \in HealthStates, NEW S, IsFiniteSet(S), Worth(s, S), s.observed + 1 <= Cardinality(S),
           NEW m \in Measured(s)
    PROVE  m \in HealthStates /\ Worth(m, S)
<1> DEFINE more == IF s.stage = "v1" THEN 1 ELSE 0
           n == s.observed + more
           c == [s EXCEPT !.observed = n]
<1>1. more \in {0, 1} /\ s.observed \in Nat /\ Cardinality(S) \in Nat
  BY AboutSize DEF HealthStates
<1>2. m \in {c} \cup IF PromotesHealth(c) THEN {[c EXCEPT !.stage = "v2"]} ELSE {}
  BY DEF Measured, HealthStates
<1>6. n \in Nat /\ n <= Cardinality(S)
  BY <1>1
<1> HIDE DEF more, n
<1>3. /\ c \in HealthStates /\ c.created = s.created /\ c.stage = s.stage /\ c.validated = s.validated
      /\ c.failures = s.failures /\ c.actions = s.actions /\ c.quarantined = s.quarantined
      /\ c.observed <= Cardinality(S)
  BY <1>6 DEF HealthStates
<1> HIDE DEF c
<1>4. WorthTargets(c, S) /\ WorthCounts(c, S)
  BY <1>3 DEF Worth, WorthTargets, WorthCounts
<1>5. ASSUME PromotesHealth(c) PROVE [c EXCEPT !.stage = "v2"] \in HealthStates /\ Worth([c EXCEPT !.stage = "v2"], S)
  <2> DEFINE r == [c EXCEPT !.stage = "v2"]
  <2>1. /\ r \in HealthStates /\ r.created = c.created /\ r.stage = "v2" /\ r.validated = c.validated
        /\ r.failures = c.failures /\ r.actions = c.actions /\ r.quarantined = c.quarantined
        /\ r.observed = c.observed
    BY <1>3 DEF HealthStates
  <2> HIDE DEF r
  <2>2. c.observed >= MinObserved /\ c.created >= MinCreated /\ c.validated >= MinValidated
    BY <1>5 DEF PromotesHealth
  <2>3. /\ c.observed \in Nat /\ c.created \in Nat /\ c.validated \in Nat
        /\ MinObserved \in Nat /\ MinCreated \in Nat /\ MinValidated \in Nat /\ MinValidated # 0
        /\ Cardinality(OfKind(S, "failure")) \in Nat /\ Cardinality(OfKind(S, "validated")) \in Nat
    BY <1>3, AboutSize, HealthAssumption DEF HealthStates
  <2>4. Proven(S)
    BY <1>1, <1>4, <2>2, <2>3 DEF Proven, WorthCounts
  <2>5. WorthTargets(r, S) /\ WorthCounts(r, S)
    BY <1>4, <2>1, <2>4 DEF WorthTargets, WorthCounts
  <2> QED BY <2>1, <2>5 DEF Worth, r
<1> QED BY <1>2, <1>3, <1>4, <1>5 DEF Worth

\* What a process knows: what it has read is worth its state, and it reports
\* what it is about once.
OperationFits(op, p, S) ==
    /\ Worth(op.state, S) /\ DocWorth(op.doc, S)
    /\ op.at \notin {"done", "failed"} => <<p, op.event>> \notin S
    /\ op.at \in {"idle", "gap"} => \A o \in S : o[1] # p
    /\ op.at = "gap" => op.event.kind = "failure"
    /\ op.at = "checking" => op.event.kind = "validated"
    /\ op.at \in {"planned", "replacing", "replaced"} =>
         /\ op.state.stage = "v2" /\ op.event.target \in Sources
         /\ op.event.action \in DOMAIN op.state.actions[op.event.target]

\* The shape of the state.
HealthShape ==
    /\ health \in HealthStates /\ fastpaths \in Documents
    /\ operation \in [Operators -> Operations] /\ IsFiniteSet(outcomes)

\* The inductive invariant.
HealthInv ==
    /\ HealthShape
    /\ Worth(health, outcomes) /\ DocWorth(fastpaths, outcomes)
    /\ \A p \in Operators : OperationFits(operation[p], p, outcomes)

\* What a process starts with.
LEMMA FreshFacts ==
    /\ NoHealth \in HealthStates /\ NoPaths \in Documents /\ Fresh \in Operations
    /\ Fresh = [at |-> "idle", event |-> Other("none", Check, 0), state |-> NoHealth, doc |-> NoPaths]
    /\ \A kind \in {"validated", "resolved", "incident", "repair", "success", "none"}, t \in HealthTargets,
        n \in Nat :
         /\ Other(kind, t, n) \in HealthEvents /\ Other(kind, t, n).kind = kind
         /\ Other(kind, t, n).target = t /\ Other(kind, t, n).action = n
    /\ \A t \in HealthTargets, b \in BOOLEAN :
         HealthFailure(t, b) \in HealthEvents /\ HealthFailure(t, b).kind = "failure"
    /\ Check \in HealthTargets /\ Events \subseteq HealthEvents
<1>1. Check \in HealthTargets
  BY HealthAssumption
<1>2. <<>> \in Seq(ActionStates)
  BY EmptySeq
<1>3. NoHealth \in HealthStates /\ NoPaths \in Documents
  BY <1>2 DEF NoHealth, NoPaths, HealthStates, Documents
<1>4. \A kind \in {"validated", "resolved", "incident", "repair", "success", "none"}, t \in HealthTargets, n \in Nat :
         /\ Other(kind, t, n) \in HealthEvents /\ Other(kind, t, n).kind = kind
         /\ Other(kind, t, n).target = t /\ Other(kind, t, n).action = n
  BY DEF Other, HealthEvents
<1>5. \A t \in HealthTargets, b \in BOOLEAN :
         HealthFailure(t, b) \in HealthEvents /\ HealthFailure(t, b).kind = "failure"
  BY DEF HealthFailure, HealthEvents
<1>6. Fresh \in Operations
  BY <1>1, <1>3, <1>4 DEF Fresh, Operations
<1>7. Events \subseteq HealthEvents
  <2>1. Quarantinable \subseteq HealthTargets
    BY HealthAssumption
  <2>2. Outcomes \subseteq HealthEvents
    <3>1. \A t \in HealthTargets : HealthFailure(t, FALSE) \in HealthEvents
      BY <1>5
    <3>2. \A t \in HealthTargets : Other("success", t, 0) \in HealthEvents
      BY <1>4
    <3> QED BY <3>1, <3>2 DEF Outcomes
  <2>3. ProtectedOutcomes \subseteq HealthEvents
    BY <1>5, <2>1 DEF ProtectedOutcomes
  <2>4. Controls \subseteq HealthEvents
    BY <1>1, <1>4 DEF Controls
  <2> QED BY <2>2, <2>3, <2>4 DEF Events
<1> QED BY <1>1, <1>3, <1>4, <1>5, <1>6, <1>7 DEF Fresh

\* An empty state needs no evidence.
LEMMA NothingWorth == ASSUME NEW S, IsFiniteSet(S) PROVE Worth(NoHealth, S) /\ DocWorth(NoPaths, S)
<1>1. /\ Cardinality(S) \in Nat /\ \A t : Cardinality(About(S, "failure", t)) \in Nat
      /\ Cardinality(OfKind(S, "failure")) \in Nat /\ Cardinality(OfKind(S, "validated")) \in Nat
  BY AboutSize
<1>2. WorthTargets(NoHealth, S)
  BY <1>1 DEF NoHealth, WorthTargets
<1>3. WorthCounts(NoHealth, S)
  BY <1>1 DEF NoHealth, WorthCounts
<1>4. DocWorth(NoPaths, S)
  BY DEF NoPaths, DocWorth
<1> QED BY <1>2, <1>3, <1>4 DEF Worth

\* Nothing is known at first.
LEMMA HealthInitHolds == HealthInit => HealthInv
<1> SUFFICES ASSUME HealthInit PROVE HealthInv
  OBVIOUS
<1>1. outcomes = {} /\ IsFiniteSet(outcomes)
  BY FS_EmptySet DEF HealthInit
<1>2. HealthShape
  BY <1>1, FreshFacts DEF HealthInit, HealthShape
<1>3. \A p \in Operators : OperationFits(operation[p], p, outcomes)
  BY <1>1, NothingWorth, FreshFacts DEF HealthInit, OperationFits
<1> QED BY <1>1, <1>2, <1>3, NothingWorth DEF HealthInit, HealthInv

\* A step of one process, which reports once at most: if its own copies and
\* the files fit, so does what the others know.
LEMMA OthersFit ==
    ASSUME HealthInv, NEW p \in Operators, NEW op \in Operations, NEW e,
           operation' = [operation EXCEPT ![p] = op],
           outcomes' \in {outcomes, outcomes \cup {<<p, e>>}},
           health' \in HealthStates, Worth(health', outcomes'),
           fastpaths' \in Documents, DocWorth(fastpaths', outcomes'),
           OperationFits(op, p, outcomes')
    PROVE  HealthInv'
<1>1. operation \in [Operators -> Operations] /\ IsFiniteSet(outcomes)
  BY DEF HealthInv, HealthShape
<1>2. IsFiniteSet(outcomes') /\ outcomes \subseteq outcomes'
  BY <1>1, FS_AddElement
<1>3. HealthShape'
  BY <1>1, <1>2 DEF HealthShape
<1>4. ASSUME NEW q \in Operators PROVE OperationFits(operation'[q], q, outcomes')
  <2>1. CASE q = p
    BY <1>1, <2>1
  <2>2. CASE q # p
    <3>1. operation'[q] = operation[q] /\ operation[q] \in Operations
      BY <1>1, <2>2
    <3>2. OperationFits(operation[q], q, outcomes)
      BY DEF HealthInv
    <3>3. operation[q].state \in HealthStates /\ operation[q].doc \in Documents
      BY <3>1 DEF Operations
    <3>4. Worth(operation[q].state, outcomes') /\ DocWorth(operation[q].doc, outcomes')
      BY <1>2, <3>2, <3>3, WorthStays, DocWorthStays DEF OperationFits
    <3>5. \A o \in outcomes' : o \in outcomes \/ (o[1] = p /\ o # <<q, operation[q].event>>)
      BY <2>2
    <3> QED BY <2>2, <3>1, <3>2, <3>4, <3>5 DEF OperationFits
  <2> QED BY <2>1, <2>2
<1> QED BY <1>3, <1>4 DEF HealthInv

\* The invariant is inductive.
LEMMA HealthStep == HealthInv /\ [HealthNext]_healthVars => HealthInv'
<1> SUFFICES ASSUME HealthInv, [HealthNext]_healthVars PROVE HealthInv'
  OBVIOUS
<1>1. /\ health \in HealthStates /\ fastpaths \in Documents /\ operation \in [Operators -> Operations]
      /\ IsFiniteSet(outcomes) /\ Worth(health, outcomes) /\ DocWorth(fastpaths, outcomes)
      /\ \A p \in Operators : OperationFits(operation[p], p, outcomes)
  BY DEF HealthInv, HealthShape
<1>2. \A p \in Operators : operation[p].state \in HealthStates /\ operation[p].event \in HealthEvents
                           /\ operation[p].doc \in Documents /\ operation[p] \in Operations
  BY <1>1 DEF Operations
<1>3. ASSUME NEW p \in Operators, NEW e \in HealthEvents, NEW at \in {"recording", "gap"}, ReadsHealth(p, at, e),
             operation[p].at \in {"idle", "checking"}, <<p, e>> \notin outcomes,
             at = "gap" => e.kind = "failure" /\ operation[p].at = "idle",
             UNCHANGED <<health, fastpaths, outcomes>>
      PROVE  HealthInv'
  <2>1. PICK gone \in SUBSET health.quarantined :
          operation' = [operation EXCEPT ![p] = [at |-> at, event |-> e, doc |-> NoPaths,
                                                 state |-> [health EXCEPT !.quarantined = @ \ gone]]]
    BY <1>3 DEF ReadsHealth
  <2> DEFINE s == [health EXCEPT !.quarantined = health.quarantined \ gone]
             op == [at |-> at, event |-> e, doc |-> NoPaths, state |-> s]
  <2>2. /\ s \in HealthStates /\ s.observed = health.observed /\ s.created = health.created /\ s.stage = health.stage
        /\ s.failures = health.failures /\ s.actions = health.actions /\ s.quarantined \subseteq health.quarantined
        /\ s.validated = health.validated
    BY <1>1 DEF HealthStates
  <2>3. operation' = [operation EXCEPT ![p] = op]
    BY <1>1, <2>1 DEF HealthStates
  <2> HIDE DEF s
  <2>4. Worth(s, outcomes)
    BY <1>1, <2>2 DEF Worth, WorthTargets, WorthCounts
  <2>5. op \in Operations
    BY <1>3, <2>2, FreshFacts DEF Operations
  <2>6. OperationFits(op, p, outcomes)
    BY <1>1, <1>3, <2>4, NothingWorth DEF OperationFits
  <2> HIDE DEF op
  <2> QED BY <1>1, <1>3, <2>3, <2>5, <2>6, OthersFit
<1>4. ASSUME NEW p \in Operators, NEW how \in {"done", "failed"}
      PROVE  [Fresh EXCEPT !.at = how] \in Operations /\ \A S : IsFiniteSet(S) => OperationFits([Fresh EXCEPT !.at = how], p, S)
  <2> DEFINE op == [Fresh EXCEPT !.at = how]
  <2>1. op.at = how /\ op.event = Fresh.event /\ op.state = NoHealth /\ op.doc = NoPaths /\ op \in Operations
    BY FreshFacts DEF Operations
  <2> HIDE DEF op
  <2>2. \A S : IsFiniteSet(S) => OperationFits(op, p, S)
    BY <2>1, NothingWorth DEF OperationFits
  <2> QED BY <2>1, <2>2 DEF op
<1>5. ASSUME NEW p \in Operators, operation[p].at \in {"recording", "gap", "replaced"},
             NEW s, s \in HealthStates, Worth(s, outcomes \cup {<<p, operation[p].event>>}),
             s.observed + 1 <= Cardinality(outcomes \cup {<<p, operation[p].event>>}),
             health' \in Measured(s)
      PROVE  /\ health' \in HealthStates /\ Worth(health', outcomes \cup {<<p, operation[p].event>>})
             /\ DocWorth(fastpaths, outcomes \cup {<<p, operation[p].event>>})
             /\ IsFiniteSet(outcomes \cup {<<p, operation[p].event>>})
  <2>1. IsFiniteSet(outcomes \cup {<<p, operation[p].event>>})
    BY <1>1, FS_AddElement
  <2> QED BY <1>1, <1>5, <2>1, MeasuredWorth, DocWorthStays
<1>6. ASSUME NEW p \in Operators, EndEvent(p) PROVE HealthInv'
  <2> DEFINE R == outcomes \cup {<<p, operation[p].event>>}
             op == [Fresh EXCEPT !.at = "done"]
             s == Reported(operation[p].state, operation[p].event)
  <2>1. /\ operation[p].at = "recording" /\ health' \in Measured(s) /\ outcomes' = R
        /\ operation' = [operation EXCEPT ![p] = op] /\ fastpaths' = fastpaths
    BY <1>6 DEF EndEvent, Ended, Leaves
  <2>2. Worth(operation[p].state, outcomes) /\ <<p, operation[p].event>> \notin outcomes
    BY <1>1, <2>1 DEF OperationFits
  <2>3. s \in HealthStates /\ Worth(s, R) /\ s.observed + 1 <= Cardinality(R)
    BY <1>1, <1>2, <2>2, ReportedWorth
  <2> HIDE DEF s
  <2>4. health' \in HealthStates /\ Worth(health', R) /\ DocWorth(fastpaths, R) /\ IsFiniteSet(R)
    BY <1>5, <2>1, <2>3
  <2>5. op \in Operations /\ OperationFits(op, p, R)
    BY <1>4, <2>4
  <2> HIDE DEF R, op
  <2>6. outcomes' \in {outcomes, outcomes \cup {<<p, operation[p].event>>}}
    BY <2>1 DEF R
  <2> QED BY <1>1, <2>1, <2>4, <2>5, <2>6, OthersFit
<1>7. ASSUME NEW p \in Operators, HealthLost(p) PROVE HealthInv'
  <2>1. operation' = [operation EXCEPT ![p] = [Fresh EXCEPT !.at = "failed"]] /\ UNCHANGED <<health, fastpaths,
      outcomes>>
    BY <1>7 DEF HealthLost, Leaves
  <2>2. [Fresh EXCEPT !.at = "failed"] \in Operations /\ OperationFits([Fresh EXCEPT !.at = "failed"], p, outcomes)
    BY <1>1, <1>4
  <2> QED BY <1>1, <2>1, <2>2, OthersFit
<1>8. ASSUME NEW p \in Operators, BeginEvent(p) PROVE HealthInv'
  <2>1. operation[p].at = "idle" /\ UNCHANGED <<health, fastpaths, outcomes>>
    BY <1>8 DEF BeginEvent
  <2>2. PICK e \in Events : ReadsHealth(p, "recording", e)
    BY <1>8 DEF BeginEvent
  <2>3. <<p, e>> \notin outcomes /\ e \in HealthEvents
    <3>1. \A o \in outcomes : o[1] # p
      BY <1>1, <2>1 DEF OperationFits
    <3>2. <<p, e>>[1] = p
      OBVIOUS
    <3> QED BY <3>1, <3>2, FreshFacts
  <2> QED BY <1>3, <2>1, <2>2, <2>3
<1>9. ASSUME NEW p \in Operators, BeginCanary(p) PROVE HealthInv'
  <2>1. operation[p].at = "idle" /\ UNCHANGED <<health, fastpaths, outcomes>>
        /\ ReadsHealth(p, "gap", HealthFailure(Check, FALSE))
    BY <1>9 DEF BeginCanary
  <2>2. HealthFailure(Check, FALSE) \in HealthEvents /\ HealthFailure(Check, FALSE).kind = "failure"
    BY FreshFacts
  <2>3. <<p, HealthFailure(Check, FALSE)>> \notin outcomes
    BY <1>1, <2>1 DEF OperationFits
  <2> QED BY <1>3, <2>1, <2>2, <2>3
<1>10. ASSUME NEW p \in Operators, BeginValidation(p) PROVE HealthInv'
  <2>1. operation[p].at = "checking" /\ UNCHANGED <<health, fastpaths, outcomes>>
        /\ ReadsHealth(p, "recording", operation[p].event)
    BY <1>10 DEF BeginValidation
  <2>2. <<p, operation[p].event>> \notin outcomes
    BY <1>1, <2>1 DEF OperationFits
  <2> QED BY <1>2, <1>3, <2>1, <2>2
<1>11. ASSUME NEW p \in Operators, EndGap(p) PROVE HealthInv'
  <2> DEFINE R == outcomes \cup {<<p, operation[p].event>>}
             s == operation[p].state
             r == Reported(s, operation[p].event)
             action == IF Len(r.actions[Check]) > Len(s.actions[Check]) THEN Len(r.actions[Check]) ELSE 0
             op == [Fresh EXCEPT !.at = "checking", !.event = Other("validated", Check, action)]
  <2>1. /\ operation[p].at = "gap" /\ health' \in Measured(r) /\ outcomes' = R
        /\ operation' = [operation EXCEPT ![p] = op] /\ fastpaths' = fastpaths
    BY <1>11 DEF EndGap, Ended
  <2>2. /\ Worth(s, outcomes) /\ <<p, operation[p].event>> \notin outcomes
        /\ operation[p].event.kind = "failure" /\ \A o \in outcomes : o[1] # p
    BY <1>1, <2>1 DEF OperationFits
  <2>3. r \in HealthStates /\ Worth(r, R) /\ r.observed + 1 <= Cardinality(R)
    BY <1>1, <1>2, <2>2, ReportedWorth
  <2>4. action \in Nat
    <3>1. r.actions[Check] \in Seq(ActionStates)
      BY <2>3, FreshFacts DEF HealthStates
    <3> HIDE DEF r, s
    <3> QED BY <3>1, LenProperties
  <2> HIDE DEF r, action
  <2>5. health' \in HealthStates /\ Worth(health', R) /\ DocWorth(fastpaths, R) /\ IsFiniteSet(R)
    BY <1>5, <2>1, <2>3
  <2>6. Other("validated", Check, action) \in HealthEvents /\ Other("validated", Check, action).kind = "validated"
    BY <2>4, FreshFacts
  <2>7. /\ op \in Operations /\ op.at = "checking" /\ op.event = Other("validated", Check, action)
        /\ op.state = NoHealth /\ op.doc = NoPaths
    BY <2>6, FreshFacts DEF Operations
  <2>8. <<p, op.event>> \notin R
    BY <2>2, <2>6, <2>7
  <2> HIDE DEF op
  <2>9. OperationFits(op, p, R)
    BY <2>5, <2>6, <2>7, <2>8, NothingWorth DEF OperationFits
  <2> HIDE DEF R
  <2>10. outcomes' \in {outcomes, outcomes \cup {<<p, operation[p].event>>}}
    BY <2>1 DEF R
  <2> QED BY <1>1, <2>1, <2>5, <2>7, <2>9, <2>10, OthersFit
<1>12. ASSUME NEW p \in Operators, BeginRepair(p) PROVE HealthInv'
  <2>1. operation[p].at = "idle" /\ UNCHANGED <<health, fastpaths, outcomes>>
    BY <1>12 DEF BeginRepair
  <2>2. PICK t \in HealthTargets :
          /\ Planned(health, Other("repair", t, 1))
          /\ operation' = [operation EXCEPT ![p] =
                             [at |-> "planned", event |-> Other("repair", t, 1), state |-> health, doc |-> NoPaths]]
    BY <1>12 DEF BeginRepair
  <2> DEFINE e == Other("repair", t, 1)
             op == [at |-> "planned", event |-> e, state |-> health, doc |-> NoPaths]
  <2>3. e \in HealthEvents
    BY FreshFacts
  <2>4. health.stage = "v2" /\ e.target \in Sources /\ e.action \in DOMAIN health.actions[e.target]
    BY <2>2 DEF Planned
  <2>5. <<p, e>> \notin outcomes
    BY <1>1, <2>1 DEF OperationFits
  <2> HIDE DEF e
  <2>6. op \in Operations
    BY <1>1, <2>3, FreshFacts DEF Operations
  <2>7. OperationFits(op, p, outcomes)
    BY <1>1, <2>4, <2>5, NothingWorth DEF OperationFits
  <2>8. operation' = [operation EXCEPT ![p] = op]
    BY <2>2 DEF e
  <2> HIDE DEF op
  <2> QED BY <1>1, <2>1, <2>6, <2>7, <2>8, OthersFit
<1>13. ASSUME NEW p \in Operators, ValidateCandidate(p) PROVE HealthInv'
  <2>1. operation[p].at = "planned" /\ fastpaths' = fastpaths
    BY <1>13 DEF ValidateCandidate
  <2>2. OperationFits(operation[p], p, outcomes)
    BY <1>1
  <2>3. \/ /\ operation' = [operation EXCEPT ![p] = [operation[p] EXCEPT !.at = "replacing", !.doc = fastpaths]]
           /\ UNCHANGED <<health, outcomes>>
        \/ /\ health' = Closed(operation[p].state, operation[p].event, "auto_repair_blocked")
           /\ Leaves(p, "done") /\ UNCHANGED outcomes
        \/ Leaves(p, "done") /\ UNCHANGED <<health, outcomes>>
    BY <1>1, <1>13 DEF ValidateCandidate
  <2>4. [Fresh EXCEPT !.at = "done"] \in Operations /\ OperationFits([Fresh EXCEPT !.at = "done"], p, outcomes)
    BY <1>1, <1>4
  <2>5. CASE /\ operation' = [operation EXCEPT ![p] = [operation[p] EXCEPT !.at = "replacing", !.doc = fastpaths]]
             /\ UNCHANGED <<health, outcomes>>
    <3> DEFINE op == [operation[p] EXCEPT !.at = "replacing", !.doc = fastpaths]
    <3>1. op \in Operations /\ op.at = "replacing" /\ op.event = operation[p].event /\ op.state = operation[p].state
          /\ op.doc = fastpaths
      BY <1>1, <1>2 DEF Operations
    <3>2. operation' = [operation EXCEPT ![p] = op]
      BY <2>5
    <3> HIDE DEF op
    <3>3. OperationFits(op, p, outcomes)
      BY <1>1, <2>1, <2>2, <3>1 DEF OperationFits
    <3> QED BY <1>1, <2>1, <2>5, <3>1, <3>2, <3>3, OthersFit
  <2>6. CASE /\ health' = Closed(operation[p].state, operation[p].event, "auto_repair_blocked")
             /\ Leaves(p, "done") /\ UNCHANGED outcomes
    <3>1. health' \in HealthStates /\ Worth(health', outcomes)
      BY <1>2, <2>1, <2>2, <2>6, ClosedWorth DEF OperationFits, ActionStates
    <3> QED BY <1>1, <2>1, <2>4, <2>6, <3>1, OthersFit DEF Leaves
  <2>7. CASE Leaves(p, "done") /\ UNCHANGED <<health, outcomes>>
    BY <1>1, <2>1, <2>4, <2>7, OthersFit DEF Leaves
  <2> QED BY <2>3, <2>5, <2>6, <2>7
<1>14. ASSUME NEW p \in Operators, ReplacePaths(p) PROVE HealthInv'
  <2> DEFINE t == operation[p].event.target
             op == [operation[p] EXCEPT !.at = "replaced"]
  <2>1. /\ operation[p].at = "replacing" /\ fastpaths' = [operation[p].doc EXCEPT ![t] = @ + 1]
        /\ \A s \in Sources : fastpaths'[s] <= 1
        /\ operation' = [operation EXCEPT ![p] = op] /\ UNCHANGED <<health, outcomes>>
    BY <1>1, <1>14 DEF ReplacePaths, WithCandidate, Audited
  <2>2. OperationFits(operation[p], p, outcomes)
    BY <1>1
  <2>3. op \in Operations /\ op.at = "replaced" /\ op.event = operation[p].event /\ op.state = operation[p].state
        /\ op.doc = operation[p].doc
    BY <1>2 DEF Operations
  <2> HIDE DEF op
  <2>4. OperationFits(op, p, outcomes)
    BY <2>1, <2>2, <2>3 DEF OperationFits
  <2>5. /\ operation[p].doc \in [Sources -> Nat] /\ t \in Sources /\ operation[p].state.stage = "v2"
        /\ operation[p].event.action \in DOMAIN operation[p].state.actions[t]
        /\ Worth(operation[p].state, outcomes) /\ DocWorth(operation[p].doc, outcomes)
    BY <1>2, <2>1, <2>2 DEF OperationFits, Documents
  <2>6. operation[p].state.actions[t] # <<>>
    BY <1>2, <2>5, ClosedFacts DEF ActionStates
  <2>7. t \in HealthTargets
    BY <2>5, HealthAssumption
  <2>8. Proven(outcomes) /\ Cardinality(About(outcomes, "failure", t)) >= RepeatedFailure
    BY <2>5, <2>6, <2>7 DEF Worth, WorthTargets, WorthCounts
  <2> HIDE DEF t
  <2>9. fastpaths' \in Documents
    BY <2>1, <2>5 DEF Documents
  <2>10. DocWorth(fastpaths', outcomes)
    <3> SUFFICES ASSUME NEW s \in Sources, fastpaths'[s] > 0
                 PROVE  Proven(outcomes) /\ Cardinality(About(outcomes, "failure", s)) >= RepeatedFailure
      BY <2>1 DEF DocWorth
    <3>1. CASE s = t
      BY <2>8, <3>1
    <3>2. CASE s # t
      <4>1. fastpaths'[s] = operation[p].doc[s]
        BY <2>1, <2>5, <3>2
      <4> QED BY <2>5, <4>1 DEF DocWorth
    <3> QED BY <3>1, <3>2
  <2> QED BY <1>1, <2>1, <2>3, <2>4, <2>9, <2>10, OthersFit
<1>15. ASSUME NEW p \in Operators, EndRepair(p) PROVE HealthInv'
  <2> DEFINE R == outcomes \cup {<<p, operation[p].event>>}
             op == [Fresh EXCEPT !.at = "done"]
             s == Closed(operation[p].state, operation[p].event, "auto_applied")
  <2>1. /\ operation[p].at = "replaced" /\ health' \in Measured(s) /\ outcomes' = R
        /\ operation' = [operation EXCEPT ![p] = op] /\ fastpaths' = fastpaths
    BY <1>15 DEF EndRepair, Ended, Leaves
  <2>2. /\ Worth(operation[p].state, outcomes) /\ <<p, operation[p].event>> \notin outcomes
        /\ operation[p].event.action \in DOMAIN operation[p].state.actions[operation[p].event.target]
    BY <1>1, <2>1 DEF OperationFits
  <2>3. IsFiniteSet(R) /\ outcomes \subseteq R /\ Cardinality(R) = Cardinality(outcomes) + 1
    BY <1>1, <1>2, <2>2, OneReport
  <2>4. s \in HealthStates /\ Worth(s, R) /\ s.observed + 1 <= Cardinality(R)
    <3>1. s \in HealthStates /\ Worth(s, outcomes) /\ s.observed = operation[p].state.observed
      BY <1>2, <2>2, ClosedWorth DEF ActionStates
    <3> HIDE DEF s, R
    <3>2. Worth(s, R)
      BY <2>3, <3>1, WorthStays
    <3>3. s.observed \in Nat /\ Cardinality(outcomes) \in Nat /\ s.observed <= Cardinality(outcomes)
      BY <1>1, <3>1, AboutSize DEF HealthStates, Worth, WorthCounts
    <3> QED BY <2>3, <3>1, <3>2, <3>3
  <2> HIDE DEF s
  <2>5. health' \in HealthStates /\ Worth(health', R) /\ DocWorth(fastpaths, R)
    BY <1>5, <2>1, <2>4
  <2>6. op \in Operations /\ OperationFits(op, p, R)
    BY <1>4, <2>3
  <2> HIDE DEF R, op
  <2>7. outcomes' \in {outcomes, outcomes \cup {<<p, operation[p].event>>}}
    BY <2>1 DEF R
  <2> QED BY <1>1, <2>1, <2>5, <2>6, <2>7, OthersFit
<1>16. CASE UNCHANGED healthVars
  BY <1>16 DEF healthVars, HealthInv, HealthShape
<1>17. CASE HealthNext
  <2>1. Reporters \subseteq Operators /\ Repairers \subseteq Operators /\ Canaries \subseteq Operators
    BY DEF Operators
  <2> QED BY <1>6, <1>7, <1>8, <1>9, <1>10, <1>11, <1>12, <1>13, <1>14, <1>15, <1>17, <2>1 DEF HealthNext
<1> QED BY <1>16, <1>17

\* The invariant is about the reports that HealthIsEarned counts.
LEMMA HealthInvHolds == HealthInv => HealthIsEarned
<1> SUFFICES ASSUME HealthInv PROVE HealthIsEarned
  OBVIOUS
<1>1. /\ health \in HealthStates /\ fastpaths \in Documents /\ Worth(health, outcomes)
      /\ DocWorth(fastpaths, outcomes) /\ Sources \subseteq HealthTargets
  BY HealthAssumption DEF HealthInv, HealthShape
<1>2. \A kind, t : Reports(kind, {t}) = About(outcomes, kind, t)
  BY DEF Reports, About
<1>3. \A kind : Reports(kind, HealthTargets) = OfKind(outcomes, kind)
  BY DEF Reports, OfKind
<1>4. \A t \in health.quarantined :
         /\ Cardinality(About(outcomes, "failure", t)) >= RepeatedFailure
         /\ \E o \in About(outcomes, "failure", t) : ~o[2].protected
  BY <1>1 DEF HealthStates, Worth, WorthTargets
<1>5. (health.stage = "v2" \/ \E s \in Sources : fastpaths[s] > 0) => Proven(outcomes)
  BY <1>1 DEF Worth, WorthCounts, DocWorth
<1>6. \A s \in Sources : /\ fastpaths[s] <= 1
                         /\ fastpaths[s] = 1 => Cardinality(About(outcomes, "failure", s)) >= RepeatedFailure
  BY <1>1 DEF DocWorth
<1> QED BY <1>2, <1>3, <1>4, <1>5, <1>6 DEF HealthIsEarned, Proven

\* For any events, overlapping and dying processes and any criteria: targets in
\* quarantine, the stage that repairs by itself and the entries it made rest on
\* the reports they ask for.
THEOREM HealthAlwaysEarned == HealthSpec => []HealthIsEarned
BY HealthInitHolds, HealthStep, HealthInvHolds, PTL DEF HealthSpec

----------------------------------------------------------------------------
(***************************************************************************)
(* What the stages and quarantines of parallel work rest on, for any runs, *)
(* providers, criteria and overlapping writers.  A state is worth no more  *)
(* than the results that ended calls recorded, and the results it has      *)
(* folded in so far are worth as much as it adds.                          *)
(***************************************************************************)

\* What the file and the calls hold.
Metrics ==
    [runs : Nat, tasks : Nat, failed : Nat, useful : Nat, capable : BOOLEAN, streakRuns : Nat, streakTasks : Nat]
PolicyStates ==
    [activeStage : Stages, stages : [Stages -> Metrics], failures : [Targets -> Nat], until : [Targets -> Nat]]

\* The failures about a target among the results S of the runs R; those that
\* were no timeouts; and what its count counts.
ResultAt(R, o) == R[o[1]].results[o[2]]
FailuresAbout(R, S, t) ==
    {o \in S : ResultAt(R, o).status = "failed" /\ t \in {ResultAt(R, o).runner, ResultAt(R, o).kind}}
Late(result) == result.timeout = TRUE
FaultsAbout(R, S, t) == {o \in FailuresAbout(R, S, t) : ~Late(ResultAt(R, o))}
CountedFor(R, S, t) == IF t \in Runners THEN FaultsAbout(R, S, t) ELSE FailuresAbout(R, S, t)

\* What a quarantine asks for.
QuarantineEarned(R, S, t) ==
    \/ Cardinality(FaultsAbout(R, S, t)) >= FailureThreshold
    \/ t \in Kinds /\ FaultsAbout(R, S, t) # {} /\ Cardinality(FailuresAbout(R, S, t)) >= FailureThreshold
    \/ t \in Kinds /\ Cardinality(FailuresAbout(R, S, t)) >= TimeoutThreshold

\* What a state says of the health of every target is borne out by those results.
HealthEarned(s, R, S) ==
    \A t \in Targets : /\ s.failures[t] <= Cardinality(CountedFor(R, S, t))
                       /\ s.until[t] # 0 => QuarantineEarned(R, S, t)

\* The ended calls that recorded a run without failures for a stage.
CleanRuns(W, R, x) == {c \in Recorders : W[c] = "done" /\ R[c].stage = x /\ Failed(R[c].results) = {}}

\* What a state counts for the stages, and the one it has reached, are borne out.
StagesEarned(s, W, R) ==
    \A x \in DOMAIN NextStage :
        /\ s.stages[x].runs <= Cardinality(CleanRuns(W, R, x))
        /\ s.stages[x].streakRuns <= Cardinality(CleanRuns(W, R, x))
        /\ s.activeStage = NextStage[x] => Cardinality(CleanRuns(W, R, x)) >= MinRuns[x]

\* A non-empty set of numbers has a least one.
LEMMA LeastNumber ==
    ASSUME NEW T \in SUBSET Nat, T # {}
    PROVE  \E x \in T : \A y \in T : x <= y
<1>1. \E x \in T : \A y \in T : ~ (<<y, x>> \in OpToRel(<, Nat))
  BY NatLessThanWellFounded, WFMin
<1>2. PICK x \in T : \A y \in T : ~ (<<y, x>> \in OpToRel(<, Nat))
  BY <1>1
<1>3. \A y \in T : ~ (y < x)
  BY <1>2 DEF OpToRel
<1> QED BY <1>3

\* What has been folded in after n results.
FoldStep(f, n, state, results, now) ==
    IF n = 0 THEN Unexpired(state, now) ELSE Judge(f[n - 1], results[n], now)

\* The recursion of Health is well founded: it has a solution.
LEMMA FoldExists ==
    ASSUME NEW state, NEW results, NEW now, Len(results) \in Nat
    PROVE  \E f : f = [n \in 0..Len(results) |-> FoldStep(f, n, state, results, now)]
<1> DEFINE Step(f, n) == FoldStep(f, n, state, results, now)
           Solved(k) == \E f : f = [n \in 0..k |-> Step(f, n)]
           T == {k \in Nat : ~Solved(k)}
<1>1. Solved(0)
  <2> DEFINE f == [n \in 0..0 |-> Unexpired(state, now)]
  <2>1. f = [n \in 0..0 |-> Step(f, n)]
    BY DEF FoldStep
  <2> QED BY <2>1
<1>2. ASSUME NEW k \in Nat, Solved(k) PROVE Solved(k + 1)
  <2>1. PICK f : f = [n \in 0..k |-> Step(f, n)]
    BY <1>2
  <2> DEFINE g == [n \in 0..(k + 1) |-> IF n = k + 1 THEN Step(f, k + 1) ELSE f[n]]
  <2>2. \A n \in 0..(k + 1) : g[n] = Step(g, n)
    <3> TAKE n \in 0..(k + 1)
    <3>1. CASE n = k + 1
      <4>1. g[k] = f[k]
        OBVIOUS
      <4> QED BY <3>1, <4>1 DEF FoldStep
    <3>2. CASE n # k + 1
      <4>1. n \in 0..k /\ g[n] = f[n]
        BY <3>2
      <4>2. n # 0 => g[n - 1] = f[n - 1]
        BY <3>2
      <4> QED BY <2>1, <4>1, <4>2 DEF FoldStep
    <3> QED BY <3>1, <3>2
  <2>3. g = [n \in 0..(k + 1) |-> Step(g, n)]
    BY <2>2
  <2> QED BY <2>3
<1>3. T = {}
  <2> SUFFICES ASSUME T # {} PROVE FALSE
    OBVIOUS
  <2>1. PICK x \in T : \A y \in T : x <= y
    BY LeastNumber
  <2>2. x # 0
    BY <1>1
  <2>3. x - 1 \in Nat /\ x - 1 \notin T
    BY <2>1, <2>2
  <2> QED BY <1>2, <2>1, <2>3
<1> QED BY <1>3

\* So Health is the last of the states that the results make one by one.
LEMMA HealthUnfolds ==
    ASSUME NEW state, NEW results, NEW now, Len(results) \in Nat
    PROVE  \E f : /\ Health(state, results, now) = f[Len(results)] /\ f[0] = Unexpired(state, now)
                  /\ \A n \in 1..Len(results) : f[n] = Judge(f[n - 1], results[n], now)
<1> DEFINE judged == CHOOSE f : f = [n \in 0..Len(results) |->
                        IF n = 0 THEN Unexpired(state, now) ELSE Judge(f[n - 1], results[n], now)]
<1>1. Health(state, results, now) = judged[Len(results)]
  BY DEF Health
<1>2. judged = [n \in 0..Len(results) |->
                  IF n = 0 THEN Unexpired(state, now) ELSE Judge(judged[n - 1], results[n], now)]
  BY FoldExists DEF FoldStep
<1> HIDE DEF judged
<1>3. judged[0] = Unexpired(state, now)
  BY <1>2
<1>4. \A n \in 1..Len(results) : judged[n] = Judge(judged[n - 1], results[n], now)
  <2> TAKE n \in 1..Len(results)
  <2>1. n \in 0..Len(results) /\ n # 0
    OBVIOUS
  <2> QED BY <1>2, <2>1
<1> QED BY <1>1, <1>3, <1>4

\* The sets that are counted are finite.
LEMMA FailureSizes ==
    ASSUME NEW R, NEW S, IsFiniteSet(S), NEW t
    PROVE  /\ IsFiniteSet(FailuresAbout(R, S, t)) /\ Cardinality(FailuresAbout(R, S, t)) \in Nat
           /\ IsFiniteSet(FaultsAbout(R, S, t)) /\ Cardinality(FaultsAbout(R, S, t)) \in Nat
           /\ IsFiniteSet(CountedFor(R, S, t)) /\ Cardinality(CountedFor(R, S, t)) \in Nat
<1>1. FailuresAbout(R, S, t) \in SUBSET S /\ FaultsAbout(R, S, t) \in SUBSET S
  BY DEF FailuresAbout, FaultsAbout
<1> QED BY <1>1, SubsetSize DEF CountedFor

\* Further results take nothing away.
LEMMA FailuresGrow ==
    ASSUME NEW R, NEW S, NEW T, IsFiniteSet(T), S \subseteq T, NEW t
    PROVE  /\ Cardinality(CountedFor(R, S, t)) <= Cardinality(CountedFor(R, T, t))
           /\ QuarantineEarned(R, S, t) => QuarantineEarned(R, T, t)
<1>1. FailuresAbout(R, S, t) \in SUBSET FailuresAbout(R, T, t) /\ FaultsAbout(R, S, t) \in SUBSET FaultsAbout(R, T, t)
  BY DEF FailuresAbout, FaultsAbout
<1>2. IsFiniteSet(FailuresAbout(R, T, t)) /\ IsFiniteSet(FaultsAbout(R, T, t))
  BY FailureSizes
<1>3. /\ Cardinality(FailuresAbout(R, S, t)) \in Nat /\ Cardinality(FailuresAbout(R, T, t)) \in Nat
      /\ Cardinality(FaultsAbout(R, S, t)) \in Nat /\ Cardinality(FaultsAbout(R, T, t)) \in Nat
      /\ Cardinality(FailuresAbout(R, S, t)) <= Cardinality(FailuresAbout(R, T, t))
      /\ Cardinality(FaultsAbout(R, S, t)) <= Cardinality(FaultsAbout(R, T, t))
  BY <1>1, <1>2, SubsetSize
<1>4. FaultsAbout(R, S, t) # {} => FaultsAbout(R, T, t) # {}
  BY <1>1
<1>5. FailureThreshold \in Nat /\ TimeoutThreshold \in Nat
  BY PolicyAssumption
<1> QED BY <1>1, <1>3, <1>4, <1>5 DEF CountedFor, QuarantineEarned

\* Further results take nothing away.
LEMMA HealthStaysEarned ==
    ASSUME NEW s \in PolicyStates, NEW R, NEW S, NEW T, IsFiniteSet(T), S \subseteq T, HealthEarned(s, R, S)
    PROVE  HealthEarned(s, R, T)
<1>1. IsFiniteSet(S)
  BY FS_Subset
<1> SUFFICES ASSUME NEW t \in Targets
             PROVE  /\ s.failures[t] <= Cardinality(CountedFor(R, T, t))
                    /\ s.until[t] # 0 => QuarantineEarned(R, T, t)
  BY DEF HealthEarned
<1>2. s.failures[t] \in Nat /\ s.failures[t] <= Cardinality(CountedFor(R, S, t))
  BY DEF HealthEarned, PolicyStates
<1>3. Cardinality(CountedFor(R, S, t)) \in Nat /\ Cardinality(CountedFor(R, T, t)) \in Nat
  BY <1>1, FailureSizes
<1>4. s.until[t] # 0 => QuarantineEarned(R, S, t)
  BY DEF HealthEarned
<1> QED BY <1>2, <1>3, <1>4, FailuresGrow

\* A failure that counts for a target is one more.
LEMMA OneMoreFailure ==
    ASSUME NEW R, NEW S, IsFiniteSet(S), NEW o, o \notin S, NEW t \in Targets,
           ResultAt(R, o).status = "failed", t \in {ResultAt(R, o).runner, ResultAt(R, o).kind},
           Late(ResultAt(R, o)) => t \in Kinds
    PROVE  /\ Cardinality(CountedFor(R, S \cup {o}, t)) = Cardinality(CountedFor(R, S, t)) + 1
           /\ ~Late(ResultAt(R, o)) => o \in FaultsAbout(R, S \cup {o}, t)
<1>1. FailuresAbout(R, S \cup {o}, t) = FailuresAbout(R, S, t) \cup {o}
  BY DEF FailuresAbout
<1>2. ~Late(ResultAt(R, o)) => FaultsAbout(R, S \cup {o}, t) = FaultsAbout(R, S, t) \cup {o}
  BY <1>1 DEF FaultsAbout
<1>3. o \notin FailuresAbout(R, S, t) /\ o \notin FaultsAbout(R, S, t)
  BY DEF FailuresAbout, FaultsAbout
<1>4. Runners \cap Kinds = {}
  BY PolicyAssumption
<1>5. CountedFor(R, S \cup {o}, t) = CountedFor(R, S, t) \cup {o} /\ o \notin CountedFor(R, S, t)
  BY <1>1, <1>2, <1>3, <1>4 DEF CountedFor
<1> QED BY <1>2, <1>5, FailureSizes, FS_AddElement

\* Failure field by field.
LEMMA FailureParts ==
    ASSUME NEW s \in PolicyStates, NEW target \in Targets, NEW result \in RunResults, NEW now \in Nat,
           NEW r, r = Failure(s, target, result, now), NEW more, more = s.failures[target] + 1
    PROVE  /\ r \in PolicyStates /\ r.activeStage = s.activeStage /\ r.stages = s.stages
           /\ \A u \in Targets \ {target} : r.failures[u] = s.failures[u] /\ r.until[u] = s.until[u]
           /\ Late(result) /\ target \in Runners => r = s
           /\ ~(Late(result) /\ target \in Runners) => r.failures[target] = more
           /\ r.until[target] # 0 =>
                \/ s.until[target] # 0
                \/ Late(result) /\ target \notin Runners /\ more >= TimeoutThreshold
                \/ ~Late(result) /\ more >= FailureThreshold
<1> DEFINE threshold == IF Late(result) THEN TimeoutThreshold ELSE FailureThreshold
           end == now + IF Late(result) THEN TimeoutHours ELSE QuarantineHours
           counted == [s EXCEPT !.failures = [s.failures EXCEPT ![target] = more]]
           shut == [counted EXCEPT !.until = [counted.until EXCEPT ![target] = end]]
<1>1. r = IF Late(result) /\ target \in Runners THEN s
          ELSE IF more < threshold \/ s.until[target] # 0 THEN counted ELSE shut
  <2>1. result.timeout \in BOOLEAN
    BY DEF RunResults
  <2> QED BY <2>1 DEF Failure, PolicyStates, Late
<1>2. more \in Nat /\ end \in Nat
  BY PolicyAssumption DEF PolicyStates
<1>3. threshold \in Nat /\ (Late(result) => threshold = TimeoutThreshold)
      /\ (~Late(result) => threshold = FailureThreshold)
  BY <1>2, PolicyAssumption
<1> HIDE DEF end, threshold
<1>4. /\ counted \in PolicyStates /\ counted.activeStage = s.activeStage /\ counted.stages = s.stages
      /\ counted.until = s.until /\ counted.failures = [s.failures EXCEPT ![target] = more]
  <2>1. [s.failures EXCEPT ![target] = more] \in [Targets -> Nat]
    BY <1>2 DEF PolicyStates
  <2> QED BY <2>1 DEF PolicyStates
<1> HIDE DEF counted
<1>5. /\ shut \in PolicyStates /\ shut.activeStage = s.activeStage /\ shut.stages = s.stages
      /\ shut.until = [s.until EXCEPT ![target] = end] /\ shut.failures = [s.failures EXCEPT ![target] = more]
  <2>1. [counted.until EXCEPT ![target] = end] \in [Targets -> Nat]
    BY <1>2, <1>4 DEF PolicyStates
  <2> QED BY <1>4, <2>1 DEF PolicyStates
<1> HIDE DEF shut
<1>6. s.failures \in [Targets -> Nat] /\ s.until \in [Targets -> Nat]
  BY DEF PolicyStates
<1>7. CASE Late(result) /\ target \in Runners
  <2>1. r = s
    BY <1>1, <1>7
  <2> QED BY <1>7, <2>1
<1>8. CASE ~(Late(result) /\ target \in Runners) /\ (more < threshold \/ s.until[target] # 0)
  <2>1. r = counted
    BY <1>1, <1>2, <1>8
  <2>2. r.until[target] # 0 => s.until[target] # 0
    BY <1>4, <2>1
  <2>3. r.failures[target] = more
          /\ \A u \in Targets \ {target} : r.failures[u] = s.failures[u] /\ r.until[u] = s.until[u]
    BY <1>4, <1>6, <2>1
  <2> QED BY <1>4, <1>8, <2>1, <2>2, <2>3
<1>9. CASE ~(Late(result) /\ target \in Runners) /\ ~(more < threshold \/ s.until[target] # 0)
  <2>1. r = shut /\ more >= threshold
    BY <1>1, <1>2, <1>3, <1>9
  <2>2. \/ Late(result) /\ target \notin Runners /\ more >= TimeoutThreshold
        \/ ~Late(result) /\ more >= FailureThreshold
    BY <1>2, <1>3, <1>9, <2>1
  <2>3. r.failures[target] = more
          /\ \A u \in Targets \ {target} : r.failures[u] = s.failures[u] /\ r.until[u] = s.until[u]
    BY <1>5, <1>6, <2>1
  <2> QED BY <1>5, <1>9, <2>1, <2>2, <2>3
<1> QED BY <1>7, <1>8, <1>9

\* A result that is judged pays for what it adds.
LEMMA JudgeEarned ==
    ASSUME NEW s \in PolicyStates, NEW R, NEW S, IsFiniteSet(S), NEW o, o \notin S,
           ResultAt(R, o) \in RunResults, NEW now \in Nat, HealthEarned(s, R, S)
    PROVE  LET r == Judge(s, ResultAt(R, o), now)
           IN  /\ r \in PolicyStates /\ r.activeStage = s.activeStage /\ r.stages = s.stages
               /\ HealthEarned(r, R, S \cup {o})
<1> DEFINE res == ResultAt(R, o)
           T == S \cup {o}
<1>1. /\ res \in RunResults /\ res.runner \in Targets /\ res.kind \in Targets /\ res.runner # res.kind
      /\ res.runner \in Runners /\ res.kind \in Kinds /\ res.kind \notin Runners
  BY PolicyAssumption DEF RunResults, Targets
<1> HIDE DEF res
<1>6. res = ResultAt(R, o)
  BY DEF res
<1>2. IsFiniteSet(T) /\ S \subseteq T
  BY FS_AddElement
<1>3. HealthEarned(s, R, T)
  BY <1>2, HealthStaysEarned
<1>4. CASE res.status = "completed"
  <2> DEFINE cleared == [[s.failures EXCEPT ![res.runner] = 0] EXCEPT ![res.kind] = 0]
             r == [s EXCEPT !.failures = cleared]
  <2>1. Judge(s, res, now) = r
    BY <1>4 DEF Judge, PolicyStates
  <2>2. /\ cleared \in [Targets -> Nat]
        /\ \A u \in Targets : cleared[u] = 0 \/ cleared[u] = s.failures[u]
    BY <1>1 DEF PolicyStates
  <2> HIDE DEF cleared
  <2>3. /\ r \in PolicyStates /\ r.activeStage = s.activeStage /\ r.stages = s.stages /\ r.until = s.until
        /\ r.failures = cleared
    BY <2>2 DEF PolicyStates
  <2> HIDE DEF r
  <2>4. \A u \in Targets : r.failures[u] <= Cardinality(CountedFor(R, T, u))
    <3> TAKE u \in Targets
    <3>1. Cardinality(CountedFor(R, T, u)) \in Nat
      BY <1>2, FailureSizes
    <3>2. s.failures[u] <= Cardinality(CountedFor(R, T, u))
      BY <1>3 DEF HealthEarned
    <3> QED BY <2>2, <2>3, <3>1, <3>2
  <2>5. HealthEarned(r, R, T)
    BY <1>3, <2>3, <2>4 DEF HealthEarned
  <2> QED BY <1>6, <2>1, <2>3, <2>5
<1>5. CASE res.status = "failed"
  <2> DEFINE a == Failure(s, res.runner, res, now)
             r == Failure(a, res.kind, res, now)
             m == s.failures[res.runner] + 1
             n == a.failures[res.kind] + 1
  <2>1. Judge(s, res, now) = r
    BY <1>5 DEF Judge
  <2>10. a = Failure(s, res.runner, res, now) /\ r = Failure(a, res.kind, res, now)
    OBVIOUS
  <2>11. m = s.failures[res.runner] + 1 /\ n = a.failures[res.kind] + 1
    OBVIOUS
  <2> HIDE DEF a, r, m, n
  <2>2. /\ a \in PolicyStates /\ a.activeStage = s.activeStage /\ a.stages = s.stages
        /\ \A u \in Targets \ {res.runner} : a.failures[u] = s.failures[u] /\ a.until[u] = s.until[u]
        /\ Late(res) => a = s
        /\ ~Late(res) => a.failures[res.runner] = m
        /\ a.until[res.runner] # 0 =>
             s.until[res.runner] # 0 \/ (~Late(res) /\ m >= FailureThreshold)
    BY <1>1, <2>10, <2>11, FailureParts
  <2>3. /\ r \in PolicyStates /\ r.activeStage = a.activeStage /\ r.stages = a.stages
        /\ \A u \in Targets \ {res.kind} : r.failures[u] = a.failures[u] /\ r.until[u] = a.until[u]
        /\ r.failures[res.kind] = n
        /\ r.until[res.kind] # 0 =>
             \/ a.until[res.kind] # 0
             \/ Late(res) /\ n >= TimeoutThreshold
             \/ ~Late(res) /\ n >= FailureThreshold
    <3>1. a \in PolicyStates
      BY <2>2
    <3>2. /\ r \in PolicyStates /\ r.activeStage = a.activeStage /\ r.stages = a.stages
          /\ \A u \in Targets \ {res.kind} : r.failures[u] = a.failures[u] /\ r.until[u] = a.until[u]
          /\ Late(res) /\ res.kind \in Runners => r = a
          /\ ~(Late(res) /\ res.kind \in Runners) => r.failures[res.kind] = n
          /\ r.until[res.kind] # 0 =>
               \/ a.until[res.kind] # 0
               \/ Late(res) /\ res.kind \notin Runners /\ n >= TimeoutThreshold
               \/ ~Late(res) /\ n >= FailureThreshold
      BY <1>1, <2>10, <2>11, <3>1, FailureParts
    <3> QED BY <1>1, <3>2
  <2>4. /\ s.failures \in [Targets -> Nat] /\ FailureThreshold \in Nat /\ TimeoutThreshold \in Nat
        /\ \A u \in Targets : /\ Cardinality(CountedFor(R, S, u)) \in Nat /\ Cardinality(CountedFor(R, T, u)) \in Nat
                              /\ s.failures[u] <= Cardinality(CountedFor(R, S, u))
                              /\ s.failures[u] <= Cardinality(CountedFor(R, T, u))
    BY <1>2, <1>3, FailureSizes, PolicyAssumption DEF HealthEarned, PolicyStates
  <2>9. /\ s.failures[res.kind] \in Nat /\ s.failures[res.runner] \in Nat
        /\ FailureThreshold \in Nat /\ TimeoutThreshold \in Nat
        /\ Cardinality(CountedFor(R, S, res.kind)) \in Nat /\ Cardinality(CountedFor(R, S, res.runner)) \in Nat
        /\ s.failures[res.kind] <= Cardinality(CountedFor(R, S, res.kind))
        /\ s.failures[res.runner] <= Cardinality(CountedFor(R, S, res.runner))
    BY <1>1, <2>4
  <2>5. /\ r.failures[res.kind] <= Cardinality(CountedFor(R, T, res.kind))
        /\ r.until[res.kind] # 0 => QuarantineEarned(R, T, res.kind)
    <3>1. /\ Cardinality(CountedFor(R, T, res.kind)) = Cardinality(CountedFor(R, S, res.kind)) + 1
          /\ ~Late(res) => o \in FaultsAbout(R, T, res.kind)
      BY <1>1, <1>5, <1>6, OneMoreFailure
    <3>2. r.failures[res.kind] = n /\ n = s.failures[res.kind] + 1 /\ a.until[res.kind] = s.until[res.kind]
      BY <1>1, <2>2, <2>3, <2>11
    <3>8. n <= Cardinality(CountedFor(R, T, res.kind)) /\ Cardinality(CountedFor(R, T, res.kind)) \in Nat
          /\ n \in Nat
      BY <2>9, <3>1, <3>2
    <3>3. r.failures[res.kind] <= Cardinality(CountedFor(R, T, res.kind))
      BY <3>2, <3>8
    <3>4. CountedFor(R, T, res.kind) = FailuresAbout(R, T, res.kind)
      BY <1>1 DEF CountedFor
    <3>5. CASE s.until[res.kind] # 0
      BY <1>1, <1>3, <3>3, <3>5 DEF HealthEarned
    <3>6. CASE Late(res) /\ n >= TimeoutThreshold
      <4>1. Cardinality(FailuresAbout(R, T, res.kind)) >= TimeoutThreshold
        BY <2>9, <3>4, <3>6, <3>8
      <4> QED BY <1>1, <3>3, <4>1 DEF QuarantineEarned
    <3>7. CASE ~Late(res) /\ n >= FailureThreshold
      <4>1. Cardinality(FailuresAbout(R, T, res.kind)) >= FailureThreshold
        BY <2>9, <3>4, <3>7, <3>8
      <4>2. FaultsAbout(R, T, res.kind) # {}
        BY <3>1, <3>7
      <4> QED BY <1>1, <3>3, <4>1, <4>2 DEF QuarantineEarned
    <3> QED BY <2>3, <3>2, <3>3, <3>5, <3>6, <3>7
  <2>6. /\ r.failures[res.runner] <= Cardinality(CountedFor(R, T, res.runner))
        /\ r.until[res.runner] # 0 => QuarantineEarned(R, T, res.runner)
    <3>1. r.failures[res.runner] = a.failures[res.runner] /\ r.until[res.runner] = a.until[res.runner]
      BY <1>1, <2>3
    <3>2. CASE Late(res)
      BY <1>1, <1>3, <2>2, <3>1, <3>2 DEF HealthEarned
    <3>3. CASE ~Late(res)
      <4>1. Cardinality(CountedFor(R, T, res.runner)) = Cardinality(CountedFor(R, S, res.runner)) + 1
        <5>1. /\ res.runner \in Targets /\ ResultAt(R, o).status = "failed" /\ ~Late(ResultAt(R, o))
              /\ res.runner \in {ResultAt(R, o).runner, ResultAt(R, o).kind}
              /\ Late(ResultAt(R, o)) => res.runner \in Kinds
          BY <1>1, <1>5, <1>6, <3>3
        <5> HIDE DEF T
        <5>2. /\ Cardinality(CountedFor(R, S \cup {o}, res.runner)) = Cardinality(CountedFor(R, S, res.runner)) + 1
              /\ ~Late(ResultAt(R, o)) => o \in FaultsAbout(R, S \cup {o}, res.runner)
          BY <5>1, OneMoreFailure
        <5> QED BY <5>2 DEF T
      <4>2. r.failures[res.runner] = m
        BY <2>2, <3>1, <3>3
      <4>7. m <= Cardinality(CountedFor(R, T, res.runner)) /\ Cardinality(CountedFor(R, T, res.runner)) \in Nat
            /\ m \in Nat
        BY <2>9, <2>11, <4>1
      <4>3. r.failures[res.runner] <= Cardinality(CountedFor(R, T, res.runner))
        BY <4>2, <4>7
      <4>4. CountedFor(R, T, res.runner) = FaultsAbout(R, T, res.runner)
        BY <1>1 DEF CountedFor
      <4>5. CASE s.until[res.runner] # 0
        BY <1>1, <1>3, <4>3, <4>5 DEF HealthEarned
      <4>6. CASE m >= FailureThreshold
        <5>1. Cardinality(FaultsAbout(R, T, res.runner)) >= FailureThreshold
          BY <2>9, <4>4, <4>6, <4>7
        <5> QED BY <4>3, <5>1 DEF QuarantineEarned
      <4> QED BY <2>2, <3>1, <4>3, <4>5, <4>6
    <3> QED BY <1>1, <3>2, <3>3
  <2>7. ASSUME NEW u \in Targets, u # res.runner, u # res.kind
        PROVE  /\ r.failures[u] <= Cardinality(CountedFor(R, T, u))
               /\ r.until[u] # 0 => QuarantineEarned(R, T, u)
    <3>1. r.failures[u] = s.failures[u] /\ r.until[u] = s.until[u]
      BY <2>2, <2>3, <2>7
    <3> QED BY <1>3, <3>1 DEF HealthEarned
  <2>8. HealthEarned(r, R, T)
    BY <2>5, <2>6, <2>7 DEF HealthEarned
  <2> QED BY <1>6, <2>1, <2>2, <2>3, <2>8
<1> QED BY <1>1, <1>4, <1>5, <1>6 DEF RunResults

\* The results of a call, and that it is not among those that have ended.
ResultsOf(c, rs) == {<<c, i>> : i \in 1..Len(rs)}
NoneOf(S, c) == \A o \in S : o[1] # c

\* What the health of a run takes, and what it gives.
HealthAsked(s, R, S, c, now, r) ==
    /\ s \in PolicyStates /\ IsFiniteSet(S) /\ NoneOf(S, c) /\ R[c].results \in Seq(RunResults)
    /\ now \in Nat /\ HealthEarned(s, R, S) /\ r = Health(s, R[c].results, now)
HealthGiven(s, R, S, c, r) ==
    /\ r \in PolicyStates /\ r.activeStage = s.activeStage /\ r.stages = s.stages
    /\ HealthEarned(r, R, S \cup ResultsOf(c, R[c].results))
    /\ IsFiniteSet(S \cup ResultsOf(c, R[c].results))

\* So do the results of a run: Health is worth what was and what they say.
LEMMA HealthOfRun ==
    ASSUME NEW s, NEW R, NEW S, NEW c, NEW now, NEW r, HealthAsked(s, R, S, c, now, r)
    PROVE  HealthGiven(s, R, S, c, r)
<1> /\ s \in PolicyStates /\ IsFiniteSet(S) /\ NoneOf(S, c) /\ R[c].results \in Seq(RunResults)
    /\ now \in Nat /\ HealthEarned(s, R, S) /\ r = Health(s, R[c].results, now)
  BY DEF HealthAsked
<1> DEFINE rs == R[c].results
           Upto(k) == S \cup {<<c, i>> : i \in 1..k}
<1>1. Len(rs) \in Nat /\ \A i \in 1..Len(rs) : rs[i] \in RunResults
  BY LenProperties, ElementOfSeq
<1>2. PICK f : /\ Health(s, rs, now) = f[Len(rs)] /\ f[0] = Unexpired(s, now)
               /\ \A n \in 1..Len(rs) : f[n] = Judge(f[n - 1], rs[n], now)
  BY <1>1, HealthUnfolds
<1> DEFINE Holds(k) == /\ f[k] \in PolicyStates /\ f[k].activeStage = s.activeStage /\ f[k].stages = s.stages
                       /\ HealthEarned(f[k], R, Upto(k)) /\ IsFiniteSet(Upto(k))
<1>3. Holds(0)
  <2> DEFINE left == [t \in Targets |-> IF s.until[t] <= now THEN 0 ELSE s.until[t]]
             u == [s EXCEPT !.until = left]
  <2>1. f[0] = u
    BY <1>2 DEF Unexpired, PolicyStates
  <2>2. left \in [Targets -> Nat] /\ \A t \in Targets : left[t] # 0 => s.until[t] # 0
    BY DEF PolicyStates
  <2> HIDE DEF left
  <2>3. u \in PolicyStates /\ u.activeStage = s.activeStage /\ u.stages = s.stages /\ u.failures = s.failures
        /\ u.until = left
    BY <2>2 DEF PolicyStates
  <2> HIDE DEF u
  <2>4. HealthEarned(u, R, S)
    BY <2>2, <2>3 DEF HealthEarned
  <2>5. Upto(0) = S
    OBVIOUS
  <2> QED BY <2>1, <2>3, <2>4, <2>5
<1>4. ASSUME NEW k \in Nat, k + 1 <= Len(rs), Holds(k) PROVE Holds(k + 1)
  <2> DEFINE o == <<c, k + 1>>
  <2>1. k + 1 \in 1..Len(rs)
    BY <1>1, <1>4
  <2>2. f[k + 1] = Judge(f[k], rs[k + 1], now)
    BY <1>2, <2>1
  <2>3. Upto(k + 1) = Upto(k) \cup {o} /\ o \notin Upto(k)
    <3>1. 1..(k + 1) = 1..k \cup {k + 1} /\ k + 1 \notin 1..k
      OBVIOUS
    <3>2. o \notin S
      BY DEF NoneOf
    <3> QED BY <3>1, <3>2
  <2>4. ResultAt(R, o) = rs[k + 1] /\ rs[k + 1] \in RunResults
    BY <1>1, <2>1 DEF ResultAt
  <2>5. IsFiniteSet(Upto(k + 1))
    BY <1>4, <2>3, FS_AddElement
  <2> HIDE DEF o, Upto
  <2>6. /\ f[k + 1] \in PolicyStates /\ f[k + 1].activeStage = f[k].activeStage /\ f[k + 1].stages = f[k].stages
        /\ HealthEarned(f[k + 1], R, Upto(k) \cup {o})
    <3>1. /\ f[k] \in PolicyStates /\ IsFiniteSet(Upto(k)) /\ HealthEarned(f[k], R, Upto(k)) /\ o \notin Upto(k)
          /\ ResultAt(R, o) \in RunResults
      BY <1>4, <2>3, <2>4
    <3>2. f[k + 1] = Judge(f[k], ResultAt(R, o), now)
      BY <2>2, <2>4
    <3>3. LET next == Judge(f[k], ResultAt(R, o), now)
          IN  /\ next \in PolicyStates /\ next.activeStage = f[k].activeStage /\ next.stages = f[k].stages
              /\ HealthEarned(next, R, Upto(k) \cup {o})
      BY <3>1, JudgeEarned
    <3> QED BY <3>2, <3>3
  <2> QED BY <1>4, <2>3, <2>5, <2>6
<1> HIDE DEF rs, Holds
<1>5. Holds(Len(rs))
  <2> DEFINE T == {k \in Nat : k <= Len(rs) /\ ~Holds(k)}
  <2>1. T = {}
    <3> SUFFICES ASSUME T # {} PROVE FALSE
      OBVIOUS
    <3>1. PICK x \in T : \A y \in T : x <= y
      BY LeastNumber
    <3>2. x # 0
      BY <1>3
    <3>3. x - 1 \in Nat /\ x - 1 <= Len(rs) /\ x - 1 \notin T
      BY <1>1, <3>1, <3>2
    <3>4. Holds(x - 1) /\ (x - 1) + 1 = x
      BY <3>3
    <3> QED BY <1>4, <3>3, <3>4
  <2> QED BY <1>1, <2>1
<1>6. /\ r \in PolicyStates /\ r.activeStage = s.activeStage /\ r.stages = s.stages
      /\ HealthEarned(r, R, S \cup ResultsOf(c, R[c].results))
      /\ IsFiniteSet(S \cup ResultsOf(c, R[c].results))
  BY <1>2, <1>5 DEF rs, Holds, ResultsOf
<1> QED BY <1>6 DEF HealthGiven
\* The calls that have ended, and the results that they recorded.
DoneCalls(W) == {c \in Recorders : W[c] = "done"}
DoneResults(W, R) == {o \in Recorders \X Nat : W[o[1]] = "done" /\ o[2] \in 1..Len(R[o[1]].results)}

\* The types, with what has ended being finite.
PolicyShape ==
    /\ file \in PolicyStates /\ hour \in Nat
    /\ writing \in [Recorders -> {"idle", "read", "done", "failed"}]
    /\ seen \in [Recorders -> PolicyStates] /\ began \in [Recorders -> Nat]
    /\ recorded \in [Recorders -> SomeRuns]
    /\ IsFiniteSet(DoneCalls(writing)) /\ IsFiniteSet(DoneResults(writing, recorded))

\* A state that what has ended accounts for.
StateEarned(s, W, R) == HealthEarned(s, R, DoneResults(W, R)) /\ StagesEarned(s, W, R)

\* The inductive invariant.
PolicyInv ==
    PolicyShape /\ StateEarned(file, writing, recorded)
    /\ \A c \in Recorders : StateEarned(seen[c], writing, recorded)

\* What is counted of a run.
LEMMA ResultCounts ==
    ASSUME NEW rs \in Seq(RunResults)
    PROVE  /\ Cardinality(Completed(rs)) \in Nat /\ Cardinality(Failed(rs)) \in Nat
           /\ Cardinality(Useful(rs)) \in Nat
           /\ (Cardinality(Failed(rs)) = 0) <=> (Failed(rs) = {})
<1>1. DOMAIN rs = 1..Len(rs) /\ Len(rs) \in Nat
  BY LenProperties
<1>2. IsFiniteSet(DOMAIN rs)
  BY <1>1, FS_Interval
<1>3. Completed(rs) \in SUBSET DOMAIN rs /\ Failed(rs) \in SUBSET DOMAIN rs /\ Useful(rs) \in SUBSET DOMAIN rs
  BY DEF Completed, Failed, Useful
<1>4. /\ IsFiniteSet(Completed(rs)) /\ IsFiniteSet(Failed(rs)) /\ IsFiniteSet(Useful(rs))
  BY <1>2, <1>3, SubsetSize
<1> QED BY <1>4, FS_CardinalityType, FS_EmptySet

\* Counted and Eligible, as far as the stages need them.
LEMMA CountedParts ==
    ASSUME NEW m \in Metrics, NEW rs \in Seq(RunResults)
    PROVE  /\ Counted(m, rs) \in Metrics
           /\ Failed(rs) # {} => Counted(m, rs).runs = m.runs /\ Counted(m, rs).streakRuns = 0
           /\ Failed(rs) = {} => Counted(m, rs).runs = m.runs + 1 /\ Counted(m, rs).streakRuns = m.streakRuns + 1
<1> DEFINE done == Cardinality(Completed(rs))
           bad == Cardinality(Failed(rs))
           good == Cardinality(Useful(rs))
           able == m.capable \/ Capable(rs) # {}
           moreRuns == m.runs + (IF bad = 0 THEN 1 ELSE 0)
           moreStreak == IF bad = 0 THEN m.streakRuns + 1 ELSE 0
           moreStreakTasks == IF bad = 0 THEN m.streakTasks + done ELSE 0
<1>1. done \in Nat /\ bad \in Nat /\ good \in Nat /\ ((bad = 0) <=> (Failed(rs) = {}))
  BY ResultCounts
<1>2. Counted(m, rs) =
        [runs |-> moreRuns, tasks |-> m.tasks + done, failed |-> m.failed + bad, useful |-> m.useful + good,
         capable |-> able, streakRuns |-> moreStreak, streakTasks |-> moreStreakTasks]
  BY DEF Counted
<1> HIDE DEF done, bad, good
<1>3. /\ m.runs \in Nat /\ m.tasks \in Nat /\ m.failed \in Nat /\ m.useful \in Nat /\ m.streakRuns \in Nat
      /\ m.streakTasks \in Nat
  BY DEF Metrics
<1>5. able \in BOOLEAN
  OBVIOUS
<1> HIDE DEF able
<1>4. /\ moreRuns \in Nat /\ m.tasks + done \in Nat /\ m.failed + bad \in Nat /\ m.useful + good \in Nat
      /\ moreStreak \in Nat
      /\ moreStreakTasks \in Nat
      /\ bad # 0 => moreRuns = m.runs /\ moreStreak = 0
      /\ bad = 0 => moreRuns = m.runs + 1 /\ moreStreak = m.streakRuns + 1
  <2>1. done \in Nat /\ bad \in Nat /\ good \in Nat
    BY <1>1
  <2>2. m.tasks + done \in Nat /\ m.failed + bad \in Nat /\ m.useful + good \in Nat
    <3>1. ASSUME NEW i \in Nat, NEW j \in Nat PROVE i + j \in Nat
      OBVIOUS
    <3> QED BY <1>3, <2>1, <3>1, Zenon
  <2>3. CASE bad = 0
    <3>1. moreRuns = m.runs + 1 /\ moreStreak = m.streakRuns + 1 /\ moreStreakTasks = m.streakTasks + done
      BY <1>3, <2>3
    <3> HIDE DEF moreRuns, moreStreak, moreStreakTasks
    <3>3. ASSUME NEW i \in Nat, NEW j \in Nat PROVE i + 1 \in Nat /\ i + j \in Nat
      OBVIOUS
    <3>2. moreRuns \in Nat /\ moreStreak \in Nat /\ moreStreakTasks \in Nat
      BY <1>3, <2>1, <3>1, <3>3, Zenon
    <3> QED BY <2>2, <2>3, <3>1, <3>2
  <2>4. CASE bad # 0
    <3>1. moreRuns = m.runs /\ moreStreak = 0 /\ moreStreakTasks = 0
      BY <1>3, <2>4
    <3> HIDE DEF moreRuns, moreStreak, moreStreakTasks
    <3> QED BY <1>3, <2>1, <2>2, <2>4, <3>1
  <2> QED BY <2>3, <2>4
<1> DEFINE moreTasks == m.tasks + done
           moreFailed == m.failed + bad
           moreUseful == m.useful + good
<1>6. /\ moreTasks \in Nat /\ moreFailed \in Nat /\ moreUseful \in Nat
      /\ Counted(m, rs) = [runs |-> moreRuns, tasks |-> moreTasks, failed |-> moreFailed, useful |-> moreUseful,
                           capable |-> able,
                           streakRuns |-> moreStreak, streakTasks |-> moreStreakTasks]
  BY <1>2, <1>4
<1> HIDE DEF moreRuns, moreStreak, moreStreakTasks, moreTasks, moreFailed, moreUseful
<1>7. Counted(m, rs) \in Metrics /\ Counted(m, rs).runs = moreRuns /\ Counted(m, rs).streakRuns = moreStreak
  BY <1>4, <1>5, <1>6 DEF Metrics
<1> QED BY <1>1, <1>4, <1>7

\* A stage is left after enough runs, whichever way.
LEMMA EligibleNeeds ==
    ASSUME NEW x, NEW m, Eligible(x, m)
    PROVE  x \in DOMAIN NextStage /\ (m.runs >= MinRuns[x] \/ m.streakRuns >= MinRuns[x])
BY Zenon DEF Eligible

\* Ended calls stay: what the stages rest on only grows.
LEMMA CleanGrows ==
    ASSUME NEW W, NEW R, NEW V, NEW Q, IsFiniteSet(DoneCalls(V)),
           \A c \in Recorders : W[c] = "done" => V[c] = "done" /\ Q[c] = R[c], NEW x
    PROVE  /\ CleanRuns(W, R, x) \subseteq CleanRuns(V, Q, x) /\ IsFiniteSet(CleanRuns(V, Q, x))
           /\ Cardinality(CleanRuns(W, R, x)) \in Nat /\ Cardinality(CleanRuns(V, Q, x)) \in Nat
           /\ Cardinality(CleanRuns(W, R, x)) <= Cardinality(CleanRuns(V, Q, x))
<1>1. CleanRuns(V, Q, x) \in SUBSET DoneCalls(V)
  BY DEF CleanRuns, DoneCalls
<1>2. CleanRuns(W, R, x) \in SUBSET CleanRuns(V, Q, x)
  BY DEF CleanRuns
<1>3. IsFiniteSet(CleanRuns(V, Q, x))
  BY <1>1, SubsetSize
<1> QED BY <1>2, <1>3, SubsetSize

\* The stages above the first, by name.
LEMMA NextStages ==
    /\ DOMAIN NextStage = {"v2", "v3"} /\ DOMAIN NextStage \subseteq Stages
    /\ \A x \in DOMAIN NextStage : NextStage[x] \in Stages
    /\ \A x, y \in DOMAIN NextStage : NextStage[x] = NextStage[y] => x = y
BY DEF NextStage, Stages

\* Further calls take nothing away from the stages either.
LEMMA StagesStayEarned ==
    ASSUME NEW s \in PolicyStates, NEW W, NEW R, NEW V, NEW Q, IsFiniteSet(DoneCalls(V)),
           \A c \in Recorders : W[c] = "done" => V[c] = "done" /\ Q[c] = R[c], StagesEarned(s, W, R)
    PROVE  StagesEarned(s, V, Q)
<1> SUFFICES ASSUME NEW x \in DOMAIN NextStage
             PROVE  /\ s.stages[x].runs <= Cardinality(CleanRuns(V, Q, x))
                    /\ s.stages[x].streakRuns <= Cardinality(CleanRuns(V, Q, x))
                    /\ s.activeStage = NextStage[x] => Cardinality(CleanRuns(V, Q, x)) >= MinRuns[x]
  BY DEF StagesEarned
<1>1. /\ Cardinality(CleanRuns(W, R, x)) \in Nat /\ Cardinality(CleanRuns(V, Q, x)) \in Nat
      /\ Cardinality(CleanRuns(W, R, x)) <= Cardinality(CleanRuns(V, Q, x))
  BY CleanGrows
<1>2. s.stages[x] \in Metrics /\ MinRuns[x] \in Nat
  BY NextStages, PolicyAssumption DEF PolicyStates
<1>3. s.stages[x].runs \in Nat /\ s.stages[x].streakRuns \in Nat
  BY <1>2 DEF Metrics
<1> QED BY <1>1, <1>2, <1>3 DEF StagesEarned

\* A run that ends pays for the stage it counts for.
LEMMA PromotedEarned ==
    ASSUME NEW s \in PolicyStates, NEW r \in SomeRuns, NEW c \in Recorders, writing[c] = "read",
           IsFiniteSet(DoneCalls(writing')), writing'[c] = "done",
           recorded'[c].stage = StageOf(s, r), recorded'[c].results = r.results,
           \A d \in Recorders : writing[d] = "done" => writing'[d] = "done" /\ recorded'[d] = recorded[d],
           StagesEarned(s, writing, recorded)
    PROVE  /\ Promoted(s, r) \in PolicyStates /\ StagesEarned(Promoted(s, r), writing', recorded')
           /\ Promoted(s, r).failures = s.failures /\ Promoted(s, r).until = s.until
<1> DEFINE x == StageOf(s, r)
           m == Counted(s.stages[x], r.results)
           counted == [s EXCEPT !.stages = [s.stages EXCEPT ![x] = m]]
           up == [counted EXCEPT !.activeStage = NextStage[x]]
<1>1. Promoted(s, r) = IF r.results = <<>> THEN s ELSE IF Eligible(x, m) THEN up ELSE counted
  BY DEF Promoted, PolicyStates
<1>2. x \in Stages /\ r.results \in Seq(RunResults) /\ recorded'[c].stage = x
  BY DEF StageOf, SomeRuns, PolicyStates
<1> HIDE DEF x
<1>3. s.stages[x] \in Metrics
  BY <1>2 DEF PolicyStates
<1>4. /\ m \in Metrics
      /\ Failed(r.results) # {} => m.runs = s.stages[x].runs /\ m.streakRuns = 0
      /\ Failed(r.results) = {} => m.runs = s.stages[x].runs + 1 /\ m.streakRuns = s.stages[x].streakRuns + 1
  BY <1>2, <1>3, CountedParts
<1> HIDE DEF m
<1>5. /\ counted \in PolicyStates /\ counted.stages = [s.stages EXCEPT ![x] = m]
      /\ counted.activeStage = s.activeStage /\ counted.failures = s.failures /\ counted.until = s.until
  <2>1. [s.stages EXCEPT ![x] = m] \in [Stages -> Metrics]
    BY <1>2, <1>4 DEF PolicyStates
  <2> QED BY <2>1 DEF PolicyStates
<1> HIDE DEF counted
<1>6. StagesEarned(s, writing', recorded')
  BY StagesStayEarned
<1>7. ASSUME x \in DOMAIN NextStage
      PROVE  /\ m.runs <= Cardinality(CleanRuns(writing', recorded', x))
             /\ m.streakRuns <= Cardinality(CleanRuns(writing', recorded', x))
             /\ m.runs \in Nat /\ m.streakRuns \in Nat /\ Cardinality(CleanRuns(writing', recorded', x)) \in Nat
  <2>1. /\ CleanRuns(writing, recorded, x) \subseteq CleanRuns(writing', recorded', x)
        /\ IsFiniteSet(CleanRuns(writing', recorded', x))
        /\ Cardinality(CleanRuns(writing, recorded, x)) \in Nat
        /\ Cardinality(CleanRuns(writing', recorded', x)) \in Nat
        /\ Cardinality(CleanRuns(writing, recorded, x)) <= Cardinality(CleanRuns(writing', recorded', x))
    BY CleanGrows
  <2>2. /\ s.stages[x].runs <= Cardinality(CleanRuns(writing, recorded, x))
        /\ s.stages[x].streakRuns <= Cardinality(CleanRuns(writing, recorded, x))
    BY <1>7 DEF StagesEarned
  <2>3. s.stages[x].runs \in Nat /\ s.stages[x].streakRuns \in Nat /\ m.runs \in Nat /\ m.streakRuns \in Nat
    BY <1>3, <1>4 DEF Metrics
  <2>4. CASE Failed(r.results) # {}
    BY <1>4, <2>1, <2>2, <2>3, <2>4
  <2>5. CASE Failed(r.results) = {}
    <3>1. c \in CleanRuns(writing', recorded', x) /\ c \notin CleanRuns(writing, recorded, x)
      BY <1>2, <2>5 DEF CleanRuns
    <3>2. IsFiniteSet(CleanRuns(writing, recorded, x))
            /\ CleanRuns(writing, recorded, x) \cup {c} \in SUBSET CleanRuns(writing', recorded', x)
      BY <2>1, <3>1, FS_Subset
    <3>3. Cardinality(CleanRuns(writing, recorded, x) \cup {c}) = Cardinality(CleanRuns(writing, recorded, x)) + 1
      BY <3>1, <3>2, FS_AddElement
    <3>4. Cardinality(CleanRuns(writing, recorded, x) \cup {c}) <= Cardinality(CleanRuns(writing', recorded', x))
      BY <2>1, <3>2, SubsetSize
    <3> QED BY <1>4, <2>1, <2>2, <2>3, <2>5, <3>3, <3>4
  <2> QED BY <2>4, <2>5
<1>8. StagesEarned(counted, writing', recorded')
  <2> SUFFICES ASSUME NEW y \in DOMAIN NextStage
               PROVE  /\ counted.stages[y].runs <= Cardinality(CleanRuns(writing', recorded', y))
                      /\ counted.stages[y].streakRuns <= Cardinality(CleanRuns(writing', recorded', y))
                      /\ counted.activeStage = NextStage[y]
                            => Cardinality(CleanRuns(writing', recorded', y)) >= MinRuns[y]
    BY DEF StagesEarned
  <2>1. y \in Stages /\ s.stages \in [Stages -> Metrics]
    BY NextStages DEF PolicyStates
  <2>2. CASE y = x
    <3>1. counted.stages[y] = m
      BY <1>5, <2>1, <2>2
    <3> QED BY <1>5, <1>6, <1>7, <2>2, <3>1 DEF StagesEarned
  <2>3. CASE y # x
    <3>1. counted.stages[y] = s.stages[y]
      BY <1>5, <2>1, <2>3
    <3> QED BY <1>5, <1>6, <3>1 DEF StagesEarned
  <2> QED BY <2>2, <2>3
<1>9. CASE r.results = <<>>
  BY <1>1, <1>6, <1>9
<1>10. CASE r.results # <<>> /\ ~Eligible(x, m)
  BY <1>1, <1>5, <1>8, <1>10
<1>11. CASE r.results # <<>> /\ Eligible(x, m)
  <2>1. x \in DOMAIN NextStage /\ (m.runs >= MinRuns[x] \/ m.streakRuns >= MinRuns[x])
    BY <1>11, EligibleNeeds
  <2>2. /\ up \in PolicyStates /\ up.stages = counted.stages /\ up.activeStage = NextStage[x]
        /\ up.failures = counted.failures /\ up.until = counted.until
    <3>1. NextStage[x] \in Stages
      BY <2>1, NextStages
    <3> QED BY <1>5, <3>1 DEF PolicyStates
  <2>3. Cardinality(CleanRuns(writing', recorded', x)) >= MinRuns[x]
    <3>1. MinRuns[x] \in Nat
      BY <2>1, PolicyAssumption
    <3> QED BY <1>7, <2>1, <3>1
  <2> HIDE DEF up
  <2>4. StagesEarned(up, writing', recorded')
    <3> SUFFICES ASSUME NEW y \in DOMAIN NextStage
                 PROVE  /\ up.stages[y].runs <= Cardinality(CleanRuns(writing', recorded', y))
                        /\ up.stages[y].streakRuns <= Cardinality(CleanRuns(writing', recorded', y))
                        /\ up.activeStage = NextStage[y]
                            => Cardinality(CleanRuns(writing', recorded', y)) >= MinRuns[y]
      BY DEF StagesEarned
    <3>1. up.activeStage = NextStage[y] => y = x
      BY <2>1, <2>2, NextStages
    <3> QED BY <1>8, <2>2, <2>3, <3>1 DEF StagesEarned
  <2>5. Promoted(s, r) = up
    BY <1>1, <1>11
  <2> QED BY <1>5, <2>2, <2>4, <2>5
<1> QED BY <1>9, <1>10, <1>11

\* The file and the copies, seen by the specification's own words.
LEMMA SameFailures ==
    ASSUME PolicyShape, NEW t
    PROVE  /\ Failures(t) = FailuresAbout(recorded, DoneResults(writing, recorded), t)
           /\ Faults(t) = FaultsAbout(recorded, DoneResults(writing, recorded), t)
<1>1. \A c \in Recorders : /\ recorded[c].results \in Seq(RunResults)
                           /\ DOMAIN recorded[c].results = 1..Len(recorded[c].results)
  BY LenProperties DEF PolicyShape, SomeRuns
<1>2. ASSUME NEW o
      PROVE  o \in Failures(t) <=> o \in FailuresAbout(recorded, DoneResults(writing, recorded), t)
  <2>1. ASSUME o \in Failures(t) PROVE o \in FailuresAbout(recorded, DoneResults(writing, recorded), t)
    <3>1. PICK c \in Recorders : \E i \in DOMAIN recorded[c].results :
            /\ writing[c] = "done" /\ o = <<c, i>> /\ recorded[c].results[i].status = "failed"
            /\ t \in {recorded[c].results[i].runner, recorded[c].results[i].kind}
      BY <2>1 DEF Failures, Failed
    <3>4. PICK i \in DOMAIN recorded[c].results :
            /\ writing[c] = "done" /\ o = <<c, i>> /\ recorded[c].results[i].status = "failed"
            /\ t \in {recorded[c].results[i].runner, recorded[c].results[i].kind}
      BY <3>1
    <3>2. i \in 1..Len(recorded[c].results) /\ i \in Nat
      BY <1>1, <3>4
    <3>3. o[1] = c /\ o[2] = i
      BY <3>4
    <3> QED BY <3>2, <3>4, <3>3 DEF FailuresAbout, DoneResults, ResultAt
  <2>2. ASSUME o \in FailuresAbout(recorded, DoneResults(writing, recorded), t) PROVE o \in Failures(t)
    <3>1. PICK c \in Recorders, i \in Nat : o = <<c, i>>
      BY <2>2 DEF FailuresAbout, DoneResults
    <3>2. /\ writing[c] = "done" /\ i \in 1..Len(recorded[c].results) /\ recorded[c].results[i].status = "failed"
          /\ t \in {recorded[c].results[i].runner, recorded[c].results[i].kind}
      BY <2>2, <3>1 DEF FailuresAbout, DoneResults, ResultAt
    <3>3. i \in DOMAIN recorded[c].results
      BY <1>1, <3>2
    <3> QED BY <3>1, <3>2, <3>3 DEF Failures, Failed
  <2> QED BY <2>1, <2>2
<1>3. Failures(t) \subseteq Recorders \X Nat
        /\ FailuresAbout(recorded, DoneResults(writing, recorded), t) \subseteq Recorders \X Nat
  BY <1>2 DEF FailuresAbout, DoneResults
<1>4. Failures(t) = FailuresAbout(recorded, DoneResults(writing, recorded), t)
  BY <1>2
<1>5. \A o \in FailuresAbout(recorded, DoneResults(writing, recorded), t) :
        ~recorded[o[1]].results[o[2]].timeout <=> ~Late(ResultAt(recorded, o))
  <2> TAKE o \in FailuresAbout(recorded, DoneResults(writing, recorded), t)
  <2>1. o[1] \in Recorders /\ o[2] \in 1..Len(recorded[o[1]].results)
    BY DEF FailuresAbout, DoneResults
  <2>2. recorded[o[1]].results[o[2]] \in RunResults
    BY <1>1, <2>1, ElementOfSeq
  <2>3. recorded[o[1]].results[o[2]].timeout \in BOOLEAN
    BY <2>2 DEF RunResults
  <2> QED BY <2>3 DEF Late, ResultAt
<1> QED BY <1>4, <1>5 DEF Faults, FaultsAbout

\* A call that has not ended can record anything: what is counted stays.
LEMMA OthersCount ==
    ASSUME NEW R, NEW Q, NEW W, NEW V, DoneCalls(V) = DoneCalls(W),
           \A c \in Recorders : W[c] = "done" => Q[c] = R[c],
           NEW s, StateEarned(s, W, R)
    PROVE  StateEarned(s, V, Q) /\ DoneResults(V, Q) = DoneResults(W, R)
<1>1. \A c \in Recorders : V[c] = "done" <=> W[c] = "done"
  BY DEF DoneCalls
<1>2. DoneResults(V, Q) = DoneResults(W, R)
  BY <1>1 DEF DoneResults
<1>3. \A o \in DoneResults(W, R) : ResultAt(Q, o) = ResultAt(R, o)
  BY DEF DoneResults, ResultAt
<1>4. \A t : FailuresAbout(Q, DoneResults(W, R), t) = FailuresAbout(R, DoneResults(W, R), t)
  BY <1>3 DEF FailuresAbout
<1>5. \A t : FaultsAbout(Q, DoneResults(W, R), t) = FaultsAbout(R, DoneResults(W, R), t)
  <2> TAKE t
  <2>1. \A o \in FailuresAbout(R, DoneResults(W, R), t) : ResultAt(Q, o) = ResultAt(R, o)
    BY <1>3 DEF FailuresAbout
  <2> QED BY <1>4, <2>1 DEF FaultsAbout
<1>6. HealthEarned(s, Q, DoneResults(W, R))
  BY <1>4, <1>5 DEF StateEarned, HealthEarned, CountedFor, QuarantineEarned
<1>7. \A x : CleanRuns(V, Q, x) = CleanRuns(W, R, x)
  BY <1>1 DEF CleanRuns
<1>8. StagesEarned(s, V, Q)
  BY <1>7 DEF StateEarned, StagesEarned
<1> QED BY <1>2, <1>6, <1>8 DEF StateEarned

\* Nothing is known at first.
LEMMA PolicyInitHolds == PolicyInit => PolicyInv
<1> SUFFICES ASSUME PolicyInit PROVE PolicyInv
  OBVIOUS
<1>1. NoMetrics \in Metrics
  BY DEF NoMetrics, Metrics
<1>2. DefaultState \in PolicyStates
  BY <1>1 DEF DefaultState, PolicyStates, Stages
<1>3. NothingRun \in SomeRuns
  <2>1. <<>> \in Seq(RunResults)
    BY EmptySeq
  <2> QED BY <2>1 DEF NothingRun, SomeRuns
<1>4. DoneCalls(writing) = {} /\ DoneResults(writing, recorded) = {}
  BY DEF PolicyInit, DoneCalls, DoneResults
<1>5. PolicyShape
  BY <1>2, <1>3, <1>4, FS_EmptySet DEF PolicyInit, PolicyShape
<1>6. HealthEarned(DefaultState, recorded, {})
  <2>1. \A t \in Targets : DefaultState.failures[t] = 0 /\ DefaultState.until[t] = 0
    BY DEF DefaultState
  <2>2. \A t : Cardinality(CountedFor(recorded, {}, t)) \in Nat
    BY FailureSizes, FS_EmptySet
  <2> QED BY <2>1, <2>2 DEF HealthEarned
<1>7. StagesEarned(DefaultState, writing, recorded)
  <2>1. \A x : CleanRuns(writing, recorded, x) = {}
    BY <1>4 DEF CleanRuns, DoneCalls
  <2>2. Cardinality({}) = 0
    BY FS_EmptySet
  <2>3. \A x \in DOMAIN NextStage : /\ DefaultState.stages[x].runs = 0 /\ DefaultState.stages[x].streakRuns = 0
                                    /\ DefaultState.activeStage # NextStage[x]
    BY DEF DefaultState, NoMetrics, NextStage, Stages
  <2> SUFFICES ASSUME NEW x \in DOMAIN NextStage
               PROVE  /\ DefaultState.stages[x].runs <= Cardinality(CleanRuns(writing, recorded, x))
                      /\ DefaultState.stages[x].streakRuns <= Cardinality(CleanRuns(writing, recorded, x))
                      /\ DefaultState.activeStage # NextStage[x]
    BY DEF StagesEarned
  <2>4. Cardinality(CleanRuns(writing, recorded, x)) = 0 /\ 0 <= 0
    BY <2>1, <2>2
  <2> QED BY <2>3, <2>4
<1>8. StateEarned(DefaultState, writing, recorded)
  BY <1>4, <1>6, <1>7 DEF StateEarned
<1>9. file = DefaultState /\ \A c \in Recorders : seen[c] = DefaultState
  BY DEF PolicyInit
<1> QED BY <1>5, <1>8, <1>9 DEF PolicyInv

\* The invariant is inductive.
LEMMA PolicyStep == PolicyInv /\ [PolicyNext]_policyVars => PolicyInv'
<1> SUFFICES ASSUME PolicyInv, [PolicyNext]_policyVars PROVE PolicyInv'
  OBVIOUS
<1>1. /\ file \in PolicyStates /\ hour \in Nat
      /\ writing \in [Recorders -> {"idle", "read", "done", "failed"}]
      /\ seen \in [Recorders -> PolicyStates] /\ began \in [Recorders -> Nat]
      /\ recorded \in [Recorders -> SomeRuns]
      /\ IsFiniteSet(DoneCalls(writing)) /\ IsFiniteSet(DoneResults(writing, recorded))
      /\ StateEarned(file, writing, recorded) /\ \A c \in Recorders : StateEarned(seen[c], writing, recorded)
  BY DEF PolicyInv, PolicyShape
<1>2. DefaultState \in PolicyStates /\ NothingRun \in SomeRuns
  <2>1. NoMetrics \in Metrics
    BY DEF NoMetrics, Metrics
  <2>2. <<>> \in Seq(RunResults)
    BY EmptySeq
  <2> QED BY <2>1, <2>2 DEF DefaultState, PolicyStates, Stages, NothingRun, SomeRuns
<1>3. ASSUME NEW W, NEW R
      PROVE  IsFiniteSet(DoneCalls(W)) /\ IsFiniteSet(DoneResults(W, R)) => StateEarned(DefaultState, W, R)
  <2> SUFFICES ASSUME IsFiniteSet(DoneCalls(W)), IsFiniteSet(DoneResults(W, R)) PROVE StateEarned(DefaultState, W, R)
    OBVIOUS
  <2>1. \A t \in Targets : DefaultState.failures[t] = 0 /\ DefaultState.until[t] = 0
    BY DEF DefaultState
  <2>2. \A t : Cardinality(CountedFor(R, DoneResults(W, R), t)) \in Nat
    BY FailureSizes
  <2>3. \A x : Cardinality(CleanRuns(W, R, x)) \in Nat
    BY CleanGrows
  <2>4. \A x \in DOMAIN NextStage : /\ DefaultState.stages[x].runs = 0 /\ DefaultState.stages[x].streakRuns = 0
                                    /\ DefaultState.activeStage # NextStage[x]
    BY DEF DefaultState, NoMetrics, NextStage, Stages
  <2>5. HealthEarned(DefaultState, R, DoneResults(W, R))
    BY <2>1, <2>2 DEF HealthEarned
  <2>6. StagesEarned(DefaultState, W, R)
    BY <2>3, <2>4 DEF StagesEarned
  <2> QED BY <2>5, <2>6 DEF StateEarned
<1>4. ASSUME NEW c \in Recorders, BeginRecord(c) PROVE PolicyInv'
  <2>1. PICK r \in RecordedRuns : recorded' = [recorded EXCEPT ![c] = r]
    BY <1>4 DEF BeginRecord
  <2>2. /\ writing[c] = "idle" /\ seen' = [seen EXCEPT ![c] = file] /\ began' = [began EXCEPT ![c] = hour]
        /\ writing' = [writing EXCEPT ![c] = "read"] /\ UNCHANGED <<file, hour>>
    BY <1>4 DEF BeginRecord
  <2>3. r \in SomeRuns
    BY PolicyAssumption
  <2>4. DoneCalls(writing') = DoneCalls(writing)
          /\ \A d \in Recorders : writing[d] = "done" => recorded'[d] = recorded[d]
    BY <1>1, <2>1, <2>2 DEF DoneCalls
  <2>5. DoneResults(writing', recorded') = DoneResults(writing, recorded)
    BY <1>1, <2>4, OthersCount
  <2>6. \A s : StateEarned(s, writing, recorded) => StateEarned(s, writing', recorded')
    BY <2>4, OthersCount
  <2>7. PolicyShape'
    BY <1>1, <2>1, <2>2, <2>3, <2>4, <2>5 DEF PolicyShape
  <2>8. \A d \in Recorders : StateEarned(seen'[d], writing', recorded')
    BY <1>1, <2>2, <2>6
  <2> QED BY <1>1, <2>2, <2>6, <2>7, <2>8 DEF PolicyInv
<1>5. ASSUME NEW c \in Recorders, WriteFails(c) PROVE PolicyInv'
  <2>1. /\ writing[c] = "read" /\ recorded' = [recorded EXCEPT ![c] = NothingRun]
        /\ seen' = [seen EXCEPT ![c] = DefaultState] /\ began' = [began EXCEPT ![c] = 0]
        /\ writing' = [writing EXCEPT ![c] = "failed"] /\ UNCHANGED <<file, hour>>
    BY <1>5 DEF WriteFails, EndRun
  <2>2. DoneCalls(writing') = DoneCalls(writing)
          /\ \A d \in Recorders : writing[d] = "done" => recorded'[d] = recorded[d]
    BY <1>1, <2>1 DEF DoneCalls
  <2>3. DoneResults(writing', recorded') = DoneResults(writing, recorded)
    BY <1>1, <2>2, OthersCount
  <2>4. \A s : StateEarned(s, writing, recorded) => StateEarned(s, writing', recorded')
    BY <2>2, OthersCount
  <2>5. PolicyShape'
    BY <1>1, <1>2, <2>1, <2>2, <2>3 DEF PolicyShape
  <2>6. StateEarned(DefaultState, writing', recorded')
    BY <1>1, <1>3, <2>2, <2>3
  <2>7. \A d \in Recorders : StateEarned(seen'[d], writing', recorded')
    BY <1>1, <2>1, <2>4, <2>6
  <2> QED BY <1>1, <2>1, <2>4, <2>5, <2>7 DEF PolicyInv
<1>6. ASSUME NEW c \in Recorders, WriteRun(c) PROVE PolicyInv'
  <2> DEFINE rs == recorded[c].results
             S == DoneResults(writing, recorded)
             T == S \cup {<<c, i>> : i \in 1..Len(rs)}
             judged == Health(seen[c], rs, began[c])
             stage == StageOf(seen[c], recorded[c])
  <2>1. /\ writing[c] = "read" /\ file' \in {Promoted(judged, recorded[c]), judged}
        /\ recorded' = [recorded EXCEPT ![c] = [recorded[c] EXCEPT !.stage = stage]]
        /\ seen' = [seen EXCEPT ![c] = DefaultState] /\ began' = [began EXCEPT ![c] = 0]
        /\ writing' = [writing EXCEPT ![c] = "done"] /\ hour' = hour
    BY <1>1, <1>6 DEF WriteRun, EndRun
  <2>2. rs \in Seq(RunResults) /\ recorded[c] \in SomeRuns
    BY <1>1 DEF SomeRuns
  <2>3. \A o \in S : o[1] # c
    BY <2>1 DEF DoneResults
  <2>4. HealthEarned(seen[c], recorded, S)
    BY <1>1 DEF StateEarned
  <2>5. /\ judged \in PolicyStates /\ judged.activeStage = seen[c].activeStage /\ judged.stages = seen[c].stages
        /\ HealthEarned(judged, recorded, T) /\ IsFiniteSet(T)
    <3>1. seen[c] \in PolicyStates /\ began[c] \in Nat /\ IsFiniteSet(S)
      BY <1>1
    <3>2. recorded[c].results \in Seq(RunResults) /\ NoneOf(S, c)
      BY <2>2, <2>3 DEF NoneOf
    <3> HIDE DEF S
    <3>3. judged = Health(seen[c], recorded[c].results, began[c])
      OBVIOUS
    <3> HIDE DEF judged
    <3>4. HealthAsked(seen[c], recorded, S, c, began[c], judged)
      BY <2>4, <3>1, <3>2, <3>3 DEF HealthAsked
    <3>5. HealthGiven(seen[c], recorded, S, c, judged)
      BY <3>4, HealthOfRun
    <3> QED BY <3>5 DEF HealthGiven, ResultsOf
  <2>6. stage \in Stages /\ stage = StageOf(judged, recorded[c])
    <3>1. seen[c] \in PolicyStates
      BY <1>1
    <3> QED BY <2>2, <2>5, <3>1 DEF StageOf, SomeRuns, PolicyStates
  <2> HIDE DEF judged, stage
  <2>7. recorded'[c] \in SomeRuns /\ recorded'[c].stage = stage /\ recorded'[c].results = rs
    BY <1>1, <2>1, <2>2, <2>6 DEF SomeRuns
  <2>8. \A d \in Recorders \ {c} : recorded'[d] = recorded[d] /\ writing'[d] = writing[d] /\ seen'[d] = seen[d]
    BY <1>1, <2>1
  <2>9. writing'[c] = "done" /\ seen'[c] = DefaultState
    BY <1>1, <2>1
  <2>10. DoneResults(writing', recorded') = T
    <3>1. ASSUME NEW o \in Recorders \X Nat
          PROVE  (writing'[o[1]] = "done" /\ o[2] \in 1..Len(recorded'[o[1]].results)) <=> o \in T
      <4>1. CASE o[1] = c
        <5>1. o \notin S /\ o = <<c, o[2]>>
          BY <2>3, <4>1
        <5> QED BY <2>7, <2>9, <4>1, <5>1
      <4>2. CASE o[1] # c
        <5>1. o[1] \in Recorders \ {c}
          BY <4>2
        <5>2. o \notin {<<c, i>> : i \in 1..Len(rs)}
          BY <4>2
        <5> QED BY <2>8, <5>1, <5>2 DEF DoneResults
      <4> QED BY <4>1, <4>2
    <3>2. T \subseteq Recorders \X Nat
      <4>1. Len(rs) \in Nat
        BY <2>2, LenProperties
      <4> QED BY <4>1 DEF DoneResults
    <3> HIDE DEF T
    <3> QED BY <3>1, <3>2 DEF DoneResults
  <2>11. DoneCalls(writing') = DoneCalls(writing) \cup {c} /\ IsFiniteSet(DoneCalls(writing'))
    <3>1. DoneCalls(writing') = DoneCalls(writing) \cup {c}
      BY <2>8, <2>9 DEF DoneCalls
    <3> QED BY <1>1, <3>1, FS_AddElement
  <2>12. \A o \in T : ResultAt(recorded', o) = ResultAt(recorded, o)
    <3> TAKE o \in T
    <3>1. CASE o \in S
      <4>1. o[1] \in Recorders \ {c}
        BY <2>3, <3>1 DEF DoneResults
      <4> QED BY <2>8, <4>1 DEF ResultAt
    <3>2. CASE o \in {<<c, i>> : i \in 1..Len(rs)}
      <4>1. o[1] = c
        BY <3>2
      <4> QED BY <2>7, <4>1 DEF ResultAt
    <3> QED BY <3>1, <3>2
  <2>13. \A t : /\ FailuresAbout(recorded', T, t) = FailuresAbout(recorded, T, t)
                /\ FaultsAbout(recorded', T, t) = FaultsAbout(recorded, T, t)
    <3> TAKE t
    <3> HIDE DEF T
    <3>1. FailuresAbout(recorded', T, t) = FailuresAbout(recorded, T, t)
      BY <2>12 DEF FailuresAbout
    <3>2. \A o \in FailuresAbout(recorded, T, t) : ResultAt(recorded', o) = ResultAt(recorded, o)
      BY <2>12 DEF FailuresAbout
    <3> QED BY <3>1, <3>2 DEF FaultsAbout
  <2>14. ASSUME NEW s, HealthEarned(s, recorded, T) PROVE HealthEarned(s, recorded', T)
    <3> HIDE DEF T
    <3> QED BY <2>13, <2>14 DEF HealthEarned, CountedFor, QuarantineEarned
  <2>15. \A d \in Recorders : writing[d] = "done" => writing'[d] = "done" /\ recorded'[d] = recorded[d]
    BY <2>1, <2>8
  <2>16. StagesEarned(judged, writing, recorded)
    BY <1>1, <2>5 DEF StateEarned, StagesEarned
  <2>17. /\ Promoted(judged, recorded[c]) \in PolicyStates
         /\ StagesEarned(Promoted(judged, recorded[c]), writing', recorded')
         /\ Promoted(judged, recorded[c]).failures = judged.failures
         /\ Promoted(judged, recorded[c]).until = judged.until
    <3>1. /\ judged \in PolicyStates /\ recorded[c] \in SomeRuns /\ writing[c] = "read"
          /\ IsFiniteSet(DoneCalls(writing')) /\ writing'[c] = "done"
          /\ recorded'[c].stage = StageOf(judged, recorded[c]) /\ recorded'[c].results = recorded[c].results
      BY <2>1, <2>2, <2>5, <2>6, <2>7, <2>9, <2>11
    <3> HIDE DEF rs, S, T
    <3> QED BY <2>15, <2>16, <3>1, PromotedEarned
  <2>18. file' \in PolicyStates /\ StateEarned(file', writing', recorded')
    <3>1. CASE file' = judged
      <4>1. StagesEarned(judged, writing', recorded')
        <5>1. judged \in PolicyStates /\ IsFiniteSet(DoneCalls(writing'))
          BY <2>5, <2>11
        <5> HIDE DEF rs, S, T
        <5> QED BY <2>15, <2>16, <5>1, StagesStayEarned
      <4> QED BY <2>5, <2>10, <2>14, <3>1, <4>1 DEF StateEarned
    <3>2. CASE file' = Promoted(judged, recorded[c])
      <4>1. HealthEarned(Promoted(judged, recorded[c]), recorded, T)
        BY <2>5, <2>17 DEF HealthEarned
      <4> QED BY <2>10, <2>14, <2>17, <3>2, <4>1 DEF StateEarned
    <3> QED BY <2>1, <3>1, <3>2
  <2>19. \A d \in Recorders : StateEarned(seen'[d], writing', recorded')
    <3> TAKE d \in Recorders
    <3>1. CASE d = c
      BY <1>3, <2>5, <2>9, <2>10, <2>11, <3>1
    <3>2. CASE d # c
      <4>1. seen'[d] = seen[d] /\ seen[d] \in PolicyStates /\ StateEarned(seen[d], writing, recorded)
        BY <1>1, <2>8, <3>2
      <4>2. StagesEarned(seen[d], writing', recorded')
        BY <2>11, <2>15, <4>1, StagesStayEarned DEF StateEarned
      <4>3. S \subseteq T /\ HealthEarned(seen[d], recorded, S)
        BY <4>1 DEF StateEarned
      <4> HIDE DEF S, T
      <4>4. HealthEarned(seen[d], recorded, T)
        BY <2>5, <4>1, <4>3, HealthStaysEarned
      <4> QED BY <2>10, <2>14, <4>1, <4>2, <4>4 DEF StateEarned
    <3> QED BY <3>1, <3>2
  <2>20. PolicyShape'
    <3>1. recorded' \in [Recorders -> SomeRuns]
      BY <1>1, <2>1, <2>7
    <3>2. seen' \in [Recorders -> PolicyStates] /\ began' \in [Recorders -> Nat]
          /\ writing' \in [Recorders -> {"idle", "read", "done", "failed"}]
      BY <1>1, <1>2, <2>1
    <3> HIDE DEF T
    <3> QED BY <1>1, <2>1, <2>5, <2>10, <2>11, <2>18, <3>1, <3>2 DEF PolicyShape
  <2> QED BY <2>18, <2>19, <2>20 DEF PolicyInv
<1>7. CASE Hour
  BY <1>1, <1>7 DEF Hour, PolicyInv, PolicyShape
<1>8. CASE UNCHANGED policyVars
  BY <1>8 DEF policyVars, PolicyInv, PolicyShape
<1> QED BY <1>4, <1>5, <1>6, <1>7, <1>8 DEF PolicyNext

\* The invariant is about the failures and runs that PolicyIsEarned counts.
LEMMA PolicyInvHolds == PolicyInv => PolicyIsEarned
<1> SUFFICES ASSUME PolicyInv PROVE PolicyIsEarned
  OBVIOUS
<1>1. PolicyShape /\ HealthEarned(file, recorded, DoneResults(writing, recorded))
        /\ StagesEarned(file, writing, recorded)
  BY DEF PolicyInv, StateEarned
<1>2. QuarantinesAreEarned
  <2> SUFFICES ASSUME NEW t \in Targets, file.until[t] # 0
               PROVE  \/ Cardinality(Faults(t)) >= FailureThreshold
                      \/ t \in Kinds /\ Faults(t) # {} /\ Cardinality(Failures(t)) >= FailureThreshold
                      \/ t \in Kinds /\ Cardinality(Failures(t)) >= TimeoutThreshold
    BY DEF QuarantinesAreEarned
  <2>1. QuarantineEarned(recorded, DoneResults(writing, recorded), t)
    BY <1>1 DEF HealthEarned
  <2>2. /\ Failures(t) = FailuresAbout(recorded, DoneResults(writing, recorded), t)
        /\ Faults(t) = FaultsAbout(recorded, DoneResults(writing, recorded), t)
    BY <1>1, SameFailures
  <2> QED BY <2>1, <2>2 DEF QuarantineEarned
<1>3. StageIsEarned
  BY <1>1 DEF StageIsEarned, StagesEarned, CleanRuns
<1> QED BY <1>2, <1>3 DEF PolicyIsEarned

\* For any runs, providers, criteria and overlapping calls that overwrite one
\* another and fail: a quarantine and a stage rest on results that ended calls
\* recorded (parallelization-version-policy.js).
THEOREM PolicyAlwaysEarned == PolicySpec => []PolicyIsEarned
BY PolicyInitHolds, PolicyStep, PolicyInvHolds, PTL DEF PolicySpec

----------------------------------------------------------------------------
(***************************************************************************)
(* What a plan may hand out, for any projects, and any features of prompt, *)
(* environment and goal.                                                   *)
(***************************************************************************)

\* What is collected of a prompt sends nobody past the only owner.
CollectedFits(q) ==
    q.owners # {} =>
      /\ q.project # NoProject => {q.project} = q.owners \/ q.project = q.last
      /\ q.fast # "none" => {q.into} = q.owners
      /\ ~q.recipe

\* The fields of a plan.
Planlike(p) ==
    p = [branch |-> p.branch, slug |-> p.slug, lane |-> p.lane, stops |-> p.stops, systems |-> p.systems,
         tasks |-> p.tasks, writers |-> p.writers, envelope |-> p.envelope, scale |-> p.scale]

\* A plan before its sidecars, with them, and with its scale.
Bare(p) == Planlike(p) /\ p.tasks = 0 /\ p.writers = 0
Manned(p, q) ==
    /\ Planlike(p)
    /\ p.tasks > 0 => ~q.gated
    /\ p.writers \in {0, 1}
    /\ p.writers = 1 => q.action = "write" /\ p.slug \notin ProtectedProjects /\ p.tasks > 0
Scaled(p, q) ==
    /\ p.scale \in {1, 3, 4} /\ p.envelope \in {1, 3, 4} /\ (p.envelope = 1 <=> p.scale = 1)
    /\ p.tasks > 0 => p.scale # 1 \/ q.explicit
    /\ p.writers = 1 => p.scale # 1

\* The inductive invariant.
PlanInv ==
    /\ planAt \in {"prompt", "collected", "routed", "planned", "finalized", "done"}
    /\ planAt = "collected" => CollectedFits(found)
    /\ planAt = "routed" => Bare(legacy) /\ Bare(shadow)
    /\ planAt \in {"planned", "finalized", "done"} => Manned(legacy, found) /\ Manned(shadow, found)
    /\ planAt \in {"finalized", "done"} => Scaled(legacy, found) /\ Scaled(shadow, found)
    /\ planAt = "done" => chosen = "legacy" \/ found.action = "read"

\* A set that is not empty and has no two elements has one.
LEMMA OneOwner ==
    ASSUME NEW S \in SUBSET Projects, S # {}, ~(Cardinality(S) > 1)
    PROVE  \A x \in S : S = {x}
<1>1. IsFiniteSet(S)
  BY ProjectsAssumption, FS_Subset
<1> SUFFICES ASSUME NEW x \in S, NEW y \in S, x # y PROVE FALSE
  OBVIOUS
<1>2. IsFiniteSet({x, y}) /\ Cardinality({x, y}) = 2
  <2>1. IsFiniteSet({x}) /\ Cardinality({x}) = 1
    BY FS_Singleton
  <2>2. IsFiniteSet({x} \cup {y}) /\ Cardinality({x} \cup {y}) = 2
    <3>1. y \notin {x} /\ 1 + 1 = 2
      OBVIOUS
    <3> QED BY <2>1, <3>1, FS_AddElement
  <2>3. {x, y} = {x} \cup {y}
    OBVIOUS
  <2> QED BY <2>2, <2>3
<1>3. Cardinality({x, y}) <= Cardinality(S) /\ Cardinality(S) \in Nat
  BY <1>1, FS_Subset, FS_CardinalityType
<1> QED BY <1>2, <1>3

\* The project that is routed to.
LEMMA ProjectFits ==
    ASSUME NEW owners \in SUBSET Projects, owners # {}, NEW mentioned, NEW complaint, NEW last, NEW research,
           NEW strong, NEW project, project = ProjectOf(owners, mentioned, complaint, last, research, strong)
    PROVE  project = NoProject \/ project = last \/ {project} = owners
<1> DEFINE best == IF Cardinality(owners) > 1 THEN NoProject
                   ELSE IF owners # {} THEN CHOOSE p \in owners : TRUE ELSE mentioned
           kept == IF complaint THEN NoProject ELSE IF best = NoProject THEN last ELSE best
<1>1. best = NoProject \/ {best} = owners
  BY OneOwner
<1>2. project = IF research /\ ~strong THEN NoProject ELSE kept
  BY DEF ProjectOf
<1> HIDE DEF best
<1> QED BY <1>1, <1>2

\* Collecting signals does so.
LEMMA CollectFits == Collect => CollectedFits(found') /\ planAt' = "collected"
<1> SUFFICES ASSUME Collect PROVE CollectedFits(found')
  BY DEF Collect
<1>1. CASE found'.owners = {}
  BY <1>1 DEF CollectedFits
<1>2. CASE found'.owners # {}
  <2> DEFINE Of(owners, type, long, into, last) ==
               LET fast == FastpathOf(type, into, long, owners) IN
               {[owners |-> owners, recipe |-> FALSE, fast |-> fast,
                 into |-> IF fast = "none" THEN NoProject ELSE into, project |-> project,
                 last |-> IF project = last THEN last ELSE NoProject] :
                  project \in {ProjectOf(owners, mentioned, complaint, last, research, strong) :
                                mentioned \in Maybe, complaint, research, strong \in BOOLEAN}}
             Anyone == {Ownership(named, outermost) : named \in SUBSET Projects, outermost \in Maybe}
             Recipe == [owners |-> {}, recipe |-> TRUE, fast |-> "none", into |-> NoProject,
                        project |-> NoProject, last |-> NoProject]
             Families == {Of(owners, type, long, into, last) :
                            owners \in Anyone, type \in FastTypes, long \in BOOLEAN, into, last \in Maybe}
  <2>7. found' \in (UNION Families) \cup {Recipe}
    BY DEF Collect
  <2>8. Recipe.owners = {}
    OBVIOUS
  <2> HIDE DEF Families, Of, Anyone, Recipe
  <2>9. PICK family \in Families : found' \in family
    BY <1>2, <2>7, <2>8
  <2>10. PICK owners \in Anyone, type \in FastTypes, long \in BOOLEAN, into \in Maybe, last \in Maybe :
              family = Of(owners, type, long, into, last)
    BY DEF Families
  <2>1. PICK mentioned \in Maybe, complaint \in BOOLEAN, research \in BOOLEAN, strong \in BOOLEAN :
             LET fast == FastpathOf(type, into, long, owners)
                 project == ProjectOf(owners, mentioned, complaint, last, research, strong)
             IN  found' = [owners |-> owners, recipe |-> FALSE, fast |-> fast,
                           into |-> IF fast = "none" THEN NoProject ELSE into, project |-> project,
                           last |-> IF project = last THEN last ELSE NoProject]
    BY <2>9, <2>10 DEF Of
  <2> DEFINE fast == FastpathOf(type, into, long, owners)
             project == ProjectOf(owners, mentioned, complaint, last, research, strong)
  <2>2. /\ found'.owners = owners /\ found'.recipe = FALSE /\ found'.fast = fast /\ found'.project = project
        /\ fast # "none" => found'.into = into
        /\ project = last => found'.last = last
    BY <2>1
  <2>3. owners \in SUBSET Projects
    BY DEF Ownership, Anyone
  <2>4. project = NoProject \/ project = last \/ {project} = owners
    BY <1>2, <2>2, <2>3, ProjectFits
  <2>5. fast # "none" => ~(Cardinality(owners) > 1) /\ into \in owners
    BY <1>2, <2>2 DEF FastpathOf
  <2>6. fast # "none" => {into} = owners
    BY <1>2, <2>2, <2>3, <2>5, OneOwner
  <2> HIDE DEF fast, project
  <2> QED BY <2>2, <2>4, <2>6 DEF CollectedFits
<1> QED BY <1>1, <1>2

\* A plan that is made, before its sidecars.
LEMMA SkeletonParts ==
    ASSUME NEW branch, NEW slug, NEW lane, NEW stops, NEW context, NEW r,
           r = Skeleton(branch, slug, lane, stops, context)
    PROVE  Bare(r) /\ r.branch = branch /\ r.slug = slug
BY DEF Skeleton, NoPlan, Bare, Planlike

\* A plan that gets its sidecars.
MannedWith(p, stops, n, w) == [p EXCEPT !.stops = stops, !.tasks = n, !.writers = w]
LEMMA MannedParts ==
    ASSUME NEW p, Planlike(p), NEW stops, NEW n, NEW w, NEW r, r = MannedWith(p, stops, n, w)
    PROVE  Planlike(r) /\ r.slug = p.slug /\ r.tasks = n /\ r.writers = w
<1>1. p = [branch |-> p.branch, slug |-> p.slug, lane |-> p.lane, stops |-> p.stops, systems |-> p.systems,
           tasks |-> p.tasks, writers |-> p.writers, envelope |-> p.envelope, scale |-> p.scale]
  BY DEF Planlike
<1>2. r = [branch |-> p.branch, slug |-> p.slug, lane |-> p.lane, stops |-> stops, systems |-> p.systems,
           tasks |-> n, writers |-> w, envelope |-> p.envelope, scale |-> p.scale]
  BY <1>1 DEF MannedWith
<1> QED BY <1>2 DEF Planlike

\* What either planner makes of what it has read.
LEMMA PlannersRoute ==
    ASSUME NEW q
    PROVE  /\ Bare(LegacyPlan(q)) /\ Bare(ShadowPlan(q))
           /\ LegacyPlan(q).branch = "project" => LegacyPlan(q).slug = q.project /\ q.project # NoProject
           /\ LegacyPlan(q).branch = "fastpath" => q.fast # "none"
           /\ ShadowPlan(q).branch = "project" => ShadowPlan(q).slug = q.project /\ q.project # NoProject
<1> DEFINE owner == SourceOwner(q)
           old == LegacyPlan(q)
           new == ShadowPlan(q)
<1>1. owner \in {"capability", "fallback", "data", "project"} /\ (owner = "project" => q.project # NoProject)
  BY DEF SourceOwner
<1>2. /\ RecipePlan.branch = "recipe" /\ Bare(RecipePlan)
  <2> DEFINE always == TRUE
             what == {"capability"}
  <2>1. RecipePlan = Skeleton("recipe", NoProject, "recipe_dispatcher", always, what)
    BY Zenon DEF RecipePlan
  <2> HIDE DEF always, what
  <2> QED BY <2>1, SkeletonParts
<1>3. \/ old = RecipePlan
      \/ /\ q.fast # "none"
         /\ old = Skeleton("fastpath", NoProject, q.lane, TRUE, Context(q) \ {"data"})
      \/ q.project # NoProject /\ old = Skeleton("project", q.project, q.lane, TRUE, Context(q))
      \/ old = Skeleton("data", NoProject, DataLane(q), TRUE, {"data"})
      \/ old = Skeleton(IF q.capability # "none" THEN "capability" ELSE "fallback", q.project, q.lane,
                        q.lane \in {"recipe_dispatcher", "workflow"}, Context(q))
  <2> DEFINE r1 == Skeleton("fastpath", NoProject, q.lane, TRUE, Context(q) \ {"data"})
             r2 == Skeleton("project", q.project, q.lane, TRUE, Context(q))
             r3 == Skeleton("data", NoProject, DataLane(q), TRUE, {"data"})
             r4 == Skeleton(IF q.capability # "none" THEN "capability" ELSE "fallback", q.project, q.lane,
                            q.lane \in {"recipe_dispatcher", "workflow"}, Context(q))
  <2>1. old = CASE q.recipe                                  -> RecipePlan
                [] q.fast # "none"                           -> r1
                [] owner = "project" /\ q.project # NoProject -> r2
                [] owner = "data" /\ q.intent = "directive"  -> r3
                [] OTHER                                     -> r4
    BY Zenon DEF LegacyPlan
  <2> HIDE DEF r1, r2, r3, r4, owner, old
  <2>2. \/ old = RecipePlan \/ old = r3 \/ old = r4
        \/ q.fast # "none" /\ old = r1
        \/ q.project # NoProject /\ old = r2
    BY <2>1
  <2> QED BY <2>2, Zenon DEF r1, r2, r3, r4
<1>4. \/ new = RecipePlan
      \/ new = Skeleton(owner, q.project, ShadowLane(q, owner),
                        ShadowLane(q, owner) \in {"recipe_dispatcher", "workflow", "data_lookup"}, Context(q))
  BY DEF ShadowPlan
<1> HIDE DEF owner, old, new
<1>7. old.branch \in {"recipe", "fastpath", "project", "data", "capability", "fallback"} /\ Bare(old)
  BY <1>2, <1>3 DEF Skeleton, NoPlan, Bare, Planlike
<1>5. /\ Bare(old) /\ (old.branch = "project" => old.slug = q.project /\ q.project # NoProject)
      /\ old.branch = "fastpath" => q.fast # "none"
  BY <1>2, <1>3, <1>7 DEF Skeleton, NoPlan, Bare, Planlike
<1>6. Bare(new) /\ (new.branch = "project" => new.slug = q.project /\ q.project # NoProject)
  BY <1>1, <1>2, <1>4 DEF Skeleton, NoPlan, Bare, Planlike
<1> QED BY <1>5, <1>6 DEF old, new

\* Routing passes over nobody, and hands out nothing yet.
LEMMA RouteFits ==
    PlanInv /\ Route => /\ planAt' = "routed" /\ Bare(legacy') /\ Bare(shadow')
                        /\ OwnershipIsRespected
<1> SUFFICES ASSUME PlanInv, Route
             PROVE  planAt' = "routed" /\ Bare(legacy') /\ Bare(shadow') /\ OwnershipIsRespected
  OBVIOUS
<1>1. PICK q \in Queries(Cardinality(found.owners) > 1) : legacy' = LegacyPlan(q) /\ shadow' = ShadowPlan(q)
  BY DEF Route
<1>2. q.recipe = found.recipe /\ q.fast = found.fast /\ q.project = found.project
  BY DEF Queries
<1>3. planAt = "collected" /\ planAt' = "routed" /\ CollectedFits(found)
  BY DEF Route, PlanInv
<1>4. Bare(legacy') /\ Bare(shadow')
  BY <1>1, PlannersRoute
<1>5. /\ legacy'.branch = "project" => legacy'.slug = found.project /\ found.project # NoProject
      /\ legacy'.branch = "fastpath" => found.fast # "none"
      /\ shadow'.branch = "project" => shadow'.slug = found.project /\ found.project # NoProject
  BY <1>1, <1>2, PlannersRoute
<1>6. ASSUME found.owners # {}
      PROVE  /\ found.project # NoProject => {found.project} = found.owners \/ found.project = found.last
             /\ found.fast # "none" => {found.into} = found.owners
  BY <1>3, <1>6 DEF CollectedFits
<1>7. OwnershipIsRespected
  BY <1>5, <1>6 DEF OwnershipIsRespected
<1> QED BY <1>3, <1>4, <1>7

\* Sidecars are handed out without a gate only, and a writer for a write only.
LEMMA FanoutFits ==
    ASSUME NEW p, Bare(p), NEW t, NEW env, NEW action, NEW q, q.gated = t.gated, q.action = action,
           t.gated \in BOOLEAN
    PROVE  Manned(WithFanout(p, t, env, action), q)
<1> DEFINE aggression == Aggression(t, env)
           open == /\ ~Gated(p, t, action) /\ aggression # "off"
                   /\ CriticalPath(p) \in Deterministic => CriticalPath(p) = "recipe_dispatcher" /\ t.commands
           writer == open /\ MayWrite(p, t, env, action) /\ "implement" \notin env.quarantined
           readers == IF action = "write" THEN 5 ELSE 4
           n == IF open THEN Min({Budget(aggression, env.max), readers + IF writer THEN 1 ELSE 0}) ELSE 0
           w == IF writer /\ n > 0 THEN 1 ELSE 0
           r == [p EXCEPT !.stops = FALSE, !.tasks = n, !.writers = w]
<1>1. WithFanout(p, t, env, action) = r
  BY Zenon DEF WithFanout
<1>2. ~open => n = 0
  OBVIOUS
<1>3. open => ~t.gated
  BY DEF Gated
<1>4. writer => action = "write" /\ p.slug \notin ProtectedProjects
  BY DEF MayWrite, Gated, ProtectedWrite
<1>5. w \in {0, 1} /\ (w = 1 => writer /\ n > 0)
  OBVIOUS
<1> HIDE DEF open, writer, n, w
<1>6. Planlike(r) /\ r.slug = p.slug /\ r.tasks = n /\ r.writers = w
  <2>1. Planlike(p)
    BY DEF Bare
  <2> DEFINE never == FALSE
  <2>2. r = MannedWith(p, never, n, w)
    BY Zenon DEF MannedWith
  <2> HIDE DEF r, never
  <2> QED BY <2>1, <2>2, MannedParts
<1> HIDE DEF r
<1>7. n > 0 => ~q.gated
  BY <1>2, <1>3
<1> QED BY <1>1, <1>4, <1>5, <1>6, <1>7 DEF Manned

\* The scale depends on the number of sidecars through one sign, and on that
\* sign only when the goal acts.
Fanned(p, g, write, tasks) ==
    tasks >= 2 /\ (g.acts \/ g.handoff \/ write)
      /\ (g.verbs >= 2 \/ p.systems + g.systems >= 2 \/ g.planning \/ g.multi)
Acting(g, write) == g.acts \/ g.handoff \/ write
Signs(p, g, write) ==
    One(g.multi) + One(g.autonomy) + One(g.planning /\ Acting(g, write)) + One(g.handoff)
      + One(g.verbs >= 3) + One(p.systems + g.systems >= 3)
      + One(p.lane \in {"workflow", "recipe_dispatcher"} /\ Acting(g, write))
Graded(p, g, write, score) ==
    LET systems == p.systems + g.systems IN
    IF \/ score >= 3
       \/ Acting(g, write) /\ score >= 2 /\ (g.multi \/ g.handoff \/ (g.autonomy /\ g.planning))
       \/ g.autonomy /\ g.planning /\ systems >= 2
       \/ g.verbs >= 3 /\ g.multi /\ systems >= 2
    THEN 4
    ELSE IF Acting(g, write) THEN 3 ELSE g.inactive

\* The scale by its parts.
LEMMA ScaleParts ==
    ASSUME NEW p, NEW g, NEW write, NEW tasks
    PROVE  GoalScale(p, g, write, tasks) = Graded(p, g, write, Signs(p, g, write) + One(Fanned(p, g, write, tasks)))
BY Zenon DEF GoalScale, Graded, Signs, Fanned, Acting

\* What the sizes of a scale and of a number of writers mean.
LEMMA SizesMean ==
    /\ \A k \in {1, 3, 4} : (k <= 2) <=> (k = 1)
    /\ \A k \in {1, 3, 4} : (k >= 3) <=> (k # 1)
    /\ \A k \in {0, 1} : (k > 0) <=> (k = 1)
OBVIOUS

\* The scale with sidecars and the one without agree on what is small.
LEMMA ScaleFits ==
    ASSUME NEW p, NEW g, NEW write, NEW tasks, g.inactive \in {1, 3}
    PROVE  /\ GoalScale(p, g, write, tasks) \in {1, 3, 4} /\ GoalScale(p, g, write, 0) \in {1, 3, 4}
           /\ (GoalScale(p, g, write, 0) = 1) <=> (GoalScale(p, g, write, tasks) = 1)
           /\ write => GoalScale(p, g, write, tasks) # 1
<1>1. \A score : Graded(p, g, write, score) \in {3, 4, g.inactive}
  BY DEF Graded
<1>2. CASE Acting(g, write)
  <2>1. \A score : Graded(p, g, write, score) \in {3, 4}
    BY <1>2 DEF Graded
  <2> QED BY <2>1, ScaleParts
<1>3. CASE ~Acting(g, write)
  <2>1. One(Fanned(p, g, write, tasks)) = 0 /\ One(Fanned(p, g, write, 0)) = 0
    BY <1>3 DEF One, Fanned, Acting
  <2>2. GoalScale(p, g, write, tasks) = GoalScale(p, g, write, 0)
    BY <2>1, ScaleParts
  <2>3. ~write
    BY <1>3 DEF Acting
  <2> QED BY <1>1, <2>2, <2>3, ScaleParts
<1> QED BY <1>2, <1>3

\* A plan that gets its scale.
ScaledWith(p, scale, envelope, n, w) ==
    [p EXCEPT !.systems = 0, !.scale = scale, !.envelope = envelope, !.tasks = n, !.writers = w]
LEMMA ScaledParts ==
    ASSUME NEW p, Planlike(p), NEW scale, NEW envelope, NEW n, NEW w, NEW r,
           r = ScaledWith(p, scale, envelope, n, w)
    PROVE  /\ Planlike(r) /\ r.slug = p.slug /\ r.tasks = n /\ r.writers = w
           /\ r.scale = scale /\ r.envelope = envelope
<1>1. p = [branch |-> p.branch, slug |-> p.slug, lane |-> p.lane, stops |-> p.stops, systems |-> p.systems,
           tasks |-> p.tasks, writers |-> p.writers, envelope |-> p.envelope, scale |-> p.scale]
  BY DEF Planlike
<1>2. r = [branch |-> p.branch, slug |-> p.slug, lane |-> p.lane, stops |-> p.stops, systems |-> 0,
           tasks |-> n, writers |-> w, envelope |-> envelope, scale |-> scale]
  BY <1>1 DEF ScaledWith
<1> QED BY <1>2 DEF Planlike

\* A small goal gives up sidecars it did not ask for; one that writes is not small.
LEMMA FinalizeFits ==
    ASSUME NEW p, Manned(p, found), NEW g, g.inactive \in {1, 3}, NEW write, write = (found.action = "write")
    PROVE  Manned(Finalized(p, g, write), found) /\ Scaled(Finalized(p, g, write), found)
<1> DEFINE scale == GoalScale(p, g, write, p.tasks)
           envelope == GoalScale(p, g, write, 0)
           small == scale <= 2 /\ ~found.explicit
           n == IF small THEN 0 ELSE p.tasks
           w == IF small THEN 0 ELSE p.writers
           r == Finalized(p, g, write)
<1>1. r = ScaledWith(p, scale, envelope, n, w)
  BY Zenon DEF Finalized, ScaledWith
<1>2. /\ scale \in {1, 3, 4} /\ envelope \in {1, 3, 4} /\ (envelope = 1 <=> scale = 1)
      /\ write => scale # 1
  BY ScaleFits
<1> HIDE DEF scale, envelope, r
<1>3. /\ Planlike(p) /\ (p.tasks > 0 => ~found.gated) /\ p.writers \in {0, 1}
      /\ p.writers = 1 => found.action = "write" /\ p.slug \notin ProtectedProjects /\ p.tasks > 0
  BY DEF Manned
<1>4. /\ n > 0 => ~found.gated /\ (scale # 1 \/ found.explicit)
      /\ w \in {0, 1}
      /\ w = 1 => found.action = "write" /\ p.slug \notin ProtectedProjects /\ n > 0 /\ scale # 1
  <2>1. ~(0 > 0) /\ 0 # 1
    OBVIOUS
  <2>2. scale <= 2 <=> scale = 1
    BY <1>2, SizesMean, Zenon
  <2> HIDE DEF small
  <2>3. CASE small
    <3>1. n = 0 /\ w = 0
      BY <2>3
    <3> QED BY <2>1, <3>1
  <2>4. CASE ~small
    <3>1. n = p.tasks /\ w = p.writers
      BY <2>4
    <3>2. scale # 1 \/ found.explicit
      BY <2>2, <2>4, Zenon DEF small
    <3>3. w = 1 => scale # 1
      BY <1>2, <1>3, <3>1
    <3> QED BY <1>3, <3>1, <3>2, <3>3, Zenon
  <2> QED BY <2>3, <2>4
<1> HIDE DEF n, w
<1>5. /\ Planlike(r) /\ r.slug = p.slug /\ r.tasks = n /\ r.writers = w /\ r.scale = scale /\ r.envelope = envelope
  BY <1>1, <1>3, ScaledParts
<1> QED BY <1>2, <1>4, <1>5 DEF r, Manned, Scaled

\* It holds at the start.
LEMMA PlanInitHolds == PlanInit => PlanInv
BY DEF PlanInit, PlanInv

\* The invariant is inductive.
LEMMA PlanStep == PlanInv /\ [PlanNext]_planVars => PlanInv'
<1> SUFFICES ASSUME PlanInv, [PlanNext]_planVars PROVE PlanInv'
  OBVIOUS
<1>1. CASE Collect
  <2>1. planAt' = "collected" /\ CollectedFits(found')
    BY <1>1, CollectFits
  <2>2. CollectedFits(found)'
    BY <2>1 DEF CollectedFits
  <2> QED BY <2>1, <2>2 DEF PlanInv
<1>2. CASE Route
  <2>1. planAt' = "routed" /\ Bare(legacy') /\ Bare(shadow')
    BY <1>2, RouteFits
  <2>2. Bare(legacy)' /\ Bare(shadow)'
    BY <2>1 DEF Bare, Planlike
  <2> QED BY <2>1, <2>2 DEF PlanInv
<1>3. CASE Fanout
  <2>1. PICK t \in TextFeatures, env \in EnvFeatures :
          /\ legacy' = WithFanout(legacy, t, env, found.action)
          /\ shadow' = WithFanout(shadow, t, env, found.action)
          /\ found' = [intent |-> found.intent, action |-> found.action,
                       gated |-> t.gated, explicit |-> env.override # "none"]
    BY <1>3 DEF Fanout
  <2>2. found'.gated = t.gated /\ found'.action = found.action /\ t.gated \in BOOLEAN
    BY <2>1 DEF TextFeatures
  <2>3. planAt' = "planned" /\ Bare(legacy) /\ Bare(shadow)
    BY <1>3 DEF Fanout, PlanInv
  <2>4. Manned(legacy', found') /\ Manned(shadow', found')
    BY <2>1, <2>2, <2>3, FanoutFits
  <2>5. Manned(legacy, found)' /\ Manned(shadow, found)'
    BY <2>4 DEF Manned, Planlike
  <2> QED BY <2>3, <2>5 DEF PlanInv
<1>4. CASE Finalize
  <2>1. /\ planAt = "planned" /\ planAt' = "finalized" /\ found' = found
        /\ Manned(legacy, found) /\ Manned(shadow, found)
    BY <1>4 DEF Finalize, PlanInv
  <2> DEFINE write == found.action = "write"
  <2>2. PICK g \in GoalFeatures : legacy' = Finalized(legacy, g, write) /\ shadow' = Finalized(shadow, g, write)
    BY <1>4 DEF Finalize
  <2>3. g.inactive \in {1, 3}
    BY DEF GoalFeatures
  <2>4. /\ Manned(legacy', found) /\ Manned(shadow', found) /\ Scaled(legacy', found) /\ Scaled(shadow', found)
    BY <2>1, <2>2, <2>3, FinalizeFits
  <2>5. /\ Manned(legacy, found)' /\ Manned(shadow, found)' /\ Scaled(legacy, found)' /\ Scaled(shadow, found)'
    BY <2>1, <2>4 DEF Manned, Scaled, Planlike
  <2> QED BY <2>1, <2>5 DEF PlanInv
<1>5. CASE Authorize
  <2>1. /\ planAt = "finalized" /\ planAt' = "done" /\ found' = found /\ legacy' = legacy /\ shadow' = shadow
        /\ Manned(legacy, found) /\ Manned(shadow, found) /\ Scaled(legacy, found) /\ Scaled(shadow, found)
    BY <1>5 DEF Authorize, PlanInv
  <2>2. chosen' = "legacy" \/ found.action = "read"
    BY <1>5 DEF Authorize, SafeAuthoritative
  <2>3. /\ Manned(legacy, found)' /\ Manned(shadow, found)' /\ Scaled(legacy, found)' /\ Scaled(shadow, found)'
    BY <2>1 DEF Manned, Scaled, Planlike
  <2> QED BY <2>1, <2>2, <2>3 DEF PlanInv
<1>6. CASE UNCHANGED planVars
  BY <1>6 DEF planVars, PlanInv, CollectedFits, Bare, Manned, Scaled, Planlike
<1> QED BY <1>1, <1>2, <1>3, <1>4, <1>5, <1>6 DEF PlanNext

\* Nobody but Route leaves what was collected.
LEMMA OwnersHeeded == PlanInv /\ [PlanNext]_planVars => [OwnershipIsRespected]_planVars
<1> SUFFICES ASSUME PlanInv, PlanNext PROVE OwnershipIsRespected
  BY DEF planVars
<1>1. CASE Route
  BY <1>1, RouteFits
<1>2. CASE planAt # "collected"
  BY <1>2 DEF OwnershipIsRespected
<1> QED BY <1>1, <1>2 DEF PlanNext, Collect, Fanout, Finalize, Authorize

\* What is returned is safe.
LEMMA PlanInvHolds == PlanInv => FanoutIsSafe
<1> SUFFICES ASSUME PlanInv, planAt = "done", NEW p \in {legacy, shadow}
             PROVE  /\ p.tasks > 0 => ~found.gated /\ (p.scale >= 3 \/ found.explicit)
                    /\ p.writers > 0 =>
                         /\ found.action = "write" /\ p.slug \notin ProtectedProjects
                         /\ p.tasks > 0 /\ p.scale >= 3 /\ chosen = "legacy"
                    /\ p.envelope >= 3 <=> p.scale >= 3
  BY DEF FanoutIsSafe
<1>1. Manned(p, found) /\ Scaled(p, found) /\ (chosen = "legacy" \/ found.action = "read")
  BY DEF PlanInv
<1>2. /\ p.scale \in {1, 3, 4} /\ p.envelope \in {1, 3, 4} /\ (p.envelope = 1 <=> p.scale = 1)
      /\ p.writers \in {0, 1}
  BY <1>1 DEF Manned, Scaled
<1>3. (p.writers > 0 <=> p.writers = 1) /\ (p.scale >= 3 <=> p.scale # 1) /\ (p.envelope >= 3 <=> p.scale >= 3)
  BY <1>2, SizesMean, Zenon
<1>4. p.tasks > 0 => ~found.gated /\ (p.scale # 1 \/ found.explicit)
  BY <1>1, Zenon DEF Manned, Scaled
<1>5. p.writers = 1 => /\ found.action = "write" /\ p.slug \notin ProtectedProjects
                       /\ p.tasks > 0 /\ p.scale # 1 /\ chosen = "legacy"
  BY <1>1, Zenon DEF Manned, Scaled
<1> QED BY <1>3, <1>4, <1>5, Zenon

\* For any projects and features of prompt, environment and goal: a project
\* that is named is not passed over by either planner, and sidecars, writers and
\* the authority to write are handed out as the gates, the scale and the stage
\* allow (workspace-context.js).
THEOREM PlansAreAlwaysSafe == PlanSpec => PlansAreSafe
BY PlanInitHolds, PlanStep, OwnersHeeded, PlanInvHolds, PTL DEF PlanSpec, PlansAreSafe
=============================================================================
