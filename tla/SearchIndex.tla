----------------------------- MODULE SearchIndex -----------------------------
(***************************************************************************)
(* How a root of the local search is indexed and asked                     *)
(* (src/packages/local-search/index.js, staging.js, catalogue.js,          *)
(* hydration.js, metadata-refresh.js, search.js, indexed-search.js).       *)
(*                                                                         *)
(* A pass observes the files, stages the text of each, lists what it       *)
(* staged, has the engine take it over and embed it, looks at the files    *)
(* again and only then vouches for them in the catalogue.  The catalogue,  *)
(* the staged files, their list and the engine's store are four places; a  *)
(* pass may die or fail between any two writes, files change all the time, *)
(* and queries read the four one after the other without the mutex that    *)
(* passes and sweeps of the metadata hold.  A content is a number, a hash  *)
(* its content, a staged file the pair of its source and its content.      *)
(***************************************************************************)
EXTENDS Naturals, FiniteSets

CONSTANTS
    Indexable,  \* files of the root whose content may be indexed
    Parsed,     \* those that a parser has to turn into text
    MaxStamp,   \* changes of files
    MaxPasses   \* passes and sweeps

ASSUME IndexAssumption == Parsed \subseteq Indexable /\ MaxStamp \in Nat /\ MaxPasses \in Nat

VARIABLES
    disk,       \* per file: whether it can be read, its content, its time stamp
    catalogue,  \* per file what is known of it, and what the index is vouched for
    staging,    \* the staged files
    listing,    \* staging-manifest.json: the staged files and their revision
    engine,     \* what the engine holds: as text, and with an embedding
    indexing,   \* the holder of the mutex
    query       \* a query

indexVars == <<disk, catalogue, staging, listing, engine, indexing, query>>

Contents == 0..(MaxStamp + 1)
Texts == Indexable \X Contents
FileStates == [state : {"there", "hidden", "gone"}, content : Contents, stamp : 0..MaxStamp]
\* What a read of a file returns: 0 where it is gone or refused.
Reads(f) == IF disk[f].state = "there" THEN disk[f].content ELSE 0

\* A catalogue: the records, the revision the index was vouched for ({} for
\* none), semanticPending, and whether a reason for degradation is noted.
Unknown == [known |-> FALSE, indexed |-> 0, mark |-> 0]
NoListing == [revision |-> {}, files |-> {}]
NoCatalogue == [record |-> [f \in Indexable |-> Unknown], revision |-> {}, pending |-> FALSE, degraded |-> FALSE]
Troubled(c) == [c EXCEPT !.pending = TRUE, !.degraded = TRUE]

Unseen == [state |-> "gone", content |-> 0, stamp |-> 0]
NoIndexing == [at |-> "idle", copy |-> NoCatalogue, left |-> {}, seen |-> [f \in Indexable |-> Unseen],
               hydrated |-> {}, picked |-> {}, placed |-> {}, revision |-> {}, outdated |-> {},
               skipped |-> FALSE, begun |-> 0]
NoQuery == [at |-> "idle", mode |-> "live", file |-> {}, listing |-> NoListing,
            book |-> [indexed |-> 0, revision |-> {}], saw |-> Unseen, hit |-> 0]

\* Nothing was indexed yet, or an earlier pass has indexed what could be read.
SearchIndexInit ==
    /\ disk \in [Indexable -> [state : {"there", "hidden"}, content : {1}, stamp : {0}]]
    /\ \E earlier \in BOOLEAN :
         LET all == IF earlier THEN {<<f, 1>> : f \in {g \in Indexable : Reads(g) # 0}} ELSE {}
             revision == IF earlier THEN {{<<t[1], 1, t[1] \in Parsed>> : t \in all}} ELSE {}
         IN /\ staging = all /\ engine = [words |-> all, vectors |-> all]
            /\ listing = [revision |-> revision, files |-> all]
            /\ catalogue = [NoCatalogue EXCEPT !.revision = revision,
                 !.record = [f \in Indexable |-> [known |-> earlier, mark |-> 0,
                                                indexed |-> IF <<f, 1>> \in all THEN 1 ELSE 0]]]
    /\ indexing = NoIndexing /\ query = NoQuery

Finished == [NoIndexing EXCEPT !.begun = indexing.begun]
InPass == UNCHANGED <<disk, query>>

----------------------------------------------------------------------------
(* A pass.  The mutex is a transaction of a database: it ends with its     *)
(* holder.                                                                 *)

Begin(at) ==
    /\ indexing.at = "idle" /\ indexing.begun < MaxPasses
    /\ indexing' = [NoIndexing EXCEPT !.at = at, !.copy = catalogue, !.left = Indexable, !.begun = indexing.begun + 1]
    /\ UNCHANGED <<catalogue, staging, listing, engine>> /\ InPass

\* One file of reconcile: a file that is still there keeps what was vouched for.
Observe ==
    /\ indexing.at = "observing"
    /\ \E f \in indexing.left :
         indexing' = [indexing EXCEPT !.seen[f] = disk[f],
             !.at = IF indexing.left = {f} THEN "hydrating" ELSE @,
             !.left = IF indexing.left = {f} THEN Parsed ELSE @ \ {f},
             !.copy.record[f] = IF disk[f].state = "gone" THEN @
                                ELSE [known |-> TRUE, indexed |-> @.indexed, mark |-> disk[f].stamp]]
    /\ UNCHANGED <<catalogue, staging, listing, engine>> /\ InPass

\* One document of hydrateRecords: parsed, wholly or in part, and unchanged
\* since it was observed, or left out.
Hydrate ==
    /\ indexing.at = "hydrating"
    /\ \E f \in indexing.left, whole \in BOOLEAN :
         \/ /\ Reads(f) # 0 /\ indexing.seen[f].state \in {"hidden", disk[f].state}
            /\ indexing.seen[f].state = "there" => disk[f] = indexing.seen[f]
            /\ indexing' = [indexing EXCEPT !.left = @ \ {f}, !.seen[f] = disk[f], !.hydrated = @ \cup {f},
                                    !.skipped = @ \/ ~whole]
         \/ indexing' = [indexing EXCEPT !.left = @ \ {f}, !.skipped = @ \/ indexing.seen[f].state # "gone"]
    /\ UNCHANGED <<catalogue, staging, listing, engine>> /\ InPass

\* contentRevision: the contents, and whether they are those of parsed text.
Revision(seen, parsed) ==
    {{<<f, seen[f].content, f \in parsed>> : f \in {g \in Indexable : seen[g].state = "there"}}}

\* The catalogue after a complete discovery: files that are gone leave it.
Complete == [indexing.copy EXCEPT !.record =
    [f \in Indexable |-> IF indexing.seen[f].state = "gone" THEN Unknown ELSE indexing.copy.record[f]]]
AllObserved == indexing.at = "hydrating" /\ indexing.left = {}

\* partialDiscovery, or an engine that cannot be used.
StopsEarly ==
    /\ \/ indexing.at \in {"observing", "hydrating"} /\ catalogue' = Troubled(indexing.copy)
       \/ AllObserved /\ catalogue' = Troubled(Complete)
    /\ indexing' = Finished /\ UNCHANGED <<staging, listing, engine>> /\ InPass

Current == indexing.copy.revision = Revision(indexing.seen, indexing.hydrated) /\ ~indexing.copy.pending

Unchanged ==
    /\ AllObserved /\ Current
    /\ catalogue' = [Complete EXCEPT !.degraded = FALSE]
    /\ indexing' = Finished /\ UNCHANGED <<staging, listing, engine>> /\ InPass

ToStage == indexing' = [indexing EXCEPT !.at = "collecting", !.copy = [Complete EXCEPT !.pending = TRUE],
                                !.left = Indexable, !.revision = Revision(indexing.seen, indexing.hydrated)]

\* What the index holds is no longer vouched for once the staging starts.
MarkPending ==
    /\ AllObserved /\ ~Current /\ ToStage
    /\ catalogue' = [Complete EXCEPT !.pending = TRUE]
    /\ UNCHANGED <<staging, listing, engine>> /\ InPass

\* currentStageContent: a text as it is now, a document if it is as it was parsed.
Stageable(f) ==
    /\ Reads(f) # 0
    /\ f \in Parsed => f \in indexing.hydrated /\ disk[f] = indexing.seen[f]

\* The first loop of stage.
CollectTexts ==
    /\ indexing.at = "collecting"
    /\ \E f \in indexing.left :
         LET takes == indexing.copy.record[f].known /\ Stageable(f) IN
         indexing' = [indexing EXCEPT !.left = @ \ {f},
             !.seen[f] = IF takes THEN disk[f] ELSE @,
             !.picked = IF takes THEN @ \cup {f} ELSE @,
             !.skipped = @ \/ (indexing.copy.record[f].known /\ ~takes)]
    /\ UNCHANGED <<catalogue, staging, listing, engine>> /\ InPass

\* Reservation and storage may refuse; the earlier files are removed one by one.
Clear ==
    /\ indexing.at = "collecting" /\ indexing.left = {}
    /\ \/ indexing' = [indexing EXCEPT !.at = "failing"] /\ UNCHANGED staging
       \/ \E t \in staging : staging' = staging \ {t} /\ UNCHANGED indexing
       \/ staging = {} /\ indexing' = [indexing EXCEPT !.at = "placing"] /\ UNCHANGED staging
    /\ UNCHANGED <<catalogue, listing, engine>> /\ InPass

Content(f) == <<f, indexing.seen[f].content>>

\* The second loop: each file once more, which must be the one collected.
Place ==
    /\ indexing.at = "placing"
    /\ \E f \in indexing.picked :
         IF disk[f] = indexing.seen[f] /\ f \notin indexing.outdated
         THEN /\ staging' = staging \cup {Content(f)}
              /\ indexing' = [indexing EXCEPT !.picked = @ \ {f}, !.placed = @ \cup {f}]
         ELSE /\ indexing' = [indexing EXCEPT !.picked = @ \ {f}, !.skipped = TRUE]
              /\ UNCHANGED staging
    /\ UNCHANGED <<catalogue, listing, engine>> /\ InPass

\* admissionIsCurrent of all, or everything staged is taken back, as far as
\* the files can be removed.
ConfirmAdmission ==
    /\ indexing.at = "placing" /\ indexing.picked = {}
    /\ \/ /\ indexing.placed \cap indexing.outdated = {}
          /\ indexing' = [indexing EXCEPT !.at = "listing"] /\ UNCHANGED staging
       \/ /\ indexing.placed \cap indexing.outdated # {}
          /\ staging' \in SUBSET staging
          /\ indexing' = [indexing EXCEPT !.at = IF staging' = {} THEN "listing" ELSE "delisting",
                                  !.placed = {}, !.skipped = TRUE]
    /\ UNCHANGED <<catalogue, listing, engine>> /\ InPass

\* publishManifests.
PublishList ==
    /\ indexing.at \in {"listing", "delisting"}
    /\ listing' = [revision |-> indexing.revision, files |-> {Content(f) : f \in indexing.placed}]
    /\ indexing' = [indexing EXCEPT !.at = IF indexing.at = "listing" THEN "updating" ELSE "failing"]
    /\ UNCHANGED <<catalogue, staging, engine>> /\ InPass

\* The engine takes over the staged files, then embeds them; it may fail in
\* between, its model may be missing, memory short, or its store not close.
UpdateEngine ==
    /\ indexing.at = "updating"
    /\ \/ engine' = [engine EXCEPT !.words = staging] /\ indexing' = [indexing EXCEPT !.at = "embedding"]
       \/ \E some \in SUBSET (engine.words \cup staging) :
            engine' = [engine EXCEPT !.words = some] /\ indexing' = [indexing EXCEPT !.at = "failing"]
    /\ UNCHANGED <<catalogue, staging, listing>> /\ InPass

Embed ==
    /\ indexing.at = "embedding"
    /\ \/ engine' = [engine EXCEPT !.vectors = engine.words] /\ indexing' = [indexing EXCEPT !.at = "checking"]
       \/ \E some \in SUBSET engine.words :
            engine' = [engine EXCEPT !.vectors = some] /\ indexing' = [indexing EXCEPT !.at = "failing"]
    /\ UNCHANGED <<catalogue, staging, listing>> /\ InPass

\* A failure after the staging began is published, and nothing is vouched for.
PublishFailure ==
    /\ indexing.at = "failing"
    /\ catalogue' = Troubled(indexing.copy)
    /\ indexing' = Finished /\ UNCHANGED <<staging, listing, engine>> /\ InPass

\* Each staged file must still be the one staged; a parser may fail now.
RecheckSources ==
    /\ indexing.at = "checking"
    /\ \E f \in indexing.placed \ indexing.picked :
         \/ disk[f] = indexing.seen[f] /\ indexing' = [indexing EXCEPT !.picked = @ \cup {f}]
         \/ (disk[f] # indexing.seen[f] \/ f \in Parsed) /\ indexing' = [indexing EXCEPT !.at = "failing"]
    /\ UNCHANGED <<catalogue, staging, listing, engine>> /\ InPass

PublishIndexed ==
    /\ indexing.at = "checking" /\ indexing.picked = indexing.placed
    /\ catalogue' = [indexing.copy EXCEPT
         !.record = [f \in Indexable |-> IF f \in indexing.placed
                                       THEN [indexing.copy.record[f] EXCEPT !.indexed = indexing.seen[f].content]
                                       ELSE indexing.copy.record[f]],
         !.revision = indexing.revision, !.pending = indexing.skipped, !.degraded = indexing.skipped]
    /\ indexing' = Finished /\ UNCHANGED <<staging, listing, engine>> /\ InPass

\* A pass that throws or dies leaves every place as it is.
DiePass ==
    /\ indexing.at # "idle" /\ indexing' = Finished
    /\ UNCHANGED <<catalogue, staging, listing, engine>> /\ InPass

----------------------------------------------------------------------------
(* A slice of the sweep of the metadata (refreshMetadata).                 *)

\* Changed form of Sweep: a file vouched for no longer does not ask for a pass.
Sweep_Quiet ==
    /\ indexing.at = "sweeping"
    /\ \E f \in indexing.left :
         indexing' = [indexing EXCEPT !.left = @ \ {f},
             !.copy.record[f] = IF disk[f].state = "gone" THEN Unknown
                                ELSE IF @.known /\ @.mark = disk[f].stamp THEN @
                                ELSE [known |-> TRUE, indexed |-> 0, mark |-> disk[f].stamp]]
    /\ UNCHANGED <<catalogue, staging, listing, engine>> /\ InPass

\* recordFor: a file with another time stamp is no longer vouched for; and
\* processDeletions: one that is gone leaves the catalogue.
Sweep ==
    /\ indexing.at = "sweeping"
    /\ \E f \in indexing.left :
         LET now == IF disk[f].state = "gone" THEN Unknown
                    ELSE IF indexing.copy.record[f].known /\ indexing.copy.record[f].mark = disk[f].stamp
                    THEN indexing.copy.record[f]
                    ELSE [known |-> TRUE, indexed |-> 0, mark |-> disk[f].stamp]
         IN indexing' = [indexing EXCEPT !.left = @ \ {f}, !.copy.record[f] = now,
                                 !.copy.pending = @ \/ now # indexing.copy.record[f]]
    /\ UNCHANGED <<catalogue, staging, listing, engine>> /\ InPass

PublishSweep ==
    /\ indexing.at = "sweeping"
    /\ catalogue' = indexing.copy
    /\ indexing' = Finished /\ UNCHANGED <<staging, listing, engine>> /\ InPass

----------------------------------------------------------------------------
(* A query.                                                                *)

Asking == UNCHANGED <<disk, catalogue, staging, listing, engine, indexing>>

\* loadManifests comes first, whatever the mode.
Ask ==
    /\ query.at = "idle"
    /\ \E mode \in {"live", "indexed"}, f \in Indexable :
         query' = [query EXCEPT !.at = "asked", !.mode = mode, !.file = {f}, !.listing = listing]
    /\ Asking

\* A degraded catalogue does not serve the mode that reads no files.
LoadBook ==
    /\ query.at = "asked"
    /\ \E f \in query.file :
         query' = IF query.mode = "indexed" /\ catalogue.degraded THEN NoQuery
                  ELSE [query EXCEPT !.at = "loaded",
                          !.book = [indexed |-> catalogue.record[f].indexed, revision |-> catalogue.revision]]
    /\ Asking

\* Retrieval: the live mode has read the files by then, the other reads afterwards.
Retrieve ==
    /\ query.at = "loaded"
    /\ \E f \in query.file, c \in Contents :
         /\ <<f, c>> \in engine.words \cup (IF query.mode = "live" THEN engine.vectors ELSE {})
         /\ query' = [query EXCEPT !.at = "found", !.hit = c,
                                   !.saw = IF query.mode = "live" THEN disk[f] ELSE @]
    /\ Asking

\* What the list, the catalogue and the file say of a hit.
Matches(f, saw) ==
    /\ <<f, query.hit>> \in query.listing.files
    /\ query.book.indexed = query.hit
    /\ saw.state = "there" /\ saw.content = query.hit

\* sdkRank compares with what reconcile has read.
BoundLive(f) == query.mode = "live" /\ Matches(f, query.saw)
\* boundManifest and currentCandidate: texts only, of the revision vouched for.
BoundIndexed(f) ==
    /\ query.mode = "indexed" /\ Matches(f, disk[f])
    /\ f \notin Parsed /\ query.listing.revision = query.book.revision

\* emitPacket: a hit that is not bound to its source, or whose file is
\* another by the time it is opened again, is dropped.
Emit ==
    /\ query.at = "found"
    /\ \E f \in query.file :
         query' = IF BoundIndexed(f) \/ (BoundLive(f) /\ disk[f] = query.saw)
                  THEN [query EXCEPT !.at = "emitted", !.saw = disk[f]] ELSE NoQuery
    /\ Asking

----------------------------------------------------------------------------
(* Others change files: new content, or only the time stamp; readable or   *)
(* not; and the admission of the root is refreshed.                        *)

Alter ==
    /\ Cardinality({m \in Indexable \X (1..MaxStamp) : m[2] <= disk[m[1]].stamp}) < MaxStamp
    /\ \E f \in Indexable, s \in {"there", "hidden", "gone"}, fresh \in BOOLEAN :
         /\ disk[f].stamp < MaxStamp
         /\ disk' = [disk EXCEPT ![f] = [state |-> s, stamp |-> @.stamp + 1,
                                         content |-> IF fresh THEN @.stamp + 2 ELSE @.content]]
    /\ UNCHANGED <<catalogue, staging, listing, engine, indexing, query>>

\* The admission manifest is of another generation: what a pass has
\* collected was admitted by an earlier one.
Readmit ==
    /\ indexing.at \in {"collecting", "placing"}
    /\ indexing' = [indexing EXCEPT !.outdated = indexing.picked \cup indexing.placed]
    /\ UNCHANGED <<disk, catalogue, staging, listing, engine, query>>

SearchIndexNext ==
    \/ Alter \/ Readmit
    \/ Begin("observing") \/ Observe \/ Hydrate \/ StopsEarly \/ Unchanged \/ MarkPending
    \/ CollectTexts \/ Clear \/ Place \/ ConfirmAdmission \/ PublishList \/ UpdateEngine \/ Embed
    \/ PublishFailure \/ RecheckSources \/ PublishIndexed \/ DiePass
    \/ Begin("sweeping") \/ Sweep \/ PublishSweep
    \/ Ask \/ LoadBook \/ Retrieve \/ Emit

SearchIndexSpec == SearchIndexInit /\ [][SearchIndexNext]_indexVars

----------------------------------------------------------------------------

SearchIndexTypeOK ==
    /\ disk \in [Indexable -> FileStates]
    /\ staging \subseteq Texts /\ listing.files \subseteq Texts
    /\ engine \in [words : SUBSET Texts, vectors : SUBSET Texts]
    /\ catalogue.record \in [Indexable -> [known : BOOLEAN, indexed : Contents, mark : 0..MaxStamp]]
    /\ indexing.begun \in 0..MaxPasses

\* While the catalogue says that nothing is pending, the staged files, their
\* list, the text and the embeddings of the engine are the same, hold every
\* content vouched for and no other content of a file that is vouched for.
\* (They may hold a file that is vouched for no longer: one that could not be
\* read when the pass observed it, and could when it staged it, is not in the
\* revision, so that a pass after it is gone finds the revision unchanged.)
VouchesForAll ==
    catalogue.revision # {} /\ ~catalogue.pending =>
        /\ staging = listing.files /\ listing.files = engine.words /\ engine.words = engine.vectors
        /\ \A f \in Indexable : catalogue.record[f].indexed # 0 =>
              \A c \in Contents : <<f, c>> \in staging <=> c = catalogue.record[f].indexed

\* A pass that would find the revision unchanged now would be right to: what
\* can be read is what is vouched for.
UnchangedIsRight ==
    catalogue.revision = Revision(disk, Parsed) /\ ~catalogue.pending =>
        \A f \in Indexable : Reads(f) # 0 => catalogue.record[f].indexed = Reads(f)

\* A hit that is shown was found by the very content that is shown.
ShownAsFound == query.at = "emitted" => query.hit = query.saw.content

\* The index is what the catalogue says of it, through passes, sweeps and
\* queries that interleave, fail and die (index.js performIndex).
IndexHolds == SearchIndexTypeOK /\ VouchesForAll /\ UnchangedIsRight /\ ShownAsFound
=============================================================================
