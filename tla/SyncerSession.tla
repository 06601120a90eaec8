---------------------------- MODULE SyncerSession ----------------------------
(***************************************************************************)
(* SyncerSession (storage/mongodb/syncer.go): the temporary databases a    *)
(* syncing node fills with fetched manifests and blocks before Commit      *)
(* moves them, collection by collection and in batches, into the main     *)
(* database and only then sets the main database's last block.            *)
(*                                                                         *)
(* A database is abstracted to the heights of its documents per           *)
(* collection and its cached last manifest/block. The Database methods     *)
(* (Client.Bulk, Find, setLastManifest, setLastBlock, NewSession,          *)
(* DropDatabase) are outside the sampled sources and are taken by what     *)
(* their names and uses say. The syncer calling the session is also       *)
(* outside them: it calls SetManifests and SetBlocks with runs of          *)
(* consecutive heights it has not stored yet, in any order, and Commit     *)
(* once every height has its block; after an error it may retry, close or *)
(* start over; the process may crash at any step.                          *)
(***************************************************************************)
EXTENDS Integers, FiniteSets, SequencesExt

CONSTANTS
    Cols,      \* the collections Commit moves, in its order
    Base,      \* the main database's last block when syncing starts
    Top,       \* the highest height the syncer fetches
    Limit,     \* moveWithinCol's batch size (100 in the code)
    Failures,  \* whether a database write may fail
    Crashes    \* whether the process may crash and restart

CONSTANT
    MaxSessions \* bound on the SyncerSessions the syncer opens one after another

ASSUME /\ Len(Cols) > 0
       /\ Base \in Nat /\ Top \in Nat /\ Base < Top
       /\ Limit \in Nat \ {0} /\ Failures \in BOOLEAN /\ Crashes \in BOOLEAN
       /\ MaxSessions \in Nat \ {0}

NilHeight == -1
ColSet == ToSet(Cols)

VARIABLES
    mainDocs,   \* per collection of the main database: its documents <<height, session>>
    mainLast,   \* the main database's last block (setLastBlock)
    mdb,        \* manifestDatabase: heights of its manifests
    mdbLast,    \* manifestDatabase's last manifest (setLastManifest)
    sess,       \* per collection of the session database: heights of documents
    sessLast,   \* the session database's last block (setLastBlock)
    base,       \* main's last block when the session was created
    epoch,      \* which session this is (0 wrote the main database's first blocks)
    pc,         \* "idle", "blocks", "moving", "committed", "closed", "crashed"
    pending,    \* SetBlocks: heights of the call not stored yet
    lastBlock,  \* SetBlocks: the highest block of the call stored so far
    ci,         \* Commit: index in Cols of the collection being moved
    cursor,     \* moveWithinCol: documents Find has not returned yet
    models      \* moveWithinCol: documents buffered for the next Bulk

vars == <<mainDocs, mainLast, mdb, mdbLast, sess, sessLast, base, epoch, pc,
          pending, lastBlock, ci, cursor, models>>

\* The heights this session syncs, and the runs of them a call may carry.
Want == base + 1 .. Top
Runs == {a .. b : a \in Want, b \in Want} \ {{}}

NoDocs == [c \in ColSet |-> {}]

\* The documents of a session with the given heights: a document keeps the
\* _id the session gave it when moveWithinCol copies it raw.
Docs(hs) == {<<h, epoch>> : h \in hs}
Heights(ds) == {d[1] : d \in ds}

\* Variables a step of the session database or of Commit leaves alone.
meta == <<mdb, mdbLast, base, epoch>>

-----------------------------------------------------------------------------
(* to.Client().Bulk(col, models, false) into the main database. An         *)
(* unordered BulkWrite tries every insert; it fails when one does (a       *)
(* document whose _id is already there, or the database erring on any     *)
(* part of them), after doing the others it could.                         *)

Bulk(c, hs, ok) ==
    LET new == Docs(hs) \ mainDocs[c] IN
    \/ /\ ok
       /\ new = Docs(hs)
       /\ mainDocs' = [mainDocs EXCEPT ![c] = @ \cup new]
    \/ /\ ~ok
       /\ new # Docs(hs)
       /\ mainDocs' = [mainDocs EXCEPT ![c] = @ \cup new]
    \/ /\ ~ok
       /\ Failures
       /\ \E done \in SUBSET new : done # new
            /\ mainDocs' = [mainDocs EXCEPT ![c] = @ \cup done]

-----------------------------------------------------------------------------
(* SetManifests (76-125).                                                  *)

\* Under st.Lock: one ordered Bulk of the manifests into manifestDatabase,
\* then setLastManifest with the highest of them. An ordered Bulk stops at
\* the first failing insert, leaving the manifests before it; an encoding
\* error returns before the Bulk.
SetManifests ==
    /\ pc = "idle"
    /\ \E run \in Runs :
         /\ run \cap mdb = {}
         /\ \/ /\ mdb' = mdb \cup run
               /\ mdbLast' = Max(run)
            \/ /\ Failures
               /\ \E k \in run : mdb' = mdb \cup (Min(run) .. k - 1)
               /\ UNCHANGED mdbLast
    /\ UNCHANGED <<mainDocs, mainLast, sess, sessLast, base, epoch, pc, pending,
                   lastBlock, ci, cursor, models>>

-----------------------------------------------------------------------------
(* SetBlocks (131-170) with setBlock (172-191). The blocks come from the   *)
(* syncer lowest first; the len and CompareManifestWithMap checks fail     *)
(* before anything is written and are left out.                           *)

SetBlocksStart ==
    /\ pc = "idle"
    /\ \E run \in Runs :
         /\ run \cap sess[Cols[1]] = {}
         /\ pending' = run
    /\ pc' = "blocks"
    /\ lastBlock' = NilHeight
    /\ UNCHANGED <<mainDocs, mainLast, sess, sessLast, ci, cursor, models>>
    /\ UNCHANGED meta

\* setBlock: a block session writes the block's documents of every
\* collection and commits them; an error returns from SetBlocks before
\* setLastBlock. Then lastBlock keeps the highest block so far.
SetBlock ==
    LET h == Min(pending) IN
    /\ pc = "blocks"
    /\ pending # {}
    /\ \/ /\ sess' = [c \in ColSet |-> sess[c] \cup {h}]
          /\ pending' = pending \ {h}
          /\ lastBlock' = IF lastBlock = NilHeight \/ h > lastBlock THEN h ELSE lastBlock
          /\ UNCHANGED pc
       \/ /\ Failures
          /\ pc' = "idle"
          /\ pending' = {}
          /\ UNCHANGED <<sess, lastBlock>>
    /\ UNCHANGED <<mainDocs, mainLast, sessLast, ci, cursor, models>>
    /\ UNCHANGED meta

\* st.session.setLastBlock(lastBlock): the highest block of this call,
\* whatever the calls before it stored.
SetBlocksEnd ==
    /\ pc = "blocks"
    /\ pending = {}
    /\ sessLast' = lastBlock
    /\ pc' = "idle"
    /\ UNCHANGED <<mainDocs, mainLast, sess, pending, lastBlock, ci, cursor,
                   models>>
    /\ UNCHANGED meta

-----------------------------------------------------------------------------
(* Commit (193-227) with moveWithinCol (254-282).                          *)

\* Mutant: the main database's last block is set before the moves.
CommitStartSetLastFirst ==
    /\ pc = "idle"
    /\ Want \subseteq sess[Cols[1]]
    /\ sessLast # NilHeight
    /\ pc' = "moving"
    /\ ci' = 1
    /\ cursor' = sess[Cols[1]]
    /\ models' = {}
    /\ mainLast' = sessLast
    /\ UNCHANGED <<mainDocs, sess, sessLast, pending, lastBlock>>
    /\ UNCHANGED meta

\* The syncer commits once every height has its block. The session's last
\* manifest is read (not found: an error, nothing done), then the first
\* collection's Find starts.
CommitStart ==
    /\ pc = "idle"
    /\ Want \subseteq sess[Cols[1]]
    /\ sessLast # NilHeight
    /\ pc' = "moving"
    /\ ci' = 1
    /\ cursor' = sess[Cols[1]]
    /\ models' = {}
    /\ UNCHANGED <<mainDocs, mainLast, sess, sessLast, pending, lastBlock>>
    /\ UNCHANGED meta

\* Mutant: the batch is flushed only once it holds more than limit documents.
MoveDocPastLimit ==
    /\ pc = "moving"
    /\ \E h \in cursor :
         /\ cursor' = cursor \ {h}
         /\ IF Cardinality(models) > Limit
              THEN \/ /\ Bulk(Cols[ci], models, TRUE)
                      /\ models' = {h}
                      /\ UNCHANGED pc
                   \/ /\ Bulk(Cols[ci], models, FALSE)
                      /\ models' = {}
                      /\ pc' = "idle"
              ELSE /\ models' = models \cup {h}
                   /\ UNCHANGED <<mainDocs, pc>>
    /\ UNCHANGED <<mainLast, sess, sessLast, pending, lastBlock, ci>>
    /\ UNCHANGED meta

\* Find's callback for one document: when models holds limit documents
\* they are bulk-inserted first; then the document is appended. A failed
\* Bulk stops Find, and Commit returns its error.
MoveDoc ==
    /\ pc = "moving"
    /\ \E h \in cursor :
         /\ cursor' = cursor \ {h}
         /\ IF Cardinality(models) = Limit
              THEN \/ /\ Bulk(Cols[ci], models, TRUE)
                      /\ models' = {h}
                      /\ UNCHANGED pc
                   \/ /\ Bulk(Cols[ci], models, FALSE)
                      /\ models' = {}
                      /\ pc' = "idle"
              ELSE /\ models' = models \cup {h}
                   /\ UNCHANGED <<mainDocs, pc>>
    /\ UNCHANGED <<mainLast, sess, sessLast, pending, lastBlock, ci>>
    /\ UNCHANGED meta

\* After a collection the next one is moved; after the last one,
\* st.main.setLastBlock(last) with the session's last manifest.
NextCollection ==
    IF ci < Len(Cols)
      THEN /\ ci' = ci + 1
           /\ cursor' = sess[Cols[ci + 1]]
           /\ UNCHANGED <<mainLast, pc>>
      ELSE /\ mainLast' = sessLast
           /\ pc' = "committed"
           /\ UNCHANGED <<ci, cursor>>

\* Mutant: the documents left in models when Find ends are dropped.
MoveEndNoFlush ==
    /\ pc = "moving"
    /\ cursor = {}
    /\ models' = {}
    /\ NextCollection
    /\ UNCHANGED <<mainDocs, sess, sessLast, pending, lastBlock>>
    /\ UNCHANGED meta

\* Find has returned every document: what is left in models is
\* bulk-inserted, and a failure ends Commit with its error.
MoveEnd ==
    /\ pc = "moving"
    /\ cursor = {}
    /\ models' = {}
    /\ \/ /\ models = {}
          /\ NextCollection
          /\ UNCHANGED mainDocs
       \/ /\ models # {}
          /\ Bulk(Cols[ci], models, TRUE)
          /\ NextCollection
       \/ /\ models # {}
          /\ Bulk(Cols[ci], models, FALSE)
          /\ pc' = "idle"
          /\ UNCHANGED <<ci, cursor, mainLast>>
    /\ UNCHANGED <<sess, sessLast, pending, lastBlock>>
    /\ UNCHANGED meta

-----------------------------------------------------------------------------

\* Close (229-240): drop manifestDatabase, then the session database.
Close ==
    /\ pc \in {"idle", "committed"}
    /\ mdb' = {}
    /\ mdbLast' = NilHeight
    /\ sess' = NoDocs
    /\ sessLast' = NilHeight
    /\ pc' = "closed"
    /\ UNCHANGED <<mainDocs, mainLast, base, epoch, pending, lastBlock, ci,
                   cursor, models>>

\* NewSyncerSession (29-55) with newTempDatabase (242-252): two fresh temp
\* databases, heights Nil, to sync the heights above main's last block.
NewSession ==
    /\ pc \in {"closed", "crashed"}
    /\ mainLast < Top
    /\ epoch < MaxSessions
    /\ mdb' = {}
    /\ mdbLast' = NilHeight
    /\ sess' = NoDocs
    /\ sessLast' = NilHeight
    /\ base' = mainLast
    /\ epoch' = epoch + 1
    /\ pc' = "idle"
    /\ pending' = {}
    /\ lastBlock' = NilHeight
    /\ UNCHANGED <<mainDocs, mainLast, ci, cursor, models>>

\* The process dies between two steps: what the databases hold stays, the
\* session in memory is gone (its temp databases are never dropped).
Crash ==
    /\ Crashes
    /\ pc \notin {"closed", "crashed"}
    /\ pc' = "crashed"
    /\ UNCHANGED <<mainDocs, mainLast, mdb, mdbLast, sess, sessLast, base,
                   epoch, pending, lastBlock, ci, cursor, models>>

Init ==
    /\ mainDocs = [c \in ColSet |-> {<<h, 0>> : h \in 0 .. Base}]
    /\ mainLast = Base
    /\ mdb = {}
    /\ mdbLast = NilHeight
    /\ sess = NoDocs
    /\ sessLast = NilHeight
    /\ base = Base
    /\ epoch = 1
    /\ pc = "idle"
    /\ pending = {}
    /\ lastBlock = NilHeight
    /\ ci = 1
    /\ cursor = {}
    /\ models = {}

Next ==
    \/ SetManifests
    \/ SetBlocksStart \/ SetBlock \/ SetBlocksEnd
    \/ CommitStart \/ MoveDoc \/ MoveEnd
    \/ Close \/ NewSession \/ Crash

Spec == Init /\ [][Next]_vars

=============================================================================
