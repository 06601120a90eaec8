-------------------------- MODULE MCSyncerSession ---------------------------
(***************************************************************************)
(* SyncerSession instantiated for TLC: two collections, the main database *)
(* at height 0 and heights 1..3 to sync, batches of two documents so that *)
(* moveWithinCol flushes both at the limit and at the end of Find.         *)
(***************************************************************************)
EXTENDS SyncerSession

CONSTANTS c1, c2

MCCols == <<c1, c2>>

TypeOK ==
    /\ mainDocs \in [ColSet -> SUBSET ((0 .. Top) \X (0 .. MaxSessions))]
    /\ mainLast \in 0 .. Top
    /\ mdb \subseteq 1 .. Top /\ mdbLast \in {NilHeight} \cup 1 .. Top
    /\ sess \in [ColSet -> SUBSET (1 .. Top)]
    /\ sessLast \in {NilHeight} \cup 1 .. Top
    /\ base \in 0 .. Top /\ epoch \in 1 .. MaxSessions
    /\ pc \in {"idle", "blocks", "moving", "committed", "closed", "crashed"}
    /\ pending \subseteq 1 .. Top /\ lastBlock \in {NilHeight} \cup 1 .. Top
    /\ ci \in 1 .. Len(Cols)
    /\ cursor \subseteq 1 .. Top
    /\ models \subseteq 1 .. Top /\ Cardinality(models) <= Limit

\* The main database never names a last block whose documents it lacks:
\* Commit moves every collection before st.main.setLastBlock, so a Bulk
\* failing part-way, a crash between two collections, or a retried Commit
\* leaves documents above the last block but never a gap below it.
LastBlockCovered ==
    \A c \in ColSet : 0 .. mainLast \subseteq Heights(mainDocs[c])

\* When Commit returns nil, every document of every collection of the
\* session database is in the main database: moveWithinCol's batches at
\* the limit and its last, partial batch were all inserted.
CommittedMovesAll ==
    pc = "committed" => \A c \in ColSet : Docs(sess[c]) \subseteq mainDocs[c]

=============================================================================
