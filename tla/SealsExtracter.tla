--------------------------- MODULE SealsExtracter ---------------------------
(***************************************************************************)
(* SealsExtracter.Extract (isaac/seal.go): the operations of a proposal's *)
(* seals, taken first from the local database one seal at a time, then   *)
(* the seals not found from the proposer in one request. Each lookup runs *)
(* in a helper goroutine that reports on an unbuffered channel while the  *)
(* caller selects on it and on ctx.Done().                                 *)
(*                                                                         *)
(* A seal is a model value with a fixed operation list (SealOps); an      *)
(* operation is a model value standing for its hash.                      *)
(***************************************************************************)
EXTENDS Integers, Sequences, SequencesExt

CONSTANTS
    Seals,      \* seal hashes
    Ops,        \* operation hashes
    SealOps,    \* seal -> the operations it carries, in order
    Proposal,   \* se.seals: the proposal's seal hashes, in order
    Timeouts,   \* whether ctx may expire during Extract
    Failures,   \* whether the database or the proposer may fail
    Absent,     \* no entry in opsBySeals / m
    NilOp       \* the zero value of an operation.Operation slot

ASSUME /\ SealOps \in [Seals -> Seq(Ops)]
       /\ Proposal \in Seq(Seals)
       /\ Timeouts \in BOOLEAN /\ Failures \in BOOLEAN

VARIABLES
    stored,      \* seals in the local database
    pc,          \* Extract's goroutine
    i,           \* index of extractFromStorage's loop over se.seals
    notFounds,   \* seals not found in storage, in order
    opsBySeals,  \* seal -> operations kept for it, or Absent
    founds,      \* se.founds
    count,       \* opsCount
    sh,          \* fromStorage's helper goroutine: "none", "run", "send", "hung"
    sres,        \* what it sends: "found", "notfound" or "error"
    ch,          \* extractFromChannel's helper goroutine
    m,           \* the map fromChannel returned, assigned by that helper
    cres,        \* what it sends: "ok" or "error"
    left,        \* keys of m not yet visited by the range loop
    ctxDone,     \* ctx expired
    result       \* the slice Extract returns

vars == <<stored, pc, i, notFounds, opsBySeals, founds, count, sh, sres, ch,
          m, cres, left, ctxDone, result>>

NoMap == [s \in Seals |-> Absent]

-----------------------------------------------------------------------------
(* Helpers on operation lists.                                             *)

\* filterDuplicated: the first occurrence of each operation.
FilterDuplicated(ops) ==
    FoldLeft(LAMBDA acc, o : IF o \in ToSet(acc) THEN acc ELSE Append(acc, o),
             << >>, ops)

\* Mutant: filterFounds keeps an operation without recording it in founds.
FilterFoundsNoRecord(ops, fs) ==
    [ops |-> SelectSeq(ops, LAMBDA o : o \notin fs), founds |-> fs]

\* filterFounds: the operations not yet in se.founds, each recorded there
\* as it is kept; returns the kept list and the new founds.
FilterFounds(ops, fs) ==
    FoldLeft(LAMBDA acc, o :
               IF o \in acc.founds THEN acc
               ELSE [ops |-> Append(acc.ops, o), founds |-> acc.founds \cup {o}],
             [ops |-> << >>, founds |-> fs], ops)

\* Go's copy(dst[off:], l): at most Len(dst) - off elements.
CopyAt(dst, off, l) ==
    [k \in DOMAIN dst |-> IF off < k /\ k <= off + Len(l) THEN l[k - off]
                          ELSE dst[k]]

\* Extract (75-88): a slice of opsCount zero values, filled in proposal
\* order with each seal's kept operations.
Assembled(obs, n) ==
    LET step(acc, h) ==
          IF obs[h] = Absent THEN acc
          ELSE [dst |-> CopyAt(acc.dst, acc.off, obs[h]),
                off |-> acc.off + Len(obs[h])]
    IN FoldLeft(step, [dst |-> [k \in 1..n |-> NilOp], off |-> 0], Proposal).dst

\* Keep the operations a seal carries, as extractFromStorage and the range
\* loop of extractFromChannel do.
Keep(h, ops) ==
    LET r == FilterFounds(ops, founds)
    IN /\ opsBySeals' = [opsBySeals EXCEPT ![h] = r.ops]
       /\ founds' = r.founds
       /\ count' = count + Len(r.ops)

-----------------------------------------------------------------------------
(* extractFromStorage (91-123) with fromStorage (199-235).                 *)

\* The loop takes the next seal and starts the lookup goroutine.
StorageStart ==
    /\ pc = "storage"
    /\ i <= Len(Proposal)
    /\ sh' = "run"
    /\ pc' = "swait"
    /\ UNCHANGED <<stored, i, notFounds, opsBySeals, founds, count, sres, ch,
                   m, cres, left, ctxDone, result>>

\* The goroutine runs database.Seal and blocks sending on finished.
StorageHelper ==
    /\ sh = "run"
    /\ sh' = "send"
    /\ sres' \in {IF Proposal[i] \in stored THEN "found" ELSE "notfound"}
                 \cup (IF Failures THEN {"error"} ELSE {})
    /\ UNCHANGED <<stored, pc, i, notFounds, opsBySeals, founds, count, ch, m,
                   cres, left, ctxDone, result>>

\* database.Seal takes no context: the lookup may block for good, and the
\* goroutine never reaches its send.
StorageHang ==
    /\ sh = "run"
    /\ sh' = "hung"
    /\ UNCHANGED <<stored, pc, i, notFounds, opsBySeals, founds, count, sres,
                   ch, m, cres, left, ctxDone, result>>

\* Mutant: a seal missing from storage is skipped instead of queued for
\* the proposer.
StorageRecvDropMissing ==
    /\ pc = "swait"
    /\ sh = "send"
    /\ sh' = "none"
    /\ CASE sres = "found" ->
              /\ Keep(Proposal[i], FilterDuplicated(SealOps[Proposal[i]]))
              /\ i' = i + 1 /\ pc' = "storage" /\ UNCHANGED notFounds
         [] sres = "notfound" ->
              /\ i' = i + 1 /\ pc' = "storage"
              /\ UNCHANGED <<notFounds, opsBySeals, founds, count>>
         [] sres = "error" ->
              /\ pc' = "failed"
              /\ UNCHANGED <<i, notFounds, opsBySeals, founds, count>>
    /\ UNCHANGED <<stored, sres, ch, m, cres, left, ctxDone, result>>

\* The select receives the result: a found seal's deduplicated operations
\* go through filterFounds; a missing one (not found, or NotFoundError)
\* joins notFounds; any other error ends Extract.
StorageRecv ==
    /\ pc = "swait"
    /\ sh = "send"
    /\ sh' = "none"
    /\ CASE sres = "found" ->
              /\ Keep(Proposal[i], FilterDuplicated(SealOps[Proposal[i]]))
              /\ i' = i + 1 /\ pc' = "storage" /\ UNCHANGED notFounds
         [] sres = "notfound" ->
              /\ notFounds' = Append(notFounds, Proposal[i])
              /\ i' = i + 1 /\ pc' = "storage"
              /\ UNCHANGED <<opsBySeals, founds, count>>
         [] sres = "error" ->
              /\ pc' = "failed"
              /\ UNCHANGED <<i, notFounds, opsBySeals, founds, count>>
    /\ UNCHANGED <<stored, sres, ch, m, cres, left, ctxDone, result>>

\* The select takes ctx.Done(); the goroutine is left blocked on finished.
StorageTimeout ==
    /\ pc = "swait"
    /\ ctxDone
    /\ pc' = "failed"
    /\ UNCHANGED <<stored, i, notFounds, opsBySeals, founds, count, sh, sres,
                   ch, m, cres, left, ctxDone, result>>

\* The loop ends; Extract asks the proposer only when seals are missing.
StorageEnd ==
    /\ pc = "storage"
    /\ i > Len(Proposal)
    /\ pc' = IF notFounds = << >> THEN "assemble" ELSE "channel"
    /\ UNCHANGED <<stored, i, notFounds, opsBySeals, founds, count, sh, sres,
                   ch, m, cres, left, ctxDone, result>>

-----------------------------------------------------------------------------
(* extractFromChannel (125-160) with fromChannel (237-271).                *)

\* The helper goroutine starts; the caller selects.
ChannelStart ==
    /\ pc = "channel"
    /\ ch' = "run"
    /\ pc' = "cwait"
    /\ UNCHANGED <<stored, i, notFounds, opsBySeals, founds, count, sh, sres,
                   m, cres, left, ctxDone, result>>

\* fromChannel asks the proposer's channel for the missing seals, saves
\* them with database.NewSeals and maps each seal hash to its operations;
\* the goroutine assigns m and blocks sending on finished. The error
\* returns (proposer local, unknown or dead, Seals or NewSeals failing)
\* send the error and leave m nil.
ChannelHelper ==
    /\ ch = "run"
    /\ ch' = "send"
    /\ \/ /\ m' = [s \in Seals |-> IF s \in ToSet(notFounds) THEN SealOps[s]
                                   ELSE Absent]
          /\ stored' = stored \cup ToSet(notFounds)
          /\ cres' = "ok"
       \/ /\ Failures
          /\ cres' = "error"
          /\ UNCHANGED <<m, stored>>
    /\ UNCHANGED <<pc, i, notFounds, opsBySeals, founds, count, sh, sres,
                   left, ctxDone, result>>

\* proposerch.Seals is called with context.TODO(): a proposer that never
\* answers blocks the goroutine for good.
ChannelHang ==
    /\ ch = "run"
    /\ ch' = "hung"
    /\ UNCHANGED <<stored, pc, i, notFounds, opsBySeals, founds, count, sh,
                   sres, m, cres, left, ctxDone, result>>

\* The select receives: an error ends Extract, otherwise the range over m
\* starts.
ChannelRecv ==
    /\ pc = "cwait"
    /\ ch = "send"
    /\ ch' = "none"
    /\ IF cres = "ok"
         THEN /\ pc' = "apply"
              /\ left' = {s \in Seals : m[s] # Absent}
         ELSE /\ pc' = "failed"
              /\ UNCHANGED left
    /\ UNCHANGED <<stored, i, notFounds, opsBySeals, founds, count, sh, sres,
                   m, cres, ctxDone, result>>

\* Mutant: the select waits on finished alone, without ctx.Done().
ChannelTimeoutDropped ==
    /\ pc = "cwait"
    /\ ctxDone
    /\ FALSE
    /\ pc' = "failed"
    /\ UNCHANGED <<stored, i, notFounds, opsBySeals, founds, count, sh, sres,
                   ch, m, cres, left, ctxDone, result>>

\* The select takes ctx.Done(); the goroutine is left blocked on finished.
ChannelTimeout ==
    /\ pc = "cwait"
    /\ ctxDone
    /\ pc' = "failed"
    /\ UNCHANGED <<stored, i, notFounds, opsBySeals, founds, count, sh, sres,
                   ch, m, cres, left, ctxDone, result>>

\* for k := range m: Go visits the keys in no fixed order.
Apply(k) ==
    /\ pc = "apply"
    /\ k \in left
    /\ Keep(k, m[k])
    /\ left' = left \ {k}
    /\ UNCHANGED <<stored, pc, i, notFounds, sh, sres, ch, m, cres, ctxDone,
                   result>>

ApplyEnd ==
    /\ pc = "apply"
    /\ left = {}
    /\ pc' = "assemble"
    /\ UNCHANGED <<stored, i, notFounds, opsBySeals, founds, count, sh, sres,
                   ch, m, cres, left, ctxDone, result>>

\* Extract builds the returned slice.
Assemble ==
    /\ pc = "assemble"
    /\ result' = Assembled(opsBySeals, count)
    /\ pc' = "done"
    /\ UNCHANGED <<stored, i, notFounds, opsBySeals, founds, count, sh, sres,
                   ch, m, cres, left, ctxDone>>

\* The context's deadline passes while Extract runs.
Deadline ==
    /\ Timeouts
    /\ ~ctxDone
    /\ pc \notin {"done", "failed"}
    /\ ctxDone' = TRUE
    /\ UNCHANGED <<stored, pc, i, notFounds, opsBySeals, founds, count, sh,
                   sres, ch, m, cres, left, result>>

-----------------------------------------------------------------------------

\* NewSealsExtracter: se.founds empty; the database holds any subset of the
\* proposal's seals.
Init ==
    /\ stored \in SUBSET ToSet(Proposal)
    /\ pc = "storage"
    /\ i = 1
    /\ notFounds = << >>
    /\ opsBySeals = NoMap
    /\ founds = {}
    /\ count = 0
    /\ sh = "none" /\ sres = "none"
    /\ ch = "none" /\ m = NoMap /\ cres = "none"
    /\ left = {}
    /\ ctxDone = FALSE
    /\ result = << >>

Next ==
    \/ StorageStart \/ StorageHelper \/ StorageHang \/ StorageRecv
    \/ StorageTimeout \/ StorageEnd
    \/ ChannelStart \/ ChannelHelper \/ ChannelHang \/ ChannelRecv
    \/ ChannelTimeout
    \/ \E k \in Seals : Apply(k)
    \/ ApplyEnd \/ Assemble \/ Deadline

\* Go runs every runnable goroutine: the caller's and the helpers' steps
\* are weakly fair. A hung lookup is not: nothing forces it to return. When
\* ctx carries a deadline (Timeouts), Go's timer closes ctx.Done() in time,
\* so Deadline is weakly fair too.
Fairness ==
    /\ WF_vars(StorageStart) /\ WF_vars(StorageHelper) /\ WF_vars(StorageRecv)
    /\ WF_vars(StorageEnd) /\ WF_vars(ChannelStart) /\ WF_vars(ChannelHelper)
    /\ WF_vars(ChannelRecv) /\ WF_vars(\E k \in Seals : Apply(k))
    /\ WF_vars(ApplyEnd) /\ WF_vars(Assemble)
    /\ WF_vars(StorageTimeout) /\ WF_vars(ChannelTimeout) /\ WF_vars(Deadline)

Spec == Init /\ [][Next]_vars /\ Fairness

=============================================================================
