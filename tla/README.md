# TLA+ models of mitum's ISAAC consensus node

This directory holds TLA+ models of the Go sources under `src/` (ProtoconNet/mitum),
the TLC configurations that check them, and `PROJECT.json`. `PROJECT.json` records
the components, the runs, the mutants, the source lines each definition models,
the findings and the hazards.

## 1. The system

A mitum node runs the ISAAC consensus protocol. Blocks are agreed height by height
in rounds. Each round has the stages INIT, (PROPOSAL, SIGN) and ACCEPT. Suffrage
nodes vote ballots, and a stage ends when a threshold of them agree (a *voteproof*).

| Part | Source | State | Operations |
|---|---|---|---|
| Ballotbox / VoteRecords | not sampled (spec.md 4.1-4.4; `isaac/ballotbox_test.go`) | records per (height, round, stage): votes per node, cached result and majority; latest ballot | Vote, Clean(h), Empty, LatestBallot; FindMajority, Threshold |
| VoteproofV0 | `isaac/voteproof_v0.go` | immutable value | IsValid (fields, facts, majority), Bytes |
| SIGN and ACCEPT ballots | `isaac/ballot_v0_sign.go`, `isaac/ballot_v0_accept.go` | immutable values | New...BallotV0FromLocalstate, Sign, GenerateBodyHash, GenerateHash, fact Bytes and Hash, IsValid |
| ConsensusStates | `isaac/states.go` | activeHandler under an RWMutex, stateChan, sealChan, the Ballotbox, the local state (last manifest, last INIT/ACCEPT voteproof) | Start, Stop, NewSeal, vote, newVoteproof, activateHandler, startStateChan, startSealChan, broadcastSeal, cleanBallotbox |
| VoteproofConsensusStateChecker | `isaac/voteproof_checker.go` | none | CheckHeight, CheckINITVoteproof, CheckACCEPTVoteproof |
| Booting state | `states/basic/state_booting.go` | none | Enter: check blocks, ask for Joining (suffrage) or Syncing |
| Joining, Consensus, Syncing handlers | not sampled (spec.md 4.6) | per handler | NewVoteproof, NewSeal, Activate, Deactivate |
| SyncingStateNoneSuffrage, nodeInfoChecker | `states/basic/state_syncing_none_suffrage.go` | lastHeight, polling daemon | check, newHeight, request, whenNewHeight |
| SealsExtracter | `isaac/seal.go` | founds set | Extract, extractFromStorage, extractFromChannel, filterFounds |
| SyncerSession | `storage/mongodb/syncer.go` | the main database, two temp databases (manifests, blocks), heightFrom/To | NewSyncerSession, SetManifests, SetBlocks, setBlock, Commit, moveWithinCol, Close |
| Policy operation | `isaac/operation_policy.go` | policy values | DefaultPolicy, IsValid |
| gochan server | `network/gochan/server.go` | none | run: one goroutine per received seal |

Encodings (JSON, BSON), state values, AVL trees, the QUIC server, launch wiring,
YAML configuration and test fixtures are listed in `PROJECT.json` as not modelled.
They are conversions or I/O with no protocol state.

**How the parts interact.** The network server starts `NewSeal` in a new goroutine
for every seal, so any number of seal goroutines run at once.

1. `NewSeal` votes each ballot into the Ballotbox (`vote`).
2. The one goroutine whose ballot *finishes* a record, seen as `IsFinished && !IsClosed`, continues into `newVoteproof`.
3. `newVoteproof` reads the last manifest and the last INIT voteproof, then runs the checker.
4. On `StateToBeChange` it calls `activateHandler` itself.
5. It records the voteproof as the last INIT/ACCEPT voteproof.
6. It passes the voteproof to the active handler.

Handlers ask for switches by sending to `stateChan`. The `startStateChan` loop calls
`activateHandler` for each request. `activateHandler` reads the active handler under
`RLock`, returns early if it is already the target, and then, under `Lock`,
deactivates the handler it read and activates the target. A ticker goroutine
cleans the Ballotbox below the last height minus 3.

**Behaviours that are hard to test.**
- Seal goroutines and the state loop interleave, including inside `activateHandler`.
- Concurrent ballots of one record race to finish it.
- Voteproofs of different rounds and heights finish in any order.
- The cleaner races late ballots.
- Timeouts abandon goroutines that still hold channels (SealsExtracter).
- A WaitGroup counts nodes that are never started (nodeInfoChecker).
- A multi-step database commit can fail or crash part-way (SyncerSession).

Each hazard is listed in `PROJECT.json` at its source line.

## 2. Modules

| Module | Models | State (VARIABLES) and actions |
|---|---|---|
| `Ballotbox` | Ballotbox, VoteRecords, FindMajority, Threshold (spec-modelled) | `records` (key -> votes, result, majority), `latest`; `BoxVote`, `BoxClean`, `BoxEmpty` |
| `Voteproof` | `VoteproofV0.IsValid` and its helpers | operators over the voteproofs `Ballotbox` builds |
| `Ballot` | SIGN and ACCEPT ballots, their signing and validation, and their way into the Ballotbox | `records`, `latest` and `sent` (the ballots honest nodes broadcast); `NewBallotFromLocalstate`, `ReceiveBallot`, `ReceiveRelayed`, `VoteINIT`, `Clean`, `Empty` |
| `ConsensusStates` | `isaac/states.go` with the checker, Booting's request and the spec's handler reactions | the Ballotbox, `active`, `hactive`, `stateChan`, `manifest`, `lastINIT`, per-goroutine `pc`/`vp`/`target`/`seen`/`chk`, history `handled`, `delivered` |
| `NodeInfoChecker` | `nodeInfoChecker` and `whenNewHeight` of `state_syncing_none_suffrage.go` | `alive`, `cpc` (the start/check goroutine), `wg`, `req`, `resultch`, `lastHeight`, per height `wnh`/`wn`, `holder` (st.Lock), `added`, `panicked`; `Check`, `Request(r)`, `Wait`, `Drain` (with `NewHeight`), `WhenNewHeightCount(h)`, `WhenNewHeightAdd(h)`, `StartReturn`, `Enter`, `Exit`, `AliveChange(r)`; `ctxDone` (the daemon's ctx canceled) |
| `SealsExtracter` | `isaac/seal.go` | `stored`, `pc`, `i`, `notFounds`, `opsBySeals`, `founds`, `count`, the helper goroutines `sh`/`sres` and `ch`/`m`/`cres`, `left` (keys of `m` not yet ranged), `ctxDone`, `result`; `StorageStart`, `StorageHelper`, `StorageHang`, `StorageRecv`, `StorageTimeout`, `StorageEnd`, `ChannelStart`, `ChannelHelper`, `ChannelHang`, `ChannelRecv`, `ChannelTimeout`, `Apply(k)`, `ApplyEnd`, `Assemble`, `Deadline` |
| `ExtractSpec` | what `SealsExtracter.Extract` promises its caller | `status` (running, ok, failed), `returned`; `Return` (every wanted operation once, any order), `Fail` (only when a lookup may fail or ctx may expire) |
| `SyncerSession` | `storage/mongodb/syncer.go` | `mainDocs`/`mainLast` (main database), `mdb`/`mdbLast` (manifest database), `sess`/`sessLast` (block session database), `base`, `epoch`, `pc`, `pending`/`lastBlock` (SetBlocks), `ci`/`cursor`/`models` (Commit); `SetManifests`, `SetBlocksStart`, `SetBlock`, `SetBlocksEnd`, `CommitStart`, `MoveDoc`, `MoveEnd`, `Close`, `NewSession`, `Crash` |
| `MCBallotbox`, `MCConsensusStates`, `MCNodeInfoChecker`, `MCSealsExtracter`, `MCSyncerSession` | TLC instances | model values, seal sets, symmetry, properties |

### Ballotbox

A record absent from the Go map is represented by `EmptyRecord`. `BoxVote(b)` is one
step, because the record's mutex makes a tally atomic:

- A finished record returns its cached voteproof.
- A second ballot from the same node is ignored.
- Otherwise the vote is added and `FindMajority` recomputed.

`VoteResult` returns the voteproof with `closed` true exactly when the record was
already finished before the call. `LatestAfterVote` moves `latest` only on an
admitted ballot that is strictly higher by (height, round).

### Ballot

Bytes are sequences and `util.ConcatSlice` is `\o`. `valuehash.NewSHA256` is an
injective tag over its input. A signature is the pair (key, message), and it verifies
only for the message its key signed. A node's key is named by its address, and the
network ID is a single constant. The byte layouts follow the code where it is
sampled, and otherwise spec.md 6:

- a fact is H || R || proposal || newBlock, the same layout for SIGN and ACCEPT;
- the SIGN body is the fact's bytes || b;
- the ACCEPT body is the fact's bytes || the voteproof's bytes || b, and `VoteproofV0.Bytes` returns nil;
- the ballot hash adds `BaseBallotV0`'s bytes and the body hash.

`SignWith` is `Sign`. It sets the signer, the signature, the body hash, the fact
hash and the fact signature together, then the ballot hash over all of them.
`IsValidBallot` is not sampled; it checks the spec's ballot invariants: both hashes
are re-derivable, both signatures verify under the signer, and the signer is the
node's key. `ACCEPTIsValid` also needs a voteproof that passes `VoteproofV0.IsValid`.

Actions:

- `NewBallotFromLocalstate(st, n, r, blk)`: an honest node builds and signs its SIGN or ACCEPT ballot at `LastBlock + 1`, once per stage and round, for the round's proposed block. An ACCEPT ballot embeds `LastINITVoteproof`, the INIT voteproof of that round, which must be a majority.
- `ReceiveBallot(b)`: a broadcast ballot passes `IsValid` and is voted. `ConsensusStates.validateBallot` returns nil, so the check is the transport's.
- `ReceiveRelayed(st, n, r, blk)`: the faulty node assembles a ballot of node `n`. It signs with its own key if `n` is faulty; otherwise it reuses any signature of `n` it has seen. It may embed any finished INIT voteproof. The ballot is voted if it passes `IsValid`.
- `VoteINIT`, `Clean` and `Empty` are the Ballotbox's INIT votes and its cleaning.

### ConsensusStates

Processes are the seal goroutines (one per ballot in `Seals`) and the loop `Loop`.
The steps follow the code's lock and channel boundaries:

- `NewSeal(s)`: store, validate (ballots are accepted), vote; a ballot from a non-suffrage node ends with `NotInSuffrage`. Only `ToNewVoteproof(v)` (finished and not closed) continues.
- `NewVoteproofCheck(s)`: reads `manifest` and `lastINIT`, runs `CheckHeight` then `CheckINITVoteproof` (never `CheckACCEPTVoteproof`, which is modelled as an operator and used by `AcceptMatchesLastINIT`), whose block check `CheckBlockWithINITVoteproof` (`checkBlockWithINITVoteproof`, states.go 431-449) requires an INIT majority on the local last block; `TO_SYNCING` goes into `activateHandler`, `IGNORE` ends.
- `SetLastVoteproof(s)`: `SetLastINITVoteproof` for an INIT voteproof.
- `Deliver(s)`: `ActiveHandler().NewVoteproof`; the handler's reaction follows spec.md 4.6 (Joining asks for Consensus on the next height's INIT majority; Consensus commits an ACCEPT majority for its block, or asks for Syncing on another block).
- `ActivateRead(p)` / `ActivateSwitch(p)`: the two halves of `activateHandler`, the `RLock` read and the `Lock` region.
- `LoopReceive`: `startStateChan` takes a request.
- `SyncCaughtUp`: the Syncing handler (while it runs) catches up to any height up to `MaxHeight` and asks for Joining.
- `CleanBallotbox`: the 10 s ticker, `Clean(last - 3)` when that is at least 1; it stops with Stop's hook.
- `Stop`: under `css.Lock`, stop the daemon, run the stop hooks and `Deactivate` the active handler; `activeHandler` keeps its value. It is enabled only when `Stoppable` is set. `util.FunctionDaemon` is not sampled, and its stop is taken as a signal that does not wait.
- `LoopStop`: `startStateChan`'s select takes the stop signal. While a request is also pending, Go's select may take either, so `LoopReceive` stays enabled.

### NodeInfoChecker

The ticker loop of `start` calls `check`:

- `Check` sizes the WaitGroup with `Len() - 1`, which counts every remote, and starts one request goroutine per alive remote.
- `Request(r)` is such a goroutine: `NodeInfo` answers with a height or with nothing, and the goroutine calls `wg.Done`.
- `Wait` is `wg.Wait` returning.
- `Drain` ranges over the closed `resultch`. For each height it calls `newHeight`, which starts a `whenNewHeight` goroutine for a height above `lastHeight`.

`whenNewHeight` holds `st.Lock` throughout. It is split at the point where the
nodepool is read a second time:

- `WhenNewHeightCount` takes the lock, returns when `st.syncs` is nil (`syncs` false), and reads `LenRemoteAlives()`.
- `WhenNewHeightAdd` traverses the alive remotes into the slice and calls `syncs.Add`.

`Enter` and `Exit` are `SyncingStateNoneSuffrage.Enter`/`Exit` after the base
state's callback (not sampled, taken as succeeding): `nc.Start()` runs `start` again
with a fresh ctx, `nc.Stop()` cancels it (`ctxDone`). A request running on the
canceled ctx fails. `Enter` leaves `st.syncs` set. The base state's `Exit` callback is
not sampled, so `Exit` may leave `syncs` nil or keep it. `nc.lastHeight` survives both.
A height drained after `Exit` with `syncs` nil therefore moves `lastHeight` without a
`syncs.Add`. After `Enter`, the same height reported again is not new, so it never
reaches `syncs.Add`. TLC finds this in 16 states when asked whether every reported
height reaches `syncs.Add`. It is a hazard in `PROJECT.json`; no run slot is left for it. `StartReturn` is `start`'s select taking `ctx.Done()`; when the
ticker has fired too, Go picks either, so `Check` stays enabled.

Nodepool is not in the sampled sources. `AliveChange` is its view of a remote
changing, and it is enabled only when `Flaky` is set. `StableSpec` is `Spec`
without `AliveChange` (its next-state relation is `CheckerNext`): the checker
against a nodepool whose remotes stay alive. The passing `nodeinfo` run uses it;
the two violation runs use `Spec` with `AliveChange`. No passing run lets remotes
change: with a remote not alive `wg.Wait` hangs (the `nodeinfo_dead_remote`
finding), so the liveness properties cannot hold there.

### SealsExtracter

`Extract` runs one caller goroutine. It starts a helper goroutine per lookup and
`select`s on the helper's unbuffered `finished` channel and on `ctx.Done()`:

- `StorageStart`/`StorageHelper`/`StorageRecv` are one iteration of `extractFromStorage` with `fromStorage`. A stored seal's operations pass through `filterDuplicated` and then `filterFounds` (`Keep`). A missing seal joins `notFounds`. Any other error ends `Extract`.
- `ChannelStart`/`ChannelHelper`/`ChannelRecv` are `extractFromChannel` with `fromChannel`. The proposer returns the missing seals, which are saved (`stored`).
- `Apply(k)` is one iteration of `for k := range m`, in any key order, as Go's map iteration is unordered.
- `Assemble` is the `make`/`copy` loop of `Extract`, with Go's `copy` semantics (`CopyAt`).
- `StorageTimeout`/`ChannelTimeout` are the `select` taking `ctx.Done()`. The helper stays where it is, blocked on its send.
- `StorageHang`/`ChannelHang` are lookups that never answer. `database.Seal` takes no context (seal.go:206), and the proposer is asked with `context.TODO()` (seal.go:252), so nothing bounds either call.

`Init` lets the database hold any subset of the proposal's seals.

**Refinement.** `ExtractSpec` is the abstract `Extract`: one call that either
returns every operation of the proposal's seals exactly once, in an order it does
not promise, or fails, and that always returns. `MCSealsExtracter` instantiates it
with `Abs == INSTANCE ExtractSpec WITH ...`. The mapping sends `pc = "done"` to `ok`,
`pc = "failed"` to `failed`, and every other `pc` to `running`. `returned` is
`result`, and `CanFail` is `Timeouts \/ Failures`. The `seals` run checks
`ExtractRefines == Abs!AbsSpec` as a property. Order is left out of the abstract
spec on purpose: the `seals_order` run shows that the order differs between nodes.

### SyncerSession

A database is abstracted to, per collection, the set of its documents, and to the
last manifest or block it caches. A document is the pair (height, session): the
session stands for the `_id` it got in the temp database, which `moveWithinCol`
keeps when it copies the raw document into the main database.

- `SetManifests` is one step, as it holds `st.Lock`: one ordered `Bulk` into the manifest database, which on a failure keeps the manifests before the failing one and skips `setLastManifest`.
- `SetBlocksStart`, `SetBlock`, `SetBlocksEnd` are `SetBlocks`. It takes no lock. Each `setBlock` writes one block's documents of every collection through a block session, or fails, and `SetBlocks` returns. `SetBlocksEnd` is `session.setLastBlock` with the highest block *of this call*.
- `CommitStart` reads the session's last manifest. Then, per collection in `Commit`'s order, `MoveDoc` is one callback of `Find` (flush `models` through an unordered `Bulk` when it holds `limit` documents, then append), and `MoveEnd` flushes the rest. After the last collection it sets the main database's last block. A failed `Bulk` returns `Commit`'s error after inserting what it could. A document whose `_id` is already in the main database fails the `Bulk`, so a `Commit` retried on the same session fails at every batch it already moved.
- `Close` drops both temp databases; `NewSession` is `NewSyncerSession` for the heights above the main database's last block; `Crash` loses the session in memory and keeps every database.

`Client.Bulk`, `Find`, `setLastBlock`, `setLastManifest` and `DropDatabase` are
not in the sampled sources; they are taken by their names and MongoDB's
semantics. So is the syncer that calls the session (`Want`, `Runs`): it sends
runs of consecutive heights not yet stored, in any order, and commits once every
height has its block. `heightFrom` and `heightTo` only feed log messages and
are left out.

`Init` of `ConsensusStates` is the state right after `Start`: Booting active, its request for Joining
(or for Syncing outside the suffrage) waiting on `stateChan`.

## 3. Runs

| Run | cfg | Expect | What it shows |
|---|---|---|---|
| `ballotbox` | `MCBallotbox.cfg` | pass | 3 nodes (n3 faulty), 2 facts. INIT ballots at (1,0), (1,1) and (2,0) are re-sent in any order with Clean and Empty. At (1,0) the honest nodes also sign SIGN and ACCEPT ballots, and n3 reassembles ballots from every signature it has seen. Checked: `latest` is at least every tallied ballot (`LatestIsMax`); every SIGN or ACCEPT vote counted for an honest node is for a fact that node signed at that height and round (`VotesAuthentic`). |
| `states` | `MCConsensusStates.cfg` | pass | Height 1's INIT voted by n1, n2 and n3, and height 3's by n2 and n3, with syncing, cleaning and `Stop` at any point (`MCClosedSeals`): each finished voteproof enters `newVoteproof` exactly once (`FinishedHandledOnce`). The third INIT ballot of height 1 reaches a record that another goroutine finished, so the property rests on `vote`'s `IsClosed` check. |
| `states_race` | `MCConsensusStates_race.cfg` | violation | `SingleActiveHandler` fails in 9 states: the seal goroutine for height 3 and the loop serving Booting's Joining request both read Booting, and Syncing and Joining are both activated. |
| `states_stop` | `MCConsensusStates_stop.cfg` | violation | `StoppedStaysStopped` fails in 5 states: the loop reads Booting, `Stop` deactivates it, then the loop deactivates Booting again and activates Joining on the stopped node (states.go:124). |
| `states_lastinit` | `MCConsensusStates_lastinit.cfg` | violation | `LastINITNeverRegresses` fails in 11 states: height 1's INIT voteproof passes `CheckHeight` at manifest 0; height 3's INIT voteproof then asks for Syncing, is activated and set as the last INIT voteproof; height 1's goroutine then sets its own, and the last INIT voteproof moves back from height 3 to height 1 (states.go:328). |
| `states_accept_round` | `MCConsensusStates_round.cfg` | violation | `AcceptMatchesLastINIT` fails: the ACCEPT voteproof of round 0 is delivered to Consensus after round 1's INIT voteproof became the last one, since `CheckACCEPTVoteproof` is never run. |
| `nodeinfo` | `MCNodeInfoChecker.cfg` | pass | Two remotes, both alive, reporting heights 0..2: `check` always returns to the ticker (`CheckerKeepsPolling`), and once `Exit` cancels the checker's ctx, `start` returns (`ExitStopsChecker`), with `Exit` and `Enter` at any point and `st.syncs` possibly nil after `Exit`. |
| `nodeinfo_dead_remote` | `MCNodeInfoChecker_dead.cfg` | violation | One of two remotes not alive: the WaitGroup counts two but one goroutine runs, so `wg.Wait` never returns and polling stops (state_syncing_none_suffrage.go:93). |
| `nodeinfo_flaky_overrun` | `MCNodeInfoChecker_flaky.cfg` | violation | A remote coming alive between `LenRemoteAlives` and `TraverseAliveRemotes` indexes past `sources` (line 242), a panic. |
| `seals` | `MCSealsExtracter.cfg` | pass | Three seals, `o2` carried by two of them, any subset stored, failing or hanging lookups and a deadline: a successful `Extract` returns every operation exactly once (`NoOpLostOrDuplicated`), and `Extract` implements `ExtractSpec`, so every call returns (`ExtractRefines`; 610 states). |
| `seals_order` | `MCSealsExtracter_order.cfg` | violation | `ExtractMatchesProposal` fails: a node missing `s1` in storage files `o2` under `s2` and returns `<<o1, o3, o2, o4>>`, where a node holding every seal returns `<<o2, o1, o3, o4>>`. Nodes build different blocks from one proposal (seal.go:115, 152). |
| `syncer` | `MCSyncerSession.cfg` | pass | Two sessions syncing heights 1..3 into two collections, batches of two, failing writes, crashes between any two steps and retried `Commit`s: the main database's last block never names a height whose documents it lacks (`LastBlockCovered`), and a `Commit` that returns nil has moved every document of the session (`CommittedMovesAll`). |

Each passing property has a mutant in `PROJECT.json`. The mutant replaces a mapped
definition by a plausible bug, and TLC then finds the property violated:

- an ACCEPT fact whose `Bytes` are only those of its base fact;
- a height-only latest comparison;
- `vote` without its `IsClosed` check;
- the WaitGroup counting the local node too;
- `start`'s select without its `ctx.Done()` case;
- `filterFounds` not recording what it keeps;
- a seal missing from storage skipped instead of fetched;
- `moveWithinCol` flushing only past the limit;
- `Commit` setting the last block before moving the collections;
- `moveWithinCol` dropping its last, partial batch.

**Bounds of `ballotbox`.** The state constraint `ScenarioSplit` explores two cases apart.

- *INIT rounds*: INIT ballots at three (height, round) pairs. The SIGN and ACCEPT records stay empty.
- *Signed ballots*: only (1,0), where the INIT votes are the honest nodes' votes for the proposed block. Votes go into either the SIGN or the ACCEPT record, not both, while both kinds of ballot may have been broadcast.

The signed case has two honest nodes, so one of them can reach a record already
finished by the other and the faulty node. It also has both stages, so a signature
of one stage is available to a ballot of the other. The run has about 33,000
states and takes under a minute. Exploring the two cases together took over four
minutes. The per-stage form of `VotesAuthentic` ("some ballot of that stage") is
violated in this model: with a nil voteproof `Bytes` and a shared fact layout, a
SIGN ballot's signatures also verify on an ACCEPT ballot for the same fact. That
is a hazard in `PROJECT.json`; no run slot is left for it as a violation run.

**Bounds.** The bounds are three suffrage nodes at ratio 66 (threshold 2)
and two facts. That is the smallest suffrage where a majority, a draw
and a late third ballot all occur. Heights run to 4 and `MaxHeight` is 4, so that
`CleanBallotbox` (last height - 3 >= 1) fires. The seal sets give every record
two ballots, except `MCClosedSeals` (the `states` run) and `MCForkSeals` (the
`states_stop` run), which give one record three. Each set places one record two
heights ahead, so that Syncing is requested from a seal goroutine. Every seal is delivered at most once; a re-sent
ballot is the same case as a second ballot from that node, which the model
covers. The passing `states` run fires every action. It has about 420,000 states and
takes about 35 seconds on two workers. Its seal set leaves out height 1's ACCEPT
ballots: with them and the third INIT ballot, the run grew to 9.8 million states
and took 12 minutes. A ballot from a node outside the suffrage is in the model, but
no passing run's seal set reaches it. The same holds for a cleaned record
finished a second time.
`NodeInfoChecker` uses two remotes and heights 0..2. Two remotes are enough for one
of them to be dead, or to come alive between the two nodepool reads. Three heights
are enough for two `whenNewHeight` goroutines to queue on `st.Lock` behind a third.
`SealsExtracter` uses three seals and four operations. That is enough for one
operation to be shared by two seals, for a third seal to sit between them in the
map, and for any split between storage and proposer. Extract runs once; a second
Extract on the same extracter starts with a non-empty `founds`, but nothing in the
sampled sources calls it twice.
`SyncerSession` uses two collections, the main database at height 0, heights 1..3
to sync, a batch limit of 2 (100 in the code) and two sessions. Three documents
with a limit of two make `moveWithinCol` flush once at the limit and once at the
end of `Find`; two collections give a crash or failure between collections; two
sessions let a crashed or failed sync be taken over by a new session.

**Fairness.** The `ballotbox` run checks only safety and assumes no fairness.
Go schedules every runnable goroutine, so each seal goroutine's steps
after arrival, and the loop's, are weakly fair. Seal arrival (`NewSeal`), syncing,
cleaning and `Stop` are environment steps with no fairness. The model can stop once every
seal is handled and nothing is requested, so the `ConsensusStates` cfgs say
`CHECK_DEADLOCK FALSE`.
In `NodeInfoChecker` the ticker fires forever and a request ends by its timeout,
so `Check`, `Request`, `Wait`, `Drain` and `WhenNewHeightAdd` are weakly fair.
Taking `st.Lock` (`WhenNewHeightCount`) is strongly fair: Go's mutex switches to
starvation mode and hands the lock to a waiter blocked for over 1 ms. `StartReturn`
is strongly fair: a canceled ctx is ready at every later select, which Go's select
takes with equal chance against a fired ticker. `AliveChange`, `Enter` and `Exit`
are environment steps with no fairness. The dead-remote and flaky runs may stop
(hung in `wg.Wait`, or after the panic), so they say `CHECK_DEADLOCK FALSE`.
`SealsExtracter` states weak fairness for every goroutine step except the hangs.
A hung lookup is not fair, since nothing makes it return. `Deadline` is weakly
fair: with `Timeouts` the caller's ctx carries a deadline, and Go's timer closes
`ctx.Done()`. Under this fairness `ExtractRefines` requires every `Extract` to
return, and the hangs make that depend on the `select` on `ctx.Done()`. A single
`Extract` ends, so its cfgs say `CHECK_DEADLOCK FALSE`. After a timeout the model leaves the helper blocked
in `send` for ever, which is the goroutine leak of seal.go:139 and :222 (a
hazard in `PROJECT.json`).
`SyncerSession`'s run checks only safety, with no fairness. A sync stops when its
last session is closed or the session bound is reached, so its cfg says
`CHECK_DEADLOCK FALSE`.

## 4. Plan

The core (Ballotbox, Voteproof, ConsensusStates) is in place. The next steps, in order:

1. **ConsensusStates, more of the code.** `Stop` is modelled. Still to do: the `Stop`/daemon lock cycle, should `FunctionDaemon.Stop` wait. Activate failures after a Deactivate. A seal before Start. Stale delivery after a commit. (`lastINIT` regressions are the `states_lastinit` run.)
2. **NodeInfoChecker**: done (section 2), `Enter` and `Exit` included. Still open: whether `Exit` can hang when a remote never answers. `ContextDaemon.Stop` is not in the sampled sources, so it is unknown whether it waits for `start` to return.
3. **SealsExtracter**: done (section 2), and shown to refine `ExtractSpec`. Still open: a caller whose ctx has no deadline waits for ever on a hung lookup (hazard seal.go:252). No run checks this, because the callers of `Extract` are outside the sampled sources.
4. **SyncerSession**: done (section 2). Still open: whether a `Commit` retried on the same session can ever succeed (a liveness question that needs the syncer's retry policy), and duplicate heights in the main database after a crash, which depend on index definitions outside the sampled sources.
5. **Abstract single-active supervisor.** An abstract spec where one handler is active and switches are atomic, and `ConsensusStates` mapped onto it with `INSTANCE ... WITH`. As the race shows, this refinement holds only for a corrected `activateHandler`, so it is planned with a `ConsensusStatesFixed` variant whose read and switch share one lock region.
6. **FindMajority against a reference.** The closed form in `Ballotbox` checked against a recursive definition over all vote vectors of a bounded suffrage.
7. **Ballot replay findings.** Two violation runs are wanted: the cross-stage replay of a SIGN signature as an ACCEPT vote, and an ACCEPT ballot whose embedded voteproof a relay swaps, with the received ballots recorded. Both need run slots that are all in use.
8. **Policy validation** (`operation_policy.go` IsValid) over bounded values.
9. **Booting's empty-block path** (`state_booting.go` 55-69, 93-110). With an empty database every voteproof asks for Syncing. Added as an initial choice to the existing seal sets, it pushed both ConsensusStates runs past ten million states, so it needs a smaller seal set of its own.

## 5. Not modelled

The parts listed `not_modelled` in `PROJECT.json` are left out for these reasons:

- **Encodings** (the BSON/JSON files, ballot JSON and log fields, state values, AVL tree JSON) convert data in one
  step and have no concurrency and no state across calls. A model of them would be a
  transliteration of their field lists, and no property here tells their outputs apart.
- **The QUIC server and memberlist node JSON** are network I/O. The
  behaviour the protocol depends on is lost, delayed or reordered delivery, and that is
  already modelled at the consensus-state boundary (seals arrive in any order, at any time).
- **Launch processes and configuration** wire components together once at startup. They
  have no operation that runs concurrently with the modelled ones.
- **Node, block and test-helper types** are data holders and test fixtures.
- **Policy validation** (`operation_policy.go` `IsValid`) is a pure range check with no
  caller in the sampled sources. It stays in the plan as a bounded algorithmic check, but
  it would need a run slot of its own, and all twelve slots are used by the questions above.
