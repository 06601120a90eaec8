--------------------------- MODULE ConsensusStates ---------------------------
(***************************************************************************)
(* ConsensusStates (isaac/states.go) of one node: the supervisor that owns  *)
(* the active state handler, takes every incoming seal in its own          *)
(* goroutine (NewSeal), votes ballots into the Ballotbox, filters finished *)
(* voteproofs with VoteproofConsensusStateChecker (isaac/                  *)
(* voteproof_checker.go) and switches handlers, either from a seal         *)
(* goroutine (newVoteproof) or from the stateChan loop (startStateChan).   *)
(*                                                                         *)
(* Processes: one goroutine per seal (network/gochan/server.go runs        *)
(* newSealHandler in a new goroutine per seal) and the stateChan loop.     *)
(* The RWMutex region of activateHandler (Lock, Deactivate, Activate, set  *)
(* activeHandler) is one step; the RLock read of ActiveHandler() that      *)
(* precedes it is another, as in the code.                                 *)
(*                                                                         *)
(* The state handlers are not in the sampled sources; their reactions      *)
(* follow the transition table of spec.md 4.6: Booting asks for Joining   *)
(* (or Syncing outside the suffrage), Joining asks for Consensus on an     *)
(* INIT majority for the next height, Consensus commits on an ACCEPT       *)
(* majority for the block it processed and asks for Syncing otherwise,    *)
(* Syncing catches up and asks for Joining.                                *)
(***************************************************************************)
EXTENDS Integers, FiniteSets

CONSTANTS
    Nodes, Ratio, Heights, Rounds, Facts, NoFact, NoBallot,  \* see Ballotbox
    Local,       \* this node's address
    Canon,       \* the fact agreeing with the local chain: an INIT ballot's
                 \* previousBlock equal to the last manifest's hash, or an
                 \* ACCEPT ballot's newBlock equal to the block processed here
    Seals,       \* the ballots the network delivers to this node
    MaxHeight,   \* highest manifest height the node may reach
    None,        \* nil: no voteproof, no handler
    Loop,        \* the goroutine running startStateChan
    Stoppable    \* whether Stop is called while the node runs

ASSUME Canon \in Facts /\ MaxHeight \in Nat /\ Stoppable \in BOOLEAN

VARIABLES
    records, latest,  \* the Ballotbox
    active,       \* css.activeHandler
    hactive,      \* per handler: between its Activate and its Deactivate
    stateChan,    \* StateChangeContexts handlers are blocked sending
    manifest,     \* height of Storage().LastManifest()
    lastINIT,     \* localstate.LastINITVoteproof(): [height, round] or None
    pc,           \* program counter of each goroutine
    vp,           \* the voteproof a seal goroutine is working on
    target,       \* the toState of the StateChangeContext being activated
    seen,         \* the handler activateHandler read before taking the lock
    chk,          \* lastINIT as newVoteproof read it for the checker
    handled,      \* per record: voteproofs that entered newVoteproof
    delivered,    \* voteproofs given to a handler's NewVoteproof
    stopping      \* "running", or "stopped" once Stop has returned

BB == INSTANCE Ballotbox

vars == <<records, latest, active, hactive, stateChan, manifest, lastINIT,
          pc, vp, target, seen, chk, handled, delivered, stopping>>

Handlers == {"BOOTING", "JOINING", "CONSENSUS", "SYNCING", "BROKEN"}
Procs == Seals \cup {Loop}

\* Summary of a Ballotbox voteproof: what the supervisor and handlers read.
Summary(v) == [height |-> v.height, round |-> v.round, stage |-> v.stage,
               result |-> v.result, majority |-> v.majority]

KeyOfVp(v) == <<v.height, v.round, v.stage>>

-----------------------------------------------------------------------------
(* VoteproofConsensusStateChecker                                          *)

\* CheckHeight: d = voteproof height - (last manifest height + 1).
CheckHeight(v, m) ==
    IF v.height - (m + 1) > 0 THEN "TO_SYNCING"
    ELSE IF v.height - (m + 1) < 0 THEN "IGNORE"
    ELSE "OK"

\* checkBlockWithINITVoteproof (states.go 431-449): the majority must be an
\* INITBallotFact (a draw has none and fails the type assertion) whose
\* previousBlock is the local last block.
CheckBlockWithINITVoteproof(v) == v.result = "MAJORITY" /\ v.majority = Canon

\* CheckINITVoteproof: only an INIT voteproof is checked; a failed block
\* check asks for Syncing.
CheckINITVoteproof(v) ==
    IF v.stage = "INIT" /\ ~CheckBlockWithINITVoteproof(v)
      THEN "TO_SYNCING" ELSE "OK"

\* CheckACCEPTVoteproof: an ACCEPT voteproof must be of the round of the
\* last INIT voteproof; any other stage passes. newVoteproof never calls it.
CheckACCEPTVoteproof(v, last) ==
    v.stage = "ACCEPT" => last.round = v.round

\* newVoteproof runs CheckHeight then CheckINITVoteproof.
CheckVoteproof(v, m) ==
    IF CheckHeight(v, m) # "OK" THEN CheckHeight(v, m) ELSE CheckINITVoteproof(v)

-----------------------------------------------------------------------------
(* Handler reactions (spec 4.6).                                           *)

\* The StateChangeContext Booting sends once it has checked the blocks.
BootingTarget == IF Local \in Nodes THEN "JOINING" ELSE "SYNCING"

\* Activate(to): the handler starts; Booting immediately asks to move on.
ActivateEffect(to) ==
    IF to = "BOOTING" THEN stateChan \cup {BootingTarget} ELSE stateChan

-----------------------------------------------------------------------------
(* NewSeal (states.go 339-378) with vote (407-429).                         *)

\* Mutant: vote forgets the IsClosed check.
ToNewVoteproofUnclosed(v) == v.result # "NOTYET"

\* vote: only a finished voteproof that is not closed goes on to
\* newVoteproof; a closed one was already taken by an earlier ballot.
ToNewVoteproof(v) == v.result # "NOTYET" /\ ~v.closed

\* The seal arrives: stored, validated (validateBallot accepts every
\* ballot), voted. A voteproof that is not finished, or finished and
\* closed, ends the goroutine after the hand-off of the seal to the handler;
\* the first finished one enters newVoteproof. NotInSuffrage ends it with
\* an error.
NewSeal(s) ==
    /\ pc[s] = "init"
    /\ active # None
    /\ IF s.node \notin Nodes
         THEN /\ pc' = [pc EXCEPT ![s] = "done"]
              /\ UNCHANGED <<records, latest, vp, handled>>
         ELSE LET v == BB!VoteResult(records, s)
              IN /\ BB!BoxVote(s)
                 /\ IF ToNewVoteproof(v)
                      THEN /\ pc' = [pc EXCEPT ![s] = "check"]
                           /\ vp' = [vp EXCEPT ![s] = Summary(v)]
                           /\ handled' = [handled EXCEPT ![KeyOfVp(v)] = @ + 1]
                      ELSE /\ pc' = [pc EXCEPT ![s] = "done"]
                           /\ UNCHANGED <<vp, handled>>
    /\ UNCHANGED <<stopping, active, hactive, stateChan, manifest, lastINIT,
                   target, seen, chk, delivered>>

\* newVoteproof (291-322): read the last manifest and the last INIT
\* voteproof, run the checkers. A higher height or a foreign INIT majority
\* asks activateHandler for Syncing; a lower height is ignored.
NewVoteproofCheck(s) ==
    /\ pc[s] = "check"
    /\ chk' = [chk EXCEPT ![s] = IF CheckVoteproof(vp[s], manifest) = "IGNORE"
                                   THEN None ELSE lastINIT]
    /\ CASE CheckVoteproof(vp[s], manifest) = "TO_SYNCING" ->
              /\ pc' = [pc EXCEPT ![s] = "ah_read"]
              /\ target' = [target EXCEPT ![s] = "SYNCING"]
              /\ UNCHANGED vp
         [] CheckVoteproof(vp[s], manifest) = "IGNORE" ->
              /\ pc' = [pc EXCEPT ![s] = "done"]
              /\ vp' = [vp EXCEPT ![s] = None]
              /\ UNCHANGED target
         [] OTHER ->
              /\ pc' = [pc EXCEPT ![s] = "setlast"]
              /\ UNCHANGED <<target, vp>>
    /\ UNCHANGED <<stopping, records, latest, active, hactive, stateChan,
                   manifest, lastINIT, seen, handled, delivered>>

\* newVoteproof (324-329): remember the voteproof as the last INIT (or
\* ACCEPT) voteproof of the local state.
SetLastVoteproof(s) ==
    /\ pc[s] = "setlast"
    /\ lastINIT' = IF vp[s].stage = "INIT"
                     THEN [height |-> vp[s].height, round |-> vp[s].round]
                     ELSE lastINIT
    /\ pc' = [pc EXCEPT ![s] = "deliver"]
    /\ UNCHANGED <<stopping, records, latest, active, hactive, stateChan,
                   manifest, vp, target, seen, chk, handled, delivered>>

\* newVoteproof (331-335): hand the voteproof to ActiveHandler().
\* Joining asks for Consensus on an INIT majority for the next height;
\* Consensus commits on an ACCEPT majority for its block and asks for
\* Syncing on one for another block; the others only take note.
Deliver(s) ==
    LET v == vp[s]
        h == active
        next == v.height = manifest + 1 /\ v.result = "MAJORITY"
    IN
    /\ pc[s] = "deliver"
    /\ pc' = [pc EXCEPT ![s] = "done"]
    /\ vp' = [vp EXCEPT ![s] = None]
    /\ chk' = [chk EXCEPT ![s] = None]
    /\ target' = [target EXCEPT ![s] = None]
    /\ delivered' = IF v.stage = "ACCEPT"
                       THEN delivered \cup
                              {[vp |-> v, handler |-> h, lastINIT |-> chk[s]]}
                       ELSE delivered
    /\ CASE h = "JOINING" /\ v.stage = "INIT" /\ next ->
              /\ stateChan' = stateChan \cup {"CONSENSUS"}
              /\ UNCHANGED manifest
         [] h = "CONSENSUS" /\ v.stage = "ACCEPT" /\ next /\ v.majority = Canon ->
              /\ manifest' = manifest + 1
              /\ UNCHANGED stateChan
         [] h = "CONSENSUS" /\ v.stage = "ACCEPT" /\ next ->
              /\ stateChan' = stateChan \cup {"SYNCING"}
              /\ UNCHANGED manifest
         [] OTHER -> UNCHANGED <<stateChan, manifest>>
    /\ UNCHANGED <<stopping, records, latest, active, hactive, lastINIT, seen,
                   handled>>

-----------------------------------------------------------------------------
(* activateHandler (206-248), run by a seal goroutine or the loop.          *)

\* Where the caller resumes once activateHandler returns.
AfterActivate(p) == IF p = Loop THEN "idle" ELSE "setlast"

\* The loop forgets the context it served; a seal goroutine keeps it.
TargetAfterActivate(p) == IF p = Loop THEN [target EXCEPT ![Loop] = None]
                                      ELSE target

\* handler := css.ActiveHandler() under RLock; the same state is a no-op.
ActivateRead(p) ==
    /\ pc[p] = "ah_read"
    /\ seen' = [seen EXCEPT ![p] = active]
    /\ pc' = [pc EXCEPT ![p] = IF active = target[p] THEN AfterActivate(p)
                                                      ELSE "ah_switch"]
    /\ target' = IF active = target[p] THEN TargetAfterActivate(p) ELSE target
    /\ UNCHANGED <<stopping, records, latest, active, hactive, stateChan,
                   manifest, lastINIT, vp, chk, handled, delivered>>

\* Under css.Lock: Deactivate the handler read before, Activate the target,
\* make it the active handler.
ActivateSwitch(p) ==
    LET from == seen[p]
        to == target[p]
    IN
    /\ pc[p] = "ah_switch"
    /\ hactive' = [h \in Handlers |->
                     IF h = to THEN TRUE
                     ELSE IF h = from THEN FALSE
                     ELSE hactive[h]]
    /\ active' = to
    /\ stateChan' = ActivateEffect(to)
    /\ pc' = [pc EXCEPT ![p] = AfterActivate(p)]
    /\ seen' = [seen EXCEPT ![p] = None]
    /\ target' = TargetAfterActivate(p)
    /\ UNCHANGED <<stopping, records, latest, manifest, lastINIT, vp, chk,
                   handled, delivered>>

\* startStateChan: receive a StateChangeContext and activate it.
LoopReceive ==
    /\ pc[Loop] = "idle"
    /\ \E to \in stateChan :
         /\ stateChan' = stateChan \ {to}
         /\ target' = [target EXCEPT ![Loop] = to]
         /\ pc' = [pc EXCEPT ![Loop] = "ah_read"]
    /\ UNCHANGED <<stopping, records, latest, active, hactive, manifest,
                   lastINIT, vp, seen, chk, handled, delivered>>

\* startStateChan's select takes the stop signal start() forwards once
\* Stop has stopped the daemon; with a request also pending, Go's select
\* may take either.
LoopStop ==
    /\ pc[Loop] = "idle"
    /\ stopping = "stopped"
    /\ pc' = [pc EXCEPT ![Loop] = "stopped"]
    /\ UNCHANGED <<records, latest, active, hactive, stateChan, manifest,
                   lastINIT, vp, target, seen, chk, handled, delivered,
                   stopping>>

\* Stop (111-133), under css.Lock: stop the daemon (the signal reaches the
\* loop through start), run the stop hooks (the cleaning ticker stops) and
\* Deactivate the active handler; activeHandler keeps its value. The
\* daemon (util.FunctionDaemon, not sampled) is taken to return once it
\* has signalled start.
Stop ==
    /\ Stoppable
    /\ stopping = "running"
    /\ stopping' = "stopped"
    /\ hactive' = [hactive EXCEPT ![active] = FALSE]
    /\ UNCHANGED <<records, latest, active, stateChan, manifest, lastINIT, pc,
                   vp, target, seen, chk, handled, delivered>>

-----------------------------------------------------------------------------
(* Environment.                                                            *)

\* Syncing catches up to a higher height and asks for Joining.
SyncCaughtUp ==
    /\ hactive["SYNCING"]
    /\ "JOINING" \notin stateChan
    /\ \E m \in manifest..MaxHeight :
         /\ manifest' = m
         /\ stateChan' = stateChan \cup {"JOINING"}
    /\ UNCHANGED <<stopping, records, latest, active, hactive, lastINIT, pc,
                   vp, target, seen, chk, handled, delivered>>

\* cleanBallotbox (135-160): every 10 seconds, Clean(last height - 3)
\* unless that is below 1.
CleanBallotbox ==
    /\ stopping = "running"
    /\ manifest - 3 >= 1
    /\ \E k \in BB!Keys : k[1] <= manifest - 3 /\ records[k] # BB!EmptyRecord
    /\ BB!BoxClean(manifest - 3)
    /\ handled' = [k \in BB!Keys |-> IF k[1] <= manifest - 3 THEN 0 ELSE handled[k]]
    /\ UNCHANGED <<stopping, active, hactive, stateChan, manifest, lastINIT,
                   pc, vp, target, seen, chk, delivered>>

-----------------------------------------------------------------------------

\* After Start: the loops run and Booting has been activated from Stopped.
Init ==
    /\ BB!BoxInit
    /\ active = "BOOTING"
    /\ hactive = [h \in Handlers |-> h = "BOOTING"]
    /\ stateChan = {BootingTarget}
    /\ manifest = 0
    /\ lastINIT = None
    /\ pc = [p \in Procs |-> IF p = Loop THEN "idle" ELSE "init"]
    /\ vp = [s \in Seals |-> None]
    /\ target = [p \in Procs |-> None]
    /\ seen = [p \in Procs |-> None]
    /\ chk = [s \in Seals |-> None]
    /\ handled = [k \in BB!Keys |-> 0]
    /\ delivered = {}
    /\ stopping = "running"

\* The steps of a seal goroutine once the seal has arrived.
SealStep(s) ==
    \/ NewVoteproofCheck(s)
    \/ SetLastVoteproof(s)
    \/ Deliver(s)

ActivateStep(p) == ActivateRead(p) \/ ActivateSwitch(p)

Next ==
    \/ \E s \in Seals : NewSeal(s) \/ SealStep(s) \/ ActivateStep(s)
    \/ LoopReceive \/ ActivateStep(Loop) \/ LoopStop
    \/ Stop
    \/ SyncCaughtUp
    \/ CleanBallotbox

\* Go runs every runnable goroutine eventually: weak fairness per goroutine.
Fairness ==
    /\ \A s \in Seals : WF_vars(SealStep(s)) /\ WF_vars(ActivateStep(s))
    /\ WF_vars(LoopReceive) /\ WF_vars(ActivateStep(Loop)) /\ WF_vars(LoopStop)

Spec == Init /\ [][Next]_vars /\ Fairness

=============================================================================
