-------------------------- MODULE MCConsensusStates --------------------------
(***************************************************************************)
(* One node (n1) of a three-node suffrage {n1, n2, n3} with ratio 66      *)
(* (threshold 2), starting with the genesis block only. Each cfg picks the *)
(* ballots the network delivers, every one of them at most once, each in  *)
(* its own goroutine.                                                      *)
(***************************************************************************)
EXTENDS ConsensusStates, TLC

CONSTANTS n1, n2, n3, n4, fc, ff

MCNodes == {n1, n2, n3}
MCFacts == {fc, ff}

Blt(n, h, r, st, f) ==
    [node |-> n, height |-> h, round |-> r, stage |-> st, fact |-> f]

\* Height 1 agreed by n1 and n2, height 3 by n2 and n3: the race of a seal
\* goroutine asking for Syncing with the loop serving Booting's Joining.
MCRaceSeals ==
    { Blt(n1, 1, 0, "INIT", fc), Blt(n2, 1, 0, "INIT", fc),
      Blt(n1, 1, 0, "ACCEPT", fc), Blt(n2, 1, 0, "ACCEPT", fc),
      Blt(n2, 3, 0, "INIT", fc), Blt(n3, 3, 0, "INIT", fc) }

\* The agreeing peers; MCForkSeals has a record voted by all three nodes.
MCSeals == MCRaceSeals

\* Height 1's INIT record voted by all three nodes, so a ballot reaches it
\* after, or while, another goroutine finishes it; height 3 as in MCSeals.
MCClosedSeals ==
    { Blt(n1, 1, 0, "INIT", fc), Blt(n2, 1, 0, "INIT", fc),
      Blt(n3, 1, 0, "INIT", fc),
      Blt(n2, 3, 0, "INIT", fc), Blt(n3, 3, 0, "INIT", fc) }

\* n2 and n3 accept a block other than the one n1 processed for height 1;
\* n4, outside the suffrage, sends an INIT ballot.
MCForkSeals ==
    { Blt(n1, 1, 0, "INIT", fc), Blt(n2, 1, 0, "INIT", fc),
      Blt(n1, 1, 0, "ACCEPT", fc), Blt(n2, 1, 0, "ACCEPT", ff),
      Blt(n3, 1, 0, "ACCEPT", ff), Blt(n4, 1, 0, "INIT", fc) }

\* Height 1 goes to a second round after n1 and n2 accepted in the first.
MCRoundSeals ==
    { Blt(n1, 1, 0, "INIT", fc), Blt(n2, 1, 0, "INIT", fc),
      Blt(n1, 1, 1, "INIT", fc), Blt(n2, 1, 1, "INIT", fc),
      Blt(n1, 1, 0, "ACCEPT", fc), Blt(n2, 1, 0, "ACCEPT", fc) }

VpSummary == [height : Heights, round : Rounds, stage : BB!VoteStages,
              result : {"NOTYET", "MAJORITY", "DRAW"}, majority : Facts \cup {NoFact}]

TypeOK ==
    /\ records \in [BB!Keys -> [votes : [Nodes -> Facts \cup {NoFact}],
                                result : {"NOTYET", "MAJORITY", "DRAW"},
                                majority : Facts \cup {NoFact}]]
    /\ active \in Handlers
    /\ hactive \in [Handlers -> BOOLEAN]
    /\ stateChan \subseteq Handlers
    /\ manifest \in 0..MaxHeight
    /\ lastINIT \in [height : Heights, round : Rounds] \cup {None}
    /\ pc \in [Procs -> {"init", "idle", "check", "ah_read", "ah_switch",
                         "setlast", "deliver", "done", "stopped"}]
    /\ vp \in [Seals -> VpSummary \cup {None}]
    /\ target \in [Procs -> Handlers \cup {None}]
    /\ seen \in [Procs -> Handlers \cup {None}]
    /\ chk \in [Seals -> [height : Heights, round : Rounds] \cup {None}]
    /\ handled \in [BB!Keys -> Nat]
    /\ \A d \in delivered : d.vp \in VpSummary /\ d.handler \in Handlers
    /\ stopping \in {"running", "stopped"}

\* Spec 8.6: the supervisor is single-active. When no activateHandler is
\* between its read and its switch, exactly one handler is active, and it
\* is css.activeHandler.
SingleActiveHandler ==
    (\A p \in Procs : pc[p] # "ah_switch") =>
        {h \in Handlers : hactive[h]} = {active}

\* vote and Ballotbox together (states.go 407-429, spec 8.2): each finished
\* voteproof of a record enters newVoteproof exactly once while the record
\* lives, whichever of the concurrent seal goroutines finished it and
\* however many ballots of that record arrive afterwards.
FinishedHandledOnce ==
    \A k \in BB!Keys :
        /\ handled[k] <= 1
        /\ records[k].result # "NOTYET" => handled[k] = 1

\* Spec 4.5 step 3 (CheckACCEPTVoteproof, isaac/voteproof_checker.go
\* 172-185): an ACCEPT voteproof reaches the Consensus handler only when its
\* round is the round of the last INIT voteproof newVoteproof read.
AcceptMatchesLastINIT ==
    \A d \in delivered :
        d.handler = "CONSENSUS" /\ d.lastINIT # None =>
            CheckACCEPTVoteproof(d.vp, d.lastINIT)

\* Spec 4.7: on Stop the supervisor drains its loops and deactivates the
\* active handler (Stop, states.go 111-133). Once Stop has returned no
\* handler is active, even if an activateHandler of the stateChan loop or
\* of a seal goroutine was under way when Stop took css.Lock.
StoppedStaysStopped ==
    stopping = "stopped" => \A h \in Handlers : ~hactive[h]


\* newVoteproof sets the local state's last INIT voteproof (states.go 324-329)
\* after its checks, outside any lock. The handlers build their next ballots
\* from it (NewACCEPTBallotV0FromLocalstate, ballot_v0_accept.go 102-134)
\* and spec 4.5 step 3 and 8.7 compare rounds with it, so it never moves
\* back to an earlier height, or to an earlier round of one height.
LastINITNeverRegresses ==
    [][lastINIT # None /\ lastINIT' # None =>
         \/ lastINIT'.height > lastINIT.height
         \/ lastINIT'.height = lastINIT.height /\ lastINIT'.round >= lastINIT.round]_lastINIT

=============================================================================
