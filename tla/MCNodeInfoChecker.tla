-------------------------- MODULE MCNodeInfoChecker --------------------------
(***************************************************************************)
(* Two remotes reporting last-block heights 0..2 to a node outside the     *)
(* suffrage. The cfgs choose which remotes are alive and whether that     *)
(* changes while the checker runs.                                         *)
(***************************************************************************)
EXTENDS NodeInfoChecker, TLC

CONSTANTS r1, r2

MCRemotes == {r1, r2}

TypeOK ==
    /\ alive \subseteq Remotes
    /\ cpc \in {"idle", "wait", "drain", "stopped"}
    /\ ctxDone \in BOOLEAN
    /\ wg \in 0..Cardinality(Remotes)
    /\ req \subseteq Remotes
    /\ resultch \in Seq(Heights)
    /\ lastHeight \in Heights \cup {NilHeight}
    /\ wnh \in [Heights -> {"none", "lock", "fill", "done"}]
    /\ wn \in [Heights -> 0..Cardinality(Remotes)]
    /\ holder \in Heights \cup {NilHeight}
    /\ added \in Seq(Heights)
    /\ panicked \in BOOLEAN
    /\ syncs \in BOOLEAN

\* nodeInfoChecker.start (57-79): the ticker loop keeps checking; every
\* check returns from wg.Wait and from draining resultch, so the checker is
\* back at its select (or stopped by Exit) infinitely often.
CheckerKeepsPolling == []<>(cpc \in {"idle", "stopped"})

\* SyncingStateNoneSuffrage.Exit (210-223) stops the checker: once nc.Stop
\* canceled its ctx, start returns, even when Exit came in the middle of a
\* check whose requests still run.
ExitStopsChecker == ctxDone ~> cpc = "stopped"

\* whenNewHeight (238-246): the second traversal of the alive remotes never
\* finds more of them than the count the slice was made with.
NoSourceOverrun == ~panicked

=============================================================================
