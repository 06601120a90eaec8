----------------------------- MODULE MCBallotbox -----------------------------
(***************************************************************************)
(* Model of the Ballotbox fed by ballots: three suffrage nodes voting INIT *)
(* ballots for two facts at (1,0), (1,1) and (2,0); the honest n1 and n2   *)
(* also sign SIGN and ACCEPT ballots at (1,0), and the faulty n3 relays    *)
(* ballots it assembles; Clean and Empty may run in between.              *)
(***************************************************************************)
EXTENDS Ballot, TLC

CONSTANTS n1, n2, n3, fa, fb

MCNodes == {n1, n2, n3}
MCFacts == {fa, fb}

\* INIT ballots of every node for every fact at three (height, round) pairs:
\* enough to finish a record with a majority or a draw, to move to a later
\* round and height, and to re-send a ballot of an older round.
MCBallots ==
    [node : MCNodes, height : {1}, round : {0, 1}, stage : {"INIT"}, fact : MCFacts]
    \cup [node : MCNodes, height : {2}, round : {0}, stage : {"INIT"}, fact : MCFacts]

MCFaulty == {n3}
MCProposedBlock == [r \in {0} |-> fa]

\* The rounds of INIT ballots are checked apart from the signed ballots:
\* once a SIGN or ACCEPT ballot is broadcast or voted no INIT vote of (1,1) or
\* (2,0) is explored, and the INIT votes of (1,0) are the honest nodes'
\* votes for the block that round's proposal then made; votes go into the
\* SIGN or the ACCEPT record of (1,0), not both, while both kinds of ballot
\* may have been broadcast.
ScenarioSplit ==
    \/ sent = {} /\ \A k \in Keys : k[3] \in SignStages => records[k] = EmptyRecord
    \/ /\ \A k \in Keys : <<k[1], k[2]>> # <<1, 0>> => records[k] = EmptyRecord
       /\ \A n \in Nodes : records[<<1, 0, "INIT">>].votes[n] \in
              IF n \in Faulty THEN {NoFact} ELSE {NoFact, MCProposedBlock[0]}
       /\ \E st \in SignStages : records[<<1, 0, st>>] = EmptyRecord

\* The honest nodes are interchangeable; the faulty one is not.
Symmetry == Permutations(MCNodes \ MCFaulty)

TypeOK ==
    /\ records \in [Keys -> [votes : [Nodes -> Facts \cup {NoFact}],
                             result : {"NOTYET", "MAJORITY", "DRAW"},
                             majority : Facts \cup {NoFact}]]
    /\ latest \in Ballot \cup {NoBallot}
    /\ \A b \in sent : b.node \in Honest /\ b.stage \in SignStages
                      /\ b.fact.newBlock \in Facts

\* LatestBallot (spec 4.3, test TestLatestBallot): the latest ballot is at
\* least as high, by (height, round), as every ballot tallied in a record,
\* even after older rounds are re-sent.
LatestIsMax ==
    \A k \in Keys :
        (\E n \in Nodes : records[k].votes[n] # NoFact) =>
            /\ latest # NoBallot
            /\ \/ k[1] < latest.height
               \/ k[1] = latest.height /\ k[2] <= latest.round

\* Ballot signing and IsValid (ballot_v0_sign.go, ballot_v0_accept.go): a
\* SIGN or ACCEPT vote the Ballotbox counts for an honest node is for a
\* fact that node signed at that height and round, whatever ballots the
\* faulty node assembles out of the signatures it has seen.
VotesAuthentic ==
    \A k \in Keys, n \in Honest :
        k[3] \in SignStages /\ records[k].votes[n] # NoFact =>
            \E b \in sent : /\ b.node = n
                           /\ b.fact.height = k[1] /\ b.fact.round = k[2]
                           /\ b.fact.newBlock = records[k].votes[n]

=============================================================================
