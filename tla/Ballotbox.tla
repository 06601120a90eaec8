------------------------------ MODULE Ballotbox ------------------------------
(***************************************************************************)
(* The Ballotbox of ISAAC consensus: a registry of VoteRecords keyed by    *)
(* (height, round, stage), each tallying at most one ballot per suffrage   *)
(* node and caching the Voteproof computed with the Threshold rules.      *)
(*                                                                         *)
(* The Go implementation of Ballotbox and FindMajority is not part of the  *)
(* sampled sources (only isaac/ballotbox_test.go is), so Vote, Clean,      *)
(* Empty and the majority finder follow spec.md sections 4.1, 4.3, 4.4.   *)
(* A VoteRecords entry that is absent from the map is represented by the  *)
(* empty record: the next Vote on that key creates it afresh.             *)
(***************************************************************************)
EXTENDS Integers, FiniteSets, FiniteSetsExt

CONSTANTS
    Nodes,       \* suffrage.Nodes(): the nodes whose ballots are counted
    Ratio,       \* policy thresholdRatio, in (0, 100]
    Heights,     \* heights of ballots the box may see
    Rounds,      \* rounds of ballots the box may see
    Facts,       \* fact hashes ballots may vote for
    NoFact,      \* no vote / no majority fact
    NoBallot     \* LatestBallot() before any vote

ASSUME Ratio \in 1..100 /\ NoFact \notin Facts

\* Only INIT, SIGN and ACCEPT ballots vote (Stage.CanVote).
VoteStages == {"INIT", "SIGN", "ACCEPT"}

Keys == Heights \X Rounds \X VoteStages

Ballot == [node : Nodes, height : Heights, round : Rounds,
           stage : VoteStages, fact : Facts]

\* Threshold: total is the suffrage size, threshold = ceil(total * ratio / 100).
Total == Cardinality(Nodes)
Thr == (Total * Ratio + 99) \div 100

-----------------------------------------------------------------------------
(* FindMajority over the votes of one record (spec 4.1).                   *)

Count(votes, f) == Quantify(Nodes, LAMBDA n : votes[n] = f)
Voted(votes) == Quantify(Nodes, LAMBDA n : votes[n] # NoFact)
MaxCount(votes) == Max({Count(votes, f) : f \in Facts})

\* MajorityNotYet / MajorityDraw / the fact whose count reaches threshold.
FindMajority(votes) ==
    IF \E f \in Facts : Count(votes, f) >= Thr
      THEN [result |-> "MAJORITY",
            majority |-> CHOOSE f \in Facts : Count(votes, f) >= Thr]
    ELSE IF Voted(votes) >= Thr \/ (Total - Voted(votes)) + MaxCount(votes) < Thr
      THEN [result |-> "DRAW", majority |-> NoFact]
    ELSE [result |-> "NOTYET", majority |-> NoFact]

-----------------------------------------------------------------------------
VARIABLES
    records,   \* the VoteRecords map: Keys -> record
    latest     \* the latest ballot seen, by (height, round)

bbVars == <<records, latest>>

EmptyRecord == [votes |-> [n \in Nodes |-> NoFact],
                result |-> "NOTYET", majority |-> NoFact]

KeyOf(b) == <<b.height, b.round, b.stage>>

\* Mutant: the latest-ballot comparison looks at the height only.
HigherThanHeightOnly(a, b) == a.height > b.height

\* (height, round) of a is strictly after that of b.
HigherThan(a, b) ==
    \/ a.height > b.height
    \/ a.height = b.height /\ a.round > b.round

\* The Voteproof a Vote call returns: the tally of the record after the call
\* and whether the record had already finished when the call arrived.
VoteproofOf(k, rec, closed) ==
    [height |-> k[1], round |-> k[2], stage |-> k[3],
     result |-> rec.result, majority |-> rec.majority,
     votes |-> rec.votes, closed |-> closed]

\* Mutant: the result and the majority fact are stored crosswise.
RecordAfterVoteSwapped(rec, b) ==
    IF rec.result # "NOTYET" \/ rec.votes[b.node] # NoFact
      THEN rec
      ELSE LET votes == [rec.votes EXCEPT ![b.node] = b.fact]
               m == FindMajority(votes)
           IN [votes |-> votes, result |-> m.majority, majority |-> m.result]

\* VoteRecords.Vote: a finished record returns its cached voteproof; a node
\* that already voted is ignored; otherwise the ballot is admitted and the
\* voteproof recomputed.
RecordAfterVote(rec, b) ==
    IF rec.result # "NOTYET" \/ rec.votes[b.node] # NoFact
      THEN rec
      ELSE LET votes == [rec.votes EXCEPT ![b.node] = b.fact]
               m == FindMajority(votes)
           IN [votes |-> votes, result |-> m.result, majority |-> m.majority]

\* Whether the ballot is admitted as a new vote of its record.
Admitted(rec, b) == rec.result = "NOTYET" /\ rec.votes[b.node] = NoFact

\* The latest-ballot pointer after b is voted.
LatestAfterVote(lt, rec, b) ==
    IF Admitted(rec, b) /\ (lt = NoBallot \/ HigherThan(b, lt)) THEN b ELSE lt

\* Mutant: closed is taken from the record after the vote, so the ballot
\* that finishes the record already sees it closed.
VoteResultClosedAfter(recs, b) ==
    LET k == KeyOf(b)
    IN VoteproofOf(k, RecordAfterVote(recs[k], b),
                   RecordAfterVote(recs[k], b).result # "NOTYET")

\* The Voteproof Ballotbox.Vote(b) returns.
VoteResult(recs, b) ==
    LET k == KeyOf(b)
    IN VoteproofOf(k, RecordAfterVote(recs[k], b), recs[k].result # "NOTYET")

\* Ballotbox.Vote as one step (the record's mutex makes the tally atomic).
\* A ballot from a node outside the suffrage fails with NotInSuffrage.
BoxVote(b) ==
    /\ b.node \in Nodes
    /\ records' = [records EXCEPT ![KeyOf(b)] = RecordAfterVote(@, b)]
    /\ latest' = LatestAfterVote(latest, records[KeyOf(b)], b)

\* Ballotbox.Clean(height): drop every record with height <= height.
BoxClean(h) ==
    /\ records' = [k \in Keys |-> IF k[1] <= h THEN EmptyRecord ELSE records[k]]
    /\ UNCHANGED latest

\* Ballotbox.Empty(): drop every record and the latest ballot.
BoxEmpty ==
    /\ records' = [k \in Keys |-> EmptyRecord]
    /\ latest' = NoBallot

BoxInit ==
    /\ records = [k \in Keys |-> EmptyRecord]
    /\ latest = NoBallot

=============================================================================
