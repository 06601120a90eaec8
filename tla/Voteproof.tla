------------------------------ MODULE Voteproof ------------------------------
(***************************************************************************)
(* VoteproofV0.IsValid (isaac/voteproof_v0.go): the validity rules a node  *)
(* applies to a Voteproof, for instance one embedded in a received ballot. *)
(* A voteproof is the record VoteproofOf builds in Ballotbox: its votes    *)
(* map is a function from suffrage nodes to facts (NoFact: no vote), so   *)
(* the ballots and votes maps share their keys by construction and the    *)
(* facts map is the set of voted facts.                                     *)
(***************************************************************************)
EXTENDS Ballotbox

VotedNodes(vp) == {n \in Nodes : vp.votes[n] # NoFact}
VpFacts(vp) == {vp.votes[n] : n \in VotedNodes(vp)}

\* isValidFields: a finished result, a majority fact unless the result is a
\* draw, and non-empty facts, ballots and votes.
IsValidFields(vp) ==
    /\ vp.result \in {"MAJORITY", "DRAW"}
    /\ vp.majority = NoFact => vp.result = "DRAW"
    /\ VpFacts(vp) # {}
    /\ VotedNodes(vp) # {}

\* isValidCheckMajority: the counts are collected by ranging over a Go map,
\* and byCount[c] keeps the fact met last with count c; the majority fact
\* is byCount[set[index]]. The check must pass whatever order the map
\* ranges in, so every fact sharing the winning count must be the majority.
IsValidCheckMajority(vp) ==
    LET m == FindMajority(vp.votes)
        c == Count(vp.votes, m.majority)
        byCount == {f \in VpFacts(vp) : Count(vp.votes, f) = c}
    IN /\ vp.result = m.result
       /\ IF m.result = "MAJORITY"
            THEN byCount = {vp.majority}
            ELSE vp.majority = NoFact

\* IsValid: with fewer votes than the threshold the result must be NotYet,
\* which isValidFields has already refused.
IsValid(vp) ==
    /\ IsValidFields(vp)
    /\ IF Voted(vp.votes) < Thr
         THEN vp.result = "NOTYET"
         ELSE IsValidCheckMajority(vp)

=============================================================================
