-------------------------- MODULE MCSealsExtracter --------------------------
(***************************************************************************)
(* SealsExtracter instantiated for TLC: three seals and four operations.   *)
(***************************************************************************)
EXTENDS SealsExtracter

CONSTANTS s1, s2, s3, o1, o2, o3, o4

MCSeals == {s1, s2, s3}
MCOps == {o1, o2, o3, o4}

\* Operations of different seals are distinct; s1 repeats o1.
MCDisjointOps == (s1 :> <<o1, o2, o1>>) @@ (s2 :> <<o3>>) @@ (s3 :> <<o4>>)

\* The same operation o2 sent in two seals.
MCSharedOps == (s1 :> <<o2, o1>>) @@ (s2 :> <<o3, o2>>) @@ (s3 :> <<o4>>)

MCProposal == <<s1, s2, s3>>

-----------------------------------------------------------------------------

\* Every operation of the proposal's seals.
ProposalOps == UNION {ToSet(SealOps[s]) : s \in ToSet(Proposal)}

\* What a node holding every seal in its database computes: the seals'
\* operations in proposal order, each at its first occurrence.
Reference ==
    FilterDuplicated(FlattenSeq([k \in 1..Len(Proposal) |-> SealOps[Proposal[k]]]))

TypeOK ==
    /\ stored \subseteq Seals
    /\ pc \in {"storage", "swait", "channel", "cwait", "apply", "assemble",
               "done", "failed"}
    /\ i \in 1..Len(Proposal) + 1
    /\ notFounds \in Seq(Seals)
    /\ opsBySeals \in [Seals -> Seq(Ops) \cup {Absent}]
    /\ founds \subseteq Ops
    \* founds deduplicates, so opsCount never exceeds the distinct operations
    /\ count \in 0..Cardinality(ProposalOps)
    /\ sh \in {"none", "run", "send", "hung"}
    /\ ch \in {"none", "run", "send", "hung"}
    /\ left \subseteq Seals
    /\ result \in Seq(Ops \cup {NilOp})

\* Extract returns every operation of the proposal's seals exactly once,
\* with no zero-valued slot left in the slice made from opsCount.
NoOpLostOrDuplicated ==
    pc = "done" =>
        /\ ToSet(result) = ProposalOps
        /\ IsInjective(result)

\* A node returns the same slice as a node holding every seal in storage,
\* whatever its database holds and whatever order Go ranges over m in: the
\* block built from the proposal is the same on every node.
ExtractMatchesProposal ==
    pc = "done" => result = Reference

\* Refinement mapping: Extract is running until the caller's goroutine
\* reaches done or failed; the slice it returns is result.
Abs == INSTANCE ExtractSpec
           WITH Wanted <- ProposalOps,
                CanFail <- Timeouts \/ Failures,
                status <- CASE pc = "done" -> "ok"
                            [] pc = "failed" -> "failed"
                            [] OTHER -> "running",
                returned <- result

\* Extract implements its promise: every call returns, even when database.Seal
\* or the proposer's context.TODO() request never answers, and what it returns
\* is each operation of the proposal's seals exactly once, or an error that
\* only a failed lookup or an expired ctx can cause.
ExtractRefines == Abs!AbsSpec

=============================================================================
