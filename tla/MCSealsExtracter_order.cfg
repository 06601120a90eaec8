\* An operation shared by two seals: the slice depends on storage and map order.
CONSTANTS
    s1 = s1  s2 = s2  s3 = s3  o1 = o1  o2 = o2  o3 = o3  o4 = o4
    Absent = Absent  NilOp = NilOp
    Seals <- MCSeals
    Ops <- MCOps
    SealOps <- MCSharedOps
    Proposal <- MCProposal
    Timeouts = FALSE
    Failures = FALSE
SPECIFICATION Spec
INVARIANT ExtractMatchesProposal
\* Extract returns once; the model stops there (helpers left blocked stop too).
CHECK_DEADLOCK FALSE
