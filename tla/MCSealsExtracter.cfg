\* An operation shared by two seals; lookups may fail and the deadline may pass.
CONSTANTS
    s1 = s1  s2 = s2  s3 = s3  o1 = o1  o2 = o2  o3 = o3  o4 = o4
    Absent = Absent  NilOp = NilOp
    Seals <- MCSeals
    Ops <- MCOps
    SealOps <- MCSharedOps
    Proposal <- MCProposal
    Timeouts = TRUE
    Failures = TRUE
SPECIFICATION Spec
INVARIANT TypeOK
INVARIANT NoOpLostOrDuplicated
PROPERTY ExtractRefines
\* Extract returns once; the model stops there (helpers left blocked stop too).
CHECK_DEADLOCK FALSE
