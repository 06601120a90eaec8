CONSTANTS
    n1 = n1
    n2 = n2
    n3 = n3
    fa = fa
    fb = fb
    NoFact = NoFact
    NoBallot = NoBallot
    Nodes <- MCNodes
    Facts <- MCFacts
    InitBallots <- MCBallots
    Faulty <- MCFaulty
    NetworkID = NetworkID
    NoVoteproof = NoVoteproof
    LastHeight = 0
    SignedRounds = {0}
    ProposedBlock <- MCProposedBlock
    Ratio = 66
    Heights = {1, 2}
    Rounds = {0, 1}
CONSTRAINT ScenarioSplit
SYMMETRY Symmetry
SPECIFICATION Spec
INVARIANT TypeOK
INVARIANT LatestIsMax
INVARIANT VotesAuthentic
