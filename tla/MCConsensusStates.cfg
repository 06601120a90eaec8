CONSTANTS
    n1 = n1
    n2 = n2
    n3 = n3
    n4 = n4
    fc = fc
    ff = ff
    NoFact = NoFact
    NoBallot = NoBallot
    None = None
    Loop = Loop
    Stoppable = TRUE
    Nodes <- MCNodes
    Facts <- MCFacts
    Seals <- MCClosedSeals
    Local = n1
    Canon = fc
    Ratio = 66
    Heights = {1, 2, 3, 4}
    Rounds = {0}
    MaxHeight = 4
SPECIFICATION Spec
CHECK_DEADLOCK FALSE
INVARIANT TypeOK
INVARIANT FinishedHandledOnce
