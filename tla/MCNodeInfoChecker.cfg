CONSTANTS
    r1 = r1
    r2 = r2
    NoInfo = NoInfo
    Remotes <- MCRemotes
    InitAlive <- MCRemotes
    Flaky = FALSE
    MaxHeight = 2
SPECIFICATION StableSpec
INVARIANT TypeOK
PROPERTY CheckerKeepsPolling
PROPERTY ExitStopsChecker
