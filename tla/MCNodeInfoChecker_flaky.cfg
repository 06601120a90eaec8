CONSTANTS
    r1 = r1
    r2 = r2
    NoInfo = NoInfo
    Remotes <- MCRemotes
    InitAlive = {r1}
    Flaky = TRUE
    MaxHeight = 2
SPECIFICATION Spec
INVARIANT NoSourceOverrun
