CONSTANTS
    r1 = r1
    r2 = r2
    NoInfo = NoInfo
    Remotes <- MCRemotes
    InitAlive = {r1}
    Flaky = FALSE
    MaxHeight = 2
SPECIFICATION Spec
\* The checker blocked in wg.Wait stops every step: the hang itself.
CHECK_DEADLOCK FALSE
PROPERTY CheckerKeepsPolling
