\* Two collections, heights 1..3 to sync, batches of two, two sessions;
\* database writes may fail and the process may crash.
CONSTANTS
    c1 = c1  c2 = c2
    Cols <- MCCols
    Base = 0
    Top = 3
    Limit = 2
    MaxSessions = 2
    Failures = TRUE
    Crashes = TRUE
SPECIFICATION Spec
INVARIANT TypeOK
INVARIANT LastBlockCovered
INVARIANT CommittedMovesAll
\* Syncing ends when the last session is closed or MaxSessions is reached.
CHECK_DEADLOCK FALSE
