\* An integration that was never synced, whose listings do not change.
SPECIFICATION Spec
CONSTANTS
    Workers = {1}
    Conversations = {pr}
    Nil = Nil
    MaxLag = 0
    MaxTime = 3
    MaxFailures = 0
    MaxMoves = 0
CHECK_DEADLOCK FALSE
PROPERTIES OnlyFirstSyncSuppresses
