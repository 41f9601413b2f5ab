\* Launches, failures, crashes, late writes, comments that trail the clock and
\* listings that change, under fairness of the goroutines.
SPECIFICATION FairSpec
CONSTANTS
    Workers <- MCWorkers
    Conversations = {pr}
    Nil = Nil
    MaxLag = 1
    MaxTime = 2
    MaxFailures = 1
    MaxMoves = 1
CHECK_DEADLOCK FALSE
INVARIANTS TypeOK NoneSkipped
PROPERTIES ImplementsFeed EveryCommentShown
