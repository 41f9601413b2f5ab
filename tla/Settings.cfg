SPECIFICATION FairSpec
CONSTANTS
    Tabs = {t1, t2}
    NoTab = NoTab
    Ids <- MCIds
    Earlier <- MCEarlier
    Providers = {"github", "jira"}
    Tokens = {"tok1"}
    Names = {"a", "b"}
    Blank = Blank
    Boards <- MCBoards
    GeneralKeys = {"min_review_count", "feed_columns"}
    WeightKeys = {"pr_approved"}
    Lowest <- MCLowest
    Highest <- MCHighest
    Inputs <- MCInputs
    Forms = {"integration", "spaces", "teammates", "prerequisites", "general", "weights", "sync"}
    MaxRequests = 2
    MaxFailures = 1
INVARIANTS
    TypeOK
    LastReloadPushes
PROPERTIES
    WholeLists
    SavedAsPosted
    Answered
CHECK_DEADLOCK FALSE
