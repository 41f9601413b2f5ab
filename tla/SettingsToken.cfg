SPECIFICATION Spec
CONSTANTS
    Tabs = {t1, t2}
    NoTab = NoTab
    Ids <- MCIds
    Earlier <- MCEarlier
    Providers = {"github", "jira"}
    Tokens = {"tok1", "tok2"}
    Names = {"a", "b"}
    Blank = Blank
    Boards <- MCBoards
    GeneralKeys = {"min_review_count", "feed_columns"}
    WeightKeys = {"pr_approved", "jira_comment"}
    Lowest <- MCLowest
    Highest <- MCHighest
    Inputs <- MCInputs
    Forms = {"integration"}
    MaxRequests = 2
    MaxFailures = 0
PROPERTIES
    BlankKeepsToken
CHECK_DEADLOCK FALSE
