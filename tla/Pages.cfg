\* Two tabs, one pull request and one issue.
SPECIFICATION FairSpec
CONSTANTS
    t1 = t1
    t2 = t2
    pr = pr
    own = own
    issue = issue
    prItem = prItem
    issueItem = issueItem
    Tabs = {t1, t2}
    Opened <- MCOpened
    Items = {prItem, issueItem}
    Stored = {issueItem}
    PRs = {pr, own}
    Issues = {issue}
    Mine = {own}
    ThingOf <- MCThingOf
    Rank <- MCRank
    Limit = 1
    MaxRequests = 2
    MaxFailures = 1
CHECK_DEADLOCK FALSE
INVARIANTS
    TypeOK
    PostedOnce
    PageTellsThread
    GateHolds
PROPERTIES
    SeenOnSuccess
    FeedConverges
