\* A rescore on request and the Scorer's, among syncs, clicks and failures.
SPECIFICATION FairSpec
CONSTANTS
    pr = pr
    bug = bug
    Items = {pr}
    PRItems = {pr}
    TypeOf <- MCTypeOf
    PageOf <- MCPageOf
    Reviewers = {ann}
    Integrations = {gh, jira}
    Weights = {1, 5}
    AgeSettings <- MCAgeSettings
    Scorer = scorer
    Rescorers = {req}
    None = None
    MaxHours = 1
    MaxChanges = 2
    MaxFailures = 1
INVARIANTS
    TypeOK
    ScoresConsistent
PROPERTIES
    UserMarksLast
    OnlyUpsertCreates
    EventuallyFresh
