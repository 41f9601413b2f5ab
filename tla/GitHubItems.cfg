\* Two pull requests change while Fetches read them.
SPECIFICATION FairSpec
CONSTANTS
    PRs = {1, 2}
    People = {"me", "ann", "bob"}
    Me = "me"
    Author <- MCAuthor
    Spaces = 2
    Space <- MCSpace
    PageSize = 1
    TeammateLists <- MCTeammates
    MinReviewCounts = {1, 2}
    MaxChanges = 2
    MaxFailures = 1
INVARIANTS TypeOK ReportsWhatHeld ReportsWhatLasts
PROPERTY Reported
