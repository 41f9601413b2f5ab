SPECIFICATION Spec
CONSTANTS
    Issues = {1, 2, 3}
    Bugs = {2}
    Created = {1, 2}
    Commented = {1}
    Placements <- MCPlacements
    Spaces = 2
    Space <- MCSpace
    Sprints = 2
    Names = {"me", "other"}
    Nobody = ""
    Me = "me"
    PageSize = 1
    BoardTypes <- MCBoardTypes
    AccountIDs = {""}
    MaxChanges = 2
    MaxFailures = 1
PROPERTIES OnlyMine
