\* Reloads one after the other, close together.
SPECIFICATION Spec
CONSTANTS
    Integrations = {gh}
    Fetchable = {gh}
    Reloads = {r1, r2}
    Start = start
    None = none
    DBErrors = FALSE
CHECK_DEADLOCK FALSE
PROPERTIES SequentialReloadStopsAll
