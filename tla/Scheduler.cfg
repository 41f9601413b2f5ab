\* Start, saves and Reloads at any time, listings that may fail, under the
\* fairness of the goroutines.
SPECIFICATION FairSpec
CONSTANTS
    Integrations = {gh, jira}
    Fetchable = {gh}
    Reloads = {r1, r2}
    Start = start
    None = none
    DBErrors = TRUE
CHECK_DEADLOCK FALSE
INVARIANTS
    TypeOK
    RegisteredIsRunning
    Covered
    OnePollerPerIntegration
PROPERTIES
    ReloadStopsAll
    ImplementsPolling
    StoppedExits
    KeepsSyncing
