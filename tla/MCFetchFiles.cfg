SPECIFICATION MCSpec
CONSTANTS
    Downloads <- MCDownloads
    Targets = {"home", "moved"}
    GivenPaths = {"shared"}
    Shared = "shared"
    Filters <- MCFilters
    Refusals = 1
    MaxRetries = 2
    MaxEvents = 3
INVARIANTS  AppsFindWhatTheyAreTold ContentIsKept NothingIsLost
PROPERTY FetchesComeThrough
CHECK_DEADLOCK FALSE
