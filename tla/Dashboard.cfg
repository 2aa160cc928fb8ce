SPECIFICATION FairSpec
CONSTANTS
    MaxHandles = 2
    Views <- MCViews
    BookStale = 3
    RestUnavailable = 4
    MaxFailures = 1
    MaxRequests = 2
INVARIANTS
    OneStreamWhileMounted
PROPERTIES
    DepthNeverGoesBack
    PageConverges
    OutageShows
CHECK_DEADLOCK FALSE
