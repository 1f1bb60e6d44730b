SPECIFICATION MCSpec
CONSTANTS
    Handlers = {"first", "second"}
    Builtins <- MCBuiltins
    Extensions <- MCExtensions
    Configurations <- MCConfigurations
    MaxConfigures = 1
    BaseTargets <- MCBase
    Watchlists <- MCWatchlists
    Spelling <- MCSpelling
    Ladder <- MCLadder
    Limit <- MCLimit
    Window = 1
    Now <- MCNow
    Offered <- MCOffered
    MaxRequests = 2
    MaxFailures = 2
    Scenes = {"corridor", "crowd", "store", "quality", "calendar"}
    Years <- MCYears
    Samples <- MCSamples
INVARIANTS CorridorTypeOK CandlesJudged BudgetKept FailureLeavesTrace
PROPERTIES ServingGoesOn
