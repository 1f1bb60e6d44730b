SPECIFICATION MCSpec
CONSTANTS
    Series <- MCSeries
    Growing = {"live"}
    Kinds <- MCKinds
    MaxCandles = 3
    MaxDelisted = 1
    Window = 1
    Horizon = 1
    ListLimit = 2
    Reporters = {"r1", "r2"}
    MaxRevisions = 1
    MaxFailures = 1
    Scenes = {"caching", "reporting", "setup", "trade", "evidence", "indicators", "market", "study"}
    Readings <- MCReadings
    Trades <- MCTrades
    Evidence <- MCEvidence
    Histories <- MCHistories
    Markets <- MCMarkets
    Studies <- MCStudies
INVARIANTS EngineTypeOK ServedIsCalibrated FirstTouchKept EvaluationsHold
PROPERTIES EngineCatchesUp RowsResolve
