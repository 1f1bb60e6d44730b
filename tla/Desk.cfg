SPECIFICATION MCSpec
CONSTANTS
    Missions <- MCMissions
    Lessons = {"l"}
    Terms = {"t"}
    Exercise <- MCExercise
    Answers <- MCAnswerings
    Subjects <- MCSubjects
    Grades <- MCGrades
    TradeBook <- MCTradeBook
    Annotations <- MCEntries
    Listers = {r1, r2}
    MaxActive = 1
    MaxDay = 2
    MaxReps = 1
    LastTime = 200000000
    MaxListings = 2
    TradeKeys = {"trade1", "trade2"}
    OddKeys = {"odd"}
    DataKeys = {"data"}
    Values = {"a", "b", ""}
    Legacy <- MCLegacy
    MaxSaves = 3
    MaxBoots = 2
    MaxRefusals = 1
    Chain <- MCChain
    Client <- MCClient
    Tickets <- MCTickets
    RuleBook <- MCRuleBook
    MaxFilings = 3
    MaxChanges = 3
    Publishers = {"clock", "job"}
    Sockets = {"s", "u"}
    QueueMax = 1
    MaxEvents <- MCMaxEvents
    Scenes = {"studying", "earning", "habit", "slots", "overlap", "secrets", "trading", "events", "judging"}
    Samples <- MCSamples
SYMMETRY MCSymmetry
INVARIANTS AcademyTypeOK MissionsEarned SecretsKept OrdersGated EventsInOrder JudgementsSound
PROPERTIES RecordsStand
CHECK_DEADLOCK FALSE
