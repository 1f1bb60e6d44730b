SPECIFICATION MCSpec
CONSTANTS
    Symbols = {"S", "T"}
    Prices = {12, 24}
    Tickets <- MCTickets
    LiveTickets <- MCOneLive
    PutAccounts <- MCOnePut
    StartCash = 60
    MaxIntents = 2
    LastDay = 2
    MaxRestarts = 1
    Scenes = {"books", "orders"}
INVARIANTS TypeOK CashConserved RealizedMatchesLedger PositionsExplained NeverOverclosed TermsHonoured
PROPERTIES KeepsPromise
