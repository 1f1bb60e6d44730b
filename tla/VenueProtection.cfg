SPECIFICATION MCProtection
CONSTANTS
    Symbols = {"S"}
    Prices = {12, 24, 36}
    Tickets <- MCBracketTickets
    LiveTickets <- MCNoLive
    PutAccounts <- MCNoPut
    StartCash = 120
    MaxIntents = 2
    LastDay = 2
    MaxRestarts = 1
INVARIANTS BracketsEnforced
PROPERTIES TrailNeverLoosens StopOutIsOneR OrdersSettle StopsFire
