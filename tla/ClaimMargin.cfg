SPECIFICATION Spec
CONSTANTS
    Symbols = {"S"}
    Prices = {12, 24, 36}
    Tickets <- MCShort
    LiveTickets <- MCNoLive
    PutAccounts <- MCNoPut
    StartCash = 120
    MaxIntents = 1
    LastDay = 1
    MaxRestarts = 0
INVARIANTS MarginIsReturned
