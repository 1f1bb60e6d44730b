SPECIFICATION Spec
CONSTANTS
    Symbols = {"S"}
    Prices = {12, 24, 36}
    Tickets <- MCAdded
    LiveTickets <- MCNoLive
    PutAccounts <- MCNoPut
    StartCash = 120
    MaxIntents = 2
    LastDay = 1
    MaxRestarts = 0
PROPERTIES PlanStopsAct
