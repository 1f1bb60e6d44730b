SPECIFICATION Spec
CONSTANTS
    Symbols = {"S"}
    Prices = {12, 24}
    Tickets <- MCRaceTickets
    StartCash = 120
    MaxIntents = 2
INVARIANTS TypeOK FilledOnce ExposureBounded LedgerBalances CashBalances
