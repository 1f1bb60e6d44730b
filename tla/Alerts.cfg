SPECIFICATION FairSpec
CONSTANTS
    Symbols = {"S"}
    Prices = {1, 2}
    Drafts <- MCDrafts
    Bindings = {TRUE, FALSE}
    MaxAlerts = 2
    MaxEdits = 1
    MaxFailures = 1
INVARIANTS TypeOK OncePerArming
PROPERTIES BoundAlertsFire CyclesEnd
