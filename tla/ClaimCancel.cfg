SPECIFICATION Spec
CONSTANTS
    Symbols = {"S"}
    Prices = {12, 24, 36}
    Tickets <- MCStopped
    StartCash = 120
    MaxIntents = 1
PROPERTIES CancelledStaysCancelled
