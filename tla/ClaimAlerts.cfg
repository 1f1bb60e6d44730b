SPECIFICATION FairSpec
CONSTANTS
    Symbols = {"S"}
    Prices = {1, 2}
    Drafts <- MCOneDraft
    Bindings = {FALSE}
    MaxAlerts = 1
    MaxEdits = 1
    MaxFailures = 0
PROPERTIES ArmedAlertsFire
