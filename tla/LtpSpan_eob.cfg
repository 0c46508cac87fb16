SPECIFICATION Spec
CONSTANTS
    a = a
    b = b
    Client = {a, b}
    Offers <- Traffic
    Units <- Sends
    MaxExportSessions = 1
    AggrSizeLimit = 2
    MaxTimeouts = 1
    MaxCheckpoints = 2
    Purge = TRUE
    MaxBreaks = 1
CHECK_DEADLOCK FALSE
INVARIANTS NoTransactionLeftOpen
