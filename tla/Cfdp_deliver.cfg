SPECIFICATION FairSpec
CONSTANTS
    photo = photo
    Txn = {photo}
    Foreign = {}
    ForeignSegs <- Unsent
    Size <- Sizes
    SegSize = 2
    Closure = {photo}
    Handler <- Handlers
    Default <- Defaults
    Type <- Types
    Discard = TRUE
    CheckLimit = 0
    MaxCancels = 1
    MaxSuspends = 1
    MaxDups = 1
    MaxOpenFails = 1
CHECK_DEADLOCK FALSE
INVARIANTS
    TypeOK
    ReceivedIsWritten
    DeliveredFileStays
    ClosureInStep
PROPERTIES
    TransactionsEnd
