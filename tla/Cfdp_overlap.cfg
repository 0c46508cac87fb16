SPECIFICATION Spec
CONSTANTS
    photo = photo
    Txn = {}
    Foreign = {photo}
    ForeignSegs <- Overlapping
    Size <- Sizes
    SegSize = 2
    Closure = {}
    Handler <- Handlers
    Default <- Defaults
    Type <- Types
    Discard = TRUE
    CheckLimit = 0
    MaxCancels = 0
    MaxSuspends = 0
    MaxDups = 1
    MaxOpenFails = 0
CHECK_DEADLOCK FALSE
INVARIANTS
    ReceivedIsWritten
