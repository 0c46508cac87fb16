SPECIFICATION FairSpec
CONSTANTS
    RedLength = 2
    MaxTimeouts = 1
    MaxCheckpoints = 2
    MaxReports = 2
    MaxClaims = 20
    MaxBacklog = 2
CHECK_DEADLOCK FALSE
INVARIANTS
    TypeOK
    ClaimsAreTrue
    QuietClosing
PROPERTIES
    BlockSpec
    ExportEnds
    ReceivedIsDelivered
