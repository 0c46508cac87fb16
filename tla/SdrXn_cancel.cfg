SPECIFICATION FairSpec
CONSTANTS
    t1 = t1
    t2 = t2
    c1 = c1
    c2 = c2
    v0 = v0
    v1 = v1
    NoTask = NoTask
    Task = {t1, t2}
    Cell = {c1, c2}
    Val = {v0, v1}
    InitVal = v0
    Profiles <- AnyProfile
    Ends = {"end", "cancel", "crash"}
    Faults = {}
    MaxDepth = 2
    MaxLog = 6
    MaxFaults = 0
INVARIANTS TypeOK ImagesAgree ReversalRestores ReversalNeverStuck NoStaleCancel OnlyOwnerInside
PROPERTIES AllOrNothing MutexReleased
