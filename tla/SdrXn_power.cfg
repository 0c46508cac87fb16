SPECIFICATION Spec
CONSTANTS
    t1 = t1
    t2 = t2
    c1 = c1
    c2 = c2
    v0 = v0
    v1 = v1
    NoTask = NoTask
    Task = {t1, t2}
    Cell = {c1, c2}
    Val = {v0, v1}
    InitVal = v0
    Profiles <- FileLog
    Ends = {"end"}
    Faults = {"power"}
    MaxDepth = 2
    MaxLog = 6
    MaxFaults = 1
INVARIANTS ImagesAgree NeverWrecked
PROPERTIES PowerKeepsStore
