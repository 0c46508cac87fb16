SPECIFICATION Spec
CONSTANTS
    ours = ours
    multi = multi
    urgent = urgent
    n1 = n1
    n2 = n2
    Key = {ours, multi, urgent}
    Critical = {urgent}
    Neighbor = {n1, n2}
    Local = {ours}
    Dest <- ThreeDest
    Arrivals <- AtMostOnce
    MaxBundles = 3
SYMMETRY Same
CHECK_DEADLOCK FALSE
INVARIANTS
    TypeOK
    
    HashTrue
PROPERTIES
    OneCustodian
