SPECIFICATION FairSpec
CONSTANTS
    p1 = p1
    p2 = p2
    k1 = k1
    k2 = k2
    Procs = {p1, p2}
    Callers = {c1, c2}
    Proofs <- MCProofs
    Window <- MCWindow
    MaxAge = 2
    Grace = 2
    Timeout = 1
    Lag = 1
    Cap = 1
    MaxTime = 6
INVARIANTS
    TypeOK
    AcceptedOnce
PROPERTIES
    RefusedForCause
    RowsAreDropped
