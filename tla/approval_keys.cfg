SPECIFICATION FairSpec
CONSTANTS
    Keys = {k1, k2, k3}
    First = k1
    Procs = {p1}
    Grants = {g1, g2}
    Lead = 2
    MaxTime = 5
    NoKid = NoKid
    NoToken = NoToken
    NoFetch = NoFetch
INVARIANTS
    TypeOK
    FreshSetVerifies
PROPERTIES
    WithdrawnKeysLeave
