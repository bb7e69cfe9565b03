SPECIFICATION Spec
CONSTANTS
    Procs = {p1}
    Handlers = {h1, h2}
    Ids = {k1, k2}
    Orgs = {acme}
    Rules = {rule}
    CrossAdmins = TRUE
    Faults = {}
    NoOrg = NoOrg
    NoPolicy = NoPolicy
INVARIANTS
    EngineMatchesStore
