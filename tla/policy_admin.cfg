SPECIFICATION Spec
CONSTANTS
    Procs = {p1, p2}
    Handlers = {h1, h2}
    Ids = {k1}
    Orgs = {acme}
    Rules = {rule}
    CrossAdmins = TRUE
    Faults = {"store", "archive", "crash"}
    NoOrg = NoOrg
    NoPolicy = NoPolicy
SYMMETRY Symmetry
INVARIANTS
    SetsInForceAreKept
    PartsOnlyWhenOvertaken
PROPERTIES
    WritesOwnPolicies
