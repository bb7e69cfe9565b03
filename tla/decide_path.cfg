SPECIFICATION PathSpec
CONSTANTS
    r1 = r1
    a1 = a1
    t1 = t1
    t2 = t2
    i1 = i1
    i2 = i2
    x1 = x1
    d1 = d1
    bot = bot
    pay = pay
    risk = risk
    bad = bad
    fine = fine
    Requests = {r1}
    Admins = {a1}
    Ids = {i1, i2}
    Tokens = {t1, t2}
    Texts = {x1}
    Asks <- MCAsks
    Gates = {"free", "deny", "cost", "costBound", "signal", "signalBound", "floor"}
    TTL = 0
    MaxTime = 1
    PendingLimit = 1
    MaxAllows = 2
    SingleUse = TRUE
    RecordOpen = FALSE
    Durable = FALSE
    Faults = {"cut", "signer"}
    NoDigest = NoDigest
    NoAsk = NoAsk
    NoId = NoId
    NoToken = NoToken
    NoText = NoText
    NoClaims = NoClaims
    Policies <- MCPolicies
    Sets <- MCSets
    Bodies <- MCBodies
    NoOrg = NoOrg
    NoCall = NoCall
    NoModel = NoModel
    NoModelKey = NoModelKey
    NoRule = NoRule
    NoLimit = NoLimit
    AllTools = AllTools
    Fold <- MCFold
    Grantable = {pay}
    Pinnable = {bot}
    NoBasis = NoBasis
SYMMETRY Symmetry
INVARIANTS
    HumanApproved
    GrantKeepsItsToken
    QueueWithinLimit
    AllowsHaveGround
PROPERTIES
    ImplementsApprovals
