SPECIFICATION Spec
CONSTANTS
    r1 = r1
    r2 = r2
    a1 = a1
    a2 = a2
    t1 = t1
    t2 = t2
    i1 = i1
    i2 = i2
    x1 = x1
    x2 = x2
    d1 = d1
    Requests = {r1}
    Admins = {a1}
    Ids = {i1}
    Tokens = {t1}
    Texts = {x1}
    Asks <- OneAsk
    Gates = {"cost"}
    TTL = 0
    MaxTime = 0
    PendingLimit = 1
    MaxAllows = 2
    SingleUse = TRUE
    RecordOpen = FALSE
    Durable = TRUE
    Faults = {"readback"}
    NoDigest = NoDigest
    NoAsk = NoAsk
    NoId = NoId
    NoToken = NoToken
    NoText = NoText
    NoClaims = NoClaims
INVARIANTS
    GrantKeepsItsToken
