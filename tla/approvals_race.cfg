SPECIFICATION Spec
CONSTANTS
    r1 = r1
    r2 = r2
    a1 = a1
    a2 = a2
    t1 = t1
    t2 = t2
    i1 = i1
    i2 = i2
    x1 = x1
    x2 = x2
    d1 = d1
    Requests = {r1, r2}
    Admins = {a1, a2}
    Ids = {i1, i2}
    Tokens = {t1, t2}
    Texts = {x1, x2}
    Asks <- OneAsk
    Gates = {"cost", "floor"}
    TTL = 0
    MaxTime = 1
    PendingLimit = 1
    MaxAllows = 2
    SingleUse = TRUE
    RecordOpen = FALSE
    Durable = TRUE
    Faults = {"store", "readback", "record", "signer", "cut", "reply"}
    NoDigest = NoDigest
    NoAsk = NoAsk
    NoId = NoId
    NoToken = NoToken
    NoText = NoText
    NoClaims = NoClaims
CONSTRAINT TwoInFlight
SYMMETRY Symmetry
INVARIANTS
    TypeOK
    OneTokenPerGrant
    TextReleasesOneAllow
    AnswersAreRecorded
    OnePendingPerCall
PROPERTIES
    ImplementsContract
