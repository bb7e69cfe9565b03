SPECIFICATION Spec
CONSTANTS
    a = a
    b = b
    t1 = t1
    t2 = t2
    Callers = {c1, c2}
    Tokens <- MCTokens
    UrlSets <- MCUrlSets
    FileSets <- MCFileSets
    MaxAge = 1
    Leeway = 0
    MaxCached = 1
    MaxGeneration = 2
    MaxTime = 2
    NoToken = NoToken
    Never = Never
SYMMETRY Symmetry
INVARIANTS
    TypeOK
    AcceptedAsVerified
    RevocationIsTimely
    SourcesInForce
