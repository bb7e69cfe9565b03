CONSTANTS
    Policies <- MCPolicies
    Requests <- MCRequests
    MaxSet = 2
    NoOrg = NoOrg
    NoCall = NoCall
    NoModel = NoModel
    NoModelKey = NoModelKey
    NoRule = NoRule
    NoLimit = NoLimit
    AllTools = AllTools
    Fold <- MCFold
    Grantable = {pay, Pay, mail}
    Pinnable = {bot}
    NoRequest = NoRequest
    bot = bot
    bare = bare
    acme = acme
    corp = corp
    pay = pay
    Pay = Pay
    star = star
    mail = mail
    user = user
    robot = robot
    large = large
    risk = risk
    bad = bad
    agentToken = agentToken
    clientKey = clientKey
    web = web
    none = none
SPECIFICATION Spec
INVARIANT RestrictionsNarrow
