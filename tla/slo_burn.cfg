SPECIFICATION Spec
CONSTANTS
    a = a
    Junk = Junk
    Agents <- MCAgents
    Burns <- MCBurns
    Indicators = {1, 2}
    MaxAge = 0
    ClockLeeway = 0
    MaxLines = 2
    MaxChanges = 3
    MaxTime = 1
INVARIANTS
    TypeOK
    SignalStandsOnTheFile
PROPERTIES
    FollowsTheFile
