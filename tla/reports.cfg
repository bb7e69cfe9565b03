SPECIFICATION FairSpec
CONSTANTS
    Ids = {i1, i2}
    Agents = {a1}
    Handlers = {h1}
    Sweeper = Sweeper
    MaxRestarts = 1
    NoEvent = NoEvent
INVARIANTS
    TypeOK
    ReportedOnce
    ReadyUnlessOvertaken
PROPERTIES
    OverdueIsReported
