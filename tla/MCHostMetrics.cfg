SPECIFICATION FairSpec
CONSTANTS
    Polls = {p1, p2, p3, p4}
    Workspaces = {home, project}
    MaxGeneration = 6
    None = None
CHECK_DEADLOCK FALSE
INVARIANTS OneLoop TimerDisarmable
PROPERTIES KeepsDelivering
