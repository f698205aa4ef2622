SPECIFICATION Spec
CONSTANTS
    Polls = {p1, p2, p3}
    Workspaces = {home}
    MaxGeneration = 4
    None = None
CHECK_DEADLOCK FALSE
INVARIANTS NoOverlap
