SPECIFICATION FairSpec
CONSTANTS
    Requests = {hover, shutdown}
    Sends = {s1}
    OutWindow = 2
    InWindow = 1
    None = None
CHECK_DEADLOCK FALSE
PROPERTIES LossEndsEveryCall
