SPECIFICATION Spec
CONSTANTS
    a = a  b = b  notes = notes  top = top  sub = sub  None = None
    Files <- MCFiles
    Dirs <- MCDirs
    Children <- MCChain
    Media <- MCMedia
    Size <- MCSize
    BaseName <- MCBaseName
    ScanRoots = {sub}
    RequestRoots = {top, a, b}
    GroupRoots = {top}
    Dests = {downloads}
    Scans = {s1}
    Requests = {r1, r2}
    Workers = {w1, w2}
    CacheLimit = 2
    MaxScanEntries = 4
CHECK_DEADLOCK FALSE
SYMMETRY MCSymmetry
PROPERTIES ManualDownloadsKept NeverOverwrites
