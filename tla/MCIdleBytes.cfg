SPECIFICATION Spec
CONSTANTS
    a = a  b = b  notes = notes  top = top  sub = sub  None = None
    Files <- MCFiles
    Dirs <- MCDirs
    Children <- MCChildren
    Media <- MCMedia
    Size <- MCSize
    BaseName <- MCBaseName
    ScanRoots = {top, sub}
    RequestRoots = {}
    GroupRoots = {}
    Dests = {downloads}
    Scans = {s1, s2}
    Requests = {}
    Workers = {w1, w2}
    CacheLimit = 4
    MaxScanEntries = 4
CHECK_DEADLOCK FALSE

PROPERTIES ReadsItsOwnBytes
