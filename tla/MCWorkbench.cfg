SPECIFICATION Spec
CONSTANTS
    None = None
    path1 = path1 path2 = path2 hA = hA hB = hB hC = hC
    m1 = m1 m2 = m2 m3 = m3 m4 = m4 m5 = m5 m6 = m6 m7 = m7 m8 = m8
    Paths = {path1, path2}
    MaxLinks = 3
    MaxTerminals = 3
    MaxReplay = 2
    Mutations = {m1, m2, m3, m4, m5, m6, m7, m8}
    Crashes = 1
    MaxSaved = 2
    Mixes <- MCMixes
    StoreMixes <- MCStoreMixes
    Op <- MCOp
CHECK_DEADLOCK FALSE
INVARIANTS SavedIsStored EditsReachServer TerminalsShown StoreIsSerial
