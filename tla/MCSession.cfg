SPECIFICATION Spec
CONSTANTS
    None = None
    c1 = c1 c2 = c2 c3 = c3 leave = leave shut = shut help1 = help1 help2 = help2 term1 = term1 term2 = term2
    hang = hang see = see film = film cut = cut start1 = start1 start2 = start2 startR = startR stop = stop stopR = stopR
    serve1 = serve1 serve2 = serve2 halt = halt gauge = gauge L = L R = R k1 = k1
    scan1 = scan1 scan2 = scan2 grab1 = grab1 grab2 = grab2 drop = drop root = root sub = sub pic = pic clip = clip doc = doc
    Connects = {c1, c2, c3}
    Hopping = {c2}
    Leaves = {leave}
    Shuts = {shut}
    Helpers = {help1, help2}
    Opens = {term1, term2}
    Hangups = {hang}
    Visions = {see}
    Films = {film}
    Cuts = {cut}
    Starts = {start1, start2, startR}
    Stops = {stop, stopR}
    Serves = {serve1, serve2}
    Halts = {halt}
    Gauges = {gauge}
    Scans = {scan1, scan2}
    Grabs = {grab1, grab2}
    Drops = {drop}
    Media = {pic, clip}
    CacheLimit = 3
    MaxScanEntries = 4
    Tunnels = {L, R}
    Conns = {k1}
    Persistent = {term2}
    MaxChunks = 1
    Kind <- MCKind
    TunnelOf <- MCTunnelOf
    TerminalOf <- MCTerminalOf
    FilmOf <- MCFilmOf
    ServeOf <- MCServeOf
    Listing <- MCListing
    Size <- MCSize
    Root <- MCRoot
    Mixes <- MCMixes
CHECK_DEADLOCK FALSE
INVARIANTS TypeOK TerminalStory VisionReachesTerminals TunnelsAreTruthful OnlyCurrent IdleIsThisSessions
PROPERTIES DisconnectEnds
