SPECIFICATION Spec
CONSTANTS
    a = a
    b = b
    Files = {a, b}
    Texts <- MCTexts
    FirstText <- MCFirstText
    Scanners = {p, q}
    Watcher = w
    MaxFanout = 1
    MaxWrites = 2
    MaxUpdates = 1
    MaxKills = 1
INVARIANT SymbolsOfTheHashedText
INVARIANT EdgesAreCalls
CHECK_DEADLOCK FALSE
PROPERTY EditReachesGraph
PROPERTY WatcherCatchesUp
