SPECIFICATION Spec
CONSTANTS
    Sessions = {a, b}
    Procs = {p1, p2}
    Scopes = {x, y}
    TTL = 1
    MaxLog = 1
    Keep = 1
    MaxClock = 3
    MaxSent = 3
    MaxLeases = 4
SYMMETRY MCSymmetry
 
INVARIANT RecentKept
INVARIANT HoldersListed
