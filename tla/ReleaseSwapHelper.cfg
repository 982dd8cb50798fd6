SPECIFICATION SwapSpec
CONSTANTS
    Procs = {p1, p2}
    Platforms = {"windows"}
    Installed = 1
    Releases = {2}
    MaxKills = 0
    MaxJams = 1
INVARIANT WhicheverFirst
