SPECIFICATION SwapSpec
CONSTANTS
    Procs = {p1, p2, p3}
    Platforms = {"posix", "windows"}
    Installed = 1
    Releases = {2}
    MaxKills = 1
    MaxJams = 1
SYMMETRY MCSymmetry
INVARIANT SomeBinarySurvives
 
PROPERTY OldBinaryKept
