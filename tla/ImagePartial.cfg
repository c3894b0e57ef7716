SPECIFICATION Spec
CONSTANTS
    Threads = {t1, t2}
    u1 = u1
    u2 = u2
    Urls <- MCOneUrl
    Inodes = {i1, i2}
    None = None
    Length <- MCWholeLength
    MaxSize = 2
    MaxCrashes = 0
SYMMETRY Symmetry
INVARIANTS SentIsWhole
