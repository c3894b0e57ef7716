SPECIFICATION FairSpec
CONSTANTS
    Threads = {t1, t2}
    u1 = u1
    u2 = u2
    Urls <- MCTwoUrls
    Inodes = {i1, i2, i3}
    None = None
    Length <- MCShortLengths
    MaxSize = 1
    MaxCrashes = 1
INVARIANTS SettledFilesAreWhole NothingOversizeStays
PROPERTIES RequestsEnd
