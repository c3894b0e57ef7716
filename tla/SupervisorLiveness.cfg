SPECIFICATION FairSpec
CONSTANTS
    Apps = {a1}
    Threads = {t1, t2}
    Procs = {p1, p2, p3}
    NoApp = NoApp
    NoProc = NoProc
    DisableLocal = {}
    Launchable = {a1}
    Polls <- MCPolls
    MaxWatchdogs = 1
    MaxUpsets = 2
PROPERTIES SupervisedRecovers DuplicatesDieOut StartsEnd
