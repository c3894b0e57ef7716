SPECIFICATION Spec
CONSTANTS
    Apps = {a1, a2, a3}
    Threads = {t1, t2}
    Procs = {p1, p2, p3}
    NoApp = NoApp
    NoProc = NoProc
    DisableLocal = {a3}
    Launchable = {a1, a2}
    Polls <- MCPolls
    MaxWatchdogs = 1
    MaxUpsets = 2
SYMMETRY Symmetry
INVARIANTS HandleIsOwn
PROPERTIES SupervisionLasts ServingIsLeftAlone
