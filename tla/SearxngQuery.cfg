SPECIFICATION FairSpec
CONSTANTS
    Threads = {t1, t2}
    Requests <- MCTwoRequests
    Instances <- MCLocalFirst
    UseProxy = TRUE
    CacheTtl = 1
    CacheLimit = 0
    MaxRetries = 2
    BootPolls = 1
    MaxTime = 1
    None = None
INVARIANTS AnswersMatch CachedAnswersAreFresh
PROPERTIES DirectIsLastResort ImplementsSearch OnlyFreshExceedTheLimit ValidResponseIsKept RequestsEnd
