SPECIFICATION FairSpec
CONSTANTS
    Fetches = {f1, f2}
    Streams = {s1}
    Routes = 2
    Retries = 2
    RetryOn = {"denied"}
    Lenient = {f2}
    Hanging = {f2, s1}
    MaxChunks = 2
    MaxCalls = 2
INVARIANTS RetriesAreKept NobodyWaitsInVain
PROPERTIES ImplementsDelivery AttemptsShareOneClient CallersReturn TasksEnd DroppedStreamsEnd
