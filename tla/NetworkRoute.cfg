SPECIFICATION Spec
CONSTANTS
    Fetches = {f1, f2}
    Streams = {}
    Routes = 2
    Retries = 1
    RetryOn = {}
    Lenient = {}
    Hanging = {}
    MaxChunks = 0
    MaxCalls = 2
PROPERTIES RetryTakesAnotherRoute
