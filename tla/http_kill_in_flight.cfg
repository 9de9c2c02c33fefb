SPECIFICATION Spec
CONSTANTS
    Contents <- OneContent
    UrlOf <- OneUrlOf
    SizeOf <- OneSizeOf
    MaxSize = 7
    ThreadChoices = {2}
    MaxThreads = 2
    MinSegment = 1
    SaveInterval = 2
    MaxChunk = 3
    MaxRuns = 2
    Faults = {"kill", "killInFlight"}
    NoPart = NoPart
    Torn = Torn
    Zero = Zero
    None = None
INVARIANTS
    CompletedIntact
