SPECIFICATION FairSpec
CONSTANTS
    Contents <- OneContent
    UrlOf <- OneUrlOf
    SizeOf <- OneSizeOf
    MaxSize = 7
    ThreadChoices = {1, 2}
    MaxThreads = 2
    MinSegment = 1
    SaveInterval = 2
    MaxChunk = 3
    MaxRuns = 2
    Faults = {"net", "save", "write", "short", "kill", "killInFlight", "openGap", "head"}
    NoPart = NoPart
    Torn = Torn
    Zero = Zero
    None = None
INVARIANTS
    UnsavedBounded
PROPERTIES
    ClaimsKept
    SimpleExact
    RunEnds
    UnfailedSucceeds
