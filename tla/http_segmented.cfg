SPECIFICATION Spec
CONSTANTS
    Contents <- MCContents
    UrlOf <- MCUrlOf
    SizeOf <- MCSizeOf
    MaxSize = 5
    ThreadChoices = {2, 3}
    MaxThreads = 3
    MinSegment = 1
    SaveInterval = 2
    MaxChunk = 3
    MaxRuns = 3
    Faults = {"net", "kill", "save"}
    NoPart = NoPart
    Torn = Torn
    Zero = Zero
    None = None
INVARIANTS
    SafeInv
    TypeOK
    CompletedIntact
    ClaimsOnDisk
