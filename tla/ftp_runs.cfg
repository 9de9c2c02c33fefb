SPECIFICATION Spec
CONSTANTS
    Contents <- MCContents
    UrlOf <- MCUrlOf
    SizeOf <- MCSizeOf
    MaxSize = 7
    SaveInterval = 3
    MaxChunk = 4
    MaxRuns = 3
    FaultSets <- MCFaultSets
    NoPart = NoPart
    Torn = Torn
    Zero = Zero
    None = None
INVARIANTS
    TypeOK
    CompletedIntact
    ClaimsOnDisk
    LossBounded
PROPERTIES
    ClaimsKept
