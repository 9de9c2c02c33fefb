SPECIFICATION Spec
CONSTANTS
    Contents <- OneFile
    SizeOf <- OneSize
    MaxSize = 6
    MaxChunk = 3
    MaxRuns = 3
    Faults = {"net", "kill", "write", "nosize"}
    Zero = Zero
    None = None
INVARIANTS
    TypeOK
    CompletedIntact
    PrefixOnly
PROPERTIES
    OnlyGrows
