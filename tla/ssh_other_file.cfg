SPECIFICATION Spec
CONSTANTS
    Contents <- TwoFiles
    SizeOf <- TwoSizes
    MaxSize = 6
    MaxChunk = 3
    MaxRuns = 2
    Faults = {}
    Zero = Zero
    None = None
INVARIANTS
    CompletedIntact
