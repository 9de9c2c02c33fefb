SPECIFICATION Spec
CONSTANTS
    Peers <- TwoPeers
    NumPieces = 2
    Holds <- TwoHold
    MaxActive = 2
    MaxChan = 1
    MaxRuns = 2
    Faults = {"trickle", "net", "corrupt", "choke", "kill"}
    NoPiece = NoPiece
    Nobody = Nobody
INVARIANTS
    SwarmInv
    OwnedOnce
    NoPieceStranded
    DoneIsWritten
    StoredNotFetched
    SuccessOnDisk
PROPERTIES
    DonePermanent
    ImplementsPool
