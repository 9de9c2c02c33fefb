SPECIFICATION Spec
CONSTANTS
    Peers <- ThreePeers
    NumPieces = 1
    Holds <- ThreeHold
    MaxActive = 2
    MaxChan = 1
    MaxRuns = 1
    Faults = {"pex", "net", "dht", "write", "lateWrite"}
    NoPiece = NoPiece
    Nobody = Nobody
INVARIANTS
    ActiveBounded
    GaveUpTriedAll
    OwnerInv
