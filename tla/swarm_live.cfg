SPECIFICATION FairSpec
CONSTANTS
    Peers <- TwoPeers
    NumPieces = 2
    Holds <- TwoHold
    MaxActive = 2
    MaxChan = 1
    MaxRuns = 1
    Faults = {"corrupt"}
    NoPiece = NoPiece
    Nobody = Nobody
PROPERTIES
    Completes
