SPECIFICATION FairSpec
CONSTANTS
    Peers <- MCPeers
    Honest <- MCHonest
    NoPeer = NoPeer
    Nodes <- MCNodes
    Bootstrap = {"n1", "m1"}
    Knows <- MCKnows
    Tracks <- MCTracks
    Distance <- MCDistance
    ZeroId = 4
    BatchSize = 1
    MaxRounds = 4
    PeerLimit = 3
    Dns = Dns
    OwnId = 1
    Ids = {1, 2}
    IdOf <- SameId
    InfoSize = 3
    Sizes = {0, 2, 3, 5, 7}
    ChunkSize = 2
    MaxInfo = 6
    None = None
    BlockSize = 1
    Depth = 2
    NoPiece = NoPiece
    NoTorrent = NoTorrent
    Others = {"other"}
    Self = "self"
    EndOfLine = EndOfLine
    OthersEntry <- MCOthersEntry
    Batch <- MagnetThenPlain
    Announced = {"x"}
    MaxTries = 2
    Torrents <- MCTorrents
    MaxEntries = 1
INVARIANTS
    LookupExhaustive
    ChunksSized
    NoReplyLost
    RequestsCounted
    NeverIdle
    DoneOnDisk
    FilesIntact
    LogComplete
PROPERTIES
    MetadataSettles
    ImplementsStore
