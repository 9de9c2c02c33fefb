--------------------------- MODULE TransferProofs ---------------------------
(***************************************************************************)
(* The transfer of a magnet link's torrent, block by block, for any number *)
(* of peers, torrents of any layout and any sizes of block and pipeline.   *)
(***************************************************************************)
EXTENDS MagnetSession, LayoutProofs, FiniteSetTheorems

PieceStates == {"needed", "downloading", "done"}

\* A PieceDownload, as far as the disk depends on it.
HasIndex(c) ==
    /\ c = [index |-> c.index, blocks |-> c.blocks, next |-> c.next, outstanding |-> c.outstanding]
    /\ c.index \in PieceIds(torrent)

NothingHeld == torrent = NoTorrent /\ states = <<>> /\ right = {} /\ cur = [p \in Peers |-> NoPiece]

DiskInv ==
    /\ IsTorrent(torrent)
    /\ states \in [PieceIds(torrent) -> PieceStates]
    /\ right \subseteq Places(torrent)
    /\ cur = [p \in Peers |-> cur[p]]
    /\ \A p \in Peers : cur[p] # NoPiece => HasIndex(cur[p])
    /\ DoneOnDisk

TransferInv == IF stage = "transfer" THEN DiskInv ELSE NothingHeld

\* With a piece on its disk, all others are as they were.
LEMMA WritesPiece ==
    ASSUME NEW t, IsTorrent(t), NEW i \in Nat, NEW r
    PROVE  WritePiece(r, t, i) = r \union PlacesOf(t, i)
<1>1. Touched(t, i) = PlacesOf(t, i) /\ Righted(t, i) = PlacesOf(t, i)
    BY WalkIsPiece
<1> QED BY <1>1 DEF WritePiece

LEMMA PreparedDisk ==
    ASSUME stage = "metadata", TransferInv, NEW t \in Torrents, NEW S \in SUBSET PieceIds(t),
           Prepare(t, UNION {Righted(t, i) : i \in S})
    PROVE  DiskInv'
<1>1. IsTorrent(t) /\ torrent' = t /\ PieceIds(t) \subseteq Nat
    BY SessionConstants DEF Prepare, PieceIds, IsTorrent
<1>2. \A i \in PieceIds(t) : Righted(t, i) = PlacesOf(t, i) /\ Touched(t, i) = PlacesOf(t, i)
    BY <1>1, WalkIsPiece
<1>3. right' \subseteq Places(t)
    <2>1. \A i \in S : Righted(t, i) \subseteq Places(t)
        BY <1>2 DEF PlacesOf
    <2> QED BY <2>1 DEF Prepare
<1>4. states' = [i \in PieceIds(t) |-> IF ReadsVerified(right', t, i) THEN "done" ELSE "needed"]
    BY DEF Prepare
<1>5. states' \in [PieceIds(t) -> PieceStates]
    BY <1>4 DEF PieceStates
<1>6. \A i \in PieceIds(t) : states'[i] = "done" => PlacesOf(t, i) \subseteq right'
    BY <1>2, <1>4 DEF ReadsVerified
<1>7. cur' = [p \in Peers |-> NoPiece]
    BY DEF Prepare, TransferInv, NothingHeld
<1>8. DoneOnDisk'
    BY <1>1, <1>5, <1>6 DEF DoneOnDisk
<1> QED BY <1>1, <1>3, <1>5, <1>7, <1>8 DEF DiskInv

LEMMA RequestedIndex ==
    ASSUME NEW c, HasIndex(c)
    PROVE  HasIndex(Requested(c))
<1> DEFINE n == Cardinality(ToAsk(c))
<1>1. Requested(c) = [c EXCEPT !.next = @ + n, !.outstanding = @ + n]
    BY DEF Requested
<1> HIDE DEF n
<1> QED BY <1>1 DEF HasIndex

LEMMA AddBlockIndex ==
    ASSUME NEW c, HasIndex(c), NEW b, NEW quality
    PROVE  HasIndex(AddBlock(c, b, quality)) /\ AddBlock(c, b, quality).index = c.index
<1>1. CASE AddBlock(c, b, quality) = c
    BY <1>1
<1>2. CASE AddBlock(c, b, quality) # c
    <2> DEFINE o == IF c.outstanding = 0 THEN 0 ELSE c.outstanding - 1
               bs == [c.blocks EXCEPT ![b] = quality]
    <2>1. AddBlock(c, b, quality) =
            [index |-> c.index, blocks |-> bs, next |-> c.next, outstanding |-> o]
        BY <1>2 DEF AddBlock, HasIndex
    <2> HIDE DEF o, bs
    <2> QED BY <2>1 DEF HasIndex
<1> QED BY <1>1, <1>2

\* Send makes nothing done, and what it starts has an index.
LEMMA SendFacts ==
    ASSUME IsTorrent(torrent), UNCHANGED torrent, NEW p \in Peers,
           NEW sts \in [PieceIds(torrent) -> PieceStates],
           NEW c, c # NoPiece => HasIndex(c), NEW waiting, NEW flush,
           cur = [x \in Peers |-> cur[x]], \A x \in Peers : cur[x] # NoPiece => HasIndex(cur[x]),
           Send(p, sts, c, waiting, flush)
    PROVE  /\ states' \in [PieceIds(torrent) -> PieceStates]
           /\ \A i \in PieceIds(torrent) : states'[i] = "done" => sts[i] = "done"
           /\ cur' = [x \in Peers |-> cur'[x]]
           /\ \A x \in Peers : cur'[x] # NoPiece => HasIndex(cur[x])'
<1> DEFINE starts  == c = NoPiece /\ NextPiece(sts) # {}
           i0      == CHOOSE i \in NextPiece(sts) : TRUE
           piece   == IF starts THEN NewPiece(i0) ELSE c
           flushed == flush /\ piece # NoPiece
<1>1. /\ cur' = [cur EXCEPT ![p] = IF flushed THEN Requested(piece) ELSE piece]
      /\ states' = IF starts THEN [sts EXCEPT ![piece.index] = "downloading"] ELSE sts
    BY DEF Send
<1>2. starts => i0 \in PieceIds(torrent)
    BY DEF NextPiece
<1> HIDE DEF i0
<1>3. starts => piece = NewPiece(i0) /\ HasIndex(NewPiece(i0)) /\ NewPiece(i0).index = i0
    BY <1>2 DEF NewPiece, HasIndex
<1>4. piece # NoPiece => HasIndex(piece)
    BY <1>3
<1>5. HasIndex(piece) => HasIndex(Requested(piece))
    BY RequestedIndex
<1>6. states' \in [PieceIds(torrent) -> PieceStates]
    BY <1>1, <1>2, <1>3 DEF PieceStates
<1>7. \A i \in PieceIds(torrent) : states'[i] = "done" => sts[i] = "done"
    BY <1>1, <1>2, <1>3
<1> HIDE DEF starts, piece
<1>8. \A x \in Peers : cur'[x] # NoPiece => HasIndex(cur'[x])
    BY <1>1, <1>4, <1>5
<1>9. \A x \in Peers : HasIndex(cur'[x]) => HasIndex(cur[x])'
    BY DEF HasIndex
<1> QED BY <1>1, <1>6, <1>7, <1>8, <1>9

LEMMA BlockStep ==
    ASSUME DiskInv, NEW p \in Peers, NEW i, NEW b, NEW quality, Block(p, i, b, quality)
    PROVE  DiskInv'
<1> DEFINE waiting == inflight[p] \ {<<i, b>>}
           c == AddBlock(cur[p], b, quality)
<1>1. UNCHANGED torrent
    BY DEF Block
<1>2. CASE cur[p] # NoPiece /\ cur[p].index = i /\ IsWhole(c)
    <2> DEFINE good == \A x \in DOMAIN c.blocks : c.blocks[x] = "right"
               sts == [states EXCEPT ![c.index] = IF good THEN "done" ELSE "needed"]
    <2>1. HasIndex(c)
        BY <1>2, AddBlockIndex DEF DiskInv
    <2>2. /\ right' = IF good THEN WritePiece(right, torrent, c.index) ELSE right
          /\ Send(p, sts, NoPiece, waiting, ~choked[p])
        BY <1>2 DEF Block, Store
    <2> HIDE DEF c, good
    <2>3. c.index \in PieceIds(torrent) /\ c.index \in Nat
        BY <2>1 DEF HasIndex, PieceIds, DiskInv, IsTorrent
    <2>4. sts \in [PieceIds(torrent) -> PieceStates]
        BY <2>3 DEF DiskInv, PieceStates
    <2> HIDE DEF waiting
    <2>5. /\ states' \in [PieceIds(torrent) -> PieceStates]
          /\ \A j \in PieceIds(torrent) : states'[j] = "done" => sts[j] = "done"
          /\ cur' = [x \in Peers |-> cur'[x]]
          /\ \A x \in Peers : cur'[x] # NoPiece => HasIndex(cur[x])'
        <3> HIDE DEF sts
        <3> QED BY <1>1, <2>2, <2>4, SendFacts DEF DiskInv
    <2>6. right' = right \union (IF good THEN PlacesOf(torrent, c.index) ELSE {})
        BY <2>2, <2>3, WritesPiece DEF DiskInv
    <2>7. \A j \in PieceIds(torrent) : states'[j] = "done" => PlacesOf(torrent, j) \subseteq right'
        <3> SUFFICES ASSUME NEW j \in PieceIds(torrent), states'[j] = "done"
                     PROVE  PlacesOf(torrent, j) \subseteq right'
            OBVIOUS
        <3>1. sts[j] = "done"
            BY <2>5
        <3>2. CASE j = c.index
            <4>1. good
                BY <2>3, <3>1, <3>2 DEF DiskInv
            <4> QED BY <2>6, <3>2, <4>1
        <3>3. CASE j # c.index
            <4>1. states[j] = "done"
                BY <3>1, <3>3 DEF DiskInv
            <4>2. PlacesOf(torrent, j) \subseteq right
                BY <4>1 DEF DiskInv, DoneOnDisk
            <4> QED BY <2>6, <4>2
        <3> QED BY <3>2, <3>3
    <2>8. DoneOnDisk'
        BY <1>1, <2>5, <2>7 DEF DoneOnDisk
    <2>9. right' \subseteq Places(torrent)
        BY <2>6 DEF DiskInv, PlacesOf
    <2> QED BY <1>1, <2>5, <2>8, <2>9 DEF DiskInv
<1>3. CASE cur[p] # NoPiece /\ cur[p].index = i /\ ~IsWhole(c)
    <2>1. Send(p, states, c, waiting, ~choked[p]) /\ UNCHANGED right
        BY <1>3 DEF Block
    <2>2. HasIndex(c)
        BY <1>3, AddBlockIndex DEF DiskInv
    <2> HIDE DEF c, waiting
    <2>3. /\ states' \in [PieceIds(torrent) -> PieceStates]
          /\ \A j \in PieceIds(torrent) : states'[j] = "done" => states[j] = "done"
          /\ cur' = [x \in Peers |-> cur'[x]]
          /\ \A x \in Peers : cur'[x] # NoPiece => HasIndex(cur[x])'
        BY <1>1, <2>1, <2>2, SendFacts DEF DiskInv
    <2>4. DoneOnDisk'
        BY <1>1, <2>1, <2>3 DEF DoneOnDisk, DiskInv
    <2> QED BY <1>1, <2>1, <2>3, <2>4 DEF DiskInv
<1>4. CASE ~ (cur[p] # NoPiece /\ cur[p].index = i)
    <2>1. UNCHANGED <<right, states, cur>>
        BY <1>4 DEF Block
    <2> QED BY <1>1, <2>1 DEF DiskInv, DoneOnDisk, HasIndex
<1> QED BY <1>2, <1>3, <1>4

LEMMA DiskStep == DiskInv /\ BlockNext => DiskInv'
<1> SUFFICES ASSUME DiskInv, NEW p \in Peers,
                    \/ Connect(p) \/ Choke(p) \/ Unchoke(p)
                    \/ HonestBlock(p) \/ AnyBlock(p) \/ Drop(p)
             PROVE  DiskInv'
    BY DEF BlockNext
<1>1. CASE Connect(p) \/ Choke(p)
    BY <1>1 DEF Connect, Choke, DiskInv, DoneOnDisk, HasIndex
<1>2. CASE Unchoke(p)
    <2>1. Send(p, states, cur[p], inflight[p], TRUE) /\ UNCHANGED <<torrent, right>>
        BY <1>2 DEF Unchoke
    <2>2. /\ states' \in [PieceIds(torrent) -> PieceStates]
          /\ \A j \in PieceIds(torrent) : states'[j] = "done" => states[j] = "done"
          /\ cur' = [x \in Peers |-> cur'[x]]
          /\ \A x \in Peers : cur'[x] # NoPiece => HasIndex(cur[x])'
        BY <2>1, SendFacts DEF DiskInv
    <2>3. DoneOnDisk'
        BY <2>1, <2>2 DEF DoneOnDisk, DiskInv
    <2> QED BY <2>1, <2>2, <2>3 DEF DiskInv
<1>3. CASE HonestBlock(p) \/ AnyBlock(p)
    BY <1>3, BlockStep DEF HonestBlock, AnyBlock
<1>4. CASE Drop(p)
    <2>1. /\ states' = IF cur[p] = NoPiece THEN states ELSE [states EXCEPT ![cur[p].index] = "needed"]
          /\ cur' = [cur EXCEPT ![p] = NoPiece] /\ UNCHANGED <<torrent, right>>
        BY <1>4 DEF Drop
    <2>2. cur[p] # NoPiece => cur[p].index \in PieceIds(torrent)
        BY DEF DiskInv, HasIndex
    <2>3. /\ states' \in [PieceIds(torrent) -> PieceStates]
          /\ \A j \in PieceIds(torrent) : states'[j] = "done" => states[j] = "done"
        BY <2>1, <2>2 DEF DiskInv, PieceStates
    <2>4. DoneOnDisk'
        BY <2>1, <2>3 DEF DoneOnDisk, DiskInv
    <2>5. \A x \in Peers : cur'[x] # NoPiece => HasIndex(cur[x])'
        BY <2>1 DEF DiskInv, HasIndex
    <2> QED BY <2>1, <2>3, <2>4, <2>5 DEF DiskInv
<1> QED BY <1>1, <1>2, <1>3, <1>4

\* Which steps touch the transfer.
LEMMA TransferStep == TransferInv /\ [Next]_vars => TransferInv'
<1> SUFFICES ASSUME TransferInv, [Next]_vars PROVE TransferInv'
    OBVIOUS
<1>1. ASSUME UNCHANGED blockVars, stage' = "transfer" <=> stage = "transfer"
      PROVE  TransferInv'
    <2>1. UNCHANGED <<torrent, states, right, cur>>
        BY <1>1 DEF blockVars
    <2> QED BY <1>1, <2>1 DEF TransferInv, DiskInv, NothingHeld, DoneOnDisk, HasIndex
<1>2. ASSUME BlocksReset, stage' # "transfer"
      PROVE  TransferInv'
    BY <1>2 DEF BlocksReset, TransferInv, NothingHeld
<1>3. CASE BatchStep \/ UNCHANGED vars
    <2>1. UNCHANGED blockVars /\ (stage' = "transfer" <=> stage = "transfer")
        BY <1>3 DEF BatchStep, NextLink, Return, PlainDownload, SaveText, SaveEnd, Ends, vars,
                    sessionVars
    <2> QED BY <1>1, <2>1
<1>4. CASE TrackersTell \/ SearchEnds \/ TryPeer \/ PeerFailed \/ NoMetadata
    <2>1. UNCHANGED blockVars /\ (stage' = "transfer" <=> stage = "transfer")
        BY <1>4 DEF TrackersTell, SearchEnds, TryPeer, PeerFailed, NoMetadata, Ends, sessionVars
    <2> QED BY <1>1, <2>1
<1>5. CASE StartTransfer
    <2>1. stage = "metadata" /\ stage' = "transfer"
        BY <1>5 DEF StartTransfer
    <2>2. PICK t \in Torrents : \E S \in SUBSET PieceIds(t) :
                Prepare(t, UNION {Righted(t, i) : i \in S})
        BY <1>5 DEF StartTransfer
    <2>3. DiskInv'
        BY <2>1, <2>2, PreparedDisk
    <2> QED BY <2>1, <2>3 DEF TransferInv
<1>6. CASE TransferEnds \/ TransferIncomplete
    BY <1>2, <1>6 DEF TransferEnds, TransferIncomplete, Ends
<1>7. CASE Transfer
    <2>1. stage = "transfer" /\ stage' = "transfer" /\ BlockNext
        BY <1>7 DEF Transfer, sessionVars
    <2> QED BY <2>1, DiskStep DEF TransferInv
<1>8. CASE Search \/ Exchange
    BY <1>1, <1>8 DEF Search, Exchange, sessionVars
<1>9. CASE PlainRefused \/ PrepareFails \/ SaveFails \/ SaveBreaks \/ OtherProcess
    <2>1. UNCHANGED blockVars /\ (stage' = "transfer" <=> stage = "transfer")
        BY <1>9 DEF PlainRefused, PrepareFails, SaveFails, SaveBreaks, OtherProcess, Ends,
                    sessionVars
    <2> QED BY <1>1, <2>1
<1> QED BY <1>3, <1>4, <1>5, <1>6, <1>7, <1>8, <1>9 DEF Next, MagnetStep, Stopped

LEMMA TransferAlways == Spec => []TransferInv
<1>1. Init => TransferInv
    BY DEF Init, BlocksIdle, TransferInv, NothingHeld
<1> QED BY <1>1, TransferStep, PTL DEF Spec

\* A piece that is done is right on disk, byte for byte: whatever torrent it is,
\* whatever peers send, and whatever other pieces were written in between.
THEOREM DoneIsOnDisk == Spec => []DoneOnDisk
<1>1. TransferInv => DoneOnDisk
    <2> SUFFICES ASSUME TransferInv PROVE DoneOnDisk
        OBVIOUS
    <2>1. CASE stage = "transfer"
        BY <2>1 DEF TransferInv, DiskInv
    <2>2. CASE stage # "transfer"
        <3>1. states = <<>>
            BY <2>2 DEF TransferInv, NothingHeld
        <3> QED BY <3>1 DEF DoneOnDisk
    <2> QED BY <2>1, <2>2
<1> QED BY <1>1, TransferAlways, PTL

\* When all pieces are done the files are right from the first byte to the last,
\* for every torrent that has as many hashes as its size asks for.
THEOREM AllDoneIsIntact == Spec => []FilesIntact
<1>1. TransferInv => FilesIntact
    <2> SUFFICES ASSUME TransferInv, torrent # NoTorrent, WellFormed(torrent), AllDone
                 PROVE  right = Places(torrent)
        BY DEF FilesIntact
    <2>1. DiskInv
        BY DEF TransferInv, NothingHeld
    <2>2. \A i \in PieceIds(torrent) : PlacesOf(torrent, i) \subseteq right
        BY <2>1 DEF DiskInv, AllDone, DoneOnDisk
    <2>3. Places(torrent) = UNION {PlacesOf(torrent, i) : i \in PieceIds(torrent)}
        BY <2>1, PiecesCover DEF DiskInv
    <2> QED BY <2>1, <2>2, <2>3 DEF DiskInv
<1> QED BY <1>1, TransferAlways, PTL

-----------------------------------------------------------------------------
(***************************************************************************)
(* The requests of a peer that follows the protocol.                       *)
(***************************************************************************)
Lacks(c) == {<<c.index, b>> : b \in Missing(c)}

Incomplete(c) == \E b \in DOMAIN c.blocks : c.blocks[b] = "nothing"

IsPiece(c) == c.index \in PieceIds(torrent) /\ c \in PieceDownloads(torrent, c.index)

\* `outstanding` counts the blocks requested and not there; nothing is there
\* that was not requested.
Counted(c) ==
    /\ IsPiece(c)
    /\ \A b \in DOMAIN c.blocks : b >= c.next => c.blocks[b] = "nothing"
    /\ c.outstanding = Cardinality(Missing(c))

\* The pipeline is full, or every block was requested.
Flushed(c) == c.outstanding >= Depth \/ c.next = NumBlocks(torrent, c.index)

\* A piece, the requests a peer will answer, and whether it forgot some.
Answers(c, fl, forgot) ==
    IF c = NoPiece THEN fl = {}
    ELSE /\ Counted(c) /\ Incomplete(c)
         /\ fl \subseteq Lacks(c)
         /\ fl = Lacks(c) \/ forgot

LEMMA BlockNumbers ==
    ASSUME NEW t, IsTorrent(t), NEW i \in PieceIds(t)
    PROVE  NumBlocks(t, i) \in Nat /\ NumBlocks(t, i) >= 1
<1>1. PieceSize(t, i) \in Nat /\ PieceSize(t, i) >= 1
    <2>1. TotalSize(t) \in Nat /\ t.plen \in Nat \ {0}
        BY StartsFacts DEF IsTorrent
    <2>2. TotalSize(t) % t.plen \in Nat
        BY <2>1, Divide
    <2> QED BY <2>1, <2>2 DEF PieceSize
<1>2. BlockSize \in Nat \ {0}
    BY BlockConstants
<1> DEFINE a == PieceSize(t, i) + BlockSize - 1
<1>3. a \in Nat /\ BlockSize <= a
    BY <1>1, <1>2
<1>4. NumBlocks(t, i) = a \div BlockSize
    BY DEF NumBlocks
<1> HIDE DEF a
<1>5. a \div BlockSize \in Nat /\ a = (a \div BlockSize) * BlockSize + (a % BlockSize)
      /\ a % BlockSize < BlockSize /\ a % BlockSize \in Nat
    BY <1>2, <1>3, Divide
<1>6. a \div BlockSize # 0
    BY <1>2, <1>3, <1>5
<1> QED BY <1>4, <1>5, <1>6

\* The parts of a piece.
LEMMA PieceShape ==
    ASSUME NEW c, IsPiece(c), torrent \in Torrents
    PROVE  /\ NumBlocks(torrent, c.index) \in Nat \ {0}
           /\ c.blocks \in [0 .. NumBlocks(torrent, c.index) - 1 -> {"nothing", "right", "wrong"}]
           /\ c.next \in 0 .. NumBlocks(torrent, c.index) /\ c.outstanding \in Nat
           /\ IsFiniteSet(Missing(c)) /\ c # NoPiece
<1>1. NumBlocks(torrent, c.index) \in Nat \ {0}
    BY BlockNumbers, SessionConstants DEF IsPiece
<1>2. /\ c.blocks \in [0 .. NumBlocks(torrent, c.index) - 1 -> {"nothing", "right", "wrong"}]
      /\ c.next \in 0 .. NumBlocks(torrent, c.index) /\ c.outstanding \in Nat
    BY DEF IsPiece, PieceDownloads
<1>3. IsFiniteSet(Missing(c))
    <2>1. Missing(c) \subseteq 0 .. NumBlocks(torrent, c.index) - 1
        BY <1>2 DEF Missing
    <2>2. IsFiniteSet(0 .. NumBlocks(torrent, c.index) - 1)
        BY <1>1, FS_Interval
    <2> QED BY <2>1, <2>2, FS_Subset
<1>4. c # NoPiece
    BY NoPieceDistinct DEF IsPiece
<1> QED BY <1>1, <1>2, <1>3, <1>4

\* flush_requests asks for the next blocks, as many as there are and fit.
LEMMA RequestedShape ==
    ASSUME NEW c, IsPiece(c), torrent \in Torrents
    PROVE  LET n == Cardinality(ToAsk(c))
               N == NumBlocks(torrent, c.index)
           IN  /\ n \in Nat /\ IsFiniteSet(ToAsk(c)) /\ c.next + n \in 0 .. N
               /\ ToAsk(c) = {b \in 0 .. N - 1 : c.next <= b /\ b < c.next + n}
               /\ c.outstanding + n >= Depth \/ c.next + n = N
               /\ Requested(c) = [index |-> c.index, blocks |-> c.blocks, next |-> c.next + n,
                                  outstanding |-> c.outstanding + n]
               /\ IsPiece(Requested(c)) /\ Requested(c).index = c.index
<1> DEFINE N == NumBlocks(torrent, c.index)
           top == IF N <= c.next + Depth - c.outstanding THEN N ELSE c.next + Depth - c.outstanding
           n == Cardinality(ToAsk(c))
           d == Requested(c)
<1>1. /\ N \in Nat \ {0} /\ c.blocks \in [0 .. N - 1 -> {"nothing", "right", "wrong"}]
      /\ c.next \in 0 .. N /\ c.outstanding \in Nat
    BY PieceShape DEF IsPiece
<1>2. Depth \in Nat \ {0}
    BY BlockConstants
<1> HIDE DEF N
<1>3. ToAsk(c) = c.next .. top - 1
    <2>1. ToAsk(c) = {b \in 0 .. N - 1 : c.next <= b /\ b < c.next + Depth - c.outstanding}
        BY <1>1 DEF ToAsk
    <2>2. c.next \in Nat /\ c.next <= N /\ N \in Nat /\ c.outstanding \in Nat /\ Depth \in Nat
        BY <1>1, <1>2
    <2> QED BY <2>1, <2>2
<1>4. n = (IF top <= c.next THEN 0 ELSE top - c.next) /\ n \in Nat /\ IsFiniteSet(ToAsk(c))
    <2>1. top \in Int /\ top - 1 \in Int /\ c.next \in Int
        BY <1>1, <1>2
    <2> HIDE DEF top
    <2>2. IsFiniteSet(c.next .. top - 1)
          /\ Cardinality(c.next .. top - 1) = IF c.next > top - 1 THEN 0 ELSE (top - 1) - c.next + 1
        BY <2>1, FS_Interval
    <2>3. (IF c.next > top - 1 THEN 0 ELSE (top - 1) - c.next + 1)
            = (IF top <= c.next THEN 0 ELSE top - c.next)
        BY <2>1
    <2> QED BY <1>3, <2>1, <2>2, <2>3
<1>5. d = [index |-> c.index, blocks |-> c.blocks, next |-> c.next + n, outstanding |-> c.outstanding + n]
    <2>1. d = [c EXCEPT !.next = @ + n, !.outstanding = @ + n]
        BY DEF Requested
    <2>2. c = [index |-> c.index, blocks |-> c.blocks, next |-> c.next, outstanding |-> c.outstanding]
        BY DEF IsPiece, PieceDownloads
    <2> HIDE DEF n, d
    <2> QED BY <2>1, <2>2
<1>6. c.next + n \in 0 .. N /\ c.next + n >= c.next
    BY <1>1, <1>2, <1>4
<1>7. c.outstanding + n >= Depth \/ c.next + n = N
    BY <1>1, <1>2, <1>4
<1> HIDE DEF n, d
<1>8. ToAsk(c) = {b \in 0 .. N - 1 : c.next <= b /\ b < c.next + n}
    BY <1>1, <1>2, <1>3, <1>4
<1>9. IsPiece(d) /\ d.index = c.index
    BY <1>1, <1>4, <1>5, <1>6 DEF IsPiece, PieceDownloads, N
<1> QED BY <1>4, <1>5, <1>6, <1>7, <1>8, <1>9 DEF n, d, N

\* What is asked for is lacking from then on, and counted.
LEMMA RequestedFacts ==
    ASSUME NEW c, Counted(c), Incomplete(c), torrent \in Torrents
    PROVE  /\ Counted(Requested(c)) /\ Incomplete(Requested(c)) /\ Flushed(Requested(c))
           /\ Lacks(Requested(c)) = Lacks(c) \union Requests(c)
<1> DEFINE N == NumBlocks(torrent, c.index)
           n == Cardinality(ToAsk(c))
           d == Requested(c)
<1>1. /\ N \in Nat \ {0} /\ c.blocks \in [0 .. N - 1 -> {"nothing", "right", "wrong"}]
      /\ c.next \in 0 .. N /\ c.outstanding \in Nat /\ IsFiniteSet(Missing(c))
    BY PieceShape DEF Counted, IsPiece
<1>2. /\ n \in Nat /\ IsFiniteSet(ToAsk(c)) /\ c.next + n \in 0 .. N
      /\ ToAsk(c) = {b \in 0 .. N - 1 : c.next <= b /\ b < c.next + n}
      /\ c.outstanding + n >= Depth \/ c.next + n = N
      /\ d = [index |-> c.index, blocks |-> c.blocks, next |-> c.next + n, outstanding |-> c.outstanding + n]
      /\ IsPiece(d) /\ d.index = c.index
    BY RequestedShape DEF Counted
<1> HIDE DEF N, n, d
<1>3. Missing(d) = Missing(c) \union ToAsk(c) /\ Missing(c) \intersect ToAsk(c) = {}
    <2>1. \A b \in 0 .. N - 1 : b >= c.next => c.blocks[b] = "nothing"
        BY <1>1 DEF Counted
    <2>2. Missing(c) = {b \in 0 .. N - 1 : b < c.next /\ c.blocks[b] = "nothing"}
        BY <1>1 DEF Missing
    <2>3. Missing(d) = {b \in 0 .. N - 1 : b < c.next + n /\ c.blocks[b] = "nothing"}
        BY <1>1, <1>2 DEF Missing
    <2> QED BY <1>1, <1>2, <2>1, <2>2, <2>3
<1>4. Cardinality(Missing(d)) = c.outstanding + n
    <2>1. Cardinality(Missing(d)) = Cardinality(Missing(c)) + Cardinality(ToAsk(c)) - Cardinality({})
        BY <1>1, <1>2, <1>3, FS_Union
    <2> QED BY <1>1, <1>2, <2>1, FS_EmptySet DEF Counted, n
<1>5. Counted(d)
    <2>1. \A b \in DOMAIN d.blocks : b >= d.next => d.blocks[b] = "nothing"
        BY <1>1, <1>2 DEF Counted
    <2> QED BY <1>2, <1>4, <2>1 DEF Counted
<1>6. Incomplete(d) /\ Flushed(d)
    BY <1>2 DEF Incomplete, Flushed, N
<1>7. Lacks(d) = Lacks(c) \union Requests(c)
    BY <1>2, <1>3 DEF Lacks, Requests
<1> QED BY <1>5, <1>6, <1>7 DEF d

LEMMA NewPieceFacts ==
    ASSUME torrent \in Torrents, NEW i \in PieceIds(torrent)
    PROVE  /\ Counted(NewPiece(i)) /\ Incomplete(NewPiece(i)) /\ Lacks(NewPiece(i)) = {}
           /\ NewPiece(i).index = i /\ NewPiece(i) # NoPiece
<1> DEFINE c == NewPiece(i)
           N == NumBlocks(torrent, i)
<1>1. N \in Nat \ {0}
    BY BlockNumbers, SessionConstants
<1>2. c = [index |-> i, blocks |-> [b \in 0 .. N - 1 |-> "nothing"], next |-> 0, outstanding |-> 0]
    BY DEF NewPiece
<1> HIDE DEF c, N
<1>3. c.index = i /\ c \in PieceDownloads(torrent, c.index)
    BY <1>1, <1>2 DEF PieceDownloads, N
<1>4. Missing(c) = {}
    BY <1>1, <1>2 DEF Missing
<1>5. Counted(c)
    BY <1>2, <1>3, <1>4, FS_EmptySet DEF Counted, IsPiece
<1>6. Incomplete(c)
    <2>1. 0 \in 0 .. N - 1
        BY <1>1
    <2> QED BY <1>2, <2>1 DEF Incomplete
<1>7. Lacks(c) = {}
    BY <1>4 DEF Lacks
<1>8. c # NoPiece
    BY <1>3, PieceShape DEF IsPiece
<1> QED BY <1>3, <1>5, <1>6, <1>7, <1>8 DEF c

\* A block that was asked for and not there: one less is lacking.
LEMMA AddBlockFacts ==
    ASSUME NEW c, Counted(c), torrent \in Torrents, NEW b \in Missing(c)
    PROVE  LET d == AddBlock(c, b, "right")
           IN  /\ Counted(d) /\ d.index = c.index /\ d.next = c.next
               /\ Lacks(d) = Lacks(c) \ {<<c.index, b>>}
               /\ ~IsWhole(d) <=> Incomplete(d)
<1> DEFINE N == NumBlocks(torrent, c.index)
           d == AddBlock(c, b, "right")
           bs == [c.blocks EXCEPT ![b] = "right"]
<1>1. /\ N \in Nat \ {0} /\ c.blocks \in [0 .. N - 1 -> {"nothing", "right", "wrong"}]
      /\ c.next \in 0 .. N /\ c.outstanding \in Nat /\ IsFiniteSet(Missing(c))
    BY PieceShape DEF Counted
<1>2. b \in 0 .. N - 1 /\ b < c.next /\ c.blocks[b] = "nothing" /\ DOMAIN c.blocks = 0 .. N - 1
    BY <1>1 DEF Missing
<1>3. c.outstanding # 0
    BY <1>1, FS_EmptySet DEF Counted
<1>4. d = [index |-> c.index, blocks |-> bs, next |-> c.next, outstanding |-> c.outstanding - 1]
    <2>1. d = [c EXCEPT !.blocks[b] = "right", !.outstanding = IF @ = 0 THEN 0 ELSE @ - 1]
        BY <1>2 DEF AddBlock
    <2>2. c = [index |-> c.index, blocks |-> c.blocks, next |-> c.next, outstanding |-> c.outstanding]
        BY DEF Counted, IsPiece, PieceDownloads
    <2> HIDE DEF d
    <2> QED BY <1>3, <2>1, <2>2
<1>5. bs \in [0 .. N - 1 -> {"nothing", "right", "wrong"}]
      /\ \A x \in 0 .. N - 1 : bs[x] = IF x = b THEN "right" ELSE c.blocks[x]
    BY <1>1, <1>2
<1> HIDE DEF N, d, bs
<1>6. Missing(d) = Missing(c) \ {b}
    BY <1>1, <1>2, <1>4, <1>5 DEF Missing
<1>7. Cardinality(Missing(d)) = c.outstanding - 1
    BY <1>1, <1>6, FS_RemoveElement DEF Counted
<1>8. Counted(d)
    <2>1. d.index = c.index /\ d \in PieceDownloads(torrent, d.index)
        BY <1>1, <1>3, <1>4, <1>5 DEF PieceDownloads, N
    <2>2. \A x \in DOMAIN d.blocks : x >= d.next => d.blocks[x] = "nothing"
        <3>1. \A x \in 0 .. N - 1 : x >= c.next => x # b /\ c.blocks[x] = "nothing"
            BY <1>1, <1>2 DEF Counted
        <3> QED BY <1>4, <1>5, <3>1
    <2>3. d.index \in PieceIds(torrent)
        BY <2>1 DEF Counted, IsPiece
    <2> QED BY <1>4, <1>7, <2>1, <2>2, <2>3 DEF Counted, IsPiece
<1>9. Lacks(d) = Lacks(c) \ {<<c.index, b>>}
    BY <1>4, <1>6 DEF Lacks
<1>10. ~IsWhole(d) <=> Incomplete(d)
    BY DEF IsWhole, Incomplete
<1> QED BY <1>4, <1>8, <1>9, <1>10 DEF d

\* The shape of the variables, as far as it is needed.
Shape ==
    /\ torrent \in Torrents
    /\ states \in [PieceIds(torrent) -> PieceStates]
    /\ conn \in [Peers -> {"new", "open", "gone"}] /\ choked \in [Peers -> BOOLEAN]
    /\ cur = [p \in Peers |-> cur[p]] /\ inflight = [p \in Peers |-> inflight[p]]
    /\ \A p \in Peers : conn[p] = "new" => choked[p]

\* With whatever piece the peer has or is given: what Send leaves behind.
LEMMA SendAnswers ==
    ASSUME Shape, NEW p \in Honest, NEW sts \in [PieceIds(torrent) -> PieceStates],
           NEW c, NEW waiting, NEW flush \in BOOLEAN, Answers(c, waiting, p \in discarded),
           Send(p, sts, c, waiting, flush)
    PROVE  /\ Answers(cur'[p], inflight'[p], p \in discarded)
           /\ flush => cur'[p] = NoPiece \/ Flushed(cur'[p])
           /\ c # NoPiece => cur'[p] # NoPiece
           /\ \A x \in Peers \ {p} : cur'[x] = cur[x] /\ inflight'[x] = inflight[x]
           /\ cur' = [x \in Peers |-> cur'[x]] /\ inflight' = [x \in Peers |-> inflight'[x]]
<1> DEFINE forgot  == p \in discarded
           starts  == c = NoPiece /\ NextPiece(sts) # {}
           i0      == CHOOSE i \in NextPiece(sts) : TRUE
           piece   == IF starts THEN NewPiece(i0) ELSE c
           flushed == flush /\ piece # NoPiece
<1> HIDE DEF forgot
<1>0. /\ torrent \in Torrents /\ p \in Peers /\ Answers(c, waiting, forgot)
      /\ cur = [x \in Peers |-> cur[x]] /\ inflight = [x \in Peers |-> inflight[x]]
    BY AddressConstants DEF Shape, forgot
<1>1. /\ cur' = [cur EXCEPT ![p] = IF flushed THEN Requested(piece) ELSE piece]
      /\ inflight' = [inflight EXCEPT ![p] = IF flushed THEN waiting \union Requests(piece)
                                             ELSE waiting]
    BY DEF Send
<1>2. starts => i0 \in PieceIds(torrent)
    BY DEF NextPiece
<1> HIDE DEF i0
<1>3. Answers(piece, waiting, forgot)
    BY <1>0, <1>2, NewPieceFacts DEF Answers
<1>4. c # NoPiece => piece # NoPiece
    OBVIOUS
<1> HIDE DEF starts, piece
<1>5. cur'[p] = (IF flushed THEN Requested(piece) ELSE piece)
      /\ inflight'[p] = (IF flushed THEN waiting \union Requests(piece) ELSE waiting)
    BY <1>0, <1>1
<1>6. \A x \in Peers \ {p} : cur'[x] = cur[x] /\ inflight'[x] = inflight[x]
    BY <1>0, <1>1
<1>7. cur' = [x \in Peers |-> cur'[x]] /\ inflight' = [x \in Peers |-> inflight'[x]]
    BY <1>0, <1>1
<1>8. CASE flushed
    <2>1. Counted(piece) /\ Incomplete(piece) /\ waiting \subseteq Lacks(piece)
          /\ (waiting = Lacks(piece) \/ forgot)
        BY <1>3, <1>8 DEF Answers
    <2>2. /\ Counted(Requested(piece)) /\ Incomplete(Requested(piece)) /\ Flushed(Requested(piece))
          /\ Lacks(Requested(piece)) = Lacks(piece) \union Requests(piece)
        BY <1>0, <2>1, RequestedFacts
    <2>3. Requested(piece) # NoPiece
        BY <1>0, <2>2, PieceShape DEF Counted
    <2> QED BY <1>5, <1>6, <1>7, <1>8, <2>1, <2>2, <2>3 DEF Answers, forgot
<1>9. CASE ~flushed
    BY <1>3, <1>4, <1>5, <1>6, <1>7, <1>9 DEF forgot
<1> QED BY <1>8, <1>9 DEF forgot

\* The condition on one peer, for all values it may take.
PeerOK(c, fl, forgot, open, chokes) ==
    /\ Answers(c, fl, forgot)
    /\ open /\ ~chokes => c # NoPiece /\ Flushed(c)

PeersOK ==
    \A p \in Honest : PeerOK(cur[p], inflight[p], p \in discarded, conn[p] = "open", choked[p])

LEMMA NextPeersOK ==
    ASSUME UNCHANGED torrent,
           \A p \in Honest : PeerOK(cur'[p], inflight'[p], p \in discarded', conn'[p] = "open", choked'[p])
    PROVE  PeersOK'
BY DEF PeersOK, PeerOK, Answers, Counted, IsPiece, Flushed, Incomplete, Lacks, Missing

\* A peer nothing happens to.
LEMMA OtherPeers ==
    ASSUME PeersOK, NEW q \in Honest,
           cur'[q] = cur[q], inflight'[q] = inflight[q], (q \in discarded') <=> (q \in discarded),
           conn'[q] = conn[q], choked'[q] = choked[q]
    PROVE  PeerOK(cur'[q], inflight'[q], q \in discarded', conn'[q] = "open", choked'[q])
<1>1. PeerOK(cur[q], inflight[q], q \in discarded, conn[q] = "open", choked[q])
    BY DEF PeersOK
<1> QED BY <1>1 DEF PeerOK, Answers

LEMMA UnchokeStep ==
    ASSUME Shape, PeersOK, NEW p \in Peers, Unchoke(p)
    PROVE  PeersOK'
<1>1. /\ choked' = [choked EXCEPT ![p] = FALSE]
      /\ Send(p, states, cur[p], inflight[p], TRUE)
      /\ conn' = (IF cur'[p] = NoPiece THEN [conn EXCEPT ![p] = "gone"] ELSE conn)
      /\ UNCHANGED <<torrent, discarded>>
    BY DEF Unchoke, EndsWithout
<1>2. \A x \in Peers \ {p} : cur'[x] = cur[x] /\ inflight'[x] = inflight[x]
    BY <1>1 DEF Send, Shape
<1>3. \A x \in Peers \ {p} : conn'[x] = conn[x] /\ choked'[x] = choked[x]
    BY <1>1 DEF Shape
<1>4. ASSUME p \in Honest
      PROVE  PeerOK(cur'[p], inflight'[p], p \in discarded', conn'[p] = "open", choked'[p])
    <2>1. Answers(cur[p], inflight[p], p \in discarded)
        BY <1>4 DEF PeersOK, PeerOK
    <2>2. (p \in discarded) \in BOOLEAN
        OBVIOUS
    <2>3. Answers(cur'[p], inflight'[p], p \in discarded) /\ (cur'[p] = NoPiece \/ Flushed(cur'[p]))
        BY <1>1, <1>4, <2>1, <2>2, SendAnswers DEF Shape
    <2>4. cur'[p] = NoPiece => conn'[p] = "gone"
        BY <1>1 DEF Shape
    <2> QED BY <1>1, <2>3, <2>4 DEF PeerOK
<1>5. ASSUME NEW q \in Honest
      PROVE  PeerOK(cur'[q], inflight'[q], q \in discarded', conn'[q] = "open", choked'[q])
    <2>1. CASE q = p
        BY <1>4, <2>1
    <2>2. CASE q # p
        <3>1. q \in Peers \ {p}
            BY <2>2, AddressConstants
        <3> QED BY <1>1, <1>2, <1>3, <3>1, OtherPeers
    <2> QED BY <2>1, <2>2
<1> QED BY <1>1, <1>5, NextPeersOK

LEMMA HonestBlockStep ==
    ASSUME Shape, PeersOK, NEW p \in Peers, HonestBlock(p)
    PROVE  PeersOK'
<1>1. PICK r \in inflight[p] : Block(p, r[1], r[2], "right")
    BY DEF HonestBlock
<1>2. p \in Honest /\ UNCHANGED <<torrent, choked, discarded>> /\ conn[p] = "open"
    BY <1>1 DEF HonestBlock, Block
<1> DEFINE forgot == p \in discarded
           c == AddBlock(cur[p], r[2], "right")
           waiting == inflight[p] \ {<<r[1], r[2]>>}
<1>3. PeerOK(cur[p], inflight[p], forgot, conn[p] = "open", choked[p])
    BY <1>2 DEF PeersOK
<1>4. /\ cur[p] # NoPiece /\ Counted(cur[p]) /\ Incomplete(cur[p])
      /\ inflight[p] \subseteq Lacks(cur[p]) /\ (inflight[p] = Lacks(cur[p]) \/ forgot)
    BY <1>3 DEF PeerOK, Answers
<1>5. r[1] = cur[p].index /\ r[2] \in Missing(cur[p]) /\ r = <<r[1], r[2]>>
    BY <1>4 DEF Lacks
<1>6. /\ Counted(c) /\ c.index = cur[p].index
      /\ Lacks(c) = Lacks(cur[p]) \ {<<r[1], r[2]>>}
      /\ (~IsWhole(c) <=> Incomplete(c))
    BY <1>4, <1>5, AddBlockFacts DEF Shape
<1> HIDE DEF forgot, c
<1>7. waiting \subseteq Lacks(c) /\ (waiting = Lacks(c) \/ forgot)
    BY <1>4, <1>6
<1>8. c # NoPiece /\ c.index \in PieceIds(torrent)
    BY <1>6, PieceShape DEF Counted, IsPiece, Shape
<1>9. choked[p] \in BOOLEAN /\ forgot \in BOOLEAN
    BY DEF Shape, forgot
<1> HIDE DEF waiting
<1>10. CASE IsWhole(c)
    <2> DEFINE good == \A b \in DOMAIN c.blocks : c.blocks[b] = "right"
               sts == [states EXCEPT ![c.index] = IF good THEN "done" ELSE "needed"]
    <2>1. Send(p, sts, NoPiece, waiting, ~choked[p]) /\ EndsWithout(p)
        BY <1>1, <1>4, <1>5, <1>10 DEF Block, Store, c, waiting
    <2>2. sts \in [PieceIds(torrent) -> PieceStates]
        BY <1>8 DEF Shape, PieceStates
    <2>3. Lacks(c) = {}
        BY <1>10 DEF IsWhole, Lacks, Missing
    <2>4. Answers(NoPiece, waiting, forgot)
        BY <1>7, <2>3 DEF Answers
    <2> HIDE DEF sts
    <2>5. /\ Answers(cur'[p], inflight'[p], forgot)
          /\ ~choked[p] => cur'[p] = NoPiece \/ Flushed(cur'[p])
          /\ \A x \in Peers \ {p} : cur'[x] = cur[x] /\ inflight'[x] = inflight[x]
        BY <1>2, <1>9, <2>1, <2>2, <2>4, SendAnswers DEF forgot
    <2>6. conn' = (IF cur'[p] = NoPiece THEN [conn EXCEPT ![p] = "gone"] ELSE conn)
        BY <2>1 DEF EndsWithout
    <2>7. PeerOK(cur'[p], inflight'[p], p \in discarded', conn'[p] = "open", choked'[p])
        <3>1. cur'[p] = NoPiece => conn'[p] = "gone"
            BY <2>6 DEF Shape
        <3> QED BY <1>2, <2>5, <3>1 DEF PeerOK, forgot
    <2>8. ASSUME NEW q \in Honest, q # p
          PROVE  PeerOK(cur'[q], inflight'[q], q \in discarded', conn'[q] = "open", choked'[q])
        <3>1. q \in Peers \ {p}
            BY <2>8, AddressConstants
        <3>2. conn'[q] = conn[q]
            BY <2>6, <2>8, <3>1 DEF Shape
        <3> QED BY <1>2, <2>5, <3>1, <3>2, OtherPeers
    <2> QED BY <1>2, <2>7, <2>8, NextPeersOK
<1>11. CASE ~IsWhole(c)
    <2>0. states \in [PieceIds(torrent) -> PieceStates]
        BY DEF Shape
    <2>1. Send(p, states, c, waiting, ~choked[p]) /\ UNCHANGED conn
        BY <1>1, <1>4, <1>5, <1>11 DEF Block, c, waiting
    <2>2. Answers(c, waiting, forgot)
        BY <1>6, <1>7, <1>8, <1>11 DEF Answers
    <2>3. /\ Answers(cur'[p], inflight'[p], forgot)
          /\ ~choked[p] => cur'[p] = NoPiece \/ Flushed(cur'[p])
          /\ cur'[p] # NoPiece
          /\ \A x \in Peers \ {p} : cur'[x] = cur[x] /\ inflight'[x] = inflight[x]
        BY <1>2, <1>8, <1>9, <2>1, <2>2, <2>0, SendAnswers DEF forgot
    <2>4. PeerOK(cur'[p], inflight'[p], p \in discarded', conn'[p] = "open", choked'[p])
        BY <1>2, <2>3 DEF PeerOK, forgot
    <2>5. ASSUME NEW q \in Honest, q # p
          PROVE  PeerOK(cur'[q], inflight'[q], q \in discarded', conn'[q] = "open", choked'[q])
        <3>1. q \in Peers \ {p}
            BY <2>5, AddressConstants
        <3> QED BY <1>2, <2>1, <2>3, <3>1, OtherPeers
    <2> QED BY <1>2, <2>4, <2>5, NextPeersOK
<1> QED BY <1>10, <1>11

\* The other handlers of a connection.
LEMMA QuietStep ==
    ASSUME Shape, PeersOK, NEW p \in Peers, Connect(p) \/ Choke(p) \/ AnyBlock(p) \/ Drop(p)
    PROVE  PeersOK'
<1>1. UNCHANGED torrent
    BY DEF Connect, Choke, AnyBlock, Block, Drop
<1>2. \A q \in Peers \ {p} :
        /\ cur'[q] = cur[q] /\ inflight'[q] = inflight[q]
        /\ conn'[q] = conn[q] /\ choked'[q] = choked[q]
        /\ q \in discarded' <=> q \in discarded
    <2>1. CASE Connect(p) \/ Choke(p) \/ Drop(p)
        BY <2>1 DEF Connect, Choke, Drop, Shape
    <2>2. CASE AnyBlock(p)
        <3>1. PICK b \in DOMAIN cur[p].blocks, quality \in {"right", "wrong"} :
                    Block(p, cur[p].index, b, quality)
            BY <2>2 DEF AnyBlock
        <3> QED BY <3>1 DEF Block, Store, Send, EndsWithout, Shape
    <2> QED BY <2>1, <2>2
<1>3. ASSUME p \in Honest
      PROVE  PeerOK(cur'[p], inflight'[p], p \in discarded', conn'[p] = "open", choked'[p])
    <2>1. PeerOK(cur[p], inflight[p], p \in discarded, conn[p] = "open", choked[p])
        BY <1>3 DEF PeersOK
    <2>2. CASE Connect(p)
        <3>1. UNCHANGED <<choked, cur, inflight, discarded>> /\ choked[p]
            BY <2>2 DEF Connect, Shape
        <3> QED BY <2>1, <3>1 DEF PeerOK, Answers
    <2>3. CASE Choke(p)
        <3>1. choked'[p] /\ inflight'[p] = {} /\ UNCHANGED cur
            BY <2>3 DEF Choke, Shape
        <3>2. p \in discarded' \/ (inflight[p] = {} /\ UNCHANGED discarded)
            BY <2>3 DEF Choke
        <3> QED BY <2>1, <3>1, <3>2 DEF PeerOK, Answers
    <2>4. CASE Drop(p)
        <3>1. conn'[p] # "open" /\ cur'[p] = NoPiece /\ inflight'[p] = {}
            BY <2>4 DEF Drop, Shape
        <3> QED BY <3>1 DEF PeerOK, Answers
    <2> QED BY <1>3, <2>2, <2>3, <2>4 DEF AnyBlock
<1>4. ASSUME NEW q \in Honest
      PROVE  PeerOK(cur'[q], inflight'[q], q \in discarded', conn'[q] = "open", choked'[q])
    <2>1. CASE q = p
        BY <1>3, <2>1
    <2>2. CASE q # p
        <3>1. q \in Peers \ {p}
            BY <2>2, AddressConstants
        <3> QED BY <1>2, <3>1, OtherPeers
    <2> QED BY <2>1, <2>2
<1> QED BY <1>1, <1>4, NextPeersOK

LEMMA PeersStep == Shape /\ PeersOK /\ BlockNext => PeersOK'
BY UnchokeStep, HonestBlockStep, QuietStep DEF BlockNext

LEMMA ShapeStep ==
    ASSUME Shape, DiskInv', BlockNext
    PROVE  Shape'
<1>1. PICK p \in Peers : \/ Connect(p) \/ Choke(p) \/ Unchoke(p)
                         \/ HonestBlock(p) \/ AnyBlock(p) \/ Drop(p)
    BY DEF BlockNext
<1>2. UNCHANGED torrent
    BY <1>1 DEF Connect, Choke, Unchoke, HonestBlock, AnyBlock, Block, Drop
<1>3. inflight' = [q \in Peers |-> inflight'[q]]
    <2>1. CASE Connect(p) \/ Choke(p) \/ Drop(p)
        BY <2>1 DEF Connect, Choke, Drop, Shape
    <2>2. CASE Unchoke(p)
        BY <2>2 DEF Unchoke, Send, Shape
    <2>3. ASSUME NEW i, NEW b, NEW quality, Block(p, i, b, quality)
          PROVE  inflight' = [q \in Peers |-> inflight'[q]]
        BY <2>3 DEF Block, Store, Send, Shape
    <2> QED BY <1>1, <2>1, <2>2, <2>3 DEF HonestBlock, AnyBlock
<1>4. /\ conn' \in [Peers -> {"new", "open", "gone"}] /\ choked' \in [Peers -> BOOLEAN]
      /\ \A q \in Peers : conn'[q] = "new" => choked'[q]
    <2>1. CASE Connect(p) \/ Choke(p) \/ Drop(p)
        BY <2>1 DEF Connect, Choke, Drop, Shape
    <2>2. CASE Unchoke(p)
        <3>1. conn[p] = "open" /\ choked' = [choked EXCEPT ![p] = FALSE]
              /\ (conn' = conn \/ conn' = [conn EXCEPT ![p] = "gone"])
            BY <2>2 DEF Unchoke, EndsWithout
        <3> QED BY <3>1 DEF Shape
    <2>3. ASSUME NEW i, NEW b, NEW quality, Block(p, i, b, quality)
          PROVE  conn[p] = "open" /\ UNCHANGED choked
                 /\ (conn' = conn \/ conn' = [conn EXCEPT ![p] = "gone"])
        BY <2>3 DEF Block, EndsWithout
    <2>4. CASE HonestBlock(p) \/ AnyBlock(p)
        <3>1. UNCHANGED choked /\ (conn' = conn \/ conn' = [conn EXCEPT ![p] = "gone"])
            BY <2>3, <2>4 DEF HonestBlock, AnyBlock
        <3> QED BY <3>1 DEF Shape
    <2> QED BY <1>1, <2>1, <2>2, <2>4
<1>5. states' \in [PieceIds(torrent) -> PieceStates] /\ cur' = [q \in Peers |-> cur'[q]]
    BY <1>2 DEF DiskInv
<1> QED BY <1>2, <1>3, <1>4, <1>5 DEF Shape

NobodyAsked ==
    /\ conn = [p \in Peers |-> "new"] /\ choked = [p \in Peers |-> TRUE]
    /\ cur = [p \in Peers |-> NoPiece] /\ inflight = [p \in Peers |-> {}]

PipelineInv == IF stage = "transfer" THEN Shape /\ PeersOK ELSE NobodyAsked

LEMMA PipelineStep == PipelineInv /\ TransferInv' /\ [Next]_vars => PipelineInv'
<1> SUFFICES ASSUME PipelineInv, TransferInv', [Next]_vars PROVE PipelineInv'
    OBVIOUS
<1>1. ASSUME UNCHANGED blockVars, stage' = "transfer" <=> stage = "transfer"
      PROVE  PipelineInv'
    <2>1. UNCHANGED <<torrent, states, conn, choked, cur, inflight, discarded>>
        BY <1>1 DEF blockVars
    <2>2. CASE stage = "transfer"
        <3>1. Shape'
            BY <2>1, <2>2 DEF PipelineInv, Shape
        <3>2. PeersOK'
            <4>1. PeersOK
                BY <2>2 DEF PipelineInv
            <4>2. \A q \in Honest : PeerOK(cur'[q], inflight'[q], q \in discarded',
                                           conn'[q] = "open", choked'[q])
                BY <2>1, <4>1, OtherPeers
            <4> QED BY <2>1, <4>2, NextPeersOK
        <3> QED BY <1>1, <2>2, <3>1, <3>2 DEF PipelineInv
    <2>3. CASE stage # "transfer"
        BY <1>1, <2>1, <2>3 DEF PipelineInv, NobodyAsked
    <2> QED BY <2>2, <2>3
<1>2. ASSUME BlocksReset, stage' # "transfer"
      PROVE  PipelineInv'
    BY <1>2 DEF BlocksReset, PipelineInv, NobodyAsked
<1>3. CASE BatchStep \/ UNCHANGED vars
    <2>1. UNCHANGED blockVars /\ (stage' = "transfer" <=> stage = "transfer")
        BY <1>3 DEF BatchStep, NextLink, Return, PlainDownload, SaveText, SaveEnd, Ends, vars,
                    sessionVars
    <2> QED BY <1>1, <2>1
<1>4. CASE TrackersTell \/ SearchEnds \/ TryPeer \/ PeerFailed \/ NoMetadata
    <2>1. UNCHANGED blockVars /\ (stage' = "transfer" <=> stage = "transfer")
        BY <1>4 DEF TrackersTell, SearchEnds, TryPeer, PeerFailed, NoMetadata, Ends, sessionVars
    <2> QED BY <1>1, <2>1
<1>5. CASE StartTransfer
    <2>1. stage = "metadata" /\ stage' = "transfer"
        BY <1>5 DEF StartTransfer
    <2>2. PICK t \in Torrents : \E S \in SUBSET PieceIds(t) :
                Prepare(t, UNION {Righted(t, i) : i \in S})
        BY <1>5 DEF StartTransfer
    <2>3. torrent' \in Torrents /\ UNCHANGED <<conn, choked, cur, inflight>> /\ NobodyAsked
        BY <2>1, <2>2 DEF Prepare, PipelineInv
    <2>4. states' \in [PieceIds(torrent') -> PieceStates]
        BY <2>1 DEF TransferInv, DiskInv
    <2>5. Shape'
        BY <2>3, <2>4 DEF Shape, NobodyAsked
    <2>6. PeersOK'
        BY <2>3, AddressConstants DEF PeersOK, PeerOK, Answers, NobodyAsked
    <2> QED BY <2>1, <2>5, <2>6 DEF PipelineInv
<1>6. CASE TransferEnds \/ TransferIncomplete
    BY <1>2, <1>6 DEF TransferEnds, TransferIncomplete, Ends
<1>7. CASE Transfer
    <2>1. stage = "transfer" /\ stage' = "transfer" /\ BlockNext
        BY <1>7 DEF Transfer, sessionVars
    <2>2. Shape /\ PeersOK /\ DiskInv'
        BY <2>1 DEF PipelineInv, TransferInv
    <2> QED BY <2>1, <2>2, PeersStep, ShapeStep DEF PipelineInv
<1>8. CASE Search \/ Exchange
    BY <1>1, <1>8 DEF Search, Exchange, sessionVars
<1>9. CASE PlainRefused \/ PrepareFails \/ SaveFails \/ SaveBreaks \/ OtherProcess
    <2>1. UNCHANGED blockVars /\ (stage' = "transfer" <=> stage = "transfer")
        BY <1>9 DEF PlainRefused, PrepareFails, SaveFails, SaveBreaks, OtherProcess, Ends,
                    sessionVars
    <2> QED BY <1>1, <2>1
<1> QED BY <1>3, <1>4, <1>5, <1>6, <1>7, <1>8, <1>9 DEF Next, MagnetStep, Stopped

LEMMA PipelineAlways == Spec => []PipelineInv
<1>1. Init => PipelineInv
    BY DEF Init, BlocksIdle, PipelineInv, NobodyAsked
<1> QED BY <1>1, PipelineStep, TransferAlways, PTL DEF Spec

\* For a peer that follows the protocol the count of outstanding requests never
\* drifts, whatever the others send and however often it chokes us.
THEOREM RequestsAreCounted == Spec => []RequestsCounted
<1>1. PipelineInv => RequestsCounted
    <2> SUFFICES ASSUME PipelineInv, NEW p \in Honest, cur[p] # NoPiece
                 PROVE  /\ cur[p].outstanding = Cardinality(Missing(cur[p]))
                        /\ inflight[p] \subseteq Lacks(cur[p])
                        /\ inflight[p] = Lacks(cur[p]) \/ p \in discarded
        BY DEF RequestsCounted, Lacks
    <2>1. PeersOK
        BY AddressConstants DEF PipelineInv, NobodyAsked
    <2> QED BY <2>1 DEF PeersOK, PeerOK, Answers, Counted
<1> QED BY <1>1, PipelineAlways, PTL

\* Such a peer is never left without a request while its piece lacks a block,
\* whatever the depth of the pipeline, unless it forgot requests.
THEOREM NeverLeftIdle == Spec => []NeverIdle
<1>1. PipelineInv => NeverIdle
    <2> SUFFICES ASSUME PipelineInv, NEW p \in Honest \ discarded,
                        conn[p] = "open", ~choked[p], inflight[p] = {}
                 PROVE  FALSE
        BY DEF NeverIdle
    <2>1. Shape /\ PeersOK /\ p \in Peers
        BY AddressConstants DEF PipelineInv, NobodyAsked
    <2> DEFINE c == cur[p]
    <2>2. /\ c # NoPiece /\ Counted(c) /\ Incomplete(c) /\ Flushed(c)
          /\ inflight[p] = Lacks(c)
        BY <2>1 DEF PeersOK, PeerOK, Answers
    <2> HIDE DEF c
    <2>3. Missing(c) = {}
        BY <2>2 DEF Lacks
    <2>4. c.outstanding = 0
        BY <2>2, <2>3, FS_EmptySet DEF Counted
    <2>5. c.next = NumBlocks(torrent, c.index)
        BY <2>2, <2>4, BlockConstants DEF Flushed
    <2>6. c.blocks \in [0 .. c.next - 1 -> {"nothing", "right", "wrong"}] /\ c.next \in Nat
        BY <2>1, <2>2, <2>5, PieceShape DEF Counted, Shape
    <2>7. PICK b \in 0 .. c.next - 1 : c.blocks[b] = "nothing"
        BY <2>2, <2>6 DEF Incomplete
    <2>8. b \in Missing(c)
        BY <2>6, <2>7 DEF Missing
    <2> QED BY <2>3, <2>8
<1> QED BY <1>1, PipelineAlways, PTL

-----------------------------------------------------------------------------
(***************************************************************************)
(* The transfer implements the PieceStore.                                 *)
(***************************************************************************)
\* The piece of a peer is being downloaded and is nobody else's.
Holding ==
    /\ \A p \in Peers : cur[p] # NoPiece =>
            IsPiece(cur[p]) /\ states[cur[p].index] = "downloading"
    /\ \A p, q \in Peers : p # q /\ cur[p] # NoPiece /\ cur[q] # NoPiece =>
            cur[p].index # cur[q].index

\* Only a peer that is connected has a piece.
Connected == \A p \in Peers : cur[p] # NoPiece => conn[p] = "open"

LEMMA AddBlockPiece ==
    ASSUME NEW c, IsPiece(c), torrent \in Torrents, NEW b, NEW quality \in {"right", "wrong"}
    PROVE  IsPiece(AddBlock(c, b, quality)) /\ AddBlock(c, b, quality).index = c.index
<1> DEFINE N == NumBlocks(torrent, c.index)
           d == AddBlock(c, b, quality)
           bs == [c.blocks EXCEPT ![b] = quality]
           o == IF c.outstanding = 0 THEN 0 ELSE c.outstanding - 1
<1>1. /\ N \in Nat \ {0} /\ c.blocks \in [0 .. N - 1 -> {"nothing", "right", "wrong"}]
      /\ c.next \in 0 .. N /\ c.outstanding \in Nat
    BY PieceShape
<1>2. CASE d = c
    BY <1>2
<1>3. CASE d # c
    <2>1. b \in DOMAIN c.blocks
          /\ d = [c EXCEPT !.blocks[b] = quality, !.outstanding = IF @ = 0 THEN 0 ELSE @ - 1]
        BY <1>3 DEF AddBlock
    <2>2. c = [index |-> c.index, blocks |-> c.blocks, next |-> c.next, outstanding |-> c.outstanding]
        BY DEF IsPiece, PieceDownloads
    <2>3. bs \in [0 .. N - 1 -> {"nothing", "right", "wrong"}] /\ o \in Nat
        <3> HIDE DEF N
        <3>1. o \in Nat
            BY <1>1
        <3> HIDE DEF o
        <3> QED BY <1>1, <3>1
    <2>4. d = [index |-> c.index, blocks |-> bs, next |-> c.next, outstanding |-> o]
        <3> HIDE DEF d
        <3> QED BY <2>1, <2>2
    <2>5. c.index \in PieceIds(torrent) /\ c.next \in 0 .. N
        BY <1>1 DEF IsPiece
    <2> HIDE DEF d, bs, o
    <2>6. d.index = c.index
        BY <2>4
    <2>7. d \in PieceDownloads(torrent, c.index)
        BY <2>3, <2>4, <2>5 DEF PieceDownloads
    <2> QED BY <2>5, <2>6, <2>7 DEF IsPiece, d
<1> QED BY <1>2, <1>3

\* A piece that goes to a peer in Send is needed, so it is not done and nobody's.
LEMMA SendHolds ==
    ASSUME Shape, UNCHANGED torrent, NEW p \in Peers,
           NEW sts \in [PieceIds(torrent) -> PieceStates],
           NEW c, c # NoPiece => IsPiece(c) /\ sts[c.index] = "downloading",
           \A q \in Peers \ {p} : cur[q] # NoPiece =>
                /\ IsPiece(cur[q]) /\ sts[cur[q].index] = "downloading"
                /\ c # NoPiece => cur[q].index # c.index,
           Holding, NEW waiting, NEW flush, Send(p, sts, c, waiting, flush)
    PROVE  /\ Holding'
           /\ DonePieces' = {i \in PieceIds(torrent) : sts[i] = "done"}
           /\ \E h \in Pieces!MayHold(p, DonePieces') : HeldPieces' = [HeldPieces EXCEPT ![p] = h]
           /\ \A q \in Peers \ {p} : cur'[q] = cur[q]
<1> DEFINE starts  == c = NoPiece /\ NextPiece(sts) # {}
           i0      == CHOOSE i \in NextPiece(sts) : TRUE
           piece   == IF starts THEN NewPiece(i0) ELSE c
           flushed == flush /\ piece # NoPiece
           d       == IF flushed THEN Requested(piece) ELSE piece
<1>1. /\ cur' = [cur EXCEPT ![p] = d]
      /\ states' = IF starts THEN [sts EXCEPT ![piece.index] = "downloading"] ELSE sts
    BY DEF Send
<1>2. torrent \in Torrents /\ cur = [x \in Peers |-> cur[x]] /\ states \in [PieceIds(torrent) -> PieceStates]
    BY DEF Shape
<1>3. starts => i0 \in PieceIds(torrent) /\ sts[i0] = "needed"
    BY DEF NextPiece
<1> HIDE DEF i0
<1>4. starts => IsPiece(NewPiece(i0)) /\ NewPiece(i0).index = i0
    BY <1>2, <1>3, NewPieceFacts DEF Counted
<1>5. piece # NoPiece => IsPiece(piece) /\ (starts => piece.index = i0) /\ (~starts => piece = c)
    BY <1>4
<1>6. piece = NoPiece => ~starts
    BY <1>2, <1>3, NewPieceFacts
<1> HIDE DEF piece
<1>7. /\ d # NoPiece <=> piece # NoPiece
      /\ d # NoPiece => IsPiece(d) /\ d.index = piece.index
    BY <1>2, <1>5, RequestedShape, PieceShape
<1> HIDE DEF d
<1>8. cur'[p] = d /\ \A q \in Peers \ {p} : cur'[q] = cur[q]
    BY <1>1, <1>2
<1>9. states' \in [PieceIds(torrent) -> PieceStates]
      /\ \A i \in PieceIds(torrent) :
            states'[i] = IF starts /\ i = i0 THEN "downloading" ELSE sts[i]
    BY <1>1, <1>3, <1>5, <1>6 DEF PieceStates
<1> HIDE DEF starts
<1>10. DonePieces' = {i \in PieceIds(torrent) : sts[i] = "done"}
    BY <1>3, <1>9 DEF DonePieces
<1>11. d # NoPiece => /\ states'[d.index] = "downloading" /\ sts[d.index] # "done"
                      /\ d.index \in PieceIds(torrent)
    BY <1>3, <1>5, <1>7, <1>9 DEF IsPiece
<1>12. \A q \in Peers \ {p} : cur[q] # NoPiece =>
            /\ IsPiece(cur[q]) /\ states'[cur[q].index] = "downloading"
            /\ d # NoPiece => d.index # cur[q].index
    BY <1>3, <1>5, <1>7, <1>9 DEF IsPiece
<1>13. Holding'
    <2>1. \A x \in Peers : cur'[x] # NoPiece =>
                IsPiece(cur'[x]) /\ states'[cur'[x].index] = "downloading"
        BY <1>7, <1>8, <1>11, <1>12
    <2>2. \A x \in Peers : IsPiece(cur'[x]) => IsPiece(cur[x])'
        BY DEF IsPiece, PieceDownloads, NumBlocks
    <2>3. \A x, y \in Peers : x # y /\ cur'[x] # NoPiece /\ cur'[y] # NoPiece =>
                cur'[x].index # cur'[y].index
        BY <1>8, <1>12 DEF Holding
    <2> QED BY <2>1, <2>2, <2>3 DEF Holding
<1>14. \E h \in Pieces!MayHold(p, DonePieces') : HeldPieces' = [HeldPieces EXCEPT ![p] = h]
    <2> DEFINE h == IF d = NoPiece THEN {} ELSE {d.index}
    <2>1. HeldPieces' = [HeldPieces EXCEPT ![p] = h]
        BY <1>8 DEF HeldPieces
    <2>2. d # NoPiece => \A q \in Peers \ {p} : d.index \notin HeldPieces[q]
        BY <1>12 DEF HeldPieces
    <2>3. d # NoPiece => d.index \in PieceIds(torrent) \ DonePieces'
        BY <1>10, <1>11
    <2>4. h \in Pieces!MayHold(p, DonePieces')
        BY <2>2, <2>3 DEF Pieces!MayHold
    <2> QED BY <2>1, <2>4
<1> QED BY <1>8, <1>10, <1>13, <1>14

LEMMA UnchokeHolds ==
    ASSUME Shape, Holding, Connected, NEW p \in Peers, Unchoke(p)
    PROVE  Holding' /\ Connected' /\ Pieces!Turn(p)
<1>1. /\ conn[p] = "open" /\ Send(p, states, cur[p], inflight[p], TRUE)
      /\ conn' = (IF cur'[p] = NoPiece THEN [conn EXCEPT ![p] = "gone"] ELSE conn)
      /\ UNCHANGED <<torrent, right>>
    BY DEF Unchoke, EndsWithout
<1>2. /\ states \in [PieceIds(torrent) -> PieceStates]
      /\ cur[p] # NoPiece => IsPiece(cur[p]) /\ states[cur[p].index] = "downloading"
      /\ \A q \in Peers \ {p} : cur[q] # NoPiece =>
            /\ IsPiece(cur[q]) /\ states[cur[q].index] = "downloading"
            /\ cur[p] # NoPiece => cur[q].index # cur[p].index
    BY DEF Shape, Holding
<1>3. /\ Holding'
      /\ DonePieces' = {i \in PieceIds(torrent) : states[i] = "done"}
      /\ \E h \in Pieces!MayHold(p, DonePieces') : HeldPieces' = [HeldPieces EXCEPT ![p] = h]
      /\ \A q \in Peers \ {p} : cur'[q] = cur[q]
    BY <1>1, <1>2, SendHolds
<1>4. DonePieces' = DonePieces
    BY <1>2, <1>3 DEF DonePieces
<1>5. Connected'
    BY <1>1, <1>3 DEF Connected, Shape
<1>6. torrent # NoTorrent
    BY SessionConstants DEF Shape
<1> QED BY <1>1, <1>3, <1>4, <1>5, <1>6 DEF Pieces!Turn

\* A block completes its piece, which is stored or given back, or does not.
LEMMA BlockHolds ==
    ASSUME Shape, Holding, Connected, NEW p \in Peers, NEW i, NEW b,
           NEW quality \in {"right", "wrong"}, Block(p, i, b, quality)
    PROVE  /\ Holding' /\ Connected'
           /\ \/ Pieces!Turn(p) \/ Pieces!Deliver(p)
              \/ UNCHANGED <<torrent, right, DonePieces, HeldPieces>>
<1> DEFINE waiting == inflight[p] \ {<<i, b>>}
           c == AddBlock(cur[p], b, quality)
<1>1. UNCHANGED torrent /\ conn[p] = "open" /\ torrent \in Torrents /\ torrent # NoTorrent
    BY SessionConstants DEF Block, Shape
<1>2. IsTorrent(torrent) /\ states \in [PieceIds(torrent) -> PieceStates]
      /\ cur = [x \in Peers |-> cur[x]] /\ DonePieces = {j \in PieceIds(torrent) : states[j] = "done"}
    BY <1>1, SessionConstants DEF Shape, DonePieces
<1>3. cur[p] # NoPiece =>
        /\ IsPiece(c) /\ c.index = cur[p].index /\ states[c.index] = "downloading"
        /\ c.index \in PieceIds(torrent) /\ c # NoPiece
        /\ HeldPieces[p] = {c.index}
    <2> SUFFICES ASSUME cur[p] # NoPiece
                 PROVE  /\ IsPiece(c) /\ c.index = cur[p].index /\ states[c.index] = "downloading"
                        /\ c.index \in PieceIds(torrent) /\ c # NoPiece
                        /\ HeldPieces[p] = {c.index}
        OBVIOUS
    <2>1. IsPiece(c) /\ c.index = cur[p].index
        BY <1>1, AddBlockPiece DEF Holding
    <2> HIDE DEF c
    <2>2. c # NoPiece
        BY <1>1, <2>1, PieceShape
    <2> QED BY <2>1, <2>2 DEF Holding, IsPiece, HeldPieces
<1>4. \A q \in Peers \ {p} : cur[p] # NoPiece /\ cur[q] # NoPiece =>
        /\ IsPiece(cur[q]) /\ states[cur[q].index] = "downloading"
        /\ cur[q].index \in PieceIds(torrent) /\ cur[q].index # c.index
    BY <1>3 DEF Holding, IsPiece
<1>5. CASE cur[p] # NoPiece /\ cur[p].index = i /\ IsWhole(c)
    <2> DEFINE good == \A x \in DOMAIN c.blocks : c.blocks[x] = "right"
               sts == [states EXCEPT ![c.index] = IF good THEN "done" ELSE "needed"]
    <2>1. /\ right' = IF good THEN WritePiece(right, torrent, c.index) ELSE right
          /\ Send(p, sts, NoPiece, waiting, ~choked[p])
          /\ conn' = (IF cur'[p] = NoPiece THEN [conn EXCEPT ![p] = "gone"] ELSE conn)
        BY <1>5 DEF Block, Store, EndsWithout
    <2> HIDE DEF c, good
    <2>2. /\ sts \in [PieceIds(torrent) -> PieceStates]
          /\ \A j \in PieceIds(torrent) :
                sts[j] = IF j = c.index THEN IF good THEN "done" ELSE "needed" ELSE states[j]
        BY <1>2, <1>3, <1>5 DEF PieceStates
    <2> HIDE DEF sts, waiting
    <2>3. \A q \in Peers \ {p} : cur[q] # NoPiece =>
                IsPiece(cur[q]) /\ sts[cur[q].index] = "downloading"
        BY <1>4, <1>5, <2>2
    <2>4. /\ Holding'
          /\ DonePieces' = {j \in PieceIds(torrent) : sts[j] = "done"}
          /\ \E h \in Pieces!MayHold(p, DonePieces') : HeldPieces' = [HeldPieces EXCEPT ![p] = h]
          /\ \A q \in Peers \ {p} : cur'[q] = cur[q]
        BY <1>1, <2>1, <2>2, <2>3, SendHolds
    <2>5. Connected'
        BY <1>1, <2>1, <2>4 DEF Connected, Shape
    <2>6. CASE good
        <3>1. DonePieces' = DonePieces \union HeldPieces[p] /\ HeldPieces[p] # {}
            BY <1>2, <1>3, <1>5, <2>2, <2>4, <2>6
        <3>2. c.index \in Nat
            BY <1>2, <1>3, <1>5 DEF PieceIds, IsTorrent
        <3>3. right' = right \union PlacesOf(torrent, c.index)
            BY <1>2, <2>1, <2>6, <3>2, WritesPiece
        <3>4. right' = right \union UNION {PlacesOf(torrent, j) : j \in HeldPieces[p]}
            BY <1>3, <1>5, <3>3
        <3> QED BY <1>1, <2>4, <2>5, <3>1, <3>4 DEF Pieces!Deliver
    <2>7. CASE ~good
        <3>1. DonePieces' = DonePieces
            BY <1>2, <1>3, <1>5, <2>2, <2>4, <2>7
        <3> QED BY <1>1, <2>1, <2>4, <2>5, <2>7, <3>1 DEF Pieces!Turn
    <2> QED BY <2>6, <2>7
<1>6. CASE cur[p] # NoPiece /\ cur[p].index = i /\ ~IsWhole(c)
    <2>1. Send(p, states, c, waiting, ~choked[p]) /\ UNCHANGED <<right, conn>>
        BY <1>6 DEF Block
    <2> HIDE DEF c, waiting
    <2>2. /\ Holding'
          /\ DonePieces' = {j \in PieceIds(torrent) : states[j] = "done"}
          /\ \E h \in Pieces!MayHold(p, DonePieces') : HeldPieces' = [HeldPieces EXCEPT ![p] = h]
          /\ \A q \in Peers \ {p} : cur'[q] = cur[q]
        BY <1>1, <1>2, <1>3, <1>4, <1>6, <2>1, SendHolds
    <2>3. Connected'
        BY <1>1, <2>1, <2>2 DEF Connected
    <2> QED BY <1>1, <1>2, <2>1, <2>2, <2>3 DEF Pieces!Turn
<1>7. CASE ~(cur[p] # NoPiece /\ cur[p].index = i)
    <2>1. UNCHANGED <<right, states, conn, cur>>
        BY <1>7 DEF Block
    <2>2. Holding'
        BY <1>1, <2>1 DEF Holding, IsPiece, PieceDownloads, NumBlocks
    <2> QED BY <1>1, <2>1, <2>2 DEF Connected, DonePieces, HeldPieces
<1> QED BY <1>5, <1>6, <1>7

LEMMA DropHolds ==
    ASSUME Shape, Holding, Connected, NEW p \in Peers, Drop(p)
    PROVE  Holding' /\ Connected' /\ Pieces!Turn(p)
<1>1. /\ states' = IF cur[p] = NoPiece THEN states ELSE [states EXCEPT ![cur[p].index] = "needed"]
      /\ cur' = [cur EXCEPT ![p] = NoPiece] /\ conn' = [conn EXCEPT ![p] = "gone"]
      /\ UNCHANGED <<torrent, right>>
    BY DEF Drop
<1>2. /\ torrent # NoTorrent /\ states \in [PieceIds(torrent) -> PieceStates]
      /\ cur = [x \in Peers |-> cur[x]]
    BY SessionConstants DEF Shape
<1>3. cur'[p] = NoPiece /\ \A q \in Peers \ {p} : cur'[q] = cur[q]
    BY <1>1, <1>2
<1>4. cur[p] # NoPiece => cur[p].index \in PieceIds(torrent) /\ states[cur[p].index] = "downloading"
    BY DEF Holding, IsPiece
<1>5. \A q \in Peers \ {p} : cur[q] # NoPiece =>
        /\ IsPiece(cur[q]) /\ states[cur[q].index] = "downloading"
        /\ cur[p] # NoPiece => cur[q].index # cur[p].index
    BY DEF Holding
<1>6. DonePieces' = DonePieces
    BY <1>1, <1>2, <1>4 DEF DonePieces
<1>7. Holding'
    <2>1. \A q \in Peers \ {p} : cur[q] # NoPiece => states'[cur[q].index] = "downloading"
        BY <1>1, <1>2, <1>5 DEF IsPiece
    <2>2. \A q \in Peers : IsPiece(cur'[q]) => IsPiece(cur[q])'
        BY <1>1 DEF IsPiece, PieceDownloads, NumBlocks
    <2> QED BY <1>3, <1>5, <2>1, <2>2 DEF Holding
<1>8. Connected'
    BY <1>1, <1>3 DEF Connected, Shape
<1>9. HeldPieces' = [HeldPieces EXCEPT ![p] = {}]
    BY <1>3 DEF HeldPieces
<1>10. {} \in Pieces!MayHold(p, DonePieces)
    BY DEF Pieces!MayHold
<1> QED BY <1>1, <1>2, <1>6, <1>7, <1>8, <1>9, <1>10 DEF Pieces!Turn

LEMMA BlocksImplement ==
    ASSUME Shape, Holding, Connected, BlockNext
    PROVE  /\ Holding' /\ Connected'
           /\ Pieces!Next \/ UNCHANGED <<torrent, right, DonePieces, HeldPieces>>
<1>1. PICK p \in Peers : \/ Connect(p) \/ Choke(p) \/ Unchoke(p)
                         \/ HonestBlock(p) \/ AnyBlock(p) \/ Drop(p)
    BY DEF BlockNext
<1>2. CASE Connect(p) \/ Choke(p)
    <2>1. /\ UNCHANGED <<torrent, right, states, cur>>
          /\ conn' = conn \/ conn' = [conn EXCEPT ![p] = "open"]
        BY <1>2 DEF Connect, Choke
    <2>2. Holding'
        BY <2>1 DEF Holding, IsPiece, PieceDownloads, NumBlocks
    <2>3. Connected'
        BY <2>1 DEF Connected, Shape
    <2> QED BY <2>1, <2>2, <2>3 DEF DonePieces, HeldPieces
<1>3. CASE Unchoke(p)
    BY <1>3, UnchokeHolds DEF Pieces!Next
<1>4. CASE HonestBlock(p)
    <2>1. PICK r \in inflight[p] : Block(p, r[1], r[2], "right")
        BY <1>4 DEF HonestBlock
    <2> QED BY <2>1, BlockHolds DEF Pieces!Next
<1>5. CASE AnyBlock(p)
    <2>1. PICK b \in DOMAIN cur[p].blocks, quality \in {"right", "wrong"} :
                Block(p, cur[p].index, b, quality)
        BY <1>5 DEF AnyBlock
    <2> QED BY <2>1, BlockHolds DEF Pieces!Next
<1>6. CASE Drop(p)
    BY <1>6, DropHolds DEF Pieces!Next
<1> QED BY <1>1, <1>2, <1>3, <1>4, <1>5, <1>6

\* Outside of the transfer there is no torrent and nobody has a piece.
LEMMA NothingIsIdle ==
    ASSUME NothingHeld
    PROVE  /\ torrent = NoTorrent /\ right = {} /\ DonePieces = {} /\ HeldPieces = Pieces!Idle
           /\ Holding /\ Connected
BY DEF NothingHeld, DonePieces, HeldPieces, Pieces!Idle, Holding, Connected

\* The pieces found on disk are whole ones.
LEMMA StartOpens ==
    ASSUME stage = "metadata", TransferInv, PipelineInv, NEW t \in Torrents,
           NEW S \in SUBSET PieceIds(t), Prepare(t, UNION {Righted(t, i) : i \in S})
    PROVE  Holding' /\ Connected' /\ Pieces!Open
<1>1. /\ torrent' = t /\ IsTorrent(t) /\ UNCHANGED cur /\ cur = [p \in Peers |-> NoPiece]
      /\ torrent = NoTorrent
      /\ states' = [i \in PieceIds(t) |-> IF ReadsVerified(right', t, i) THEN "done" ELSE "needed"]
    BY SessionConstants DEF Prepare, TransferInv, NothingHeld
<1>2. \A i \in PieceIds(t) : Righted(t, i) = PlacesOf(t, i) /\ Touched(t, i) = PlacesOf(t, i)
    <2>1. PieceIds(t) \subseteq Nat
        BY <1>1 DEF PieceIds, IsTorrent
    <2> QED BY <1>1, <2>1, WalkIsPiece
<1>3. right' = UNION {PlacesOf(t, i) : i \in S}
    <2>1. {Righted(t, i) : i \in S} = {PlacesOf(t, i) : i \in S}
        BY <1>2
    <2> QED BY <2>1 DEF Prepare
<1>4. DonePieces' \in SUBSET {i \in PieceIds(t) : PlacesOf(t, i) \subseteq right'}
    <2>1. DonePieces' \subseteq PieceIds(t)
        BY <1>1 DEF DonePieces
    <2>2. \A i \in DonePieces' : PlacesOf(t, i) \subseteq right'
        BY <1>1, <1>2 DEF DonePieces, ReadsVerified
    <2> QED BY <2>1, <2>2
<1>5. HeldPieces' = HeldPieces
    BY <1>1 DEF HeldPieces
<1>6. Holding' /\ Connected'
    BY <1>1 DEF Holding, Connected
<1> QED BY <1>1, <1>3, <1>4, <1>5, <1>6 DEF Pieces!Open

\* A transfer is left when all pieces are done or no task is left: in both cases
\* nobody has a piece.
LEMMA EndCloses ==
    ASSUME Shape, Holding, Connected, BlocksReset,
           AllDone \/ \A p \in Peers : conn[p] # "open"
    PROVE  Holding' /\ Connected' /\ Pieces!Close
<1>1. \A p \in Peers : cur[p] = NoPiece
    <2>1. CASE AllDone
        BY <2>1 DEF AllDone, Holding, IsPiece, Shape
    <2>2. CASE \A p \in Peers : conn[p] # "open"
        BY <2>2 DEF Connected
    <2> QED BY <2>1, <2>2
<1>2. HeldPieces = Pieces!Idle
    BY <1>1 DEF HeldPieces, Pieces!Idle
<1>3. NothingHeld'
    BY DEF BlocksReset, NothingHeld
<1>4. /\ torrent' = NoTorrent /\ right' = {} /\ DonePieces' = {} /\ HeldPieces' = HeldPieces
      /\ Holding' /\ Connected'
    BY <1>2, <1>3 DEF NothingHeld, DonePieces, HeldPieces, Pieces!Idle, Holding, Connected
<1>5. torrent # NoTorrent
    BY SessionConstants DEF Shape
<1> QED BY <1>2, <1>4, <1>5 DEF Pieces!Close

HoldInv == Holding /\ Connected

LEMMA StoreStep ==
    ASSUME TransferInv, PipelineInv, HoldInv, [Next]_vars
    PROVE  HoldInv' /\ [Pieces!Next]_<<torrent, right, DonePieces, HeldPieces>>
<1>1. ASSUME UNCHANGED blockVars
      PROVE  HoldInv' /\ UNCHANGED <<torrent, right, DonePieces, HeldPieces>>
    <2>1. UNCHANGED <<torrent, right, states, cur, conn>>
        BY <1>1 DEF blockVars
    <2> QED BY <2>1 DEF HoldInv, Holding, Connected, IsPiece, PieceDownloads, NumBlocks,
                        DonePieces, HeldPieces
<1>2. CASE BatchStep \/ UNCHANGED vars
    <2>1. UNCHANGED blockVars
        BY <1>2 DEF BatchStep, NextLink, Return, PlainDownload, SaveText, SaveEnd, vars
    <2> QED BY <1>1, <2>1
<1>3. CASE TrackersTell \/ SearchEnds \/ TryPeer \/ PeerFailed \/ NoMetadata
    <2>1. UNCHANGED blockVars
        BY <1>3 DEF TrackersTell, SearchEnds, TryPeer, PeerFailed, NoMetadata
    <2> QED BY <1>1, <2>1
<1>4. CASE Search \/ Exchange \/ PlainRefused \/ PrepareFails \/ SaveFails \/ SaveBreaks
              \/ OtherProcess
    <2>1. UNCHANGED blockVars
        BY <1>4 DEF Search, Exchange, PlainRefused, PrepareFails, SaveFails, SaveBreaks,
                    OtherProcess
    <2> QED BY <1>1, <2>1
<1>5. CASE StartTransfer
    <2>1. stage = "metadata"
        BY <1>5 DEF StartTransfer
    <2>2. PICK t \in Torrents : \E S \in SUBSET PieceIds(t) :
                Prepare(t, UNION {Righted(t, i) : i \in S})
        BY <1>5 DEF StartTransfer
    <2>3. PICK S \in SUBSET PieceIds(t) : Prepare(t, UNION {Righted(t, i) : i \in S})
        BY <2>2
    <2>4. Holding' /\ Connected' /\ Pieces!Open
        BY <2>1, <2>2, <2>3, StartOpens
    <2> QED BY <2>4 DEF HoldInv, Pieces!Next
<1>6. CASE TransferEnds \/ TransferIncomplete
    <2>1. /\ Shape /\ BlocksReset
          /\ AllDone \/ \A p \in Peers : conn[p] # "open"
        BY <1>6 DEF TransferEnds, TransferIncomplete, PipelineInv
    <2>2. Holding' /\ Connected' /\ Pieces!Close
        BY <2>1, EndCloses DEF HoldInv
    <2> QED BY <2>2 DEF HoldInv, Pieces!Next
<1>7. CASE Transfer
    <2>1. Shape /\ BlockNext
        BY <1>7 DEF Transfer, PipelineInv
    <2> QED BY <2>1, BlocksImplement DEF HoldInv
<1> QED BY <1>2, <1>3, <1>4, <1>5, <1>6, <1>7 DEF Next, MagnetStep, Stopped

\* Whatever the peers send, choke or drop, and for every torrent: a piece has
\* one peer at most, the files gain the places of whole verified pieces and
\* nothing else, what is done is done for good, and a transfer that is left has
\* no piece in anybody's hands.
THEOREM SessionImplementsStore == Spec => ImplementsStore
<1>1. Init => Pieces!Init /\ HoldInv
    <2> SUFFICES ASSUME Init PROVE Pieces!Init /\ HoldInv
        OBVIOUS
    <2>1. NothingHeld
        BY DEF Init, BlocksIdle, NothingHeld
    <2> QED BY <2>1, NothingIsIdle DEF Pieces!Init, HoldInv
<1>2. TransferInv /\ PipelineInv /\ HoldInv /\ [Next]_vars
        => HoldInv' /\ [Pieces!Next]_<<torrent, right, DonePieces, HeldPieces>>
    BY StoreStep
<1> QED BY <1>1, <1>2, TransferAlways, PipelineAlways, PTL
        DEF Spec, ImplementsStore, Pieces!Spec, Pieces!storeVars

\* What that gives: nobody fetches what is done or what another peer fetches,
\* and everything that is done is on disk, in every state of the PieceStore.
THEOREM StorePromises == Pieces!Spec => []Pieces!StoreInv
<1> DEFINE w == <<torrent, right, DonePieces, HeldPieces>>
<1>0. HeldPieces = [p \in Peers |-> HeldPieces[p]]
    BY DEF HeldPieces
<1>1. Pieces!Init => Pieces!StoreInv
    BY DEF Pieces!Init, Pieces!StoreInv, Pieces!Idle
<1>2. Pieces!StoreInv /\ [Pieces!Next]_w => Pieces!StoreInv'
    <2> SUFFICES ASSUME Pieces!StoreInv, [Pieces!Next]_w PROVE Pieces!StoreInv'
        OBVIOUS
    <2>1. CASE Pieces!Open \/ Pieces!Close
        <3>1. HeldPieces = Pieces!Idle /\ HeldPieces' = HeldPieces
            BY <2>1 DEF Pieces!Open, Pieces!Close, Pieces!StoreInv
        <3>2. \A i \in DonePieces' : PlacesOf(torrent', i) \subseteq right'
            BY <2>1 DEF Pieces!Open, Pieces!Close
        <3> QED BY <3>1, <3>2 DEF Pieces!StoreInv, Pieces!Idle
    <2>2. ASSUME NEW p \in Peers, NEW D, NEW h \in Pieces!MayHold(p, D), DonePieces \subseteq D,
                 HeldPieces' = [HeldPieces EXCEPT ![p] = h], DonePieces' = D, torrent # NoTorrent,
                 D \subseteq DonePieces \union HeldPieces[p], UNCHANGED torrent,
                 \A i \in D : PlacesOf(torrent, i) \subseteq right'
          PROVE  Pieces!StoreInv'
        <3>1. HeldPieces'[p] = h /\ \A q \in Peers \ {p} : HeldPieces'[q] = HeldPieces[q]
            BY <1>0, <2>2
        <3>2. h \intersect D = {} /\ \A q \in Peers \ {p} : h \intersect HeldPieces[q] = {}
            BY DEF Pieces!MayHold
        <3>3. \A q \in Peers : HeldPieces'[q] \intersect DonePieces' = {}
            BY <2>2, <3>1, <3>2 DEF Pieces!StoreInv
        <3>4. \A q, r \in Peers : q # r => HeldPieces'[q] \intersect HeldPieces'[r] = {}
            BY <3>1, <3>2 DEF Pieces!StoreInv
        <3>5. \A i \in DonePieces' : PlacesOf(torrent', i) \subseteq right'
            BY <2>2
        <3> QED BY <2>2, <3>3, <3>4, <3>5 DEF Pieces!StoreInv
    <2>3. CASE \E p \in Peers : Pieces!Turn(p)
        <3>1. PICK p \in Peers : Pieces!Turn(p)
            BY <2>3
        <3>2. PICK h \in Pieces!MayHold(p, DonePieces) : HeldPieces' = [HeldPieces EXCEPT ![p] = h]
            BY <3>1 DEF Pieces!Turn
        <3>3. /\ DonePieces' = DonePieces /\ right' = right /\ torrent' = torrent
              /\ torrent # NoTorrent /\ \A i \in DonePieces : PlacesOf(torrent, i) \subseteq right
            BY <3>1 DEF Pieces!Turn, Pieces!StoreInv
        <3> QED BY <2>2, <3>2, <3>3
    <2>4. CASE \E p \in Peers : Pieces!Deliver(p)
        <3>1. PICK p \in Peers : Pieces!Deliver(p)
            BY <2>4
        <3>2. PICK h \in Pieces!MayHold(p, DonePieces') : HeldPieces' = [HeldPieces EXCEPT ![p] = h]
            BY <3>1 DEF Pieces!Deliver
        <3>3. /\ DonePieces' = DonePieces \union HeldPieces[p] /\ torrent' = torrent
              /\ right' = right \union UNION {PlacesOf(torrent, i) : i \in HeldPieces[p]}
            BY <3>1 DEF Pieces!Deliver
        <3>4. torrent # NoTorrent
            BY <3>1 DEF Pieces!Deliver, Pieces!StoreInv, Pieces!Idle
        <3>5. \A i \in DonePieces' : PlacesOf(torrent, i) \subseteq right'
            BY <3>3 DEF Pieces!StoreInv
        <3> QED BY <2>2, <3>2, <3>3, <3>4, <3>5
    <2>5. CASE UNCHANGED w
        BY <2>5 DEF Pieces!StoreInv
    <2> QED BY <2>1, <2>3, <2>4, <2>5 DEF Pieces!Next
<1> QED BY <1>1, <1>2, PTL DEF Pieces!Spec, Pieces!storeVars
=============================================================================
