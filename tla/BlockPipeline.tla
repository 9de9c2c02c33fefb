--------------------------- MODULE BlockPipeline ---------------------------
(***************************************************************************)
(* A torrent download at the level of blocks: PieceDownload and the loop   *)
(* of peer::run (torrent/peer.rs) for several connections that share a     *)
(* PieceManager, and the FileWriter behind it.                             *)
(*                                                                         *)
(* PeerSwarm has the tasks, the queues of addresses and the steps between  *)
(* a complete piece and the next, which here are one.  Every peer has      *)
(* every piece, as PeerSwarm has what a peer has.  An honest peer answers  *)
(* requests, in any order, and forgets those it has not answered when it   *)
(* chokes us; another peer sends any block at any time.                    *)
(***************************************************************************)
EXTENDS PieceLayout, Addresses

CONSTANTS
    BlockSize, Depth,  \* BLOCK_SIZE, PIPELINE_DEPTH
    NoPiece, NoTorrent

ASSUME BlockConstants ==
    /\ BlockSize \in Nat \ {0} /\ Depth \in Nat \ {0}

VARIABLES
    torrent,    \* its metainfo, or NoTorrent
    right,      \* places of the files on disk that hold the right byte
    states,     \* PieceManager.states
    conn,       \* [Peers -> new, open, gone]
    choked,     \* [Peers -> BOOLEAN]
    cur,        \* [Peers -> `current`: a PieceDownload or NoPiece]
    inflight,   \* [Peers -> requests, <<piece, block>>, an honest peer will answer]
    discarded   \* honest peers that forgot some of them

blockVars == <<torrent, right, states, conn, choked, cur, inflight, discarded>>

BlocksIdle ==
    /\ torrent = NoTorrent /\ right = {} /\ states = <<>>
    /\ conn = [p \in Peers |-> "new"] /\ choked = [p \in Peers |-> TRUE]
    /\ cur = [p \in Peers |-> NoPiece]
    /\ inflight = [p \in Peers |-> {}] /\ discarded = {}

BlocksReset ==
    /\ torrent' = NoTorrent /\ right' = {} /\ states' = <<>>
    /\ conn' = [p \in Peers |-> "new"] /\ choked' = [p \in Peers |-> TRUE]
    /\ cur' = [p \in Peers |-> NoPiece]
    /\ inflight' = [p \in Peers |-> {}] /\ discarded' = {}

AllDone == \A i \in DOMAIN states : states[i] = "done"
-----------------------------------------------------------------------------
(***************************************************************************)
(* PieceDownload.                                                          *)
(***************************************************************************)
NumBlocks(t, i) == (PieceSize(t, i) + BlockSize - 1) \div BlockSize

PieceDownloads(t, i) ==
    [index : {i}, blocks : [0 .. NumBlocks(t, i) - 1 -> {"nothing", "right", "wrong"}],
     next : 0 .. NumBlocks(t, i), outstanding : Nat]

NewPiece(i) ==
    [index |-> i, blocks |-> [b \in 0 .. NumBlocks(torrent, i) - 1 |-> "nothing"],
     next |-> 0, outstanding |-> 0]

IsWhole(c) == \A b \in DOMAIN c.blocks : c.blocks[b] # "nothing"

\* pending_requests: as many as there is room and blocks for.
ToAsk(c) ==
    {b \in DOMAIN c.blocks : c.next <= b /\ b < c.next + Depth - c.outstanding}

Requested(c) ==
    LET n == Cardinality(ToAsk(c))
    IN  [c EXCEPT !.next = @ + n, !.outstanding = @ + n]

AddBlockUncounted(c, b, quality) ==   \* mutant
    IF b \in DOMAIN c.blocks /\ c.blocks[b] = "nothing"
    THEN [c EXCEPT !.blocks[b] = quality]
    ELSE c

\* add_block, with its saturating_sub.
AddBlock(c, b, quality) ==
    IF b \in DOMAIN c.blocks /\ c.blocks[b] = "nothing"
    THEN [c EXCEPT !.blocks[b] = quality,
                   !.outstanding = IF @ = 0 THEN 0 ELSE @ - 1]
    ELSE c
-----------------------------------------------------------------------------
NextPieceEndgame(sts) ==   \* mutant
    {i \in DOMAIN sts : sts[i] # "done" /\ \A j \in DOMAIN sts : sts[j] # "done" => i <= j}

NextPiece(sts) ==
    {i \in DOMAIN sts : sts[i] = "needed" /\ \A j \in DOMAIN sts : sts[j] = "needed" => i <= j}

Requests(c) == {<<c.index, b>> : b \in ToAsk(c)}

SendUnflushed(p, sts, c, waiting, flush) ==   \* mutant
    LET starts  == c = NoPiece /\ NextPiece(sts) # {}
        piece   == IF starts THEN NewPiece(CHOOSE i \in NextPiece(sts) : TRUE) ELSE c
        flushed == flush /\ piece # NoPiece /\ ~starts
    IN  /\ cur' = [cur EXCEPT ![p] = IF flushed THEN Requested(piece) ELSE piece]
        /\ inflight' = [inflight EXCEPT ![p] = IF p \notin Honest THEN {}
                                        ELSE IF flushed THEN waiting \union Requests(piece)
                                        ELSE waiting]
        /\ states' = IF starts THEN [sts EXCEPT ![piece.index] = "downloading"] ELSE sts

\* try_start, which reserves the first needed piece if the peer has none, and
\* flush_requests if `flush`; `waiting` are the requests not answered so far.
Send(p, sts, c, waiting, flush) ==
    LET starts  == c = NoPiece /\ NextPiece(sts) # {}
        piece   == IF starts THEN NewPiece(CHOOSE i \in NextPiece(sts) : TRUE) ELSE c
        flushed == flush /\ piece # NoPiece
    IN  /\ cur' = [cur EXCEPT ![p] = IF flushed THEN Requested(piece) ELSE piece]
        /\ inflight' = [inflight EXCEPT ![p] = IF p \notin Honest THEN {}
                                        ELSE IF flushed THEN waiting \union Requests(piece)
                                        ELSE waiting]
        /\ states' = IF starts THEN [sts EXCEPT ![piece.index] = "downloading"] ELSE sts

\* Nothing is left for the peer: its task ends.
EndsWithout(p) == conn' = IF cur'[p] = NoPiece THEN [conn EXCEPT ![p] = "gone"] ELSE conn

\* The files are prepared: what earlier runs left in them stays (set_len), and
\* the pieces that are found there are done.
Prepare(t, found) ==
    /\ torrent' = t /\ right' = found
    /\ states' = [i \in PieceIds(t) |-> IF ReadsVerified(found, t, i) THEN "done" ELSE "needed"]
    /\ UNCHANGED <<conn, choked, cur, inflight, discarded>>

Connect(p) ==
    /\ conn[p] = "new"
    /\ conn' = [conn EXCEPT ![p] = "open"]
    /\ UNCHANGED <<torrent, right, states, choked, cur, inflight, discarded>>

Choke(p) ==
    /\ conn[p] = "open" /\ ~choked[p]
    /\ choked' = [choked EXCEPT ![p] = TRUE]
    /\ inflight' = [inflight EXCEPT ![p] = {}]
    /\ discarded' = IF inflight[p] = {} THEN discarded ELSE discarded \union {p}
    /\ UNCHANGED <<torrent, right, states, conn, cur>>

Unchoke(p) ==
    /\ conn[p] = "open" /\ choked[p]
    /\ choked' = [choked EXCEPT ![p] = FALSE]
    /\ Send(p, states, cur[p], inflight[p], TRUE)
    /\ EndsWithout(p)
    /\ UNCHANGED <<torrent, right, discarded>>

\* A whole piece is verified and written, or given back, in which case the same
\* peer reserves it again.  The write does not fail here: PeerSwarm has its failures.
Store(p, c, waiting) ==
    LET good == \A b \in DOMAIN c.blocks : c.blocks[b] = "right"
    IN  /\ right' = IF good THEN WritePiece(right, torrent, c.index) ELSE right
        /\ Send(p, [states EXCEPT ![c.index] = IF good THEN "done" ELSE "needed"],
                NoPiece, waiting, ~choked[p])

\* A Piece message.  A block of another piece than the current one is dropped.
Block(p, i, b, quality) ==
    LET waiting == inflight[p] \ {<<i, b>>}
    IN  /\ conn[p] = "open"
        /\ IF cur[p] # NoPiece /\ cur[p].index = i
           THEN LET c == AddBlock(cur[p], b, quality)
                IN  IF IsWhole(c) THEN Store(p, c, waiting) /\ EndsWithout(p)
                    ELSE Send(p, states, c, waiting, ~choked[p]) /\ UNCHANGED <<right, conn>>
           ELSE /\ inflight' = [inflight EXCEPT ![p] = waiting]
                /\ UNCHANGED <<right, states, conn, cur>>
        /\ UNCHANGED <<torrent, choked, discarded>>

\* A timeout, an error, a slow peer: the task ends and its guard gives back
\* what it had reserved.
Drop(p) ==
    /\ conn[p] = "open"
    /\ conn' = [conn EXCEPT ![p] = "gone"]
    /\ states' = IF cur[p] = NoPiece THEN states ELSE [states EXCEPT ![cur[p].index] = "needed"]
    /\ cur' = [cur EXCEPT ![p] = NoPiece]
    /\ inflight' = [inflight EXCEPT ![p] = {}]
    /\ discarded' = discarded \ {p}
    /\ choked' = [choked EXCEPT ![p] = TRUE]
    /\ UNCHANGED <<torrent, right>>

\* An answer of an honest peer; whatever another one sends.
HonestBlock(p) ==
    /\ p \in Honest
    /\ \E r \in inflight[p] : Block(p, r[1], r[2], "right")

AnyBlock(p) ==
    /\ p \notin Honest /\ cur[p] # NoPiece
    /\ \E b \in DOMAIN cur[p].blocks, quality \in {"right", "wrong"} :
            Block(p, cur[p].index, b, quality)

BlockNext ==
    \E p \in Peers : \/ Connect(p) \/ Choke(p) \/ Unchoke(p)
                    \/ HonestBlock(p) \/ AnyBlock(p) \/ Drop(p)
-----------------------------------------------------------------------------
(***************************************************************************)
(* Properties.                                                             *)
(***************************************************************************)
Missing(c) == {b \in DOMAIN c.blocks : b < c.next /\ c.blocks[b] = "nothing"}

\* For a peer that follows the protocol `outstanding` is the number of blocks
\* requested and not there, the requests it will still answer are among these,
\* and all of them are, unless it choked us (add_block, pending_requests).
RequestsCounted ==
    \A p \in Honest : cur[p] # NoPiece =>
        LET lacks == {<<cur[p].index, b>> : b \in Missing(cur[p])}
        IN  /\ cur[p].outstanding = Cardinality(Missing(cur[p]))
            /\ inflight[p] \subseteq lacks
            /\ inflight[p] = lacks \/ p \in discarded

\* A peer that follows the protocol and has us unchoked always has a request to
\* answer while its piece lacks a block: every handler that may start a piece
\* or take an answer flushes (run, flush_requests).  Excepted is a peer that
\* choked us: what it forgot is not requested again.
NeverIdle ==
    \A p \in Honest \ discarded : conn[p] = "open" /\ ~choked[p] => inflight[p] # {}

\* What is done is right on disk, byte for byte, whatever the pieces before and
\* after it were written over, in files of any lengths (write_piece, run).
DoneOnDisk ==
    \A i \in DOMAIN states : states[i] = "done" => PlacesOf(torrent, i) \subseteq right

\* When all pieces of a torrent with as many hashes as its size asks for are
\* done, every byte of every file is right (piece_size, read_piece).
FilesIntact ==
    torrent # NoTorrent /\ WellFormed(torrent) /\ AllDone => right = Places(torrent)
=============================================================================
