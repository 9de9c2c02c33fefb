--------------------------- MODULE MetadataExchange ---------------------------
(***************************************************************************)
(* The metadata of a magnet link from one peer: fetch_metadata of          *)
(* torrent/peer.rs (BEP 9 and 10), from the connection to its result.      *)
(*                                                                         *)
(* An honest peer sends its extension handshake, perhaps again, with the   *)
(* id it wants requests under and the true size, and answers each request  *)
(* under the id of our handshake, as BEP 10 has it.  Other peers send any  *)
(* handshake and any data, or nothing, and need not read what they are     *)
(* sent.  The 30 seconds are one deadline for the whole exchange, but it   *)
(* is looked at only where a message is awaited: requests are written      *)
(* without a timeout.  Honest peers keep the deadline.  A chunk is a piece *)
(* of the metadata.  Messages that are not handled change nothing.         *)
(***************************************************************************)
EXTENDS Addresses, Sequences

CONSTANTS
    OwnId,      \* UT_METADATA_ID, the id of our handshake
    Ids,        \* ids a peer may choose
    IdOf,       \* [Honest -> Ids]
    InfoSize,   \* length of the metadata
    Sizes,      \* lengths a peer may announce
    ChunkSize,  \* METADATA_PIECE_SIZE
    MaxInfo,    \* 10 MiB, the longest metadata accepted
    None        \* no id, or no size, announced

ASSUME MetadataConstants ==
    /\ OwnId \in Ids /\ IdOf \in [Honest -> Ids]
    /\ Sizes \subseteq Nat /\ InfoSize \in Sizes /\ InfoSize \in 1 .. MaxInfo
    /\ ChunkSize \in Nat \ {0} /\ MaxInfo \in Nat
    /\ None \notin Ids \union Sizes

VARIABLES
    fetch,      \* idle, open, send (waiting for the peer to read), ok, err
    remote,     \* the peer
    ut,         \* remote_ut_metadata
    announced,  \* metadata_size
    chunks,     \* pieces: Nothing yet, or data that is Right or Wrong
    upto,       \* requested_up_to
    requests    \* requests the peer has not answered yet

fetchVars == <<fetch, remote, ut, announced, chunks, upto, requests>>

NumChunks(size) == (size + ChunkSize - 1) \div ChunkSize

Indices == 0 .. NumChunks(MaxInfo) - 1

FetchTypeOK ==
    /\ fetch \in {"idle", "open", "send", "ok", "err"}
    /\ remote \in Peers \union {NoPeer}
    /\ ut \in Ids \union {None}
    /\ announced \in Sizes \union {None}
    /\ chunks \in Seq({"nothing", "right", "wrong"})
    /\ upto \in Nat
    /\ requests \subseteq Indices

FetchIdle ==
    /\ fetch = "idle" /\ remote = NoPeer
    /\ ut = None /\ announced = None
    /\ chunks = <<>> /\ upto = 0 /\ requests = {}

FetchReset ==
    /\ fetch' = "idle" /\ remote' = NoPeer
    /\ ut' = None /\ announced' = None
    /\ chunks' = <<>> /\ upto' = 0 /\ requests' = {}

Open == fetch = "open"
-----------------------------------------------------------------------------
\* Connected, shook hands, sent our extension handshake.
FetchConnect(p) ==
    /\ fetch = "idle"
    /\ fetch' = "open" /\ remote' = p
    /\ UNCHANGED <<ut, announced, chunks, upto, requests>>

\* The connection is refused, breaks or times out, the handshake is for another
\* torrent or without extensions, or a message does not decode.
FetchFails ==
    /\ fetch' = "err"
    /\ UNCHANGED <<remote, ut, announced, chunks, upto, requests>>

\* send_metadata_request for the chunks from requested_up_to to n.  The writes
\* wait when the buffers are full because the peer does not read.
RequestUpTo(n) ==
    /\ requests' = requests \union upto .. n - 1
    /\ upto' = n
    /\ \/ fetch' = "open"
       \/ remote \notin Honest /\ upto < n /\ fetch' = "send"

Resized(n) == [i \in 1 .. n |-> IF i <= Len(chunks) THEN chunks[i] ELSE "nothing"]

ExtHandshakeResets(id, size) ==   \* mutant
    /\ Open
    /\ ut' = IF id = None THEN ut ELSE id
    /\ announced' = IF size = None THEN announced ELSE size
    /\ IF ut' = None \/ announced' = None
       THEN UNCHANGED <<fetch, chunks, upto, requests>>
       ELSE IF announced' \notin 1 .. MaxInfo
       THEN fetch' = "err" /\ UNCHANGED <<chunks, upto, requests>>
       ELSE LET n == NumChunks(announced')
            IN  /\ chunks' = [i \in 1 .. n |-> "nothing"]
                /\ RequestUpTo(n)
    /\ UNCHANGED remote

ExtHandshakeOnce(id, size) ==   \* mutant
    /\ Open
    /\ ut' = IF id = None THEN ut ELSE id
    /\ announced' = IF size = None THEN announced ELSE size
    /\ IF ut' = None \/ announced' = None
       THEN UNCHANGED <<fetch, chunks, upto, requests>>
       ELSE IF announced' \notin 1 .. MaxInfo
       THEN fetch' = "err" /\ UNCHANGED <<chunks, upto, requests>>
       ELSE LET n == NumChunks(announced')
            IN  /\ chunks' = IF chunks = <<>> THEN Resized(n) ELSE chunks
                /\ RequestUpTo(n)
    /\ UNCHANGED remote

\* An extension handshake with an id and a size, or without one of them.  From
\* the one that completes the pair on, the chunks are sized and those beyond
\* requested_up_to are requested.
ExtHandshake(id, size) ==
    /\ Open
    /\ ut' = IF id = None THEN ut ELSE id
    /\ announced' = IF size = None THEN announced ELSE size
    /\ IF ut' = None \/ announced' = None
       THEN UNCHANGED <<fetch, chunks, upto, requests>>
       ELSE IF announced' \notin 1 .. MaxInfo
       THEN fetch' = "err" /\ UNCHANGED <<chunks, upto, requests>>
       ELSE LET n == NumChunks(announced')
            IN  /\ chunks' = Resized(n)
                /\ RequestUpTo(n)
    /\ UNCHANGED remote

\* A message is taken for metadata if it has the id the peer chose for itself.
Hears(ext) == ut # None /\ ext = ut

\* parse_metadata_data: the length of the data of chunk i.  A chunk past the
\* end has none that would do: the subtraction wraps.
ExpectedLen(i) ==
    IF (i + 1) * ChunkSize > announced THEN announced - i * ChunkSize ELSE ChunkSize

TrueLen(i) ==
    IF (i + 1) * ChunkSize > InfoSize THEN InfoSize - i * ChunkSize ELSE ChunkSize

\* Data of chunk i, of length len, kept or ignored.  When no chunk is missing then
\* the exchange ends: the hash of it all is right or it is not.
Data(ext, i, quality, len) ==
    /\ Open
    /\ IF Hears(ext) /\ announced # None /\ len = ExpectedLen(i)
       THEN /\ chunks' = IF i < Len(chunks) THEN [chunks EXCEPT ![i + 1] = quality] ELSE chunks
            /\ fetch' = IF \E j \in DOMAIN chunks : chunks'[j] = "nothing" THEN "open"
                        ELSE IF announced = InfoSize
                                /\ \A j \in DOMAIN chunks : chunks'[j] = "right"
                        THEN "ok" ELSE "err"
       ELSE UNCHANGED <<chunks, fetch>>
    /\ UNCHANGED <<remote, ut, announced, upto>>

\* The peer reads what it was sent, and the loop goes on.
PeerReads ==
    /\ fetch = "send"
    /\ fetch' = "open"
    /\ UNCHANGED <<remote, ut, announced, chunks, upto, requests>>

DeadlineUntilHandshake ==   \* mutant
    /\ Open
    /\ ut = None
    /\ FetchFails

\* The deadline, at the head of the loop or in the read.  An honest peer that was
\* sent our requests answers them first.
DeadlinePasses ==
    /\ Open
    /\ remote \in Honest => ut # None /\ requests = {}
    /\ FetchFails
-----------------------------------------------------------------------------
\* What an honest peer sends.
HonestHandshake == remote \in Honest /\ ExtHandshake(IdOf[remote], InfoSize)

HonestReply(i) ==
    /\ remote \in Honest /\ i \in requests
    /\ Data(OwnId, i, "right", TrueLen(i))
    /\ requests' = requests \ {i}

\* What any other peer may do.  Data is right if it begins with the chunk: what is
\* beyond the end of the metadata is cut off before the hash (assembled.truncate).
AnyHandshake ==
    /\ remote \notin Honest
    /\ \E id \in Ids \union {None}, size \in Sizes \union {None} : ExtHandshake(id, size)

AnyData ==
    /\ remote \notin Honest
    /\ \E ext \in Ids, i \in Indices, quality \in {"right", "wrong"} :
        \E len \in 0 .. ChunkSize :
            /\ quality = "right" => len >= TrueLen(i)
            /\ Data(ext, i, quality, len)
    /\ UNCHANGED requests

AnyFails == fetch \in {"open", "send"} /\ remote \notin Honest /\ FetchFails

FetchStep == DeadlinePasses \/ HonestHandshake \/ \E i \in Indices : HonestReply(i)

FetchNext ==
    \/ \E p \in Peers : FetchConnect(p)
    \/ FetchStep \/ AnyHandshake \/ AnyData \/ AnyFails \/ PeerReads

FetchSpec == FetchIdle /\ [][FetchNext]_fetchVars
-----------------------------------------------------------------------------
(***************************************************************************)
(* Properties.                                                             *)
(***************************************************************************)
\* The vector that is tested for being complete has as many chunks as the size
\* announced last, and all of them were requested: it is neither empty nor of
\* an earlier size, whatever handshakes came in which order (fetch_metadata:
\* resize and requested_up_to).
ChunksSized ==
    fetch \in {"open", "send"} /\ ut # None /\ announced # None =>
        /\ Len(chunks) = NumChunks(announced) /\ chunks # <<>>
        /\ upto = Len(chunks)

\* What an honest peer was asked and has not sent yet is what is still missing:
\* none of its replies is dropped, by a second handshake or by the id it comes
\* under (README.md:115, metadata is fetched from peers using BEP 10 and BEP 9).
NoReplyLost ==
    Open /\ remote \in Honest =>
        {i \in Indices : i < Len(chunks) /\ chunks[i + 1] = "nothing"} \subseteq requests
=============================================================================
