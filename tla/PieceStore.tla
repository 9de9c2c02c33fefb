----------------------------- MODULE PieceStore -----------------------------
(***************************************************************************)
(* What the transfer of a torrent promises of its pieces and of the files: *)
(* a piece that is wanted is fetched by at most one peer at a time, the    *)
(* files gain the places of whole verified pieces and nothing else, what   *)
(* is done is on disk and done for good, and a transfer is left only when  *)
(* no peer has a piece any more.                                           *)
(*                                                                         *)
(* There are no blocks, requests, chokes or connections here.  Where the   *)
(* pieces of a torrent lie is PieceLayout's matter.                        *)
(***************************************************************************)
CONSTANTS
    Peers,
    Torrents,
    NoTorrent,      \* not a torrent
    PieceIds(_),    \* the pieces of a torrent
    PlacesOf(_, _)  \* the places of a piece in its files

VARIABLES
    torrent,  \* the one that is transferred, or NoTorrent
    right,    \* places on disk that hold the right byte
    done,     \* pieces that count as complete
    held      \* [Peers -> set of the piece it fetches, if any]

storeVars == <<torrent, right, done, held>>

Idle == [p \in Peers |-> {}]

Init == torrent = NoTorrent /\ right = {} /\ done = {} /\ held = Idle

\* The files have whole pieces from earlier runs; only such pieces are done.
Open ==
    /\ torrent = NoTorrent
    /\ \E t \in Torrents : \E S \in SUBSET PieceIds(t) :
        /\ torrent' = t
        /\ right' = UNION {PlacesOf(t, i) : i \in S}
        /\ done' \in SUBSET {i \in PieceIds(t) : PlacesOf(t, i) \subseteq right'}
    /\ UNCHANGED held

\* Peer p is left with no piece, or with one that is neither in D nor another's.
MayHold(p, D) ==
    {{}} \union {{i} : i \in {i \in PieceIds(torrent) \ D : \A q \in Peers \ {p} : i \notin held[q]}}

\* It takes a piece, gives it back, or both.
Turn(p) ==
    /\ torrent # NoTorrent
    /\ \E h \in MayHold(p, done) : held' = [held EXCEPT ![p] = h]
    /\ UNCHANGED <<torrent, right, done>>

\* Its piece is verified and written, and it goes on with another one or none.
Deliver(p) ==
    /\ held[p] # {}
    /\ done' = done \union held[p]
    /\ right' = right \union UNION {PlacesOf(torrent, i) : i \in held[p]}
    /\ \E h \in MayHold(p, done') : held' = [held EXCEPT ![p] = h]
    /\ UNCHANGED torrent

Close ==
    /\ torrent # NoTorrent /\ held = Idle
    /\ torrent' = NoTorrent /\ right' = {} /\ done' = {}
    /\ UNCHANGED held

Next == Open \/ Close \/ \E p \in Peers : Turn(p) \/ Deliver(p)

Spec == Init /\ [][Next]_storeVars
-----------------------------------------------------------------------------
\* What is done is on disk and nobody fetches it; no piece has two peers; none
\* is left behind without a transfer.
StoreInv ==
    /\ torrent = NoTorrent => held = Idle
    /\ \A i \in done : PlacesOf(torrent, i) \subseteq right
    /\ \A p \in Peers : held[p] \intersect done = {}
    /\ \A p, q \in Peers : p # q => held[p] \intersect held[q] = {}
=============================================================================
