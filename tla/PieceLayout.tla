---------------------------- MODULE PieceLayout ----------------------------
(***************************************************************************)
(* Where the pieces of a torrent lie in its files: the sizes metainfo.rs   *)
(* reads, PieceManager::piece_size, and the walk over the files that       *)
(* read_piece and write_piece make (torrent/mod.rs).                       *)
(*                                                                         *)
(* A place <<f, o>> is byte o of file f; the files, one after the other,   *)
(* are the data of the torrent.  Of a disk it matters which places hold    *)
(* the byte that belongs there.  Nothing ties the number of hashes to the  *)
(* size: metainfo::parse takes both as they come.                          *)
(***************************************************************************)
EXTENDS Integers, Sequences

\* What metainfo::parse keeps: file lengths, piece length, number of hashes.  It
\* also lets through a piece length of 0 (a remainder by it panics), no files and
\* numbers below 0, which the cast to u64 wraps; these are left out.
IsTorrent(t) ==
    /\ t.files \in Seq(Nat) /\ t.files # <<>>
    /\ t.plen \in Nat \ {0} /\ t.npieces \in Nat

\* [k |-> where file k begins]; the entry after the last file is total_size.
Starts(t) ==
    LET start[k \in 1 .. Len(t.files) + 1] ==
            IF k = 1 THEN 0 ELSE start[k - 1] + t.files[k - 1]
    IN  start

TotalSize(t) == Starts(t)[Len(t.files) + 1]

PieceIds(t) == 0 .. t.npieces - 1

\* There are as many hashes as the data has pieces.
WellFormed(t) == t.npieces = (TotalSize(t) + t.plen - 1) \div t.plen

PieceSizeRemainder(t, i) ==   \* mutant
    IF i = t.npieces - 1 THEN TotalSize(t) % t.plen ELSE t.plen

\* piece_size: the last piece has the remainder, or is whole if there is none.
PieceSize(t, i) ==
    LET rem == TotalSize(t) % t.plen
    IN  IF i = t.npieces - 1 /\ rem # 0 THEN rem ELSE t.plen

PassStays(t, v, k) ==   \* mutant
    LET end == v.start + t.files[k]
        off == v.pos - v.start
        n   == IF v.left < t.files[k] - off THEN v.left ELSE t.files[k] - off
    IN  IF v.pos >= end \/ v.left = 0 THEN v
        ELSE [pos |-> v.pos + n, left |-> v.left - n, start |-> end,
              spans |-> v.spans \union {[file |-> k, off |-> off, n |-> n, at |-> v.pos]}]

\* One round of the loop of read_piece and write_piece: past file k if it ends
\* before pos, or else what of the piece is in it.  A span is n bytes at off of
\* the file, which are the bytes of the torrent from `at` on.
Pass(t, v, k) ==
    LET end == v.start + t.files[k]
        off == v.pos - v.start
        n   == IF v.left < t.files[k] - off THEN v.left ELSE t.files[k] - off
    IN  IF v.pos >= end \/ v.left = 0 THEN [v EXCEPT !.start = end]
        ELSE [pos |-> v.pos + n, left |-> v.left - n, start |-> end,
              spans |-> v.spans \union {[file |-> k, off |-> off, n |-> n, at |-> v.pos]}]

\* [k |-> where the loop is after k files].
Walks(t, i) ==
    LET walk[k \in 0 .. Len(t.files)] ==
            IF k = 0 THEN [pos |-> i * t.plen, left |-> PieceSize(t, i), start |-> 0, spans |-> {}]
            ELSE Pass(t, walk[k - 1], k)
    IN  walk

Walk(t, i) == Walks(t, i)[Len(t.files)]

Touched(t, i) == UNION {{<<s.file, s.off + j>> : j \in 0 .. s.n - 1} : s \in Walk(t, i).spans}

\* The places that get the byte that belongs there.
Righted(t, i) ==
    UNION {{<<s.file, s.off + j>> : j \in {j \in 0 .. s.n - 1 :
                Starts(t)[s.file] + s.off = s.at}} : s \in Walk(t, i).spans}

\* write_piece with the data of piece i.
WritePiece(right, t, i) == (right \ Touched(t, i)) \union Righted(t, i)

\* read_piece yields the whole piece, and its hash is that of piece i.
ReadsVerified(right, t, i) ==
    /\ Walk(t, i).left = 0
    /\ Touched(t, i) = Righted(t, i) /\ Touched(t, i) \subseteq right

\* Every place of the files, and those a piece stands for, walk or no walk.
Places(t) == UNION {{<<k, o>> : o \in 0 .. t.files[k] - 1} : k \in DOMAIN t.files}

PlacesOf(t, i) ==
    {q \in Places(t) : LET g == Starts(t)[q[1]] + q[2]
                       IN  i * t.plen <= g /\ g < i * t.plen + PieceSize(t, i)}
=============================================================================
