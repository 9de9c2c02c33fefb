------------------------------ MODULE Segments ------------------------------
(***************************************************************************)
(* The segment arithmetic of resume.rs: how a file of `total` bytes is cut *)
(* into one byte range per thread, and what the counter stored with a      *)
(* range means.  Segments are numbered from 0, as the Vec is; `end` is     *)
(* inclusive, as it is in the Range header.                                *)
(***************************************************************************)
EXTENDS Integers

Segment == [start : Nat, end : Int, downloaded : Nat]

IsDoneByEnd(seg) == seg.downloaded >= seg.end - seg.start   \* mutant

IsDone(seg) == seg.downloaded > seg.end - seg.start

ResumeOffsetNext(seg) == seg.start + seg.downloaded + 1   \* mutant

ResumeOffset(seg) == seg.start + seg.downloaded

\* The byte offsets of a range, and those its counter says are downloaded.
Bytes(seg) == seg.start .. seg.end

Claimed(seg) == {o \in Bytes(seg) : o < ResumeOffset(seg)}

\* Mutant: the iterator is 0..=threads, and the range after the last is empty.
CreateSegmentsInclusive(total, threads) ==
    LET size == total \div threads
    IN  [i \in 0 .. threads |->
            [ start      |-> i * size,
              end        |-> IF i < threads - 1 THEN (i + 1) * size - 1 ELSE total - 1,
              downloaded |-> 0 ]]

CreateSegments(total, threads) ==
    LET size == total \div threads
    IN  [i \in 0 .. threads - 1 |->
            [ start      |-> i * size,
              end        |-> IF i = threads - 1
                             THEN total - 1
                             ELSE (i + 1) * size - 1,
              downloaded |-> 0 ]]

\* Every byte of the file lies in some segment, and none outside it does.
Covers(segs, total) == UNION {Bytes(segs[i]) : i \in DOMAIN segs} = 0 .. total - 1

\* No byte is fetched by two tasks.
Disjoint(segs) ==
    \A i, j \in DOMAIN segs : i # j => Bytes(segs[i]) \cap Bytes(segs[j]) = {}
=============================================================================
