--------------------------- MODULE SegmentsProofs ---------------------------
(***************************************************************************)
(* create_segments cuts a file into ranges that cover it and do not        *)
(* overlap, for every length and every number of threads up to it.         *)
(***************************************************************************)
EXTENDS Segments, TLAPS

LEMMA DivBounds ==
    ASSUME NEW a \in Nat, NEW b \in Nat \ {0}
    PROVE  /\ a \div b \in Nat
           /\ (a \div b) * b <= a
           /\ a < (a \div b) * b + b
  BY Z3

LEMMA MulMono ==
    ASSUME NEW a \in Int, NEW b \in Int, NEW s \in Nat, a <= b
    PROVE  a * s <= b * s
  BY Z3

LEMMA MulSucc ==
    ASSUME NEW a \in Int, NEW s \in Int
    PROVE  (a + 1) * s = a * s + s
  BY Z3

\* Each range is a proper one within the file and nothing of it is claimed yet.
LEMMA CreatedRanges ==
    ASSUME NEW total \in Nat, NEW threads \in Nat \ {0}, threads <= total,
           NEW i \in 0 .. threads - 1
    PROVE  LET seg == CreateSegments(total, threads)[i]
           IN  /\ seg \in Segment
               /\ seg.downloaded = 0
               /\ seg.start <= seg.end /\ seg.end < total
  <1> DEFINE size == total \div threads
  <1>1. size \in Nat /\ size * threads <= total
    BY DivBounds
  <1>2. CreateSegments(total, threads)[i] =
          [ start      |-> i * size,
            end        |-> IF i = threads - 1 THEN total - 1 ELSE (i + 1) * size - 1,
            downloaded |-> 0 ]
    BY DEF CreateSegments
  <1>3. size >= 1
    <2>1. total < size * threads + threads
      BY DivBounds
    <2>2. CASE size = 0
      BY <2>1, <2>2, <1>1, Z3
    <2> QED
      BY <1>1, <2>2
  <1>4. i * size \in Nat /\ (i + 1) * size = i * size + size
    BY <1>1, MulSucc, Z3
  <1>5. (i + 1) * size <= threads * size
    BY <1>1, MulMono
  <1>6. threads * size = size * threads
    BY <1>1, Z3
  <1> HIDE DEF size
  <1>7. i * size + size <= total
    BY <1>1, <1>4, <1>5, <1>6
  <1> QED
    BY <1>1, <1>3, <1>4, <1>2, <1>7 DEF Segment

\* create_segments leaves no byte of the file out and names none beyond it.
THEOREM SegmentsCover ==
    ASSUME NEW total \in Nat, NEW threads \in Nat \ {0}, threads <= total
    PROVE  Covers(CreateSegments(total, threads), total)
  <1> DEFINE size == total \div threads
             segs == CreateSegments(total, threads)
             last == threads - 1
  <1>1. size \in Nat
    BY DivBounds
  <1>2. DOMAIN segs = 0 .. last
    BY DEF CreateSegments
  <1>3. \A i \in 0 .. last :
            /\ segs[i].start = i * size
            /\ segs[i].end = IF i = last THEN total - 1 ELSE (i + 1) * size - 1
    BY DEF CreateSegments
  <1>4. \A i \in DOMAIN segs : Bytes(segs[i]) \subseteq 0 .. total - 1
    BY <1>2, CreatedRanges DEF Bytes, Segment
  <1> HIDE DEF size, segs
  <1>5. ASSUME NEW o \in 0 .. total - 1
        PROVE  \E i \in DOMAIN segs : o \in Bytes(segs[i])
    <2>1. last * size \in Nat
      BY <1>1, Z3
    <2>2. CASE o >= last * size
      <3>1. segs[last].start = last * size /\ segs[last].end = total - 1
        BY <1>3
      <3> QED
        BY <1>2, <2>1, <2>2, <3>1 DEF Bytes
    <2>3. CASE o < last * size
      <3>1. size # 0
        BY <1>1, <2>3, Z3
      <3>2. size \in Nat \ {0} /\ o \in Nat
        BY <1>1, <3>1
      <3>3. PICK i \in Nat : i * size <= o /\ o < i * size + size
        <4>1. /\ o \div size \in Nat
              /\ (o \div size) * size <= o
              /\ o < (o \div size) * size + size
          BY <3>2, DivBounds
        <4> QED
          BY <4>1
      <3>4. i < last
        <4>1. CASE last <= i
          <5>1. last * size <= i * size
            BY <1>1, <4>1, MulMono
          <5>2. i * size \in Int
            BY <1>1, Z3
          <5> QED
            BY <2>1, <2>3, <3>3, <5>1, <5>2
        <4> QED
          BY <4>1
      <3>5. (i + 1) * size = i * size + size
        BY <1>1, MulSucc
      <3>6. i * size \in Nat
        BY <1>1, Z3
      <3>7. segs[i].start = i * size /\ segs[i].end = (i + 1) * size - 1
        BY <1>3, <3>4
      <3>8. o \in Bytes(segs[i])
        BY <3>3, <3>5, <3>6, <3>7, <1>1 DEF Bytes
      <3> QED
        BY <1>2, <3>4, <3>8
    <2> QED
      BY <2>1, <2>2, <2>3
  <1> QED
    BY <1>4, <1>5 DEF Covers, segs

\* No two tasks are given the same byte.
THEOREM SegmentsDisjoint ==
    ASSUME NEW total \in Nat, NEW threads \in Nat \ {0}, threads <= total
    PROVE  Disjoint(CreateSegments(total, threads))
  <1> DEFINE size == total \div threads
             segs == CreateSegments(total, threads)
             last == threads - 1
  <1>1. size \in Nat
    BY DivBounds
  <1>2. DOMAIN segs = 0 .. last
    BY DEF CreateSegments
  <1>3. \A i \in 0 .. last :
            /\ segs[i].start = i * size
            /\ i # last => segs[i].end = (i + 1) * size - 1
    BY DEF CreateSegments
  <1> HIDE DEF size, segs
  <1>4. ASSUME NEW i \in DOMAIN segs, NEW j \in DOMAIN segs, i < j,
               NEW o \in Bytes(segs[i]), o \in Bytes(segs[j])
        PROVE  FALSE
    <2>1. i \in Int /\ j \in Int /\ i # last
      BY <1>2, <1>4
    <2>2. i * size \in Int /\ j * size \in Int /\ (i + 1) * size \in Int
      BY <1>1, <2>1, Z3
    <2>3. (i + 1) * size <= j * size
      BY <1>1, <1>4, <2>1, MulMono
    <2>4. o <= (i + 1) * size - 1 /\ j * size <= o /\ o \in Int
      BY <1>2, <1>3, <1>4, <2>1, <2>2 DEF Bytes
    <2> QED
      BY <2>2, <2>3, <2>4
  <1>5. \A i, j \in DOMAIN segs : i # j => i < j \/ j < i
    BY <1>2
  <1> QED
    BY <1>4, <1>5 DEF Disjoint, segs
=============================================================================
