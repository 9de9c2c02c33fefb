---------------------------- MODULE LayoutProofs ----------------------------
(***************************************************************************)
(* For every torrent: where its files start, what the walk over them goes  *)
(* over, and that the pieces are a partition of the bytes of the files.    *)
(*                                                                         *)
(* Starts and Walks are recursive functions.  That they exist, and what    *)
(* holds of their values, is shown by induction, stated for a set of       *)
(* numbers and not for a predicate.                                        *)
(***************************************************************************)
EXTENDS PieceLayout, WellFoundedInduction, TLAPS

LEMMA Induction ==
    ASSUME NEW T \in SUBSET Nat, 0 \in T, \A n \in T : n + 1 \in T
    PROVE  T = Nat
<1> SUFFICES ASSUME T # Nat PROVE FALSE
    OBVIOUS
<1> DEFINE C == Nat \ T
<1>1. C # {} /\ C \subseteq Nat
    OBVIOUS
<1> HIDE DEF C
<1>2. PICK m \in C : \A k \in C : ~ (<<k, m>> \in OpToRel(<, Nat))
    BY <1>1, NatLessThanWellFounded, WFMin
<1>3. \A k \in C : ~ (k < m)
    BY <1>1, <1>2 DEF OpToRel
<1>4. m \in Nat /\ m # 0
    BY <1>1 DEF C
<1>5. m - 1 \in T
    BY <1>3, <1>4 DEF C
<1>6. m \in T
    BY <1>4, <1>5
<1> QED BY <1>6 DEF C

-----------------------------------------------------------------------------
(***************************************************************************)
(* Starts: the recursion has a solution, so that the function is one.      *)
(***************************************************************************)
StartsUpTo(t, n, g) ==
    \A k \in 1 .. n : g[k] = IF k = 1 THEN 0 ELSE g[k - 1] + t.files[k - 1]

LEMMA StartsExist ==
    ASSUME NEW t, IsTorrent(t)
    PROVE  \E g \in [1 .. Len(t.files) + 1 -> Nat] : StartsUpTo(t, Len(t.files) + 1, g)
<1> DEFINE T == {n \in Nat : n <= Len(t.files) + 1 => \E g \in [1 .. n -> Nat] : StartsUpTo(t, n, g)}
<1>1. 0 \in T
    <2>1. [k \in 1 .. 0 |-> 0] \in [1 .. 0 -> Nat]
        OBVIOUS
    <2>2. StartsUpTo(t, 0, [k \in 1 .. 0 |-> 0])
        BY DEF StartsUpTo
    <2> QED BY <2>1, <2>2
<1>2. ASSUME NEW n \in T PROVE n + 1 \in T
    <2> SUFFICES ASSUME n + 1 <= Len(t.files) + 1
                 PROVE  \E g \in [1 .. n + 1 -> Nat] : StartsUpTo(t, n + 1, g)
        OBVIOUS
    <2>1. PICK g \in [1 .. n -> Nat] : StartsUpTo(t, n, g)
        BY <1>2 DEF IsTorrent
    <2> DEFINE h == [k \in 1 .. n + 1 |-> IF k = n + 1 THEN IF n = 0 THEN 0 ELSE g[n] + t.files[n] ELSE g[k]]
    <2>2. h \in [1 .. n + 1 -> Nat]
        BY <1>2, <2>1 DEF IsTorrent
    <2>3. StartsUpTo(t, n + 1, h)
        BY <1>2, <2>1 DEF IsTorrent, StartsUpTo
    <2> QED BY <2>2, <2>3
<1> HIDE DEF T
<1>3. T = Nat
    <2>1. T \in SUBSET Nat
        BY DEF T
    <2> QED BY <1>1, <1>2, <2>1, Induction
<1>4. Len(t.files) + 1 \in T
    BY <1>3 DEF IsTorrent
<1> QED BY <1>4 DEF T

LEMMA StartsRecursion ==
    ASSUME NEW t, IsTorrent(t)
    PROVE  Starts(t) = [k \in 1 .. Len(t.files) + 1 |->
                            IF k = 1 THEN 0 ELSE Starts(t)[k - 1] + t.files[k - 1]]
<1>1. Len(t.files) \in Nat
    BY DEF IsTorrent
<1>2. PICK g \in [1 .. Len(t.files) + 1 -> Nat] : StartsUpTo(t, Len(t.files) + 1, g)
    BY StartsExist
<1>3. g = [k \in 1 .. Len(t.files) + 1 |-> IF k = 1 THEN 0 ELSE g[k - 1] + t.files[k - 1]]
    BY <1>1, <1>2 DEF StartsUpTo
<1> QED BY <1>3 DEF Starts

\* Where files start, in terms of natural numbers.
LEMMA StartsFacts ==
    ASSUME NEW t, IsTorrent(t)
    PROVE  /\ Starts(t) \in [1 .. Len(t.files) + 1 -> Nat]
           /\ Starts(t)[1] = 0
           /\ \A k \in 1 .. Len(t.files) : Starts(t)[k + 1] = Starts(t)[k] + t.files[k]
           /\ TotalSize(t) \in Nat
<1> DEFINE m == Len(t.files) + 1
           S == Starts(t)
           T == {n \in Nat : n + 1 <= m => S[n + 1] \in Nat}
<1>1. m \in Nat /\ m >= 1 /\ Len(t.files) \in Nat /\ \A k \in 1 .. Len(t.files) : t.files[k] \in Nat
    BY DEF IsTorrent
<1>2. S = [k \in 1 .. m |-> IF k = 1 THEN 0 ELSE S[k - 1] + t.files[k - 1]]
    BY StartsRecursion
<1> HIDE DEF S
<1>3. S[1] = 0 /\ \A k \in 1 .. Len(t.files) : S[k + 1] = S[k] + t.files[k]
    BY <1>1, <1>2
<1>4. 0 \in T
    BY <1>3
<1>5. ASSUME NEW n \in T PROVE n + 1 \in T
    <2>1. CASE n + 2 <= m
        <3>1. n + 1 \in 1 .. Len(t.files) /\ S[n + 1] \in Nat
            BY <1>1, <1>5, <2>1
        <3>2. S[(n + 1) + 1] \in Nat
            BY <1>1, <1>3, <3>1
        <3> QED BY <3>2
    <2> QED BY <1>1, <2>1
<1> HIDE DEF T
<1>6. T = Nat
    <2>1. T \in SUBSET Nat
        BY DEF T
    <2> QED BY <1>4, <1>5, <2>1, Induction
<1>7. \A k \in 1 .. m : S[k] \in Nat
    <2> SUFFICES ASSUME NEW k \in 1 .. m PROVE S[k] \in Nat
        OBVIOUS
    <2>1. k - 1 \in T
        BY <1>6
    <2> QED BY <2>1 DEF T
<1>8. S \in [1 .. m -> Nat]
    BY <1>2, <1>7
<1> QED BY <1>1, <1>3, <1>8 DEF S, TotalSize

LEMMA FileFacts ==
    ASSUME NEW t, IsTorrent(t), NEW f \in 1 .. Len(t.files)
    PROVE  /\ t.files[f] \in Nat /\ Starts(t)[f] \in Nat /\ Starts(t)[f + 1] \in Nat
           /\ Starts(t)[f + 1] = Starts(t)[f] + t.files[f]
           /\ Len(t.files) \in Nat /\ f \in Nat
<1>1. t.files[f] \in Nat /\ Len(t.files) \in Nat /\ f \in Nat
    BY DEF IsTorrent
<1>2. f \in 1 .. Len(t.files) + 1 /\ f + 1 \in 1 .. Len(t.files) + 1
    BY <1>1
<1> QED BY <1>1, <1>2, StartsFacts

LEMMA StartsGrow ==
    ASSUME NEW t, IsTorrent(t), NEW f \in 1 .. Len(t.files) + 1, NEW e \in 1 .. Len(t.files) + 1, f <= e
    PROVE  Starts(t)[f] <= Starts(t)[e]
<1> DEFINE S == Starts(t)
           m == Len(t.files) + 1
           T == {n \in Nat : f + n <= m => S[f] <= S[f + n]}
<1>1. m \in Nat /\ f \in Nat /\ e \in Nat
    BY DEF IsTorrent
<1>2. \A k \in 1 .. m : S[k] \in Nat
    BY StartsFacts
<1>3. \A k \in 1 .. Len(t.files) : S[k] <= S[k + 1]
    <2> SUFFICES ASSUME NEW k \in 1 .. Len(t.files) PROVE S[k] <= S[k + 1]
        OBVIOUS
    <2> QED BY FileFacts
<1> HIDE DEF S
<1>4. 0 \in T
    BY <1>1, <1>2
<1>5. ASSUME NEW n \in T PROVE n + 1 \in T
    <2> SUFFICES ASSUME f + (n + 1) <= m PROVE S[f] <= S[f + (n + 1)]
        OBVIOUS
    <2>1. f + n \in 1 .. Len(t.files) /\ f + n <= m /\ (f + n) + 1 = f + (n + 1)
        BY <1>1, <1>5
    <2>2. S[f] <= S[f + n] /\ S[f + n] <= S[(f + n) + 1]
        BY <1>3, <1>5, <2>1
    <2> QED BY <1>1, <1>2, <2>1, <2>2
<1> HIDE DEF T
<1>6. T = Nat
    <2>1. T \in SUBSET Nat
        BY DEF T
    <2> QED BY <1>4, <1>5, <2>1, Induction
<1>7. e - f \in T
    BY <1>1, <1>6
<1> QED BY <1>1, <1>7 DEF S, T

LEMMA PieceSizeFacts ==
    ASSUME NEW t, IsTorrent(t), NEW i \in Nat
    PROVE  PieceSize(t, i) \in Nat /\ i * t.plen \in Nat
<1>1. TotalSize(t) \in Nat /\ t.plen \in Nat \ {0}
    BY StartsFacts DEF IsTorrent
<1>2. TotalSize(t) % t.plen \in Nat
    BY <1>1, Z3
<1>3. i * t.plen \in Nat
    BY <1>1, Z3
<1> QED BY <1>1, <1>2, <1>3 DEF PieceSize

-----------------------------------------------------------------------------
(***************************************************************************)
(* Walks, likewise.                                                        *)
(***************************************************************************)
FirstPass(t, i) == [pos |-> i * t.plen, left |-> PieceSize(t, i), start |-> 0, spans |-> {}]

WalksUpTo(t, i, n, g) ==
    g = [k \in 0 .. n |-> IF k = 0 THEN FirstPass(t, i) ELSE Pass(t, g[k - 1], k)]

LEMMA WalksExtend ==
    ASSUME NEW t, NEW i, NEW n \in Nat, NEW g, WalksUpTo(t, i, n, g)
    PROVE  \E h : WalksUpTo(t, i, n + 1, h)
<1> DEFINE h == [k \in 0 .. n + 1 |-> IF k = n + 1 THEN Pass(t, g[n], n + 1) ELSE g[k]]
<1>1. h[n + 1] = Pass(t, g[n], n + 1) /\ \A k \in 0 .. n : h[k] = g[k]
    OBVIOUS
<1>2. g[0] = FirstPass(t, i) /\ \A k \in 1 .. n : g[k] = Pass(t, g[k - 1], k)
    BY DEF WalksUpTo
<1>3. h = [k \in 0 .. n + 1 |-> h[k]]
    OBVIOUS
<1> HIDE DEF h
<1>4. ASSUME NEW k \in 0 .. n + 1
      PROVE  h[k] = IF k = 0 THEN FirstPass(t, i) ELSE Pass(t, h[k - 1], k)
    <2>1. CASE k = n + 1
        <3>1. k - 1 = n /\ n \in 0 .. n /\ k # 0
            BY <2>1
        <3>2. h[k - 1] = g[n]
            BY <1>1, <3>1
        <3> QED BY <1>1, <2>1, <3>1, <3>2
    <2>2. CASE k # n + 1 /\ k # 0
        <3>1. k \in 1 .. n /\ k - 1 \in 0 .. n /\ k \in 0 .. n
            BY <2>2
        <3>2. h[k - 1] = g[k - 1] /\ h[k] = g[k]
            BY <1>1, <3>1
        <3> QED BY <1>2, <2>2, <3>1, <3>2
    <2>3. CASE k = 0
        <3>1. 0 \in 0 .. n
            OBVIOUS
        <3> QED BY <1>1, <1>2, <2>3, <3>1
    <2> QED BY <2>1, <2>2, <2>3
<1>5. WalksUpTo(t, i, n + 1, h)
    BY <1>3, <1>4 DEF WalksUpTo
<1> QED BY <1>5

LEMMA WalksRecursion ==
    ASSUME NEW t, IsTorrent(t), NEW i \in Nat
    PROVE  WalksUpTo(t, i, Len(t.files), Walks(t, i))
<1> DEFINE T == {n \in Nat : \E g : WalksUpTo(t, i, n, g)}
<1>1. 0 \in T
    <2>1. WalksUpTo(t, i, 0, [k \in 0 .. 0 |-> FirstPass(t, i)])
        BY DEF WalksUpTo
    <2> QED BY <2>1
<1>2. ASSUME NEW n \in T PROVE n + 1 \in T
    BY WalksExtend
<1> HIDE DEF T
<1>3. T = Nat
    <2>1. T \in SUBSET Nat
        BY DEF T
    <2> QED BY <1>1, <1>2, <2>1, Induction
<1>4. Len(t.files) \in T
    BY <1>3 DEF IsTorrent
<1>5. PICK g : WalksUpTo(t, i, Len(t.files), g)
    BY <1>4 DEF T
<1> QED BY <1>5 DEF Walks, WalksUpTo, FirstPass
-----------------------------------------------------------------------------
(***************************************************************************)
(* The walk: what it has gone over after k files.                          *)
(***************************************************************************)
\* n bytes of file s.file from s.off on, which are bytes of the torrent between
\* p0 and pos.
IsSpan(t, p0, k, pos, s) ==
    /\ s.file \in 1 .. k /\ s.off \in Nat /\ s.n \in Nat
    /\ s.off + s.n <= t.files[s.file]
    /\ s.at = Starts(t)[s.file] + s.off
    /\ p0 <= s.at /\ s.at + s.n <= pos

Covered(spans, f, o) == \E s \in spans : s.file = f /\ s.off <= o /\ o < s.off + s.n

\* p0 is where the piece begins and z its size.
WalkInv(t, p0, z, k, v) ==
    /\ v = [pos |-> v.pos, left |-> v.left, start |-> v.start, spans |-> v.spans]
    /\ v.start = Starts(t)[k + 1]
    /\ v.pos \in Nat /\ v.left \in Nat /\ v.pos + v.left = p0 + z /\ p0 <= v.pos
    /\ v.left = 0 \/ v.pos >= v.start
    /\ v.pos = p0 \/ v.pos <= v.start
    /\ \A s \in v.spans : IsSpan(t, p0, k, v.pos, s)
    /\ \A f \in 1 .. k : \A o \in 0 .. t.files[f] - 1 :
            p0 <= Starts(t)[f] + o /\ Starts(t)[f] + o < v.pos => Covered(v.spans, f, o)

LEMMA PassStep ==
    ASSUME NEW t, IsTorrent(t), NEW p0 \in Nat, NEW z \in Nat,
           NEW k \in 1 .. Len(t.files), NEW v, WalkInv(t, p0, z, k - 1, v)
    PROVE  WalkInv(t, p0, z, k, Pass(t, v, k))
<1> DEFINE S == Starts(t)
           len == t.files[k]
           end == v.start + len
           w == Pass(t, v, k)
<1>1. Len(t.files) \in Nat /\ k \in Nat /\ k - 1 \in Nat /\ (k - 1) + 1 = k
    BY FileFacts
<1>2. v.start = S[k] /\ S[k] \in Nat /\ len \in Nat /\ S[k + 1] = end
    <2>1. v.start = S[k]
        BY <1>1 DEF WalkInv
    <2> QED BY <2>1, FileFacts
<1>3. ASSUME NEW f \in 1 .. k - 1, NEW o \in 0 .. t.files[f] - 1
      PROVE  f \in 1 .. Len(t.files) /\ S[f] \in Nat /\ o \in Nat /\ S[f] + o < S[k]
    <2>1. f \in 1 .. Len(t.files) /\ f \in Nat /\ f + 1 <= k
        BY <1>1
    <2>2. t.files[f] \in Nat /\ S[f] \in Nat /\ S[f + 1] = S[f] + t.files[f]
        BY <2>1, FileFacts
    <2>3. f + 1 \in 1 .. Len(t.files) + 1 /\ k \in 1 .. Len(t.files) + 1
        BY <1>1, <2>1
    <2>4. S[f + 1] <= S[k]
        BY <2>1, <2>3, StartsGrow
    <2> DEFINE lf == t.files[f]
               a  == S[f]
               e  == S[k]
    <2>5. a \in Nat /\ lf \in Nat /\ e \in Nat /\ a + lf <= e /\ o \in 0 .. lf - 1
        BY <1>2, <2>2, <2>4
    <2> HIDE DEF S, lf, a, e
    <2>6. o \in Nat /\ a + o < e
        BY <2>5
    <2> QED BY <2>1, <2>2, <2>6 DEF a, e
<1> HIDE DEF S, len
<1>4. v = [pos |-> v.pos, left |-> v.left, start |-> v.start, spans |-> v.spans]
    BY DEF WalkInv
<1>5. v.pos \in Nat /\ v.left \in Nat /\ v.pos + v.left = p0 + z /\ p0 <= v.pos
    BY DEF WalkInv
<1>6. (v.left = 0 \/ v.pos >= v.start) /\ (v.pos = p0 \/ v.pos <= v.start)
    BY DEF WalkInv
<1>7. \A s \in v.spans : IsSpan(t, p0, k - 1, v.pos, s)
    BY DEF WalkInv
<1>8. ASSUME NEW f \in 1 .. k - 1, NEW o \in 0 .. t.files[f] - 1,
             p0 <= S[f] + o, S[f] + o < v.pos
      PROVE  Covered(v.spans, f, o)
    BY <1>8 DEF WalkInv, S
\* Nothing of this file has been gone over before.
<1>9. ASSUME NEW o \in 0 .. len - 1, p0 <= S[k] + o
      PROVE  o \in Nat /\ S[k] + o >= v.pos /\ S[k] + o < end
    BY <1>2, <1>5, <1>6, <1>9
<1>10. CASE v.pos >= end \/ v.left = 0
    <2>1. w = [pos |-> v.pos, left |-> v.left, start |-> end, spans |-> v.spans]
        BY <1>4, <1>10 DEF Pass, len
    <2>2. (v.pos = p0 \/ v.pos <= end) /\ (v.left = 0 \/ v.pos >= end)
        BY <1>2, <1>5, <1>6, <1>10
    <2> HIDE DEF w, end
    <2>3. ASSUME NEW s \in v.spans PROVE IsSpan(t, p0, k, v.pos, s)
        BY <1>1, <1>7 DEF IsSpan
    <2>4. ASSUME NEW f \in 1 .. k, NEW o \in 0 .. t.files[f] - 1,
                 p0 <= S[f] + o, S[f] + o < v.pos
          PROVE  Covered(v.spans, f, o)
        <3>1. CASE f = k
            <4>1. o \in 0 .. len - 1 /\ p0 <= S[k] + o /\ S[k] + o < v.pos
                BY <2>4, <3>1 DEF len
            <4>2. S[k] + o >= v.pos /\ S[k] + o \in Nat
                BY <1>2, <1>9, <4>1
            <4> QED BY <1>5, <4>1, <4>2
        <3>2. CASE f # k
            <4>1. f \in 1 .. k - 1
                BY <1>1, <3>2
            <4> QED BY <1>8, <2>4, <4>1
        <3> QED BY <3>1, <3>2
    <2> QED BY <1>2, <1>5, <2>1, <2>2, <2>3, <2>4 DEF WalkInv, S, w
<1>11. CASE v.pos < end /\ v.left # 0
    <2> DEFINE off == v.pos - v.start
               n == IF v.left < len - off THEN v.left ELSE len - off
               new == [file |-> k, off |-> off, n |-> n, at |-> v.pos]
               spans == v.spans \union {new}
    <2>1. w = [pos |-> v.pos + n, left |-> v.left - n, start |-> end, spans |-> spans]
        <3>1. ~ (v.pos >= end \/ v.left = 0)
            BY <1>2, <1>5, <1>11
        <3> QED BY <3>1 DEF Pass, len
    <2>2. off \in Nat /\ off < len /\ v.pos = S[k] + off
        <3> DEFINE a == v.pos
                   b == v.start
        <3>1. a \in Nat /\ b \in Nat /\ len \in Nat /\ b <= a /\ a < b + len
            BY <1>2, <1>5, <1>6, <1>11
        <3> HIDE DEF a, b
        <3>2. a - b \in Nat /\ a - b < len /\ a = b + (a - b)
            BY <3>1
        <3> QED BY <1>2, <3>2 DEF a, b
    <2> HIDE DEF w, off
    <2>3. n \in Nat /\ off + n <= len /\ n <= v.left /\ (n = v.left \/ off + n = len)
        BY <1>2, <1>5, <2>2
    <2> HIDE DEF n
    <2>4. /\ v.pos + n \in Nat /\ v.left - n \in Nat
          /\ (v.pos + n) + (v.left - n) = p0 + z /\ p0 <= v.pos + n
        <3>1. v.pos + n \in Nat /\ v.left - n \in Nat /\ p0 <= v.pos + n
            BY <1>5, <2>3
        <3>2. (v.pos + n) + (v.left - n) = v.pos + v.left
            BY <1>5, <2>3
        <3> QED BY <1>5, <3>1, <3>2
    <2>5. (v.pos + n = p0 \/ v.pos + n <= end) /\ (v.left - n = 0 \/ v.pos + n >= end)
        BY <1>2, <1>5, <2>2, <2>3
    <2> HIDE DEF end
    <2>6. ASSUME NEW s \in spans PROVE IsSpan(t, p0, k, v.pos + n, s)
        <3>1. CASE s = new
            BY <1>1, <1>5, <2>2, <2>3, <3>1 DEF IsSpan, S, len
        <3>2. CASE s \in v.spans
            <4>1. IsSpan(t, p0, k - 1, v.pos, s)
                BY <1>7, <3>2
            <4>2. s.file \in 1 .. Len(t.files)
                BY <1>1, <4>1 DEF IsSpan
            <4>3. Starts(t)[s.file] \in Nat
                BY <4>2, FileFacts
            <4>4. s.at \in Nat /\ s.n \in Nat /\ s.at + s.n <= v.pos
                BY <4>1, <4>3 DEF IsSpan
            <4>5. s.at + s.n <= v.pos + n
                BY <1>5, <2>3, <4>4
            <4>6. s.file \in 1 .. k
                BY <1>1, <4>1 DEF IsSpan
            <4> QED BY <4>1, <4>5, <4>6 DEF IsSpan
        <3> QED BY <2>6, <3>1, <3>2
    <2>7. ASSUME NEW f \in 1 .. k, NEW o \in 0 .. t.files[f] - 1,
                 p0 <= S[f] + o, S[f] + o < v.pos + n
          PROVE  Covered(spans, f, o)
        <3>1. CASE f = k
            <4>1. o \in 0 .. len - 1 /\ p0 <= S[k] + o /\ S[k] + o < v.pos + n
                BY <2>7, <3>1 DEF len
            <4>2. o \in Nat /\ S[k] + o >= v.pos
                BY <1>9, <4>1
            <4>3. off <= o /\ o < off + n
                BY <1>2, <2>2, <2>3, <4>1, <4>2
            <4>4. new \in spans /\ new.file = k /\ new.off = off /\ new.n = n
                OBVIOUS
            <4> HIDE DEF spans, new
            <4> QED BY <3>1, <4>3, <4>4 DEF Covered
        <3>2. CASE f # k
            <4>1. f \in 1 .. k - 1
                BY <1>1, <3>2
            <4>2. S[f] \in Nat /\ o \in Nat /\ S[f] + o < S[k]
                BY <1>3, <4>1
            <4>3. S[f] + o < v.pos
                BY <1>2, <2>2, <4>2
            <4>4. Covered(v.spans, f, o)
                BY <1>8, <2>7, <4>1, <4>3
            <4> QED BY <4>4 DEF Covered
        <3> QED BY <3>1, <3>2
    <2> HIDE DEF spans
    <2> QED BY <1>2, <2>1, <2>4, <2>5, <2>6, <2>7 DEF WalkInv, S, w
<1>12. v.pos >= end \/ v.pos < end
    BY <1>2, <1>5
<1> QED BY <1>10, <1>11, <1>12

LEMMA WalkEnds ==
    ASSUME NEW t, IsTorrent(t), NEW i \in Nat
    PROVE  WalkInv(t, i * t.plen, PieceSize(t, i), Len(t.files), Walk(t, i))
<1> DEFINE W == Walks(t, i)
           Inv(k) == WalkInv(t, i * t.plen, PieceSize(t, i), k, W[k])
           T == {n \in Nat : n <= Len(t.files) => Inv(n)}
<1>1. PieceSize(t, i) \in Nat /\ i * t.plen \in Nat /\ Len(t.files) \in Nat
    <2>1. Len(t.files) \in Nat
        BY DEF IsTorrent
    <2> QED BY <2>1, PieceSizeFacts
<1>2. W = [k \in 0 .. Len(t.files) |-> IF k = 0 THEN FirstPass(t, i) ELSE Pass(t, W[k - 1], k)]
    BY WalksRecursion DEF WalksUpTo
<1> HIDE DEF W
<1>3. 0 \in T
    <2>1. W[0] = FirstPass(t, i)
        BY <1>1, <1>2
    <2>2. Starts(t)[0 + 1] = 0
        BY StartsFacts
    <2>3. WalkInv(t, i * t.plen, PieceSize(t, i), 0, FirstPass(t, i))
        BY <1>1, <2>2 DEF WalkInv, FirstPass
    <2> QED BY <2>1, <2>3
<1>4. ASSUME NEW n \in T PROVE n + 1 \in T
    <2> SUFFICES ASSUME n + 1 <= Len(t.files) PROVE Inv(n + 1)
        OBVIOUS
    <2>1. n \in Nat /\ n + 1 \in 1 .. Len(t.files) /\ (n + 1) - 1 = n
        BY <1>1
    <2>2. W[n + 1] = Pass(t, W[n], n + 1)
        BY <1>1, <1>2, <2>1
    <2>3. Inv(n)
        BY <1>1, <1>4, <2>1
    <2> HIDE DEF T
    <2> QED BY <1>1, <2>1, <2>2, <2>3, PassStep
<1> HIDE DEF T
<1>5. T = Nat
    <2>1. T \in SUBSET Nat
        BY DEF T
    <2> QED BY <1>3, <1>4, <2>1, Induction
<1>6. Inv(Len(t.files))
    BY <1>1, <1>5 DEF T
<1> QED BY <1>6 DEF Walk, W

LEMMA InPlaces ==
    ASSUME NEW t, IsTorrent(t), NEW q
    PROVE  q \in Places(t) <=>
              \E f \in 1 .. Len(t.files) : \E o \in 0 .. t.files[f] - 1 : q = <<f, o>>
<1>1. DOMAIN t.files = 1 .. Len(t.files)
    BY DEF IsTorrent
<1> QED BY <1>1 DEF Places

\* The position in the torrent of byte o of file f.
LEMMA PositionFacts ==
    ASSUME NEW t, IsTorrent(t), NEW f \in 1 .. Len(t.files), NEW o \in 0 .. t.files[f] - 1
    PROVE  o \in Nat /\ Starts(t)[f] + o \in Nat /\ Starts(t)[f] + o < TotalSize(t)
<1>1. t.files[f] \in Nat /\ Starts(t)[f] \in Nat /\ Len(t.files) \in Nat /\ f \in Nat
      /\ Starts(t)[f + 1] = Starts(t)[f] + t.files[f]
    BY FileFacts
<1>2. f + 1 \in 1 .. Len(t.files) + 1 /\ Len(t.files) + 1 \in 1 .. Len(t.files) + 1
      /\ f + 1 <= Len(t.files) + 1
    BY <1>1
<1>3. Starts(t)[f + 1] <= TotalSize(t)
    BY <1>2, StartsGrow DEF TotalSize
<1>4. TotalSize(t) \in Nat
    BY StartsFacts
<1> QED BY <1>1, <1>3, <1>4

\* Reading or writing piece i goes over the bytes of piece i, no other ones, and
\* has each at the place in the file where it belongs: for files of any lengths,
\* empty ones too, and any piece length (read_piece, write_piece).
THEOREM WalkIsPiece ==
    ASSUME NEW t, IsTorrent(t), NEW i \in Nat
    PROVE  Touched(t, i) = PlacesOf(t, i) /\ Righted(t, i) = PlacesOf(t, i)
<1> DEFINE v == Walk(t, i)
           p0 == i * t.plen
           z == PieceSize(t, i)
           Pos(f, o) == Starts(t)[f] + o
<1>1. WalkInv(t, p0, z, Len(t.files), v)
    BY WalkEnds
<1>2. p0 \in Nat /\ z \in Nat /\ Len(t.files) \in Nat
    <2>1. Len(t.files) \in Nat
        BY DEF IsTorrent
    <2> QED BY <2>1, PieceSizeFacts
<1>3. v.pos \in Nat /\ v.left \in Nat /\ v.pos + v.left = p0 + z /\ p0 <= v.pos
      /\ (v.left = 0 \/ v.pos >= TotalSize(t))
    BY <1>1 DEF WalkInv, TotalSize
<1>4. \A s \in v.spans : IsSpan(t, p0, Len(t.files), v.pos, s)
    BY <1>1 DEF WalkInv
<1>5. ASSUME NEW f \in 1 .. Len(t.files), NEW o \in 0 .. t.files[f] - 1,
             p0 <= Pos(f, o), Pos(f, o) < v.pos
      PROVE  Covered(v.spans, f, o)
    BY <1>1, <1>5 DEF WalkInv
<1> HIDE DEF v, p0, z
<1>6. ASSUME NEW s \in v.spans, NEW j \in 0 .. s.n - 1
      PROVE  <<s.file, s.off + j>> \in PlacesOf(t, i)
    <2>1. /\ s.file \in 1 .. Len(t.files) /\ s.off \in Nat /\ s.n \in Nat
          /\ s.off + s.n <= t.files[s.file]
          /\ s.at = Starts(t)[s.file] + s.off /\ p0 <= s.at /\ s.at + s.n <= v.pos
        BY <1>4 DEF IsSpan
    <2>2. t.files[s.file] \in Nat /\ Starts(t)[s.file] \in Nat /\ j \in Nat /\ j < s.n
        BY <2>1, FileFacts
    <2>3. s.off + j \in 0 .. t.files[s.file] - 1
        BY <2>1, <2>2
    <2>4. p0 <= Pos(s.file, s.off + j) /\ Pos(s.file, s.off + j) < p0 + z
        <3>1. Pos(s.file, s.off + j) = s.at + j /\ s.at \in Nat
            BY <2>1, <2>2
        <3>2. v.pos <= p0 + z
            BY <1>2, <1>3
        <3> DEFINE at == s.at
                   n  == s.n
                   u  == v.pos
        <3>3. /\ p0 \in Nat /\ z \in Nat /\ at \in Nat /\ n \in Nat /\ u \in Nat /\ j \in Nat
              /\ p0 <= at /\ j < n /\ at + n <= u /\ u <= p0 + z
            BY <1>2, <1>3, <2>1, <2>2, <3>1, <3>2
        <3>4. Pos(s.file, s.off + j) = at + j
            BY <3>1
        <3> HIDE DEF Pos, at, n, u
        <3>5. p0 <= at + j /\ at + j < p0 + z
            BY <3>3
        <3> QED BY <3>4, <3>5
    <2>5. <<s.file, s.off + j>> \in Places(t)
        BY <2>1, <2>3, InPlaces
    <2> QED BY <2>4, <2>5 DEF PlacesOf, p0, z
<1>7. ASSUME NEW q \in PlacesOf(t, i)
      PROVE  \E s \in v.spans : \E j \in 0 .. s.n - 1 : q = <<s.file, s.off + j>>
    <2>8. PICK f \in 1 .. Len(t.files) : \E o \in 0 .. t.files[f] - 1 : q = <<f, o>>
        BY InPlaces DEF PlacesOf
    <2>1. PICK o \in 0 .. t.files[f] - 1 : q = <<f, o>>
        BY <2>8
    <2>2. p0 <= Pos(f, o) /\ Pos(f, o) < p0 + z
        BY <2>1 DEF PlacesOf, p0, z
    <2>3. o \in Nat /\ Pos(f, o) \in Nat /\ Pos(f, o) < TotalSize(t) /\ TotalSize(t) \in Nat
        BY PositionFacts, StartsFacts
    <2>4. Pos(f, o) < v.pos
        BY <1>2, <1>3, <2>2, <2>3
    <2>5. PICK s \in v.spans : s.file = f /\ s.off <= o /\ o < s.off + s.n
        BY <1>5, <2>2, <2>4 DEF Covered
    <2>6. s.off \in Nat /\ s.n \in Nat
        BY <1>4 DEF IsSpan
    <2>7. o - s.off \in 0 .. s.n - 1 /\ o = s.off + (o - s.off)
        BY <2>3, <2>5, <2>6
    <2> QED BY <2>1, <2>5, <2>7
<1>8. Touched(t, i) = PlacesOf(t, i)
    BY <1>6, <1>7 DEF Touched, v
<1>9. Righted(t, i) = Touched(t, i)
    <2>1. ASSUME NEW s \in v.spans
          PROVE  {j \in 0 .. s.n - 1 : Starts(t)[s.file] + s.off = s.at} = 0 .. s.n - 1
        <3>1. s.at = Starts(t)[s.file] + s.off
            BY <1>4 DEF IsSpan
        <3> QED BY <3>1
    <2> QED BY <2>1 DEF Righted, Touched, v
<1> QED BY <1>8, <1>9
-----------------------------------------------------------------------------
(***************************************************************************)
(* The pieces of a torrent with as many hashes as its size asks for.       *)
(***************************************************************************)
LEMMA Divide ==
    ASSUME NEW a \in Nat, NEW b \in Nat \ {0}
    PROVE  /\ a \div b \in Nat /\ a % b \in Nat /\ a % b < b
           /\ a = (a \div b) * b + (a % b)
BY Z3

LEMMA Times ==
    ASSUME NEW a \in Int, NEW b \in Int, NEW s \in Nat
    PROVE  /\ a * s \in Int
           /\ (a + 1) * s = a * s + s
           /\ a <= b => a * s <= b * s
           /\ a \in Nat => a * s \in Nat
BY Z3

\* One more than the index of the last whole piece, or of the rest.
LEMMA RoundUp ==
    ASSUME NEW a \in Nat, NEW b \in Nat \ {0}
    PROVE  (a + b - 1) \div b = IF a % b = 0 THEN a \div b ELSE a \div b + 1
<1> DEFINE q == a \div b
           r == a % b
           u == (a + b - 1) \div b
           x == (a + b - 1) % b
<1>1. q \in Nat /\ r \in Nat /\ r < b /\ a = q * b + r
    BY Divide
<1>2. a + b - 1 \in Nat
    OBVIOUS
<1>3. u \in Nat /\ x \in Nat /\ x < b /\ a + b - 1 = u * b + x
    BY <1>2, Divide
<1> HIDE DEF q, r, u, x
<1>4. q * b \in Nat /\ u * b \in Nat /\ (q + 1) * b = q * b + b /\ (u + 1) * b = u * b + b
      /\ ((q + 1) + 1) * b = (q + 1) * b + b
    BY <1>1, <1>3, Times
<1>5. CASE u < q
    <2>1. (u + 1) * b <= q * b
        BY <1>1, <1>3, <1>5, Times
    <2> QED BY <1>1, <1>3, <1>4, <2>1
<1>6. CASE u > q + 1
    <2>1. ((q + 1) + 1) * b <= u * b
        BY <1>1, <1>3, <1>6, Times
    <2> QED BY <1>1, <1>3, <1>4, <2>1
<1>7. CASE u = q
    <2>1. r = 0
        BY <1>1, <1>3, <1>4, <1>7
    <2> QED BY <1>7, <2>1 DEF q, r, u
<1>8. CASE u = q + 1
    <2>1. r # 0
        BY <1>1, <1>3, <1>4, <1>8
    <2> QED BY <1>8, <2>1 DEF q, r, u
<1> QED BY <1>1, <1>3, <1>5, <1>6, <1>7, <1>8

\* Every byte of every file is in a piece: in the last one too, whose size is
\* what is left over, or a whole piece if nothing is (piece_size).
THEOREM PiecesCover ==
    ASSUME NEW t, IsTorrent(t), WellFormed(t)
    PROVE  Places(t) = UNION {PlacesOf(t, i) : i \in PieceIds(t)}
<1>1. TotalSize(t) \in Nat /\ t.plen \in Nat \ {0}
    BY StartsFacts DEF IsTorrent
<1> DEFINE b == t.plen
           q == TotalSize(t) \div b
           r == TotalSize(t) % b
<1>2. q \in Nat /\ r \in Nat /\ TotalSize(t) = q * b + r
    BY <1>1, Divide
<1>3. t.npieces = IF r = 0 THEN q ELSE q + 1
    BY <1>1, RoundUp DEF WellFormed
<1>4. ASSUME NEW g \in Nat, g < TotalSize(t)
      PROVE  \E i \in PieceIds(t) : i * b <= g /\ g < i * b + PieceSize(t, i)
    <2> DEFINE i == g \div b
               x == g % b
    <2>1. i \in Nat /\ x \in Nat /\ x < b /\ g = i * b + x
        BY <1>1, Divide
    <2>2. PieceSize(t, i) = IF i = t.npieces - 1 /\ r # 0 THEN r ELSE b
        BY DEF PieceSize
    <2> HIDE DEF i, x, q, r, b
    <2>3. i * b \in Nat /\ q * b \in Nat /\ b \in Nat
        BY <1>1, <1>2, <2>1, Times DEF b
    <2>4. i <= q
        <3> SUFFICES ASSUME q + 1 <= i PROVE FALSE
            BY <1>2, <2>1
        <3>1. (q + 1) * b <= i * b /\ (q + 1) * b = q * b + b
            BY <1>1, <1>2, <2>1, Times DEF b
        <3>2. r < b
            BY <1>1, Divide DEF r, b
        <3> QED BY <1>2, <1>4, <2>1, <2>3, <3>1, <3>2
    <2>5. i = q => r # 0 /\ x < r
        BY <1>2, <1>4, <2>1, <2>3
    <2>6. i \in PieceIds(t)
        BY <1>2, <1>3, <2>1, <2>4, <2>5 DEF PieceIds
    <2>7. i * b <= g /\ g < i * b + PieceSize(t, i)
        BY <1>2, <1>3, <2>1, <2>2, <2>3, <2>4, <2>5
    <2> QED BY <2>6, <2>7
<1>5. ASSUME NEW p \in Places(t) PROVE \E i \in PieceIds(t) : p \in PlacesOf(t, i)
    <2>1. PICK f \in 1 .. Len(t.files) : \E o \in 0 .. t.files[f] - 1 : p = <<f, o>>
        BY InPlaces
    <2>2. PICK o \in 0 .. t.files[f] - 1 : p = <<f, o>>
        BY <2>1
    <2>3. Starts(t)[f] + o \in Nat /\ Starts(t)[f] + o < TotalSize(t)
        BY PositionFacts
    <2>4. PICK i \in PieceIds(t) : i * b <= Starts(t)[f] + o
                                  /\ Starts(t)[f] + o < i * b + PieceSize(t, i)
        BY <1>4, <2>3
    <2> QED BY <2>2, <2>4 DEF PlacesOf
<1>6. \A i \in PieceIds(t) : PlacesOf(t, i) \subseteq Places(t)
    BY DEF PlacesOf
<1> QED BY <1>5, <1>6

\* Writing one piece leaves the bytes of every other one alone.
THEOREM PiecesDisjoint ==
    ASSUME NEW t, IsTorrent(t), NEW i \in Nat, NEW j \in Nat, i # j
    PROVE  PlacesOf(t, i) \intersect PlacesOf(t, j) = {}
<1> DEFINE b == t.plen
<1>1. TotalSize(t) \in Nat /\ b \in Nat \ {0}
    BY StartsFacts DEF IsTorrent
<1>2. TotalSize(t) % b \in Nat /\ TotalSize(t) % b < b
    BY <1>1, Divide
<1>3. PieceSize(t, i) <= b /\ PieceSize(t, j) <= b
    BY <1>1, <1>2 DEF PieceSize
<1>4. PieceSize(t, i) \in Nat /\ PieceSize(t, j) \in Nat
    BY PieceSizeFacts
<1> HIDE DEF b
<1>5. i * b \in Nat /\ j * b \in Nat /\ (i + 1) * b = i * b + b /\ (j + 1) * b = j * b + b
    BY <1>1, Times
<1>6. (i + 1) * b <= j * b \/ (j + 1) * b <= i * b
    <2>1. CASE i + 1 <= j
        BY <1>1, <2>1, Times
    <2>2. CASE j + 1 <= i
        BY <1>1, <2>2, Times
    <2> QED BY <2>1, <2>2
<1>7. ASSUME NEW p \in PlacesOf(t, i), p \in PlacesOf(t, j) PROVE FALSE
    <2>1. PICK f \in 1 .. Len(t.files) : \E o \in 0 .. t.files[f] - 1 : p = <<f, o>>
        BY InPlaces DEF PlacesOf
    <2>2. PICK o \in 0 .. t.files[f] - 1 : p = <<f, o>>
        BY <2>1
    <2> DEFINE g == Starts(t)[f] + o
    <2>3. g \in Nat
        BY PositionFacts
    <2>4. /\ i * b <= g /\ g < i * b + PieceSize(t, i)
          /\ j * b <= g /\ g < j * b + PieceSize(t, j)
        BY <1>7, <2>2 DEF PlacesOf, b
    <2> HIDE DEF g
    <2>5. g < i * b + b /\ g < j * b + b
        <3> DEFINE x == i * b
                   y == j * b
                   k == PieceSize(t, i)
                   l == PieceSize(t, j)
        <3>1. x \in Nat /\ y \in Nat /\ k \in Nat /\ l \in Nat /\ k <= b /\ l <= b
              /\ g < x + k /\ g < y + l
            BY <1>3, <1>4, <1>5, <2>4
        <3> HIDE DEF x, y, k, l
        <3>2. g < x + b /\ g < y + b
            BY <1>1, <2>3, <3>1
        <3> QED BY <3>2 DEF x, y
    <2>6. CASE (i + 1) * b <= j * b
        BY <1>1, <1>5, <2>3, <2>4, <2>5, <2>6
    <2>7. CASE (j + 1) * b <= i * b
        BY <1>1, <1>5, <2>3, <2>4, <2>5, <2>7
    <2> QED BY <1>6, <2>6, <2>7
<1> QED BY <1>7
=============================================================================
