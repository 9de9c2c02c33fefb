----------------------------- MODULE OutputFile -----------------------------
(***************************************************************************)
(* The output file of a download: an array of units, each of which holds   *)
(* a unit of some content, a hole, or lies past the end of the file.       *)
(***************************************************************************)
EXTENDS Integers

CONSTANTS
    Contents,    \* what servers serve: one body behind one URL
    MaxSize,     \* bound of every length
    Zero, None   \* a byte of a hole; an offset past the end of the file

ASSUME FileConstants ==
    /\ MaxSize \in Nat \ {0}
    /\ Zero \notin Contents /\ None \notin Contents \union {Zero}

Offsets == 0 .. MaxSize - 1

\* The whole body of c, of n units.
Body(c, n) == [o \in Offsets |-> IF o < n THEN c ELSE None]

Empty == [o \in Offsets |-> None]

SetLen(d, n) ==
    [o \in Offsets |-> IF o >= n THEN None ELSE IF d[o] = None THEN Zero ELSE d[o]]

\* n units of c, written inside the file or at its end.
Write(d, from, n, c) ==
    [o \in Offsets |-> IF o \in from .. from + n - 1 THEN c ELSE d[o]]

\* The same behind a seek, which may leave a hole.
WriteAt(d, from, n, c) ==
    [o \in Offsets |-> IF o < from /\ d[o] = None THEN Zero ELSE Write(d, from, n, c)[o]]
=============================================================================
