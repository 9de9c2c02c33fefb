------------------------------ MODULE PiecePool ------------------------------
(***************************************************************************)
(* What the PieceManager promises the peer tasks of a torrent download:    *)
(* a piece is fetched by at most one of them at a time, a piece that is    *)
(* taken is always somebody's, a piece is done only after its verified     *)
(* data was handed to the disk, and done is for good.  A new run of the    *)
(* program knows no owners and counts exactly the pieces that are on disk. *)
(***************************************************************************)
CONSTANTS
    Workers, Pieces,
    Nobody             \* not a worker

VARIABLES
    state,    \* [Pieces -> {"needed", "downloading", "done"}]
    owner,    \* [Pieces -> Workers \cup {Nobody}]
    written   \* pieces whose verified data went to the disk

poolVars == <<state, owner, written>>

PoolTypeOK ==
    /\ state \in [Pieces -> {"needed", "downloading", "done"}]
    /\ owner \in [Pieces -> Workers \union {Nobody}]
    /\ written \subseteq Pieces

\* The program has just found the pieces of S on disk.
Fresh(S) ==
    /\ state' = [i \in Pieces |-> IF i \in S THEN "done" ELSE "needed"]
    /\ owner' = [i \in Pieces |-> Nobody]
    /\ written' = S

\* Some pieces may be on disk already, from a run nobody remembers.
Init ==
    /\ written \in SUBSET Pieces
    /\ state = [i \in Pieces |-> IF i \in written THEN "done" ELSE "needed"]
    /\ owner = [i \in Pieces |-> Nobody]

Take(w, i) ==
    /\ state[i] = "needed"
    /\ \A j \in Pieces : owner[j] # w
    /\ state' = [state EXCEPT ![i] = "downloading"]
    /\ owner' = [owner EXCEPT ![i] = w]
    /\ UNCHANGED written

GiveBack(w, i) ==
    /\ owner[i] = w
    /\ state' = [state EXCEPT ![i] = "needed"]
    /\ owner' = [owner EXCEPT ![i] = Nobody]
    /\ UNCHANGED written

Store(w, i) ==
    /\ owner[i] = w
    /\ written' = written \union {i}
    /\ UNCHANGED <<state, owner>>

Finish(w, i) ==
    /\ owner[i] = w
    /\ i \in written
    /\ state' = [state EXCEPT ![i] = "done"]
    /\ owner' = [owner EXCEPT ![i] = Nobody]
    /\ UNCHANGED written

\* A crash may lose what was handed to the disk and not yet written.
Restart == \E S \in SUBSET written : Fresh(S)

Next ==
    \/ \E w \in Workers, i \in Pieces :
        Take(w, i) \/ GiveBack(w, i) \/ Store(w, i) \/ Finish(w, i)
    \/ Restart

Spec == Init /\ [][Next]_poolVars
-----------------------------------------------------------------------------
\* A piece is being downloaded exactly while a worker owns it, and nothing is
\* done that is not written.
PoolInv ==
    \A i \in Pieces :
        /\ state[i] = "downloading" <=> owner[i] # Nobody
        /\ state[i] = "done" => i \in written

\* A worker has one piece at a time.
OnePieceEach ==
    \A i, j \in Pieces : owner[i] # Nobody /\ owner[i] = owner[j] => i = j
=============================================================================
