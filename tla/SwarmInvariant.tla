--------------------------- MODULE SwarmInvariant ---------------------------
(***************************************************************************)
(* The inductive invariants of PeerSwarm behind its proofs.                *)
(***************************************************************************)
EXTENDS PeerSwarm

(***************************************************************************)
(* For every environment.                                                  *)
(***************************************************************************)
\* A task has a reserved piece only in its loop, and a complete one only while
\* it stores it; current and the guard agree; between runs nobody holds a piece.
TaskShape ==
    \A p \in Peers :
        /\ current[p] = guard[p]
        /\ guard[p] # NoPiece => pc[p] \in {"top", "read"}
        /\ piece[p] # NoPiece <=> pc[p] \in {"write", "mark", "failed"}
        /\ phase # "running" => guard[p] = NoPiece /\ piece[p] = NoPiece

\* What a task holds counts as being downloaded.
HeldDownloading == \A p \in Peers : \A i \in Held(p) : states[i] = "downloading"

\* A process that has ended left no write behind.
NothingBuffered == phase = "stopped" => buffered = {}

Owned == TaskShape /\ HeldDownloading /\ OwnedOnce /\ NothingBuffered /\ StoredNotFetched

\* An address waits before it has a task, and has one task at most.
QueueInv ==
    /\ pending \subseteq seen
    /\ \A p \in Peers : p \in pending \/ p \notin seen => pc[p] = "absent"

OwnerInv == TypeOK /\ QueueInv /\ Owned

(***************************************************************************)
(* Where write_piece never returns an error.                               *)
(***************************************************************************)
AllHeld ==
    phase = "running" =>
        \A i \in Pieces : states[i] = "downloading" => \E p \in Peers : i \in Held(p)

(***************************************************************************)
(* Where no buffered write fails.                                          *)
(***************************************************************************)
\* A task that is about to call piece_done has handed its piece to the disk.
MarkedWritten ==
    \A p \in Peers : pc[p] = "mark" => store[piece[p]] \/ piece[p] \in buffered

\* download() reports success when every piece is done.
OkComplete == phase = "exiting" /\ outcome = "ok" => IsComplete

Written == MarkedWritten /\ DoneIsWritten /\ OkComplete /\ SuccessOnDisk

\* All of it, in an environment without disk errors.
SwarmInv == OwnerInv /\ AllHeld /\ Written
=============================================================================
