------------------------------ MODULE PeerSwarm ------------------------------
(***************************************************************************)
(* A torrent download: the main loop of torrent/mod.rs                     *)
(* (run_download_stream), one task per peer (peer::run), the PieceManager  *)
(* they share under a mutex, the FileWriter, and the discovery tasks that  *)
(* feed the main loop with addresses; over several runs of the program.    *)
(*                                                                         *)
(* A step is what a task does between two awaits, or less where it takes   *)
(* the manager's lock twice and other tasks may come in between.  A piece  *)
(* is a unit that is complete at some message; its blocks, and the order   *)
(* of the queues of addresses, are left out.                               *)
(*                                                                         *)
(* What the environment may do, and do wrong, is the constant Faults:      *)
(*   pex        peers tell of other peers                                  *)
(*   net        connections and reads fail, time out or are too slow       *)
(*   corrupt    a completed piece does not have its hash                   *)
(*   choke      a peer chokes us again after it unchoked us                *)
(*   trickle    a peer announces with Have what was not in its bitfield    *)
(*   kill       the process dies (what is in a write buffer is lost)       *)
(*   write      FileWriter::write_piece returns an error                   *)
(*   lateWrite  a write still buffered when write_piece returned fails     *)
(*   dht        the DHT task dies, which closes the address channel        *)
(***************************************************************************)
EXTENDS Integers, FiniteSets

CONSTANTS
    Peers,       \* addresses
    NumPieces,
    Holds,       \* [Peers -> SUBSET Pieces]: what a peer has, or may get later
    MaxActive,   \* max_concurrent
    MaxChan,     \* capacity of the address channel
    MaxRuns,     \* how often the user starts the program
    Faults,      \* what the environment may do, see above
    NoPiece, Nobody

Pieces == 0 .. NumPieces - 1

ASSUME SwarmConstants ==
    /\ NumPieces \in Nat \ {0}
    /\ Holds \in [Peers -> SUBSET Pieces]
    /\ IsFiniteSet(Peers)
    /\ MaxActive \in Nat \ {0}
    /\ MaxChan \in Nat \ {0}
    /\ MaxRuns \in Nat
    /\ NoPiece \notin Pieces
    /\ Nobody \notin Peers

VARIABLES
    store,     \* [Pieces -> BOOLEAN]: the piece on disk has its hash
    buffered,  \* pieces whose last write is still in a buffer
    phase,     \* stopped, running, exiting
    outcome,   \* how the last run ended: none, ok, incomplete, killed
    runs,      \* runs started so far
    states,    \* PieceManager.states
    main,      \* where the loop of run_download_stream is: top, select
    seen,      \* addresses that were queued once
    pending,   \* addresses to connect to
    pex,       \* pex_peers
    chan,      \* addresses in the channel
    open,      \* a sender of the channel is alive
    listening, \* channel_open
    pc,        \* [Peers -> where the task of the peer is]
    has,       \* [Peers -> SUBSET Pieces]: peer_has
    choked,    \* [Peers -> BOOLEAN]
    bitfield,  \* [Peers -> BOOLEAN]: got_bitfield
    current,   \* [Peers -> index of the PieceDownload, or NoPiece]
    guard,     \* [Peers -> PieceGuard.index, or NoPiece]
    piece      \* [Peers -> the complete piece being stored, or NoPiece]

diskVars == <<store, buffered>>
runVars  == <<phase, outcome, runs>>
mainVars == <<main, seen, pending, chan, open, listening>>
pieceVars == <<states, current, guard>>
vars == <<diskVars, runVars, mainVars, pex, pc, has, choked, bitfield, pieceVars, piece>>

TypeOK ==
    /\ store \in [Pieces -> BOOLEAN]
    /\ buffered \subseteq Pieces
    /\ phase \in {"stopped", "running", "exiting"}
    /\ outcome \in {"none", "ok", "incomplete", "killed"}
    /\ runs \in 0 .. MaxRuns
    /\ states \in [Pieces -> {"needed", "downloading", "done"}]
    /\ main \in {"top", "select"}
    /\ seen \subseteq Peers /\ pending \subseteq Peers /\ pex \subseteq Peers
    /\ chan \subseteq Peers /\ Cardinality(chan) <= MaxChan
    /\ open \in BOOLEAN /\ listening \in BOOLEAN
    /\ pc \in [Peers -> {"absent", "connect", "top", "read", "check", "write",
                         "mark", "failed", "next", "ended", "joined"}]
    /\ has \in [Peers -> SUBSET Pieces]
    /\ choked \in [Peers -> BOOLEAN] /\ bitfield \in [Peers -> BOOLEAN]
    /\ current \in [Peers -> Pieces \union {NoPiece}]
    /\ guard \in [Peers -> Pieces \union {NoPiece}]
    /\ piece \in [Peers -> Pieces \union {NoPiece}]
-----------------------------------------------------------------------------
(***************************************************************************)
(* PieceManager and PieceGuard.                                            *)
(***************************************************************************)
IsComplete == \A i \in Pieces : states[i] = "done"

WantedNotDone(have) == {i \in have : states[i] # "done"}  \* mutant

Wanted(have) == {i \in have : states[i] = "needed"}

NextPiece(have) == {i \in Wanted(have) : \A j \in Wanted(have) : i <= j}

\* try_start: reserve the first needed piece the peer has, unless it has one.
TryStart(p, have) ==
    \/ /\ current[p] # NoPiece \/ NextPiece(have) = {}
       /\ UNCHANGED pieceVars
    \/ /\ current[p] = NoPiece
       /\ \E i \in NextPiece(have) :
             /\ states' = [states EXCEPT ![i] = "downloading"]
             /\ current' = [current EXCEPT ![p] = i]
             /\ guard' = [guard EXCEPT ![p] = i]

\* PieceGuard::drop of the peers of S: what they had reserved is needed again.
Release(S) ==
    /\ states' = [i \in Pieces |-> IF \E p \in S : guard[p] = i THEN "needed" ELSE states[i]]
    /\ guard' = [p \in Peers |-> IF p \in S THEN NoPiece ELSE guard[p]]
    /\ current' = [p \in Peers |-> IF p \in S THEN NoPiece ELSE current[p]]

Goto(p, stage) == pc' = [pc EXCEPT ![p] = stage]
-----------------------------------------------------------------------------
(***************************************************************************)
(* A run of the program: download().                                       *)
(***************************************************************************)
Init ==
    /\ store \in [Pieces -> BOOLEAN] /\ buffered = {}
    /\ phase = "stopped" /\ outcome = "none" /\ runs = 0
    /\ states = [i \in Pieces |-> "needed"]
    /\ main = "top" /\ seen = {} /\ pending = {} /\ pex = {} /\ chan = {}
    /\ open = TRUE /\ listening = TRUE
    /\ pc = [p \in Peers |-> "absent"]
    /\ has = [p \in Peers |-> {}]
    /\ choked = [p \in Peers |-> TRUE]
    /\ bitfield = [p \in Peers |-> FALSE]
    /\ current = [p \in Peers |-> NoPiece]
    /\ guard = [p \in Peers |-> NoPiece]
    /\ piece = [p \in Peers |-> NoPiece]

\* A new process: all that a run keeps in memory is as at the start.
Forget ==
    /\ main' = "top" /\ seen' = {} /\ pending' = {} /\ pex' = {} /\ chan' = {}
    /\ open' = TRUE /\ listening' = TRUE
    /\ pc' = [p \in Peers |-> "absent"]
    /\ has' = [p \in Peers |-> {}]
    /\ choked' = [p \in Peers |-> TRUE]
    /\ bitfield' = [p \in Peers |-> FALSE]
    /\ current' = [p \in Peers |-> NoPiece]
    /\ guard' = [p \in Peers |-> NoPiece]
    /\ piece' = [p \in Peers |-> NoPiece]

StartUnverified ==   \* mutant
    /\ phase = "stopped" /\ runs < MaxRuns
    /\ runs' = runs + 1
    /\ states' = [i \in Pieces |-> "needed"]
    /\ phase' = "running" /\ outcome' = "none"
    /\ Forget
    /\ UNCHANGED diskVars

\* read_piece finds the whole piece in the files, and it has its hash.
Verified(i) == store[i]

\* The pieces whose data on disk has its hash are done; if all are, the run is
\* over.
Start ==
    /\ phase = "stopped" /\ runs < MaxRuns
    /\ runs' = runs + 1
    /\ states' = [i \in Pieces |-> IF Verified(i) THEN "done" ELSE "needed"]
    /\ IF \A i \in Pieces : Verified(i)
       THEN phase' = "stopped" /\ outcome' = "ok"
       ELSE phase' = "running" /\ outcome' = "none"
    /\ Forget
    /\ UNCHANGED diskVars

\* The loop is left: every task is aborted, and download() looks at the manager
\* once more to tell what became of the run.
Leave ==
    /\ Release(Peers)
    /\ phase' = "exiting"
    /\ outcome' = IF \A i \in Pieces : states'[i] = "done" THEN "ok" ELSE "incomplete"
    /\ pc' = [p \in Peers |-> IF pc[p] = "absent" THEN "absent" ELSE "joined"]
    /\ UNCHANGED <<diskVars, runs, mainVars, pex, has, choked, bitfield, piece>>

ExitAtOnce ==   \* mutant
    /\ phase = "exiting"
    /\ phase' = "stopped"
    /\ buffered' = {}
    /\ Forget
    /\ UNCHANGED <<store, outcome, runs, states>>

\* The runtime finishes the writes that were handed to it, and main returns.
Exit ==
    /\ phase = "exiting" /\ buffered = {}
    /\ phase' = "stopped"
    /\ Forget
    /\ UNCHANGED <<diskVars, outcome, runs, states>>

Kill ==
    /\ "kill" \in Faults
    /\ phase # "stopped"
    /\ phase' = "stopped" /\ outcome' = "killed"
    /\ buffered' = {}
    /\ Forget
    /\ UNCHANGED <<store, runs, states>>

\* The blocking pool performs a buffered write.
Lands(i) ==
    /\ i \in buffered
    /\ buffered' = buffered \ {i}
    /\ store' = [store EXCEPT ![i] = TRUE]
    /\ UNCHANGED <<runVars, mainVars, pex, pc, has, choked, bitfield, pieceVars, piece>>

LandFails(i) ==
    /\ "lateWrite" \in Faults
    /\ i \in buffered
    /\ buffered' = buffered \ {i}
    /\ UNCHANGED <<store, runVars, mainVars, pex, pc, has, choked, bitfield, pieceVars, piece>>
-----------------------------------------------------------------------------
(***************************************************************************)
(* The loop of run_download_stream and the discovery tasks.                *)
(***************************************************************************)
ActiveConnected == {p \in Peers : pc[p] \notin {"absent", "connect", "joined"}}  \* mutant

Active == {p \in Peers : pc[p] \notin {"absent", "joined"}}  \* the JoinSet

Top ==
    /\ phase = "running" /\ main = "top"
    /\ ~IsComplete
    /\ LET queue == pending \union (pex \ seen)
           free  == MaxActive - Cardinality(Active)
       IN  \E S \in SUBSET queue :
              /\ Cardinality(S) <= free
              /\ S # queue => Cardinality(S) = free
              /\ pending' = queue \ S
              /\ pc' = [p \in Peers |-> IF p \in S THEN "connect" ELSE pc[p]]
    /\ seen' = seen \union pex
    /\ pex' = {}
    /\ main' = "select"
    /\ UNCHANGED <<diskVars, runVars, chan, open, listening, has, choked, bitfield,
                   pieceVars, piece>>

\* The test at the head of the loop, and the one after a task was joined.
LeaveComplete == phase = "running" /\ main = "top" /\ IsComplete /\ Leave

Receive(p) ==
    /\ phase = "running" /\ main = "select" /\ listening
    /\ p \in chan
    /\ chan' = chan \ {p}
    /\ pending' = IF p \in seen THEN pending ELSE pending \union {p}
    /\ seen' = seen \union {p}
    /\ main' = "top"
    /\ UNCHANGED <<diskVars, runVars, pex, open, listening, pc, has, choked, bitfield,
                   pieceVars, piece>>

ChannelCloses ==
    /\ phase = "running" /\ main = "select" /\ listening
    /\ chan = {} /\ ~open
    /\ listening' = FALSE
    /\ main' = "top"
    /\ UNCHANGED <<diskVars, runVars, seen, pending, pex, chan, open, pc, has, choked,
                   bitfield, pieceVars, piece>>

JoinWithoutLoop(p) ==   \* mutant
    /\ phase = "running" /\ main = "select"
    /\ pc[p] = "ended"
    /\ Goto(p, "joined")
    /\ UNCHANGED <<diskVars, runVars, mainVars, pex, has, choked, bitfield, pieceVars, piece>>

Join(p) ==
    /\ phase = "running" /\ main = "select"
    /\ pc[p] = "ended"
    /\ Goto(p, "joined")
    /\ main' = "top"
    /\ UNCHANGED <<diskVars, runVars, seen, pending, chan, open, listening, pex, has,
                   choked, bitfield, pieceVars, piece>>

\* select!'s else: nothing to listen to and nothing to join.
NothingLeft ==
    /\ phase = "running" /\ main = "select"
    /\ ~listening /\ Active = {}
    /\ Leave

\* A tracker or the DHT found the address, perhaps once more.
Announce(p) ==
    /\ phase = "running" /\ open
    /\ Cardinality(chan) < MaxChan
    /\ chan' = chan \union {p}
    /\ UNCHANGED <<diskVars, runVars, main, seen, pending, open, listening, pex, pc, has,
                   choked, bitfield, pieceVars, piece>>

\* The trackers have answered and the DHT task is gone.
DiscoveryEnds ==
    /\ "dht" \in Faults
    /\ phase = "running" /\ open
    /\ open' = FALSE
    /\ UNCHANGED <<diskVars, runVars, main, seen, pending, chan, listening, pex, pc, has,
                   choked, bitfield, pieceVars, piece>>
-----------------------------------------------------------------------------
(***************************************************************************)
(* The task of a peer: peer::run.                                          *)
(***************************************************************************)
\* Connected, shook hands, told the peer that we are interested.
Connect(p) ==
    /\ phase = "running" /\ pc[p] = "connect"
    /\ Goto(p, "top")
    /\ UNCHANGED <<diskVars, runVars, mainVars, pex, has, choked, bitfield, pieceVars, piece>>

\* The head of the loop: return when the download is complete, else read.
PeerTop(p) ==
    /\ phase = "running" /\ pc[p] = "top"
    /\ Goto(p, IF IsComplete THEN "ended" ELSE "read")
    /\ UNCHANGED <<diskVars, runVars, mainVars, pex, has, choked, bitfield, pieceVars, piece>>

DropUnguarded(p) ==   \* mutant
    /\ "net" \in Faults
    /\ phase = "running" /\ pc[p] \in {"connect", "top", "read"}
    /\ current' = [current EXCEPT ![p] = NoPiece]
    /\ guard' = [guard EXCEPT ![p] = NoPiece]
    /\ Goto(p, "ended")
    /\ UNCHANGED <<diskVars, runVars, mainVars, pex, has, choked, bitfield, states, piece>>

\* A timeout, a read or write error, a slow peer: the task returns Err and
\* its guard is dropped.
Drop(p) ==
    /\ "net" \in Faults
    /\ phase = "running" /\ pc[p] \in {"connect", "top", "read"}
    /\ Release({p})
    /\ Goto(p, "ended")
    /\ UNCHANGED <<diskVars, runVars, mainVars, pex, has, choked, bitfield, piece>>

Reading(p) == phase = "running" /\ pc[p] = "read"

Choke(p) ==
    /\ "choke" \in Faults
    /\ Reading(p)
    /\ choked' = [choked EXCEPT ![p] = TRUE]
    /\ Goto(p, "top")
    /\ UNCHANGED <<diskVars, runVars, mainVars, pex, has, bitfield, pieceVars, piece>>

Unchoke(p) ==
    /\ Reading(p)
    /\ choked' = [choked EXCEPT ![p] = FALSE]
    /\ TryStart(p, has[p])
    /\ Goto(p, IF current'[p] = NoPiece /\ bitfield[p] THEN "check" ELSE "top")
    /\ UNCHANGED <<diskVars, runVars, mainVars, pex, has, bitfield, piece>>

Have(p, i) ==
    /\ "trickle" \in Faults
    /\ Reading(p)
    /\ i \in Holds[p]
    /\ has' = [has EXCEPT ![p] = @ \union {i}]
    /\ IF choked[p] THEN UNCHANGED pieceVars ELSE TryStart(p, has'[p])
    /\ Goto(p, "top")
    /\ UNCHANGED <<diskVars, runVars, mainVars, pex, choked, bitfield, piece>>

Bitfield(p, S) ==
    /\ Reading(p)
    /\ S \subseteq Holds[p]
    /\ "trickle" \notin Faults => S = Holds[p]
    /\ has' = [has EXCEPT ![p] = S]
    /\ bitfield' = [bitfield EXCEPT ![p] = TRUE]
    /\ IF choked[p] THEN UNCHANGED pieceVars ELSE TryStart(p, S)
    /\ Goto(p, IF current'[p] = NoPiece /\ ~choked[p] THEN "check" ELSE "top")
    /\ UNCHANGED <<diskVars, runVars, mainVars, pex, choked, piece>>

\* has_needed_for, under another lock than the try_start before it.
Check(p) ==
    /\ phase = "running" /\ pc[p] = "check"
    /\ Goto(p, IF Wanted(has[p]) = {} THEN "ended" ELSE "top")
    /\ UNCHANGED <<diskVars, runVars, mainVars, pex, has, choked, bitfield, pieceVars, piece>>

\* PEX: a peer tells of another.
Gossip(p, q) ==
    /\ "pex" \in Faults
    /\ Reading(p)
    /\ pex' = pex \union {q}
    /\ Goto(p, "top")
    /\ UNCHANGED <<diskVars, runVars, mainVars, has, choked, bitfield, pieceVars, piece>>

PieceCompleteGuarded(p) ==   \* mutant
    /\ Reading(p) /\ current[p] # NoPiece
    /\ piece' = [piece EXCEPT ![p] = current[p]]
    /\ current' = [current EXCEPT ![p] = NoPiece]
    /\ Goto(p, "write")
    /\ UNCHANGED <<diskVars, runVars, mainVars, pex, has, choked, bitfield, states, guard>>

PieceCompleteMarksFirst(p) ==   \* mutant
    /\ Reading(p) /\ current[p] # NoPiece
    /\ piece' = [piece EXCEPT ![p] = current[p]]
    /\ current' = [current EXCEPT ![p] = NoPiece]
    /\ guard' = [guard EXCEPT ![p] = NoPiece]
    /\ Goto(p, "mark")
    /\ UNCHANGED <<diskVars, runVars, mainVars, pex, has, choked, bitfield, states>>

\* The last missing block arrives: the piece leaves current and the guard, and
\* its hash is compared.  Which blocks were asked for is left out: a piece whose
\* requests the peer discarded in a choke, which are not sent again, may complete
\* here and would not in the code, so that nothing may be concluded from its
\* completing (BlockPipeline has the requests).
PieceComplete(p) ==
    /\ Reading(p) /\ current[p] # NoPiece
    /\ piece' = [piece EXCEPT ![p] = current[p]]
    /\ current' = [current EXCEPT ![p] = NoPiece]
    /\ guard' = [guard EXCEPT ![p] = NoPiece]
    /\ \/ Goto(p, "write")
       \/ "corrupt" \in Faults /\ Goto(p, "failed")
    /\ UNCHANGED <<diskVars, runVars, mainVars, pex, has, choked, bitfield, states>>

\* FileWriter::write_piece returns Ok when the data is in the handle's buffer.
WritePiece(p) ==
    /\ phase = "running" /\ pc[p] = "write"
    /\ buffered' = buffered \union {piece[p]}
    /\ Goto(p, "mark")
    /\ UNCHANGED <<store, runVars, mainVars, pex, has, choked, bitfield, pieceVars, piece>>

\* The `?` of write_piece: the task is gone and nobody resets the piece.
WriteError(p) ==
    /\ "write" \in Faults
    /\ phase = "running" /\ pc[p] = "write"
    /\ piece' = [piece EXCEPT ![p] = NoPiece]
    /\ Goto(p, "ended")
    /\ UNCHANGED <<diskVars, runVars, mainVars, pex, has, choked, bitfield, pieceVars>>

SettleUnverified(p) ==   \* mutant
    /\ phase = "running" /\ pc[p] \in {"mark", "failed"}
    /\ states' = [states EXCEPT ![piece[p]] = "done"]
    /\ piece' = [piece EXCEPT ![p] = NoPiece]
    /\ Goto(p, "next")
    /\ UNCHANGED <<diskVars, runVars, mainVars, pex, has, choked, bitfield, current, guard>>

SettleForgotten(p) ==   \* mutant
    /\ phase = "running" /\ pc[p] \in {"mark", "failed"}
    /\ states' = IF pc[p] = "mark" THEN [states EXCEPT ![piece[p]] = "done"] ELSE states
    /\ piece' = [piece EXCEPT ![p] = NoPiece]
    /\ Goto(p, "next")
    /\ UNCHANGED <<diskVars, runVars, mainVars, pex, has, choked, bitfield, current, guard>>

\* piece_done or piece_failed.
Settle(p) ==
    /\ phase = "running" /\ pc[p] \in {"mark", "failed"}
    /\ states' = [states EXCEPT ![piece[p]] = IF pc[p] = "mark" THEN "done" ELSE "needed"]
    /\ piece' = [piece EXCEPT ![p] = NoPiece]
    /\ Goto(p, "next")
    /\ UNCHANGED <<diskVars, runVars, mainVars, pex, has, choked, bitfield, current, guard>>

\* After a piece: the next one, also when we are choked, or return Ok.
NextOne(p) ==
    /\ phase = "running" /\ pc[p] = "next"
    /\ TryStart(p, has[p])
    /\ Goto(p, IF current'[p] = NoPiece THEN "ended" ELSE "top")
    /\ UNCHANGED <<diskVars, runVars, mainVars, pex, has, choked, bitfield, piece>>
-----------------------------------------------------------------------------
PeerStep(p) ==
    \/ Connect(p) \/ PeerTop(p) \/ Check(p)
    \/ WritePiece(p) \/ Settle(p) \/ NextOne(p)

Message(p) ==
    \/ Choke(p) \/ Unchoke(p)
    \/ \E i \in Pieces : Have(p, i)
    \/ \E S \in SUBSET Pieces : Bitfield(p, S)
    \/ \E q \in Peers : Gossip(p, q)
    \/ PieceComplete(p)

MainStep == Start \/ Top \/ LeaveComplete \/ ChannelCloses \/ NothingLeft \/ Exit

\* The user does not start the program again.
GiveUp == phase = "stopped" /\ runs = MaxRuns /\ UNCHANGED vars

Next ==
    \/ MainStep
    \/ \E p \in Peers :
        \/ Receive(p) \/ Join(p) \/ Announce(p)
        \/ PeerStep(p) \/ Message(p) \/ Drop(p) \/ WriteError(p)
    \/ \E i \in Pieces : Lands(i) \/ LandFails(i)
    \/ DiscoveryEnds \/ Kill
    \/ GiveUp

Spec == Init /\ [][Next]_vars

\* The scheduler runs every task; select! picks among its ready branches at
\* random; a peer tells its pieces and unchokes us once, and answers requests.
\* Discovery finds every peer again and again, as the DHT task never stops.
\* For instances without the fault "choke": the requests a choke discards are not
\* sent again, and then no answer is owed.
FairSpec ==
    /\ Spec
    /\ WF_vars(MainStep)
    /\ WF_vars(\E i \in Pieces : Lands(i))
    /\ SF_vars(\E p \in Peers : Receive(p))
    /\ SF_vars(\E p \in Peers : Join(p))
    /\ SF_vars(\E p \in Peers \ seen : Announce(p))
    /\ \A p \in Peers :
        /\ WF_vars(PeerStep(p))
        /\ SF_vars(~bitfield[p] /\ Bitfield(p, Holds[p]))
        /\ SF_vars(choked[p] /\ Unchoke(p))
        /\ SF_vars(PieceComplete(p) /\ Goto(p, "write"))
-----------------------------------------------------------------------------
(***************************************************************************)
(* Properties.                                                             *)
(***************************************************************************)
\* The pieces the task of p answers for: reserved, or complete and not settled.
Held(p) == {guard[p], piece[p]} \ {NoPiece}

\* No two tasks fetch the same piece (next_piece under the manager's lock, and
\* what each task gives back when it ends).
OwnedOnce == \A p, q \in Peers : p # q => Held(p) \intersect Held(q) = {}

\* A piece that counts as being downloaded is some live task's: it comes back
\* when that task ends, however it ends (PieceGuard, and the stretch of
\* peer::run between `guard.index = None` and piece_done or piece_failed).
NoPieceStranded ==
    phase = "running" =>
        \A i \in Pieces : states[i] = "downloading" =>
            \E p \in Peers : i \in Held(p) /\ pc[p] \notin {"ended", "joined"}

\* Within a run, done is for good: no guard dropped late, by a task's error or
\* by abort_all, makes a stored piece needed again, so the loop and download()
\* cannot disagree on whether the download is complete.
DonePermanent ==
    [][phase = "running" /\ phase' # "stopped" =>
        \A i \in Pieces : states[i] = "done" => states'[i] = "done"]_vars

\* A piece is done only if its verified data is on disk or handed to the disk
\* (the order of write_piece and piece_done in peer::run).
DoneIsWritten ==
    phase # "stopped" =>
        \A i \in Pieces : states[i] = "done" => store[i] \/ i \in buffered

\* Only pieces that are missing or corrupt on disk are ever fetched: a piece
\* with its hash on disk is not needed and nobody is downloading it, but for
\* the moment between its write and piece_done.
StoredNotFetched ==
    phase = "running" =>
        \A i \in Pieces : store[i] \/ i \in buffered =>
            states[i] = "done" \/ \E p \in Peers : pc[p] = "mark" /\ piece[p] = i

\* When the program has ended with success every piece is on disk with its hash.
SuccessOnDisk == phase = "stopped" /\ outcome = "ok" => \A i \in Pieces : store[i]

\* The loop gives up only when every address it ever got was tried: none is in
\* the channel, in the PEX queue or pending, although PEX addresses are moved
\* to the pending queue at the head of the loop only.
GaveUpTriedAll ==
    phase = "exiting" /\ outcome = "incomplete" =>
        chan \union pex \union pending = {} /\ \A p \in seen : pc[p] = "joined"

\* No more connections than max_concurrent, ended tasks not yet joined included.
ActiveBounded == Cardinality({p \in Peers : pc[p] \notin {"absent", "joined"}}) <= MaxActive

\* PieceManager, its guards and the tasks implement the PiecePool.  Between
\* runs the pool is what a new run will find on disk.
OnDisk == {i \in Pieces : store[i]}

PoolState ==
    [i \in Pieces |-> IF phase = "stopped"
                      THEN IF i \in OnDisk THEN "done" ELSE "needed"
                      ELSE states[i]]

Owner(i) == CHOOSE p \in Peers : i \in Held(p)

PoolOwner ==
    [i \in Pieces |-> IF \E p \in Peers : i \in Held(p) THEN Owner(i) ELSE Nobody]

Pool == INSTANCE PiecePool WITH
    Workers <- Peers,
    state   <- PoolState,
    owner   <- PoolOwner,
    written <- OnDisk \union buffered

\* Every step of the swarm is a step of the pool or leaves it alone: pieces are
\* taken, given back, stored and finished by one owner, in that order.
ImplementsPool == Pool!Spec

\* With peers that stay, do not choke us again and have every piece between them,
\* the download completes, though pieces fail their hash: no task leaves, or waits,
\* for a piece only it could fetch (try_start, has_needed_for, piece_failed).
Completes == <>(phase = "stopped" /\ outcome = "ok")
=============================================================================
