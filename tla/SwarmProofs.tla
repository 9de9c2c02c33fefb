---------------------------- MODULE SwarmProofs ----------------------------
(***************************************************************************)
(* Proofs about PeerSwarm: ownership of pieces in every environment; and,  *)
(* where disk writes do not fail, that done pieces are written, that       *)
(* PeerSwarm implements PiecePool, and that no piece is stranded.          *)
(***************************************************************************)
EXTENDS SwarmInvariant, FiniteSetTheorems, TLAPS

USE DEF Pieces

-----------------------------------------------------------------------------
(***************************************************************************)
(* Types.                                                                  *)
(***************************************************************************)
\* Adding an address to a channel that is not full, or taking one out, keeps
\* it within its capacity.
LEMMA ChannelFits ==
    ASSUME NEW S \in SUBSET Peers, Cardinality(S) <= MaxChan, NEW p \in Peers
    PROVE  /\ Cardinality(S \ {p}) <= MaxChan
           /\ Cardinality(S) < MaxChan => Cardinality(S \union {p}) <= MaxChan
  <1>1. IsFiniteSet(S)
    BY SwarmConstants, FS_Subset
  <1>2. Cardinality(S) \in Nat
    BY <1>1, FS_CardinalityType
  <1>3. Cardinality(S \ {p}) = IF p \in S THEN Cardinality(S) - 1 ELSE Cardinality(S)
    BY <1>1, FS_RemoveElement
  <1>4. Cardinality(S \union {p}) = IF p \in S THEN Cardinality(S) ELSE Cardinality(S) + 1
    BY <1>1, FS_AddElement
  <1> QED
    BY <1>2, <1>3, <1>4, SwarmConstants

LEMMA EmptyChannel == Cardinality({}) = 0
  BY FS_EmptySet

LEMMA TypeInit == Init => TypeOK
  BY EmptyChannel, SwarmConstants DEF Init, TypeOK

LEMMA TypeForget ==
    ASSUME TypeOK, Forget
    PROVE  /\ main' \in {"top", "select"}
           /\ seen' \subseteq Peers /\ pending' \subseteq Peers /\ pex' \subseteq Peers
           /\ chan' \subseteq Peers /\ Cardinality(chan') <= MaxChan
           /\ open' \in BOOLEAN /\ listening' \in BOOLEAN
           /\ pc' \in [Peers -> {"absent", "connect", "top", "read", "check", "write",
                                 "mark", "failed", "next", "ended", "joined"}]
           /\ has' \in [Peers -> SUBSET Pieces]
           /\ choked' \in [Peers -> BOOLEAN] /\ bitfield' \in [Peers -> BOOLEAN]
           /\ current' \in [Peers -> Pieces \union {NoPiece}]
           /\ guard' \in [Peers -> Pieces \union {NoPiece}]
           /\ piece' \in [Peers -> Pieces \union {NoPiece}]
  BY EmptyChannel, SwarmConstants DEF Forget

LEMMA TypeRun ==
    ASSUME TypeOK, Start \/ Exit \/ Kill
    PROVE  TypeOK'
  <1>1. CASE Start
    BY <1>1, TypeForget, SwarmConstants DEF Start, Verified, TypeOK, diskVars
  <1>2. CASE Exit
    BY <1>2, TypeForget DEF Exit, TypeOK, diskVars
  <1>3. CASE Kill
    BY <1>3, TypeForget DEF Kill, TypeOK
  <1> QED
    BY <1>1, <1>2, <1>3

LEMMA TypeRelease ==
    ASSUME TypeOK, NEW S \in SUBSET Peers, Release(S)
    PROVE  /\ states' \in [Pieces -> {"needed", "downloading", "done"}]
           /\ guard' \in [Peers -> Pieces \union {NoPiece}]
           /\ current' \in [Peers -> Pieces \union {NoPiece}]
  BY DEF Release, TypeOK

LEMMA TypeTryStart ==
    ASSUME TypeOK, NEW p \in Peers, NEW have \in SUBSET Pieces, TryStart(p, have)
    PROVE  /\ states' \in [Pieces -> {"needed", "downloading", "done"}]
           /\ guard' \in [Peers -> Pieces \union {NoPiece}]
           /\ current' \in [Peers -> Pieces \union {NoPiece}]
  <1>1. CASE UNCHANGED pieceVars
    BY <1>1 DEF pieceVars, TypeOK
  <1>2. ASSUME NEW i \in NextPiece(have),
               states' = [states EXCEPT ![i] = "downloading"],
               current' = [current EXCEPT ![p] = i],
               guard' = [guard EXCEPT ![p] = i]
        PROVE  /\ states' \in [Pieces -> {"needed", "downloading", "done"}]
               /\ guard' \in [Peers -> Pieces \union {NoPiece}]
               /\ current' \in [Peers -> Pieces \union {NoPiece}]
    <2>1. i \in Pieces
      BY DEF NextPiece, Wanted
    <2> QED
      BY <1>2, <2>1 DEF TypeOK
  <1> QED
    BY <1>1, <1>2 DEF TryStart

LEMMA TypeMain ==
    ASSUME TypeOK,
           Top \/ LeaveComplete \/ ChannelCloses \/ NothingLeft \/ DiscoveryEnds
           \/ \E p \in Peers : Receive(p) \/ Join(p) \/ Announce(p)
    PROVE  TypeOK'
  <1>1. CASE Top
    <2>1. pending' \subseteq Peers /\ seen' \subseteq Peers
      BY <1>1 DEF Top, TypeOK
    <2>2. pc' \in [Peers -> {"absent", "connect", "top", "read", "check", "write",
                             "mark", "failed", "next", "ended", "joined"}]
      BY <1>1 DEF Top, TypeOK
    <2> QED
      BY <1>1, <2>1, <2>2 DEF Top, TypeOK, diskVars, runVars, pieceVars
  <1>2. CASE LeaveComplete \/ NothingLeft
    <2>1. Leave
      BY <1>2 DEF LeaveComplete, NothingLeft
    <2>2. pc' \in [Peers -> {"absent", "connect", "top", "read", "check", "write",
                             "mark", "failed", "next", "ended", "joined"}]
      BY <2>1 DEF Leave, TypeOK
    <2> QED
      BY <2>1, <2>2, TypeRelease DEF Leave, TypeOK, diskVars, mainVars
  <1>3. CASE ChannelCloses \/ DiscoveryEnds
    BY <1>3 DEF ChannelCloses, DiscoveryEnds, TypeOK, diskVars, runVars, pieceVars
  <1>4. ASSUME NEW p \in Peers, Receive(p) \/ Announce(p)
        PROVE  TypeOK'
    BY <1>4, ChannelFits DEF Receive, Announce, TypeOK, diskVars, runVars, pieceVars
  <1>5. ASSUME NEW p \in Peers, Join(p)
        PROVE  TypeOK'
    BY <1>5 DEF Join, Goto, TypeOK, diskVars, runVars, pieceVars
  <1> QED
    BY <1>1, <1>2, <1>3, <1>4, <1>5

LEMMA TypePeer ==
    ASSUME TypeOK, TaskShape, NEW p \in Peers,
           PeerStep(p) \/ Message(p) \/ Drop(p) \/ WriteError(p)
    PROVE  TypeOK'
  <1> USE DEF Goto, diskVars, runVars, mainVars
  <1>1. CASE Connect(p) \/ PeerTop(p) \/ Check(p) \/ Choke(p) \/ WriteError(p)
    BY <1>1, SwarmConstants DEF TypeOK, Connect, PeerTop, Check, Choke, WriteError, pieceVars
  <1>2. CASE WritePiece(p)
    <2>1. piece[p] \in Pieces
      BY <1>2 DEF TypeOK, TaskShape, WritePiece
    <2> QED
      BY <1>2, <2>1 DEF TypeOK, WritePiece, pieceVars
  <1>3. CASE Settle(p)
    BY <1>3, SwarmConstants DEF TypeOK, Settle
  <1>4. CASE NextOne(p)
    <2>1. has[p] \in SUBSET Pieces
      BY DEF TypeOK
    <2> QED
      BY <1>4, <2>1, TypeTryStart DEF TypeOK, NextOne
  <1>5. CASE Unchoke(p)
    <2>1. has[p] \in SUBSET Pieces
      BY DEF TypeOK
    <2> QED
      BY <1>5, <2>1, TypeTryStart DEF TypeOK, Unchoke, Reading
  <1>6. ASSUME NEW i \in Pieces, Have(p, i)
        PROVE  TypeOK'
    <2>1. has' \in [Peers -> SUBSET Pieces]
      BY <1>6 DEF TypeOK, Have
    <2>2. \/ UNCHANGED pieceVars
          \/ TryStart(p, has'[p]) /\ has'[p] \in SUBSET Pieces
      BY <1>6, <2>1 DEF Have
    <2>3. /\ states' \in [Pieces -> {"needed", "downloading", "done"}]
          /\ guard' \in [Peers -> Pieces \union {NoPiece}]
          /\ current' \in [Peers -> Pieces \union {NoPiece}]
      BY <2>2, TypeTryStart DEF pieceVars, TypeOK
    <2> QED
      BY <1>6, <2>1, <2>3 DEF TypeOK, Have, Reading
  <1>7. ASSUME NEW S \in SUBSET Pieces, Bitfield(p, S)
        PROVE  TypeOK'
    <2>1. /\ states' \in [Pieces -> {"needed", "downloading", "done"}]
          /\ guard' \in [Peers -> Pieces \union {NoPiece}]
          /\ current' \in [Peers -> Pieces \union {NoPiece}]
      BY <1>7, TypeTryStart DEF Bitfield, pieceVars, TypeOK
    <2> QED
      BY <1>7, <2>1 DEF TypeOK, Bitfield, Reading
  <1>8. ASSUME NEW q \in Peers, Gossip(p, q)
        PROVE  TypeOK'
    BY <1>8 DEF TypeOK, Gossip, Reading, pieceVars
  <1>9. CASE PieceComplete(p)
    BY <1>9, SwarmConstants DEF TypeOK, PieceComplete, Reading
  <1>10. CASE Drop(p)
    BY <1>10, TypeRelease DEF TypeOK, Drop
  <1> QED
    BY <1>1, <1>2, <1>3, <1>4, <1>5, <1>6, <1>7, <1>8, <1>9, <1>10
    DEF PeerStep, Message

LEMMA TypeStep == TypeOK /\ TaskShape /\ [Next]_vars => TypeOK'
  <1> SUFFICES ASSUME TypeOK, TaskShape, [Next]_vars
               PROVE  TypeOK'
    OBVIOUS
  <1>1. CASE UNCHANGED vars \/ GiveUp
    BY <1>1 DEF TypeOK, GiveUp, vars, diskVars, runVars, mainVars, pieceVars
  <1>2. ASSUME NEW i \in Pieces, Lands(i) \/ LandFails(i)
        PROVE  TypeOK'
    BY <1>2 DEF TypeOK, Lands, LandFails, runVars, mainVars, pieceVars
  <1> QED
    BY <1>1, <1>2, TypeRun, TypeMain, TypePeer DEF Next, MainStep

-----------------------------------------------------------------------------
(***************************************************************************)
(* Ownership, and what it means for the data on disk, in every             *)
(* environment.                                                            *)
(***************************************************************************)
LEMMA HeldIs ==
    ASSUME NEW p \in Peers, NEW i \in Pieces
    PROVE  i \in Held(p) <=> guard[p] = i \/ piece[p] = i
  BY SwarmConstants DEF Held

\* What is owned and not about to be marked is not on disk.
LEMMA OwnedMissing ==
    ASSUME TypeOK, Owned, phase = "running",
           NEW p \in Peers, NEW i \in Held(p), pc[p] # "mark"
    PROVE  ~store[i] /\ i \notin buffered
  <1>1. i \in Pieces /\ states[i] = "downloading"
    BY DEF TypeOK, Owned, Held, HeldDownloading
  <1>2. ASSUME NEW q \in Peers, pc[q] = "mark", piece[q] = i
        PROVE  FALSE
    <2>1. i \in Held(q)
      BY <1>1, <1>2, HeldIs
    <2> QED
      BY <1>2, <2>1 DEF Owned, OwnedOnce
  <1> QED
    BY <1>1, <1>2 DEF Owned, StoredNotFetched

\* Steps that move tasks from place to place and leave the pieces alone.
Moves ==
    /\ UNCHANGED <<states, current, guard, piece, store, buffered, phase, outcome>>
    /\ \A q \in Peers :
        \/ pc'[q] = pc[q]
        \/ /\ pc[q] \notin {"write", "mark", "failed"}
           /\ pc'[q] \notin {"write", "mark", "failed"}
           /\ guard[q] # NoPiece => pc'[q] \in {"top", "read"}

LEMMA OwnedMoves ==
    ASSUME Owned, Moves
    PROVE  Owned'
  <1>1. TaskShape'
    BY DEF Owned, Moves, TaskShape
  <1>2. HeldDownloading' /\ OwnedOnce'
    BY DEF Owned, Moves, HeldDownloading, OwnedOnce, Held
  <1>3. StoredNotFetched' /\ NothingBuffered'
    BY DEF Owned, Moves, StoredNotFetched, NothingBuffered
  <1> QED
    BY <1>1, <1>2, <1>3 DEF Owned

\* A task that may have reserved a piece, and where it goes then.
Took(p) ==
    /\ phase = "running"
    /\ UNCHANGED <<piece, store, buffered, phase>>
    /\ pc[p] \in {"read", "next"}
    /\ \E stage \in {"top", "check", "ended"} :
        /\ pc' = [pc EXCEPT ![p] = stage]
        /\ current'[p] # NoPiece => stage = "top"
    /\ current[p] = NoPiece
    /\ \E i \in Pieces :
        /\ states[i] = "needed"
        /\ states' = [states EXCEPT ![i] = "downloading"]
        /\ current' = [current EXCEPT ![p] = i]
        /\ guard' = [guard EXCEPT ![p] = i]

LEMMA OwnedTook ==
    ASSUME TypeOK, Owned, NEW p \in Peers, Took(p)
    PROVE  Owned'
  <1>1. PICK i \in Pieces :
            /\ states[i] = "needed"
            /\ states' = [states EXCEPT ![i] = "downloading"]
            /\ current' = [current EXCEPT ![p] = i]
            /\ guard' = [guard EXCEPT ![p] = i]
    BY DEF Took
  <1>2. pc' = [pc EXCEPT ![p] = "top"] /\ i # NoPiece
    BY <1>1, SwarmConstants DEF Took, TypeOK
  <1>3. TaskShape'
    BY <1>1, <1>2 DEF Owned, Took, TaskShape, TypeOK
  <1>4. /\ Held(p)' = {i}
        /\ \A q \in Peers \ {p} : Held(q)' = Held(q)
    BY <1>1, <1>2 DEF Owned, Took, TaskShape, TypeOK, Held
  <1>5. \A q \in Peers : i \notin Held(q)
    BY <1>1 DEF Owned, HeldDownloading
  <1>6. HeldDownloading'
    <2> SUFFICES ASSUME NEW q \in Peers, NEW j \in Held(q)'
                 PROVE  states'[j] = "downloading"
      BY DEF HeldDownloading
    <2>1. CASE q = p
      BY <1>1, <1>4, <2>1 DEF TypeOK
    <2>2. CASE q # p
      <3>1. j \in Held(q)
        BY <1>4, <2>2
      <3>2. j \in Pieces
        BY <3>1 DEF Held, TypeOK
      <3> QED
        BY <1>1, <3>1, <3>2 DEF Owned, HeldDownloading, TypeOK
    <2> QED
      BY <2>1, <2>2
  <1>7. OwnedOnce'
    BY <1>4, <1>5 DEF Owned, OwnedOnce
  <1>8. StoredNotFetched'
    <2>1. ~store[i] /\ i \notin buffered
      <3>1. ASSUME NEW q \in Peers, pc[q] = "mark", piece[q] = i
            PROVE  FALSE
        BY <1>1, <1>5, <3>1, HeldIs
      <3> QED
        BY <1>1, <3>1 DEF Owned, StoredNotFetched, Took
    <2> QED
      BY <1>1, <1>2, <2>1 DEF Owned, StoredNotFetched, Took, TypeOK
  <1> QED
    BY <1>3, <1>6, <1>7, <1>8 DEF Owned, Took, NothingBuffered

LEMMA OwnedDrop ==
    ASSUME TypeOK, Owned, NEW p \in Peers, Drop(p)
    PROVE  Owned'
  <1>1. /\ states' = [i \in Pieces |-> IF guard[p] = i THEN "needed" ELSE states[i]]
        /\ guard' = [q \in Peers |-> IF q = p THEN NoPiece ELSE guard[q]]
        /\ current' = [q \in Peers |-> IF q = p THEN NoPiece ELSE current[q]]
        /\ pc' = [pc EXCEPT ![p] = "ended"]
        /\ pc[p] \in {"connect", "top", "read"}
        /\ UNCHANGED <<piece, store, buffered, phase>> /\ phase = "running"
    BY DEF Drop, Release, Goto, diskVars, runVars
  <1>2. piece[p] = NoPiece
    BY <1>1 DEF Owned, TaskShape
  <1>3. TaskShape'
    BY <1>1, <1>2 DEF Owned, TaskShape, TypeOK
  <1>4. Held(p)' = {} /\ \A q \in Peers \ {p} : Held(q)' = Held(q)
    BY <1>1, <1>2 DEF Held
  <1>5. OwnedOnce'
    BY <1>4 DEF Owned, OwnedOnce
  <1>6. HeldDownloading'
    <2> SUFFICES ASSUME NEW q \in Peers, NEW j \in Held(q)'
                 PROVE  states'[j] = "downloading"
      BY DEF HeldDownloading
    <2>1. q # p /\ j \in Held(q) /\ j \in Pieces
      BY <1>4 DEF Held, TypeOK
    <2>2. j # guard[p]
      BY <2>1, HeldIs DEF Owned, OwnedOnce
    <2> QED
      BY <1>1, <2>1, <2>2 DEF Owned, HeldDownloading
  <1>7. StoredNotFetched'
    <2> SUFFICES ASSUME NEW i \in Pieces, store[i] \/ i \in buffered
                 PROVE  states'[i] = "done" \/ \E q \in Peers : pc'[q] = "mark" /\ piece[q] = i
      BY <1>1 DEF StoredNotFetched
    <2>1. guard[p] # i
      BY <1>1, OwnedMissing, HeldIs
    <2>2. \A q \in Peers : pc[q] = "mark" => pc'[q] = "mark"
      BY <1>1 DEF TypeOK
    <2> QED
      BY <1>1, <2>1, <2>2 DEF Owned, StoredNotFetched
  <1> QED
    BY <1>1, <1>3, <1>5, <1>6, <1>7 DEF Owned, NothingBuffered

\* When the loop is left nobody holds anything, so abort_all releases nothing.
LEMMA NobodyHolds ==
    ASSUME TypeOK, Owned, LeaveComplete \/ NothingLeft
    PROVE  \A p \in Peers : guard[p] = NoPiece /\ piece[p] = NoPiece
  <1>1. CASE LeaveComplete
    <2> SUFFICES ASSUME NEW p \in Peers, NEW i \in Held(p)
                 PROVE  FALSE
      BY DEF Held
    <2>1. i \in Pieces
      BY DEF Held, TypeOK
    <2> QED
      BY <1>1, <2>1 DEF LeaveComplete, IsComplete, Owned, HeldDownloading
  <1>2. CASE NothingLeft
    BY <1>2 DEF NothingLeft, Active, Owned, TaskShape
  <1> QED
    BY <1>1, <1>2

LEMMA LeaveKeeps ==
    ASSUME TypeOK, Owned, LeaveComplete \/ NothingLeft
    PROVE  /\ UNCHANGED <<states, guard, current, piece, store, buffered>>
           /\ phase = "running" /\ phase' = "exiting"
           /\ \A p \in Peers : pc'[p] \in {"absent", "joined"}
  <1>1. Leave
    BY DEF LeaveComplete, NothingLeft
  <1>2. \A p \in Peers : guard[p] = NoPiece /\ current[p] = NoPiece
    BY NobodyHolds DEF Owned, TaskShape
  <1>3. UNCHANGED <<states, guard, current>>
    BY <1>1, <1>2, SwarmConstants DEF Leave, Release, TypeOK
  <1> QED
    BY <1>1, <1>3 DEF Leave, LeaveComplete, NothingLeft, diskVars

LEMMA OwnedLeave ==
    ASSUME TypeOK, Owned, LeaveComplete \/ NothingLeft
    PROVE  Owned'
  BY LeaveKeeps, NobodyHolds
  DEF Owned, TaskShape, HeldDownloading, OwnedOnce, NothingBuffered, StoredNotFetched, Held

LEMMA OwnedRun ==
    ASSUME TypeOK, Owned, Start \/ Exit \/ Kill
    PROVE  Owned'
  <1>1. Forget
    BY DEF Start, Exit, Kill
  <1>2. TaskShape' /\ HeldDownloading' /\ OwnedOnce'
    BY <1>1 DEF Forget, TaskShape, HeldDownloading, OwnedOnce, Held
  <1>3. NothingBuffered' /\ StoredNotFetched'
    <2>1. CASE Start
      BY <2>1 DEF Start, Verified, Owned, NothingBuffered, StoredNotFetched, diskVars
    <2>2. CASE Exit \/ Kill
      BY <2>2 DEF Exit, Kill, NothingBuffered, StoredNotFetched, diskVars
    <2> QED
      BY <2>1, <2>2
  <1> QED
    BY <1>2, <1>3 DEF Owned

LEMMA OwnedComplete ==
    ASSUME TypeOK, Owned, NEW p \in Peers, PieceComplete(p)
    PROVE  Owned'
  <1>1. PICK stage \in {"write", "failed"} : pc' = [pc EXCEPT ![p] = stage]
    BY DEF PieceComplete, Goto
  <1>2. /\ piece' = [piece EXCEPT ![p] = current[p]]
        /\ current' = [current EXCEPT ![p] = NoPiece]
        /\ guard' = [guard EXCEPT ![p] = NoPiece]
        /\ UNCHANGED <<states, store, buffered, phase>>
        /\ phase = "running" /\ pc[p] = "read" /\ current[p] # NoPiece
    BY DEF PieceComplete, Reading, diskVars, runVars
  <1>3. guard[p] = current[p] /\ piece[p] = NoPiece
    BY <1>2 DEF Owned, TaskShape
  <1>4. TaskShape'
    BY <1>1, <1>2, <1>3 DEF Owned, TaskShape, TypeOK
  <1>5. \A q \in Peers : Held(q)' = Held(q)
    BY <1>2, <1>3 DEF Held, TypeOK
  <1>6. HeldDownloading' /\ OwnedOnce' /\ NothingBuffered'
    BY <1>2, <1>5 DEF Owned, HeldDownloading, OwnedOnce, NothingBuffered
  <1>7. StoredNotFetched'
    BY <1>1, <1>2, <1>3 DEF Owned, StoredNotFetched, TypeOK
  <1> QED
    BY <1>4, <1>6, <1>7 DEF Owned

LEMMA OwnedWrite ==
    ASSUME TypeOK, Owned, NEW p \in Peers, WritePiece(p)
    PROVE  Owned'
  <1>1. /\ UNCHANGED <<states, guard, current, piece, store, phase>>
        /\ buffered' = buffered \union {piece[p]}
        /\ pc' = [pc EXCEPT ![p] = "mark"]
        /\ phase = "running" /\ pc[p] = "write"
    BY DEF WritePiece, Goto, runVars, pieceVars
  <1>2. TaskShape'
    BY <1>1 DEF Owned, TaskShape, TypeOK
  <1>3. HeldDownloading' /\ OwnedOnce' /\ NothingBuffered'
    BY <1>1 DEF Owned, HeldDownloading, OwnedOnce, NothingBuffered, Held
  <1>4. StoredNotFetched'
    BY <1>1 DEF Owned, StoredNotFetched, TypeOK
  <1> QED
    BY <1>2, <1>3, <1>4 DEF Owned

\* The task leaves, and its piece is nobody's.
LEMMA OwnedWriteError ==
    ASSUME TypeOK, Owned, NEW p \in Peers, WriteError(p)
    PROVE  Owned'
  <1>1. /\ UNCHANGED <<states, guard, current, store, buffered, phase>>
        /\ piece' = [piece EXCEPT ![p] = NoPiece]
        /\ pc' = [pc EXCEPT ![p] = "ended"]
        /\ phase = "running" /\ pc[p] = "write"
    BY DEF WriteError, Goto, diskVars, runVars, pieceVars
  <1>2. TaskShape'
    BY <1>1 DEF Owned, TaskShape, TypeOK
  <1>3. \A q \in Peers : Held(q)' \subseteq Held(q)
    BY <1>1 DEF Held, TypeOK
  <1>4. HeldDownloading' /\ OwnedOnce' /\ NothingBuffered'
    BY <1>1, <1>3 DEF Owned, HeldDownloading, OwnedOnce, NothingBuffered
  <1>5. StoredNotFetched'
    BY <1>1 DEF Owned, StoredNotFetched, TypeOK
  <1> QED
    BY <1>2, <1>4, <1>5 DEF Owned

LEMMA OwnedSettle ==
    ASSUME TypeOK, Owned, NEW p \in Peers, Settle(p)
    PROVE  Owned'
  <1> DEFINE i == piece[p]
  <1>1. /\ UNCHANGED <<guard, current, store, buffered, phase>>
        /\ states' = [states EXCEPT ![i] = IF pc[p] = "mark" THEN "done" ELSE "needed"]
        /\ piece' = [piece EXCEPT ![p] = NoPiece]
        /\ pc' = [pc EXCEPT ![p] = "next"]
        /\ phase = "running" /\ pc[p] \in {"mark", "failed"}
    BY DEF Settle, Goto, diskVars, runVars
  <1>2. i \in Pieces /\ i # NoPiece /\ guard[p] = NoPiece
    BY <1>1, SwarmConstants DEF Owned, TaskShape, TypeOK
  <1>3. TaskShape'
    BY <1>1, <1>2 DEF Owned, TaskShape, TypeOK
  <1>4. Held(p)' = {} /\ \A q \in Peers \ {p} : Held(q)' = Held(q)
    BY <1>1, <1>2 DEF Held, TypeOK
  <1>5. i \in Held(p)
    BY <1>2, HeldIs
  <1>6. OwnedOnce' /\ NothingBuffered'
    BY <1>1, <1>4 DEF Owned, OwnedOnce, NothingBuffered
  <1>7. HeldDownloading'
    <2> SUFFICES ASSUME NEW q \in Peers, NEW j \in Held(q)'
                 PROVE  states'[j] = "downloading"
      BY DEF HeldDownloading
    <2>1. q # p /\ j \in Held(q)
      BY <1>4
    <2>2. j # i
      BY <1>5, <2>1 DEF Owned, OwnedOnce
    <2>3. j \in Pieces
      BY <2>1 DEF Held, TypeOK
    <2> QED
      BY <1>1, <2>1, <2>2, <2>3 DEF Owned, HeldDownloading, TypeOK
  <1>8. StoredNotFetched'
    <2> SUFFICES ASSUME NEW j \in Pieces, store[j] \/ j \in buffered
                 PROVE  states'[j] = "done" \/ \E q \in Peers : pc'[q] = "mark" /\ piece'[q] = j
      BY <1>1 DEF StoredNotFetched
    <2>1. CASE j = i
      <3>1. pc[p] = "mark"
        BY <1>1, <1>5, <2>1, OwnedMissing
      <3> QED
        BY <1>1, <2>1, <3>1 DEF TypeOK
    <2>2. CASE j # i
      BY <1>1, <2>2 DEF Owned, StoredNotFetched, TypeOK
    <2> QED
      BY <2>1, <2>2
  <1> QED
    BY <1>3, <1>6, <1>7, <1>8 DEF Owned

LEMMA OwnedDisk ==
    ASSUME TypeOK, Owned, NEW i \in Pieces, Lands(i) \/ LandFails(i)
    PROVE  Owned'
  <1>1. /\ UNCHANGED <<states, guard, current, piece, pc, phase>>
        /\ buffered' \subseteq buffered
        /\ \A j \in Pieces : store'[j] \/ j \in buffered' => store[j] \/ j \in buffered
    BY DEF Lands, LandFails, runVars, pieceVars, TypeOK
  <1>2. TaskShape' /\ HeldDownloading' /\ OwnedOnce'
    BY <1>1 DEF Owned, TaskShape, HeldDownloading, OwnedOnce, Held
  <1>3. NothingBuffered' /\ StoredNotFetched'
    BY <1>1 DEF Owned, NothingBuffered, StoredNotFetched
  <1> QED
    BY <1>2, <1>3 DEF Owned

\* What a step of a peer's task does to the queues and to where tasks are.
LEMMA PeerMoves ==
    ASSUME TypeOK, NEW p \in Peers,
           PeerStep(p) \/ Message(p) \/ Drop(p) \/ WriteError(p)
    PROVE  /\ UNCHANGED <<seen, pending>>
           /\ pc[p] # "absent" /\ \A q \in Peers \ {p} : pc'[q] = pc[q]
  BY DEF PeerStep, Message, Drop, WriteError, Connect, PeerTop, Check, WritePiece, Settle,
         NextOne, Choke, Unchoke, Have, Bitfield, Gossip, PieceComplete, Reading, Goto,
         mainVars, TypeOK

LEMMA QueueStep == TypeOK /\ QueueInv /\ [Next]_vars => QueueInv'
  <1> SUFFICES ASSUME TypeOK, QueueInv, [Next]_vars
               PROVE  QueueInv'
    OBVIOUS
  <1> USE DEF QueueInv
  <1>1. CASE UNCHANGED vars \/ GiveUp \/ ChannelCloses \/ DiscoveryEnds
    BY <1>1 DEF GiveUp, ChannelCloses, DiscoveryEnds, vars, mainVars
  <1>2. ASSUME NEW i \in Pieces, Lands(i) \/ LandFails(i)
        PROVE  QueueInv'
    BY <1>2 DEF Lands, LandFails, mainVars
  <1>3. CASE Start \/ Exit \/ Kill
    BY <1>3 DEF Start, Exit, Kill, Forget
  <1>4. CASE LeaveComplete \/ NothingLeft
    BY <1>4 DEF LeaveComplete, NothingLeft, Leave, mainVars
  <1>5. CASE Top
    BY <1>5 DEF Top, TypeOK
  <1>6. ASSUME NEW p \in Peers, Receive(p) \/ Announce(p) \/ Join(p)
        PROVE  QueueInv'
    BY <1>6 DEF Receive, Announce, Join, Goto, TypeOK
  <1>7. ASSUME NEW p \in Peers, PeerStep(p) \/ Message(p) \/ Drop(p) \/ WriteError(p)
        PROVE  QueueInv'
    BY <1>7, PeerMoves
  <1> QED
    BY <1>1, <1>2, <1>3, <1>4, <1>5, <1>6, <1>7 DEF Next, MainStep

LEMMA MainMoves ==
    ASSUME TypeOK, QueueInv, Owned,
           \/ UNCHANGED vars \/ GiveUp \/ Top \/ ChannelCloses \/ DiscoveryEnds
           \/ \E p \in Peers : Receive(p) \/ Join(p) \/ Announce(p)
    PROVE  Moves
  <1>1. CASE UNCHANGED vars \/ GiveUp \/ ChannelCloses \/ DiscoveryEnds
    BY <1>1 DEF GiveUp, ChannelCloses, DiscoveryEnds, Moves, vars, diskVars, runVars, pieceVars
  <1>2. CASE Top
    <2>1. UNCHANGED <<states, current, guard, piece, store, buffered, phase, outcome>>
      BY <1>2 DEF Top, diskVars, runVars, pieceVars
    <2>2. ASSUME NEW q \in Peers, pc'[q] # pc[q]
          PROVE  pc[q] = "absent" /\ pc'[q] = "connect" /\ guard[q] = NoPiece
      BY <1>2, <2>2 DEF Top, QueueInv, Owned, TaskShape
    <2> QED
      BY <2>1, <2>2 DEF Moves
  <1>3. ASSUME NEW p \in Peers, Receive(p) \/ Join(p) \/ Announce(p)
        PROVE  Moves
    BY <1>3 DEF Receive, Join, Announce, Goto, Moves, diskVars, runVars, pieceVars,
                Owned, TaskShape, TypeOK
  <1> QED
    BY <1>1, <1>2, <1>3

LEMMA PeerMovesOrTakes ==
    ASSUME TypeOK, Owned, NEW p \in Peers,
           \/ Connect(p) \/ PeerTop(p) \/ Check(p) \/ NextOne(p)
           \/ Choke(p) \/ Unchoke(p)
           \/ \E i \in Pieces : Have(p, i)
           \/ \E S \in SUBSET Pieces : Bitfield(p, S)
           \/ \E q \in Peers : Gossip(p, q)
    PROVE  Moves \/ Took(p)
  <1> USE DEF Goto, Moves, diskVars, runVars, pieceVars
  <1>0. CASE PeerTop(p)
    <2>1. guard[p] # NoPiece => ~IsComplete
      <3> SUFFICES ASSUME guard[p] # NoPiece
                   PROVE  ~IsComplete
        OBVIOUS
      <3>1. guard[p] \in Pieces /\ guard[p] \in Held(p)
        BY DEF TypeOK, Held
      <3> QED
        BY <3>1 DEF IsComplete, Owned, HeldDownloading
    <2> QED
      BY <1>0, <2>1 DEF PeerTop, TypeOK
  <1>1. CASE Connect(p) \/ Choke(p) \/ \E q \in Peers : Gossip(p, q)
    BY <1>1 DEF Connect, Choke, Gossip, Reading, Owned, TaskShape, TypeOK
  <1>2. CASE Check(p)
    BY <1>2 DEF Check, Owned, TaskShape, TypeOK
  <1>3. ASSUME NEW have \in SUBSET Pieces, NEW stage \in {"top", "check", "ended"},
               TryStart(p, have) \/ UNCHANGED pieceVars,
               pc' = [pc EXCEPT ![p] = stage], current'[p] # NoPiece => stage = "top",
               pc[p] \in {"read", "next"}, phase = "running",
               UNCHANGED <<piece, store, buffered, phase, outcome>>
        PROVE  Moves \/ Took(p)
    <2>1. CASE UNCHANGED pieceVars
      BY <1>3, <2>1 DEF Owned, TaskShape, TypeOK
    <2>2. CASE ~UNCHANGED pieceVars
      BY <1>3, <2>2 DEF TryStart, NextPiece, Wanted, Took
    <2> QED
      BY <2>1, <2>2
  <1>4. CASE NextOne(p)
    BY <1>3, <1>4 DEF NextOne, TypeOK
  <1>5. CASE Unchoke(p)
    BY <1>3, <1>5 DEF Unchoke, Reading, TypeOK
  <1>6. ASSUME NEW i \in Pieces, Have(p, i)
        PROVE  Moves \/ Took(p)
    <2>1. has'[p] \in SUBSET Pieces
      BY <1>6 DEF Have, TypeOK
    <2> QED
      BY <1>3, <1>6, <2>1 DEF Have, Reading
  <1>7. ASSUME NEW S \in SUBSET Pieces, Bitfield(p, S)
        PROVE  Moves \/ Took(p)
    BY <1>3, <1>7 DEF Bitfield, Reading
  <1> QED
    BY <1>0, <1>1, <1>2, <1>4, <1>5, <1>6, <1>7

\* The kinds of steps that touch pieces or runs.
LEMMA StepKinds ==
    ASSUME OwnerInv, [Next]_vars
    PROVE  \/ Moves
           \/ LeaveComplete \/ NothingLeft
           \/ Start \/ Exit \/ Kill
           \/ \E i \in Pieces : Lands(i) \/ LandFails(i)
           \/ \E p \in Peers : \/ Took(p) \/ PieceComplete(p) \/ WritePiece(p)
                             \/ WriteError(p) \/ Settle(p) \/ Drop(p)
  <1> USE DEF OwnerInv
  <1>1. CASE UNCHANGED vars \/ GiveUp \/ Top \/ ChannelCloses \/ DiscoveryEnds
             \/ \E p \in Peers : Receive(p) \/ Join(p) \/ Announce(p)
    BY <1>1, MainMoves
  <1>2. ASSUME NEW p \in Peers, PeerStep(p) \/ Message(p)
        PROVE  \/ Moves \/ Took(p)
               \/ PieceComplete(p) \/ WritePiece(p) \/ Settle(p)
    BY <1>2, PeerMovesOrTakes DEF PeerStep, Message
  <1> QED
    BY <1>1, <1>2 DEF Next, MainStep

LEMMA OwnedStep == OwnerInv /\ [Next]_vars => Owned'
  <1> SUFFICES ASSUME TypeOK, QueueInv, Owned, OwnerInv, [Next]_vars
               PROVE  Owned'
    BY DEF OwnerInv
  <1>1. ASSUME NEW p \in Peers, \/ Took(p) \/ PieceComplete(p) \/ WritePiece(p)
                                \/ WriteError(p) \/ Settle(p) \/ Drop(p)
        PROVE  Owned'
    BY <1>1, OwnedTook, OwnedComplete, OwnedWrite, OwnedWriteError, OwnedSettle, OwnedDrop
  <1> QED
    BY <1>1, StepKinds, OwnedMoves, OwnedLeave, OwnedRun, OwnedDisk

LEMMA OwnerInit == Init => OwnerInv
  <1> SUFFICES ASSUME Init
               PROVE  OwnerInv
    OBVIOUS
  <1>1. QueueInv
    BY DEF Init, QueueInv
  <1>2. TaskShape /\ NothingBuffered /\ StoredNotFetched
    BY DEF Init, TaskShape, NothingBuffered, StoredNotFetched
  <1>3. HeldDownloading /\ OwnedOnce
    BY DEF Init, HeldDownloading, OwnedOnce, Held
  <1> QED
    BY <1>1, <1>2, <1>3, TypeInit DEF OwnerInv, Owned

LEMMA OwnerStep == OwnerInv /\ [Next]_vars => OwnerInv'
  BY TypeStep, QueueStep, OwnedStep DEF OwnerInv, Owned

\* What a task holds counts as being downloaded and is its own, and an address
\* has one task at most, whatever peers, disk and network do.
THEOREM OwnerAlways == Spec => []OwnerInv
  BY OwnerInit, OwnerStep, PTL DEF Spec

\* The type invariant, for any number of peers, pieces and runs.
THEOREM SwarmTypeCorrect == Spec => []TypeOK
  BY OwnerAlways, PTL DEF OwnerInv

\* No two tasks fetch one piece, whatever peers, disk and network do.
THEOREM PiecesOwnedOnce == Spec => []OwnedOnce
  <1>1. OwnerInv => OwnedOnce
    BY DEF OwnerInv, Owned
  <1> QED
    BY <1>1, OwnerAlways, PTL

\* Pieces that are on disk are not fetched again (README.md, "Only pieces that
\* are missing or corrupted are re-downloaded").
THEOREM StoredPiecesNotFetched == Spec => []StoredNotFetched
  <1>1. OwnerInv => StoredNotFetched
    BY DEF OwnerInv, Owned
  <1> QED
    BY <1>1, OwnerAlways, PTL

-----------------------------------------------------------------------------
(***************************************************************************)
(* Done is for good.                                                       *)
(***************************************************************************)
DoneKept == \A i \in Pieces : states[i] = "done" => states'[i] = "done"

LEMMA DoneStep ==
    ASSUME OwnerInv, [Next]_vars, phase = "running", phase' # "stopped"
    PROVE  DoneKept
  <1> USE DEF OwnerInv
  <1>1. CASE Moves \/ \E p \in Peers : Took(p)
    BY <1>1 DEF Moves, Took, DoneKept, TypeOK
  <1>2. CASE LeaveComplete \/ NothingLeft
    BY <1>2, LeaveKeeps DEF DoneKept
  <1>3. CASE Start \/ Exit \/ Kill \/ \E i \in Pieces : Lands(i) \/ LandFails(i)
    BY <1>3 DEF Start, Exit, Kill, Lands, LandFails, pieceVars, DoneKept
  <1>4. ASSUME NEW p \in Peers, Drop(p)
        PROVE  DoneKept
    <2> SUFFICES ASSUME NEW i \in Pieces, states[i] = "done"
                 PROVE  states'[i] = "done"
      BY DEF DoneKept
    <2>1. guard[p] # i
      BY HeldIs DEF Owned, HeldDownloading
    <2> QED
      BY <1>4, <2>1 DEF Drop, Release
  <1>5. ASSUME NEW p \in Peers, Settle(p)
        PROVE  DoneKept
    <2> SUFFICES ASSUME NEW i \in Pieces, states[i] = "done"
                 PROVE  states'[i] = "done"
      BY DEF DoneKept
    <2>1. piece[p] # i
      BY HeldIs DEF Owned, HeldDownloading
    <2> QED
      BY <1>5, <2>1 DEF Settle, TypeOK
  <1>6. ASSUME NEW p \in Peers, WritePiece(p) \/ PieceComplete(p) \/ WriteError(p)
        PROVE  DoneKept
    BY <1>6 DEF WritePiece, PieceComplete, WriteError, pieceVars, DoneKept
  <1> QED
    BY <1>1, <1>2, <1>3, <1>4, <1>5, <1>6, StepKinds

\* Within a run a done piece stays done, whichever task errors or is aborted.
THEOREM DoneIsForGood == Spec => DonePermanent
  <1>1. OwnerInv /\ [Next]_vars =>
          [phase = "running" /\ phase' # "stopped" =>
              \A i \in Pieces : states[i] = "done" => states'[i] = "done"]_vars
    BY DoneStep DEF DoneKept
  <1> QED
    BY <1>1, OwnerAlways, PTL DEF Spec, DonePermanent

-----------------------------------------------------------------------------
(***************************************************************************)
(* Where no buffered write fails: done pieces are written.                 *)
(***************************************************************************)
LEMMA WrittenRun ==
    ASSUME OwnerInv, Written,
           LeaveComplete \/ NothingLeft \/ Start \/ Exit \/ Kill
    PROVE  Written'
  <1>1. CASE LeaveComplete \/ NothingLeft
    <2>1. /\ UNCHANGED <<states, store, buffered>> /\ phase # "stopped"
          /\ phase' = "exiting" /\ \A p \in Peers : pc'[p] # "mark"
      BY <1>1, LeaveKeeps DEF OwnerInv
    <2>2. outcome' = "ok" => IsComplete'
      BY <1>1 DEF LeaveComplete, NothingLeft, Leave, IsComplete
    <2> QED
      BY <2>1, <2>2 DEF Written, MarkedWritten, DoneIsWritten, OkComplete, SuccessOnDisk
  <1>2. CASE Start \/ Exit \/ Kill
    <2>1. MarkedWritten'
      BY <1>2 DEF Start, Exit, Kill, Forget, MarkedWritten
    <2>2. CASE Start
      BY <2>1, <2>2 DEF Start, Verified, Written, DoneIsWritten, OkComplete, SuccessOnDisk, diskVars
    <2>3. CASE Exit
      <3>1. SuccessOnDisk'
        BY <2>3 DEF Exit, Written, DoneIsWritten, OkComplete, IsComplete, SuccessOnDisk,
                    diskVars
      <3> QED
        BY <2>1, <2>3, <3>1 DEF Exit, Written, DoneIsWritten, OkComplete
    <2>4. CASE Kill
      BY <2>1, <2>4 DEF Kill, Written, DoneIsWritten, OkComplete, SuccessOnDisk
    <2> QED
      BY <1>2, <2>2, <2>3, <2>4
  <1> QED
    BY <1>1, <1>2

\* While the program runs only pieces that become done, and tasks that come to
\* piece_done, matter.
LEMMA WrittenTask ==
    ASSUME OwnerInv, Written, NEW p \in Peers,
           \/ Took(p) \/ PieceComplete(p) \/ WritePiece(p)
           \/ WriteError(p) \/ Settle(p) \/ Drop(p)
    PROVE  Written'
  <1>1. /\ phase = "running" /\ phase' = "running"
        /\ UNCHANGED store /\ buffered \subseteq buffered'
        /\ \A q \in Peers \ {p} : UNCHANGED <<pc[q], piece[q]>>
    BY DEF Took, PieceComplete, WritePiece, WriteError, Settle, Drop, Goto, Reading,
           runVars, diskVars, OwnerInv, TypeOK
  <1>2. pc'[p] = "mark" => piece'[p] \in buffered'
    BY DEF Took, PieceComplete, WritePiece, WriteError, Settle, Drop, Goto, OwnerInv, TypeOK
  <1>3. MarkedWritten'
    BY <1>1, <1>2 DEF Written, MarkedWritten, OwnerInv, TypeOK
  <1>4. ASSUME NEW i \in Pieces, states'[i] = "done"
        PROVE  states[i] = "done" \/ (pc[p] = "mark" /\ piece[p] = i)
    <2>1. CASE Settle(p)
      BY <1>4, <2>1 DEF Settle, OwnerInv, TypeOK
    <2>2. CASE Took(p)
      BY <1>4, <2>2 DEF Took, OwnerInv, TypeOK
    <2>3. CASE Drop(p)
      BY <1>4, <2>3 DEF Drop, Release
    <2>4. CASE PieceComplete(p) \/ WritePiece(p) \/ WriteError(p)
      <3>1. states' = states
        BY <2>4 DEF PieceComplete, WritePiece, WriteError, pieceVars
      <3> QED
        BY <1>4, <3>1
    <2> QED
      BY <2>1, <2>2, <2>3, <2>4
  <1>5. DoneIsWritten'
    BY <1>1, <1>4 DEF Written, MarkedWritten, DoneIsWritten
  <1> QED
    BY <1>1, <1>3, <1>5 DEF Written, OkComplete, SuccessOnDisk

LEMMA WrittenStep ==
    ASSUME "lateWrite" \notin Faults, OwnerInv, Written, [Next]_vars
    PROVE  Written'
  <1>1. CASE Moves
    <2>1. MarkedWritten'
      BY <1>1 DEF Moves, Written, MarkedWritten
    <2> QED
      BY <1>1, <2>1 DEF Moves, Written, DoneIsWritten, OkComplete, IsComplete, SuccessOnDisk
  <1>2. ASSUME NEW i \in Pieces, Lands(i) \/ LandFails(i)
        PROVE  Written'
    <2>1. /\ UNCHANGED <<states, piece, pc, phase, outcome>>
          /\ \A j \in Pieces : store[j] => store'[j]
          /\ \A j \in Pieces : store[j] \/ j \in buffered => store'[j] \/ j \in buffered'
      BY <1>2 DEF Lands, LandFails, runVars, pieceVars, OwnerInv, TypeOK
    <2>2. \A p \in Peers : pc[p] = "mark" => piece[p] \in Pieces
      BY SwarmConstants DEF OwnerInv, Owned, TaskShape, TypeOK
    <2>3. MarkedWritten'
      BY <2>1, <2>2 DEF Written, MarkedWritten
    <2> QED
      BY <2>1, <2>3 DEF Written, DoneIsWritten, OkComplete, IsComplete, SuccessOnDisk
  <1> QED
    BY <1>1, <1>2, StepKinds, WrittenRun, WrittenTask

LEMMA WrittenInit == Init => Written
  BY DEF Init, Written, MarkedWritten, DoneIsWritten, OkComplete, SuccessOnDisk

LEMMA WrittenAlways == ASSUME "lateWrite" \notin Faults
                       PROVE  Spec => []Written
  <1>1. OwnerInv /\ Written /\ [Next]_vars => Written'
    BY WrittenStep
  <1> QED
    BY <1>1, WrittenInit, OwnerAlways, PTL DEF Spec

\* A piece is done only when its data is written (README.md: verified pieces are
\* saved), if the write that a buffer postponed does not fail.
THEOREM DonePiecesWritten == ASSUME "lateWrite" \notin Faults
                             PROVE  Spec => []DoneIsWritten
  <1>1. Written => DoneIsWritten
    BY DEF Written
  <1> QED
    BY <1>1, WrittenAlways, PTL

\* A run that ended with success has every piece on disk, with the same
\* exception.
THEOREM SuccessIsOnDisk == ASSUME "lateWrite" \notin Faults
                           PROVE  Spec => []SuccessOnDisk
  <1>1. Written => SuccessOnDisk
    BY DEF Written
  <1> QED
    BY <1>1, WrittenAlways, PTL

-----------------------------------------------------------------------------
(***************************************************************************)
(* Where no disk write fails: PeerSwarm implements PiecePool.              *)
(***************************************************************************)
LEMMA PoolOwnerIs ==
    ASSUME NEW i \in Pieces, NEW p \in Peers
    PROVE  /\ OwnedOnce /\ i \in Held(p) => PoolOwner[i] = p
           /\ OwnedOnce' /\ i \in Held(p)' => PoolOwner'[i] = p
  <1>1. ASSUME OwnedOnce, i \in Held(p)
        PROVE  PoolOwner[i] = p
    <2>1. \A q \in Peers : i \in Held(q) => q = p
      BY <1>1 DEF OwnedOnce
    <2>2. Owner(i) = p
      BY <1>1, <2>1 DEF Owner
    <2> QED
      BY <1>1, <2>2 DEF PoolOwner
  <1>2. ASSUME OwnedOnce', i \in Held(p)'
        PROVE  PoolOwner'[i] = p
    <2>1. \A q \in Peers : i \in Held(q)' => q = p
      BY <1>2 DEF OwnedOnce
    <2>2. Owner(i)' = p
      BY <1>2, <2>1 DEF Owner
    <2> QED
      BY <1>2, <2>2 DEF PoolOwner
  <1> QED
    BY <1>1, <1>2

LEMMA PoolOwnerNone ==
    ASSUME NEW i \in Pieces
    PROVE  /\ (\A p \in Peers : i \notin Held(p)) => PoolOwner[i] = Nobody
           /\ (\A p \in Peers : i \notin Held(p)') => PoolOwner'[i] = Nobody
  BY DEF PoolOwner

\* A piece that stays with the same task, or with none, keeps its owner.
LEMMA PoolOwnerSame ==
    ASSUME OwnedOnce, OwnedOnce', NEW i \in Pieces,
           \A q \in Peers : i \in Held(q)' <=> i \in Held(q)
    PROVE  PoolOwner'[i] = PoolOwner[i]
  <1>1. ASSUME NEW p \in Peers, i \in Held(p)
        PROVE  PoolOwner'[i] = PoolOwner[i]
    BY <1>1, PoolOwnerIs
  <1>2. CASE \A p \in Peers : i \notin Held(p)
    BY <1>2, PoolOwnerNone
  <1> QED
    BY <1>1, <1>2

LEMMA PoolOwnerFunction ==
    /\ DOMAIN PoolOwner = Pieces /\ PoolOwner = [i \in Pieces |-> PoolOwner[i]]
    /\ DOMAIN PoolOwner' = Pieces /\ PoolOwner' = [i \in Pieces |-> PoolOwner'[i]]
  BY DEF PoolOwner

LEMMA PoolOwnerUnchanged ==
    ASSUME OwnedOnce, OwnedOnce',
           \A q \in Peers : Held(q)' = Held(q)
    PROVE  PoolOwner' = PoolOwner
  <1>1. \A i \in Pieces : PoolOwner'[i] = PoolOwner[i]
    BY PoolOwnerSame
  <1> QED
    BY <1>1, PoolOwnerFunction

LEMMA PoolOwnerChanges ==
    ASSUME OwnedOnce, OwnedOnce', NEW i \in Pieces,
           \A j \in Pieces \ {i} : \A q \in Peers : j \in Held(q)' <=> j \in Held(q)
    PROVE  PoolOwner' = [PoolOwner EXCEPT ![i] = PoolOwner'[i]]
  <1>1. \A j \in Pieces \ {i} : PoolOwner'[j] = PoolOwner[j]
    BY PoolOwnerSame
  <1> QED
    BY <1>1, PoolOwnerFunction

\* During a run the pool's states are the manager's.
LEMMA PoolRunning ==
    ASSUME TypeOK, TypeOK'
    PROVE  /\ phase # "stopped" => PoolState = states
           /\ phase' # "stopped" => PoolState' = states'
  BY DEF PoolState, TypeOK

PoolVars == <<PoolState, PoolOwner, OnDisk \union buffered>>

PoolStep == Pool!Next \/ UNCHANGED PoolVars

LEMMA PoolTook ==
    ASSUME OwnerInv, OwnerInv', NEW p \in Peers, Took(p)
    PROVE  PoolStep
  <1>1. PICK i \in Pieces :
            /\ states[i] = "needed"
            /\ states' = [states EXCEPT ![i] = "downloading"]
            /\ guard' = [guard EXCEPT ![p] = i]
    BY DEF Took
  <1>2. /\ guard[p] = NoPiece /\ piece[p] = NoPiece
        /\ phase = "running" /\ UNCHANGED <<piece, store, buffered, phase>>
    BY DEF Took, OwnerInv, Owned, TaskShape
  <1>3. Held(p) = {} /\ Held(p)' = {i} /\ \A q \in Peers \ {p} : Held(q)' = Held(q)
    BY <1>1, <1>2, SwarmConstants DEF Held, OwnerInv, TypeOK
  <1>4. \A q \in Peers : i \notin Held(q)
    BY <1>1 DEF OwnerInv, Owned, HeldDownloading
  <1>5. PoolOwner'[i] = p
    BY <1>3, PoolOwnerIs DEF OwnerInv, Owned
  <1>6. PoolOwner' = [PoolOwner EXCEPT ![i] = p]
    BY <1>3, <1>5, PoolOwnerChanges DEF OwnerInv, Owned
  <1>7. \A j \in Pieces : PoolOwner[j] # p
    <2> SUFFICES ASSUME NEW j \in Pieces
                 PROVE  PoolOwner[j] # p
      OBVIOUS
    <2>1. ASSUME NEW q \in Peers, j \in Held(q)
          PROVE  PoolOwner[j] # p
      BY <1>3, <2>1, PoolOwnerIs DEF OwnerInv, Owned
    <2> QED
      BY <2>1, PoolOwnerNone, SwarmConstants
  <1>8. Pool!Take(p, i)
    BY <1>1, <1>2, <1>6, <1>7, PoolRunning DEF Pool!Take, OnDisk, OwnerInv
  <1> QED
    BY <1>8 DEF PoolStep, Pool!Next

LEMMA PoolDrop ==
    ASSUME OwnerInv, OwnerInv', NEW p \in Peers, Drop(p)
    PROVE  PoolStep
  <1> DEFINE i == guard[p]
  <1>1. /\ states' = [j \in Pieces |-> IF i = j THEN "needed" ELSE states[j]]
        /\ guard' = [q \in Peers |-> IF q = p THEN NoPiece ELSE guard[q]]
        /\ phase = "running" /\ UNCHANGED <<piece, store, buffered, phase>>
        /\ piece[p] = NoPiece
    BY DEF Drop, Release, diskVars, runVars, OwnerInv, Owned, TaskShape
  <1>2. Held(p)' = {} /\ \A q \in Peers \ {p} : Held(q)' = Held(q)
    BY <1>1 DEF Held
  <1>3. CASE i = NoPiece
    <2>1. states' = states /\ Held(p)' = Held(p)
      BY <1>1, <1>2, <1>3, SwarmConstants DEF Held, OwnerInv, TypeOK
    <2> QED
      BY <1>1, <1>2, <2>1, PoolOwnerUnchanged, PoolRunning
      DEF PoolStep, PoolVars, OnDisk, OwnerInv, Owned
  <1>4. CASE i # NoPiece
    <2>1. i \in Pieces /\ Held(p) = {i}
      BY <1>1, <1>4 DEF Held, OwnerInv, TypeOK
    <2>2. PoolOwner[i] = p
      BY <2>1, PoolOwnerIs DEF OwnerInv, Owned
    <2>3. \A q \in Peers : i \notin Held(q)'
      BY <1>2, <2>1 DEF OwnerInv, Owned, OwnedOnce
    <2>4. PoolOwner' = [PoolOwner EXCEPT ![i] = Nobody]
      BY <1>2, <2>1, <2>3, PoolOwnerNone, PoolOwnerChanges DEF OwnerInv, Owned
    <2>5. states' = [states EXCEPT ![i] = "needed"]
      BY <1>1, <2>1 DEF OwnerInv, TypeOK
    <2>6. Pool!GiveBack(p, i)
      BY <1>1, <2>2, <2>4, <2>5, PoolRunning DEF Pool!GiveBack, OnDisk, OwnerInv
    <2> QED
      BY <2>1, <2>6 DEF PoolStep, Pool!Next
  <1> QED
    BY <1>3, <1>4

\* A piece that is complete stays with its task.
LEMMA PoolComplete ==
    ASSUME OwnerInv, OwnerInv', NEW p \in Peers, PieceComplete(p)
    PROVE  PoolStep
  <1>1. /\ piece' = [piece EXCEPT ![p] = current[p]]
        /\ guard' = [guard EXCEPT ![p] = NoPiece]
        /\ UNCHANGED <<states, store, buffered, phase>>
        /\ phase = "running" /\ pc[p] = "read"
    BY DEF PieceComplete, Reading, diskVars, runVars
  <1>2. guard[p] = current[p] /\ piece[p] = NoPiece
    BY <1>1 DEF OwnerInv, Owned, TaskShape
  <1>3. \A q \in Peers : Held(q)' = Held(q)
    BY <1>1, <1>2 DEF Held, OwnerInv, TypeOK
  <1> QED
    BY <1>1, <1>3, PoolOwnerUnchanged, PoolRunning
    DEF PoolStep, PoolVars, OnDisk, OwnerInv, Owned

LEMMA PoolWrite ==
    ASSUME OwnerInv, OwnerInv', NEW p \in Peers, WritePiece(p)
    PROVE  PoolStep
  <1>1. /\ UNCHANGED <<states, guard, piece, store, phase>>
        /\ buffered' = buffered \union {piece[p]}
        /\ phase = "running" /\ pc[p] = "write"
    BY DEF WritePiece, runVars, pieceVars
  <1>2. piece[p] \in Pieces /\ piece[p] \in Held(p)
    BY <1>1 DEF Held, OwnerInv, Owned, TaskShape, TypeOK
  <1>3. \A q \in Peers : Held(q)' = Held(q)
    BY <1>1 DEF Held
  <1>4. PoolOwner[piece[p]] = p
    BY <1>2, PoolOwnerIs DEF OwnerInv, Owned
  <1>5. PoolOwner' = PoolOwner
    BY <1>3, PoolOwnerUnchanged DEF OwnerInv, Owned
  <1>6. OnDisk' = OnDisk
    BY <1>1 DEF OnDisk
  <1>7. Pool!Store(p, piece[p])
    BY <1>1, <1>4, <1>5, <1>6, PoolRunning DEF Pool!Store, OwnerInv
  <1> QED
    BY <1>2, <1>7 DEF PoolStep, Pool!Next

LEMMA PoolSettle ==
    ASSUME OwnerInv, OwnerInv', MarkedWritten, NEW p \in Peers, Settle(p)
    PROVE  PoolStep
  <1> DEFINE i == piece[p]
  <1>1. /\ states' = [states EXCEPT ![i] = IF pc[p] = "mark" THEN "done" ELSE "needed"]
        /\ piece' = [piece EXCEPT ![p] = NoPiece]
        /\ UNCHANGED <<guard, store, buffered, phase>>
        /\ phase = "running" /\ pc[p] \in {"mark", "failed"}
    BY DEF Settle, diskVars, runVars
  <1>2. i \in Pieces /\ guard[p] = NoPiece
    BY <1>1 DEF OwnerInv, Owned, TaskShape, TypeOK
  <1>3. /\ Held(p) = {i} /\ Held(p)' = {}
        /\ \A q \in Peers \ {p} : Held(q)' = Held(q)
    BY <1>1, <1>2, SwarmConstants DEF Held, OwnerInv, TypeOK
  <1>4. PoolOwner[i] = p
    BY <1>2, <1>3, PoolOwnerIs DEF OwnerInv, Owned
  <1>5. \A q \in Peers : i \notin Held(q)'
    BY <1>3 DEF OwnerInv, Owned, OwnedOnce
  <1>6. PoolOwner' = [PoolOwner EXCEPT ![i] = Nobody]
    BY <1>2, <1>3, <1>5, PoolOwnerNone, PoolOwnerChanges DEF OwnerInv, Owned
  <1>7. OnDisk' = OnDisk
    BY <1>1 DEF OnDisk
  <1>8. CASE pc[p] = "mark"
    <2>1. i \in OnDisk \union buffered
      BY <1>2, <1>8 DEF MarkedWritten, OnDisk
    <2>2. Pool!Finish(p, i)
      BY <1>1, <1>4, <1>6, <1>7, <1>8, <2>1, PoolRunning DEF Pool!Finish, OwnerInv
    <2> QED
      BY <1>2, <2>2 DEF PoolStep, Pool!Next
  <1>9. CASE pc[p] = "failed"
    <2>1. Pool!GiveBack(p, i)
      BY <1>1, <1>4, <1>6, <1>7, <1>9, PoolRunning DEF Pool!GiveBack, OwnerInv
    <2> QED
      BY <1>2, <2>1 DEF PoolStep, Pool!Next
  <1> QED
    BY <1>1, <1>8, <1>9

\* A new run knows no owners: the pool starts again when a process ends.
LEMMA PoolRun ==
    ASSUME OwnerInv, OwnerInv', Start \/ Exit \/ Kill
    PROVE  PoolStep
  <1>1. \A q \in Peers : Held(q)' = {}
    BY DEF Start, Exit, Kill, Forget, Held
  <1>2. PoolOwner' = [i \in Pieces |-> Nobody]
    BY <1>1, PoolOwnerNone, PoolOwnerFunction
  <1>3. OnDisk' = OnDisk
    BY DEF Start, Exit, Kill, diskVars, OnDisk
  <1>4. CASE Start
    <2>1. \A q \in Peers : Held(q) = {}
      BY <1>4 DEF Start, OwnerInv, Owned, TaskShape, Held
    <2>2. PoolOwner' = PoolOwner
      BY <1>1, <2>1, PoolOwnerUnchanged DEF OwnerInv, Owned
    <2>3. PoolState' = PoolState
      BY <1>4 DEF Start, Verified, PoolState, OnDisk, diskVars
    <2> QED
      BY <1>3, <1>4, <2>2, <2>3 DEF Start, diskVars, PoolStep, PoolVars
  <1>5. CASE Exit \/ Kill
    <2>1. buffered' = {} /\ phase' = "stopped"
      BY <1>5 DEF Exit, Kill, diskVars
    <2>2. PoolState' = [i \in Pieces |-> IF i \in OnDisk THEN "done" ELSE "needed"]
      BY <1>3, <2>1 DEF PoolState
    <2>3. Pool!Fresh(OnDisk)
      BY <1>2, <1>3, <2>1, <2>2 DEF Pool!Fresh
    <2> QED
      BY <2>3 DEF PoolStep, Pool!Next, Pool!Restart
  <1> QED
    BY <1>4, <1>5

LEMMA PoolRest ==
    ASSUME "lateWrite" \notin Faults, OwnerInv, OwnerInv',
           \/ Moves \/ LeaveComplete \/ NothingLeft
           \/ \E i \in Pieces : Lands(i) \/ LandFails(i)
    PROVE  PoolStep
  <1>1. /\ UNCHANGED <<states, guard, piece>>
        /\ PoolState' = PoolState
        /\ (OnDisk \union buffered)' = OnDisk \union buffered
    <2>1. CASE Moves
      BY <2>1 DEF Moves, PoolState, OnDisk
    <2>2. CASE LeaveComplete \/ NothingLeft
      BY <2>2, LeaveKeeps, PoolRunning DEF OwnerInv, OnDisk
    <2>3. ASSUME NEW i \in Pieces, Lands(i)
          PROVE  /\ UNCHANGED <<states, guard, piece>>
                 /\ PoolState' = PoolState
                 /\ (OnDisk \union buffered)' = OnDisk \union buffered
      <3>1. UNCHANGED <<states, guard, piece, phase>> /\ phase # "stopped"
        BY <2>3 DEF Lands, runVars, pieceVars, OwnerInv, Owned, NothingBuffered
      <3>2. (OnDisk \union buffered)' = OnDisk \union buffered
        BY <2>3 DEF Lands, OnDisk, OwnerInv, TypeOK
      <3> QED
        BY <3>1, <3>2, PoolRunning DEF OwnerInv
    <2> QED
      BY <2>1, <2>2, <2>3 DEF LandFails
  <1>2. PoolOwner' = PoolOwner
    BY <1>1, PoolOwnerUnchanged DEF Held, OwnerInv, Owned
  <1> QED
    BY <1>1, <1>2 DEF PoolStep, PoolVars

LEMMA PoolInit == Init => Pool!Init
  <1> SUFFICES ASSUME Init
               PROVE  Pool!Init
    OBVIOUS
  <1>1. OnDisk \union buffered = OnDisk /\ PoolState = [i \in Pieces |-> IF i \in OnDisk THEN "done" ELSE "needed"]
    BY DEF Init, PoolState
  <1>2. \A q \in Peers : Held(q) = {}
    BY DEF Init, Held
  <1>3. PoolOwner = [i \in Pieces |-> Nobody]
    BY <1>2, PoolOwnerNone, PoolOwnerFunction
  <1> QED
    BY <1>1, <1>3 DEF Pool!Init, OnDisk

\* Where no write fails, each step of the swarm takes, gives back, stores or
\* finishes one piece of the pool, starts it again, or leaves it alone.
THEOREM SwarmImplementsPool == ASSUME "write" \notin Faults, "lateWrite" \notin Faults
                               PROVE  Spec => ImplementsPool
  <1>1. OwnerInv /\ OwnerInv' /\ Written /\ [Next]_vars => PoolStep
    BY StepKinds, PoolTook, PoolDrop, PoolComplete, PoolWrite, PoolSettle, PoolRun, PoolRest
    DEF WriteError, Written
  <1>2. PoolStep => [Pool!Next]_(Pool!poolVars)
    BY DEF PoolStep, PoolVars, Pool!poolVars
  <1> QED
    BY <1>1, <1>2, PoolInit, OwnerAlways, WrittenAlways, PTL DEF Spec, ImplementsPool, Pool!Spec

\* What a PiecePool promises: a piece is being downloaded exactly while a worker
\* has it, a worker has one at a time, and nothing is done that is not written.
THEOREM PoolPromises ==
    Pool!Spec => [](Pool!PoolTypeOK /\ Pool!PoolInv /\ Pool!OnePieceEach)
  <1> DEFINE W == OnDisk \union buffered
             I == Pool!PoolTypeOK /\ Pool!PoolInv /\ Pool!OnePieceEach
  <1>1. Pool!Init => I
    BY DEF Pool!Init, Pool!PoolTypeOK, Pool!PoolInv, Pool!OnePieceEach
  <1>2. I /\ [Pool!Next]_<<PoolState, PoolOwner, W>> => I'
    <2> SUFFICES ASSUME I, [Pool!Next]_<<PoolState, PoolOwner, W>> PROVE I'
      OBVIOUS
    <2>1. Nobody \notin Peers
      BY SwarmConstants
    <2>2. ASSUME NEW w \in Peers, NEW i \in Pieces, Pool!Take(w, i)
            PROVE  I'
      BY <2>1, <2>2 DEF Pool!Take, Pool!PoolTypeOK, Pool!PoolInv, Pool!OnePieceEach
    <2>3. ASSUME NEW w \in Peers, NEW i \in Pieces, Pool!GiveBack(w, i)
            PROVE  I'
      BY <2>1, <2>3 DEF Pool!GiveBack, Pool!PoolTypeOK, Pool!PoolInv, Pool!OnePieceEach
    <2>4. ASSUME NEW w \in Peers, NEW i \in Pieces, Pool!Store(w, i)
            PROVE  I'
      BY <2>4 DEF Pool!Store, Pool!PoolTypeOK, Pool!PoolInv, Pool!OnePieceEach
    <2>5. ASSUME NEW w \in Peers, NEW i \in Pieces, Pool!Finish(w, i)
            PROVE  I'
      BY <2>1, <2>5 DEF Pool!Finish, Pool!PoolTypeOK, Pool!PoolInv, Pool!OnePieceEach
    <2>6. CASE Pool!Restart
      BY <2>6 DEF Pool!Restart, Pool!Fresh, Pool!PoolTypeOK, Pool!PoolInv, Pool!OnePieceEach
    <2>7. CASE UNCHANGED <<PoolState, PoolOwner, W>>
      BY <2>7 DEF Pool!PoolTypeOK, Pool!PoolInv, Pool!OnePieceEach
    <2> QED BY <2>2, <2>3, <2>4, <2>5, <2>6, <2>7 DEF Pool!Next
  <1> QED BY <1>1, <1>2, PTL DEF Pool!Spec, Pool!poolVars

-----------------------------------------------------------------------------
(***************************************************************************)
(* Where write_piece never returns an error: no piece is stranded.         *)
(***************************************************************************)
LEMMA HeldTask ==
    ASSUME OwnerInv, AllHeld, NEW p \in Peers,
           Took(p) \/ PieceComplete(p) \/ WritePiece(p) \/ Settle(p) \/ Drop(p)
    PROVE  AllHeld'
  <1>1. phase = "running"
    BY DEF Took, PieceComplete, WritePiece, Settle, Drop, Reading
  <1>2. CASE Took(p)
    <2>1. PICK i \in Pieces : /\ states' = [states EXCEPT ![i] = "downloading"]
                              /\ guard' = [guard EXCEPT ![p] = i]
                              /\ guard[p] = NoPiece /\ piece' = piece
      BY <1>2 DEF Took, OwnerInv, Owned, TaskShape
    <2>2. i \in Held(p)' /\ \A q \in Peers : Held(q) \subseteq Held(q)'
      BY <2>1, SwarmConstants DEF Held, OwnerInv, TypeOK
    <2> QED
      BY <1>1, <2>1, <2>2 DEF AllHeld, OwnerInv, TypeOK
  <1>3. CASE PieceComplete(p)
    <2>1. \A q \in Peers : Held(q)' = Held(q)
      BY <1>3 DEF PieceComplete, Reading, Held, OwnerInv, Owned, TaskShape, TypeOK
    <2> QED
      BY <1>1, <1>3, <2>1 DEF PieceComplete, AllHeld
  <1>4. CASE WritePiece(p)
    BY <1>1, <1>4 DEF WritePiece, pieceVars, AllHeld, Held
  <1>5. CASE Settle(p)
    <2>1. /\ \A i \in Pieces : states'[i] = "downloading" =>
                 states[i] = "downloading" /\ piece[p] # i
          /\ guard[p] = NoPiece
      BY <1>5 DEF Settle, OwnerInv, Owned, TaskShape, TypeOK
    <2>2. \A q \in Peers \ {p} : Held(q)' = Held(q)
      BY <1>5 DEF Settle, Held, OwnerInv, TypeOK
    <2>3. \A i \in Pieces : states'[i] = "downloading" => i \notin Held(p)
      BY <2>1, HeldIs, SwarmConstants
    <2> QED
      BY <1>1, <2>1, <2>2, <2>3 DEF AllHeld
  <1>6. CASE Drop(p)
    <2>1. /\ \A i \in Pieces : states'[i] = "downloading" =>
                 states[i] = "downloading" /\ guard[p] # i
          /\ piece[p] = NoPiece
      BY <1>6 DEF Drop, Release, OwnerInv, Owned, TaskShape
    <2>2. \A q \in Peers \ {p} : Held(q)' = Held(q)
      BY <1>6 DEF Drop, Release, Held
    <2>3. \A i \in Pieces : states'[i] = "downloading" => i \notin Held(p)
      BY <2>1, HeldIs, SwarmConstants
    <2> QED
      BY <1>1, <2>1, <2>2, <2>3 DEF AllHeld
  <1> QED
    BY <1>2, <1>3, <1>4, <1>5, <1>6

LEMMA HeldStep ==
    ASSUME "write" \notin Faults, OwnerInv, AllHeld, [Next]_vars
    PROVE  AllHeld'
  <1>1. CASE Moves
    BY <1>1 DEF Moves, AllHeld, Held
  <1>2. CASE LeaveComplete \/ NothingLeft
    BY <1>2, LeaveKeeps DEF AllHeld, OwnerInv
  <1>3. CASE Start
    BY <1>3 DEF Start, AllHeld
  <1>4. CASE Exit \/ Kill
    BY <1>4 DEF Exit, Kill, AllHeld
  <1>5. ASSUME NEW i \in Pieces, Lands(i) \/ LandFails(i)
        PROVE  AllHeld'
    BY <1>5 DEF Lands, LandFails, runVars, pieceVars, AllHeld, Held
  <1> QED
    BY <1>1, <1>2, <1>3, <1>4, <1>5, StepKinds, HeldTask DEF WriteError

LEMMA HeldAlways == ASSUME "write" \notin Faults
                    PROVE  Spec => []AllHeld
  <1>1. Init => AllHeld
    BY DEF Init, AllHeld
  <1>2. OwnerInv /\ AllHeld /\ [Next]_vars => AllHeld'
    BY HeldStep
  <1> QED
    BY <1>1, <1>2, OwnerAlways, PTL DEF Spec

\* Every piece that counts as being downloaded is some live task's, if
\* write_piece does not return an error.
THEOREM NothingStranded == ASSUME "write" \notin Faults
                           PROVE  Spec => []NoPieceStranded
  <1>1. ASSUME OwnerInv
        PROVE  \A p \in Peers, i \in Pieces : i \in Held(p) => pc[p] \notin {"ended", "joined"}
    BY <1>1, HeldIs, SwarmConstants DEF OwnerInv, Owned, TaskShape
  <1>2. OwnerInv /\ AllHeld => NoPieceStranded
    BY <1>1 DEF AllHeld, NoPieceStranded
  <1> QED
    BY <1>2, HeldAlways, OwnerAlways, PTL

\* Where no write fails the pieces, the guards, the tasks and the disk agree at
\* every step.
THEOREM SwarmInvAlways == ASSUME "write" \notin Faults, "lateWrite" \notin Faults
                          PROVE  Spec => []SwarmInv
  BY OwnerAlways, HeldAlways, WrittenAlways, PTL DEF SwarmInv

-----------------------------------------------------------------------------
(***************************************************************************)
(* The loop of run_download_stream: connections are bounded, and it gives  *)
(* up only after it tried every address.                                   *)
(***************************************************************************)
\* Every address that was queued waits or has a task; a closed channel is empty;
\* while the loop waits with no task, nobody is left to connect to.
TriedInv ==
    /\ \A p \in seen : pc[p] = "absent" => p \in pending
    /\ phase = "running" /\ ~listening => chan = {} /\ ~open
    /\ phase = "running" /\ main = "select" /\ Active = {} => pending = {} /\ pex = {}
    /\ GaveUpTriedAll

LoopInv == TriedInv /\ ActiveBounded

LEMMA ActiveIs == ActiveBounded <=> Cardinality(Active) <= MaxActive
  BY DEF ActiveBounded, Active

LEMMA ActiveFinite ==
    /\ IsFiniteSet(Active) /\ Cardinality(Active) \in Nat
    /\ Cardinality(Active) = 0 <=> Active = {}
  <1>1. Active \subseteq Peers
    BY DEF Active
  <1>2. IsFiniteSet(Active)
    BY <1>1, SwarmConstants, FS_Subset
  <1> QED
    BY <1>2, FS_CardinalityType, FS_EmptySet

LEMMA ActiveShrinks == ASSUME ActiveBounded, Active' \subseteq Active PROVE ActiveBounded'
  <1>1. Cardinality(Active') <= Cardinality(Active) /\ Cardinality(Active') \in Nat
    BY ActiveFinite, FS_Subset, FS_CardinalityType
  <1> QED
    BY <1>1, ActiveFinite, SwarmConstants DEF ActiveBounded, Active

\* What a step of a peer's task does to what the loop looks at.
LEMMA PeerStays ==
    ASSUME TypeOK, NEW p \in Peers,
           PeerStep(p) \/ Message(p) \/ Drop(p) \/ WriteError(p)
    PROVE  /\ phase = "running"
           /\ UNCHANGED <<phase, outcome, main, seen, pending, chan, open, listening>>
           /\ p \in Active /\ Active' = Active
           /\ \A q \in Peers : pc'[q] = "absent" <=> pc[q] = "absent"
  <1> USE DEF PeerStep, Message, Drop, WriteError, Connect, PeerTop, Check, WritePiece, Settle,
         NextOne, Choke, Unchoke, Have, Bitfield, Gossip, PieceComplete, Reading, Goto,
         mainVars, runVars
  <1>1. phase = "running" /\ UNCHANGED <<phase, outcome, main, seen, pending, chan, open, listening>>
    OBVIOUS
  <1>2. pc[p] \notin {"absent", "joined"} /\ pc'[p] \notin {"absent", "joined"}
    BY DEF TypeOK
  <1>3. \A q \in Peers \ {p} : pc'[q] = pc[q]
    BY PeerMoves
  <1> QED
    BY <1>1, <1>2, <1>3 DEF Active

\* The head of the loop starts as many tasks as there are free places.
LEMMA TopActive ==
    ASSUME TypeOK, QueueInv, LoopInv, Top
    PROVE  ActiveBounded' /\ (Active' = {} => pending' = {})
  <1> DEFINE queue == pending \union (pex \ seen)
             free  == MaxActive - Cardinality(Active)
  <1>1. PICK S \in SUBSET queue :
          /\ Cardinality(S) <= free
          /\ S # queue => Cardinality(S) = free
          /\ pending' = queue \ S
          /\ pc' = [p \in Peers |-> IF p \in S THEN "connect" ELSE pc[p]]
    BY DEF Top
  <1>2. S \subseteq Peers
    BY <1>1 DEF TypeOK
  <1>3. Active' = Active \union S
    BY <1>1, <1>2 DEF Active
  <1>4. IsFiniteSet(S) /\ Cardinality(S) \in Nat
    BY <1>2, SwarmConstants, FS_Subset, FS_CardinalityType
  <1>5. IsFiniteSet(Active \intersect S)
    BY <1>4, FS_Subset
  <1>6. Cardinality(Active \intersect S) \in Nat
    BY <1>5, FS_CardinalityType
  <1>7. Cardinality(Active \union S) = Cardinality(Active) + Cardinality(S) - Cardinality(Active \intersect S)
    BY <1>4, ActiveFinite, FS_Union
  <1>8. Cardinality(Active') <= MaxActive
    BY <1>1, <1>3, <1>4, <1>6, <1>7, ActiveFinite, SwarmConstants
  <1>9. ASSUME Active' = {} PROVE pending' = {}
    <2>1. Active = {} /\ S = {}
      BY <1>3, <1>9
    <2>2. Cardinality(S) # free
      BY <2>1, FS_EmptySet, SwarmConstants
    <2> QED
      BY <1>1, <2>1, <2>2
  <1> QED
    BY <1>8, <1>9 DEF ActiveBounded, Active

\* How the loop is left.
LEMMA LeaveTried ==
    ASSUME OwnerInv, LoopInv, LeaveComplete \/ NothingLeft
    PROVE  LoopInv'
  <1> USE DEF OwnerInv
  <1>1. /\ pc' = [p \in Peers |-> IF pc[p] = "absent" THEN "absent" ELSE "joined"]
        /\ UNCHANGED <<seen, pending, pex, chan>> /\ phase' = "exiting"
        /\ outcome' = IF \A i \in Pieces : states'[i] = "done" THEN "ok" ELSE "incomplete"
    BY DEF LeaveComplete, NothingLeft, Leave, mainVars
  <1>2. Active' = {}
    BY <1>1 DEF Active
  <1>3. \A p \in seen' : pc'[p] = "absent" => p \in pending'
    BY <1>1 DEF LoopInv, TriedInv, TypeOK
  <1>4. CASE LeaveComplete
    <2>1. states' = states
      BY <1>4, LeaveKeeps
    <2>2. outcome' = "ok"
      BY <1>1, <1>4, <2>1 DEF LeaveComplete, IsComplete
    <2> QED
      BY <1>1, <1>2, <1>3, <2>2, ActiveShrinks DEF LoopInv, TriedInv, GaveUpTriedAll
  <1>5. CASE NothingLeft
    <2>1. chan = {} /\ pending = {} /\ pex = {}
      BY <1>5 DEF NothingLeft, LoopInv, TriedInv
    <2>2. \A p \in seen' : pc'[p] = "joined"
      BY <1>1, <1>3, <2>1 DEF TypeOK
    <2> QED
      BY <1>1, <1>2, <1>3, <2>1, <2>2, ActiveShrinks DEF LoopInv, TriedInv, GaveUpTriedAll
  <1> QED
    BY <1>4, <1>5

LEMMA LoopInit == Init => LoopInv
  <1> SUFFICES ASSUME Init
               PROVE  LoopInv
    OBVIOUS
  <1>1. Active = {}
    BY DEF Init, Active
  <1> QED
    BY <1>1, FS_EmptySet, SwarmConstants, ActiveIs DEF Init, LoopInv, TriedInv, GaveUpTriedAll

LEMMA LoopStep == OwnerInv /\ LoopInv /\ [Next]_vars => LoopInv'
  <1> SUFFICES ASSUME TypeOK, QueueInv, OwnerInv, LoopInv, [Next]_vars
               PROVE  LoopInv'
    BY DEF OwnerInv
  <1> USE DEF LoopInv, TriedInv, GaveUpTriedAll
  <1>1. CASE UNCHANGED vars \/ GiveUp
    BY <1>1, ActiveShrinks DEF GiveUp, vars, mainVars, runVars, Active
  <1>2. CASE ChannelCloses \/ DiscoveryEnds
    <2>1. Active' = Active /\ UNCHANGED <<seen, pending, pex, chan, phase, outcome, pc>>
          /\ phase = "running"
      BY <1>2 DEF ChannelCloses, DiscoveryEnds, runVars, Active
    <2> QED
      BY <1>2, <2>1, ActiveShrinks DEF ChannelCloses, DiscoveryEnds
  <1>3. ASSUME NEW i \in Pieces, Lands(i) \/ LandFails(i)
        PROVE  LoopInv'
    <2>1. Active' = Active /\ UNCHANGED <<main, seen, pending, pex, chan, open, listening, phase, outcome, pc>>
      BY <1>3 DEF Lands, LandFails, runVars, mainVars, Active
    <2> QED
      BY <2>1, ActiveShrinks
  <1>4. CASE Start \/ Exit \/ Kill
    <2>1. Active' = {} /\ seen' = {} /\ main' = "top" /\ listening' = TRUE /\ phase' # "exiting"
      BY <1>4 DEF Start, Exit, Kill, Forget, Active
    <2> QED
      BY <2>1, ActiveShrinks
  <1>5. CASE LeaveComplete \/ NothingLeft
    BY <1>5, LeaveTried
  <1>6. CASE Top
    <2>1. /\ pex' = {} /\ seen' = seen \union pex /\ UNCHANGED <<phase, chan, open, listening>>
          /\ phase = "running"
      BY <1>6 DEF Top, runVars
    <2>2. \A p \in seen' : pc'[p] = "absent" => p \in pending'
      BY <1>6 DEF Top, TypeOK
    <2> QED
      BY <1>6, <2>1, <2>2, TopActive
  <1>7. ASSUME NEW p \in Peers, Receive(p)
        PROVE  LoopInv'
    <2>1. /\ Active' = Active /\ pc' = pc /\ main' = "top" /\ phase' = "running" /\ chan # {}
          /\ UNCHANGED <<open, listening>> /\ listening
          /\ seen' = seen \union {p} /\ pending' = IF p \in seen THEN pending ELSE pending \union {p}
      BY <1>7 DEF Receive, runVars, Active
    <2> QED
      BY <2>1, ActiveShrinks
  <1>8. ASSUME NEW p \in Peers, Announce(p)
        PROVE  LoopInv'
    <2>1. /\ Active' = Active /\ phase = "running" /\ open
          /\ UNCHANGED <<phase, outcome, pc, main, seen, pending, pex, open, listening>>
      BY <1>8 DEF Announce, runVars, Active
    <2> QED
      BY <2>1, ActiveShrinks
  <1>9. ASSUME NEW p \in Peers, Join(p)
        PROVE  LoopInv'
    <2>1. /\ phase = "running" /\ main' = "top" /\ pc[p] = "ended" /\ pc' = [pc EXCEPT ![p] = "joined"]
          /\ UNCHANGED <<phase, outcome, seen, pending, pex, chan, open, listening>>
      BY <1>9 DEF Join, Goto, runVars
    <2>2. Active' \subseteq Active
      BY <2>1 DEF Active, TypeOK
    <2> QED
      BY <2>1, <2>2, ActiveShrinks DEF TypeOK
  <1>10. ASSUME NEW p \in Peers, PeerStep(p) \/ Message(p) \/ Drop(p) \/ WriteError(p)
         PROVE  LoopInv'
    <2>1. /\ phase = "running" /\ Active' # {}
          /\ UNCHANGED <<phase, outcome, main, seen, pending, chan, open, listening>>
      BY <1>10, PeerStays
    <2>2. \A q \in seen : pc'[q] = "absent" => pc[q] = "absent"
      BY <1>10, PeerStays DEF TypeOK
    <2>3. ActiveBounded'
      BY <1>10, PeerStays, ActiveShrinks
    <2> QED
      BY <2>1, <2>2, <2>3
  <1> QED
    BY <1>1, <1>2, <1>3, <1>4, <1>5, <1>6, <1>7, <1>8, <1>9, <1>10 DEF Next, MainStep

LEMMA LoopAlways == Spec => []LoopInv
  BY OwnerAlways, LoopInit, LoopStep, PTL DEF Spec

\* Never more tasks than max_concurrent, ended ones that were not yet joined
\* included, however addresses arrive.
THEOREM ConnectionsBounded == Spec => []ActiveBounded
  BY LoopAlways, PTL DEF LoopInv

\* "Download incomplete" is said only after every address of the channel, the
\* pending queue and PEX was tried.
THEOREM GivesUpLast == Spec => []GaveUpTriedAll
  BY LoopAlways, PTL DEF LoopInv, TriedInv
=============================================================================
