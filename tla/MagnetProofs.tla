----------------------------- MODULE MagnetProofs -----------------------------
(***************************************************************************)
(* Proofs about the way from a magnet link to its metadata, for every DHT, *)
(* every set of peers and every length of the metadata: the lookup loses   *)
(* nothing it was told, the vector of chunks fits the size announced last, *)
(* and an honest peer is enough if it wants the id we use.  And, for every *)
(* batch of links, the history has every download that ended.              *)
(***************************************************************************)
EXTENDS MagnetSession, FiniteSetTheorems, TLAPS

-----------------------------------------------------------------------------
(***************************************************************************)
(* The lookup in the DHT.                                                  *)
(***************************************************************************)
\* A node is asked, or waits to be.
Listed(m) == m \in queried \/ \E c \in cand : c.node = m

\* Nothing that was told is lost: it is listed, or it is a peer that was found.
LookupInv ==
    /\ DhtTypeOK
    /\ lookup = "resolve" => resolved = {} /\ cand = {} /\ queried = {} /\ found = {}
    /\ lookup = "wait" => round < MaxRounds
    /\ \A m \in resolved : Listed(m)
    /\ \A n \in queried \ asked :
        Tracks[n] \subseteq found /\ \A m \in Knows[n] : Listed(m)
    /\ lookup = "done" =>
        \/ resolved = {} /\ queried = {}
        \/ ~GoesOn

LEMMA DhtFrame == [Next]_vars => DhtNext \/ DhtReset \/ UNCHANGED dhtVars
<1> SUFFICES ASSUME [Next]_vars PROVE DhtNext \/ DhtReset \/ UNCHANGED dhtVars
    OBVIOUS
<1>1. CASE BatchStep \/ UNCHANGED vars
    BY <1>1 DEF BatchStep, NextLink, Return, PlainDownload, SaveText, SaveEnd, vars
<1>2. CASE MagnetStep
    BY <1>2 DEF MagnetStep, TrackersTell, SearchEnds, TryPeer, PeerFailed, NoMetadata,
                StartTransfer, TransferEnds
<1>3. CASE Search \/ Exchange \/ Transfer
    BY <1>3 DEF Search, Exchange, Transfer
<1>4. CASE PlainRefused \/ PrepareFails \/ TransferIncomplete \/ OtherProcess
    BY <1>4 DEF PlainRefused, PrepareFails, TransferIncomplete, OtherProcess
<1>5. CASE SaveFails \/ SaveBreaks
    BY <1>5 DEF SaveFails, SaveBreaks
<1> QED BY <1>1, <1>2, <1>3, <1>4, <1>5 DEF Next, Stopped

LEMMA IdleLookup == ASSUME DhtIdle PROVE LookupInv
BY DhtConstants DEF DhtIdle, LookupInv, DhtTypeOK

LEMMA ResetLookup == ASSUME DhtReset PROVE LookupInv'
BY DhtConstants DEF DhtReset, LookupInv, DhtTypeOK

LEMMA LookupStep == LookupInv /\ DhtNext => LookupInv'
<1> SUFFICES ASSUME LookupInv, DhtNext PROVE LookupInv'
    OBVIOUS
<1> USE DEF LookupInv, DhtTypeOK, Listed
<1>1. ASSUME NEW S \in SUBSET Bootstrap, Resolve(S) PROVE LookupInv'
    <2>1. cand' \subseteq Candidates
        BY <1>1, DhtConstants DEF Resolve, Candidates
    <2>2. \A m \in S : \E c \in cand' : c.node = m
        <3> SUFFICES ASSUME NEW m \in S PROVE \E c \in cand' : c.node = m
            OBVIOUS
        <3>1. [node |-> m, teller |-> Dns] \in cand'
            BY <1>1 DEF Resolve
        <3> QED BY <3>1
    <2> QED BY <1>1, <2>1, <2>2 DEF Resolve
<1>2. CASE BindFails
    BY <1>2 DEF BindFails
<1>3. CASE Query
    <2>1. PICK S \in Drained :
            LET batch == CandidateNodes(S) \ queried
            IN  /\ cand' = cand \ S
                /\ queried' = queried \union batch
                /\ asked' = asked \union batch
                /\ IF batch = {} THEN round' = round + 1 /\ UNCHANGED lookup
                   ELSE lookup' = "wait" /\ UNCHANGED round
        BY <1>3 DEF Query
    <2>2. S \subseteq cand /\ CandidateNodes(S) \subseteq Nodes
        BY DEF Drained, CandidateNodes, Candidates
    <2>3. \A m : Listed(m) => Listed(m)'
        BY <2>1, <2>2 DEF CandidateNodes
    <2>4. /\ cand' \subseteq Candidates /\ queried' \subseteq Nodes /\ asked' \subseteq queried'
          /\ queried' \ asked' \subseteq queried \ asked
          /\ lookup' \in {"pick", "wait"}
          /\ UNCHANGED <<resolved, found>>
        BY <1>3, <2>1, <2>2 DEF Query
    <2>5. round' \in 0 .. MaxRounds /\ (lookup' = "wait" => round' < MaxRounds)
        BY <1>3, <2>1, DhtConstants DEF Query, GoesOn
    <2> HIDE DEF Listed
    <2> QED BY <2>3, <2>4, <2>5
<1>4. ASSUME NEW n \in Nodes, Answer(n) PROVE LookupInv'
    <2>1. /\ asked' = asked \ {n} /\ found' = found \union Tracks[n] /\ lookup' = "wait"
          /\ cand' = cand \union {[node |-> m, teller |-> n] : m \in Knows[n] \ queried}
          /\ UNCHANGED <<resolved, queried, round>>
        BY <1>4 DEF Answer
    <2>2. cand' \subseteq Candidates /\ found' \subseteq Peers
        BY <2>1, DhtConstants DEF Candidates
    <2>3. \A m \in Knows[n] : Listed(m)'
        <3> SUFFICES ASSUME NEW m \in Knows[n], m \notin queried PROVE \E c \in cand' : c.node = m
            BY <2>1
        <3>1. [node |-> m, teller |-> n] \in cand'
            BY <2>1
        <3> QED BY <3>1
    <2>4. \A m : Listed(m) => Listed(m)'
        BY <2>1
    <2>5. round' < MaxRounds /\ asked' \subseteq queried'
        BY <1>4, <2>1 DEF Answer
    <2> HIDE DEF Listed
    <2>6. \A k \in queried' \ asked' : Tracks[k] \subseteq found' /\ \A m \in Knows[k] : Listed(m)'
        BY <2>1, <2>3, <2>4
    <2> QED BY <2>1, <2>2, <2>4, <2>5, <2>6
<1>5. CASE BatchEnds
    BY <1>5, DhtConstants DEF BatchEnds
<1>6. CASE LookupEnds
    BY <1>6 DEF LookupEnds, GoesOn
<1> QED BY <1>1, <1>2, <1>3, <1>4, <1>5, <1>6 DEF DhtNext, DhtStep

LEMMA LookupAlways == Spec => []LookupInv
<1>1. Init => LookupInv
    BY IdleLookup DEF Init
<1>2. LookupInv /\ UNCHANGED dhtVars => LookupInv'
    BY DEF dhtVars, LookupInv, DhtTypeOK, Listed, GoesOn
<1>3. LookupInv /\ [Next]_vars => LookupInv'
    BY <1>2, DhtFrame, LookupStep, ResetLookup
<1> QED BY <1>1, <1>3, PTL DEF Spec

\* A lookup that stops because nobody is left to ask has asked everyone it was
\* told of and kept every peer, for any DHT, batch size and order of answers.
THEOREM LookupLosesNothing == Spec => []LookupExhaustive
<1>1. LookupInv => LookupExhaustive
    <2> SUFFICES ASSUME LookupInv, lookup = "done", asked = {}, round < MaxRounds,
                        Cardinality(found) < PeerLimit
                 PROVE  /\ resolved \subseteq queried
                        /\ \A n \in queried : Knows[n] \subseteq queried /\ Tracks[n] \subseteq found
        BY DEF LookupExhaustive
    <2>1. CASE resolved = {} /\ queried = {}
        BY <2>1
    <2>2. CASE ~GoesOn
        <3>1. cand = {}
            BY <2>2 DEF GoesOn
        <3>2. \A m : Listed(m) => m \in queried
            BY <3>1 DEF Listed
        <3> QED BY <3>2 DEF LookupInv
    <2> QED BY <2>1, <2>2 DEF LookupInv
<1> QED BY <1>1, LookupAlways, PTL

-----------------------------------------------------------------------------
(***************************************************************************)
(* The exchange with one peer, in every environment.                       *)
(***************************************************************************)
PeersInv == all_peers \subseteq Peers

FetchInv ==
    /\ FetchTypeOK
    /\ fetch = "idle" => ut = None /\ announced = None /\ chunks = <<>> /\ upto = 0 /\ requests = {}
    /\ ChunksSized

Kinds == {"nothing", "right", "wrong"}

LEMMA PeersStep == LookupInv /\ PeersInv /\ [Next]_vars => PeersInv'
<1> SUFFICES ASSUME LookupInv, PeersInv, [Next]_vars PROVE PeersInv'
    OBVIOUS
<1>1. all_peers' \in {all_peers, {}} \/ all_peers' \subseteq Announced
         \/ all_peers' = all_peers \union found
    <2>1. CASE BatchStep \/ UNCHANGED vars
        BY <2>1 DEF BatchStep, NextLink, Return, PlainDownload, SaveText, SaveEnd, Ends, vars, sessionVars
    <2>2. CASE MagnetStep
        BY <2>2 DEF MagnetStep, TrackersTell, SearchEnds, TryPeer, PeerFailed, NoMetadata,
                    StartTransfer, TransferEnds, Ends, sessionVars
    <2>3. CASE Search \/ Exchange \/ Transfer
        BY <2>3 DEF Search, Exchange, Transfer, sessionVars
    <2>4. CASE PlainRefused \/ PrepareFails \/ TransferIncomplete \/ OtherProcess
        BY <2>4 DEF PlainRefused, PrepareFails, TransferIncomplete, OtherProcess, Ends, sessionVars
    <2>5. CASE SaveFails \/ SaveBreaks
        BY <2>5 DEF SaveFails, SaveBreaks
    <2> QED BY <2>1, <2>2, <2>3, <2>4, <2>5 DEF Next, Stopped
<1> QED BY <1>1, SessionConstants DEF PeersInv, LookupInv, DhtTypeOK

LEMMA FetchFrame == ASSUME PeersInv, [Next]_vars PROVE FetchNext \/ FetchReset \/ UNCHANGED fetchVars
<1>1. CASE BatchStep \/ UNCHANGED vars
    BY <1>1 DEF BatchStep, NextLink, Return, PlainDownload, SaveText, SaveEnd, vars
<1>2. CASE MagnetStep
    BY <1>2 DEF MagnetStep, TrackersTell, SearchEnds, TryPeer, PeerFailed, NoMetadata,
                StartTransfer, TransferEnds, FetchNext, PeersInv
<1>3. CASE Search \/ Exchange \/ Transfer
    BY <1>3 DEF Search, Exchange, Transfer, FetchNext
<1>4. CASE PlainRefused \/ PrepareFails \/ TransferIncomplete \/ OtherProcess
    BY <1>4 DEF PlainRefused, PrepareFails, TransferIncomplete, OtherProcess
<1>5. CASE SaveFails \/ SaveBreaks
    BY <1>5 DEF SaveFails, SaveBreaks
<1> QED BY <1>1, <1>2, <1>3, <1>4, <1>5 DEF Next, Stopped

LEMMA DivBounds ==
    ASSUME NEW a \in Nat, NEW b \in Nat \ {0}
    PROVE  /\ a \div b \in Nat
           /\ (a \div b) * b <= a
           /\ a < (a \div b) * b + b
BY Z3

LEMMA MulMono ==
    ASSUME NEW a \in Int, NEW b \in Int, NEW s \in Nat, a <= b
    PROVE  a * s <= b * s
BY Z3

LEMMA DivMono ==
    ASSUME NEW a \in Nat, NEW b \in Nat, NEW s \in Nat \ {0}, a <= b
    PROVE  a \div s <= b \div s
<1> DEFINE p == a \div s
           q == b \div s
<1>1. p \in Nat /\ q \in Nat /\ p * s <= a /\ b < q * s + s
    BY DivBounds
<1> HIDE DEF p, q
<1>2. CASE q < p
    <2>1. (q + 1) * s <= p * s
        BY <1>1, <1>2, MulMono
    <2>2. (q + 1) * s = q * s + s /\ q * s \in Nat /\ p * s \in Nat
        BY <1>1, Z3
    <2> QED BY <1>1, <2>1, <2>2
<1>3. p <= q
    BY <1>1, <1>2
<1> QED BY <1>3 DEF p, q

LEMMA ChunkNumbers ==
    ASSUME NEW size \in 1 .. MaxInfo
    PROVE  NumChunks(size) \in Nat /\ NumChunks(size) >= 1 /\ NumChunks(size) <= NumChunks(MaxInfo)
<1>1. MaxInfo \in Nat /\ ChunkSize \in Nat \ {0}
    BY MetadataConstants
<1> DEFINE a == size + ChunkSize - 1
           b == MaxInfo + ChunkSize - 1
<1>2. a \in Nat /\ b \in Nat /\ a <= b /\ ChunkSize <= a
    BY <1>1
<1>3. NumChunks(size) = a \div ChunkSize /\ NumChunks(MaxInfo) = b \div ChunkSize
    BY DEF NumChunks
<1> HIDE DEF a, b
<1>4. a \div ChunkSize <= b \div ChunkSize /\ ChunkSize \div ChunkSize <= a \div ChunkSize
    BY <1>1, <1>2, DivMono
<1>5. ChunkSize \div ChunkSize = 1
    BY <1>1, Z3
<1> QED BY <1>1, <1>2, <1>3, <1>4, <1>5, DivBounds

LEMMA IndexNumbers ==
    NumChunks(MaxInfo) \in Nat /\ Indices \subseteq Nat
<1>1. MaxInfo \in 1 .. MaxInfo
    BY MetadataConstants
<1>2. NumChunks(MaxInfo) \in Nat
    BY <1>1, ChunkNumbers
<1> QED BY <1>2 DEF Indices

LEMMA ResizedFacts ==
    ASSUME chunks \in Seq(Kinds), NEW n \in Nat
    PROVE  /\ Resized(n) \in Seq(Kinds) /\ Len(Resized(n)) = n
           /\ \A j \in 1 .. n : Resized(n)[j] = IF j <= Len(chunks) THEN chunks[j] ELSE "nothing"
<1>1. \A i \in 1 .. n : (IF i <= Len(chunks) THEN chunks[i] ELSE "nothing") \in Kinds
    BY DEF Kinds
<1> QED BY <1>1 DEF Resized

\* A handshake that passes sizes the chunks, and asks for those not asked for.
LEMMA HandshakeStep ==
    ASSUME FetchInv, NEW id \in Ids \union {None}, NEW size \in Sizes \union {None},
           ExtHandshake(id, size)
    PROVE  FetchInv'
<1> USE DEF FetchInv, FetchTypeOK
<1>1. /\ Open /\ ut' \in Ids \union {None} /\ announced' \in Sizes \union {None}
      /\ UNCHANGED remote
    BY DEF ExtHandshake
<1>2. CASE ut' = None \/ announced' = None
    <2>1. UNCHANGED <<fetch, chunks, upto, requests>>
        BY <1>2 DEF ExtHandshake
    <2> QED BY <1>1, <1>2, <2>1 DEF ChunksSized, Open
<1>3. CASE ut' # None /\ announced' # None /\ announced' \notin 1 .. MaxInfo
    <2>1. fetch' = "err" /\ UNCHANGED <<chunks, upto, requests>>
        BY <1>3 DEF ExtHandshake
    <2> QED BY <1>1, <2>1 DEF ChunksSized, Open
<1>4. CASE ut' # None /\ announced' # None /\ announced' \in 1 .. MaxInfo
    <2> DEFINE n == NumChunks(announced')
    <2>1. /\ chunks' = Resized(n) /\ requests' = requests \union (upto .. n - 1) /\ upto' = n
          /\ fetch' \in {"open", "send"}
        BY <1>4 DEF ExtHandshake, RequestUpTo
    <2>2. n \in Nat /\ n >= 1 /\ n <= NumChunks(MaxInfo)
        BY <1>4, ChunkNumbers
    <2> HIDE DEF n
    <2>3. Resized(n) \in Seq(Kinds) /\ Len(Resized(n)) = n
        BY <2>2, ResizedFacts DEF Kinds
    <2>4. NumChunks(MaxInfo) \in Nat
        BY IndexNumbers
    <2>5. requests' \subseteq Indices
        BY <2>1, <2>2, <2>4 DEF Indices
    <2>6. chunks' # <<>>
        BY <2>1, <2>2, <2>3
    <2>7. FetchTypeOK'
        BY <1>1, <2>1, <2>2, <2>3, <2>5 DEF Kinds
    <2>8. NumChunks(announced)' = n
        BY DEF n, NumChunks
    <2>9. Len(chunks)' = n /\ (upto = Len(chunks))'
        BY <2>1, <2>3
    <2>10. ChunksSized'
        BY <2>6, <2>8, <2>9 DEF ChunksSized
    <2> QED BY <1>1, <2>1, <2>7, <2>10 DEF Open
<1> QED BY <1>2, <1>3, <1>4

\* Data changes a chunk at most, never how many there are.
LEMMA DataStep ==
    ASSUME FetchInv, NEW ext, NEW i \in Indices, NEW quality \in {"right", "wrong"}, NEW len,
           Data(ext, i, quality, len), requests' \subseteq requests
    PROVE  FetchInv'
<1> USE DEF FetchInv, FetchTypeOK
<1>1. Open /\ UNCHANGED <<remote, ut, announced, upto>>
    BY DEF Data
<1>2. CASE UNCHANGED <<chunks, fetch>>
    BY <1>1, <1>2 DEF ChunksSized, Open
<1>3. CASE ~UNCHANGED <<chunks, fetch>>
    <2>1. /\ chunks' = IF i < Len(chunks) THEN [chunks EXCEPT ![i + 1] = quality] ELSE chunks
          /\ fetch' \in {"open", "ok", "err"}
        BY <1>3 DEF Data
    <2>2. i \in Nat
        BY IndexNumbers
    <2>3. chunks \in Seq(Kinds) /\ quality \in Kinds /\ (i < Len(chunks) => i + 1 \in 1 .. Len(chunks))
        BY <2>2 DEF Kinds
    <2>4. chunks' \in Seq(Kinds) /\ Len(chunks') = Len(chunks)
        BY <2>1, <2>3
    <2>5. chunks # <<>> => chunks' # <<>>
        BY <2>3, <2>4
    <2> QED BY <1>1, <2>1, <2>4, <2>5 DEF ChunksSized, Open, Kinds
<1> QED BY <1>2, <1>3

LEMMA FetchInvStep == FetchInv /\ FetchNext => FetchInv'
<1> SUFFICES ASSUME FetchInv, FetchNext PROVE FetchInv'
    OBVIOUS
<1> USE DEF FetchInv, FetchTypeOK
<1>1. ASSUME NEW p \in Peers, FetchConnect(p) PROVE FetchInv'
    BY <1>1 DEF FetchConnect, ChunksSized
<1>2. CASE HonestHandshake \/ AnyHandshake
    BY <1>2, HandshakeStep, MetadataConstants DEF HonestHandshake, AnyHandshake
<1>3. ASSUME NEW i \in Indices, HonestReply(i) PROVE FetchInv'
    <2>1. Data(OwnId, i, "right", TrueLen(i)) /\ requests' \subseteq requests
        BY <1>3 DEF HonestReply
    <2> QED BY <2>1, DataStep
<1>4. CASE AnyData
    BY <1>4, DataStep DEF AnyData
<1>5. CASE DeadlinePasses \/ AnyFails
    BY <1>5 DEF DeadlinePasses, AnyFails, FetchFails, ChunksSized, Open
<1>6. CASE PeerReads
    BY <1>6 DEF PeerReads, ChunksSized
<1> QED BY <1>1, <1>2, <1>3, <1>4, <1>5, <1>6 DEF FetchNext, FetchStep

LEMMA FetchAlways == Spec => [](LookupInv /\ PeersInv /\ FetchInv)
<1>1. Init => LookupInv /\ PeersInv /\ FetchInv
    BY IdleLookup DEF Init, PeersInv, FetchIdle, FetchInv, FetchTypeOK, ChunksSized, Open
<1>2. FetchReset => FetchInv'
    <2> SUFFICES ASSUME FetchReset PROVE FetchInv'
        OBVIOUS
    <2>1. FetchTypeOK' /\ fetch' = "idle"
        BY DEF FetchReset, FetchTypeOK
    <2> QED BY <2>1 DEF FetchReset, FetchInv, ChunksSized
<1>3. FetchInv /\ UNCHANGED fetchVars => FetchInv'
    BY DEF fetchVars, FetchInv, FetchTypeOK, ChunksSized, Open
<1>4. PeersInv /\ FetchInv /\ [Next]_vars => FetchInv'
    BY <1>2, <1>3, FetchFrame, FetchInvStep
<1> QED BY <1>1, <1>4, LookupAlways, PeersStep, PTL DEF Spec

\* The values of the state of the lookup and of the exchange, whatever nodes and
\* peers send: requests stay inside the longest metadata accepted.
THEOREM MagnetTypeCorrect == Spec => [](DhtTypeOK /\ FetchTypeOK)
<1>1. LookupInv /\ FetchInv => DhtTypeOK /\ FetchTypeOK
    BY DEF LookupInv, FetchInv
<1> QED BY <1>1, FetchAlways, PTL

\* However a peer repeats and changes its handshake, the vector that is tested
\* for being complete is not empty and fits the size announced last.
THEOREM ChunksFitSize == Spec => []ChunksSized
<1>1. FetchInv => ChunksSized
    BY DEF FetchInv
<1> QED BY <1>1, FetchAlways, PTL

-----------------------------------------------------------------------------
(***************************************************************************)
(* An honest peer that happens to choose our id.                           *)
(***************************************************************************)
SameIds == \A p \in Honest : IdOf[p] = OwnId

\* Before the handshake of the peer nothing is known; after it the size is the
\* true one, every chunk is missing or right, and the missing ones are asked for.
Before == ut = None /\ announced = None /\ chunks = <<>> /\ upto = 0 /\ requests = {}

Whole(c) == \A j \in 1 .. Len(c) : c[j] \in {"nothing", "right"}

Asked(c, r) == \A j \in 1 .. Len(c) : c[j] = "nothing" => j - 1 \in r

Awaited(c) == \E j \in 1 .. Len(c) : c[j] = "nothing"

After ==
    /\ ut = OwnId /\ announced = InfoSize
    /\ Len(chunks) = NumChunks(InfoSize) /\ upto = Len(chunks)
    /\ requests \subseteq 0 .. Len(chunks) - 1
    /\ Whole(chunks) /\ Asked(chunks, requests) /\ Awaited(chunks)

HonestInv ==
    remote \in Honest => fetch \notin {"send", "err"} /\ (Open => Before \/ After)

LEMMA HonestHandshakeStep ==
    ASSUME SameIds, FetchInv, HonestInv, HonestHandshake
    PROVE  HonestInv'
<1> DEFINE n == NumChunks(InfoSize)
<1>1. remote \in Honest /\ ExtHandshake(OwnId, InfoSize)
    BY DEF HonestHandshake, SameIds
<1>2. OwnId # None /\ InfoSize # None /\ InfoSize \in 1 .. MaxInfo
    BY MetadataConstants
<1>3. n \in Nat /\ n >= 1
    BY <1>2, ChunkNumbers
<1>4. /\ Open /\ ut' = OwnId /\ announced' = InfoSize
      /\ chunks' = Resized(n) /\ requests' = requests \union (upto .. n - 1) /\ upto' = n
      /\ fetch' = "open" /\ UNCHANGED remote
    BY <1>1, <1>2 DEF ExtHandshake, RequestUpTo
<1> HIDE DEF n
<1>5. chunks \in Seq(Kinds) /\ Len(chunks) \in Nat
    BY DEF FetchInv, FetchTypeOK, Kinds
<1>6. /\ Len(chunks') = n
      /\ \A j \in 1 .. n : chunks'[j] = IF j <= Len(chunks) THEN chunks[j] ELSE "nothing"
    BY <1>3, <1>4, <1>5, ResizedFacts
<1>7. Before \/ After
    BY <1>1, <1>4 DEF HonestInv
<1>8. CASE Before
    <2>1. \A j \in 1 .. n : chunks'[j] = "nothing"
        BY <1>6, <1>8 DEF Before
    <2>2. requests' = 0 .. n - 1
        BY <1>4, <1>8 DEF Before
    <2>3. Whole(chunks') /\ Asked(chunks', requests') /\ Awaited(chunks')
        BY <1>3, <1>6, <2>1, <2>2 DEF Whole, Asked, Awaited
    <2>4. After'
        BY <1>4, <1>6, <2>2, <2>3 DEF After, n
    <2> QED BY <1>1, <1>4, <2>4 DEF HonestInv, Open
<1>9. CASE After
    <2>1. Len(chunks) = n /\ upto = n
        BY <1>9 DEF After, n
    <2>2. \A j \in 1 .. n : chunks'[j] = chunks[j]
        BY <1>3, <1>6, <2>1
    <2>3. requests' = requests
        BY <1>3, <1>4, <2>1
    <2>4. Whole(chunks') /\ Asked(chunks', requests') /\ Awaited(chunks')
        BY <1>6, <1>9, <2>1, <2>2, <2>3 DEF After, Whole, Asked, Awaited
    <2>5. requests' \subseteq 0 .. Len(chunks') - 1
        BY <1>6, <1>9, <2>1, <2>3 DEF After
    <2>6. After'
        BY <1>4, <1>6, <2>4, <2>5 DEF After, n
    <2> QED BY <1>1, <1>4, <2>6 DEF HonestInv, Open
<1> QED BY <1>7, <1>8, <1>9

LEMMA HonestReplyStep ==
    ASSUME FetchInv, HonestInv, NEW i \in Indices, HonestReply(i)
    PROVE  HonestInv'
<1>1. /\ remote \in Honest /\ i \in requests /\ requests' = requests \ {i}
      /\ Data(OwnId, i, "right", TrueLen(i))
    BY DEF HonestReply
<1>2. Open /\ UNCHANGED <<remote, ut, announced, upto>>
    BY <1>1 DEF Data
<1>3. After
    BY <1>1, <1>2 DEF HonestInv, Before
<1>4. Hears(OwnId) /\ announced # None /\ TrueLen(i) = ExpectedLen(i)
    BY <1>3, MetadataConstants DEF After, Hears, TrueLen, ExpectedLen
<1>5. chunks \in Seq(Kinds) /\ i \in Nat
    BY IndexNumbers DEF FetchInv, FetchTypeOK, Kinds
<1>6. i < Len(chunks) /\ i + 1 \in 1 .. Len(chunks)
    BY <1>1, <1>3, <1>5 DEF After
<1>7. /\ chunks' = [chunks EXCEPT ![i + 1] = "right"]
      /\ fetch' = IF \E j \in DOMAIN chunks : chunks'[j] = "nothing" THEN "open"
                  ELSE IF announced = InfoSize /\ \A j \in DOMAIN chunks : chunks'[j] = "right"
                  THEN "ok" ELSE "err"
    BY <1>1, <1>4, <1>6 DEF Data
<1>8. /\ Len(chunks') = Len(chunks) /\ DOMAIN chunks = 1 .. Len(chunks)
      /\ \A j \in 1 .. Len(chunks) : chunks'[j] = IF j = i + 1 THEN "right" ELSE chunks[j]
    BY <1>5, <1>6, <1>7
<1>9. Whole(chunks')
    BY <1>3, <1>8 DEF After, Whole
<1>10. Asked(chunks', requests')
    <2> SUFFICES ASSUME NEW j \in 1 .. Len(chunks'), chunks'[j] = "nothing"
                 PROVE  j - 1 \in requests'
        BY DEF Asked
    <2>1. j # i + 1 /\ chunks[j] = "nothing"
        BY <1>8
    <2>2. j - 1 \in requests /\ j - 1 # i
        BY <1>3, <1>5, <1>8, <2>1 DEF After, Asked
    <2> QED BY <1>1, <2>2
<1>11. CASE Awaited(chunks')
    <2>1. fetch' = "open"
        BY <1>7, <1>8, <1>11 DEF Awaited
    <2>2. requests' \subseteq 0 .. Len(chunks') - 1
        BY <1>1, <1>3, <1>8 DEF After
    <2>3. After'
        BY <1>2, <1>3, <1>8, <1>9, <1>10, <1>11, <2>2 DEF After
    <2> QED BY <2>1, <2>3 DEF HonestInv
<1>12. CASE ~Awaited(chunks')
    <2>1. \A j \in DOMAIN chunks : chunks'[j] = "right"
        BY <1>8, <1>9, <1>12 DEF Whole, Awaited
    <2>2. fetch' = "ok"
        BY <1>3, <1>7, <2>1 DEF After
    <2> QED BY <2>2 DEF HonestInv, Open
<1> QED BY <1>11, <1>12

LEMMA HonestStep == SameIds /\ FetchInv /\ HonestInv /\ FetchNext => HonestInv'
<1> SUFFICES ASSUME SameIds, FetchInv, HonestInv, FetchNext PROVE HonestInv'
    OBVIOUS
<1>1. ASSUME NEW p \in Peers, FetchConnect(p) PROVE HonestInv'
    BY <1>1 DEF FetchConnect, HonestInv, Before, FetchInv, Open
<1>2. CASE HonestHandshake
    BY <1>2, HonestHandshakeStep
<1>3. ASSUME NEW i \in Indices, HonestReply(i) PROVE HonestInv'
    BY <1>3, HonestReplyStep
<1>4. CASE AnyHandshake \/ AnyData \/ AnyFails
    BY <1>4 DEF AnyHandshake, AnyData, AnyFails, ExtHandshake, Data, FetchFails, HonestInv
<1>5. CASE DeadlinePasses
    <2>1. CASE remote \in Honest
        <3>1. Open /\ ut # None /\ requests = {}
            BY <1>5, <2>1 DEF DeadlinePasses
        <3>2. After
            BY <2>1, <3>1 DEF HonestInv, Before
        <3> QED BY <3>1, <3>2 DEF After, Asked, Awaited
    <2>2. CASE remote \notin Honest
        BY <1>5, <2>2 DEF DeadlinePasses, FetchFails, HonestInv
    <2> QED BY <2>1, <2>2
<1>6. CASE PeerReads
    BY <1>6 DEF PeerReads, HonestInv
<1> QED BY <1>1, <1>2, <1>3, <1>4, <1>5, <1>6 DEF FetchNext, FetchStep

LEMMA HonestAlways == ASSUME SameIds PROVE Spec => [](FetchInv /\ HonestInv)
<1>1. Init => HonestInv
    BY AddressConstants DEF Init, FetchIdle, HonestInv
<1>2. FetchReset => HonestInv'
    BY AddressConstants DEF FetchReset, HonestInv
<1>3. HonestInv /\ UNCHANGED fetchVars => HonestInv'
    BY DEF fetchVars, HonestInv, Before, After, Open
<1>4. PeersInv /\ FetchInv /\ HonestInv /\ [Next]_vars => HonestInv'
    BY <1>2, <1>3, FetchFrame, HonestStep
<1> QED BY <1>1, <1>4, FetchAlways, PTL DEF Spec

\* Of a peer that answers, and that chose the id of our own handshake, no reply
\* is dropped, also when it repeats its handshake.
THEOREM SameIdLosesNoReply == ASSUME SameIds PROVE Spec => []NoReplyLost
<1>1. FetchInv /\ HonestInv => NoReplyLost
    <2> SUFFICES ASSUME FetchInv, HonestInv, Open, remote \in Honest,
                        NEW i \in Indices, i < Len(chunks), chunks[i + 1] = "nothing"
                 PROVE  i \in requests
        BY DEF NoReplyLost
    <2>1. i \in Nat /\ chunks \in Seq(Kinds)
        BY IndexNumbers DEF FetchInv, FetchTypeOK, Kinds
    <2>2. i + 1 \in 1 .. Len(chunks)
        BY <2>1
    <2>3. After
        BY <2>2 DEF HonestInv, Before
    <2>4. (i + 1) - 1 \in requests
        BY <2>2, <2>3 DEF After, Asked
    <2> QED BY <2>1, <2>4
<1> QED BY <1>1, HonestAlways, PTL

\* Such a peer is not asked for the metadata in vain: what magnet_own_id
\* refutes for peers that choose another id.
THEOREM SameIdSuffices == ASSUME SameIds PROVE Spec => []HonestPeerSuffices
<1>1. HonestInv => HonestPeerSuffices
    BY DEF HonestInv, HonestPeerSuffices
<1> QED BY <1>1, HonestAlways, PTL

-----------------------------------------------------------------------------
(***************************************************************************)
(* The history.                                                            *)
(***************************************************************************)
Texts == Entries(Self) \union {OthersEntry, EndOfLine}

\* Where our own entries are in the file.
Logged == {i \in DOMAIN file : file[i] # EndOfLine /\ file[i].by = Self}

\* The downloads that ended and were saved, or are being saved.
Recorded ==
    IF stage = "save" THEN [k \in 1 .. Len(attempts) - 1 |-> attempts[k]] ELSE attempts

AttemptsInv ==
    /\ attempts \in Seq(Entries(Self))
    /\ stage = "save" => attempts # <<>>
    /\ link \in Nat
    /\ pen \in [Writers -> {"idle", "text", "lost"}]
    /\ stage # "saving" => pen[Self] = "idle"

\* While nobody disturbs a save no two entries are adjacent, so that each is a
\* line, and our entries are the downloads that were saved.
FileInv ==
    /\ file \in Seq(Texts)
    /\ pen \in [Writers -> {"idle", "text"}]
    /\ \A i \in 2 .. Len(file) : file[i] = EndOfLine \/ file[i - 1] = EndOfLine
    /\ (\A w \in Writers : pen[w] = "idle") => file = <<>> \/ file[Len(file)] = EndOfLine
    /\ \A k \in 1 .. Cardinality(Logged) : \E i \in Logged : Rank(Logged, i) = k
    /\ Pick(Logged) = Recorded

LogInv == AttemptsInv /\ (~disturbed => FileInv)

PickOf(f, S) == [k \in 1 .. Cardinality(S) |-> f[CHOOSE i \in S : Rank(S, i) = k]]

Ranked(S) == \A k \in 1 .. Cardinality(S) : \E i \in S : Rank(S, i) = k

\* A place after all others has the next rank and changes no other's.
LEMMA RankNext ==
    ASSUME NEW n \in Nat, NEW S \in SUBSET (1 .. n)
    PROVE  LET U == S \union {n + 1}
           IN  /\ Cardinality(S) \in Nat /\ Cardinality(U) = Cardinality(S) + 1
               /\ \A i \in S : /\ Rank(U, i) = Rank(S, i)
                               /\ Rank(S, i) \in Nat /\ Rank(S, i) <= Cardinality(S)
               /\ Rank(U, n + 1) = Cardinality(S) + 1
<1> DEFINE U == S \union {n + 1}
<1>1. IsFiniteSet(S)
    <2>1. IsFiniteSet(1 .. n)
        BY FS_Interval
    <2> QED BY <2>1, FS_Subset
<1>2. Cardinality(S) \in Nat
    BY <1>1, FS_CardinalityType
<1>3. n + 1 \notin S /\ \A i \in S : i \in Int /\ i <= n
    OBVIOUS
<1>4. Cardinality(U) = Cardinality(S) + 1
    BY <1>1, <1>3, FS_AddElement
<1>5. ASSUME NEW i \in S
      PROVE  Rank(U, i) = Rank(S, i) /\ Rank(S, i) \in Nat /\ Rank(S, i) <= Cardinality(S)
    <2>1. {j \in U : j <= i} = {j \in S : j <= i}
        BY <1>3
    <2>2. {j \in S : j <= i} \in SUBSET S
        OBVIOUS
    <2>3. Cardinality({j \in S : j <= i}) \in Nat /\ Cardinality({j \in S : j <= i}) <= Cardinality(S)
        BY <1>1, <2>2, FS_Subset, FS_CardinalityType
    <2> QED BY <2>1, <2>3 DEF Rank
<1>6. {j \in U : j <= n + 1} = U
    <2>1. \A j \in U : j <= n + 1
        BY <1>3
    <2> HIDE DEF U
    <2> QED BY <2>1
<1>7. Rank(U, n + 1) = Cardinality(S) + 1
    BY <1>4, <1>6 DEF Rank
<1> QED BY <1>2, <1>4, <1>5, <1>7

LEMMA PickNext ==
    ASSUME NEW f \in Seq(Texts), NEW S \in SUBSET (1 .. Len(f)), Ranked(S), NEW e \in Texts
    PROVE  LET U == S \union {Len(f) + 1}
               g == Append(f, e)
           IN  Ranked(U) /\ PickOf(g, U) = Append(PickOf(f, S), e)
<1> DEFINE n == Len(f)
           U == S \union {n + 1}
           g == Append(f, e)
           m == Cardinality(S)
           At(k) == CHOOSE i \in S : Rank(S, i) = k
           AtU(k) == CHOOSE i \in U : Rank(U, i) = k
<1>1. n \in Nat /\ S \in SUBSET (1 .. n)
    OBVIOUS
<1>2. /\ m \in Nat /\ Cardinality(U) = m + 1
      /\ \A i \in S : Rank(U, i) = Rank(S, i) /\ Rank(S, i) \in Nat /\ Rank(S, i) <= m
      /\ Rank(U, n + 1) = m + 1
    BY <1>1, RankNext
<1>3. g \in Seq(Texts) /\ Len(g) = n + 1 /\ g[n + 1] = e /\ \A i \in 1 .. n : g[i] = f[i]
    OBVIOUS
<1>4. \A k \in 1 .. m : At(k) \in S /\ Rank(S, At(k)) = k
    BY DEF Ranked
<1>5. n + 1 \notin S
    BY <1>1
<1> HIDE DEF U, g, m, n
<1>6. ASSUME NEW k \in 1 .. m
      PROVE  AtU(k) = At(k) /\ \E i \in U : Rank(U, i) = k
    <2>1. \A i : (i \in U /\ Rank(U, i) = k) <=> (i \in S /\ Rank(S, i) = k)
        <3>1. \A i : i \in U <=> i \in S \/ i = n + 1
            BY DEF U
        <3>2. Rank(U, n + 1) # k /\ n + 1 \notin S
            BY <1>2, <1>5
        <3> QED BY <1>2, <3>1, <3>2
    <2>2. AtU(k) = At(k)
        BY <2>1
    <2> QED BY <1>4, <2>1, <2>2
<1>7. AtU(m + 1) = n + 1
    <2>1. n + 1 \in U /\ Rank(U, n + 1) = m + 1
        BY <1>2 DEF U
    <2>2. ASSUME NEW i \in U, Rank(U, i) = m + 1 PROVE i = n + 1
        BY <1>2, <2>2 DEF U
    <2> QED BY <2>1, <2>2
<1>8. Ranked(U)
    <2>1. n + 1 \in U
        BY DEF U
    <2> QED BY <1>2, <1>6, <2>1 DEF Ranked
<1>9. PickOf(g, U) = [k \in 1 .. m + 1 |-> g[AtU(k)]]
    BY <1>2 DEF PickOf
<1>10. PickOf(f, S) = [k \in 1 .. m |-> f[At(k)]]
    BY DEF PickOf, m
<1>11. \A k \in 1 .. m : g[AtU(k)] = f[At(k)]
    BY <1>1, <1>3, <1>4, <1>6
<1>12. g[AtU(m + 1)] = e
    BY <1>3, <1>7
<1> HIDE DEF At, AtU
<1>13. PickOf(f, S) \in Seq(Texts) /\ Len(PickOf(f, S)) = m
    <2>1. \A k \in 1 .. m : At(k) \in 1 .. Len(f)
        BY <1>1, <1>4 DEF n
    <2>2. \A k \in 1 .. m : f[At(k)] \in Texts
        BY <2>1
    <2> QED BY <1>2, <1>10, <2>2
<1>14. Append(PickOf(f, S), e) = [k \in 1 .. m + 1 |-> IF k = m + 1 THEN e ELSE f[At(k)]]
    BY <1>2, <1>10, <1>13
<1>15. PickOf(g, U) = Append(PickOf(f, S), e)
    BY <1>2, <1>9, <1>11, <1>12, <1>14
<1> QED BY <1>8, <1>15 DEF U, g, n

LEMMA PickSame ==
    ASSUME NEW f, NEW g, NEW S, Ranked(S), \A i \in S : f[i] = g[i]
    PROVE  PickOf(f, S) = PickOf(g, S)
<1> DEFINE At(k) == CHOOSE i \in S : Rank(S, i) = k
<1>1. \A k \in 1 .. Cardinality(S) : At(k) \in S
    BY DEF Ranked
<1>2. \A k \in 1 .. Cardinality(S) : f[At(k)] = g[At(k)]
    BY <1>1
<1> HIDE DEF At
<1>3. PickOf(f, S) = [k \in 1 .. Cardinality(S) |-> f[At(k)]]
    BY DEF PickOf, At
<1>4. PickOf(g, S) = [k \in 1 .. Cardinality(S) |-> g[At(k)]]
    BY DEF PickOf, At
<1> QED BY <1>2, <1>3, <1>4

\* While saves are undisturbed an entry of ours is a line of its own.
LEMMA LoggedIsLoaded ==
    ASSUME FileInv
    PROVE  LoadOf(Self) = Recorded
<1>1. \A i \in DOMAIN file : file[i] # EndOfLine =>
            /\ i = 1 \/ file[i - 1] = EndOfLine
            /\ i = Len(file) \/ file[i + 1] = EndOfLine
    <2> SUFFICES ASSUME NEW i \in 1 .. Len(file), file[i] # EndOfLine
                 PROVE  /\ i = 1 \/ file[i - 1] = EndOfLine
                        /\ i = Len(file) \/ file[i + 1] = EndOfLine
        BY DEF FileInv
    <2>1. Len(file) \in Nat
        BY DEF FileInv
    <2>2. i # 1 => file[i - 1] = EndOfLine
        <3>1. i # 1 => i \in 2 .. Len(file)
            BY <2>1
        <3> QED BY <3>1 DEF FileInv
    <2>3. ASSUME i # Len(file)
          PROVE  file[i + 1] = EndOfLine
        <3>1. i + 1 \in 2 .. Len(file) /\ (i + 1) - 1 = i
            BY <2>1, <2>3
        <3>2. file[i + 1] = EndOfLine \/ file[(i + 1) - 1] = EndOfLine
            BY <3>1 DEF FileInv
        <3> QED BY <3>1, <3>2
    <2> QED BY <2>2, <2>3
<1>2. {i \in Lines : file[i].by = Self} = Logged
    BY <1>1 DEF Lines, Logged
<1> QED BY <1>2 DEF LoadOf, FileInv

LEMMA FileFrame ==
    ASSUME FileInv, UNCHANGED <<file, pen>>, Recorded' = Recorded
    PROVE  FileInv'
<1>1. Logged' = Logged
    BY DEF Logged
<1>2. Pick(Logged)' = Pick(Logged)
    BY <1>1 DEF Pick
<1> QED BY <1>1, <1>2 DEF FileInv

\* An entry is appended when the last line has its end.
LEMMA TextStep ==
    ASSUME FileInv, NEW w \in Writers, NEW e \in Entries(Self) \union {OthersEntry},
           WriteText(w, e), ~disturbed',
           Recorded' = IF e \in Entries(Self) THEN Append(Recorded, e) ELSE Recorded
    PROVE  FileInv'
<1> DEFINE n == Len(file)
<1>1. /\ file \in Seq(Texts) /\ e \in Texts /\ n \in Nat
      /\ file' = Append(file, e) /\ pen' = [pen EXCEPT ![w] = "text"]
    BY DEF FileInv, WriteText, Texts
<1>2. /\ file' \in Seq(Texts) /\ Len(file') = n + 1 /\ file'[n + 1] = e
      /\ \A i \in 1 .. n : file'[i] = file[i]
    BY <1>1
<1>3. pen' \in [Writers -> {"idle", "text"}] /\ pen'[w] # "idle"
    BY <1>1 DEF FileInv
<1>4. \A i \in 2 .. Len(file') : file'[i] = EndOfLine \/ file'[i - 1] = EndOfLine
    <2>1. \A v \in Writers : pen[v] = "idle"
        BY DEF FileInv, WriteText
    <2>2. n = 0 \/ file[n] = EndOfLine
        BY <1>1, <2>1 DEF FileInv
    <2> SUFFICES ASSUME NEW i \in 2 .. n + 1
                 PROVE  file'[i] = EndOfLine \/ file'[i - 1] = EndOfLine
        BY <1>2
    <2>3. CASE i = n + 1
        <3>1. i - 1 = n /\ n \in 1 .. n
            BY <1>1, <2>3
        <3> QED BY <1>2, <2>2, <3>1
    <2>4. CASE i # n + 1
        <3>1. i \in 2 .. n /\ i \in 1 .. n /\ i - 1 \in 1 .. n
            BY <1>1, <2>4
        <3>2. file[i] = EndOfLine \/ file[i - 1] = EndOfLine
            BY <3>1 DEF FileInv
        <3> QED BY <1>2, <3>1, <3>2
    <2> QED BY <2>3, <2>4
<1>5. Logged \in SUBSET (1 .. n) /\ Ranked(Logged) /\ PickOf(file, Logged) = Recorded
    <2>1. Logged \in SUBSET (1 .. n)
        BY <1>1 DEF Logged
    <2>2. PickOf(file, Logged) = Pick(Logged)
        BY DEF Pick, PickOf
    <2> QED BY <2>1, <2>2 DEF FileInv, Ranked
<1>6. DOMAIN file' = 1 .. n + 1 /\ DOMAIN file = 1 .. n
    BY <1>1, <1>2
<1>7. CASE e \in Entries(Self)
    <2>1. e # EndOfLine /\ e.by = Self
        BY <1>7, HistoryConstants DEF Entries
    <2>2. Logged' = Logged \union {n + 1}
        BY <1>1, <1>2, <1>6, <2>1 DEF Logged
    <2>3. Ranked(Logged') /\ PickOf(file', Logged') = Append(Recorded, e)
        <3> DEFINE U == Logged \union {n + 1}
        <3>1. Ranked(U) /\ PickOf(Append(file, e), U) = Append(PickOf(file, Logged), e)
            <4>1. file \in Seq(Texts) /\ e \in Texts /\ Logged \in SUBSET (1 .. Len(file)) /\ Ranked(Logged)
                BY <1>1, <1>5
            <4> QED BY <4>1, PickNext
        <3> HIDE DEF U
        <3>2. Logged' = U
            BY <2>2 DEF U
        <3> QED BY <1>1, <1>5, <3>1, <3>2
    <2>4. Recorded' = Append(Recorded, e)
        BY <1>7
    <2> QED BY <1>2, <1>3, <1>4, <2>3, <2>4 DEF FileInv, Ranked, Pick, PickOf, Rank
<1>8. CASE e \notin Entries(Self)
    <2>1. e.by # Self /\ Recorded' = Recorded
        BY <1>8, HistoryConstants
    <2>2. Logged' = Logged
        BY <1>1, <1>2, <1>6, <2>1 DEF Logged
    <2>3. Ranked(Logged') /\ PickOf(file', Logged') = Recorded
        <3>1. PickOf(file', Logged) = PickOf(file, Logged)
            <4>1. \A i \in Logged : file'[i] = file[i]
                BY <1>2, <1>5
            <4> QED BY <1>5, <4>1, PickSame
        <3> QED BY <1>5, <2>2, <3>1
    <2> QED BY <1>2, <1>3, <1>4, <2>1, <2>3 DEF FileInv, Ranked, Pick, PickOf, Rank
<1> QED BY <1>7, <1>8

\* The end of the line is appended.
LEMMA EndStep ==
    ASSUME FileInv, NEW w \in Writers, WriteEnd(w), Recorded' = Recorded
    PROVE  FileInv'
<1> DEFINE n == Len(file)
<1>1. /\ file \in Seq(Texts) /\ EndOfLine \in Texts /\ n \in Nat
      /\ file' = Append(file, EndOfLine) /\ pen' = [pen EXCEPT ![w] = "idle"]
    BY DEF FileInv, WriteEnd, Texts
<1>2. /\ file' \in Seq(Texts) /\ Len(file') = n + 1 /\ file'[n + 1] = EndOfLine
      /\ \A i \in 1 .. n : file'[i] = file[i]
    BY <1>1
<1>3. pen' \in [Writers -> {"idle", "text"}]
    BY <1>1 DEF FileInv
<1>4. \A i \in 2 .. Len(file') : file'[i] = EndOfLine \/ file'[i - 1] = EndOfLine
    <2> SUFFICES ASSUME NEW i \in 2 .. n + 1, i # n + 1
                 PROVE  file'[i] = EndOfLine \/ file'[i - 1] = EndOfLine
        BY <1>2
    <2>1. i \in 2 .. n /\ i \in 1 .. n /\ i - 1 \in 1 .. n
        BY <1>1
    <2>2. file[i] = EndOfLine \/ file[i - 1] = EndOfLine
        BY <2>1 DEF FileInv
    <2> QED BY <1>2, <2>1, <2>2
<1>5. Logged \in SUBSET (1 .. n) /\ Ranked(Logged) /\ PickOf(file, Logged) = Recorded
    <2>1. Logged \in SUBSET (1 .. n)
        BY <1>1 DEF Logged
    <2>2. PickOf(file, Logged) = Pick(Logged)
        BY DEF Pick, PickOf
    <2> QED BY <2>1, <2>2 DEF FileInv, Ranked
<1>6. DOMAIN file' = 1 .. n + 1 /\ DOMAIN file = 1 .. n
    BY <1>1, <1>2
<1>7. Logged' = Logged
    BY <1>1, <1>2, <1>6 DEF Logged
<1>8. PickOf(file', Logged) = PickOf(file, Logged)
    <2>1. \A i \in Logged : file'[i] = file[i]
        BY <1>2, <1>5
    <2> QED BY <1>5, <2>1, PickSame
<1>9. Ranked(Logged') /\ PickOf(file', Logged') = Recorded'
    BY <1>5, <1>7, <1>8
<1>10. file'[Len(file')] = EndOfLine
    BY <1>2
<1> QED BY <1>2, <1>3, <1>4, <1>9, <1>10 DEF FileInv, Ranked, Pick, PickOf, Rank

\* The ends of a download.
LEMMA EndsLog ==
    ASSUME LogInv, stage \notin {"save", "saving"}, UNCHANGED histVars,
           NEW how \in {"completed", "failed"}, Ends(how)
    PROVE  LogInv'
<1> DEFINE e == [by |-> Self, url |-> link, status |-> how]
<1>1. /\ stage' = "save" /\ attempts' = Append(attempts, e) /\ link' = link
      /\ UNCHANGED <<file, pen, disturbed>>
    BY DEF Ends, histVars
<1>2. e \in Entries(Self) /\ attempts \in Seq(Entries(Self))
    BY DEF LogInv, AttemptsInv, Entries
<1> HIDE DEF e
<1>3. attempts' \in Seq(Entries(Self)) /\ attempts' # <<>>
    BY <1>1, <1>2
<1>4. Recorded' = Recorded
    <2>1. Recorded = attempts
        BY DEF Recorded
    <2>2. Recorded' = [k \in 1 .. Len(attempts') - 1 |-> attempts'[k]]
        BY <1>1 DEF Recorded
    <2>3. [k \in 1 .. Len(attempts') - 1 |-> attempts'[k]] = attempts
        BY <1>1, <1>2
    <2> QED BY <2>1, <2>2, <2>3
<1>5. AttemptsInv'
    BY <1>1, <1>3 DEF LogInv, AttemptsInv
<1>6. ~disturbed' => FileInv'
    BY <1>1, <1>4, FileFrame DEF LogInv
<1> QED BY <1>5, <1>6 DEF LogInv

\* A save starts with the text of the last entry.
LEMMA SaveLog ==
    ASSUME LogInv, SaveText
    PROVE  LogInv'
<1> DEFINE e == attempts[Len(attempts)]
<1>1. stage = "save" /\ stage' = "saving" /\ WriteText(Self, e) /\ UNCHANGED <<link, attempts>>
    BY DEF SaveText, linkVars
<1>2. attempts \in Seq(Entries(Self)) /\ attempts # <<>>
    BY <1>1 DEF LogInv, AttemptsInv
<1>3. e \in Entries(Self)
    BY <1>2
<1>4. Recorded' = Append(Recorded, e)
    <2>1. Recorded' = attempts
        BY <1>1 DEF Recorded
    <2>2. Recorded = [k \in 1 .. Len(attempts) - 1 |-> attempts[k]]
        BY <1>1 DEF Recorded
    <2>3. Append([k \in 1 .. Len(attempts) - 1 |-> attempts[k]], e) = attempts
        BY <1>2
    <2> QED BY <2>1, <2>2, <2>3
<1> HIDE DEF e
<1>5. AttemptsInv'
    <2>1. pen' \in [Writers -> {"idle", "text", "lost"}]
        BY <1>1 DEF LogInv, AttemptsInv, WriteText
    <2> QED BY <1>1, <2>1 DEF LogInv, AttemptsInv
<1>6. ASSUME ~disturbed' PROVE FileInv'
    <2>1. FileInv
        BY <1>1, <1>6 DEF LogInv, WriteText
    <2>2. Self \in Writers
        BY DEF Writers
    <2> QED BY <1>1, <1>3, <1>4, <1>6, <2>1, <2>2, TextStep
<1> QED BY <1>5, <1>6 DEF LogInv

LEMMA OthersLog ==
    ASSUME LogInv, OtherProcess
    PROVE  LogInv'
<1>1. UNCHANGED <<stage, link, attempts>> /\ OthersStep /\ stage \in {"save", "saving"}
    BY DEF OtherProcess, sessionVars
<1>2. Recorded' = Recorded
    BY <1>1 DEF Recorded
<1>3. pen' \in [Writers -> {"idle", "text", "lost"}]
    <2>1. pen \in [Writers -> {"idle", "text", "lost"}]
        BY DEF LogInv, AttemptsInv
    <2>2. CASE Clear
        BY <2>1, <2>2 DEF Clear
    <2>3. CASE ~Clear
        BY <1>1, <2>1, <2>3 DEF OthersStep, WriteText, WriteEnd, Dies
    <2> QED BY <2>2, <2>3
<1>4. stage # "saving" => pen'[Self] = "idle"
    <2> SUFFICES ASSUME stage # "saving" PROVE pen'[Self] = "idle"
        OBVIOUS
    <2>1. /\ pen \in [Writers -> {"idle", "text", "lost"}] /\ pen[Self] = "idle"
          /\ Self \in Writers /\ Self \notin Others
        BY HistoryConstants DEF LogInv, AttemptsInv, Writers
    <2>2. CASE Clear
        BY <2>1, <2>2 DEF Clear
    <2>3. CASE ~Clear
        <3>1. PICK w \in Others : WriteText(w, OthersEntry) \/ WriteEnd(w) \/ Dies(w)
            BY <1>1, <2>3 DEF OthersStep
        <3>2. w # Self
            BY <2>1
        <3> QED BY <2>1, <3>1, <3>2 DEF WriteText, WriteEnd, Dies
    <2> QED BY <2>2, <2>3
<1>5. AttemptsInv'
    BY <1>1, <1>3, <1>4 DEF LogInv, AttemptsInv
<1>6. ASSUME ~disturbed' PROVE FileInv'
    <2>1. PICK w \in Others : WriteText(w, OthersEntry) \/ WriteEnd(w)
        BY <1>1, <1>6 DEF OthersStep, Dies, Clear
    <2>2. FileInv /\ w \in Writers
        BY <1>6, <2>1 DEF LogInv, WriteText, WriteEnd, Writers
    <2>3. CASE WriteText(w, OthersEntry)
        <3>1. OthersEntry \notin Entries(Self)
            BY HistoryConstants DEF Entries
        <3> QED BY <1>2, <1>6, <2>2, <2>3, <3>1, TextStep
    <2>4. CASE WriteEnd(w)
        BY <1>2, <2>2, <2>4, EndStep
    <2> QED BY <2>1, <2>3, <2>4
<1> QED BY <1>5, <1>6 DEF LogInv

\* A save that fails before it wrote costs its own entry and no other.
LEMMA DroppedLog ==
    ASSUME LogInv, SaveFails
    PROVE  LogInv'
<1>1. /\ stage = "save" /\ stage' = "next" /\ UNCHANGED <<file, pen, disturbed, link>>
      /\ attempts' = SubSeq(attempts, 1, Len(attempts) - 1)
    BY DEF SaveFails, histVars
<1>2. attempts \in Seq(Entries(Self)) /\ attempts # <<>>
    BY <1>1 DEF LogInv, AttemptsInv
<1>3. attempts' \in Seq(Entries(Self))
    BY <1>1, <1>2
<1>4. Recorded' = Recorded
    <2>1. Recorded = [k \in 1 .. Len(attempts) - 1 |-> attempts[k]]
        BY <1>1 DEF Recorded
    <2>2. Recorded' = attempts'
        BY <1>1 DEF Recorded
    <2>3. SubSeq(attempts, 1, Len(attempts) - 1) = [k \in 1 .. Len(attempts) - 1 |-> attempts[k]]
        BY <1>2
    <2> QED BY <1>1, <2>1, <2>2, <2>3
<1>5. AttemptsInv'
    BY <1>1, <1>3 DEF LogInv, AttemptsInv
<1>6. ~disturbed' => FileInv'
    BY <1>1, <1>4, FileFrame DEF LogInv
<1> QED BY <1>5, <1>6 DEF LogInv

LEMMA LogStep == LogInv /\ [Next]_vars => LogInv'
<1> SUFFICES ASSUME LogInv, [Next]_vars PROVE LogInv'
    OBVIOUS
<1>1. ASSUME UNCHANGED <<histVars, attempts>>, link' \in Nat,
             stage \notin {"save", "saving"}, stage' \notin {"save", "saving"}
      PROVE  LogInv'
    <2>1. UNCHANGED <<file, pen, disturbed, attempts>>
        BY <1>1 DEF histVars
    <2>2. Recorded' = Recorded
        BY <1>1 DEF Recorded
    <2>3. AttemptsInv'
        BY <1>1, <2>1 DEF LogInv, AttemptsInv
    <2>4. ~disturbed' => FileInv'
        BY <2>1, <2>2, FileFrame DEF LogInv
    <2> QED BY <2>3, <2>4 DEF LogInv
<1>2. link \in Nat
    BY DEF LogInv, AttemptsInv
<1>3. CASE NextLink \/ Return \/ TrackersTell \/ TryPeer \/ PeerFailed \/ StartTransfer
    BY <1>1, <1>2, <1>3 DEF NextLink, Return, TrackersTell, TryPeer, PeerFailed, StartTransfer,
                            linkVars, sessionVars
<1>4. CASE Search \/ Exchange \/ Transfer \/ PlainRefused
    BY <1>1, <1>2, <1>4 DEF Search, Exchange, Transfer, PlainRefused, linkVars, sessionVars
<1>5. CASE PlainDownload \/ NoMetadata \/ TransferEnds \/ TransferIncomplete \/ PrepareFails
    <2>1. PICK how \in {"completed", "failed"} : Ends(how)
        BY <1>5 DEF PlainDownload, NoMetadata, TransferEnds, TransferIncomplete, PrepareFails
    <2>2. stage \notin {"save", "saving"} /\ UNCHANGED histVars
        BY <1>5 DEF PlainDownload, NoMetadata, TransferEnds, TransferIncomplete, PrepareFails
    <2> QED BY <2>1, <2>2, EndsLog
<1>6. CASE SearchEnds
    <2>1. stage = "peers" /\ UNCHANGED histVars
        BY <1>6 DEF SearchEnds
    <2>2. CASE Ends("failed")
        BY <2>1, <2>2, EndsLog
    <2>3. CASE ~Ends("failed")
        <3>1. stage' = "metadata" /\ UNCHANGED linkVars
            BY <1>6, <2>3 DEF SearchEnds
        <3> QED BY <1>1, <1>2, <2>1, <3>1 DEF linkVars
    <2> QED BY <2>2, <2>3
<1>7. CASE SaveText
    BY <1>7, SaveLog
<1>8. CASE SaveEnd
    <2>1. stage = "saving" /\ stage' = "next" /\ WriteEnd(Self) /\ UNCHANGED <<link, attempts>>
        BY <1>8 DEF SaveEnd, linkVars
    <2>2. Self \in Writers
        BY DEF Writers
    <2>3. Recorded' = Recorded
        BY <2>1 DEF Recorded
    <2>4. AttemptsInv'
        <3>1. pen'[Self] = "idle" /\ pen' \in [Writers -> {"idle", "text", "lost"}]
            BY <2>1, <2>2 DEF WriteEnd, LogInv, AttemptsInv
        <3> QED BY <2>1, <3>1 DEF LogInv, AttemptsInv
    <2>5. ~disturbed' => FileInv'
        BY <2>1, <2>2, <2>3, EndStep DEF LogInv, WriteEnd
    <2> QED BY <2>4, <2>5 DEF LogInv
<1>9. CASE OtherProcess
    BY <1>9, OthersLog
<1>10. CASE SaveFails
    BY <1>10, DroppedLog
<1>11. CASE SaveBreaks
    <2>1. /\ Dies(Self) /\ stage = "saving" /\ stage' = "next" /\ UNCHANGED <<link, attempts>>
        BY <1>11 DEF SaveBreaks, linkVars
    <2>2. AttemptsInv'
        <3>1. pen'[Self] = "idle" /\ pen' \in [Writers -> {"idle", "text", "lost"}]
            BY <2>1 DEF Dies, LogInv, AttemptsInv, Writers
        <3> QED BY <2>1, <3>1 DEF LogInv, AttemptsInv
    <2> QED BY <2>1, <2>2 DEF LogInv, Dies
<1>12. CASE UNCHANGED vars
    <2>1. UNCHANGED <<file, pen, disturbed, attempts, stage, link>>
        BY <1>12 DEF vars, histVars, sessionVars
    <2>2. Recorded' = Recorded
        BY <2>1 DEF Recorded
    <2>3. AttemptsInv'
        BY <2>1 DEF LogInv, AttemptsInv
    <2>4. ~disturbed' => FileInv'
        BY <2>1, <2>2, FileFrame DEF LogInv
    <2> QED BY <2>3, <2>4 DEF LogInv
<1> QED BY <1>3, <1>4, <1>5, <1>6, <1>7, <1>8, <1>9, <1>10, <1>11, <1>12
        DEF Next, BatchStep, MagnetStep, Stopped

LEMMA LogAlways == Spec => []LogInv
<1>1. Init => LogInv
    <2> SUFFICES ASSUME Init PROVE LogInv
        OBVIOUS
    <2>1. /\ file = <<>> /\ pen = [w \in Writers |-> "idle"]
          /\ stage = "next" /\ link = 0 /\ attempts = <<>> /\ Self \in Writers
        BY DEF Init, HistoryIdle, Writers
    <2>2. Logged = {}
        BY <2>1 DEF Logged
    <2>3. Cardinality(Logged) = 0
        BY <2>2, FS_EmptySet
    <2>4. Pick(Logged) = <<>>
        BY <2>3 DEF Pick
    <2>5. Recorded = <<>>
        BY <2>1 DEF Recorded
    <2> QED BY <2>1, <2>3, <2>4, <2>5 DEF LogInv, AttemptsInv, FileInv
<1> QED BY <1>1, LogStep, PTL DEF Spec

\* Whatever the batch is, however often other processes write between our saves
\* and whichever of our saves fail, the history has our downloads that ended,
\* each once and in order, but for those whose own save failed, unless a save was
\* cut short or overlapped or the file was removed.
THEOREM HistoryIsComplete == Spec => []LogComplete
<1>1. LogInv => LogComplete
    <2> SUFFICES ASSUME LogInv, stage \in {"next", "stopped"}, ~disturbed
                 PROVE  LoadOf(Self) = attempts
        BY DEF LogComplete
    <2>1. LoadOf(Self) = Recorded
        BY LoggedIsLoaded DEF LogInv
    <2> QED BY <2>1 DEF Recorded
<1> QED BY <1>1, LogAlways, PTL
=============================================================================
