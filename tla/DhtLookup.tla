------------------------------ MODULE DhtLookup ------------------------------
(***************************************************************************)
(* One DHT lookup: find_peers of torrent/dht.rs.                           *)
(*                                                                         *)
(* Candidates are drained in batches, closest first, and asked for peers.  *)
(* A datagram is taken for an answer whatever its transaction id, so that  *)
(* the answer to an earlier batch counts while a later one is waited for.  *)
(* Datagrams without a dictionary `r` change nothing, and neither does a   *)
(* failed send_to, which is a query that is never answered.  Each answer   *)
(* is delivered at most once.                                              *)
(***************************************************************************)
EXTENDS Addresses

CONSTANTS
    Nodes,       \* nodes of the DHT
    Bootstrap,   \* BOOTSTRAP_NODES
    Knows,       \* [Nodes -> SUBSET Nodes]: the nodes it lists in its answer
    Tracks,      \* [Nodes -> SUBSET Peers]: the peers it lists
    Distance,    \* [Nodes -> Nat]: of its id to the info hash
    ZeroId,      \* distance of the id 0, which bootstrap candidates have
    BatchSize, MaxRounds,  \* BATCH_SIZE, MAX_ITERATIONS
    PeerLimit,   \* 200: enough peers
    Dns          \* who told of the bootstrap nodes

ASSUME DhtConstants ==
    /\ IsFiniteSet(Nodes) /\ Bootstrap \subseteq Nodes
    /\ Knows \in [Nodes -> SUBSET Nodes] /\ Tracks \in [Nodes -> SUBSET Peers]
    /\ Distance \in [Nodes -> Nat] /\ ZeroId \in Nat
    /\ BatchSize \in Nat \ {0} /\ MaxRounds \in Nat /\ PeerLimit \in Nat
    /\ Dns \notin Nodes

VARIABLES
    lookup,    \* resolve, pick (head of the loop), wait (for answers), done
    resolved,  \* bootstrap nodes whose name was resolved
    cand,      \* candidates: an address may be in it once per answer
    queried,   \* addresses asked so far
    asked,     \* of those, the ones whose answer may still come
    found,     \* peers
    round      \* iterations of the loop

dhtVars == <<lookup, resolved, cand, queried, asked, found, round>>

Candidates == [node : Nodes, teller : Nodes \union {Dns}]

DhtTypeOK ==
    /\ lookup \in {"resolve", "pick", "wait", "done"}
    /\ resolved \subseteq Bootstrap
    /\ cand \subseteq Candidates
    /\ queried \subseteq Nodes /\ asked \subseteq queried
    /\ found \subseteq Peers
    /\ round \in 0 .. MaxRounds

DhtIdle ==
    /\ lookup = "resolve" /\ resolved = {}
    /\ cand = {} /\ queried = {} /\ asked = {} /\ found = {}
    /\ round = 0
-----------------------------------------------------------------------------
\* lookup_host of every bootstrap name; what cannot be resolved is skipped.
Resolve(S) ==
    /\ lookup = "resolve"
    /\ resolved' = S
    /\ cand' = {[node |-> n, teller |-> Dns] : n \in S}
    /\ lookup' = "pick"
    /\ UNCHANGED <<queried, asked, found, round>>

CandDistance(c) == IF c.teller = Dns THEN ZeroId ELSE Distance[c.node]

\* What sorting and draining may yield: the closest, up to BatchSize of them.
Drained ==
    {S \in SUBSET cand :
        /\ Cardinality(S) = IF Cardinality(cand) < BatchSize THEN Cardinality(cand) ELSE BatchSize
        /\ \A c \in S, d \in cand \ S : CandDistance(c) <= CandDistance(d)}

CandidateNodes(S) == {c.node : c \in S}

GoesOn == round < MaxRounds /\ cand # {} /\ Cardinality(found) < PeerLimit

QueryForgets ==   \* mutant
    /\ lookup = "pick" /\ GoesOn
    /\ \E S \in Drained :
        LET batch == CandidateNodes(S) \ queried
        IN  /\ queried' = queried \union batch
            /\ asked' = asked \union batch
            /\ IF batch = {}
               THEN round' = round + 1 /\ UNCHANGED lookup
               ELSE lookup' = "wait" /\ UNCHANGED round
    /\ cand' = {}
    /\ UNCHANGED <<resolved, found>>

\* A batch is drained and those not asked before are asked; a batch of which
\* none is new costs an iteration.
Query ==
    /\ lookup = "pick" /\ GoesOn
    /\ \E S \in Drained :
        LET batch == CandidateNodes(S) \ queried
        IN  /\ cand' = cand \ S
            /\ queried' = queried \union batch
            /\ asked' = asked \union batch
            /\ IF batch = {}
               THEN round' = round + 1 /\ UNCHANGED lookup
               ELSE lookup' = "wait" /\ UNCHANGED round
    /\ UNCHANGED <<resolved, found>>

\* The answer of n, on time or late.
Answer(n) ==
    /\ lookup = "wait" /\ n \in asked
    /\ asked' = asked \ {n}
    /\ found' = found \union Tracks[n]
    /\ cand' = cand \union {[node |-> m, teller |-> n] : m \in Knows[n] \ queried}
    /\ UNCHANGED <<lookup, resolved, queried, round>>

\* Four seconds are over, or recv_from returned an error.
BatchEnds ==
    /\ lookup = "wait"
    /\ lookup' = "pick"
    /\ round' = round + 1
    /\ UNCHANGED <<resolved, cand, queried, asked, found>>

\* No socket.
BindFails ==
    /\ lookup = "resolve"
    /\ lookup' = "done"
    /\ UNCHANGED <<resolved, cand, queried, asked, found, round>>

LookupEnds ==
    /\ lookup = "pick" /\ ~GoesOn
    /\ lookup' = "done"
    /\ UNCHANGED <<resolved, cand, queried, asked, found, round>>

DhtStep ==
    \/ \E S \in SUBSET Bootstrap : Resolve(S)
    \/ BindFails \/ Query \/ BatchEnds \/ LookupEnds

DhtReset ==
    /\ lookup' = "resolve" /\ resolved' = {}
    /\ cand' = {} /\ queried' = {} /\ asked' = {} /\ found' = {}
    /\ round' = 0

DhtNext == DhtStep \/ \E n \in Nodes : Answer(n)

DhtSpec == DhtIdle /\ [][DhtNext]_dhtVars
-----------------------------------------------------------------------------
(***************************************************************************)
(* Properties.                                                             *)
(***************************************************************************)
\* A lookup that ends before its iterations and the limit of peers are used up,
\* and that heard of everyone it asked, has asked every node it was ever told
\* of, and has every peer they track: nothing is lost between the batches,
\* whether answers come on time or late (candidates and queried, find_peers).
LookupExhaustive ==
    /\ lookup = "done" /\ asked = {}
    /\ round < MaxRounds /\ Cardinality(found) < PeerLimit
    => /\ resolved \subseteq queried
       /\ \A n \in queried : Knows[n] \subseteq queried /\ Tracks[n] \subseteq found
=============================================================================
