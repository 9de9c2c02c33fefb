---------------------------- MODULE MCPeerSwarm ----------------------------
(***************************************************************************)
(* Instances of PeerSwarm: two peers and two pieces, or three peers and    *)
(* one piece.  MaxActive below the number of peers stands for a swarm      *)
(* larger than max_concurrent.                                             *)
(***************************************************************************)
EXTENDS SwarmInvariant

TwoPeers == {"p", "q"}

\* p has every piece, q only the last one.
TwoHold == [x \in TwoPeers |-> IF x = "p" THEN {0, 1} ELSE {1}]

ThreePeers == {"p", "q", "r"}

\* Two peers with the only piece, and one that has nothing.
ThreeHold == [x \in ThreePeers |-> IF x = "r" THEN {} ELSE {0}]
=============================================================================
