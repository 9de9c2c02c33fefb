--------------------------- MODULE MCMagnetSession ---------------------------
(***************************************************************************)
(* Instances of MagnetSession: a magnet link and another one; two honest   *)
(* peers and another; six nodes of the DHT in two parts.                   *)
(***************************************************************************)
EXTENDS MagnetSession

MCPeers == {"g", "h", "x"}
MCHonest == {"g", "h"}

\* Two parts of the DHT, each behind one bootstrap node: together they track
\* enough peers to stop early, the nodes m1 to m3 alone do not.
MCNodes == {"n1", "n2", "n3", "m1", "m2", "m3"}
MCKnows == [n \in MCNodes |-> CASE n = "n1" -> {"n2", "n3"} [] n = "n2" -> {"n1", "n3"} [] n = "n3" -> {}
                                [] n = "m1" -> {"m2", "m3"} [] n = "m2" -> {"m1"} [] n = "m3" -> {"m2"}]
MCTracks == [n \in MCNodes |-> CASE n = "n1" -> {"x"} [] n = "n2" -> {"h"} [] n = "n3" -> {"g", "x"}
                                 [] n = "m1" -> {} [] n = "m2" -> {"x"} [] n = "m3" -> {"h"}]
MCDistance == [n \in MCNodes |-> CASE n \in {"n2", "m2"} -> 1 [] n \in {"n3", "m3"} -> 2 [] OTHER -> 3]

SameId == [p \in MCHonest |-> 1]
OtherId == [p \in MCHonest |-> 2]

MCOthersEntry == [by |-> "other", url |-> 0, status |-> "completed"]

MagnetThenPlain == <<"magnet", "plain">>
MagnetOnly == <<"magnet">>

\* Three files, one of them empty, with pieces across their ends; one file whose
\* length is a multiple of the piece length; and hashes missing at the end.
MCTorrents ==
    {[files |-> <<2, 0, 3>>, plen |-> 3, npieces |-> 2],
     [files |-> <<4>>, plen |-> 2, npieces |-> 2],
     [files |-> <<3, 2>>, plen |-> 3, npieces |-> 1]}

OneTorrent == {[files |-> <<1>>, plen |-> 1, npieces |-> 1]}
=============================================================================
