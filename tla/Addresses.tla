------------------------------ MODULE Addresses ------------------------------
(***************************************************************************)
(* The peers of a torrent as the program sees them: addresses.  Some of    *)
(* them follow the protocol and answer in time; the others may send, or    *)
(* leave out, whatever they like.                                          *)
(***************************************************************************)
EXTENDS Integers, FiniteSets

CONSTANTS
    Peers,   \* addresses
    Honest,  \* peers that follow the protocol and answer what they are asked
    NoPeer

ASSUME AddressConstants ==
    /\ IsFiniteSet(Peers)
    /\ Honest \subseteq Peers
    /\ NoPeer \notin Peers
=============================================================================
