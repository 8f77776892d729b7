----------------------------- MODULE MCPeerTest -----------------------------
(* Finite instances of PeerTest for TLC. *)
EXTENDS PeerTest

CONSTANTS s1, s2

TwoStreams == {s1, s2}
OneStream  == {s1}
=============================================================================
