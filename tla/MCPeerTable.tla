---------------------------- MODULE MCPeerTable ----------------------------
(* Small instances of PeerTable for TLC. *)
EXTENDS PeerTable
=============================================================================
