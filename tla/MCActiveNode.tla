---------------------------- MODULE MCActiveNode ----------------------------
(* Small instances of ActiveNode, with its history, for TLC. *)
EXTENDS ActiveNodeTicks

MCLayers == 1..LastLayer
=============================================================================
