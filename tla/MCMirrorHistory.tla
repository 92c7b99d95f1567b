-------------------------- MODULE MCMirrorHistory --------------------------
(* Small instances of MirrorHistory for TLC. *)
EXTENDS MirrorHistory

MCLayers == 1..LastLayer
=============================================================================
