------------------------------ MODULE MCMirror ------------------------------
(* Small instances of Mirror for TLC. *)
EXTENDS Mirror

MCLayers == 1..LastLayer
=============================================================================
