----------------------------- MODULE MCExchange -----------------------------
(* Small instances of Exchange for TLC. *)
EXTENDS Exchange

MCKindOf == [r1 |-> "BigWaveform", r2 |-> "BigWaveform"]
MCRequests == DOMAIN MCKindOf
=============================================================================
