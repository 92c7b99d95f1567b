--------------------------- MODULE MCDjController ---------------------------
(* A small instance of DjController for TLC: two requests for the beat grid *)
(* of layer A (two threads share a WaveformRequester) and one for its cue   *)
(* table.  The peer sends the grid of one track and then of another, whose  *)
(* length differs, the cue table, a grid of layer B, and a grid of layer A  *)
(* from a peer that leaves total_packets at 0.                             *)
EXTENDS DjControllerTimes

MCKindOf == <<"BeatGrid", "BeatGrid", "CueData">>
MCLayerOf == <<"A", "A", "A">>

MCResponses == 1..5
MCResponseKind == <<"BeatGrid", "BeatGrid", "CueData", "BeatGrid", "BeatGrid">>
MCResponseLayer == <<"A", "A", "A", "B", "A">>

MCTotalPackets == <<2, 3, 1, 2, 0>>
=============================================================================
