--------------------------- MODULE MirrorHistory ---------------------------
(***************************************************************************)
(* Mirror with two records, which constrain nothing.  One is of what the   *)
(* broadcaster has been: each layer, and the mixer, in every state it ever *)
(* had.  It says what a view may show at ANY moment, with packets lost,    *)
(* late, overtaken and out of date: nothing that was never so.             *)
(*                                                                         *)
(* The other is of the ticks that nothing disturbed: those that began      *)
(* after the last call had returned, ran to their end, and since whose     *)
(* beginning no packet was lost or overtaken.  That a view catches up is a *)
(* liveness property of Mirror; the record says when: one such tick of     *)
(* each kind is enough, whatever came before it.                           *)
(***************************************************************************)
EXTENDS Mirror

VARIABLES
  pastLayers, \* history: for each layer, the states it has had
  pastMixers, \* history: the states the mixer has had
  quiet,      \* history: nothing disturbed the latest tick, nor what it sent
  through     \* history: undisturbed ticks that ended, each as the kind of packet it
              \* sends last: "time", "metrics", and "meta" for the Status tick

historyVars == <<vars, pastLayers, pastMixers, quiet, through>>

HistoryInit ==
  /\ Init
  /\ pastLayers = [l \in Layers |-> {layers[l]}]
  /\ pastMixers = {mixer}
  /\ quiet = FALSE
  /\ through = {}

CallBegins == calls' # calls
PacketLost == losses' # losses
Overtaken == \E i \in 2..Len(network) : Deliver(i)
Disturbs == CallBegins \/ PacketLost \/ Overtaken

TickBegins == bg.at = "idle" /\ bg'.at # "idle"
TickEnds == bg.at # "idle" /\ bg'.at = "idle"

HistoryNext ==
  /\ Next
  /\ pastLayers' = [l \in Layers |-> pastLayers[l] \cup {layers'[l]}]
  /\ pastMixers' = pastMixers \cup {mixer'}
  /\ quiet' = IF Disturbs THEN FALSE ELSE IF TickBegins THEN Idle ELSE quiet
  /\ through' = IF Disturbs THEN {}
                ELSE IF TickEnds /\ quiet THEN through \cup {bg.kind} ELSE through

HistorySpec == HistoryInit /\ [][HistoryNext]_historyVars

FairHistorySpec == HistorySpec /\ Fairness

------------------------------------------------------------------------------
(* Properties *)

(* What a view shows of a layer, that layer once was, and what it shows    *)
(* together was so at one moment: length and playhead of a Metrics packet; *)
(* duration, playhead and fader of a Time packet, although a tick loads    *)
(* the layers one after the other.  Fields that several kinds of packet    *)
(* bring are those of one of them: the state goes with one of the two      *)
(* playheads, the track id with name, title or length.                     *)
ShownOnceWas ==
  /\ mirror.mixer \in pastMixers
  /\ \A l \in Layers :
       LET snap == mirror.layers[l] IN
       /\ \E was \in pastLayers[l] : snap.name = was.track_id
       /\ \E was \in pastLayers[l] : snap.title = was.track_id
       /\ \E was \in pastLayers[l] :
            /\ snap.track_length_ms = was.track_id
            /\ snap.position_ms = was.playback
       /\ \E was \in pastLayers[l] :
            /\ snap.total_time_ms = was.track_id
            /\ snap.current_time_ms = was.playback
            /\ snap.on_air = was.on_air
       /\ snap.state \in {snap.position_ms, snap.current_time_ms}
       /\ snap.track_id \in {snap.name, snap.title, snap.track_length_ms}

(* When the packets of one undisturbed tick have arrived, with whatever    *)
(* was on the way before them, a view shows of every layer what the        *)
(* broadcaster has, in all that the tick announces: a Time tick the state, *)
(* the playhead, the duration and the fader, a Status tick the track and,  *)
(* by its Metas, the title, a Metrics tick the rest of what is played.     *)
ViewPutRight ==
  network = <<>> =>
    \A l \in Layers :
      LET snap == mirror.layers[l] IN
      /\ "time" \in through =>
           /\ snap.state = layers[l].playback
           /\ snap.current_time_ms = layers[l].playback
           /\ snap.total_time_ms = layers[l].track_id
           /\ snap.on_air = layers[l].on_air
      /\ "meta" \in through =>
           /\ snap.track_id = layers[l].track_id
           /\ snap.name = layers[l].track_id
           /\ Loaded(l) => snap.title = layers[l].track_id
      /\ "metrics" \in through /\ Loaded(l) =>
           /\ snap.track_id = layers[l].track_id
           /\ snap.track_length_ms = layers[l].track_id
           /\ snap.state = layers[l].playback
           /\ snap.position_ms = layers[l].playback
=============================================================================
