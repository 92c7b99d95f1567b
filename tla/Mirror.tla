------------------------------- MODULE Mirror -------------------------------
(***************************************************************************)
(* What a DjControllerView shows of a broadcaster: an ActiveDJNode         *)
(* (src/src/active_node.rs) that announces its layers and its mixer in     *)
(* Time, Status, Metrics, Meta and Mixer packets, and the peer's           *)
(* apply_packet (src/src/node/dj_controller.rs), which copies the fields   *)
(* of each into one snapshot per layer, in the order of arrival.           *)
(*                                                                         *)
(* No packet carries a whole layer, some fields come from two or three     *)
(* kinds of packet, and nothing orders the kinds: the receiver does not    *)
(* look at SEQ or timestamp.                                               *)
(*                                                                         *)
(* The queues, the send tasks and UDP are one sequence, `network`, from    *)
(* which packets arrive in any order or are lost; ActiveNode has the       *)
(* queues in detail.  A layer has a track, of which title, name and length *)
(* follow, and a playback: state and playhead (position_ms and             *)
(* current_time_ms are always set together).  Tempo, sync flag and beat    *)
(* counters travel with them in Metrics and are left out.                  *)
(***************************************************************************)
EXTENDS Naturals, Sequences, SequencesExt

CONSTANTS
  LastLayer,     \* 8: layers in the order of LayerId::ALL
  Layers,
  Tracks,        \* tracks, by their ids; not 0, which load_track takes as well: here the
                 \* id stands for the title and length too, and those would be shown
  Playbacks,
  EmptyPlayback, \* of LayerSnapshot::default: Idle at 0
  LoadedPlayback,\* as load_track leaves it: Stopped at 0
  OnAirs,        \* fader positions, 0 among them
  Mixers,        \* states of the mixer
  DefaultMixer,  \* MixerSnapshot::default
  MaxCalls,      \* bound: the user's calls in a behaviour
  MaxInFlight,   \* bound: packets queued and on the way; senders wait for room
  MaxLosses      \* bound: packets lost

NoTrack == 0

ASSUME ConstantsAssumption ==
  /\ LastLayer \in Nat \ {0}
  /\ Layers = 1..LastLayer
  /\ Tracks \subseteq Nat \ {NoTrack}
  /\ {EmptyPlayback, LoadedPlayback} \subseteq Playbacks
  /\ OnAirs \subseteq Nat /\ 0 \in OnAirs
  /\ DefaultMixer \in Mixers
  /\ MaxCalls \in Nat /\ MaxInFlight \in Nat \ {0} /\ MaxLosses \in Nat

TrackIds == Tracks \cup {NoTrack}

(* A layer at its source, and as the peer knows it: each field with the    *)
(* packets it comes from.                                                  *)
Source == [track_id : TrackIds, playback : Playbacks, on_air : OnAirs]

LayerSnapshot ==
  [track_id : TrackIds,           \* Status, Metrics, Meta
   name : TrackIds,               \* Status (source, too)
   title : TrackIds,              \* Meta (artist and key, too)
   track_length_ms : TrackIds,    \* Metrics
   state : Playbacks,             \* Metrics, Time (beat_marker, too)
   position_ms : Playbacks,       \* Metrics (tempo, beat number, sync, too)
   current_time_ms : Playbacks,   \* Time (timecode, too)
   total_time_ms : TrackIds,      \* Time
   on_air : OnAirs]               \* Time

EmptySource == [track_id |-> NoTrack, playback |-> EmptyPlayback, on_air |-> 0]

EmptySnapshot ==
  [track_id |-> NoTrack, name |-> NoTrack, title |-> NoTrack, track_length_ms |-> NoTrack,
   state |-> EmptyPlayback, position_ms |-> EmptyPlayback,
   current_time_ms |-> EmptyPlayback, total_time_ms |-> NoTrack, on_air |-> 0]

VARIABLES
  layers,   \* ActiveNodeInner::layers
  mixer,    \* ActiveNodeInner::mixer
  user,     \* the call in progress: its layer and the packets still to announce
  calls,    \* the calls made so far
  bg,       \* the background task: what it does next, and the layers it holds
  network,  \* the packets sent, oldest first, and not yet arrived
  losses,   \* packets lost so far
  disturbed,\* history: a packet was lost, overtaken, or out of date when sent
  mirror    \* layers and mixer in the triple buffer: what a view reads

senderVars == <<layers, mixer, user, calls, bg>>
vars == <<senderVars, network, losses, disturbed, mirror>>

Idle == user.todo = <<>>
Resting == [layer |-> 1, todo |-> <<>>]
Doing(layer, todo) == IF todo = <<>> THEN Resting ELSE [layer |-> layer, todo |-> todo]
Waiting == [at |-> "idle", kind |-> "time", layer |-> 1, held |-> <<>>]

Init ==
  /\ layers = [l \in Layers |-> EmptySource]
  /\ mixer = DefaultMixer
  /\ user = Resting
  /\ calls = 0
  /\ bg = Waiting
  /\ network = <<>>
  /\ losses = 0
  /\ disturbed = FALSE
  /\ mirror = [layers |-> [l \in Layers |-> EmptySnapshot], mixer |-> DefaultMixer]

------------------------------------------------------------------------------
(* Packets: the layers a packet is built from, held by its sender.         *)

Packet(kind, layer, held) == [kind |-> kind, layer |-> layer, held |-> held]
AllLayers == [l \in Layers |-> layers[l]]
MixerPacket == Packet("mixer", 1, <<mixer>>)

(* The packet of a kind as the code would build it at this moment.         *)
Current(kind, layer) ==
  CASE kind \in {"time", "status"} -> Packet(kind, 1, AllLayers)
    [] kind \in {"metrics", "meta"} -> Packet(kind, layer, <<layers[layer]>>)
    [] kind = "mixer" -> MixerPacket

Send(packet) ==
  /\ Len(network) < MaxInFlight
  /\ network' = Append(network, packet)
  /\ disturbed' = (disturbed \/ packet # Current(packet.kind, packet.layer))
  /\ UNCHANGED losses

------------------------------------------------------------------------------
(* The user's calls: change the state, and then announce it, one packet    *)
(* after the other.                                                        *)

Call(layer, todo) ==
  /\ Idle
  /\ calls < MaxCalls
  /\ calls' = calls + 1
  /\ user' = Doing(layer, todo)
  /\ UNCHANGED <<bg, network, losses, disturbed, mirror>>

(* play, pause, stop, cue, set_position_ms, set_layer_position, set_bpm,   *)
(* set_speed, set_sync_master.                                             *)
ChangePlayback(l, playback) ==
  /\ layers' = [layers EXCEPT ![l].playback = playback]
  /\ Call(l, <<"metrics">>)
  /\ UNCHANGED mixer

(* A fader that was up stays up.  Cues and prebuilt responses: Exchange.   *)
LoadTrack(l, track_id) ==
  /\ layers' = [layers EXCEPT ![l].track_id = track_id, ![l].playback = LoadedPlayback]
  /\ Call(l, <<"metrics", "status", "meta">>)
  /\ UNCHANGED mixer

UnloadTrack(l) ==
  /\ layers' = [layers EXCEPT ![l] = EmptySource]
  /\ Call(l, <<"status">>)
  /\ UNCHANGED mixer

(* Announced by the next Time packet only. *)
SetOnAir(l, on_air) ==
  /\ layers' = [layers EXCEPT ![l].on_air = on_air]
  /\ Call(l, <<>>)
  /\ UNCHANGED mixer

(* Every setter of the mixer announces the whole mixer; a channel past 5   *)
(* changes nothing and announces it all the same.                          *)
SetMixer(m) ==
  /\ mixer' = m
  /\ Call(1, <<"mixer">>)
  /\ UNCHANGED layers

Announce ==
  /\ ~Idle
  /\ Send(Current(Head(user.todo), user.layer))
  /\ user' = Doing(user.layer, Tail(user.todo))
  /\ UNCHANGED <<layers, mixer, calls, bg, mirror>>

------------------------------------------------------------------------------
(* The background task.  Time and Status load the layers one after the     *)
(* other; Metrics and Meta check a layer and build from a second load.     *)

bgOnly == <<layers, mixer, user, calls, mirror>>

Tick(kind, at) ==
  /\ bg.at = "idle"
  /\ bg' = [at |-> at, kind |-> kind, layer |-> 1, held |-> <<>>]
  /\ UNCHANGED <<bgOnly, network, losses, disturbed>>

TimeTick == Tick("time", "load")
StatusTick == Tick("status", "load")
MetricsTick == Tick("metrics", "check")

LoadLayer ==
  /\ bg.at = "load"
  /\ bg' = [bg EXCEPT !.held = Append(@, layers[bg.layer]),
                      !.layer = IF @ = LastLayer THEN 1 ELSE @ + 1,
                      !.at = IF bg.layer = LastLayer THEN "send" ELSE "load"]
  /\ UNCHANGED <<bgOnly, network, losses, disturbed>>

SendAllLayers ==
  /\ bg.at = "send" /\ bg.kind \in {"time", "status"}
  /\ Send(Packet(bg.kind, 1, bg.held))
  /\ bg' = IF bg.kind = "time" THEN Waiting
           ELSE [at |-> "check", kind |-> "meta", layer |-> 1, held |-> <<>>]
  /\ UNCHANGED bgOnly

NextLayer ==
  IF bg.layer = LastLayer THEN Waiting
  ELSE [bg EXCEPT !.at = "check", !.layer = @ + 1, !.held = <<>>]

CheckLayer ==
  /\ bg.at = "check"
  /\ bg' = IF layers[bg.layer].track_id # NoTrack THEN [bg EXCEPT !.at = "build"] ELSE NextLayer
  /\ UNCHANGED <<bgOnly, network, losses, disturbed>>

BuildPacket ==
  /\ bg.at = "build"
  /\ bg' = [bg EXCEPT !.at = "send", !.held = <<layers[bg.layer]>>]
  /\ UNCHANGED <<bgOnly, network, losses, disturbed>>

SendLayer ==
  /\ bg.at = "send" /\ bg.kind \in {"metrics", "meta"}
  /\ Send(Packet(bg.kind, bg.layer, bg.held))
  /\ bg' = NextLayer
  /\ UNCHANGED bgOnly

BgSteps == LoadLayer \/ SendAllLayers \/ CheckLayer \/ BuildPacket \/ SendLayer

------------------------------------------------------------------------------
(* apply_packet *)

(* Mutant: a Status that says no track is taken for one that says nothing. *)
ApplyStatus_SkipsEmpty(snap, source) ==
  IF source.track_id = NoTrack THEN snap
  ELSE [snap EXCEPT !.track_id = source.track_id, !.name = source.track_id]

ApplyStatus(snap, source) ==
  [snap EXCEPT !.track_id = source.track_id, !.name = source.track_id]

ApplyMetrics(snap, source) ==
  [snap EXCEPT !.track_id = source.track_id, !.track_length_ms = source.track_id,
               !.state = source.playback, !.position_ms = source.playback]

(* Mutant: the fader is read for layers that hold a track only. *)
ApplyTime_LoadedOnly(snap, source) ==
  [snap EXCEPT !.total_time_ms = source.track_id, !.state = source.playback,
               !.current_time_ms = source.playback,
               !.on_air = IF source.track_id = NoTrack THEN @ ELSE source.on_air]

(* Mutant: a duration of 0 is taken for one that is not known. *)
ApplyTime_KeepsTotal(snap, source) ==
  [snap EXCEPT !.total_time_ms = IF source.track_id = NoTrack THEN @ ELSE source.track_id,
               !.state = source.playback, !.current_time_ms = source.playback,
               !.on_air = source.on_air]

ApplyTime(snap, source) ==
  [snap EXCEPT !.total_time_ms = source.track_id, !.state = source.playback,
               !.current_time_ms = source.playback, !.on_air = source.on_air]

ApplyMeta(snap, source) ==
  [snap EXCEPT !.track_id = source.track_id, !.title = source.track_id]

ApplyMixer(known, source) == [known EXCEPT !.mixer = source]

(* Mutant: the 1-based id is taken for an index. *)
FromPacketId_Index(id) == id - 1

(* The layer of a packet's id: its position in LayerId::ALL. *)
FromPacketId(id) == id

Apply(known, packet) ==
  LET id == FromPacketId(packet.layer)
      entry == IF id \in DOMAIN known.layers THEN known.layers[id] ELSE EmptySnapshot
      One(snap) == [known EXCEPT !.layers =
        [l \in DOMAIN known.layers \cup {id} |-> IF l = id THEN snap ELSE known.layers[l]]] IN
  CASE packet.kind = "status" ->
         [known EXCEPT !.layers = [l \in Layers |-> ApplyStatus(@[l], packet.held[l])]]
    [] packet.kind = "time" ->
         [known EXCEPT !.layers = [l \in Layers |-> ApplyTime(@[l], packet.held[l])]]
    [] packet.kind = "metrics" -> One(ApplyMetrics(entry, packet.held[1]))
    [] packet.kind = "meta" -> One(ApplyMeta(entry, packet.held[1]))
    [] packet.kind = "mixer" -> ApplyMixer(known, packet.held[1])

(* The loop drains what has arrived, applies it in order and writes the    *)
(* triple buffer, which a view reads at any time.  One packet a turn: with *)
(* several, views see fewer of the states in between.                      *)
Deliver(i) ==
  /\ mirror' = Apply(mirror, network[i])
  /\ network' = RemoveAt(network, i)
  /\ disturbed' = (disturbed \/ i # 1)
  /\ UNCHANGED <<senderVars, losses>>

Lose(i) ==
  /\ losses < MaxLosses
  /\ losses' = losses + 1
  /\ network' = RemoveAt(network, i)
  /\ disturbed' = TRUE
  /\ UNCHANGED <<senderVars, mirror>>

------------------------------------------------------------------------------
Calls ==
  \/ \E l \in Layers :
       \/ \E playback \in Playbacks : ChangePlayback(l, playback)
       \/ \E track_id \in Tracks : LoadTrack(l, track_id)
       \/ UnloadTrack(l)
       \/ \E on_air \in OnAirs : SetOnAir(l, on_air)
  \/ \E m \in Mixers : SetMixer(m)

Next ==
  \/ Calls \/ Announce
  \/ TimeTick \/ StatusTick \/ MetricsTick \/ BgSteps
  \/ \E i \in 1..Len(network) : Deliver(i) \/ Lose(i)

Spec == Init /\ [][Next]_vars

(* A call and a tick run to their end; intervals that are due stay due and *)
(* select! picks at random among them; what was sent is delivered or lost  *)
(* in the end; the controller's loop goes on.  No call is assumed.         *)
Fairness ==
  /\ WF_vars(Announce)
  /\ WF_vars(BgSteps)
  /\ SF_vars(TimeTick) /\ SF_vars(StatusTick) /\ SF_vars(MetricsTick)
  /\ WF_vars(network # <<>> /\ Deliver(1))

FairSpec == Spec /\ Fairness

------------------------------------------------------------------------------
(* Properties *)

Known == [layers : [Layers -> LayerSnapshot], mixer : Mixers]

(* The shape of the state: among others, that a packet touches no layer    *)
(* but the eight there are.                                                *)
TypeOK ==
  /\ layers \in [Layers -> Source]
  /\ mixer \in Mixers
  /\ user.layer \in Layers
  /\ calls \in 0..MaxCalls
  /\ bg.at \in {"idle", "load", "check", "build", "send"}
  /\ bg.kind \in {"time", "status", "metrics", "meta"}
  /\ bg.layer \in Layers
  /\ Len(bg.held) <= LastLayer
  /\ \A i \in 1..Len(bg.held) : bg.held[i] \in Source
  /\ Len(network) <= MaxInFlight
  /\ losses \in 0..MaxLosses
  /\ mirror \in Known

Loaded(l) == layers[l].track_id # NoTrack

(* "Broadcasts a StatusData packet and unicasts a MetaData packet so peers *)
(* see the new track immediately" (load_track), and the same of every      *)
(* other call: with all packets of the calls arrived, whether a tick fired *)
(* or not, the peer knows what the calls announce, unless a packet was     *)
(* lost, overtaken by a later one, or already out of date when it was sent.*)
AnnouncedAtOnce ==
  ~disturbed /\ Idle /\ network = <<>> =>
    /\ mirror.mixer = mixer
    /\ \A l \in Layers :
         LET snap == mirror.layers[l] IN
         /\ snap.track_id = layers[l].track_id
         /\ snap.name = layers[l].track_id
         /\ Loaded(l) => /\ snap.title = layers[l].track_id
                         /\ snap.track_length_ms = layers[l].track_id
                         /\ snap.position_ms = layers[l].playback
                         /\ snap.state = layers[l].playback

(* Once the user stops calling, what a view reads of a layer becomes what  *)
(* the broadcaster has and stays so, in spite of losses, late and          *)
(* out-of-date packets, and packets that combine layers of two moments.    *)
(* Title, length and position are put right for loaded layers only.        *)
MirrorCatchesUp ==
  <>[](\A l \in Layers :
         LET snap == mirror.layers[l] IN
         /\ snap.track_id = layers[l].track_id
         /\ snap.name = layers[l].track_id
         /\ snap.state = layers[l].playback
         /\ snap.current_time_ms = layers[l].playback
         /\ snap.total_time_ms = layers[l].track_id
         /\ snap.on_air = layers[l].on_air
         /\ Loaded(l) => /\ snap.title = layers[l].track_id
                         /\ snap.track_length_ms = layers[l].track_id
                         /\ snap.position_ms = layers[l].playback)

------------------------------------------------------------------------------
(* "Clear layer back to the default empty state and broadcast a StatusData *)
(* so peers stop showing the previous track" (unload_track): in the end, a *)
(* layer without a track shows none, neither title nor length.             *)
UnloadedShowsNothing ==
  <>[](\A l \in Layers :
         ~Loaded(l) => /\ mirror.layers[l].title = NoTrack
                       /\ mirror.layers[l].track_length_ms = NoTrack)
=============================================================================
