----------------------------- MODULE ActiveNode -----------------------------
(***************************************************************************)
(* The broadcaster role (src/src/active_node.rs): an ActiveDJNode, its     *)
(* background task, the response cache it shares with the dispatcher       *)
(* (src/src/node/response_data.rs) and the queues to `active_broadcast`    *)
(* (src/src/node/dispatcher.rs), seen by one slave peer.                   *)
(*                                                                         *)
(* Two threads run: the user's, inside a method of ActiveDJNode (they take *)
(* &mut self: one at a time), and the runtime's only worker, on which the  *)
(* background task and active_broadcast alternate at their awaits.  Every  *)
(* field they share is an ArcSwap of its own or a queue, so each load,     *)
(* store and try_send is a step.  The user's thread is the only writer of  *)
(* the layers: the snapshot it announces is the one it just wrote.         *)
(*                                                                         *)
(* Left out: the Time packets, the mixer, and the responses that only the  *)
(* user's thread writes (cues, waveforms, beat grid, artwork).             *)
(***************************************************************************)
EXTENDS Naturals, Sequences

LOCAL INSTANCE SequencesExt

CONSTANTS
  Layers,        \* 1..8, in LayerId::ALL order: 1..LastLayer here
  LastLayer,
  Tracks,        \* the ids load_track is given; it takes 0, which then reads as no track
  Playbacks,     \* play state, playhead, tempo, sync flag, on-air of a layer
  StartPlayback, \* ... of a new node: Idle, 120 bpm, normal speed
  EmptyPlayback, \* ... of LayerSnapshot::default: Idle, no tempo
  LoadedPlayback,\* ... as load_track leaves them: Stopped at position 0
  QueueCap,      \* 512: capacity of the queues to active_broadcast
  MaxCalls,      \* bound: the user's calls in a behaviour
  MaxLosses,     \* bound: the packets lost on the way to the slave
  None           \* a response that was never built

NoTrack == 0

ASSUME ConstantsAssumption ==
  /\ LastLayer \in Nat \ {0}
  /\ Layers = 1..LastLayer
  /\ Tracks \subseteq Nat
  /\ {StartPlayback, EmptyPlayback, LoadedPlayback} \subseteq Playbacks
  /\ QueueCap \in Nat \ {0}
  /\ MaxCalls \in Nat
  /\ MaxLosses \in Nat

LayerSnapshot == [playback : Playbacks, track_id : Tracks \cup {NoTrack}]

ASSUME NoneAssumption == None \notin Tracks \cup {NoTrack} /\ None \notin LayerSnapshot

StartLayer == [playback |-> StartPlayback, track_id |-> NoTrack]
DefaultLayer == [playback |-> EmptyPlayback, track_id |-> NoTrack]

VARIABLES
  layers,          \* ActiveNodeInner::layers
  last_metrics,    \* LayerResponseData: what a Metrics request is answered with
  last_meta,       \* ... and a Meta request
  user,            \* the call in progress: what it does next, and for which layer
  calls,           \* the calls made so far
  bg,              \* the background task: what it does next, where, and what it holds
  broadcast_queue, \* active_broadcast: Status packets
  slave_queue,     \* active_slave_unicast: Metrics and Meta packets
  turn,            \* the queue it drains next
  ticked,          \* the intervals that fired since its last iteration
  losses,          \* packets lost so far
  slave            \* what the slave last heard of each layer

cacheVars == <<last_metrics, last_meta>>
queueVars == <<broadcast_queue, slave_queue>>
netVars == <<turn, ticked, losses, slave>>
vars == <<layers, cacheVars, user, calls, bg, queueVars, netVars>>

------------------------------------------------------------------------------
(* Packets *)

Metrics(l, snapshot) == [kind |-> "metrics", layer |-> l, data |-> snapshot]
Meta(l, track_id) == [kind |-> "meta", layer |-> l, data |-> track_id]
TrackIds == [l \in Layers |-> layers[l].track_id]
Status(track_ids) == [kind |-> "status", layer |-> 0, data |-> track_ids]

(* Mutant: the queues are unbounded. *)
Offer_Unbounded(queue, packet) == Append(queue, packet)

(* try_send: a full queue drops the packet and answers Ok(false), which the *)
(* callers map to Ok(()) or ignore.                                         *)
Offer(queue, packet) ==
  IF Len(queue) < QueueCap THEN Append(queue, packet) ELSE queue

Idle(task) == task.at = "idle"
Resting == [at |-> "idle", layer |-> 1, load |-> FALSE]
Waiting == [at |-> "idle", tick |-> "metrics", layer |-> 1, held |-> None]

Init ==
  /\ layers = [l \in Layers |-> StartLayer]
  /\ last_metrics = [l \in Layers |-> None]
  /\ last_meta = [l \in Layers |-> None]
  /\ user = Resting
  /\ calls = 0
  /\ bg = Waiting
  /\ broadcast_queue = <<>>
  /\ slave_queue = <<>>
  /\ turn = "broadcast"
  /\ ticked = {}
  /\ losses = 0
  /\ slave = [l \in Layers |-> [metrics |-> None, meta |-> None, status |-> None]]

------------------------------------------------------------------------------
(* The user's calls *)

Begin(l, next, load) ==
  /\ Idle(user)
  /\ calls < MaxCalls
  /\ calls' = calls + 1
  /\ user' = [at |-> next, layer |-> l, load |-> load]

(* play, pause, stop, cue, set_position_ms, set_layer_position, set_bpm,    *)
(* set_speed, set_sync_master: republish the layer, then announce Metrics.  *)
ChangePlayback(l, playback) ==
  /\ Begin(l, "store_metrics", FALSE)
  /\ layers' = [layers EXCEPT ![l].playback = playback]
  /\ UNCHANGED <<cacheVars, bg, queueVars, netVars>>

(* The cues and the prebuilt responses it resets are not modelled.           *)
LoadTrack(l, track_id) ==
  /\ Begin(l, "store_metrics", TRUE)
  /\ layers' = [layers EXCEPT ![l] = [playback |-> LoadedPlayback, track_id |-> track_id]]
  /\ UNCHANGED <<cacheVars, bg, queueVars, netVars>>

(* A bpm that is not finite and positive: Err, nothing is changed. *)
LoadTrackRejected ==
  /\ Idle(user)
  /\ UNCHANGED vars

UnloadTrack(l) ==
  /\ Begin(l, "send_status", FALSE)
  /\ layers' = [layers EXCEPT ![l] = DefaultLayer]
  /\ UNCHANGED <<cacheVars, bg, queueVars, netVars>>

Then(next) == user' = [user EXCEPT !.at = next]
Return == user' = Resting

StoreMetrics ==
  /\ user.at = "store_metrics"
  /\ Then("send_metrics")
  /\ last_metrics' = [last_metrics EXCEPT ![user.layer] = layers[user.layer]]
  /\ UNCHANGED <<layers, last_meta, calls, bg, queueVars, netVars>>

(* The last step of every call but load_track. *)
SendMetrics ==
  /\ user.at = "send_metrics"
  /\ IF user.load THEN Then("send_status") ELSE Return
  /\ slave_queue' = Offer(slave_queue, Metrics(user.layer, layers[user.layer]))
  /\ UNCHANGED <<layers, cacheVars, calls, bg, broadcast_queue, netVars>>

(* Mutant: a full queue is an error, on which `?` leaves load_track. *)
SendStatus_FullIsError ==
  /\ user.at = "send_status"
  /\ IF user.load /\ Len(broadcast_queue) < QueueCap THEN Then("store_meta") ELSE Return
  /\ broadcast_queue' = Offer(broadcast_queue, Status(TrackIds))
  /\ UNCHANGED <<layers, cacheVars, calls, bg, slave_queue, netVars>>

SendStatus ==
  /\ user.at = "send_status"
  /\ IF user.load THEN Then("store_meta") ELSE Return
  /\ broadcast_queue' = Offer(broadcast_queue, Status(TrackIds))
  /\ UNCHANGED <<layers, cacheVars, calls, bg, slave_queue, netVars>>

StoreMeta ==
  /\ user.at = "store_meta"
  /\ Then("send_meta")
  /\ last_meta' = [last_meta EXCEPT ![user.layer] = layers[user.layer].track_id]
  /\ UNCHANGED <<layers, last_metrics, calls, bg, queueVars, netVars>>

SendMeta ==
  /\ user.at = "send_meta"
  /\ Return
  /\ slave_queue' = Offer(slave_queue, Meta(user.layer, layers[user.layer].track_id))
  /\ UNCHANGED <<layers, cacheVars, calls, bg, broadcast_queue, netVars>>

------------------------------------------------------------------------------
(* The background task *)

bgUnchanged == <<layers, user, calls>>

(* active_broadcast loops every 5 ms and the intervals are 50 ms and 1 s:  *)
(* neither fires twice in an iteration.                                    *)
Ticks(tick, next, held) ==
  /\ Idle(bg)
  /\ tick \notin ticked
  /\ ticked' = ticked \cup {tick}
  /\ bg' = [at |-> next, tick |-> tick, layer |-> 1, held |-> held]

MetricsTick ==
  /\ Ticks("metrics", "check", None)
  /\ UNCHANGED <<bgUnchanged, cacheVars, queueVars, turn, losses, slave>>

(* Mutant: the tick sends no Meta; only load_track does. *)
TickStatus_NoMeta ==
  /\ bg.at = "status"
  /\ bg' = Waiting
  /\ broadcast_queue' = Offer(broadcast_queue, Status(bg.held))
  /\ UNCHANGED <<bgUnchanged, cacheVars, slave_queue, netVars>>

(* build_status_packet loads the layers one after the other; here at once. *)
StatusTick ==
  /\ Ticks("status", "status", TrackIds)
  /\ UNCHANGED <<bgUnchanged, cacheVars, queueVars, turn, losses, slave>>

TickStatus ==
  /\ bg.at = "status"
  /\ bg' = [bg EXCEPT !.at = "check", !.held = None]
  /\ broadcast_queue' = Offer(broadcast_queue, Status(bg.held))
  /\ UNCHANGED <<bgUnchanged, cacheVars, slave_queue, netVars>>

NextLayer ==
  IF bg.layer = LastLayer
    THEN Waiting
    ELSE [bg EXCEPT !.at = "check", !.layer = @ + 1, !.held = None]

(* Mutant: a layer that has its response is not announced again. *)
CheckLayer_Once ==
  /\ bg.at = "check"
  /\ bg' = IF layers[bg.layer].track_id # NoTrack /\ last_metrics[bg.layer] = None
             THEN [bg EXCEPT !.at = "build"] ELSE NextLayer
  /\ UNCHANGED <<bgUnchanged, cacheVars, queueVars, netVars>>

(* Only a layer that holds a track is announced; the packet is built from *)
(* a second load.                                                         *)
CheckLayer ==
  /\ bg.at = "check"
  /\ bg' = IF layers[bg.layer].track_id # NoTrack THEN [bg EXCEPT !.at = "build"] ELSE NextLayer
  /\ UNCHANGED <<bgUnchanged, cacheVars, queueVars, netVars>>

BuildPacket ==
  /\ bg.at = "build"
  /\ bg' = [bg EXCEPT !.at = "store",
                      !.held = IF bg.tick = "metrics" THEN layers[bg.layer]
                               ELSE layers[bg.layer].track_id]
  /\ UNCHANGED <<bgUnchanged, cacheVars, queueVars, netVars>>

StorePacket ==
  /\ bg.at = "store"
  /\ bg' = [bg EXCEPT !.at = "send"]
  /\ IF bg.tick = "metrics"
       THEN /\ last_metrics' = [last_metrics EXCEPT ![bg.layer] = bg.held]
            /\ UNCHANGED last_meta
       ELSE /\ last_meta' = [last_meta EXCEPT ![bg.layer] = bg.held]
            /\ UNCHANGED last_metrics
  /\ UNCHANGED <<bgUnchanged, queueVars, netVars>>

SendPacket ==
  /\ bg.at = "send"
  /\ bg' = NextLayer
  /\ slave_queue' = Offer(slave_queue,
       IF bg.tick = "metrics" THEN Metrics(bg.layer, bg.held) ELSE Meta(bg.layer, bg.held))
  /\ UNCHANGED <<bgUnchanged, cacheVars, broadcast_queue, netVars>>

------------------------------------------------------------------------------
(* active_broadcast, and the slave *)

senderUnchanged == <<layers, cacheVars, user, calls, bg>>

Hear(heard, packet) ==
  [l \in Layers |->
    IF packet.kind = "status" THEN [heard[l] EXCEPT !.status = packet.data[l]]
    ELSE IF packet.layer # l THEN heard[l]
    ELSE IF packet.kind = "metrics" THEN [heard[l] EXCEPT !.metrics = packet.data]
    ELSE [heard[l] EXCEPT !.meta = packet.data]]

(* What was drained is sent in order; a packet may be lost on the network, *)
(* or sent before the slave was in the list.  Nothing here reads a packet  *)
(* in flight, so the sends are one step with the drain.                    *)
Transmit(packets) ==
  \/ slave' = FoldLeft(Hear, slave, packets) /\ UNCHANGED losses
  \/ /\ losses < MaxLosses
     /\ losses' = losses + 1
     /\ \E i \in 1..Len(packets) : slave' = FoldLeft(Hear, slave, RemoveAt(packets, i))

(* One queue, and then the other. *)
DrainBroadcast ==
  /\ Idle(bg)
  /\ turn = "broadcast"
  /\ turn' = "slave"
  /\ broadcast_queue' = <<>>
  /\ Transmit(broadcast_queue)
  /\ UNCHANGED <<senderUnchanged, slave_queue, ticked>>

(* After the slave packets (and the Time packets) the task sleeps. *)
DrainSlave ==
  /\ Idle(bg)
  /\ turn = "slave"
  /\ turn' = "broadcast"
  /\ slave_queue' = <<>>
  /\ Transmit(slave_queue)
  /\ ticked' = {}
  /\ UNCHANGED <<senderUnchanged, broadcast_queue>>

------------------------------------------------------------------------------
Calls ==
  \/ \E l \in Layers :
       \/ \E playback \in Playbacks : ChangePlayback(l, playback)
       \/ UnloadTrack(l)
       \/ \E track_id \in Tracks : LoadTrack(l, track_id)
  \/ LoadTrackRejected

CallSteps ==
  \/ StoreMetrics \/ SendMetrics \/ SendStatus \/ StoreMeta \/ SendMeta

BgSteps == TickStatus \/ CheckLayer \/ BuildPacket \/ StorePacket \/ SendPacket

Next ==
  \/ Calls \/ CallSteps
  \/ MetricsTick \/ StatusTick \/ BgSteps
  \/ DrainBroadcast \/ DrainSlave

Spec == Init /\ [][Next]_vars

(* A call runs to its end.  The worker thread runs the background task and *)
(* active_broadcast, and comes back to each.  An interval that is due      *)
(* stays due, and select! picks at random among those that are, so neither *)
(* starves the other (SF).  The user need not call again.                  *)
Fairness ==
  /\ WF_vars(CallSteps)
  /\ WF_vars(BgSteps)
  /\ SF_vars(MetricsTick)
  /\ SF_vars(StatusTick)
  /\ WF_vars(DrainBroadcast \/ DrainSlave)

FairSpec == Spec /\ Fairness

------------------------------------------------------------------------------
(* Properties *)

WellFormed(queue) ==
  \A i \in 1..Len(queue) :
    CASE queue[i].kind = "metrics" -> queue[i].layer \in Layers /\ queue[i].data \in LayerSnapshot
      [] queue[i].kind = "meta" -> queue[i].layer \in Layers /\ queue[i].data \in Tracks \cup {NoTrack}
      [] queue[i].kind = "status" -> queue[i].data \in [Layers -> Tracks \cup {NoTrack}]

(* The shape of the state, and the capacity of the queues. *)
TypeOK ==
  /\ layers \in [Layers -> LayerSnapshot]
  /\ last_metrics \in [Layers -> LayerSnapshot \cup {None}]
  /\ last_meta \in [Layers -> Tracks \cup {NoTrack, None}]
  /\ user \in [at : {"idle", "store_metrics", "send_metrics", "send_status",
                     "store_meta", "send_meta"}, layer : Layers, load : BOOLEAN]
  /\ calls \in 0..MaxCalls
  /\ bg.at \in {"idle", "status", "check", "build", "store", "send"}
  /\ bg.layer \in Layers
  /\ bg.at \in {"store", "send"} =>
       bg.held \in (IF bg.tick = "metrics" THEN LayerSnapshot ELSE Tracks \cup {NoTrack})
  /\ bg.at = "status" => bg.held \in [Layers -> Tracks \cup {NoTrack}]
  /\ WellFormed(broadcast_queue \o slave_queue)
  /\ Len(broadcast_queue) <= QueueCap
  /\ Len(slave_queue) <= QueueCap
  /\ turn \in {"broadcast", "slave"}
  /\ ticked \subseteq {"metrics", "status"}
  /\ losses \in 0..MaxLosses

Loaded(l) == layers[l].track_id # NoTrack

(* "Populate last_metrics so stopped tracks can respond to MetricsData     *)
(* requests": as soon as load_track has returned, and whatever the         *)
(* background task is doing, a peer's Metrics and Meta requests of the     *)
(* layer have an answer.                                                   *)
LoadedLayersAnswer ==
  Idle(user) =>
    \A l \in Layers : Loaded(l) => last_metrics[l] # None /\ last_meta[l] # None

(* Once the user stops calling, the Metrics and Meta responses of a loaded *)
(* layer become its current ones and stay so, although the background task *)
(* may have stored an older snapshot over a newer one.                     *)
ResponsesCatchUp ==
  <>[](\A l \in Layers : Loaded(l) =>
         last_metrics[l] = layers[l] /\ last_meta[l] = layers[l].track_id)

(* ... and a slave that joined late, or lost packets, or was sent a newer  *)
(* and then an older snapshot, learns every loaded layer's state and track *)
(* for good, and which layers hold none.                                   *)
SlaveCatchesUp ==
  <>[](\A l \in Layers :
         /\ slave[l].status = layers[l].track_id
         /\ Loaded(l) => /\ slave[l].metrics = layers[l]
                         /\ slave[l].meta = layers[l].track_id)

=============================================================================
