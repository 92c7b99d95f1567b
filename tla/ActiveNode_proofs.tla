------------------------- MODULE ActiveNode_proofs -------------------------
(***************************************************************************)
(* Proofs about ActiveNode and ActiveNodeTicks, for every number of        *)
(* layers, every set of tracks and every capacity of the queues.           *)
(***************************************************************************)
EXTENDS ActiveNodeTicks, TLAPS

Ids == Tracks \cup {NoTrack}

Packets ==
  [kind : {"metrics"}, layer : Layers, data : LayerSnapshot]
    \cup [kind : {"meta"}, layer : Layers, data : Ids]
    \cup [kind : {"status"}, layer : {0}, data : [Layers -> Ids]]

CallPoints == {"idle", "store_metrics", "send_metrics", "send_status", "store_meta", "send_meta"}

(* TypeOK, with the queues as sequences and the background task as a record. *)
LayersOK ==
  /\ layers \in [Layers -> LayerSnapshot]
  /\ last_metrics \in [Layers -> LayerSnapshot \cup {None}]
  /\ last_meta \in [Layers -> Ids \cup {None}]
  /\ user \in [at : CallPoints, layer : Layers, load : BOOLEAN]
  /\ calls \in 0..MaxCalls

TaskOK ==
  /\ bg = [at |-> bg.at, tick |-> bg.tick, layer |-> bg.layer, held |-> bg.held]
  /\ bg.at \in {"idle", "status", "check", "build", "store", "send"}
  /\ bg.tick \in {"metrics", "status"}
  /\ bg.layer \in Layers
  /\ bg.at \in {"store", "send"} => bg.held \in (IF bg.tick = "metrics" THEN LayerSnapshot ELSE Ids)
  /\ bg.at = "status" => bg.held \in [Layers -> Ids]

QueuesOK ==
  /\ broadcast_queue \in Seq(Packets)
  /\ slave_queue \in Seq(Packets)
  /\ Len(broadcast_queue) <= QueueCap
  /\ Len(slave_queue) <= QueueCap

RestOK ==
  /\ turn \in {"broadcast", "slave"}
  /\ ticked \subseteq {"metrics", "status"}
  /\ losses \in 0..MaxLosses

Shape == LayersOK /\ TaskOK /\ QueuesOK /\ RestOK

-------------------------------------------------------------------------------
(* Facts about the helpers *)

LEMMA ConstantFacts ==
  /\ 1 \in Layers
  /\ LastLayer \in Nat
  /\ Layers = 1..LastLayer
  /\ {StartLayer, DefaultLayer} \subseteq LayerSnapshot
  /\ NoTrack \in Ids
  /\ DefaultLayer.track_id = NoTrack
BY ConstantsAssumption DEF LayerSnapshot, StartLayer, DefaultLayer, Ids

(* A queue that was offered a packet is a queue, no longer than its capacity. *)
LEMMA OfferType ==
  ASSUME NEW queue \in Seq(Packets), Len(queue) <= QueueCap, NEW packet \in Packets
  PROVE  Offer(queue, packet) \in Seq(Packets) /\ Len(Offer(queue, packet)) <= QueueCap
BY ConstantsAssumption DEF Offer

LEMMA TrackIdsType ==
  ASSUME layers \in [Layers -> LayerSnapshot]
  PROVE  TrackIds \in [Layers -> Ids]
BY DEF TrackIds, LayerSnapshot, Ids

LEMMA PacketTypes ==
  /\ \A l \in Layers, snapshot \in LayerSnapshot : Metrics(l, snapshot) \in Packets
  /\ \A l \in Layers, id \in Ids : Meta(l, id) \in Packets
  /\ \A ids \in [Layers -> Ids] : Status(ids) \in Packets
BY DEF Metrics, Meta, Status, Packets

LEMMA PacketsWellFormed ==
  ASSUME NEW queue \in Seq(Packets)
  PROVE  WellFormed(queue)
<1> SUFFICES ASSUME NEW i \in 1..Len(queue)
             PROVE  CASE queue[i].kind = "metrics" ->
                           queue[i].layer \in Layers /\ queue[i].data \in LayerSnapshot
                      [] queue[i].kind = "meta" ->
                           queue[i].layer \in Layers /\ queue[i].data \in Ids
                      [] queue[i].kind = "status" -> queue[i].data \in [Layers -> Ids]
  BY DEF WellFormed, Ids
<1>1. queue[i] \in Packets
  OBVIOUS
<1>2. QED
  BY <1>1 DEF Packets

LEMMA ShapeIsTypeOK == Shape => TypeOK
<1> SUFFICES ASSUME Shape PROVE TypeOK
  OBVIOUS
<1>1. broadcast_queue \o slave_queue \in Seq(Packets)
  BY DEF Shape, QueuesOK
<1>2. WellFormed(broadcast_queue \o slave_queue)
  BY <1>1, PacketsWellFormed
<1>3. QED
  BY <1>2 DEF Shape, LayersOK, TaskOK, QueuesOK, RestOK, TypeOK, Ids, CallPoints

-------------------------------------------------------------------------------
(* Type correctness: what each step leaves of Shape *)

(* The user's thread changes neither the background task nor the peers. *)
LEMMA CallShape ==
  ASSUME Shape, Calls \/ CallSteps
  PROVE  Shape'
<1> USE DEF Shape
<1>1. CASE LoadTrackRejected
  BY <1>1 DEF LoadTrackRejected, vars, cacheVars, queueVars, netVars,
              LayersOK, TaskOK, QueuesOK, RestOK
<1>2. CASE Calls /\ ~LoadTrackRejected
  <2>1. UNCHANGED <<cacheVars, bg, queueVars, netVars>>
    BY <1>2 DEF Calls, ChangePlayback, UnloadTrack, LoadTrack
  <2>2. \E l \in Layers, at \in CallPoints, load \in BOOLEAN : Begin(l, at, load)
    BY <1>2 DEF Calls, ChangePlayback, UnloadTrack, LoadTrack, CallPoints
  <2>3. layers' \in [Layers -> LayerSnapshot]
    <3>1. ASSUME NEW l \in Layers, NEW playback \in Playbacks, ChangePlayback(l, playback)
          PROVE  layers' \in [Layers -> LayerSnapshot]
      <4>1. [layers[l] EXCEPT !.playback = playback] \in LayerSnapshot
        BY DEF LayersOK, LayerSnapshot
      <4>2. QED
        BY <3>1, <4>1 DEF ChangePlayback, LayersOK
    <3>2. ASSUME NEW l \in Layers, NEW track_id \in Tracks, LoadTrack(l, track_id)
          PROVE  layers' \in [Layers -> LayerSnapshot]
      <4>1. [playback |-> LoadedPlayback, track_id |-> track_id] \in LayerSnapshot
        BY ConstantsAssumption DEF LayerSnapshot
      <4>2. QED
        BY <3>2, <4>1 DEF LoadTrack, LayersOK
    <3>3. ASSUME NEW l \in Layers, UnloadTrack(l) PROVE layers' \in [Layers -> LayerSnapshot]
      BY <3>3, ConstantFacts DEF UnloadTrack, LayersOK
    <3>4. QED
      BY <1>2, <3>1, <3>2, <3>3 DEF Calls
  <2>4. calls' \in 0..MaxCalls /\ user' \in [at : CallPoints, layer : Layers, load : BOOLEAN]
    BY <2>2, ConstantsAssumption DEF Begin, LayersOK
  <2>5. QED
    BY <2>1, <2>3, <2>4 DEF cacheVars, queueVars, netVars, LayersOK, TaskOK, QueuesOK, RestOK
<1>3. CASE CallSteps
  <2>1. user' \in [at : CallPoints, layer : Layers, load : BOOLEAN]
    <3>1. \A next \in CallPoints :
            [user EXCEPT !.at = next] \in [at : CallPoints, layer : Layers, load : BOOLEAN]
      BY DEF LayersOK
    <3>2. Resting \in [at : CallPoints, layer : Layers, load : BOOLEAN]
      BY ConstantFacts DEF Resting, CallPoints
    <3>3. Return \/ \E next \in CallPoints : Then(next)
      BY <1>3 DEF CallSteps, StoreMetrics, SendMetrics, SendStatus, StoreMeta, SendMeta, CallPoints
    <3>4. QED
      BY <3>1, <3>2, <3>3 DEF Then, Return
  <2>2. layers[user.layer] \in LayerSnapshot /\ layers[user.layer].track_id \in Ids
        /\ user.layer \in Layers
    BY DEF LayersOK, LayerSnapshot, Ids
  <2>3. LayersOK'
    BY <1>3, <2>1, <2>2 DEF CallSteps, StoreMetrics, SendMetrics, SendStatus, StoreMeta, SendMeta,
                            cacheVars, LayersOK
  <2>4. Metrics(user.layer, layers[user.layer]) \in Packets
        /\ Meta(user.layer, layers[user.layer].track_id) \in Packets
        /\ Status(TrackIds) \in Packets
    BY <2>2, PacketTypes, TrackIdsType DEF LayersOK
  <2>5. QueuesOK'
    BY <1>3, <2>4, OfferType DEF CallSteps, StoreMetrics, SendMetrics, SendStatus, StoreMeta,
                                 SendMeta, queueVars, QueuesOK
  <2>6. UNCHANGED <<bg, netVars>>
    BY <1>3 DEF CallSteps, StoreMetrics, SendMetrics, SendStatus, StoreMeta, SendMeta
  <2>7. QED
    BY <2>3, <2>5, <2>6 DEF netVars, TaskOK, RestOK
<1>4. QED
  BY <1>1, <1>2, <1>3

LEMMA NextLayerType ==
  ASSUME TaskOK
  PROVE  /\ NextLayer = [at |-> NextLayer.at, tick |-> NextLayer.tick,
                         layer |-> NextLayer.layer, held |-> NextLayer.held]
         /\ NextLayer.at \in {"idle", "check"}
         /\ NextLayer.tick \in {"metrics", "status"}
         /\ NextLayer.layer \in Layers
<1>1. bg.layer \in 1..LastLayer /\ LastLayer \in Nat /\ Layers = 1..LastLayer
  BY ConstantFacts DEF TaskOK
<1>2. CASE bg.layer = LastLayer
  BY <1>1, <1>2 DEF NextLayer, Waiting
<1>3. CASE bg.layer # LastLayer
  <2>1. NextLayer = [at |-> "check", tick |-> bg.tick, layer |-> bg.layer + 1, held |-> None]
    BY <1>3 DEF NextLayer, TaskOK
  <2>2. bg.layer + 1 \in Layers
    BY <1>1, <1>3
  <2>3. QED
    BY <2>1, <2>2 DEF TaskOK
<1>4. QED
  BY <1>2, <1>3

LEMMA TaskShape ==
  ASSUME Shape, MetricsTick \/ StatusTick \/ BgSteps
  PROVE  Shape'
<1> USE DEF Shape
<1>1. TaskOK'
  <2>1. CASE MetricsTick \/ StatusTick
    BY <2>1, ConstantFacts, TrackIdsType DEF MetricsTick, StatusTick, Ticks, TaskOK, LayersOK
  <2>2. CASE TickStatus
    BY <2>2 DEF TickStatus, TaskOK
  <2>3. CASE CheckLayer
    <3>1. CASE bg' = NextLayer
      BY <3>1, NextLayerType DEF TaskOK
    <3>2. CASE bg' = [bg EXCEPT !.at = "build"]
      BY <3>2 DEF TaskOK
    <3>3. QED
      BY <2>3, <3>1, <3>2 DEF CheckLayer
  <2>4. CASE BuildPacket
    <3>1. layers[bg.layer] \in LayerSnapshot /\ layers[bg.layer].track_id \in Ids
      BY DEF TaskOK, LayersOK, LayerSnapshot, Ids
    <3>2. QED
      BY <2>4, <3>1 DEF BuildPacket, TaskOK
  <2>5. CASE StorePacket
    BY <2>5 DEF StorePacket, TaskOK
  <2>6. CASE SendPacket
    BY <2>6, NextLayerType DEF SendPacket, TaskOK
  <2>7. QED
    BY <2>1, <2>2, <2>3, <2>4, <2>5, <2>6 DEF BgSteps
<1>2. LayersOK'
  <2>1. CASE StorePacket
    BY <2>1 DEF StorePacket, bgUnchanged, LayersOK, TaskOK
  <2>2. CASE ~StorePacket
    BY <2>2 DEF MetricsTick, StatusTick, BgSteps, TickStatus, CheckLayer, BuildPacket, SendPacket,
                bgUnchanged, cacheVars, LayersOK
  <2>3. QED
    BY <2>1, <2>2
<1>3. QueuesOK'
  <2>1. CASE TickStatus
    <3>1. Status(bg.held) \in Packets
      BY <2>1, PacketTypes DEF TickStatus, TaskOK
    <3>2. QED
      BY <2>1, <3>1, OfferType DEF TickStatus, QueuesOK
  <2>2. CASE SendPacket
    <3>1. (IF bg.tick = "metrics" THEN Metrics(bg.layer, bg.held) ELSE Meta(bg.layer, bg.held))
            \in Packets
      BY <2>2, PacketTypes DEF SendPacket, TaskOK
    <3>2. QED
      BY <2>2, <3>1, OfferType DEF SendPacket, QueuesOK
  <2>3. CASE MetricsTick \/ StatusTick \/ CheckLayer \/ BuildPacket \/ StorePacket
    BY <2>3 DEF MetricsTick, StatusTick, CheckLayer, BuildPacket, StorePacket, queueVars, QueuesOK
  <2>4. QED
    BY <2>1, <2>2, <2>3 DEF BgSteps
<1>4. RestOK'
  BY DEF MetricsTick, StatusTick, Ticks, BgSteps, TickStatus, CheckLayer, BuildPacket, StorePacket,
         SendPacket, netVars, RestOK
<1>5. QED
  BY <1>1, <1>2, <1>3, <1>4

LEMMA DrainShape ==
  ASSUME Shape, DrainBroadcast \/ DrainSlave
  PROVE  Shape'
<1> USE DEF Shape
<1>1. UNCHANGED <<layers, cacheVars, user, calls, bg>>
  BY DEF DrainBroadcast, DrainSlave, senderUnchanged
<1>2. QueuesOK'
  <2>1. <<>> \in Seq(Packets) /\ Len(<<>>) <= QueueCap
    BY ConstantsAssumption
  <2>2. /\ broadcast_queue' = broadcast_queue \/ broadcast_queue' = <<>>
        /\ slave_queue' = slave_queue \/ slave_queue' = <<>>
    BY DEF DrainBroadcast, DrainSlave
  <2>3. QED
    BY <2>1, <2>2 DEF QueuesOK
<1>3. losses' \in 0..MaxLosses
  BY ConstantsAssumption DEF DrainBroadcast, DrainSlave, Transmit, RestOK
<1>4. RestOK'
  BY <1>3 DEF DrainBroadcast, DrainSlave, RestOK
<1>5. QED
  BY <1>1, <1>2, <1>4 DEF cacheVars, LayersOK, TaskOK

LEMMA InitShape == Init => Shape
BY ConstantFacts, ConstantsAssumption
   DEF Init, Resting, Waiting, CallPoints, Shape, LayersOK, TaskOK, QueuesOK, RestOK

LEMMA StepShape == Shape /\ [Next]_vars => Shape'
<1>1. ASSUME Shape, UNCHANGED vars PROVE Shape'
  BY <1>1 DEF vars, cacheVars, queueVars, netVars, Shape, LayersOK, TaskOK, QueuesOK, RestOK
<1>2. QED
  BY <1>1, CallShape, TaskShape, DrainShape DEF Next

(* The layers, the cached responses, both threads and the queues keep their *)
(* shape, and no queue exceeds its capacity.                                *)
THEOREM TypeCorrect == Spec => []TypeOK
<1>1. Spec => []Shape
  BY InitShape, StepShape, PTL DEF Spec
<1>2. QED
  BY <1>1, ShapeIsTypeOK, PTL

-------------------------------------------------------------------------------
(* A loaded layer answers *)

(* A response is missing from a loaded layer only before the call that is  *)
(* loading the layer has stored it; and nobody ever stores None.           *)
AnswersInTime ==
  \A l \in Layers :
    Loaded(l) =>
      /\ last_metrics[l] = None =>
           user.load /\ user.layer = l /\ user.at = "store_metrics"
      /\ last_meta[l] = None =>
           user.load /\ user.layer = l
             /\ user.at \in {"store_metrics", "send_metrics", "send_status", "store_meta"}

LEMMA NeverNone ==
  ASSUME Shape
  PROVE  /\ layers[user.layer] # None
         /\ layers[user.layer].track_id # None
         /\ bg.at = "store" => bg.held # None
<1>1. layers[user.layer] \in LayerSnapshot
  BY DEF Shape, LayersOK
<1>2. layers[user.layer].track_id \in Ids
  BY <1>1 DEF LayerSnapshot, Ids
<1>3. bg.at = "store" => bg.held \in LayerSnapshot \/ bg.held \in Ids
  BY DEF Shape, TaskOK
<1>4. QED
  BY <1>1, <1>2, <1>3, NoneAssumption DEF Ids

LEMMA InitAnswers == Init => AnswersInTime
BY DEF Init, AnswersInTime, Loaded, StartLayer

LEMMA CallAnswers ==
  ASSUME Shape, AnswersInTime, Calls \/ CallSteps
  PROVE  AnswersInTime'
<1> USE DEF Shape, LayersOK
<1>1. CASE LoadTrackRejected
  BY <1>1 DEF LoadTrackRejected, vars, cacheVars, AnswersInTime, Loaded
<1>2. ASSUME NEW l \in Layers, NEW playback \in Playbacks, ChangePlayback(l, playback)
      PROVE  AnswersInTime'
  <2>1. \A m \in Layers : layers'[m].track_id = layers[m].track_id
    BY <1>2 DEF ChangePlayback, LayerSnapshot
  <2>2. user.at = "idle"
    BY <1>2 DEF ChangePlayback, Begin, Idle
  <2>3. QED
    BY <1>2, <2>1, <2>2 DEF ChangePlayback, cacheVars, AnswersInTime, Loaded
<1>3. ASSUME NEW l \in Layers, UnloadTrack(l) PROVE AnswersInTime'
  <2>1. user.at = "idle" /\ UNCHANGED <<last_metrics, last_meta>>
    BY <1>3 DEF UnloadTrack, Begin, Idle, cacheVars
  <2>2. layers' = [layers EXCEPT ![l] = DefaultLayer]
    BY <1>3 DEF UnloadTrack
  <2>3. QED
    BY <2>1, <2>2, ConstantFacts DEF AnswersInTime, Loaded
<1>4. ASSUME NEW l \in Layers, NEW track_id \in Tracks, LoadTrack(l, track_id)
      PROVE  AnswersInTime'
  <2>1. user.at = "idle" /\ UNCHANGED <<last_metrics, last_meta>>
    BY <1>4 DEF LoadTrack, Begin, Idle, cacheVars
  <2>2. user' = [at |-> "store_metrics", layer |-> l, load |-> TRUE]
    BY <1>4 DEF LoadTrack, Begin
  <2>3. \A m \in Layers \ {l} : layers'[m] = layers[m]
    BY <1>4 DEF LoadTrack
  <2>4. QED
    BY <2>1, <2>2, <2>3 DEF AnswersInTime, Loaded
<1>5. CASE StoreMetrics
  <2>1. /\ last_metrics' = [last_metrics EXCEPT ![user.layer] = layers[user.layer]]
        /\ user' = [user EXCEPT !.at = "send_metrics"]
        /\ user.at = "store_metrics"
        /\ UNCHANGED <<layers, last_meta>>
    BY <1>5 DEF StoreMetrics, Then
  <2>2. QED
    BY <2>1, NeverNone DEF AnswersInTime, Loaded
<1>6. CASE SendMetrics \/ SendStatus
  <2>1. /\ user.at \in {"send_metrics", "send_status"}
        /\ user.load => user'.load /\ user'.layer = user.layer /\ user'.at \in {"send_status", "store_meta"}
        /\ UNCHANGED <<layers, last_metrics, last_meta>>
    BY <1>6 DEF SendMetrics, SendStatus, Then, cacheVars
  <2>2. QED
    BY <2>1 DEF AnswersInTime, Loaded
<1>7. CASE StoreMeta
  <2>1. /\ last_meta' = [last_meta EXCEPT ![user.layer] = layers[user.layer].track_id]
        /\ user.at = "store_meta"
        /\ UNCHANGED <<layers, last_metrics>>
    BY <1>7 DEF StoreMeta
  <2>2. QED
    BY <2>1, NeverNone DEF AnswersInTime, Loaded
<1>8. CASE SendMeta
  BY <1>8 DEF SendMeta, Return, cacheVars, AnswersInTime, Loaded
<1>9. QED
  BY <1>1, <1>2, <1>3, <1>4, <1>5, <1>6, <1>7, <1>8 DEF Calls, CallSteps

(* The background task only replaces a response by another. *)
LEMMA OthersAnswer ==
  ASSUME Shape, AnswersInTime,
         MetricsTick \/ StatusTick \/ BgSteps \/ DrainBroadcast \/ DrainSlave
  PROVE  AnswersInTime'
<1>1. UNCHANGED <<layers, user>>
  BY DEF MetricsTick, StatusTick, BgSteps, TickStatus, CheckLayer, BuildPacket, StorePacket,
         SendPacket, DrainBroadcast, DrainSlave, bgUnchanged, senderUnchanged
<1>2. CASE StorePacket
  <2>1. bg.held # None
    BY <1>2, NeverNone DEF StorePacket
  <2>2. \/ last_metrics' = [last_metrics EXCEPT ![bg.layer] = bg.held] /\ UNCHANGED last_meta
        \/ last_meta' = [last_meta EXCEPT ![bg.layer] = bg.held] /\ UNCHANGED last_metrics
    BY <1>2 DEF StorePacket
  <2>3. QED
    BY <1>1, <2>1, <2>2 DEF AnswersInTime, Loaded, Shape, LayersOK
<1>3. CASE ~StorePacket
  <2>1. UNCHANGED <<last_metrics, last_meta>>
    BY <1>3 DEF MetricsTick, StatusTick, BgSteps, TickStatus, CheckLayer, BuildPacket, SendPacket,
                DrainBroadcast, DrainSlave, bgUnchanged, senderUnchanged, cacheVars
  <2>2. QED
    BY <1>1, <2>1 DEF AnswersInTime, Loaded
<1>4. QED
  BY <1>2, <1>3

LEMMA StepAnswers == Shape /\ AnswersInTime /\ [Next]_vars => AnswersInTime'
<1>1. ASSUME AnswersInTime, UNCHANGED vars PROVE AnswersInTime'
  BY <1>1 DEF vars, cacheVars, AnswersInTime, Loaded
<1>2. QED
  BY <1>1, CallAnswers, OthersAnswer DEF Next

LEMMA AnswersSuffice == AnswersInTime => LoadedLayersAnswer
BY DEF AnswersInTime, LoadedLayersAnswer, Idle

(* Between calls a peer's Metrics and Meta requests of every loaded layer   *)
(* have an answer, however the background task's stores fall between those  *)
(* of the call, and whatever the queues drop.                               *)
THEOREM LoadedAnswers == Spec => []LoadedLayersAnswer
<1>1. Spec => [](Shape /\ AnswersInTime)
  BY InitShape, InitAnswers, StepShape, StepAnswers, PTL DEF Spec
<1>2. QED
  BY <1>1, AnswersSuffice, PTL

-------------------------------------------------------------------------------
(* A tick that nothing disturbs is on its course: the layers behind it     *)
(* have the response it makes, and it holds what the layer it is at has.   *)

Right(tick, l) ==
  Loaded(l) => IF tick = "metrics" THEN last_metrics[l] = layers[l]
               ELSE last_meta[l] = layers[l].track_id

HoldsPresent ==
  bg.held = IF bg.tick = "metrics" THEN layers[bg.layer] ELSE layers[bg.layer].track_id

OnCourse ==
  /\ bg.at = "status" => bg.layer = 1
  /\ \A l \in Layers : l < bg.layer => Right(bg.tick, l)
  /\ bg.at \in {"store", "send"} => HoldsPresent
  /\ bg.at = "send" => Right(bg.tick, bg.layer)

TicksRecorded ==
  /\ quiet \in BOOLEAN
  /\ quiet => Idle(user)
  /\ through # {} => quiet
  /\ quiet /\ ~Idle(bg) => OnCourse
  /\ \A tick \in through : \A l \in Layers : Right(tick, l)

LEMMA InitRecorded == TicksInit => TicksRecorded
BY DEF TicksInit, TicksRecorded

(* A call begins, or goes on: no tick is undisturbed, and none has been. *)
LEMMA CallRecorded ==
  ASSUME TicksRecorded, TicksNext, CallBegins \/ CallSteps
  PROVE  TicksRecorded'
<1>1. CASE CallBegins
  BY <1>1 DEF TicksNext, TicksRecorded
<1>2. CASE CallSteps /\ ~CallBegins
  <2>1. ~Idle(user) /\ bg' = bg
    BY <1>2 DEF CallSteps, StoreMetrics, SendMetrics, SendStatus, StoreMeta, SendMeta, Idle
  <2>2. quiet = FALSE /\ through = {}
    BY <2>1 DEF TicksRecorded
  <2>3. ~TickBegins /\ ~TickEnds
    BY <2>1 DEF TickBegins, TickEnds
  <2>4. quiet' = FALSE /\ through' = {}
    BY <1>2, <2>2, <2>3 DEF TicksNext
  <2>5. QED
    BY <2>4 DEF TicksRecorded
<1>3. QED
  BY <1>1, <1>2

(* The task goes from one layer to the next, or is through. *)
LEMMA NextLayerRecorded ==
  ASSUME Shape, TicksRecorded, TicksNext, ~CallBegins, ~Idle(bg), bg' = NextLayer,
         UNCHANGED <<layers, cacheVars, user>>, quiet => Right(bg.tick, bg.layer)
  PROVE  TicksRecorded'
<1>1. ~TickBegins /\ quiet' = quiet /\ (quiet' => Idle(user'))
  BY DEF TicksNext, TickBegins, TicksRecorded
<1>2. \A tick, l : Right(tick, l) => Right(tick, l)'
  BY DEF Right, Loaded, cacheVars
<1>3. CASE bg.layer = LastLayer
  <2>1. Idle(bg') /\ TickEnds
    BY <1>3 DEF NextLayer, Waiting, Idle, TickEnds
  <2>2. through' = IF quiet THEN through \cup {bg.tick} ELSE through
    BY <2>1 DEF TicksNext
  <2>3. ASSUME quiet PROVE \A l \in Layers : Right(bg.tick, l)
    <3>1. OnCourse
      BY <2>3 DEF TicksRecorded
    <3>2. \A l \in Layers : l < bg.layer \/ l = bg.layer
      BY <1>3, ConstantFacts
    <3>3. QED
      BY <2>3, <3>1, <3>2 DEF OnCourse
  <2>4. \A tick \in through' : \A l \in Layers : Right(tick, l)
    BY <2>2, <2>3 DEF TicksRecorded
  <2>5. \A tick \in through' : \A l \in Layers : Right(tick, l)'
    BY <1>2, <2>4
  <2>6. through' # {} => quiet'
    BY <1>1, <2>2 DEF TicksRecorded
  <2>7. QED
    BY <1>1, <2>1, <2>5, <2>6 DEF TicksRecorded
<1>4. CASE bg.layer # LastLayer
  <2>1. bg' = [at |-> "check", tick |-> bg.tick, layer |-> bg.layer + 1, held |-> None]
    BY <1>4 DEF NextLayer, Shape, TaskOK
  <2>2. bg'.at = "check" /\ bg'.tick = bg.tick /\ bg'.layer = bg.layer + 1
    BY <2>1
  <2>3. ~Idle(bg') /\ ~TickEnds /\ through' = through
    BY <2>2 DEF Idle, TickEnds, TicksNext
  <2>4. ASSUME quiet PROVE OnCourse'
    <3>1. OnCourse
      BY <2>4 DEF TicksRecorded
    <3>2. \A l \in Layers : l < bg.layer + 1 => l < bg.layer \/ l = bg.layer
      BY ConstantFacts DEF Shape, TaskOK
    <3>3. \A l \in Layers : l < bg'.layer => Right(bg.tick, l)'
      BY <1>2, <2>2, <2>4, <3>1, <3>2 DEF OnCourse
    <3>4. QED
      BY <2>2, <3>3 DEF OnCourse
  <2>5. QED
    BY <1>1, <1>2, <2>3, <2>4 DEF TicksRecorded
<1>5. QED
  BY <1>3, <1>4

(* The other steps of the task stay at their layer. *)
LEMMA TaskRecorded ==
  ASSUME Shape, TicksRecorded, TicksNext, ~CallBegins, MetricsTick \/ StatusTick \/ BgSteps
  PROVE  TicksRecorded'
<1>1. UNCHANGED <<layers, user>>
  BY DEF MetricsTick, StatusTick, BgSteps, TickStatus, CheckLayer, BuildPacket, StorePacket,
         SendPacket, bgUnchanged
<1>2. CASE MetricsTick \/ StatusTick
  <2>1. /\ bg'.layer = 1 /\ bg'.at \in {"check", "status"}
        /\ Idle(bg) /\ UNCHANGED cacheVars
    BY <1>2 DEF MetricsTick, StatusTick, Ticks
  <2>2. TickBegins /\ ~TickEnds
    BY <2>1 DEF TickBegins, TickEnds, Idle
  <2>3. quiet' = Idle(user) /\ through' = through
    BY <2>2 DEF TicksNext
  <2>4. \A tick, l : Right(tick, l) => Right(tick, l)'
    BY <1>1, <2>1 DEF Right, Loaded, cacheVars
  <2>5. OnCourse'
    <3>1. \A l \in Layers : ~(l < 1)
      BY ConstantFacts
    <3>2. QED
      BY <2>1, <3>1 DEF OnCourse
  <2>6. Idle(user) \in BOOLEAN
    BY DEF Idle
  <2>7. QED
    BY <1>1, <2>3, <2>4, <2>5, <2>6 DEF TicksRecorded
<1>3. CASE TickStatus \/ BuildPacket \/ (CheckLayer /\ bg' # NextLayer)
  <2>1. /\ ~Idle(bg) /\ ~Idle(bg') /\ UNCHANGED cacheVars
        /\ bg'.layer = bg.layer /\ bg'.tick = bg.tick
        /\ bg'.at \in {"check", "build", "store"}
        /\ bg'.at = "store" => BuildPacket
    BY <1>3 DEF TickStatus, BuildPacket, CheckLayer, Idle, Shape, TaskOK
  <2>2. quiet' = quiet /\ through' = through
    BY <2>1 DEF TicksNext, TickBegins, TickEnds
  <2>3. \A tick, l : Right(tick, l) => Right(tick, l)'
    BY <1>1, <2>1 DEF Right, Loaded, cacheVars
  <2>4. ASSUME BuildPacket PROVE HoldsPresent'
    BY <1>1, <2>4 DEF BuildPacket, HoldsPresent, Shape, TaskOK
  <2>5. ASSUME quiet PROVE OnCourse'
    <3>1. OnCourse
      BY <2>1, <2>5 DEF TicksRecorded
    <3>2. QED
      BY <2>1, <2>3, <2>4, <3>1 DEF OnCourse
  <2>6. QED
    BY <1>1, <2>2, <2>3, <2>5 DEF TicksRecorded
<1>4. CASE StorePacket
  <2>1. /\ bg.at = "store" /\ bg'.at = "send" /\ ~Idle(bg) /\ ~Idle(bg')
        /\ bg'.layer = bg.layer /\ bg'.tick = bg.tick /\ bg'.held = bg.held
        /\ bg.layer \in Layers
    BY <1>4 DEF StorePacket, Idle, Shape, TaskOK
  <2>2. quiet' = quiet /\ through' = through
    BY <2>1 DEF TicksNext, TickBegins, TickEnds
  <2>3. ASSUME quiet PROVE OnCourse /\ HoldsPresent
    BY <2>1, <2>3 DEF TicksRecorded, OnCourse
  <2>4. ASSUME quiet
        PROVE  /\ Right(bg.tick, bg.layer)'
               /\ \A tick \in {"metrics", "status"} : \A l \in Layers :
                    Right(tick, l) => Right(tick, l)'
    <3>1. HoldsPresent
      BY <2>3, <2>4
    <3>2. CASE bg.tick = "metrics"
      <4>1. /\ last_metrics' = [last_metrics EXCEPT ![bg.layer] = layers[bg.layer]]
            /\ last_meta' = last_meta /\ layers' = layers
        BY <1>1, <1>4, <3>1, <3>2 DEF StorePacket, HoldsPresent
      <4>2. last_metrics \in [Layers -> LayerSnapshot \cup {None}]
        BY DEF Shape, LayersOK
      <4>3. QED
        BY <2>1, <3>2, <4>1, <4>2 DEF Right, Loaded
    <3>3. CASE bg.tick = "status"
      <4>1. /\ last_meta' = [last_meta EXCEPT ![bg.layer] = layers[bg.layer].track_id]
            /\ last_metrics' = last_metrics /\ layers' = layers
        BY <1>1, <1>4, <3>1, <3>3 DEF StorePacket, HoldsPresent
      <4>2. last_meta \in [Layers -> Ids \cup {None}]
        BY DEF Shape, LayersOK
      <4>3. QED
        BY <2>1, <3>3, <4>1, <4>2 DEF Right, Loaded
    <3>4. QED
      BY <3>2, <3>3 DEF Shape, TaskOK
  <2>5. bg.tick \in {"metrics", "status"}
    BY DEF Shape, TaskOK
  <2>6. ASSUME quiet PROVE OnCourse'
    <3>1. HoldsPresent'
      BY <1>1, <2>1, <2>3, <2>6 DEF HoldsPresent
    <3>2. QED
      BY <2>1, <2>3, <2>4, <2>5, <2>6, <3>1 DEF OnCourse
  <2>7. \A tick \in through : \A l \in Layers : Right(tick, l)'
    BY <2>4 DEF TicksRecorded, Right
  <2>8. QED
    BY <1>1, <2>2, <2>6, <2>7 DEF TicksRecorded
<1>5. CASE SendPacket \/ (CheckLayer /\ bg' = NextLayer)
  <2>1. bg' = NextLayer /\ ~Idle(bg) /\ UNCHANGED cacheVars
    BY <1>5 DEF SendPacket, CheckLayer, Idle
  <2>2. ASSUME quiet PROVE Right(bg.tick, bg.layer)
    <3>1. CASE SendPacket
      BY <2>1, <2>2, <3>1 DEF SendPacket, TicksRecorded, OnCourse
    <3>2. CASE CheckLayer /\ ~Loaded(bg.layer)
      BY <3>2 DEF Right
    <3>3. CASE CheckLayer /\ Loaded(bg.layer)
      <4>1. bg' = [bg EXCEPT !.at = "build"] /\ bg'.at = "build"
        BY <3>3 DEF CheckLayer, Loaded, Shape, TaskOK
      <4>2. bg'.at # "build"
        BY <2>1 DEF NextLayer, Waiting, Shape, TaskOK
      <4>3. QED
        BY <4>1, <4>2
    <3>4. QED
      BY <1>5, <3>1, <3>2, <3>3
  <2>3. QED
    BY <1>1, <2>1, <2>2, NextLayerRecorded
<1>6. QED
  BY <1>2, <1>3, <1>4, <1>5 DEF BgSteps

(* What active_broadcast does is not about the cache. *)
LEMMA DrainRecorded ==
  ASSUME TicksRecorded, UNCHANGED <<layers, cacheVars, user, calls, bg>>, TicksNext
  PROVE  TicksRecorded'
<1>1. ~CallBegins /\ ~TickBegins /\ ~TickEnds
  BY DEF CallBegins, TickBegins, TickEnds
<1>2. quiet' = quiet /\ through' = through
  BY <1>1 DEF TicksNext
<1>3. QED
  BY <1>2 DEF TicksRecorded, OnCourse, HoldsPresent, Right, Loaded, Idle, cacheVars

LEMMA StepRecorded ==
  ASSUME Shape, TicksRecorded, [TicksNext]_ticksVars
  PROVE  TicksRecorded'
<1>1. CASE UNCHANGED ticksVars
  BY <1>1 DEF ticksVars, vars, cacheVars, TicksRecorded, OnCourse, HoldsPresent, Right,
              Loaded, Idle
<1>2. CASE TicksNext /\ (CallBegins \/ CallSteps)
  BY <1>2, CallRecorded
<1>3. CASE TicksNext /\ ~CallBegins /\ (MetricsTick \/ StatusTick \/ BgSteps)
  BY <1>3, TaskRecorded
<1>4. CASE TicksNext /\ (DrainBroadcast \/ DrainSlave)
  BY <1>4, DrainRecorded DEF DrainBroadcast, DrainSlave, senderUnchanged, cacheVars
<1>5. CASE TicksNext /\ Calls /\ ~CallBegins
  <2>1. UNCHANGED vars
    BY <1>5 DEF Calls, ChangePlayback, UnloadTrack, LoadTrack, LoadTrackRejected, Begin,
                CallBegins, Shape, LayersOK
  <2>2. QED
    BY <1>5, <2>1, DrainRecorded DEF vars
<1>6. QED
  BY <1>1, <1>2, <1>3, <1>4, <1>5 DEF TicksNext, Next

(* One tick that no call disturbs leaves the response of every loaded      *)
(* layer right, whatever was stored over what before it.                   *)
THEOREM TicksPutRight == TicksSpec => []ResponsesPutRight
<1>1. TicksInit => Shape /\ TicksRecorded
  BY InitShape, InitRecorded DEF TicksInit
<1>2. Shape /\ TicksRecorded /\ [TicksNext]_ticksVars => Shape' /\ TicksRecorded'
  <2>1. [TicksNext]_ticksVars => [Next]_vars
    BY DEF TicksNext, ticksVars
  <2>2. QED
    BY <2>1, StepShape, StepRecorded
<1>3. TicksRecorded => ResponsesPutRight
  BY DEF TicksRecorded, ResponsesPutRight, Right
<1>4. QED
  BY <1>1, <1>2, <1>3, PTL DEF TicksSpec
=============================================================================
