------------------------ MODULE MirrorHistory_proofs ------------------------
(***************************************************************************)
(* Proofs about MirrorHistory: that what a view shows once was so, and     *)
(* when it is so; for any layers, calls, losses and packets on the way, in *)
(* whatever order they arrive.                                             *)
(***************************************************************************)
EXTENDS MirrorHistory, Mirror_proofs

(* What a packet was built from is in a record of the past. *)
In(packet, pastL, pastM) ==
  /\ packet.kind \in {"time", "status"} => \A l \in Layers : packet.held[l] \in pastL[l]
  /\ packet.kind \in {"metrics", "meta"} => packet.held[1] \in pastL[packet.layer]
  /\ packet.kind = "mixer" => packet.held[1] \in pastM

PresentRecorded ==
  /\ DOMAIN pastLayers = Layers
  /\ \A l \in Layers : layers[l] \in pastLayers[l]
  /\ mixer \in pastMixers

(* So are the layers the task holds: each its own, or all of them the one  *)
(* the task is at.                                                         *)
TaskRecorded ==
  \A i \in 1..Len(bg.held) :
    bg.held[i] \in pastLayers[IF bg.kind \in {"time", "status"} THEN i ELSE bg.layer]

NetworkRecorded == \A j \in 1..Len(network) : In(network[j], pastLayers, pastMixers)

Recorded == PresentRecorded /\ TaskRecorded /\ NetworkRecorded /\ ShownOnceWas

(* The part of ShownOnceWas about one layer, of any snapshot and states. *)
OnceWas(snap, states) ==
  /\ \E was \in states : snap.name = was.track_id
  /\ \E was \in states : snap.title = was.track_id
  /\ \E was \in states :
       snap.track_length_ms = was.track_id /\ snap.position_ms = was.playback
  /\ \E was \in states :
       /\ snap.total_time_ms = was.track_id
       /\ snap.current_time_ms = was.playback
       /\ snap.on_air = was.on_air
  /\ snap.state \in {snap.position_ms, snap.current_time_ms}
  /\ snap.track_id \in {snap.name, snap.title, snap.track_length_ms}

LEMMA ShownByLayer ==
  ShownOnceWas <=>
    /\ mirror.mixer \in pastMixers
    /\ \A l \in Layers : OnceWas(mirror.layers[l], pastLayers[l])
BY DEF ShownOnceWas, OnceWas

-------------------------------------------------------------------------------
(* The record only grows, and has the present in it. *)

Grown ==
  /\ \A l \in Layers : pastLayers[l] \subseteq pastLayers'[l]
  /\ pastMixers \subseteq pastMixers'

LEMMA RecordGrows ==
  ASSUME PresentRecorded, [HistoryNext]_historyVars
  PROVE  Grown /\ PresentRecorded'
<1>1. CASE UNCHANGED historyVars
  BY <1>1 DEF historyVars, vars, senderVars, Grown, PresentRecorded
<1>2. CASE HistoryNext
  <2>1. /\ \A l \in Layers : pastLayers'[l] = pastLayers[l] \cup {layers'[l]}
        /\ DOMAIN pastLayers' = Layers
        /\ pastMixers' = pastMixers \cup {mixer'}
    BY <1>2 DEF HistoryNext
  <2>2. QED
    BY <2>1 DEF Grown, PresentRecorded
<1>3. QED
  BY <1>1, <1>2

LEMMA PacketStays ==
  ASSUME Grown, NEW packet \in Packets, In(packet, pastLayers, pastMixers)
  PROVE  In(packet, pastLayers', pastMixers')
<1>1. packet.layer \in Layers
  BY ConstantFacts DEF Packets, Wholes, Singles, MixerPackets
<1>2. QED
  BY <1>1 DEF Grown, In

LEMMA OnceWasStays ==
  ASSUME Grown, NEW snap, NEW l \in Layers, OnceWas(snap, pastLayers[l])
  PROVE  OnceWas(snap, pastLayers'[l])
BY DEF Grown, OnceWas

(* A packet built from the present is recorded. *)
LEMMA CurrentRecorded ==
  ASSUME PresentRecorded, NEW l \in Layers,
         NEW kind \in {"time", "status", "metrics", "meta", "mixer"}
  PROVE  In(Current(kind, l), pastLayers, pastMixers)
<1>1. CASE kind \in {"time", "status"}
  <2>1. Current(kind, l) = [kind |-> kind, layer |-> 1, held |-> AllLayers]
    BY <1>1 DEF Current, Packet
  <2>2. \A k \in Layers : AllLayers[k] \in pastLayers[k]
    BY DEF AllLayers, PresentRecorded
  <2>3. QED
    BY <1>1, <2>1, <2>2 DEF In
<1>2. CASE kind \in {"metrics", "meta"}
  <2>1. Current(kind, l) = [kind |-> kind, layer |-> l, held |-> <<layers[l]>>]
    BY <1>2 DEF Current, Packet
  <2>2. layers[l] \in pastLayers[l]
    BY DEF PresentRecorded
  <2>3. QED
    BY <1>2, <2>1, <2>2 DEF In
<1>3. CASE kind = "mixer"
  <2>1. Current(kind, l) = [kind |-> "mixer", layer |-> 1, held |-> <<mixer>>]
    BY <1>3 DEF Current, MixerPacket, Packet
  <2>2. mixer \in pastMixers
    BY DEF PresentRecorded
  <2>3. QED
    BY <2>1, <2>2 DEF In
<1>4. QED
  BY <1>1, <1>2, <1>3

(* And so is what the task has in hand when it sends. *)
LEMMA HeldRecorded ==
  ASSUME Shape, TaskRecorded, bg.at = "send"
  PROVE  /\ bg.kind \in {"time", "status"} =>
              In(Packet(bg.kind, 1, bg.held), pastLayers, pastMixers)
         /\ bg.kind \in {"metrics", "meta"} =>
              In(Packet(bg.kind, bg.layer, bg.held), pastLayers, pastMixers)
<1>1. ASSUME bg.kind \in {"time", "status"}
      PROVE  In(Packet(bg.kind, 1, bg.held), pastLayers, pastMixers)
  <2>1. 1..Len(bg.held) = Layers
    BY <1>1, ConstantFacts DEF Shape, TaskOK
  <2>2. \A l \in Layers : bg.held[l] \in pastLayers[l]
    BY <1>1, <2>1 DEF TaskRecorded
  <2>3. QED
    BY <1>1, <2>2 DEF In, Packet
<1>2. ASSUME bg.kind \in {"metrics", "meta"}
      PROVE  In(Packet(bg.kind, bg.layer, bg.held), pastLayers, pastMixers)
  <2>1. Len(bg.held) = 1
    BY <1>2 DEF Shape, TaskOK
  <2>2. bg.held[1] \in pastLayers[bg.layer]
    BY <1>2, <2>1 DEF TaskRecorded
  <2>3. QED
    BY <1>2, <2>2 DEF In, Packet
<1>3. QED
  BY <1>1, <1>2

-------------------------------------------------------------------------------
(* Each step keeps to the record *)

(* The task's layers: as they were, one more of the present, or none. *)
LEMMA StepTask ==
  ASSUME Shape, PresentRecorded, TaskRecorded, Grown, [Next]_vars
  PROVE  TaskRecorded'
<1>1. /\ bg.layer \in Layers
      /\ \A i \in 1..Len(bg.held) : i \in Layers
  <2>1. Len(bg.held) <= LastLayer /\ Len(bg.held) \in Nat
    BY ShapeTyped DEF TypeOK, Shape, TaskOK
  <2>2. QED
    BY <2>1, ConstantFacts DEF Shape, TaskOK
<1>2. CASE UNCHANGED bg
  <2>1. SUFFICES ASSUME NEW i \in 1..Len(bg.held)
                 PROVE  bg.held[i] \in
                          pastLayers'[IF bg.kind \in {"time", "status"} THEN i ELSE bg.layer]
    BY <1>2 DEF TaskRecorded
  <2>2. QED
    BY <1>1, <2>1 DEF TaskRecorded, Grown
<1>3. CASE bg'.held = <<>>
  <2>1. 1..Len(bg'.held) = {}
    BY <1>3
  <2>2. QED
    BY <2>1 DEF TaskRecorded
<1>4. CASE LoadLayer
  <2>1. /\ bg.kind \in {"time", "status"} /\ bg'.kind = bg.kind
        /\ bg'.held = Append(bg.held, layers[bg.layer])
        /\ bg.held \in Seq(Source) /\ Len(bg.held) = bg.layer - 1
        /\ bg.layer \in Nat
    BY <1>4, <1>1, ConstantFacts DEF LoadLayer, Shape, TaskOK
  <2>2. layers[bg.layer] \in pastLayers[bg.layer]
    BY <1>1 DEF PresentRecorded
  <2>3. SUFFICES ASSUME NEW i \in 1..Len(bg'.held)
                 PROVE  bg'.held[i] \in pastLayers'[i]
    BY <2>1 DEF TaskRecorded
  <2>4. i \in 1..bg.layer
    BY <2>1
  <2>5. CASE i = bg.layer
    BY <1>1, <2>1, <2>2, <2>5 DEF Grown
  <2>6. CASE i # bg.layer
    <3>1. i \in 1..Len(bg.held) /\ bg'.held[i] = bg.held[i]
      BY <2>1, <2>4, <2>6
    <3>2. QED
      BY <1>1, <2>1, <3>1 DEF TaskRecorded, Grown
  <2>7. QED
    BY <2>5, <2>6
<1>5. CASE BuildPacket
  <2>1. /\ bg.kind \in {"metrics", "meta"} /\ bg'.kind = bg.kind /\ bg'.layer = bg.layer
        /\ bg'.held = <<layers[bg.layer]>>
    BY <1>5 DEF BuildPacket, Shape, TaskOK
  <2>2. layers[bg.layer] \in pastLayers'[bg.layer]
    BY <1>1 DEF PresentRecorded, Grown
  <2>3. QED
    BY <2>1, <2>2 DEF TaskRecorded
<1>6. CASE TimeTick \/ StatusTick \/ MetricsTick
  BY <1>3, <1>6 DEF TimeTick, StatusTick, MetricsTick, Tick
<1>7. CASE CheckLayer
  <2>1. CASE bg' = [bg EXCEPT !.at = "build"]
    <3>1. bg'.held = bg.held /\ bg.held = <<>>
      BY <1>7, <2>1 DEF CheckLayer, Shape, TaskOK
    <3>2. QED
      BY <1>3, <3>1
  <2>2. CASE bg' = NextLayer
    BY <1>3, <2>2 DEF NextLayer, Waiting, Shape, TaskOK
  <2>3. QED
    BY <1>7, <2>1, <2>2 DEF CheckLayer
<1>8. CASE SendAllLayers
  BY <1>3, <1>8 DEF SendAllLayers, Waiting
<1>9. CASE SendLayer
  BY <1>3, <1>9 DEF SendLayer, NextLayer, Waiting, Shape, TaskOK
<1>10. CASE Calls
  BY <1>2, <1>10 DEF Calls, ChangePlayback, LoadTrack, UnloadTrack, SetOnAir, SetMixer, Call
<1>11. CASE Announce
  BY <1>2, <1>11 DEF Announce
<1>12. CASE \E i \in 1..Len(network) : Deliver(i) \/ Lose(i)
  BY <1>2, <1>12 DEF Deliver, Lose, senderVars
<1>13. CASE UNCHANGED vars
  BY <1>2, <1>13 DEF vars, senderVars
<1>14. QED
  BY <1>4, <1>5, <1>6, <1>7, <1>8, <1>9, <1>10, <1>11, <1>12, <1>13 DEF Next, BgSteps

LEMMA SendRecorded ==
  ASSUME Shape, NetworkRecorded, Grown,
         NEW packet \in Packets, In(packet, pastLayers, pastMixers), Send(packet)
  PROVE  NetworkRecorded'
<1>1. /\ network \in Seq(Packets) /\ network' = Append(network, packet)
  BY DEF Send, Shape, NetworkOK
<1>2. SUFFICES ASSUME NEW j \in 1..Len(network')
               PROVE  In(network'[j], pastLayers', pastMixers')
  BY DEF NetworkRecorded
<1>3. CASE j = Len(network) + 1
  <2>1. network'[j] = packet
    BY <1>1, <1>3
  <2>2. QED
    BY <2>1, PacketStays
<1>4. CASE j # Len(network) + 1
  <2>1. j \in 1..Len(network) /\ network'[j] = network[j] /\ network[j] \in Packets
    BY <1>1, <1>4
  <2>2. QED
    BY <2>1, PacketStays DEF NetworkRecorded
<1>5. QED
  BY <1>3, <1>4

(* Packets on the way: built from the present, of what the task held, or   *)
(* one fewer.                                                              *)
LEMMA StepNetwork ==
  ASSUME Shape, PresentRecorded, TaskRecorded, NetworkRecorded, Grown, [Next]_vars
  PROVE  NetworkRecorded'
<1>1. \A j \in 1..Len(network) : network[j] \in Packets
  BY DEF Shape, NetworkOK
<1>2. CASE UNCHANGED network
  BY <1>1, <1>2, PacketStays DEF NetworkRecorded
<1>3. CASE Announce
  <2>1. user.layer \in Layers /\ user.todo \in Seq(Announced) /\ user.todo # <<>>
    BY <1>3 DEF Announce, Idle, Shape, UserOK
  <2>2. Head(user.todo) \in Announced
    BY <2>1
  <2>3. /\ Current(Head(user.todo), user.layer) \in Packets
        /\ In(Current(Head(user.todo), user.layer), pastLayers, pastMixers)
    BY <2>1, <2>2, CurrentType, CurrentRecorded DEF Announced, Shape
  <2>4. QED
    BY <1>3, <2>3, SendRecorded DEF Announce
<1>4. CASE SendAllLayers
  <2>1. /\ Packet(bg.kind, 1, bg.held) \in Packets
        /\ In(Packet(bg.kind, 1, bg.held), pastLayers, pastMixers)
    BY <1>4, HeldPacket, HeldRecorded DEF SendAllLayers, Packets
  <2>2. QED
    BY <1>4, <2>1, SendRecorded DEF SendAllLayers
<1>5. CASE SendLayer
  <2>1. /\ Packet(bg.kind, bg.layer, bg.held) \in Packets
        /\ In(Packet(bg.kind, bg.layer, bg.held), pastLayers, pastMixers)
    BY <1>5, HeldPacket, HeldRecorded DEF SendLayer, Packets
  <2>2. QED
    BY <1>5, <2>1, SendRecorded DEF SendLayer
<1>6. ASSUME NEW i \in 1..Len(network), Deliver(i) \/ Lose(i)
      PROVE  NetworkRecorded'
  <2>1. network \in Seq(Packets) /\ network' = RemoveAt(network, i)
    BY <1>6 DEF Deliver, Lose, Shape, NetworkOK
  <2>2. /\ Len(network') = Len(network) - 1
        /\ \A j \in 1..(Len(network) - 1) :
             network'[j] = IF j < i THEN network[j] ELSE network[j + 1]
    BY <2>1, WithoutOne
  <2>3. SUFFICES ASSUME NEW j \in 1..Len(network')
                 PROVE  In(network'[j], pastLayers', pastMixers')
    BY DEF NetworkRecorded
  <2>4. PICK k \in 1..Len(network) : network'[j] = network[k]
    BY <2>1, <2>2
  <2>5. QED
    BY <1>1, <2>4, PacketStays DEF NetworkRecorded
<1>7. CASE Calls
  BY <1>2, <1>7 DEF Calls, ChangePlayback, LoadTrack, UnloadTrack, SetOnAir, SetMixer, Call
<1>8. CASE TimeTick \/ StatusTick \/ MetricsTick \/ LoadLayer \/ CheckLayer \/ BuildPacket
  BY <1>2, <1>8 DEF TimeTick, StatusTick, MetricsTick, Tick, LoadLayer, CheckLayer, BuildPacket
<1>9. CASE UNCHANGED vars
  BY <1>2, <1>9 DEF vars
<1>10. QED
  BY <1>3, <1>4, <1>5, <1>6, <1>7, <1>8, <1>9 DEF Next, BgSteps

(* A recorded packet leaves a layer with the fields it has, all of one     *)
(* state, and the others as they were.                                     *)
LEMMA ApplyRecorded ==
  ASSUME NEW known \in Known, NEW packet \in Packets, In(packet, pastLayers, pastMixers),
         known.mixer \in pastMixers, \A l \in Layers : OnceWas(known.layers[l], pastLayers[l])
  PROVE  /\ Apply(known, packet).mixer \in pastMixers
         /\ \A l \in Layers : OnceWas(Apply(known, packet).layers[l], pastLayers[l])
<1>1. known.layers \in [Layers -> LayerSnapshot] /\ known.mixer \in Mixers
      /\ DOMAIN known = {"layers", "mixer"}
  BY DEF Known
<1>2. \A l \in Layers : known.layers[l] \in LayerSnapshot
  BY <1>1
<1>3. CASE packet \in Wholes
  <2>1. \A l \in Layers : packet.held[l] \in pastLayers[l]
    BY <1>3 DEF Wholes, In
  <2>2. CASE packet.kind = "status"
    <3>1. /\ Apply(known, packet).mixer = known.mixer
          /\ \A l \in Layers : Apply(known, packet).layers[l] =
                                 ApplyStatus(known.layers[l], packet.held[l])
      BY <1>1, <2>2 DEF Apply
    <3>2. ASSUME NEW l \in Layers
          PROVE  OnceWas(ApplyStatus(known.layers[l], packet.held[l]), pastLayers[l])
      BY <1>2, <2>1 DEF ApplyStatus, OnceWas, LayerSnapshot
    <3>3. QED
      BY <3>1, <3>2
  <2>3. CASE packet.kind = "time"
    <3>1. /\ Apply(known, packet).mixer = known.mixer
          /\ \A l \in Layers : Apply(known, packet).layers[l] =
                                 ApplyTime(known.layers[l], packet.held[l])
      BY <1>1, <2>3 DEF Apply
    <3>2. ASSUME NEW l \in Layers
          PROVE  OnceWas(ApplyTime(known.layers[l], packet.held[l]), pastLayers[l])
      BY <1>2, <2>1 DEF ApplyTime, OnceWas, LayerSnapshot
    <3>3. QED
      BY <3>1, <3>2
  <2>4. QED
    BY <1>3, <2>2, <2>3 DEF Wholes
<1>4. CASE packet \in Singles
  <2>1. packet.layer \in Layers /\ packet.held[1] \in pastLayers[packet.layer]
    BY <1>4 DEF Singles, In
  <2>2. Layers \cup {packet.layer} = Layers /\ DOMAIN known.layers = Layers
    BY <1>1, <2>1
  <2>3. ASSUME NEW snap, packet.kind \in {"metrics", "meta"},
               OnceWas(snap, pastLayers[packet.layer]),
               Apply(known, packet).mixer = known.mixer,
               \A l \in Layers : Apply(known, packet).layers[l] =
                                  IF l = packet.layer THEN snap ELSE known.layers[l]
        PROVE  /\ Apply(known, packet).mixer \in pastMixers
               /\ \A l \in Layers : OnceWas(Apply(known, packet).layers[l], pastLayers[l])
    BY <2>3
  <2>4. CASE packet.kind = "metrics"
    <3>1. /\ Apply(known, packet).mixer = known.mixer
          /\ \A l \in Layers : Apply(known, packet).layers[l] =
                IF l = packet.layer THEN ApplyMetrics(known.layers[packet.layer], packet.held[1])
                ELSE known.layers[l]
      BY <1>1, <2>1, <2>2, <2>4 DEF Apply, FromPacketId
    <3>2. OnceWas(ApplyMetrics(known.layers[packet.layer], packet.held[1]),
                  pastLayers[packet.layer])
      BY <1>2, <2>1 DEF ApplyMetrics, OnceWas, LayerSnapshot
    <3>3. QED
      BY <2>3, <2>4, <3>1, <3>2
  <2>5. CASE packet.kind = "meta"
    <3>1. /\ Apply(known, packet).mixer = known.mixer
          /\ \A l \in Layers : Apply(known, packet).layers[l] =
                IF l = packet.layer THEN ApplyMeta(known.layers[packet.layer], packet.held[1])
                ELSE known.layers[l]
      BY <1>1, <2>1, <2>2, <2>5 DEF Apply, FromPacketId
    <3>2. OnceWas(ApplyMeta(known.layers[packet.layer], packet.held[1]),
                  pastLayers[packet.layer])
      BY <1>2, <2>1 DEF ApplyMeta, OnceWas, LayerSnapshot
    <3>3. QED
      BY <2>3, <2>5, <3>1, <3>2
  <2>6. QED
    BY <1>4, <2>4, <2>5 DEF Singles
<1>5. CASE packet \in MixerPackets
  <2>1. packet.kind = "mixer" /\ packet.held[1] \in pastMixers
    BY <1>5 DEF MixerPackets, In
  <2>2. Apply(known, packet).layers = known.layers /\ Apply(known, packet).mixer = packet.held[1]
    BY <1>1, <2>1 DEF Apply, ApplyMixer
  <2>3. QED
    BY <2>1, <2>2
<1>6. QED
  BY <1>3, <1>4, <1>5 DEF Packets

LEMMA StepShown ==
  ASSUME Shape, NetworkRecorded, ShownOnceWas, Grown, [Next]_vars
  PROVE  ShownOnceWas'
<1>1. /\ mirror.mixer \in pastMixers
      /\ \A l \in Layers : OnceWas(mirror.layers[l], pastLayers[l])
  BY ShownByLayer
<1>2. /\ mirror'.mixer \in pastMixers
      /\ \A l \in Layers : OnceWas(mirror'.layers[l], pastLayers[l])
  <2>1. CASE UNCHANGED mirror
    BY <1>1, <2>1
  <2>2. ASSUME NEW i \in 1..Len(network), Deliver(i)
        PROVE  /\ mirror'.mixer \in pastMixers
               /\ \A l \in Layers : OnceWas(mirror'.layers[l], pastLayers[l])
    <3>1. network[i] \in Packets /\ In(network[i], pastLayers, pastMixers) /\ mirror \in Known
      BY DEF Shape, NetworkOK, NetworkRecorded
    <3>2. mirror' = Apply(mirror, network[i])
      BY <2>2 DEF Deliver
    <3>3. QED
      BY <1>1, <3>1, <3>2, ApplyRecorded
  <2>3. QED
    BY <2>1, <2>2 DEF Next, BgSteps, Calls, ChangePlayback, LoadTrack, UnloadTrack, SetOnAir,
       SetMixer, Call, Announce, TimeTick, StatusTick, MetricsTick, Tick, LoadLayer,
       SendAllLayers, CheckLayer, BuildPacket, SendLayer, bgOnly, Lose, vars
<1>3. /\ mirror'.mixer \in pastMixers'
      /\ \A l \in Layers : OnceWas(mirror'.layers[l], pastLayers'[l])
  BY <1>2, OnceWasStays DEF Grown
<1>4. QED
  BY <1>3, ShownByLayer DEF ShownOnceWas, OnceWas

LEMMA InitRecorded == HistoryInit => Recorded
<1> SUFFICES ASSUME HistoryInit PROVE Recorded
  OBVIOUS
<1>1. PresentRecorded
  BY DEF HistoryInit, PresentRecorded
<1>2. TaskRecorded
  <2>1. bg.held = <<>>
    BY DEF HistoryInit, Init, Waiting
  <2>2. QED
    BY <2>1 DEF TaskRecorded
<1>3. NetworkRecorded
  BY DEF HistoryInit, Init, NetworkRecorded
<1>4. ShownOnceWas
  <2>1. mirror.mixer = mixer /\ mixer \in pastMixers
    BY DEF HistoryInit, Init
  <2>2. \A l \in Layers : mirror.layers[l] = EmptySnapshot /\ EmptySource \in pastLayers[l]
    BY DEF HistoryInit, Init
  <2>3. QED
    BY <2>1, <2>2 DEF ShownOnceWas, EmptySnapshot, EmptySource
<1>5. QED
  BY <1>1, <1>2, <1>3, <1>4 DEF Recorded

(* Packets may be lost, late, overtaken and built from layers of two       *)
(* moments: what a view shows of a layer that layer once was, and what one *)
(* packet brought together was so at one moment.                           *)
THEOREM ShownCorrect == HistorySpec => []ShownOnceWas
<1>1. HistoryInit => Shape /\ Recorded
  BY InitShape, InitRecorded DEF HistoryInit
<1>2. Shape /\ Recorded /\ [HistoryNext]_historyVars => Shape' /\ Recorded'
  <2> SUFFICES ASSUME Shape, Recorded, [HistoryNext]_historyVars PROVE Shape' /\ Recorded'
    OBVIOUS
  <2>1. [Next]_vars
    BY DEF HistoryNext, historyVars
  <2>2. Grown /\ PresentRecorded'
    BY RecordGrows DEF Recorded
  <2>3. QED
    BY <2>1, <2>2, StepShape, StepTask, StepNetwork, StepShown DEF Recorded
<1>3. Shape /\ Recorded => ShownOnceWas
  BY DEF Recorded
<1>4. QED
  BY <1>1, <1>2, <1>3, PTL DEF HistorySpec

-------------------------------------------------------------------------------
(* Ticks that nothing disturbs.  Of what such a tick sent, every field is  *)
(* READY: the last packet on the way that carries it brings what the       *)
(* broadcaster has, or none does and the view shows it.                    *)

(* The fields a tick, named as in `through`, has sent of a layer. *)
Brings(tick, l) ==
  CASE tick = "time" -> Carried("time")
    [] tick = "meta" -> Carried("status") \cup IF Loaded(l) THEN Carried("meta") ELSE {}
    [] tick = "metrics" -> IF Loaded(l) THEN Carried("metrics") ELSE {}

(* What the task holds is what there is. *)
HoldsPresent ==
  \A i \in 1..Len(bg.held) :
    bg.held[i] = layers[IF bg.kind \in {"time", "status"} THEN i ELSE bg.layer]

(* The layers it is through with are ready, and the tracks, since the      *)
(* Status packet that comes before the Metas.                              *)
OnCourse ==
  /\ HoldsPresent
  /\ bg.kind = "meta" => \A l \in Layers : \A f \in Carried("status") : Ready(l, f)
  /\ bg.kind \in {"metrics", "meta"} =>
       \A l \in Layers : l < bg.layer =>
         \A f \in Brings(bg.kind, l) : Ready(l, f)

TicksRecorded ==
  /\ quiet \in BOOLEAN
  /\ quiet => Idle
  /\ through # {} => quiet
  /\ through \subseteq {"time", "metrics", "meta"}
  /\ quiet /\ bg.at # "idle" => OnCourse
  /\ \A tick \in through : \A l \in Layers : \A f \in Brings(tick, l) : Ready(l, f)

LEMMA FieldsCarried ==
  /\ \A kind \in {"time", "status", "metrics", "meta"} : Carried(kind) \subseteq Fields
  /\ \A tick \in {"time", "metrics", "meta"} : \A l \in Layers : Brings(tick, l) \subseteq Fields
BY DEF Carried, Fields, Brings

LEMMA InitTicksRecorded == HistoryInit => TicksRecorded
BY DEF HistoryInit, Init, Waiting, TicksRecorded

(* What is ready stays so as long as nothing disturbs it. *)
LEMMA StaysReady ==
  ASSUME Shape, UNCHANGED <<layers, mixer>>, NEW l \in Layers, NEW f \in Fields, Ready(l, f),
         \/ UNCHANGED <<network, mirror>>
         \/ \E packet \in Packets :
              /\ Send(packet) /\ UNCHANGED mirror
              /\ Carries(packet, l, f) => Value(packet, l, f) = Want(l, f)
         \/ 1 \in 1..Len(network) /\ Deliver(1)
  PROVE  Ready(l, f)'
<1>1. Want(l, f)' = Want(l, f)
  BY DEF Want
<1>2. CASE UNCHANGED <<network, mirror>>
  BY <1>1, <1>2, SameReady
<1>3. ASSUME NEW packet \in Packets, Send(packet), UNCHANGED mirror,
             Carries(packet, l, f) => Value(packet, l, f) = Want(l, f)
      PROVE  Ready(l, f)'
  BY <1>3, SendReady
<1>4. CASE 1 \in 1..Len(network) /\ Deliver(1)
  BY <1>4, DeliverReady
<1>5. QED
  BY <1>2, <1>3, <1>4

(* What the task sends, as long as it holds what there is. *)
LEMMA HeldValue ==
  ASSUME Shape, HoldsPresent, bg.at = "send", NEW l \in Layers, NEW f \in Fields
  PROVE  /\ bg.kind \in {"time", "status"} /\ Carries(Packet(bg.kind, 1, bg.held), l, f) =>
              Value(Packet(bg.kind, 1, bg.held), l, f) = Want(l, f)
         /\ bg.kind \in {"metrics", "meta"} /\ Carries(Packet(bg.kind, bg.layer, bg.held), l, f) =>
              Value(Packet(bg.kind, bg.layer, bg.held), l, f) = Want(l, f)
<1>1. ASSUME bg.kind \in {"time", "status"}, Carries(Packet(bg.kind, 1, bg.held), l, f)
      PROVE  Value(Packet(bg.kind, 1, bg.held), l, f) = Want(l, f)
  <2>1. 1..Len(bg.held) = Layers
    BY <1>1, ConstantFacts DEF Shape, TaskOK
  <2>2. bg.held[l] = layers[l]
    BY <1>1, <2>1 DEF HoldsPresent
  <2>3. f # "mixer"
    BY <1>1 DEF Carries, Carried, Packet
  <2>4. QED
    BY <1>1, <2>2, <2>3 DEF Value, Want, Packet
<1>2. ASSUME bg.kind \in {"metrics", "meta"}, Carries(Packet(bg.kind, bg.layer, bg.held), l, f)
      PROVE  Value(Packet(bg.kind, bg.layer, bg.held), l, f) = Want(l, f)
  <2>1. Len(bg.held) = 1 /\ bg.layer = l
    BY <1>2 DEF Shape, TaskOK, Carries, Packet
  <2>2. bg.held[1] = layers[l]
    BY <1>2, <2>1 DEF HoldsPresent
  <2>3. f # "mixer"
    BY <1>2 DEF Carries, Carried, Packet
  <2>4. bg.kind \notin {"time", "status"}
    BY <1>2
  <2>5. QED
    BY <2>2, <2>3, <2>4 DEF Value, Want, Packet
<1>3. QED
  BY <1>1, <1>2

(* While nothing disturbs, the broadcaster stays as it is, and what is     *)
(* ready stays so.                                                         *)
LEMMA QuietStep ==
  ASSUME Shape, TicksRecorded, Next, quiet, ~Disturbs
  PROVE  /\ UNCHANGED <<layers, mixer, user>>
         /\ \A l \in Layers : \A f \in Fields : Ready(l, f) => Ready(l, f)'
         /\ \/ UNCHANGED bg
            \/ TimeTick \/ StatusTick \/ MetricsTick \/ BgSteps
<1>1. ~Calls
  <2>1. calls \in Nat /\ calls' = calls
    BY DEF Disturbs, CallBegins, Shape, UserOK
  <2>2. ASSUME Calls PROVE calls' = calls + 1
    BY <2>2 DEF Calls, ChangePlayback, LoadTrack, UnloadTrack, SetOnAir, SetMixer, Call
  <2>3. QED
    BY <2>1, <2>2
<1>2. ~Announce
  BY DEF Announce, TicksRecorded
<1>3. ASSUME NEW i \in 1..Len(network), Deliver(i) \/ Lose(i)
      PROVE  i = 1 /\ Deliver(1)
  <2>1. ~Lose(i)
    BY DEF Lose, Disturbs, PacketLost, Shape, NetworkOK
  <2>2. Len(network) \in Nat
    BY DEF Shape, NetworkOK
  <2>3. i = 1 \/ i \in 2..Len(network)
    BY <2>2
  <2>4. QED
    BY <1>3, <2>1, <2>3 DEF Disturbs, Overtaken
<1>4. CASE TimeTick \/ StatusTick \/ MetricsTick \/ LoadLayer \/ CheckLayer \/ BuildPacket
  <2>1. UNCHANGED <<layers, mixer, user, network, mirror>>
    BY <1>4 DEF TimeTick, StatusTick, MetricsTick, Tick, LoadLayer, CheckLayer, BuildPacket, bgOnly
  <2>2. QED
    BY <1>4, <2>1, StaysReady DEF BgSteps
<1>5. CASE SendAllLayers \/ SendLayer
  <2>1. UNCHANGED <<layers, mixer, user, mirror>> /\ bg.at = "send"
    BY <1>5 DEF SendAllLayers, SendLayer, bgOnly
  <2>2. HoldsPresent
    BY <2>1 DEF TicksRecorded, OnCourse
  <2>3. ASSUME NEW l \in Layers, NEW f \in Fields
        PROVE  \E packet \in Packets :
                 Send(packet) /\ (Carries(packet, l, f) => Value(packet, l, f) = Want(l, f))
    <3>1. CASE SendAllLayers
      <4>1. /\ Packet(bg.kind, 1, bg.held) \in Packets
            /\ Send(Packet(bg.kind, 1, bg.held)) /\ bg.kind \in {"time", "status"}
        BY <2>1, <3>1, HeldPacket DEF SendAllLayers, Packets
      <4>2. QED
        BY <2>1, <2>2, <4>1, HeldValue
    <3>2. CASE SendLayer
      <4>1. /\ Packet(bg.kind, bg.layer, bg.held) \in Packets
            /\ Send(Packet(bg.kind, bg.layer, bg.held)) /\ bg.kind \in {"metrics", "meta"}
        BY <2>1, <3>2, HeldPacket DEF SendLayer, Packets
      <4>2. QED
        BY <2>1, <2>2, <4>1, HeldValue
    <3>3. QED
      BY <1>5, <3>1, <3>2
  <2>4. QED
    BY <1>5, <2>1, <2>3, StaysReady DEF BgSteps
<1>6. CASE \E i \in 1..Len(network) : Deliver(i) \/ Lose(i)
  <2>1. 1 \in 1..Len(network) /\ Deliver(1)
    BY <1>3, <1>6
  <2>2. UNCHANGED <<layers, mixer, user, bg>>
    BY <2>1 DEF Deliver, senderVars
  <2>3. QED
    BY <2>1, <2>2, StaysReady
<1>7. QED
  BY <1>1, <1>2, <1>4, <1>5, <1>6 DEF Next, BgSteps

(* A tick begins. *)
LEMMA TickBeginsRecorded ==
  ASSUME Shape, TicksRecorded, HistoryNext, ~Disturbs, TimeTick \/ StatusTick \/ MetricsTick
  PROVE  TicksRecorded'
<1>1. /\ UNCHANGED <<layers, mixer, user, network, mirror>>
      /\ bg.at = "idle" /\ bg'.at \in {"load", "check"} /\ bg'.layer = 1 /\ bg'.held = <<>>
      /\ bg'.kind \in {"time", "status", "metrics"}
  BY DEF TimeTick, StatusTick, MetricsTick, Tick, bgOnly
<1>2. quiet' = Idle /\ through' = through /\ Idle' = Idle /\ Idle \in BOOLEAN
  BY <1>1 DEF HistoryNext, TickBegins, TickEnds, Idle
<1>3. OnCourse'
  <2>1. HoldsPresent'
    <3>1. 1..Len(bg'.held) = {}
      BY <1>1
    <3>2. QED
      BY <3>1 DEF HoldsPresent
  <2>2. \A l \in Layers : ~(l < bg'.layer)
    BY <1>1, ConstantFacts
  <2>3. QED
    BY <1>1, <2>1, <2>2 DEF OnCourse
<1>4. ASSUME NEW tick \in through, NEW l \in Layers, NEW f \in Brings(tick, l)'
      PROVE  Ready(l, f)'
  <2>1. Brings(tick, l)' = Brings(tick, l)
    BY <1>1 DEF Brings, Loaded
  <2>2. f \in Fields /\ Ready(l, f)
    BY <1>4, <2>1, FieldsCarried DEF TicksRecorded
  <2>3. quiet
    BY <1>4 DEF TicksRecorded
  <2>4. QED
    BY <2>2, <2>3, QuietStep DEF HistoryNext
<1>5. quiet' => Idle'
  BY <1>2
<1>6. through' # {} => quiet'
  BY <1>2 DEF TicksRecorded
<1>7. QED
  BY <1>2, <1>3, <1>4, <1>5, <1>6 DEF TicksRecorded

(* The task goes from one layer to the next, or is through. *)
LEMMA NextLayerRecorded ==
  ASSUME Shape, TicksRecorded, HistoryNext, ~Disturbs, quiet, bg.at # "idle",
         bg.kind \in {"metrics", "meta"}, bg' = NextLayer,
         NEW at \in Layers, at = bg.layer, \A f \in Brings(bg.kind, at) : Ready(at, f)'
  PROVE  TicksRecorded'
<1>1. /\ UNCHANGED <<layers, user>>
      /\ \A l \in Layers : \A f \in Fields : Ready(l, f) => Ready(l, f)'
  BY QuietStep DEF HistoryNext
<1>2. \A tick, l : Brings(tick, l)' = Brings(tick, l)
  BY <1>1 DEF Brings, Loaded
<1>3. quiet' = quiet /\ Idle' = Idle
  BY <1>1 DEF HistoryNext, TickBegins, Idle
<1>4. OnCourse
  BY DEF TicksRecorded
<1>5. \A l \in Layers : l < bg.layer \/ l = bg.layer => \A f \in Brings(bg.kind, l) : Ready(l, f)'
  BY <1>1, <1>4, FieldsCarried DEF OnCourse
<1>6. \A tick \in through : \A l \in Layers : \A f \in Brings(tick, l) : Ready(l, f)'
  BY <1>1, FieldsCarried DEF TicksRecorded
<1>7. CASE bg.layer = LastLayer
  <2>1. bg'.at = "idle"
    BY <1>7 DEF NextLayer, Waiting
  <2>2. through' = through \cup {bg.kind}
    BY <2>1 DEF HistoryNext, TickEnds
  <2>3. \A l \in Layers : l < bg.layer \/ l = bg.layer
    BY <1>7, ConstantFacts
  <2>4. \A tick \in through' : \A l \in Layers : \A f \in Brings(tick, l) : Ready(l, f)'
    BY <1>5, <1>6, <2>2, <2>3
  <2>5. through' \subseteq {"time", "metrics", "meta"}
    BY <2>2 DEF TicksRecorded
  <2>6. QED
    BY <1>2, <1>3, <2>1, <2>4, <2>5 DEF TicksRecorded
<1>8. CASE bg.layer # LastLayer
  <2>1. bg' = [at |-> "check", kind |-> bg.kind, layer |-> bg.layer + 1, held |-> <<>>]
    BY <1>8 DEF NextLayer, Shape, TaskOK
  <2>2. bg'.at = "check" /\ bg'.kind = bg.kind /\ bg'.layer = bg.layer + 1 /\ bg'.held = <<>>
    BY <2>1
  <2>3. through' = through
    BY <2>2 DEF HistoryNext, TickEnds
  <2>4. HoldsPresent'
    <3>1. 1..Len(bg'.held) = {}
      BY <2>2
    <3>2. QED
      BY <3>1 DEF HoldsPresent
  <2>5. \A l \in Layers : l < bg'.layer => \A f \in Brings(bg.kind, l) : Ready(l, f)'
    <3>1. \A l \in Layers : l < bg.layer + 1 => l < bg.layer \/ l = bg.layer
      BY ConstantFacts DEF Shape, TaskOK
    <3>2. QED
      BY <1>5, <2>2, <3>1
  <2>6. bg.kind = "meta" => \A l \in Layers : \A f \in Carried("status") : Ready(l, f)'
    BY <1>1, <1>4, FieldsCarried DEF OnCourse
  <2>7. OnCourse'
    BY <1>2, <2>2, <2>4, <2>5, <2>6 DEF OnCourse
  <2>8. QED
    BY <1>2, <1>3, <1>6, <2>3, <2>7 DEF TicksRecorded
<1>9. QED
  BY <1>7, <1>8

(* The task stays at its layer, and holds more of the present or the same. *)
LEMMA SameLayerRecorded ==
  ASSUME Shape, TicksRecorded, HistoryNext, ~Disturbs, quiet,
         bg'.at = "idle" <=> bg.at = "idle", bg'.kind = bg.kind,
         bg'.layer = bg.layer \/ bg.kind \in {"time", "status"},
         bg.at # "idle" => HoldsPresent'
  PROVE  TicksRecorded'
<1>1. /\ UNCHANGED <<layers, user>>
      /\ \A l \in Layers : \A f \in Fields : Ready(l, f) => Ready(l, f)'
  BY QuietStep DEF HistoryNext
<1>2. \A tick, l : Brings(tick, l)' = Brings(tick, l)
  BY <1>1 DEF Brings, Loaded
<1>3. quiet' = quiet /\ Idle' = Idle /\ through' = through
  BY <1>1 DEF HistoryNext, TickBegins, TickEnds, Idle
<1>4. \A tick \in through : \A l \in Layers : \A f \in Brings(tick, l) : Ready(l, f)'
  BY <1>1, FieldsCarried DEF TicksRecorded
<1>5. ASSUME bg.at # "idle" PROVE OnCourse'
  <2>1. OnCourse
    BY <1>5 DEF TicksRecorded
  <2>2. bg.kind = "meta" => \A l \in Layers : \A f \in Carried("status") : Ready(l, f)'
    BY <1>1, <2>1, FieldsCarried DEF OnCourse
  <2>3. bg.kind \in {"metrics", "meta"} =>
          \A l \in Layers : l < bg'.layer => \A f \in Brings(bg.kind, l) : Ready(l, f)'
    BY <1>1, <2>1, FieldsCarried DEF OnCourse
  <2>4. QED
    BY <1>2, <1>5, <2>2, <2>3 DEF OnCourse
<1>6. QED
  BY <1>2, <1>3, <1>4, <1>5 DEF TicksRecorded

(* Of a quiet tick, every other step. *)
LEMMA TaskStepRecorded ==
  ASSUME Shape, TicksRecorded, HistoryNext, ~Disturbs, quiet, BgSteps
  PROVE  TicksRecorded'
<1>1. /\ UNCHANGED <<layers, user>>
      /\ \A l \in Layers : \A f \in Fields : Ready(l, f) => Ready(l, f)'
  BY QuietStep DEF HistoryNext
<1>2. bg.at # "idle" /\ OnCourse /\ bg.layer \in Layers
  BY DEF BgSteps, LoadLayer, SendAllLayers, CheckLayer, BuildPacket, SendLayer, TicksRecorded,
         Shape, TaskOK
<1>3. CASE LoadLayer
  <2>1. /\ bg.kind \in {"time", "status"} /\ bg'.kind = bg.kind
        /\ bg'.held = Append(bg.held, layers[bg.layer])
        /\ bg.held \in Seq(Source) /\ Len(bg.held) = bg.layer - 1
        /\ bg.layer \in Nat /\ bg'.at # "idle"
    BY <1>2, <1>3, ConstantFacts DEF LoadLayer, Shape, TaskOK
  <2>2. ASSUME NEW i \in 1..Len(bg'.held) PROVE bg'.held[i] = layers[i]
    <3>1. CASE i = bg.layer
      BY <2>1, <3>1
    <3>2. CASE i # bg.layer
      <4>1. i \in 1..Len(bg.held) /\ bg'.held[i] = bg.held[i]
        BY <2>1, <3>2
      <4>2. QED
        BY <1>2, <2>1, <4>1 DEF OnCourse, HoldsPresent
    <3>3. QED
      BY <3>1, <3>2
  <2>3. HoldsPresent'
    BY <1>1, <2>1, <2>2 DEF HoldsPresent
  <2>4. QED
    BY <1>2, <2>1, <2>3, SameLayerRecorded
<1>4. CASE BuildPacket
  <2>1. /\ bg.kind \in {"metrics", "meta"} /\ bg'.kind = bg.kind /\ bg'.layer = bg.layer
        /\ bg'.held = <<layers[bg.layer]>> /\ bg'.at # "idle"
    BY <1>4 DEF BuildPacket, Shape, TaskOK
  <2>2. HoldsPresent'
    BY <1>1, <2>1 DEF HoldsPresent
  <2>3. QED
    BY <1>2, <2>1, <2>2, SameLayerRecorded
<1>5. CASE CheckLayer /\ Loaded(bg.layer)
  <2>1. /\ bg'.kind = bg.kind /\ bg'.layer = bg.layer /\ bg'.held = bg.held
        /\ bg'.at # "idle"
    BY <1>5 DEF CheckLayer, Loaded, Shape, TaskOK
  <2>2. HoldsPresent'
    BY <1>1, <1>2, <2>1 DEF OnCourse, HoldsPresent
  <2>3. QED
    BY <1>2, <2>1, <2>2, SameLayerRecorded
<1>6. CASE CheckLayer /\ ~Loaded(bg.layer)
  <2>1. bg' = NextLayer /\ bg.kind \in {"metrics", "meta"}
    BY <1>6 DEF CheckLayer, Loaded, Shape, TaskOK
  <2> PICK at \in Layers : at = bg.layer
    BY <1>2
  <2>2. Brings(bg.kind, at) = IF bg.kind = "meta" THEN Carried("status") ELSE {}
    BY <1>6, <2>1 DEF Brings
  <2>3. \A f \in Brings(bg.kind, at) : Ready(at, f)
    BY <1>2, <2>2 DEF OnCourse
  <2>4. \A f \in Brings(bg.kind, at) : Ready(at, f)'
    BY <1>1, <2>1, <2>3, FieldsCarried
  <2>5. QED
    BY <1>2, <2>1, <2>4, NextLayerRecorded
<1>7. CASE SendLayer
  <2>1. /\ bg' = NextLayer /\ bg.kind \in {"metrics", "meta"} /\ bg.at = "send"
        /\ UNCHANGED <<layers, mixer, mirror>>
    BY <1>7 DEF SendLayer, bgOnly
  <2> PICK at \in Layers : at = bg.layer
    BY <1>2
  <2> PICK packet \in Packets : packet = Packet(bg.kind, bg.layer, bg.held)
    BY <2>1, HeldPacket DEF Packets
  <2>2. Send(packet) /\ packet.kind = bg.kind /\ packet.layer = at
    BY <1>7 DEF SendLayer, Packet
  <2>3. ASSUME NEW f \in Fields, f \in Carried(packet.kind) PROVE Ready(at, f)'
    <3>1. Carries(packet, at, f)
      BY <2>2, <2>3 DEF Carries
    <3>2. Value(packet, at, f) = Want(at, f)
      BY <1>2, <2>1, <3>1, HeldValue DEF OnCourse
    <3>3. QED
      BY <2>1, <2>2, <3>1, <3>2, SendReady
  <2>4. ASSUME NEW f \in Brings(bg.kind, at) PROVE Ready(at, f)'
    <3>1. f \in Fields
      BY <2>1, FieldsCarried
    <3>2. f \in Carried(packet.kind) \/ (bg.kind = "meta" /\ f \in Carried("status"))
      BY <2>1, <2>2 DEF Brings
    <3>3. QED
      BY <1>1, <1>2, <2>3, <3>1, <3>2 DEF OnCourse
  <2>5. QED
    BY <1>2, <2>1, <2>4, NextLayerRecorded
<1>8. CASE SendAllLayers
  <2>1. /\ bg.kind \in {"time", "status"} /\ bg.at = "send"
        /\ UNCHANGED <<layers, mixer, mirror>>
    BY <1>8 DEF SendAllLayers, bgOnly
  <2> PICK packet \in Packets : packet = Packet(bg.kind, 1, bg.held)
    BY <2>1, HeldPacket DEF Packets
  <2>2. Send(packet) /\ packet.kind = bg.kind
    BY <1>8 DEF SendAllLayers, Packet
  <2>3. ASSUME NEW l \in Layers, NEW f \in Carried(bg.kind) PROVE Ready(l, f)'
    <3>1. f \in Fields /\ Carries(packet, l, f)
      BY <2>1, <2>2, FieldsCarried DEF Carries
    <3>2. Value(packet, l, f) = Want(l, f)
      BY <1>2, <2>1, <3>1, HeldValue DEF OnCourse
    <3>3. QED
      BY <2>1, <2>2, <3>1, <3>2, SendReady
  <2>4. quiet' = quiet /\ Idle' = Idle
    BY <1>1, <1>2 DEF HistoryNext, TickBegins, Idle
  <2>5. \A tick, l : Brings(tick, l)' = Brings(tick, l)
    BY <1>1 DEF Brings, Loaded
  <2>6. \A tick \in through : \A l \in Layers : \A f \in Brings(tick, l) : Ready(l, f)'
    BY <1>1, FieldsCarried DEF TicksRecorded
  <2>7. CASE bg.kind = "time"
    <3>1. bg'.at = "idle"
      BY <1>8, <2>7 DEF SendAllLayers, Waiting
    <3>2. through' = through \cup {"time"}
      BY <1>2, <2>7, <3>1 DEF HistoryNext, TickEnds
    <3>3. \A l \in Layers : \A f \in Brings("time", l) : Ready(l, f)'
      BY <2>3, <2>7 DEF Brings
    <3>4. \A tick \in through' : \A l \in Layers : \A f \in Brings(tick, l) : Ready(l, f)'
      BY <2>6, <3>2, <3>3
    <3>5. through' \subseteq {"time", "metrics", "meta"}
      BY <3>2 DEF TicksRecorded
    <3>6. QED
      BY <2>4, <2>5, <3>1, <3>4, <3>5 DEF TicksRecorded
  <2>8. CASE bg.kind = "status"
    <3>1. /\ bg'.at = "check" /\ bg'.kind = "meta" /\ bg'.layer = 1 /\ bg'.held = <<>>
      BY <1>8, <2>8 DEF SendAllLayers
    <3>2. through' = through
      BY <3>1 DEF HistoryNext, TickEnds
    <3>3. HoldsPresent'
      <4>1. 1..Len(bg'.held) = {}
        BY <3>1
      <4>2. QED
        BY <4>1 DEF HoldsPresent
    <3>4. \A l \in Layers : ~(l < bg'.layer)
      BY <3>1, ConstantFacts
    <3>5. \A l \in Layers : \A f \in Carried("status") : Ready(l, f)'
      BY <2>3, <2>8
    <3>6. OnCourse'
      BY <3>3, <3>4, <3>5 DEF OnCourse
    <3>7. QED
      BY <2>4, <2>5, <2>6, <3>2, <3>6 DEF TicksRecorded
  <2>9. QED
    BY <2>1, <2>7, <2>8
<1>9. QED
  BY <1>3, <1>4, <1>5, <1>6, <1>7, <1>8 DEF BgSteps

LEMMA StepTicksRecorded ==
  ASSUME Shape, TicksRecorded, [HistoryNext]_historyVars
  PROVE  TicksRecorded'
<1>1. CASE UNCHANGED historyVars
  <2>1. \A l \in Layers : \A f \in Fields : Ready(l, f) => Ready(l, f)'
    BY <1>1, SameReady DEF historyVars, vars, senderVars, Want
  <2>2. \A tick, l : Brings(tick, l)' = Brings(tick, l)
    BY <1>1 DEF historyVars, vars, senderVars, Brings, Loaded
  <2>3. \A tick \in through : \A l \in Layers : \A f \in Brings(tick, l) : Ready(l, f)'
    BY <2>1, FieldsCarried DEF TicksRecorded
  <2>4. OnCourse => OnCourse'
    <3>1. ASSUME OnCourse, bg.kind \in {"metrics", "meta"}
          PROVE  \A l \in Layers : l < bg.layer => \A f \in Brings(bg.kind, l) : Ready(l, f)'
      BY <2>1, <3>1, FieldsCarried DEF OnCourse
    <3>2. ASSUME OnCourse, bg.kind = "meta"
          PROVE  \A l \in Layers : \A f \in Carried("status") : Ready(l, f)'
      BY <2>1, <3>2, FieldsCarried DEF OnCourse
    <3>3. HoldsPresent => HoldsPresent'
      BY <1>1 DEF historyVars, vars, senderVars, HoldsPresent
    <3>4. QED
      BY <1>1, <2>2, <3>1, <3>2, <3>3 DEF OnCourse, historyVars, vars, senderVars
  <2>5. QED
    BY <1>1, <2>2, <2>3, <2>4 DEF historyVars, vars, senderVars, TicksRecorded, Idle
<1>2. CASE HistoryNext /\ Disturbs
  BY <1>2 DEF HistoryNext, TicksRecorded
<1>3. CASE HistoryNext /\ ~Disturbs /\ (TimeTick \/ StatusTick \/ MetricsTick)
  BY <1>3, TickBeginsRecorded
<1>4. CASE HistoryNext /\ ~Disturbs /\ quiet /\ BgSteps
  BY <1>4, TaskStepRecorded
<1>5. CASE HistoryNext /\ ~Disturbs /\ quiet /\ UNCHANGED bg
  <2>1. UNCHANGED layers
    BY <1>5, QuietStep DEF HistoryNext
  <2>2. bg.at # "idle" => HoldsPresent
    BY <1>5 DEF TicksRecorded, OnCourse
  <2>3. bg.at # "idle" => HoldsPresent'
    BY <1>5, <2>1, <2>2 DEF HoldsPresent
  <2>4. QED
    BY <1>5, <2>3, SameLayerRecorded
<1>6. CASE HistoryNext /\ ~Disturbs /\ ~quiet /\ ~(TimeTick \/ StatusTick \/ MetricsTick)
  <2>1. ~TickBegins
    BY <1>6 DEF HistoryNext, Next, Calls, ChangePlayback, LoadTrack, UnloadTrack, SetOnAir, SetMixer,
       Call, Announce, BgSteps, LoadLayer, SendAllLayers, CheckLayer, BuildPacket, SendLayer,
       Deliver, Lose, senderVars, TickBegins
  <2>2. through = {} /\ quiet = FALSE
    BY <1>6 DEF TicksRecorded
  <2>3. quiet' = FALSE /\ through' = {}
    BY <1>6, <2>1, <2>2 DEF HistoryNext
  <2>4. QED
    BY <2>3 DEF TicksRecorded
<1>7. QED
  BY <1>1, <1>2, <1>3, <1>4, <1>5, <1>6, QuietStep DEF HistoryNext

LEMMA TicksSuffice == TicksRecorded => ViewPutRight
<1> SUFFICES ASSUME TicksRecorded, network = <<>>
             PROVE  ViewPutRight
  BY DEF ViewPutRight
<1>1. ASSUME NEW tick \in through, NEW l \in Layers, NEW f \in Brings(tick, l)
      PROVE  Have(mirror, l, f) = Want(l, f)
  <2>1. Ready(l, f)
    BY <1>1 DEF TicksRecorded
  <2>2. ~Underway(l, f)
    BY DEF Underway
  <2>3. QED
    BY <2>1, <2>2 DEF Ready, Settled
<1>2. ASSUME NEW l \in Layers, "time" \in through
      PROVE  /\ mirror.layers[l].state = layers[l].playback
             /\ mirror.layers[l].current_time_ms = layers[l].playback
             /\ mirror.layers[l].total_time_ms = layers[l].track_id
             /\ mirror.layers[l].on_air = layers[l].on_air
  <2>1. Brings("time", l) = {"state", "current", "total", "on_air"}
    BY DEF Brings, Carried
  <2>2. \A f \in {"state", "current", "total", "on_air"} : Have(mirror, l, f) = Want(l, f)
    BY <1>1, <1>2, <2>1
  <2>3. QED
    BY <2>2 DEF Have, Want, Field
<1>3. ASSUME NEW l \in Layers, "meta" \in through
      PROVE  /\ mirror.layers[l].track_id = layers[l].track_id
             /\ mirror.layers[l].name = layers[l].track_id
             /\ Loaded(l) => mirror.layers[l].title = layers[l].track_id
  <2>1. /\ {"track_id", "name"} \subseteq Brings("meta", l)
        /\ Loaded(l) => "title" \in Brings("meta", l)
    BY DEF Brings, Carried
  <2>2. /\ \A f \in {"track_id", "name"} : Have(mirror, l, f) = Want(l, f)
        /\ Loaded(l) => Have(mirror, l, "title") = Want(l, "title")
    BY <1>1, <1>3, <2>1
  <2>3. QED
    BY <2>2 DEF Have, Want, Field
<1>4. ASSUME NEW l \in Layers, "metrics" \in through, Loaded(l)
      PROVE  /\ mirror.layers[l].track_id = layers[l].track_id
             /\ mirror.layers[l].track_length_ms = layers[l].track_id
             /\ mirror.layers[l].state = layers[l].playback
             /\ mirror.layers[l].position_ms = layers[l].playback
  <2>1. Brings("metrics", l) = {"track_id", "length", "position", "state"}
    BY <1>4 DEF Brings, Carried
  <2>2. \A f \in {"track_id", "length", "position", "state"} : Have(mirror, l, f) = Want(l, f)
    BY <1>1, <1>4, <2>1
  <2>3. QED
    BY <2>2 DEF Have, Want, Field
<1>5. QED
  BY <1>2, <1>3, <1>4 DEF ViewPutRight

(* Whatever calls, losses, late packets and packets of two moments came    *)
(* before: when what one undisturbed tick sent has arrived, a view shows   *)
(* what the broadcaster has, in all that the tick announces.               *)
THEOREM TicksPutRight == HistorySpec => []ViewPutRight
<1>1. HistoryInit => Shape /\ TicksRecorded
  BY InitShape, InitTicksRecorded DEF HistoryInit
<1>2. Shape /\ TicksRecorded /\ [HistoryNext]_historyVars => Shape' /\ TicksRecorded'
  <2>1. [HistoryNext]_historyVars => [Next]_vars
    BY DEF HistoryNext, historyVars
  <2>2. QED
    BY <2>1, StepShape, StepTicksRecorded
<1>3. Shape /\ TicksRecorded => ViewPutRight
  BY TicksSuffice
<1>4. QED
  BY <1>1, <1>2, <1>3, PTL DEF HistorySpec
=============================================================================
