--------------------------- MODULE Mirror_proofs ---------------------------
(***************************************************************************)
(* Proofs about Mirror, for any layers, tracks, playbacks, fader positions *)
(* and states of the mixer, and any number of calls, packets on the way    *)
(* and losses.                                                             *)
(***************************************************************************)
EXTENDS Mirror, TLAPS

-------------------------------------------------------------------------------
(* The shape of the state *)

(* The packets there are, each with the layers it was built from. *)
Wholes == [kind : {"time", "status"}, layer : {1}, held : [Layers -> Source]]
Singles == [kind : {"metrics", "meta"}, layer : Layers, held : [1..1 -> Source]]
MixerPackets == [kind : {"mixer"}, layer : {1}, held : [1..1 -> Mixers]]
Packets == Wholes \cup Singles \cup MixerPackets

Announced == {"metrics", "status", "meta", "mixer"}

UserOK ==
  /\ layers \in [Layers -> Source]
  /\ mixer \in Mixers
  /\ user \in [layer : Layers, todo : Seq(Announced)]
  /\ calls \in 0..MaxCalls

(* The background task holds as many layers as it has loaded. *)
TaskOK ==
  /\ bg \in [at : {"idle", "load", "check", "build", "send"},
             kind : {"time", "status", "metrics", "meta"},
             layer : Layers, held : Seq(Source)]
  /\ bg.at = "load" => bg.kind \in {"time", "status"} /\ Len(bg.held) = bg.layer - 1
  /\ bg.at \in {"check", "build"} => bg.kind \in {"metrics", "meta"}
  /\ bg.at \in {"idle", "check", "build"} => bg.held = <<>>
  /\ bg.at = "send" =>
       Len(bg.held) = IF bg.kind \in {"time", "status"} THEN LastLayer ELSE 1

NetworkOK ==
  /\ network \in Seq(Packets)
  /\ Len(network) <= MaxInFlight
  /\ losses \in 0..MaxLosses
  /\ disturbed \in BOOLEAN
  /\ mirror \in Known

Shape == UserOK /\ TaskOK /\ NetworkOK

LEMMA ConstantFacts ==
  /\ LastLayer \in Nat /\ LastLayer >= 1
  /\ Layers = 1..LastLayer
  /\ 1 \in Layers
  /\ NoTrack = 0 /\ NoTrack \in TrackIds
  /\ EmptySource \in Source
  /\ EmptySnapshot \in LayerSnapshot
  /\ DefaultMixer \in Mixers
BY ConstantsAssumption DEF NoTrack, TrackIds, EmptySource, Source, EmptySnapshot, LayerSnapshot

LEMMA InitShape == Init => Shape
<1> SUFFICES ASSUME Init PROVE Shape
  OBVIOUS
<1>1. UserOK
  <2>1. layers \in [Layers -> Source] /\ mixer \in Mixers
    BY ConstantFacts DEF Init
  <2>2. user \in [layer : Layers, todo : Seq(Announced)]
    BY ConstantFacts DEF Init, Resting
  <2>3. calls \in 0..MaxCalls
    BY ConstantsAssumption DEF Init
  <2>4. QED
    BY <2>1, <2>2, <2>3 DEF UserOK
<1>2. TaskOK
  <2>1. bg = [at |-> "idle", kind |-> "time", layer |-> 1, held |-> <<>>]
    BY DEF Init, Waiting
  <2>2. bg.at = "idle" /\ bg.held = <<>>
    BY <2>1
  <2>3. bg \in [at : {"idle", "load", "check", "build", "send"},
                kind : {"time", "status", "metrics", "meta"},
                layer : Layers, held : Seq(Source)]
    BY <2>1, ConstantFacts
  <2>4. QED
    BY <2>2, <2>3 DEF TaskOK
<1>3. NetworkOK
  <2>1. mirror \in Known
    <3>1. [l \in Layers |-> EmptySnapshot] \in [Layers -> LayerSnapshot]
      BY ConstantFacts
    <3>2. mirror = [layers |-> [l \in Layers |-> EmptySnapshot], mixer |-> DefaultMixer]
      BY DEF Init
    <3>3. DefaultMixer \in Mixers
      BY ConstantFacts
    <3>4. QED
      BY <3>1, <3>2, <3>3 DEF Known
  <2>2. network \in Seq(Packets) /\ Len(network) <= MaxInFlight
    BY ConstantsAssumption DEF Init
  <2>3. losses \in 0..MaxLosses
    BY ConstantsAssumption DEF Init
  <2>4. disturbed \in BOOLEAN
    BY DEF Init
  <2>5. QED
    BY <2>1, <2>2, <2>3, <2>4 DEF NetworkOK
<1>4. QED
  BY <1>1, <1>2, <1>3 DEF Shape

(* What a packet built now is made of. *)
LEMMA CurrentType ==
  ASSUME UserOK, NEW kind \in {"time", "status", "metrics", "meta", "mixer"}, NEW l \in Layers
  PROVE  Current(kind, l) \in Packets
<1>1. CASE kind \in {"time", "status"}
  <2>1. Current(kind, l) = Packet(kind, 1, AllLayers)
    BY <1>1 DEF Current
  <2>2. AllLayers \in [Layers -> Source]
    BY DEF AllLayers, UserOK
  <2>3. QED
    BY <1>1, <2>1, <2>2 DEF Packet, Packets, Wholes
<1>2. CASE kind \in {"metrics", "meta"}
  <2>1. Current(kind, l) = Packet(kind, l, <<layers[l]>>)
    BY <1>2 DEF Current
  <2>2. <<layers[l]>> \in [1..1 -> Source]
    BY DEF UserOK
  <2>3. QED
    BY <1>2, <2>1, <2>2 DEF Packet, Packets, Singles
<1>3. CASE kind = "mixer"
  <2>1. Current(kind, l) = Packet("mixer", 1, <<mixer>>)
    BY <1>3 DEF Current, MixerPacket
  <2>2. <<mixer>> \in [1..1 -> Mixers]
    BY DEF UserOK
  <2>3. QED
    BY <2>1, <2>2 DEF Packet, Packets, MixerPackets
<1>4. QED
  BY <1>1, <1>2, <1>3

(* A packet that is sent joins the others. *)
LEMMA SendShape ==
  ASSUME NetworkOK, NEW packet \in Packets, Send(packet), UNCHANGED mirror
  PROVE  NetworkOK'
<1>1. network' \in Seq(Packets) /\ Len(network') = Len(network) + 1
  BY DEF NetworkOK, Send
<1>2. Len(network') <= MaxInFlight
  BY <1>1, ConstantsAssumption DEF NetworkOK, Send
<1>3. losses' \in 0..MaxLosses /\ disturbed' \in BOOLEAN /\ mirror' \in Known
  BY DEF NetworkOK, Send
<1>4. QED
  BY <1>1, <1>2, <1>3 DEF NetworkOK

LEMMA SameNetwork ==
  ASSUME NetworkOK, UNCHANGED <<network, losses, disturbed, mirror>>
  PROVE  NetworkOK'
BY DEF NetworkOK, Known

LEMMA SameTask ==
  ASSUME TaskOK, UNCHANGED bg
  PROVE  TaskOK'
BY DEF TaskOK

LEMMA SameUser ==
  ASSUME UserOK, UNCHANGED <<layers, mixer, user, calls>>
  PROVE  UserOK'
BY DEF UserOK

LEMMA DoingType ==
  ASSUME NEW l \in Layers, NEW todo \in Seq(Announced)
  PROVE  Doing(l, todo) \in [layer : Layers, todo : Seq(Announced)]
BY ConstantFacts DEF Doing, Resting

LEMMA CallShape ==
  ASSUME Shape, NEW l \in Layers, NEW todo \in Seq(Announced), Call(l, todo),
         layers' \in [Layers -> Source], mixer' \in Mixers
  PROVE  Shape'
<1>1. UserOK'
  <2>1. user' \in [layer : Layers, todo : Seq(Announced)]
    BY DoingType DEF Call
  <2>2. calls' \in 0..MaxCalls
    BY ConstantsAssumption DEF Call, Shape, UserOK
  <2>3. QED
    BY <2>1, <2>2 DEF UserOK
<1>2. TaskOK' /\ NetworkOK'
  BY SameTask, SameNetwork DEF Call, Shape
<1>3. QED
  BY <1>1, <1>2 DEF Shape

-------------------------------------------------------------------------------
(* Each step keeps the shape *)

LEMMA CallsShape ==
  ASSUME Shape, Calls
  PROVE  Shape'
<1>1. ASSUME NEW l \in Layers, NEW playback \in Playbacks, ChangePlayback(l, playback)
      PROVE  Shape'
  <2>1. layers' \in [Layers -> Source] /\ mixer' \in Mixers
    BY <1>1 DEF ChangePlayback, Shape, UserOK, Source
  <2>2. <<"metrics">> \in Seq(Announced) /\ Call(l, <<"metrics">>)
    BY <1>1 DEF ChangePlayback, Announced
  <2>3. QED
    BY <2>1, <2>2, CallShape
<1>2. ASSUME NEW l \in Layers, NEW track_id \in Tracks, LoadTrack(l, track_id)
      PROVE  Shape'
  <2>1. layers' \in [Layers -> Source] /\ mixer' \in Mixers
    BY <1>2, ConstantsAssumption DEF LoadTrack, Shape, UserOK, Source, TrackIds
  <2>2. /\ <<"metrics", "status", "meta">> \in Seq(Announced)
        /\ Call(l, <<"metrics", "status", "meta">>)
    BY <1>2 DEF LoadTrack, Announced
  <2>3. QED
    BY <2>1, <2>2, CallShape
<1>3. ASSUME NEW l \in Layers, UnloadTrack(l)
      PROVE  Shape'
  <2>1. layers' \in [Layers -> Source] /\ mixer' \in Mixers
    BY <1>3, ConstantFacts DEF UnloadTrack, Shape, UserOK
  <2>2. <<"status">> \in Seq(Announced) /\ Call(l, <<"status">>)
    BY <1>3 DEF UnloadTrack, Announced
  <2>3. QED
    BY <2>1, <2>2, CallShape
<1>4. ASSUME NEW l \in Layers, NEW on_air \in OnAirs, SetOnAir(l, on_air)
      PROVE  Shape'
  <2>1. layers' \in [Layers -> Source] /\ mixer' \in Mixers
    BY <1>4 DEF SetOnAir, Shape, UserOK, Source
  <2>2. <<>> \in Seq(Announced) /\ Call(l, <<>>)
    BY <1>4 DEF SetOnAir
  <2>3. QED
    BY <2>1, <2>2, CallShape
<1>5. ASSUME NEW m \in Mixers, SetMixer(m)
      PROVE  Shape'
  <2>1. layers' \in [Layers -> Source] /\ mixer' \in Mixers
    BY <1>5 DEF SetMixer, Shape, UserOK
  <2>2. <<"mixer">> \in Seq(Announced) /\ Call(1, <<"mixer">>)
    BY <1>5 DEF SetMixer, Announced
  <2>3. QED
    BY <2>1, <2>2, CallShape, ConstantFacts
<1>6. QED
  BY <1>1, <1>2, <1>3, <1>4, <1>5 DEF Calls

LEMMA AnnounceShape ==
  ASSUME Shape, Announce
  PROVE  Shape'
<1>1. /\ user.layer \in Layers /\ user.todo \in Seq(Announced) /\ user.todo # <<>>
  BY DEF Announce, Idle, Shape, UserOK
<1>2. Head(user.todo) \in Announced /\ Tail(user.todo) \in Seq(Announced)
  BY <1>1
<1>3. UserOK'
  <2>1. user' \in [layer : Layers, todo : Seq(Announced)]
    BY <1>1, <1>2, DoingType DEF Announce
  <2>2. QED
    BY <2>1 DEF Announce, Shape, UserOK
<1>4. NetworkOK'
  <2>1. Current(Head(user.todo), user.layer) \in Packets
    BY <1>1, <1>2, CurrentType DEF Announced, Shape
  <2>2. QED
    BY <2>1, SendShape DEF Announce, Shape
<1>5. TaskOK'
  BY SameTask DEF Announce, Shape
<1>6. QED
  BY <1>3, <1>4, <1>5 DEF Shape

LEMMA TickShape ==
  ASSUME Shape, TimeTick \/ StatusTick \/ MetricsTick
  PROVE  Shape'
<1>1. UserOK' /\ NetworkOK'
  BY SameUser, SameNetwork DEF TimeTick, StatusTick, MetricsTick, Tick, bgOnly, Shape
<1>2. ASSUME NEW kind \in {"time", "status", "metrics", "meta"}, NEW at \in {"load", "check"},
             bg' = [at |-> at, kind |-> kind, layer |-> 1, held |-> <<>>],
             at = "load" => kind \in {"time", "status"}, at = "check" => kind \in {"metrics", "meta"}
      PROVE  TaskOK'
  <2>1. /\ bg'.at = at /\ bg'.kind = kind /\ bg'.layer = 1 /\ bg'.held = <<>>
        /\ bg' \in [at : {"idle", "load", "check", "build", "send"},
                    kind : {"time", "status", "metrics", "meta"},
                    layer : Layers, held : Seq(Source)]
    BY <1>2, ConstantFacts
  <2>2. Len(bg'.held) = bg'.layer - 1
    BY <2>1
  <2>3. QED
    BY <1>2, <2>1, <2>2 DEF TaskOK
<1>3. TaskOK'
  BY <1>2 DEF TimeTick, StatusTick, MetricsTick, Tick
<1>4. QED
  BY <1>1, <1>3 DEF Shape

LEMMA LoadLayerShape ==
  ASSUME Shape, LoadLayer
  PROVE  Shape'
<1>1. UserOK' /\ NetworkOK'
  BY SameUser, SameNetwork DEF LoadLayer, bgOnly, Shape
<1>2. /\ bg.layer \in Layers /\ bg.held \in Seq(Source) /\ bg.at = "load"
      /\ bg.kind \in {"time", "status"} /\ Len(bg.held) = bg.layer - 1
  BY DEF LoadLayer, Shape, TaskOK
<1>3. /\ bg'.held = Append(bg.held, layers[bg.layer])
      /\ bg'.layer = IF bg.layer = LastLayer THEN 1 ELSE bg.layer + 1
      /\ bg'.at = IF bg.layer = LastLayer THEN "send" ELSE "load"
      /\ bg'.kind = bg.kind
      /\ bg' = [at |-> bg'.at, kind |-> bg'.kind, layer |-> bg'.layer, held |-> bg'.held]
  BY DEF LoadLayer, Shape, TaskOK
<1>4. bg'.held \in Seq(Source) /\ Len(bg'.held) = bg.layer
  <2>1. layers[bg.layer] \in Source
    BY <1>2 DEF Shape, UserOK
  <2>2. bg.layer \in Nat
    BY <1>2, ConstantFacts
  <2>3. QED
    BY <1>2, <1>3, <2>1, <2>2
<1>5. bg'.layer \in Layers
  BY <1>2, <1>3, ConstantFacts
<1>6. TaskOK'
  <2>1. bg.layer = LastLayer \/ Len(bg'.held) = bg'.layer - 1
    BY <1>2, <1>3, <1>4, ConstantFacts
  <2>2. QED
    BY <1>2, <1>3, <1>4, <1>5, <2>1 DEF TaskOK
<1>7. QED
  BY <1>1, <1>6 DEF Shape

LEMMA NextLayerType ==
  ASSUME Shape, bg.kind \in {"metrics", "meta"}, bg' = NextLayer
  PROVE  TaskOK'
<1>1. CASE bg.layer = LastLayer
  <2>1. bg' = [at |-> "idle", kind |-> "time", layer |-> 1, held |-> <<>>]
    BY <1>1 DEF NextLayer, Waiting
  <2>2. /\ bg'.at = "idle" /\ bg'.held = <<>>
        /\ bg' \in [at : {"idle", "load", "check", "build", "send"},
                    kind : {"time", "status", "metrics", "meta"},
                    layer : Layers, held : Seq(Source)]
    BY <2>1, ConstantFacts
  <2>3. QED
    BY <2>2 DEF TaskOK
<1>2. CASE bg.layer # LastLayer
  <2>1. bg' = [at |-> "check", kind |-> bg.kind, layer |-> bg.layer + 1, held |-> <<>>]
    BY <1>2 DEF NextLayer, Shape, TaskOK
  <2>2. bg.layer + 1 \in Layers
    BY <1>2, ConstantFacts DEF Shape, TaskOK
  <2>3. /\ bg'.at = "check" /\ bg'.held = <<>> /\ bg'.kind \in {"metrics", "meta"}
        /\ bg' \in [at : {"idle", "load", "check", "build", "send"},
                    kind : {"time", "status", "metrics", "meta"},
                    layer : Layers, held : Seq(Source)]
    BY <2>1, <2>2
  <2>4. QED
    BY <2>3 DEF TaskOK
<1>3. QED
  BY <1>1, <1>2

LEMMA CheckBuildShape ==
  ASSUME Shape, CheckLayer \/ BuildPacket
  PROVE  Shape'
<1>1. UserOK' /\ NetworkOK'
  BY SameUser, SameNetwork DEF CheckLayer, BuildPacket, bgOnly, Shape
<1>2. bg.kind \in {"metrics", "meta"} /\ bg.layer \in Layers /\ bg.held = <<>>
  BY DEF CheckLayer, BuildPacket, Shape, TaskOK
<1>3. CASE bg' = [bg EXCEPT !.at = "build"]
  <2>1. /\ bg'.at = "build" /\ bg'.held = <<>> /\ bg'.kind \in {"metrics", "meta"}
        /\ bg' \in [at : {"idle", "load", "check", "build", "send"},
                    kind : {"time", "status", "metrics", "meta"},
                    layer : Layers, held : Seq(Source)]
    BY <1>2, <1>3 DEF Shape, TaskOK
  <2>2. QED
    BY <1>1, <2>1 DEF TaskOK, Shape
<1>4. CASE BuildPacket
  <2>1. layers[bg.layer] \in Source
    BY <1>2 DEF Shape, UserOK
  <2>2. <<layers[bg.layer]>> \in Seq(Source) /\ Len(<<layers[bg.layer]>>) = 1
    BY <2>1
  <2>3. /\ bg'.at = "send" /\ bg'.held = <<layers[bg.layer]>> /\ bg'.kind = bg.kind
        /\ bg' \in [at : {"idle", "load", "check", "build", "send"},
                    kind : {"time", "status", "metrics", "meta"},
                    layer : Layers, held : Seq(Source)]
    BY <1>2, <1>4, <2>2 DEF BuildPacket, Shape, TaskOK
  <2>4. QED
    BY <1>1, <1>2, <2>2, <2>3 DEF TaskOK, Shape
<1>5. QED
  BY <1>1, <1>2, <1>3, <1>4, NextLayerType DEF CheckLayer, Shape

(* What the task sends is a packet. *)
LEMMA HeldPacket ==
  ASSUME Shape, bg.at = "send"
  PROVE  /\ bg.kind \in {"time", "status"} => Packet(bg.kind, 1, bg.held) \in Wholes
         /\ bg.kind \in {"metrics", "meta"} => Packet(bg.kind, bg.layer, bg.held) \in Singles
<1>1. bg.held \in Seq(Source) /\ bg.layer \in Layers
  BY DEF Shape, TaskOK
<1>2. bg.held \in [1..Len(bg.held) -> Source]
  BY <1>1
<1>3. ASSUME bg.kind \in {"time", "status"} PROVE Packet(bg.kind, 1, bg.held) \in Wholes
  <2>1. Len(bg.held) = LastLayer
    BY <1>3 DEF Shape, TaskOK
  <2>2. bg.held \in [Layers -> Source]
    BY <1>2, <2>1, ConstantFacts
  <2>3. QED
    BY <1>3, <2>2 DEF Packet, Wholes
<1>4. ASSUME bg.kind \in {"metrics", "meta"} PROVE Packet(bg.kind, bg.layer, bg.held) \in Singles
  <2>1. Len(bg.held) = 1
    BY <1>4 DEF Shape, TaskOK
  <2>2. bg.held \in [1..1 -> Source]
    BY <1>2, <2>1
  <2>3. QED
    BY <1>1, <1>4, <2>2 DEF Packet, Singles
<1>5. QED
  BY <1>3, <1>4

LEMMA TaskSendsShape ==
  ASSUME Shape, SendAllLayers \/ SendLayer
  PROVE  Shape'
<1>1. UserOK'
  BY SameUser DEF SendAllLayers, SendLayer, bgOnly, Shape
<1>2. NetworkOK'
  <2>1. PICK packet \in Packets : Send(packet)
    BY HeldPacket DEF SendAllLayers, SendLayer, Packets
  <2>2. QED
    BY <2>1, SendShape DEF SendAllLayers, SendLayer, bgOnly, Shape
<1>3. TaskOK'
  <2>1. CASE SendLayer
    BY <2>1, NextLayerType DEF SendLayer
  <2>2. CASE SendAllLayers
    <3>1. /\ 1 \in Layers
          /\ <<>> \in Seq(Source)
      BY ConstantFacts
    <3>2. CASE bg' = Waiting
      BY <3>1, <3>2 DEF TaskOK, Waiting
    <3>3. CASE bg' = [at |-> "check", kind |-> "meta", layer |-> 1, held |-> <<>>]
      BY <3>1, <3>3 DEF TaskOK
    <3>4. QED
      BY <2>2, <3>2, <3>3 DEF SendAllLayers
  <2>3. QED
    BY <2>1, <2>2
<1>4. QED
  BY <1>1, <1>2, <1>3 DEF Shape

(* One packet fewer: those before it stay where they are, the others move up. *)
LEMMA WithoutOne ==
  ASSUME NEW S, NEW seq \in Seq(S), NEW i \in 1..Len(seq)
  PROVE  /\ RemoveAt(seq, i) \in Seq(S)
         /\ Len(RemoveAt(seq, i)) = Len(seq) - 1
         /\ \A j \in 1..(Len(seq) - 1) :
              RemoveAt(seq, i)[j] = IF j < i THEN seq[j] ELSE seq[j + 1]
<1>1. /\ SubSeq(seq, 1, i - 1) \in Seq(S)
      /\ Len(SubSeq(seq, 1, i - 1)) = i - 1
      /\ \A j \in 1..(i - 1) : SubSeq(seq, 1, i - 1)[j] = seq[j]
  OBVIOUS
<1>2. /\ SubSeq(seq, i + 1, Len(seq)) \in Seq(S)
      /\ Len(SubSeq(seq, i + 1, Len(seq))) = Len(seq) - i
      /\ \A j \in 1..(Len(seq) - i) : SubSeq(seq, i + 1, Len(seq))[j] = seq[i + j]
  OBVIOUS
<1> DEFINE before == SubSeq(seq, 1, i - 1)
           after == SubSeq(seq, i + 1, Len(seq))
<1>3. RemoveAt(seq, i) = before \o after
  BY DEF RemoveAt
<1>4. /\ before \in Seq(S) /\ Len(before) = i - 1
      /\ \A j \in 1..(i - 1) : before[j] = seq[j]
      /\ after \in Seq(S) /\ Len(after) = Len(seq) - i
      /\ \A j \in 1..(Len(seq) - i) : after[j] = seq[i + j]
  BY <1>1, <1>2
<1> HIDE DEF before, after
<1>5. /\ before \o after \in Seq(S)
      /\ Len(before \o after) = Len(seq) - 1
  BY <1>4
<1>6. ASSUME NEW j \in 1..(Len(seq) - 1)
      PROVE  (before \o after)[j] = IF j < i THEN seq[j] ELSE seq[j + 1]
  <2>1. CASE j < i
    BY <1>4, <2>1
  <2>2. CASE j >= i
    <3>1. j - (i - 1) \in 1..(Len(seq) - i)
      BY <2>2
    <3>2. (before \o after)[j] = after[j - (i - 1)]
      BY <1>4, <2>2
    <3>3. after[j - (i - 1)] = seq[i + (j - (i - 1))]
      BY <1>4, <3>1
    <3>4. i + (j - (i - 1)) = j + 1
      OBVIOUS
    <3>5. QED
      BY <2>2, <3>2, <3>3, <3>4
  <2>3. j < i \/ j >= i
    OBVIOUS
  <2>4. QED
    BY <2>1, <2>2, <2>3
<1>7. QED
  BY <1>3, <1>5, <1>6

LEMMA ApplyType ==
  ASSUME NEW known \in Known, NEW packet \in Packets
  PROVE  Apply(known, packet) \in Known
<1>1. known.layers \in [Layers -> LayerSnapshot] /\ known.mixer \in Mixers
  BY DEF Known
<1>2. CASE packet \in Wholes
  <2>1. \A l \in Layers :
          /\ packet.held[l].track_id \in TrackIds /\ packet.held[l].playback \in Playbacks
          /\ packet.held[l].on_air \in OnAirs
    BY <1>2 DEF Wholes, Source
  <2>2. CASE packet.kind = "status"
    <3>1. \A l \in Layers : ApplyStatus(known.layers[l], packet.held[l]) \in LayerSnapshot
      BY <1>1, <2>1 DEF ApplyStatus, LayerSnapshot
    <3>2. QED
      BY <1>1, <2>2, <3>1 DEF Apply, Known
  <2>3. CASE packet.kind = "time"
    <3>1. \A l \in Layers : ApplyTime(known.layers[l], packet.held[l]) \in LayerSnapshot
      BY <1>1, <2>1 DEF ApplyTime, LayerSnapshot
    <3>2. QED
      BY <1>1, <2>3, <3>1 DEF Apply, Known
  <2>4. QED
    BY <1>2, <2>2, <2>3 DEF Wholes
<1>3. CASE packet \in Singles
  <2>1. /\ packet.held[1].track_id \in TrackIds /\ packet.held[1].playback \in Playbacks
        /\ packet.layer \in Layers
    BY <1>3 DEF Singles, Source
  <2>2. known.layers[packet.layer] \in LayerSnapshot
    BY <1>1, <2>1
  <2>3. Layers \cup {packet.layer} = Layers /\ DOMAIN known.layers = Layers
    BY <1>1, <2>1
  <2>4. CASE packet.kind = "metrics"
    <3>1. ApplyMetrics(known.layers[packet.layer], packet.held[1]) \in LayerSnapshot
      BY <2>1, <2>2 DEF ApplyMetrics, LayerSnapshot
    <3>2. QED
      BY <1>1, <2>1, <2>3, <2>4, <3>1 DEF Apply, FromPacketId, Known
  <2>5. CASE packet.kind = "meta"
    <3>1. ApplyMeta(known.layers[packet.layer], packet.held[1]) \in LayerSnapshot
      BY <2>1, <2>2 DEF ApplyMeta, LayerSnapshot
    <3>2. QED
      BY <1>1, <2>1, <2>3, <2>5, <3>1 DEF Apply, FromPacketId, Known
  <2>6. QED
    BY <1>3, <2>4, <2>5 DEF Singles
<1>4. CASE packet \in MixerPackets
  <2>1. packet.kind = "mixer" /\ packet.held[1] \in Mixers
    BY <1>4 DEF MixerPackets
  <2>2. QED
    BY <1>1, <2>1 DEF Apply, ApplyMixer, Known
<1>5. QED
  BY <1>2, <1>3, <1>4 DEF Packets

LEMMA ArriveShape ==
  ASSUME Shape, NEW i \in 1..Len(network), Deliver(i) \/ Lose(i)
  PROVE  Shape'
<1>1. UserOK' /\ TaskOK'
  BY SameUser, SameTask DEF Deliver, Lose, senderVars, Shape
<1>2. network' \in Seq(Packets) /\ Len(network') <= MaxInFlight
  <2>1. network \in Seq(Packets) /\ Len(network) <= MaxInFlight /\ network' = RemoveAt(network, i)
    BY DEF Deliver, Lose, Shape, NetworkOK
  <2>2. network' \in Seq(Packets) /\ Len(network') = Len(network) - 1
    BY <2>1, WithoutOne
  <2>3. QED
    BY <2>1, <2>2, ConstantsAssumption
<1>3. mirror' \in Known
  <2>1. network[i] \in Packets
    BY DEF Shape, NetworkOK
  <2>2. QED
    BY <2>1, ApplyType DEF Deliver, Lose, Shape, NetworkOK
<1>4. losses' \in 0..MaxLosses
  BY ConstantsAssumption DEF Deliver, Lose, Shape, NetworkOK
<1>5. disturbed' \in BOOLEAN
  BY DEF Deliver, Lose, Shape, NetworkOK
<1>6. QED
  BY <1>1, <1>2, <1>3, <1>4, <1>5 DEF Shape, NetworkOK

LEMMA StepShape == Shape /\ [Next]_vars => Shape'
<1> SUFFICES ASSUME Shape, [Next]_vars PROVE Shape'
  OBVIOUS
<1>1. CASE UNCHANGED vars
  BY <1>1, SameUser, SameTask, SameNetwork DEF vars, senderVars, Shape
<1>2. QED
  BY <1>1, CallsShape, AnnounceShape, TickShape, LoadLayerShape, CheckBuildShape,
     TaskSendsShape, ArriveShape DEF Next, BgSteps

LEMMA ShapeTyped == Shape => TypeOK
<1> SUFFICES ASSUME Shape PROVE TypeOK
  OBVIOUS
<1>1. Len(bg.held) <= LastLayer
  <2>1. Len(<<>>) = 0
    OBVIOUS
  <2>2. bg.layer \in 1..LastLayer
    BY ConstantFacts DEF Shape, TaskOK
  <2>3. /\ bg.at \in {"idle", "check", "build"} => Len(bg.held) = 0
        /\ bg.at = "load" => Len(bg.held) = bg.layer - 1
        /\ bg.at = "send" => Len(bg.held) = LastLayer \/ Len(bg.held) = 1
    BY <2>1 DEF Shape, TaskOK
  <2>4. bg.at \in {"idle", "load", "check", "build", "send"}
    BY DEF Shape, TaskOK
  <2>5. LastLayer \in Nat /\ LastLayer >= 1
    BY ConstantFacts
  <2>6. CASE bg.at \in {"idle", "check", "build"}
    BY <2>3, <2>5, <2>6
  <2>7. CASE bg.at = "load"
    BY <2>2, <2>3, <2>5, <2>7
  <2>8. CASE Len(bg.held) = LastLayer
    BY <2>5, <2>8
  <2>9. CASE Len(bg.held) = 1
    BY <2>5, <2>9
  <2>10. QED
    BY <2>3, <2>4, <2>6, <2>7, <2>8, <2>9
<1>2. \A i \in 1..Len(bg.held) : bg.held[i] \in Source
  BY DEF Shape, TaskOK
<1>3. QED
  BY <1>1, <1>2 DEF Shape, UserOK, TaskOK, NetworkOK, TypeOK

(* Whatever is called, built, sent, delivered and lost, the task holds no  *)
(* more layers than there are, and no packet gives a view a layer or a     *)
(* value of a layer that does not exist.                                   *)
THEOREM TypeCorrect == Spec => []TypeOK
<1>1. Spec => []Shape
  BY InitShape, StepShape, PTL DEF Spec
<1>2. QED
  BY <1>1, ShapeTyped, PTL

-------------------------------------------------------------------------------
(* What has been announced is known: of every field a peer can know at     *)
(* once, the value is still to be announced, or the last packet on the way *)
(* that has the field brings it, or no such packet is on the way and the   *)
(* peer has it.                                                            *)

Fields == {"track_id", "name", "title", "length", "position", "state", "current", "total",
           "on_air", "mixer"}

Carried(kind) ==
  CASE kind = "metrics" -> {"track_id", "length", "position", "state"}
    [] kind = "status" -> {"track_id", "name"}
    [] kind = "meta" -> {"track_id", "title"}
    [] kind = "mixer" -> {"mixer"}
    [] kind = "time" -> {"state", "current", "total", "on_air"}

Carries(packet, l, f) ==
  /\ f \in Carried(packet.kind)
  /\ packet.kind \in {"metrics", "meta"} => packet.layer = l

Field(source, f) ==
  CASE f \in {"position", "state", "current"} -> source.playback
    [] f = "on_air" -> source.on_air
    [] OTHER -> source.track_id

Value(packet, l, f) ==
  IF f = "mixer" THEN packet.held[1]
  ELSE Field(IF packet.kind \in {"status", "time"} THEN packet.held[l] ELSE packet.held[1], f)

Have(known, l, f) ==
  CASE f = "track_id" -> known.layers[l].track_id
    [] f = "name" -> known.layers[l].name
    [] f = "title" -> known.layers[l].title
    [] f = "length" -> known.layers[l].track_length_ms
    [] f = "position" -> known.layers[l].position_ms
    [] f = "state" -> known.layers[l].state
    [] f = "current" -> known.layers[l].current_time_ms
    [] f = "total" -> known.layers[l].total_time_ms
    [] f = "on_air" -> known.layers[l].on_air
    [] f = "mixer" -> known.mixer

Want(l, f) == IF f = "mixer" THEN mixer ELSE Field(layers[l], f)

(* What the calls announce; duration and fader come by Time packets only. *)
Demanded(l, f) ==
  \/ f \in {"track_id", "name", "mixer"}
  \/ f \in {"title", "length", "position", "state"} /\ Loaded(l)

Coming(l, f) ==
  /\ f = "mixer" \/ user.layer = l
  /\ \E i \in 1..Len(user.todo) : f \in Carried(user.todo[i])

LastCarrier(i, l, f) ==
  /\ i \in 1..Len(network)
  /\ Carries(network[i], l, f)
  /\ \A j \in 1..Len(network) : j > i => ~Carries(network[j], l, f)

Underway(l, f) ==
  \E i \in 1..Len(network) : LastCarrier(i, l, f) /\ Value(network[i], l, f) = Want(l, f)

Settled(l, f) ==
  /\ \A j \in 1..Len(network) : ~Carries(network[j], l, f)
  /\ Have(mirror, l, f) = Want(l, f)

Ready(l, f) == Underway(l, f) \/ Settled(l, f)

Accounted ==
  ~disturbed =>
    \A l \in Layers : \A f \in Fields : Demanded(l, f) => Coming(l, f) \/ Ready(l, f)

(* A packet changes the fields it has, to the values it has. *)
LEMMA ApplyHave ==
  ASSUME NEW known \in Known, NEW packet \in Packets, NEW l \in Layers, NEW f \in Fields
  PROVE  Have(Apply(known, packet), l, f) =
           IF Carries(packet, l, f) THEN Value(packet, l, f) ELSE Have(known, l, f)
<1>1. known.layers \in [Layers -> LayerSnapshot] /\ known.mixer \in Mixers
  BY DEF Known
<1>2. known.layers[l] \in LayerSnapshot
  BY <1>1
<1>3. CASE packet \in Wholes
  <2>1. CASE packet.kind = "status"
    <3>1. /\ Apply(known, packet).layers[l] = ApplyStatus(known.layers[l], packet.held[l])
          /\ Apply(known, packet).mixer = known.mixer
      BY <1>1, <2>1 DEF Apply, Known
    <3>2. Carried(packet.kind) = {"track_id", "name"}
      BY <2>1 DEF Carried
    <3>3. Carries(packet, l, f) <=> f \in {"track_id", "name"}
      BY <2>1, <3>2 DEF Carries
    <3>4. QED
      BY <1>2, <2>1, <3>1, <3>3 DEF ApplyStatus, LayerSnapshot, Have, Value, Field, Fields
  <2>2. CASE packet.kind = "time"
    <3>1. /\ Apply(known, packet).layers[l] = ApplyTime(known.layers[l], packet.held[l])
          /\ Apply(known, packet).mixer = known.mixer
      BY <1>1, <2>2 DEF Apply, Known
    <3>2. Carried(packet.kind) = {"state", "current", "total", "on_air"}
      BY <2>2 DEF Carried
    <3>3. Carries(packet, l, f) <=> f \in {"state", "current", "total", "on_air"}
      BY <2>2, <3>2 DEF Carries
    <3>4. QED
      BY <1>2, <2>2, <3>1, <3>3 DEF ApplyTime, LayerSnapshot, Have, Value, Field, Fields
  <2>3. QED
    BY <1>3, <2>1, <2>2 DEF Wholes
<1>4. CASE packet \in Singles
  <2>1. packet.layer \in Layers /\ packet.kind \in {"metrics", "meta"}
    BY <1>4 DEF Singles
  <2>2. Layers \cup {packet.layer} = Layers /\ DOMAIN known.layers = Layers
    BY <1>1, <2>1
  <2>3. CASE packet.kind = "metrics"
    <3>1. /\ Apply(known, packet).layers[l] =
                IF l = packet.layer THEN ApplyMetrics(known.layers[l], packet.held[1])
                ELSE known.layers[l]
          /\ Apply(known, packet).mixer = known.mixer
      BY <1>1, <2>1, <2>2, <2>3 DEF Apply, FromPacketId, Known
    <3>2. Carried(packet.kind) = {"track_id", "length", "position", "state"}
      BY <2>3 DEF Carried
    <3>3. Carries(packet, l, f) <=>
            packet.layer = l /\ f \in {"track_id", "length", "position", "state"}
      BY <2>3, <3>2 DEF Carries
    <3>4. QED
      BY <1>2, <2>3, <3>1, <3>3 DEF ApplyMetrics, LayerSnapshot, Have, Value, Field, Fields
  <2>4. CASE packet.kind = "meta"
    <3>1. /\ Apply(known, packet).layers[l] =
                IF l = packet.layer THEN ApplyMeta(known.layers[l], packet.held[1])
                ELSE known.layers[l]
          /\ Apply(known, packet).mixer = known.mixer
      BY <1>1, <2>1, <2>2, <2>4 DEF Apply, FromPacketId, Known
    <3>2. Carried(packet.kind) = {"track_id", "title"}
      BY <2>4 DEF Carried
    <3>3. Carries(packet, l, f) <=> packet.layer = l /\ f \in {"track_id", "title"}
      BY <2>4, <3>2 DEF Carries
    <3>4. QED
      BY <1>2, <2>4, <3>1, <3>3 DEF ApplyMeta, LayerSnapshot, Have, Value, Field, Fields
  <2>5. QED
    BY <2>1, <2>3, <2>4
<1>5. CASE packet \in MixerPackets
  <2>1. packet.kind = "mixer"
    BY <1>5 DEF MixerPackets
  <2>2. /\ Apply(known, packet).layers = known.layers
        /\ Apply(known, packet).mixer = packet.held[1]
    BY <1>1, <2>1 DEF Apply, ApplyMixer, Known
  <2>3. Carried(packet.kind) = {"mixer"}
    BY <2>1 DEF Carried
  <2>4. Carries(packet, l, f) <=> f = "mixer"
    BY <2>1, <2>3 DEF Carries
  <2>5. QED
    BY <2>2, <2>4 DEF Have, Value, Fields
<1>6. QED
  BY <1>3, <1>4, <1>5 DEF Packets

(* A packet that is up to date brings what is wanted. *)
LEMMA CurrentValue ==
  ASSUME UserOK, NEW packet \in Packets, packet = Current(packet.kind, packet.layer),
         NEW l \in Layers, NEW f \in Fields, Carries(packet, l, f)
  PROVE  Value(packet, l, f) = Want(l, f)
<1>1. packet.kind \in {"time", "status", "metrics", "meta", "mixer"}
  BY DEF Packets, Wholes, Singles, MixerPackets
<1>2. CASE packet.kind \in {"time", "status"}
  <2>1. "mixer" \notin Carried(packet.kind)
    BY <1>2 DEF Carried
  <2>2. packet = Packet(packet.kind, 1, AllLayers)
    BY <1>2 DEF Current
  <2>3. packet.held[l] = layers[l]
    BY <2>2 DEF Packet, AllLayers
  <2>4. f # "mixer"
    BY <2>1 DEF Carries
  <2>5. QED
    BY <1>2, <2>3, <2>4 DEF Value, Want
<1>4. CASE packet.kind \in {"metrics", "meta"}
  <2>1. Current(packet.kind, packet.layer) = Packet(packet.kind, packet.layer, <<layers[packet.layer]>>)
    BY <1>4 DEF Current
  <2>2. packet.held = <<layers[packet.layer]>>
    BY <2>1 DEF Packet
  <2>3. packet.layer = l
    BY <1>4 DEF Carries
  <2>4. f # "mixer"
    BY <1>4 DEF Carries, Carried
  <2>5. packet.held[1] = layers[l]
    BY <2>2, <2>3
  <2>6. packet.kind \notin {"status", "time"}
    BY <1>4
  <2>7. QED
    BY <2>4, <2>5, <2>6 DEF Value, Want
<1>5. CASE packet.kind = "mixer"
  <2>1. Carried(packet.kind) = {"mixer"}
    BY <1>5 DEF Carried
  <2>2. f = "mixer"
    BY <2>1 DEF Carries
  <2>3. packet = Packet("mixer", 1, <<mixer>>)
    BY <1>5 DEF Current, MixerPacket
  <2>4. packet.held[1] = mixer
    BY <2>3 DEF Packet
  <2>5. QED
    BY <2>2, <2>4 DEF Value, Want
<1>6. QED
  BY <1>1, <1>2, <1>4, <1>5

(* A packet that brings what is wanted of a field, if it has it: then that *)
(* is on the way, and if it was ready it remains so.                       *)
LEMMA SendReady ==
  ASSUME Shape, NEW packet \in Packets, Send(packet), UNCHANGED <<layers, mixer, mirror>>,
         NEW l \in Layers, NEW f \in Fields,
         Carries(packet, l, f) => Value(packet, l, f) = Want(l, f)
  PROVE  /\ Carries(packet, l, f) => Ready(l, f)'
         /\ Ready(l, f) => Ready(l, f)'
<1>1. network \in Seq(Packets) /\ network' = Append(network, packet)
  BY DEF Send, Shape, NetworkOK
<1>2. /\ Len(network) \in Nat /\ Len(network') = Len(network) + 1
      /\ network'[Len(network) + 1] = packet
      /\ \A j \in 1..Len(network) : network'[j] = network[j]
  BY <1>1
<1>3. Want(l, f)' = Want(l, f)
  BY DEF Want
<1>4. ASSUME Carries(packet, l, f) PROVE Underway(l, f)'
  <2>1. Value(packet, l, f) = Want(l, f)
    BY <1>4
  <2> PICK last \in Nat : last = Len(network) + 1
    BY <1>2
  <2>2. last \in 1..Len(network') /\ network'[last] = packet
    BY <1>2
  <2>3. LastCarrier(last, l, f)'
    BY <1>2, <1>4, <2>2 DEF LastCarrier, Carries
  <2>4. Value(network[last], l, f)' = Value(packet, l, f)
    BY <2>2 DEF Value
  <2>5. QED
    BY <1>3, <2>1, <2>2, <2>3, <2>4 DEF Underway
<1>5. ASSUME ~Carries(packet, l, f), Underway(l, f) PROVE Underway(l, f)'
  <2>1. PICK i \in 1..Len(network) : LastCarrier(i, l, f) /\ Value(network[i], l, f) = Want(l, f)
    BY <1>5 DEF Underway
  <2>2. i \in 1..Len(network') /\ network'[i] = network[i]
    BY <1>2, <2>1
  <2>3. ASSUME NEW j \in 1..Len(network'), j > i PROVE ~Carries(network'[j], l, f)
    <3>1. CASE j \in 1..Len(network)
      BY <1>2, <2>1, <2>3, <3>1 DEF LastCarrier
    <3>2. CASE j = Len(network) + 1
      BY <1>2, <1>5, <3>2
    <3>3. QED
      BY <1>2, <3>1, <3>2
  <2>4. LastCarrier(i, l, f)'
    BY <2>1, <2>2, <2>3 DEF LastCarrier, Carries
  <2>5. Value(network[i], l, f)' = Value(network[i], l, f)
    BY <2>2 DEF Value
  <2>6. QED
    BY <1>3, <2>1, <2>2, <2>4, <2>5 DEF Underway
<1>6. ASSUME ~Carries(packet, l, f), Settled(l, f) PROVE Settled(l, f)'
  <2>1. ASSUME NEW j \in 1..Len(network') PROVE ~Carries(network'[j], l, f)
    <3>1. CASE j \in 1..Len(network)
      BY <1>2, <1>6, <3>1 DEF Settled
    <3>2. CASE j = Len(network) + 1
      BY <1>2, <1>6, <3>2
    <3>3. QED
      BY <1>2, <3>1, <3>2
  <2>2. Have(mirror, l, f)' = Have(mirror, l, f)
    BY DEF Have
  <2>3. QED
    BY <1>3, <1>6, <2>1, <2>2 DEF Settled, Carries
<1>7. QED
  BY <1>4, <1>5, <1>6 DEF Ready

(* ... as a packet does that is sent up to date. *)
LEMMA SendCurrentReady ==
  ASSUME Shape, NEW packet \in Packets, Send(packet), ~disturbed',
         UNCHANGED <<layers, mixer, mirror>>, NEW l \in Layers, NEW f \in Fields
  PROVE  /\ Carries(packet, l, f) => Ready(l, f)'
         /\ Ready(l, f) => Ready(l, f)'
<1>1. Carries(packet, l, f) => Value(packet, l, f) = Want(l, f)
  BY CurrentValue DEF Send, Shape
<1>2. QED
  BY <1>1, SendReady

(* The oldest packet arrives: either it was the last that brings the       *)
(* value, and the peer has it now, or nothing is changed.                  *)
LEMMA DeliverReady ==
  ASSUME Shape, 1 \in 1..Len(network), Deliver(1), NEW l \in Layers, NEW f \in Fields, Ready(l, f)
  PROVE  Ready(l, f)'
<1>1. network \in Seq(Packets) /\ network' = RemoveAt(network, 1) /\ network[1] \in Packets
  BY DEF Deliver, Shape, NetworkOK
<1>2. /\ Len(network) \in Nat /\ Len(network') = Len(network) - 1
      /\ \A j \in 1..(Len(network) - 1) : network'[j] = network[j + 1]
  <2>1. Len(network') = Len(network) - 1
    BY <1>1, WithoutOne
  <2>2. ASSUME NEW j \in 1..(Len(network) - 1) PROVE network'[j] = network[j + 1]
    <3>1. network'[j] = IF j < 1 THEN network[j] ELSE network[j + 1]
      BY <1>1, WithoutOne
    <3>2. QED
      BY <3>1
  <2>3. Len(network) \in Nat
    BY <1>1
  <2>4. QED
    BY <2>1, <2>2, <2>3
<1>3. Want(l, f)' = Want(l, f)
  BY DEF Want, Deliver, senderVars
<1>4. Have(mirror, l, f)' =
        IF Carries(network[1], l, f) THEN Value(network[1], l, f) ELSE Have(mirror, l, f)
  <2>1. mirror \in Known /\ mirror' = Apply(mirror, network[1])
    BY DEF Deliver, Shape, NetworkOK
  <2>2. Have(mirror, l, f)' = Have(mirror', l, f)
    BY DEF Have
  <2>3. QED
    BY <1>1, <2>1, <2>2, ApplyHave
<1>5. CASE Settled(l, f)
  <2>1. ASSUME NEW j \in 1..Len(network') PROVE ~Carries(network'[j], l, f)
    <3>1. j + 1 \in 1..Len(network) /\ network'[j] = network[j + 1]
      BY <1>2
    <3>2. QED
      BY <1>5, <3>1 DEF Settled
  <2>2. Have(mirror, l, f)' = Want(l, f)
    BY <1>4, <1>5 DEF Settled
  <2>3. QED
    BY <1>3, <2>1, <2>2 DEF Settled, Carries, Ready
<1>6. ASSUME NEW i \in 1..Len(network), LastCarrier(i, l, f),
             Value(network[i], l, f) = Want(l, f)
      PROVE  Ready(l, f)'
  <2>1. CASE i = 1
    <3>1. ASSUME NEW j \in 1..Len(network') PROVE ~Carries(network'[j], l, f)
      <4>1. j + 1 \in 1..Len(network) /\ network'[j] = network[j + 1] /\ j + 1 > i
        BY <1>2, <2>1
      <4>2. QED
        BY <1>6, <4>1 DEF LastCarrier
    <3>2. Have(mirror, l, f)' = Want(l, f)
      BY <1>4, <1>6, <2>1 DEF LastCarrier
    <3>3. QED
      BY <1>3, <3>1, <3>2 DEF Settled, Carries, Ready
  <2>2. CASE i > 1
    <3> DEFINE k == i - 1
    <3>1. k \in 1..Len(network') /\ k \in 1..(Len(network) - 1) /\ k + 1 = i
      BY <1>2, <2>2
    <3> HIDE DEF k
    <3>2. network'[k] = network[i]
      BY <1>2, <3>1
    <3>3. ASSUME NEW j \in 1..Len(network'), j > k PROVE ~Carries(network'[j], l, f)
      <4>1. j + 1 \in 1..Len(network) /\ network'[j] = network[j + 1] /\ j + 1 > i
        BY <1>2, <3>1, <3>3
      <4>2. QED
        BY <1>6, <4>1 DEF LastCarrier
    <3>4. Carries(network'[k], l, f)
      BY <1>6, <3>2 DEF LastCarrier
    <3>5. Value(network'[k], l, f) = Want(l, f)'
      BY <1>3, <1>6, <3>2
    <3>6. QED
      BY <3>1, <3>3, <3>4, <3>5 DEF LastCarrier, Underway, Ready, Carries, Value
  <2>3. i = 1 \/ i > 1
    OBVIOUS
  <2>4. QED
    BY <2>1, <2>2, <2>3
<1>7. QED
  BY <1>5, <1>6 DEF Ready, Underway

(* A value that stays is as ready as it was. *)
LEMMA SameReady ==
  ASSUME NEW l \in Layers, NEW f \in Fields, Ready(l, f), UNCHANGED <<network, mirror>>,
         Want(l, f)' = Want(l, f)
  PROVE  Ready(l, f)'
<1>1. Have(mirror, l, f)' = Have(mirror, l, f)
  BY DEF Have
<1>2. \A i \in 1..Len(network) : LastCarrier(i, l, f) => LastCarrier(i, l, f)'
  BY DEF LastCarrier, Carries
<1>3. \A i \in 1..Len(network) : Value(network[i], l, f)' = Value(network[i], l, f)
  BY DEF Value
<1>4. Settled(l, f) => Settled(l, f)'
  BY <1>1 DEF Settled, Carries
<1>5. Underway(l, f) => Underway(l, f)'
  <2>1. SUFFICES ASSUME NEW i \in 1..Len(network), LastCarrier(i, l, f),
                        Value(network[i], l, f) = Want(l, f)
                 PROVE  Underway(l, f)'
    BY DEF Underway
  <2>2. LastCarrier(i, l, f)' /\ Value(network[i], l, f)' = Want(l, f)'
    BY <1>2, <1>3, <2>1
  <2>3. i \in 1..Len(network')
    OBVIOUS
  <2>4. QED
    BY <2>2, <2>3 DEF Underway
<1>6. QED
  BY <1>4, <1>5 DEF Ready

LEMMA InitAccounted == Init => Accounted
<1> SUFFICES ASSUME Init, NEW l \in Layers, NEW f \in Fields, Demanded(l, f)
             PROVE  Settled(l, f)
  BY DEF Accounted, Ready
<1>1. network = <<>>
  BY DEF Init
<1>2. /\ layers[l] = EmptySource /\ mirror.layers[l] = EmptySnapshot
      /\ mixer = DefaultMixer /\ mirror.mixer = DefaultMixer
  BY DEF Init
<1>3. Have(mirror, l, f) = Want(l, f)
  BY <1>2 DEF Have, Want, Field, EmptySource, EmptySnapshot, Fields
<1>4. QED
  BY <1>1, <1>3 DEF Settled

(* A call: what it changes it announces, and nothing else was still to be  *)
(* announced.                                                              *)
LEMMA CallAccounted ==
  ASSUME Shape, Accounted, NEW c \in Layers, NEW todo \in Seq(Announced), Call(c, todo),
         \A l \in Layers : \A f \in Fields :
           Demanded(l, f)' => \/ Demanded(l, f) /\ Want(l, f)' = Want(l, f)
                             \/ /\ f = "mixer" \/ c = l
                                /\ \E i \in 1..Len(todo) : f \in Carried(todo[i])
  PROVE  Accounted'
<1> SUFFICES ASSUME ~disturbed', NEW l \in Layers, NEW f \in Fields, Demanded(l, f)'
             PROVE  (Coming(l, f) \/ Ready(l, f))'
  BY DEF Accounted
<1>1. CASE Demanded(l, f) /\ Want(l, f)' = Want(l, f)
  <2>1. user.todo = <<>>
    BY DEF Call, Idle
  <2>2. ~Coming(l, f)
    BY <2>1 DEF Coming
  <2>3. Ready(l, f)
    BY <1>1, <2>2 DEF Accounted, Call
  <2>4. QED
    BY <1>1, <2>3, SameReady DEF Call
<1>2. ASSUME f = "mixer" \/ c = l, NEW i \in 1..Len(todo), f \in Carried(todo[i])
      PROVE  Coming(l, f)'
  <2>1. todo # <<>>
    BY <1>2
  <2>2. user' = [layer |-> c, todo |-> todo]
    BY <2>1 DEF Call, Doing
  <2>3. QED
    BY <1>2, <2>2 DEF Coming
<1>3. QED
  BY <1>1, <1>2

LEMMA CallsAccounted ==
  ASSUME Shape, Accounted, Calls
  PROVE  Accounted'
<1> USE DEF Field
<1>1. ASSUME NEW c \in Layers, NEW playback \in Playbacks, ChangePlayback(c, playback)
      PROVE  Accounted'
  <2>1. <<"metrics">> \in Seq(Announced) /\ Call(c, <<"metrics">>)
    BY <1>1 DEF ChangePlayback, Announced
  <2>2. ASSUME NEW l \in Layers, NEW f \in Fields, Demanded(l, f)'
        PROVE  \/ Demanded(l, f) /\ Want(l, f)' = Want(l, f)
               \/ c = l /\ f \in {"position", "state"}
    <3>1. /\ layers'[l].track_id = layers[l].track_id /\ mixer' = mixer
          /\ l # c => layers'[l] = layers[l]
      BY <1>1 DEF ChangePlayback, Shape, UserOK, Source
    <3>2. QED
      BY <2>2, <3>1 DEF Demanded, Loaded, Want
  <2>3. {"position", "state"} \subseteq Carried(<<"metrics">>[1]) /\ 1 \in 1..Len(<<"metrics">>)
    BY DEF Carried
  <2>4. QED
    BY <2>1, <2>2, <2>3, CallAccounted
<1>2. ASSUME NEW c \in Layers, NEW track_id \in Tracks, LoadTrack(c, track_id)
      PROVE  Accounted'
  <2> DEFINE todo == <<"metrics", "status", "meta">>
  <2>1. todo \in Seq(Announced) /\ Call(c, todo)
    BY <1>2 DEF LoadTrack, Announced
  <2>2. ASSUME NEW l \in Layers, NEW f \in Fields, Demanded(l, f)'
        PROVE  \/ Demanded(l, f) /\ Want(l, f)' = Want(l, f)
               \/ c = l /\ f \in {"track_id", "name", "title", "length", "position", "state"}
    <3>1. mixer' = mixer /\ (l # c => layers'[l] = layers[l])
      BY <1>2 DEF LoadTrack, Shape, UserOK
    <3>2. QED
      BY <2>2, <3>1 DEF Demanded, Loaded, Want
  <2>3. /\ 1 \in 1..Len(todo) /\ 2 \in 1..Len(todo) /\ 3 \in 1..Len(todo)
        /\ todo[1] = "metrics" /\ todo[2] = "status" /\ todo[3] = "meta"
    OBVIOUS
  <2>4. /\ Carried("metrics") = {"track_id", "length", "position", "state"}
        /\ Carried("status") = {"track_id", "name"}
        /\ Carried("meta") = {"track_id", "title"}
    BY DEF Carried
  <2>5. ASSUME NEW f \in {"track_id", "name", "title", "length", "position", "state"}
        PROVE  \E i \in 1..Len(todo) : f \in Carried(todo[i])
    <3>1. \/ f \in Carried(todo[1]) \/ f \in Carried(todo[2]) \/ f \in Carried(todo[3])
      BY <2>3, <2>4, <2>5 DEF Fields
    <3>2. QED
      BY <2>3, <3>1
  <2> HIDE DEF todo
  <2>6. QED
    BY <2>1, <2>2, <2>5, CallAccounted
<1>3. ASSUME NEW c \in Layers, UnloadTrack(c)
      PROVE  Accounted'
  <2>1. <<"status">> \in Seq(Announced) /\ Call(c, <<"status">>)
    BY <1>3 DEF UnloadTrack, Announced
  <2>2. ASSUME NEW l \in Layers, NEW f \in Fields, Demanded(l, f)'
        PROVE  \/ Demanded(l, f) /\ Want(l, f)' = Want(l, f)
               \/ c = l /\ f \in {"track_id", "name"}
    <3>1. mixer' = mixer /\ (l # c => layers'[l] = layers[l]) /\ layers'[c] = EmptySource
      BY <1>3 DEF UnloadTrack, Shape, UserOK
    <3>2. CASE l = c
      <4>1. ~Loaded(l)'
        BY <3>1, <3>2 DEF Loaded, EmptySource
      <4>2. f \in {"track_id", "name", "mixer"}
        BY <2>2, <4>1 DEF Demanded
      <4>3. QED
        BY <3>1, <3>2, <4>2 DEF Demanded, Want
    <3>3. QED
      BY <2>2, <3>1, <3>2 DEF Demanded, Loaded, Want
  <2>3. Carried(<<"status">>[1]) = {"track_id", "name"} /\ 1 \in 1..Len(<<"status">>)
    BY DEF Carried
  <2>4. QED
    BY <2>1, <2>2, <2>3, CallAccounted
<1>4. ASSUME NEW c \in Layers, NEW on_air \in OnAirs, SetOnAir(c, on_air)
      PROVE  Accounted'
  <2>1. <<>> \in Seq(Announced) /\ Call(c, <<>>)
    BY <1>4 DEF SetOnAir
  <2>2. ASSUME NEW l \in Layers, NEW f \in Fields, Demanded(l, f)'
        PROVE  Demanded(l, f) /\ Want(l, f)' = Want(l, f)
    <3>1. /\ mixer' = mixer /\ layers'[l].track_id = layers[l].track_id
          /\ layers'[l].playback = layers[l].playback
      BY <1>4 DEF SetOnAir, Shape, UserOK, Source
    <3>2. QED
      BY <2>2, <3>1 DEF Demanded, Loaded, Want
  <2>3. QED
    BY <2>1, <2>2, CallAccounted
<1>5. ASSUME NEW m \in Mixers, SetMixer(m)
      PROVE  Accounted'
  <2>1. <<"mixer">> \in Seq(Announced) /\ Call(1, <<"mixer">>) /\ 1 \in Layers
    BY <1>5, ConstantFacts DEF SetMixer, Announced
  <2>2. ASSUME NEW l \in Layers, NEW f \in Fields, Demanded(l, f)'
        PROVE  \/ Demanded(l, f) /\ Want(l, f)' = Want(l, f)
               \/ f = "mixer"
    BY <1>5, <2>2 DEF SetMixer, Demanded, Loaded, Want
  <2>3. "mixer" \in Carried(<<"mixer">>[1]) /\ 1 \in 1..Len(<<"mixer">>)
    BY DEF Carried
  <2>4. QED
    BY <2>1, <2>2, <2>3, CallAccounted
<1>6. QED
  BY <1>1, <1>2, <1>3, <1>4, <1>5 DEF Calls

LEMMA AnnounceAccounted ==
  ASSUME Shape, Accounted, Announce
  PROVE  Accounted'
<1> SUFFICES ASSUME ~disturbed', NEW l \in Layers, NEW f \in Fields, Demanded(l, f)'
             PROVE  (Coming(l, f) \/ Ready(l, f))'
  BY DEF Accounted
<1> DEFINE kind == Head(user.todo)
           packet == Current(kind, user.layer)
<1>1. /\ user.todo \in Seq(Announced) /\ user.todo # <<>> /\ user.layer \in Layers
      /\ kind = user.todo[1] /\ kind \in Announced
  BY DEF Announce, Idle, Shape, UserOK
<1>2. /\ packet \in Packets /\ packet.kind = kind
      /\ kind \in {"metrics", "meta"} => packet.layer = user.layer
  BY <1>1, CurrentType DEF Announced, Shape, Current, Packet, MixerPacket
<1>3. Send(packet) /\ UNCHANGED <<layers, mixer, mirror>>
  BY DEF Announce
<1>4. Demanded(l, f)
  BY <1>3 DEF Demanded, Loaded
<1>5. ~disturbed
  BY <1>3 DEF Send
<1> HIDE DEF packet
<1>6. CASE Ready(l, f)
  BY <1>2, <1>3, <1>6, SendCurrentReady
<1>7. ASSUME f = "mixer" \/ user.layer = l,
             NEW i \in 1..Len(user.todo), f \in Carried(user.todo[i])
      PROVE  (Coming(l, f) \/ Ready(l, f))'
  <2>1. CASE i = 1
    <3>1. f \in Carried(packet.kind)
      BY <1>1, <1>2, <1>7, <2>1
    <3>2. packet.kind \in {"metrics", "meta"} => f # "mixer"
      BY <3>1 DEF Carried
    <3>3. Carries(packet, l, f)
      BY <1>2, <1>7, <3>1, <3>2 DEF Carries
    <3>4. QED
      BY <1>2, <1>3, <3>3, SendCurrentReady
  <2>2. CASE i > 1
    <3>1. Tail(user.todo) \in Seq(Announced)
      BY <1>1
    <3> PICK rest \in Seq(Announced) : rest = Tail(user.todo)
      BY <3>1
    <3>2. /\ Len(rest) = Len(user.todo) - 1
          /\ i - 1 \in 1..Len(rest)
          /\ rest[i - 1] = user.todo[i]
      BY <1>1, <2>2
    <3>3. rest # <<>>
      <4>1. SUFFICES ASSUME rest = <<>> PROVE FALSE
        OBVIOUS
      <4>2. Len(<<>>) = 0
        OBVIOUS
      <4>3. Len(rest) = 0
        BY <4>1, <4>2
      <4>4. 1..0 = {}
        OBVIOUS
      <4>5. QED
        BY <3>2, <4>3, <4>4
    <3>4. user' = [layer |-> user.layer, todo |-> rest]
      BY <3>3 DEF Announce, Doing
    <3>5. QED
      BY <1>7, <3>2, <3>4 DEF Coming
  <2>3. i = 1 \/ i > 1
    OBVIOUS
  <2>4. QED
    BY <2>1, <2>2, <2>3
<1>8. QED
  BY <1>4, <1>5, <1>6, <1>7 DEF Accounted, Coming

(* Nothing but the task's own state, or nothing at all. *)
LEMMA QuietAccounted ==
  ASSUME Accounted, UNCHANGED <<layers, mixer, user, network, disturbed, mirror>>
  PROVE  Accounted'
<1> SUFFICES ASSUME ~disturbed', NEW l \in Layers, NEW f \in Fields, Demanded(l, f)'
             PROVE  (Coming(l, f) \/ Ready(l, f))'
  BY DEF Accounted
<1>1. ~disturbed /\ Demanded(l, f) /\ Want(l, f)' = Want(l, f)
  BY DEF Demanded, Loaded, Want
<1>2. Coming(l, f) => Coming(l, f)'
  BY DEF Coming
<1>3. Ready(l, f) => Ready(l, f)'
  BY <1>1, SameReady
<1>4. QED
  BY <1>1, <1>2, <1>3 DEF Accounted

LEMMA TaskSendsAccounted ==
  ASSUME Shape, Accounted, SendAllLayers \/ SendLayer
  PROVE  Accounted'
<1> SUFFICES ASSUME ~disturbed', NEW l \in Layers, NEW f \in Fields, Demanded(l, f)'
             PROVE  (Coming(l, f) \/ Ready(l, f))'
  BY DEF Accounted
<1>1. PICK packet \in Packets : Send(packet)
  BY HeldPacket DEF SendAllLayers, SendLayer, Packets
<1>2. UNCHANGED <<layers, mixer, user, mirror>>
  BY DEF SendAllLayers, SendLayer, bgOnly
<1>3. ~disturbed /\ Demanded(l, f)
  BY <1>1, <1>2 DEF Send, Demanded, Loaded
<1>4. Coming(l, f) => Coming(l, f)'
  BY <1>2 DEF Coming
<1>5. Ready(l, f) => Ready(l, f)'
  BY <1>1, <1>2, SendCurrentReady
<1>6. QED
  BY <1>3, <1>4, <1>5 DEF Accounted

LEMMA ArriveAccounted ==
  ASSUME Shape, Accounted, NEW i \in 1..Len(network), Deliver(i) \/ Lose(i)
  PROVE  Accounted'
<1> SUFFICES ASSUME ~disturbed', NEW l \in Layers, NEW f \in Fields, Demanded(l, f)'
             PROVE  (Coming(l, f) \/ Ready(l, f))'
  BY DEF Accounted
<1>1. i = 1 /\ Deliver(1) /\ ~disturbed
  BY DEF Deliver, Lose
<1>2. Demanded(l, f)
  BY <1>1 DEF Deliver, senderVars, Demanded, Loaded
<1>3. Coming(l, f) => Coming(l, f)'
  BY <1>1 DEF Deliver, senderVars, Coming
<1>4. Ready(l, f) => Ready(l, f)'
  BY <1>1, DeliverReady
<1>5. QED
  BY <1>1, <1>2, <1>3, <1>4 DEF Accounted

LEMMA StepAccounted == Shape /\ Accounted /\ [Next]_vars => Accounted'
<1> SUFFICES ASSUME Shape, Accounted, [Next]_vars PROVE Accounted'
  OBVIOUS
<1>1. CASE UNCHANGED vars
  BY <1>1, QuietAccounted DEF vars, senderVars
<1>2. CASE TimeTick \/ StatusTick \/ MetricsTick
  BY <1>2, QuietAccounted DEF TimeTick, StatusTick, MetricsTick, Tick, bgOnly
<1>3. CASE LoadLayer \/ CheckLayer \/ BuildPacket
  BY <1>3, QuietAccounted DEF LoadLayer, CheckLayer, BuildPacket, bgOnly
<1>4. QED
  BY <1>1, <1>2, <1>3, CallsAccounted, AnnounceAccounted, TaskSendsAccounted, ArriveAccounted
  DEF Next, BgSteps

LEMMA AccountedAnnounces == Accounted => AnnouncedAtOnce
<1> SUFFICES ASSUME Accounted, ~disturbed, Idle, network = <<>>
             PROVE  /\ mirror.mixer = mixer
                    /\ \A l \in Layers :
                         LET snap == mirror.layers[l] IN
                         /\ snap.track_id = layers[l].track_id
                         /\ snap.name = layers[l].track_id
                         /\ Loaded(l) => /\ snap.title = layers[l].track_id
                                         /\ snap.track_length_ms = layers[l].track_id
                                         /\ snap.position_ms = layers[l].playback
                                         /\ snap.state = layers[l].playback
  BY DEF AnnouncedAtOnce
<1>1. ASSUME NEW l \in Layers, NEW f \in Fields, Demanded(l, f)
      PROVE  Have(mirror, l, f) = Want(l, f)
  <2>1. ~Coming(l, f)
    BY DEF Coming, Idle
  <2>2. ~Underway(l, f)
    BY DEF Underway
  <2>3. QED
    BY <1>1, <2>1, <2>2 DEF Accounted, Ready, Settled
<1>2. mirror.mixer = mixer
  <2>1. Have(mirror, 1, "mixer") = Want(1, "mixer")
    BY <1>1, ConstantFacts DEF Demanded, Fields
  <2>2. QED
    BY <2>1 DEF Have, Want
<1>3. ASSUME NEW l \in Layers
      PROVE  /\ mirror.layers[l].track_id = layers[l].track_id
             /\ mirror.layers[l].name = layers[l].track_id
  <2>1. /\ Have(mirror, l, "track_id") = Want(l, "track_id")
        /\ Have(mirror, l, "name") = Want(l, "name")
    BY <1>1 DEF Demanded, Fields
  <2>2. QED
    BY <2>1 DEF Have, Want, Field
<1>4. ASSUME NEW l \in Layers, Loaded(l)
      PROVE  /\ mirror.layers[l].title = layers[l].track_id
             /\ mirror.layers[l].track_length_ms = layers[l].track_id
             /\ mirror.layers[l].position_ms = layers[l].playback
             /\ mirror.layers[l].state = layers[l].playback
  <2>1. /\ Have(mirror, l, "title") = Want(l, "title")
        /\ Have(mirror, l, "length") = Want(l, "length")
        /\ Have(mirror, l, "position") = Want(l, "position")
        /\ Have(mirror, l, "state") = Want(l, "state")
    BY <1>1, <1>4 DEF Demanded, Fields
  <2>2. QED
    BY <2>1 DEF Have, Want, Field
<1>5. QED
  BY <1>2, <1>3, <1>4

(* A call's packets bring the peer all the call announces, however the     *)
(* background task's packets are built and sent in between, as long as     *)
(* none was out of date, lost or overtaken.                                *)
THEOREM AnnouncedCorrect == Spec => []AnnouncedAtOnce
<1>1. Init => Shape /\ Accounted
  BY InitShape, InitAccounted
<1>2. (Shape /\ Accounted) /\ [Next]_vars => (Shape /\ Accounted)'
  BY StepShape, StepAccounted
<1>3. Shape /\ Accounted => AnnouncedAtOnce
  BY AccountedAnnounces
<1>4. QED
  BY <1>1, <1>2, <1>3, PTL DEF Spec
=============================================================================
