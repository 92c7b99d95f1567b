-------------------------------- MODULE Wire --------------------------------
(***************************************************************************)
(* From one node to another: what the sender means, the datagrams it       *)
(* serialises (src/src/protocol.rs, Packet in src/src/node/tcnet_packet.rs,*)
(* the builders of src/src/active_node.rs), and what a receiver makes of   *)
(* them (deserialize_packet, apply_packet and its helpers).                *)
(*                                                                         *)
(* deku writes and reads the fields of a struct in order, so a struct is   *)
(* its size and the fields a reader can stumble over: enums, counts, text. *)
(* The dispatch tables, the conversions and the arithmetic of chunks are   *)
(* written by hand on each side, and agree only if someone made them.      *)
(***************************************************************************)
EXTENDS Integers, Sequences, SequencesExt

CONSTANTS
  NameCap,      \* 16: bytes of a name in Status and Mixer
  TextCap,      \* 128: UTF-16 units of artist and title in Meta
  Names,        \* names to send, of characters of NameChars
  Titles,       \* titles to send, of characters of TitleChars
  Lengths       \* payload lengths to send

(* A character is its width, in bytes or in UTF-16 units, and whether it is *)
(* ink, white space, or U+0000.  White space takes up to 3 bytes.           *)
Char(width, kind) == [width |-> width, kind |-> kind]

NameChars ==
  {Char(w, "ink") : w \in 1..4} \cup {Char(w, "blank") : w \in 1..3} \cup {Char(1, "nul")}

TitleChars == {Char(w, "ink") : w \in 1..2} \cup {Char(1, "blank"), Char(1, "nul")}

ASSUME ConstantsAssumption ==
  /\ NameCap \in Nat /\ TextCap \in Nat
  /\ Names \subseteq Seq(NameChars) /\ Titles \subseteq Seq(TitleChars)
  /\ Lengths \subseteq Nat

VARIABLES meant, datagrams, understood
vars == <<meant, datagrams, understood>>

Nothing == [struct |-> "none"]

------------------------------------------------------------------------------
(* Enums as bytes *)

NodeTypes == {1, 2, 4, 8}
RequestDataTypes == {2, 4, 8, 12, 16, 32, 128, 150}
LayerIds == {"L1", "L2", "L3", "L4", "LA", "LB", "LM", "LC"}
ALL == <<"L1", "L2", "L3", "L4", "LA", "LB", "LM", "LC">>
SmpteModes == {"Fps24", "Fps25", "Fps2997", "Fps30"}

AsPacketId(layer) ==
  CASE layer = "L1" -> 1 [] layer = "L2" -> 2 [] layer = "L3" -> 3 [] layer = "L4" -> 4
    [] layer = "LA" -> 5 [] layer = "LB" -> 6 [] layer = "LM" -> 7 [] layer = "LC" -> 8

Index(layer) == AsPacketId(layer) - 1

(* Mutant: the letters are taken in the order A, B, C, M. *)
FromPacketId_Alphabetical(id) == <<"L1", "L2", "L3", "L4", "LA", "LB", "LC", "LM">>[id]

FromPacketId(id) ==
  IF id \in 1..8 THEN <<"L1", "L2", "L3", "L4", "LA", "LB", "LM", "LC">>[id] ELSE "none"

SmpteToU8(mode) ==
  CASE mode = "Fps24" -> 24 [] mode = "Fps25" -> 25 [] mode = "Fps2997" -> 29 [] mode = "Fps30" -> 30

SmpteFromU8(v) ==
  CASE v = 24 -> "Fps24" [] v = 25 -> "Fps25" [] v = 29 -> "Fps2997" [] v = 30 -> "Fps30"
    [] OTHER -> "Fps25"

------------------------------------------------------------------------------
(* Structs: sizes in bytes, and the two tables that name them.             *)

Header == 2 + 1 + 1 + 3 + 1 + 8 + 1 + 1 + 2 + 4

OptInSize == 2 + 2 + 2 + 2 + 16 + 16 + 3 + 1
OptOutSize == 2 + 2
StatusSize == 2 + 2 + 6 + 8 * (1 + 1 + 4) + 1 + 1 + 1 + 15 + 72 + 8 * 16
TimeSyncSize == 1 + 1 + 2 + 4
ErrorNotificationSize == 1 + 1 + 2 + 2
RequestSize == 1 + 1
TextSize == 1 + 1 + 4 + 12                \* Control, Text
KeyboardSize == 1 + 1 + 4 + 12 + 2
AppSpecificSize == 1 + 1 + 4 + 4 + 4 + 4
MetricsSize == 8 + 4 + 4 + 4 + 13 + 4 + 51 + 4 + 2 + 4
MetaSize == 1 + 1 + 1 + 2 + 2 * (2 * 128) + 2 + 4
CueEntrySize == 1 + 1 + 4 + 4 + 1 + 3 + 8
CueSize == 1 + 1 + 16 + 4 + 4 + 18 * CueEntrySize + 10
SmallWaveformSize == 1 + 1 + 4 + 4 + 4 + 4 + 2400
ChunkSize == 1 + 1 + 4 + 4 + 4 + 4        \* BeatGrid, BigWaveform, ArtworkFile
MixerChannelSize == 14 + 10
MixerSize ==
  3 + 2 + 16 + 12 + 2 + 4 + 4 + 3 + 1 + 2 + 1 + 4 + 1 + 3 + 2 + 8 + 4 + 1 + 3 + 7
    + 5 + 3 + 10 + 6 * MixerChannelSize
LayerTimecodeSize == 6
TimeSize == 8 * (4 + 4 + 1 + 1) + 1 + 1 + 8 * LayerTimecodeSize + 8

Size(struct) ==
  CASE struct = "OptIn" -> OptInSize [] struct = "OptOut" -> OptOutSize
    [] struct = "Status" -> StatusSize [] struct = "TimeSync" -> TimeSyncSize
    [] struct = "ErrorNotification" -> ErrorNotificationSize
    [] struct = "Request" -> RequestSize [] struct \in {"Control", "Text"} -> TextSize
    [] struct = "Keyboard" -> KeyboardSize [] struct = "AppSpecific" -> AppSpecificSize
    [] struct = "Metrics" -> MetricsSize [] struct = "Meta" -> MetaSize
    [] struct = "Cue" -> CueSize [] struct = "SmallWaveform" -> SmallWaveformSize
    [] struct \in {"BeatGrid", "BigWaveform", "ArtworkFile"} -> ChunkSize
    [] struct = "Mixer" -> MixerSize [] struct = "Time" -> TimeSize

(* message_type_id: what the sender writes into the header. *)
MessageTypeId(struct) ==
  CASE struct = "OptIn" -> 2 [] struct = "OptOut" -> 3 [] struct = "Status" -> 5
    [] struct = "TimeSync" -> 10 [] struct = "ErrorNotification" -> 13
    [] struct = "Request" -> 20 [] struct = "AppSpecific" -> 30 [] struct = "Control" -> 101
    [] struct = "Text" -> 128 [] struct = "Keyboard" -> 132 [] struct = "Time" -> 254
    [] OTHER -> 200

(* data_type, as the constructors of the structs of type 200 set it. *)
DataType(struct) ==
  CASE struct = "Metrics" -> 2 [] struct = "Meta" -> 4 [] struct = "BeatGrid" -> 8
    [] struct = "Cue" -> 12 [] struct = "SmallWaveform" -> 16 [] struct = "BigWaveform" -> 32
    [] struct = "ArtworkFile" -> 128 [] struct = "Mixer" -> 150
    [] OTHER -> 0

(* deserialize_packet: which struct a receiver reads. *)
StructOf(message_type, data_type) ==
  CASE message_type = 2 -> "OptIn" [] message_type = 3 -> "OptOut"
    [] message_type = 5 -> "Status" [] message_type = 10 -> "TimeSync"
    [] message_type = 13 -> "ErrorNotification" [] message_type = 20 -> "Request"
    [] message_type \in {30, 213} -> "AppSpecific" [] message_type = 101 -> "Control"
    [] message_type = 128 -> "Text" [] message_type = 132 -> "Keyboard"
    [] message_type = 254 -> "Time"
    [] message_type = 200 ->
         CASE data_type = 2 -> "Metrics" [] data_type = 4 -> "Meta"
           [] data_type = 8 -> "BeatGrid" [] data_type = 12 -> "Cue"
           [] data_type = 16 -> "SmallWaveform" [] data_type = 32 -> "BigWaveform"
           [] data_type = 128 -> "ArtworkFile" [] data_type = 150 -> "Mixer"
           [] OTHER -> "none"
    [] OTHER -> "none"

------------------------------------------------------------------------------
(* Datagrams.  `body` holds the fields the receiver makes use of.          *)

ReceiveBuffer == 8192

Datagram(struct, node_type, count, body) ==
  [message_type |-> MessageTypeId(struct), data_type |-> DataType(struct),
   node_type |-> node_type, size |-> Header + Size(struct) + count, count |-> count,
   body |-> body]

(* An unknown node type makes the whole packet unreadable, and so does a    *)
(* struct, or a counted payload, that the datagram cuts short.  Anything    *)
(* after the struct is ignored, and so is the magic "TCN".                  *)
Readable(datagram) ==
  LET struct == StructOf(datagram.message_type, datagram.data_type) IN
  /\ datagram.size <= ReceiveBuffer
  /\ datagram.node_type \in NodeTypes
  /\ struct # "none"
  /\ datagram.size >= Header + Size(struct) + datagram.count

------------------------------------------------------------------------------
(* Payloads of many bytes, cut into datagrams                              *)

(* Mutant: a chunk fills the receive buffer, and forgets what precedes it. *)
ClusterSize_FullBuffer(struct) == IF struct = "BeatGrid" THEN 2400 ELSE ReceiveBuffer

ClusterSize(struct) == IF struct = "BeatGrid" THEN 2400 ELSE 4400

CeilDiv(a, b) == (a + b - 1) \div b
AtMost(a, b) == IF a <= b THEN a ELSE b

(* Mutant: the last, partial chunk is not counted. *)
TotalPackets_Floor(struct, length) ==
  IF length < ClusterSize(struct) THEN 1 ELSE length \div ClusterSize(struct)

TotalPackets(struct, length) ==
  IF length = 0 THEN 1 ELSE CeilDiv(length, ClusterSize(struct))

(* set_response_waveforms, set_response_beat_grid: an empty waveform is no *)
(* datagram at all, an empty grid is one.                                  *)
Split(struct, layer, length) ==
  LET size == ClusterSize(struct)
      Chunk(no) == [layer |-> AsPacketId(layer), total |-> TotalPackets(struct, length),
                    no |-> no, from |-> no * size, to |-> AtMost((no + 1) * size, length)] IN
  IF length = 0 /\ struct = "BigWaveform" THEN <<>>
  ELSE [i \in 1..(IF length = 0 THEN 1 ELSE CeilDiv(length, size)) |->
          Datagram(struct, 2, Chunk(i - 1).to - Chunk(i - 1).from, Chunk(i - 1))]

(* dj_controller_task: the accumulator has room for as many chunks as the  *)
(* first announces; what lies past it is dropped.  The answer is the       *)
(* chunks in the order of their numbers: here, the bytes they span, or -1  *)
(* if these are not those from 0 on, or a chunk is missing for good.       *)
Join(packets) ==
  LET room == packets[1].body.total
      With(no) == {i \in 1..Len(packets) : packets[i].body.no = no}
      Stored(no) == packets[CHOOSE i \in With(no) : TRUE].body IN
  [layer |-> FromPacketId(packets[1].body.layer),
   length |-> IF \A no \in 0..(room - 1) :
                   With(no) # {} /\ Stored(no).from = IF no = 0 THEN 0 ELSE Stored(no - 1).to
                THEN Stored(room - 1).to ELSE -1]

------------------------------------------------------------------------------
(* Text *)

(* The width of each beginning of a text. *)
Widths(chars) ==
  LET width[k \in 0..Len(chars)] == IF k = 0 THEN 0 ELSE width[k - 1] + chars[k].width IN width

Width(chars) == Widths(chars)[Len(chars)]

(* The first n characters fit in `cap` bytes or units, and no more do. *)
Fit(chars, cap, n) ==
  /\ Widths(chars)[n] <= cap
  /\ n = Len(chars) \/ Widths(chars)[n + 1] > cap

Whole(chars, cap) == SubSeq(chars, 1, CHOOSE n \in 0..Len(chars) : Fit(chars, cap, n))

(* Mutant: a byte is kept for a terminator. *)
NameBytes_Terminated(chars) ==
  [chars |-> Whole(chars, NameCap - 1),
   cut |-> Width(Whole(chars, NameCap - 1)) < AtMost(Width(chars), NameCap - 1)]

(* The first NameCap bytes, in the middle of a character or not. *)
NameBytes(chars) ==
  [chars |-> Whole(chars, NameCap),
   cut |-> Width(Whole(chars, NameCap)) < AtMost(Width(chars), NameCap)]

(* How many characters at the beginning are of these kinds. *)
Leading(chars, kinds) ==
  CHOOSE n \in 0..Len(chars) :
    /\ \A i \in 1..n : chars[i].kind \in kinds
    /\ n = Len(chars) \/ chars[n + 1].kind \notin kinds

DropFirst(chars, kinds) == SubSeq(chars, Leading(chars, kinds) + 1, Len(chars))

DropLast(chars, kinds) == SubSeq(chars, 1, Len(chars) - Leading(Reverse(chars), kinds))

(* from_utf8(..).unwrap_or(""): a character that was cut spoils the name.  *)
(* NULs at the end are dropped, and then white space at both ends.         *)
AsciiBytesToString(text) ==
  IF text.cut THEN <<>>
  ELSE DropFirst(DropLast(DropLast(text.chars, {"nul"}), {"blank"}), {"blank"})

EncodeUtf16(chars) ==
  [chars |-> Whole(chars, TextCap),
   cut |-> Width(Whole(chars, TextCap)) < AtMost(Width(chars), TextCap)]

Replacement == Char(1, "replacement")

(* The title ends at its first NUL.  from_utf16_lossy: half a surrogate pair *)
(* becomes U+FFFD.                                                           *)
Utf16ToString(text) ==
  LET n == Leading(text.chars, {"ink", "blank"}) IN
  IF text.cut /\ n = Len(text.chars) THEN Append(text.chars, Replacement)
  ELSE SubSeq(text.chars, 1, n)

------------------------------------------------------------------------------
(* A node sends what it means; another receives.                           *)

Init == meant = Nothing /\ datagrams = <<>> /\ understood = Nothing

Send(message, packets) ==
  /\ meant = Nothing
  /\ meant' = message
  /\ datagrams' = packets
  /\ UNCHANGED understood

LayerlessStructs == {"OptIn", "OptOut", "Mixer"}
LayerStructs == {"Metrics", "Cue", "SmallWaveform"}
PayloadStructs == {"BeatGrid", "BigWaveform", "ArtworkFile"}

(* The packets about the whole node, from a node of any type. *)
SendLayerless(struct, node_type) ==
  Send([struct |-> struct], <<Datagram(struct, node_type, 0, <<>>)>>)

(* The packets about a layer that have no text and no payload. *)
SendPlain(struct, node_type, layer, data_type) ==
  Send([struct |-> struct, layer |-> layer, data_type |-> data_type],
       <<Datagram(struct, node_type, 0, [layer |-> AsPacketId(layer), data_type |-> data_type])>>)

(* Every layer has a row of its own, filled by index from LayerId::ALL. *)
SendTime(modes) ==
  Send([struct |-> "Time", modes |-> modes],
       <<Datagram("Time", 2, 0,
           [mode |-> SmpteToU8(modes[ALL[1]]),
            rows |-> [i \in 0..7 |-> SmpteToU8(modes[ALL[i + 1]])]])>>)

SendStatus(name) ==
  Send([struct |-> "Status", name |-> name],
       <<Datagram("Status", 2, 0, [name |-> NameBytes(name)])>>)

SendMeta(title) ==
  Send([struct |-> "Meta", title |-> title],
       <<Datagram("Meta", 2, 0, [title |-> EncodeUtf16(title)])>>)

(* The answers of many bytes.  The only artwork there is to send is the     *)
(* empty one that load_track stores, cut as an empty grid is.               *)
SendPayload(struct, layer, length) ==
  Send([struct |-> struct, layer |-> layer, length |-> length], Split(struct, layer, length))

Receive ==
  /\ datagrams # <<>>
  /\ understood = Nothing
  /\ LET first == datagrams[1]
         struct == StructOf(first.message_type, first.data_type) IN
     understood' =
       IF \E i \in 1..Len(datagrams) : ~Readable(datagrams[i]) THEN [struct |-> "rejected"]
       ELSE CASE struct = "Time" ->
                   [struct |-> struct,
                    modes |-> [l \in LayerIds |->
                      SmpteFromU8(IF first.body.rows[Index(l)] = 0 THEN first.body.mode
                                  ELSE first.body.rows[Index(l)])]]
              [] struct = "Status" ->
                   [struct |-> struct, name |-> AsciiBytesToString(first.body.name)]
              [] struct = "Meta" -> [struct |-> struct, title |-> Utf16ToString(first.body.title)]
              [] struct \in LayerlessStructs -> [struct |-> struct]
              [] struct \in PayloadStructs ->
                   [struct |-> struct, layer |-> Join(datagrams).layer,
                    length |-> Join(datagrams).length]
              [] OTHER ->
                   [struct |-> struct, layer |-> FromPacketId(first.body.layer),
                    data_type |-> first.body.data_type]
  /\ UNCHANGED <<meant, datagrams>>

Next ==
  \/ \E node_type \in NodeTypes, layer \in LayerIds :
       \/ \E struct \in LayerlessStructs : SendLayerless(struct, node_type)
       \/ \E struct \in LayerStructs : SendPlain(struct, node_type, layer, 0)
       \/ \E data_type \in RequestDataTypes :
            \E struct \in {"Request", "ErrorNotification"} :
              SendPlain(struct, node_type, layer, data_type)
  \/ \E mode \in SmpteModes, other \in SmpteModes, layer \in LayerIds :
       SendTime([l \in LayerIds |-> IF l = layer THEN mode ELSE other])
  \/ \E name \in Names : SendStatus(name)
  \/ \E title \in Titles : SendMeta(title)
  \/ \E struct \in {"BeatGrid", "BigWaveform"}, layer \in LayerIds, length \in Lengths :
       SendPayload(struct, layer, length)
  \/ \E layer \in LayerIds : SendPayload("ArtworkFile", layer, 0)
  \/ Receive

Spec == Init /\ [][Next]_vars

------------------------------------------------------------------------------
(* Properties *)

Received == understood # Nothing

(* Every struct that this code sends (the constructors of active_node.rs,   *)
(* lib.rs and dispatcher.rs: Control, Text, Keyboard, AppSpecific and       *)
(* TimeSync are only ever received) fits a receiver's buffer, and is read   *)
(* as the struct it was written as, from a node of any type.                *)
SentIsReadable == Received => understood.struct = meant.struct

(* A struct about a layer is read as being about that layer, a request as   *)
(* asking for that kind of data, and each layer has its own timecode mode.  *)
LayersKeptApart ==
  Received =>
    CASE meant.struct = "Time" -> understood.modes = meant.modes
      [] meant.struct \in {"Request", "ErrorNotification"} ->
           understood.layer = meant.layer /\ understood.data_type = meant.data_type
      [] meant.struct \in LayerStructs \cup PayloadStructs -> understood.layer = meant.layer
      [] OTHER -> TRUE

(* A payload of any length comes back whole: every byte once and in order,  *)
(* at lengths below, at and above multiples of the cluster size.            *)
PayloadsJoin ==
  Received /\ meant.struct \in PayloadStructs => understood.length = meant.length

(* A name is read as the part of it that fits, less the white space around *)
(* that part and NULs at its end; or as empty, if it overruns the field in *)
(* the middle of a character.                                              *)
NameSurvives(sent, read) ==
  \E n \in 0..Len(sent) :
    /\ Fit(sent, NameCap, n)
    /\ IF n = Len(sent) \/ Widths(sent)[n] = NameCap
       THEN \E i \in 1..(n + 1), j \in 0..n :
              /\ read = SubSeq(sent, i, j)
              /\ \A k \in 1..(i - 1) : sent[k].kind = "blank"
              /\ \A k \in (j + 1)..n : sent[k].kind \in {"blank", "nul"}
       ELSE read = <<>>

(* A title is read up to its end, up to its first NUL, or up to the end of  *)
(* the field, where half a character shows as one replacement character; in *)
(* no more units than the field has.                                        *)
TitleSurvives(sent, read) ==
  /\ Len(read) <= TextCap
  /\ \E n \in 0..Len(sent) :
       /\ \A k \in 1..n : sent[k].kind # "nul"
       /\ \/ read = SubSeq(sent, 1, n) /\ (n = Len(sent) \/ sent[n + 1].kind = "nul")
          \/ /\ read \in {SubSeq(sent, 1, n), Append(SubSeq(sent, 1, n), Replacement)}
             /\ n < Len(sent) /\ Widths(sent)[n + 1] > TextCap

(* Names and titles survive fields that are too short for them and what the *)
(* receiver trims: a tidy text that fits comes back as it was.              *)
TextSurvives ==
  /\ Received /\ meant.struct = "Status" => NameSurvives(meant.name, understood.name)
  /\ Received /\ meant.struct = "Meta" => TitleSurvives(meant.title, understood.title)
=============================================================================
