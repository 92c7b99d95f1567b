----------------------------- MODULE Wire_proofs -----------------------------
(***************************************************************************)
(* Proofs about Wire, for payloads of any length and any names and titles. *)
(* The width of a text is a recursion over it: that it is what it adds up  *)
(* to is proved by induction, taking the least number a property fails at. *)
(***************************************************************************)
EXTENDS Wire, WellFoundedInduction, TLAPS

-------------------------------------------------------------------------------
(* Each side's tables *)

AboutStructs == LayerStructs \cup {"Request", "ErrorNotification"}
Structs == AboutStructs \cup LayerlessStructs \cup PayloadStructs \cup {"Time", "Status", "Meta"}

LEMMA StructNames ==
  /\ Structs = {"OptIn", "OptOut", "Mixer", "Metrics", "Cue", "SmallWaveform", "Request",
                "ErrorNotification", "BeatGrid", "BigWaveform", "ArtworkFile", "Time", "Status",
                "Meta"}
  /\ AboutStructs = {"Metrics", "Cue", "SmallWaveform", "Request", "ErrorNotification"}
  BY DEF Structs, AboutStructs, LayerlessStructs, LayerStructs, PayloadStructs

(* The receiver reads the struct the sender wrote. *)
LEMMA TablesAgree ==
  \A struct \in Structs : StructOf(MessageTypeId(struct), DataType(struct)) = struct
<1>1. \A struct \in {"Metrics", "Meta", "BeatGrid", "Cue", "SmallWaveform", "BigWaveform",
                        "ArtworkFile", "Mixer"} :
        StructOf(200, DataType(struct)) = struct /\ MessageTypeId(struct) = 200
  BY DEF StructOf, DataType, MessageTypeId
<1>2. \A struct \in {"OptIn", "OptOut", "Request", "ErrorNotification", "Time", "Status"} :
        StructOf(MessageTypeId(struct), 0) = struct /\ DataType(struct) = 0
  BY DEF StructOf, DataType, MessageTypeId
<1>3. QED
  BY <1>1, <1>2, StructNames

LEMMA Sizes ==
  \A struct \in Structs : Header + Size(struct) \in Nat /\ Header + Size(struct) <= 3000
<1>1. Header = 24
  BY DEF Header
<1>2. /\ Size("OptIn") = 44 /\ Size("OptOut") = 4 /\ Size("Request") = 2
      /\ Size("ErrorNotification") = 6
  BY DEF Size, OptInSize, OptOutSize, RequestSize, ErrorNotificationSize
<1>3. Size("Status") = 276 /\ Size("Metrics") = 98 /\ Size("Meta") = 523
  BY DEF Size, StatusSize, MetricsSize, MetaSize
<1>4. Size("Cue") = 432 /\ Size("Mixer") = 245 /\ Size("Time") = 138
  BY DEF Size, CueSize, CueEntrySize, MixerSize, MixerChannelSize, TimeSize, LayerTimecodeSize
<1>5. Size("SmallWaveform") = 2418 /\ Size("BeatGrid") = 18 /\ Size("BigWaveform") = 18
      /\ Size("ArtworkFile") = 18
  BY DEF Size, SmallWaveformSize, ChunkSize
<1>6. QED
  BY <1>1, <1>2, <1>3, <1>4, <1>5, StructNames

(* The bytes of a payload in one datagram. *)
Counts == 0..4400

(* A struct with a payload of a cluster or less is read as it was written. *)
LEMMA DatagramReadable ==
  ASSUME NEW struct \in Structs, NEW node_type \in NodeTypes, NEW count \in Counts, NEW body,
         NEW datagram, datagram = Datagram(struct, node_type, count, body)
  PROVE  /\ Readable(datagram)
         /\ StructOf(datagram.message_type, datagram.data_type) = struct
<1>1. /\ datagram.message_type = MessageTypeId(struct) /\ datagram.data_type = DataType(struct)
      /\ datagram.node_type = node_type /\ datagram.count = count
      /\ datagram.size = Header + Size(struct) + count /\ datagram.body = body
  BY DEF Datagram
<1>2. StructOf(datagram.message_type, datagram.data_type) = struct
  BY <1>1, TablesAgree
<1>3. struct # "none"
  BY StructNames
<1>4. datagram.size <= ReceiveBuffer /\ datagram.size >= Header + Size(struct) + datagram.count
  <2>1. Header + Size(struct) \in Nat /\ Header + Size(struct) <= 3000
    BY Sizes
  <2>2. PICK fixed \in Nat : fixed = Header + Size(struct) /\ fixed <= 3000
    BY <2>1
  <2>3. fixed <= 3000 /\ count \in Nat /\ count <= 4400
    BY <2>2 DEF Counts
  <2>4. fixed + count \in Nat /\ fixed + count <= 8192
    BY <2>3
  <2>5. datagram.size = fixed + count /\ Header + Size(struct) + datagram.count = fixed + count
    BY <1>1, <2>2
  <2>6. QED
    BY <2>4, <2>5 DEF ReceiveBuffer
<1>5. QED
  BY <1>1, <1>2, <1>3, <1>4 DEF Readable

LEMMA LayersNumbered ==
  \A layer \in LayerIds :
    /\ AsPacketId(layer) \in 1..8
    /\ FromPacketId(AsPacketId(layer)) = layer
BY DEF LayerIds, AsPacketId, FromPacketId

-------------------------------------------------------------------------------
(* Payloads *)

(* So many chunks that the last is not empty and holds the rest. *)
LEMMA ChunksCover ==
  ASSUME NEW struct \in PayloadStructs, NEW length \in Nat \ {0}
  PROVE  LET size == ClusterSize(struct)
             n == CeilDiv(length, size) IN
         /\ size \in {2400, 4400}
         /\ n \in Nat \ {0}
         /\ (n - 1) * size < length
         /\ length <= n * size
<1>1. CASE struct = "BeatGrid"
  <2>1. ClusterSize(struct) = 2400
    BY <1>1 DEF ClusterSize
  <2>2. CeilDiv(length, 2400) = (length + 2399) \div 2400
    BY DEF CeilDiv
  <2> PICK n \in Int : n = (length + 2399) \div 2400
    OBVIOUS
  <2>3. n >= 1 /\ (n - 1) * 2400 < length /\ length <= n * 2400
    OBVIOUS
  <2>4. QED
    BY <2>1, <2>2, <2>3
<1>2. CASE struct # "BeatGrid"
  <2>1. ClusterSize(struct) = 4400
    BY <1>2 DEF ClusterSize
  <2>2. CeilDiv(length, 4400) = (length + 4399) \div 4400
    BY DEF CeilDiv
  <2> PICK n \in Int : n = (length + 4399) \div 4400
    OBVIOUS
  <2>3. n >= 1 /\ (n - 1) * 4400 < length /\ length <= n * 4400
    OBVIOUS
  <2>4. QED
    BY <2>1, <2>2, <2>3
<1>3. QED
  BY <1>1, <1>2

(* The i-th chunk of a payload. *)
Piece(struct, layer, length, i) ==
  [layer |-> AsPacketId(layer), total |-> CeilDiv(length, ClusterSize(struct)), no |-> i - 1,
   from |-> (i - 1) * ClusterSize(struct), to |-> AtMost(i * ClusterSize(struct), length)]

(* Its bytes are no more than a cluster. *)
PieceLength(struct, length, i) ==
  AtMost(i * ClusterSize(struct), length) - (i - 1) * ClusterSize(struct)

LEMMA PieceFits ==
  ASSUME NEW struct \in PayloadStructs, NEW length \in Nat \ {0},
         NEW i \in 1..CeilDiv(length, ClusterSize(struct))
  PROVE  PieceLength(struct, length, i) \in Counts
<1> DEFINE size == ClusterSize(struct)
           n == CeilDiv(length, size)
<1>1. /\ size \in {2400, 4400} /\ n \in Nat \ {0} /\ (n - 1) * size < length /\ length <= n * size
  BY ChunksCover
<1>2. i \in 1..n
  OBVIOUS
<1> HIDE DEF size, n
<1>3. AtMost(i * size, length) - (i - 1) * size \in 0..4400
  <2>1. CASE size = 2400
    BY <1>1, <1>2, <2>1 DEF AtMost
  <2>2. CASE size = 4400
    BY <1>1, <1>2, <2>2 DEF AtMost
  <2>3. QED
    BY <1>1, <2>1, <2>2
<1>4. QED
  BY <1>3 DEF PieceLength, size, Counts

(* The datagrams of a payload: chunk after chunk. *)
LEMMA SplitChunks ==
  ASSUME NEW struct \in PayloadStructs, NEW layer \in LayerIds, NEW length \in Nat \ {0}
  PROVE  /\ Len(Split(struct, layer, length)) = CeilDiv(length, ClusterSize(struct))
         /\ \A i \in 1..CeilDiv(length, ClusterSize(struct)) :
              Split(struct, layer, length)[i] =
                Datagram(struct, 2, PieceLength(struct, length, i), Piece(struct, layer, length, i))
<1> DEFINE size == ClusterSize(struct)
           n == CeilDiv(length, size)
           packets == Split(struct, layer, length)
           Chunk(no) == [layer |-> AsPacketId(layer), total |-> TotalPackets(struct, length),
                         no |-> no, from |-> no * size, to |-> AtMost((no + 1) * size, length)]
<1>1. n \in Nat \ {0}
  BY ChunksCover
<1>2. packets = [i \in 1..n |-> Datagram(struct, 2, Chunk(i - 1).to - Chunk(i - 1).from, Chunk(i - 1))]
  BY DEF Split
<1>3. TotalPackets(struct, length) = n
  BY DEF TotalPackets
<1>4. Len(packets) = n
  <2> HIDE DEF n, packets, Chunk
  <2>1. QED
    BY <1>1, <1>2
<1>5. ASSUME NEW i \in 1..n
      PROVE  packets[i] =
               Datagram(struct, 2, PieceLength(struct, length, i), Piece(struct, layer, length, i))
  <2>1. (i - 1) + 1 = i
    BY <1>1
  <2>2. Chunk(i - 1) = Piece(struct, layer, length, i)
    BY <1>3, <2>1 DEF Piece
  <2>3. Chunk(i - 1).to - Chunk(i - 1).from = PieceLength(struct, length, i)
    BY <2>1 DEF PieceLength
  <2> HIDE DEF Chunk, packets, n
  <2>4. packets[i] = Datagram(struct, 2, Chunk(i - 1).to - Chunk(i - 1).from, Chunk(i - 1))
    BY <1>2
  <2>5. QED
    BY <2>2, <2>3, <2>4
<1>6. QED
  BY <1>4, <1>5

(* What is joined is what was split. *)
LEMMA JoinSplit ==
  ASSUME NEW struct \in PayloadStructs, NEW layer \in LayerIds, NEW length \in Nat \ {0}
  PROVE  Join(Split(struct, layer, length)) = [layer |-> layer, length |-> length]
<1> DEFINE size == ClusterSize(struct)
           n == CeilDiv(length, size)
           packets == Split(struct, layer, length)
           With(no) == {i \in 1..Len(packets) : packets[i].body.no = no}
           Stored(no) == packets[CHOOSE i \in With(no) : TRUE].body
<1>1. /\ size \in {2400, 4400} /\ n \in Nat \ {0} /\ (n - 1) * size < length /\ length <= n * size
  BY ChunksCover
<1>2. Len(packets) = n
  BY SplitChunks
<1>3. ASSUME NEW i \in 1..n
      PROVE  /\ packets[i].body.layer = AsPacketId(layer)
             /\ packets[i].body.total = n
             /\ packets[i].body.no = i - 1
             /\ packets[i].body.from = (i - 1) * size
             /\ packets[i].body.to = AtMost(i * size, length)
  <2>1. packets[i] =
          Datagram(struct, 2, PieceLength(struct, length, i), Piece(struct, layer, length, i))
    BY SplitChunks
  <2> HIDE DEF packets
  <2>2. packets[i].body = Piece(struct, layer, length, i)
    BY <2>1 DEF Datagram
  <2>3. QED
    BY <2>2 DEF Piece
<1> HIDE DEF size, n, packets
<1>4. ASSUME NEW no \in 0..(n - 1)
      PROVE  /\ With(no) = {no + 1}
             /\ Stored(no).from = no * size
             /\ Stored(no).to = AtMost((no + 1) * size, length)
  <2> PICK k \in 1..n : k = no + 1 /\ no = k - 1
    BY <1>1
  <2>1. \A i \in 1..n : packets[i].body.no = no <=> i = k
    BY <1>3
  <2>2. With(no) = {k}
    BY <1>2, <2>1
  <2>3. Stored(no) = packets[k].body
    BY <2>2
  <2>4. QED
    BY <1>3, <2>2, <2>3
<1>5. ASSUME NEW no \in 0..(n - 1)
      PROVE  /\ With(no) # {}
             /\ Stored(no).from = IF no = 0 THEN 0 ELSE Stored(no - 1).to
  <2>1. With(no) # {} /\ Stored(no).from = no * size
    BY <1>4
  <2>2. CASE no = 0
    BY <1>1, <2>1, <2>2
  <2>3. CASE no # 0
    <3> PICK before \in 0..(n - 1) : before = no - 1 /\ before + 1 = no
      BY <1>1, <2>3
    <3>1. Stored(before).to = AtMost(no * size, length)
      BY <1>4
    <3>2. no * size <= length
      <4>1. CASE size = 2400
        BY <1>1, <4>1
      <4>2. CASE size = 4400
        BY <1>1, <4>2
      <4>3. QED
        BY <1>1, <4>1, <4>2
    <3>3. QED
      BY <2>1, <2>3, <3>1, <3>2 DEF AtMost
  <2>4. QED
    BY <2>2, <2>3
<1>6. Stored(n - 1).to = length
  <2>1. n - 1 \in 0..(n - 1) /\ (n - 1) + 1 = n
    BY <1>1
  <2>2. Stored(n - 1).to = AtMost(n * size, length)
    BY <1>4, <2>1
  <2>3. AtMost(n * size, length) = length
    <3>1. CASE size = 2400
      BY <1>1, <3>1 DEF AtMost
    <3>2. CASE size = 4400
      BY <1>1, <3>2 DEF AtMost
    <3>3. QED
      BY <1>1, <3>1, <3>2
  <2>4. QED
    BY <2>2, <2>3
<1>7. packets[1].body.total = n /\ FromPacketId(packets[1].body.layer) = layer
  <2>1. 1 \in 1..n
    BY <1>1
  <2>2. QED
    BY <1>3, <2>1, LayersNumbered
<1>8. Join(packets) = [layer |-> FromPacketId(packets[1].body.layer),
                       length |-> IF \A no \in 0..(packets[1].body.total - 1) :
                                       /\ With(no) # {}
                                       /\ Stored(no).from = IF no = 0 THEN 0 ELSE Stored(no - 1).to
                                  THEN Stored(packets[1].body.total - 1).to ELSE -1]
  BY DEF Join
<1> HIDE DEF With, Stored
<1>9. QED
  BY <1>5, <1>6, <1>7, <1>8 DEF packets

-------------------------------------------------------------------------------
(* Text *)

(* Induction, from the least element of a set of numbers. *)
LEMMA Less == IsWellFoundedOn({ss \in Nat \X Nat : ss[1] < ss[2]}, Nat)
BY NatLessThanWellFounded DEF OpToRel

LEMMA Least ==
  ASSUME NEW T \in SUBSET Nat, T # {}
  PROVE  \E n \in T : \A m \in T : n <= m
<1> DEFINE R == {ss \in Nat \X Nat : ss[1] < ss[2]}
<1>1. IsWellFoundedOn(R, Nat)
  BY Less
<1>2. \A x, y \in Nat : y < x => <<y, x>> \in R
  OBVIOUS
<1> HIDE DEF R
<1>3. PICK n \in T : \A m \in T : ~ (<<m, n>> \in R)
  BY <1>1, WFMin
<1>4. ASSUME NEW m \in T PROVE n <= m
  <2>1. ~ (m < n)
    BY <1>2, <1>3
  <2>2. QED
    BY <2>1
<1>5. QED
  BY <1>4

LEMMA Induct ==
  ASSUME NEW S, 0 \in S, \A n \in Nat : n \in S => n + 1 \in S
  PROVE  Nat \subseteq S
<1>1. SUFFICES ASSUME Nat \ S # {} PROVE FALSE
  OBVIOUS
<1>2. PICK n \in Nat \ S : \A m \in Nat \ S : n <= m
  BY <1>1, Least
<1>3. n # 0
  OBVIOUS
<1>4. n - 1 \in Nat /\ n - 1 \in S
  BY <1>2, <1>3
<1>5. QED
  BY <1>4, <1>2

(* Whatever can stand in a name or a title. *)
Chars == NameChars \cup TitleChars

LEMMA CharWidths ==
  ASSUME NEW c \in Chars
  PROVE  c.width \in Nat \ {0} /\ c.kind \in {"ink", "blank", "nul"}
  BY DEF Chars, NameChars, TitleChars, Char

(* The widths of the beginnings of a text, as the recursion defines them. *)
Adds(chars, n, width) ==
  width = [k \in 0..n |-> IF k = 0 THEN 0 ELSE width[k - 1] + chars[k].width]

LEMMA WidthsExist ==
  ASSUME NEW chars \in Seq(Chars)
  PROVE  \E width : Adds(chars, Len(chars), width)
<1> DEFINE S == {n \in Nat : n <= Len(chars) => \E width : Adds(chars, n, width)}
<1>1. 0 \in S
  <2>1. Adds(chars, 0, [k \in 0..0 |-> 0])
    BY DEF Adds
  <2>2. QED
    BY <2>1
<1>2. ASSUME NEW n \in Nat, n \in S PROVE n + 1 \in S
  <2>1. SUFFICES ASSUME n + 1 <= Len(chars) PROVE \E width : Adds(chars, n + 1, width)
    OBVIOUS
  <2>2. PICK before : Adds(chars, n, before)
    BY <1>2, <2>1
  <2> DEFINE width == [k \in 0..(n + 1) |-> IF k = n + 1 THEN before[n] + chars[n + 1].width ELSE before[k]]
  <2>3. Adds(chars, n + 1, width)
    <3>1. width[0] = 0
      BY <2>2 DEF Adds
    <3>2. ASSUME NEW k \in 1..n PROVE width[k] = width[k - 1] + chars[k].width
      BY <2>2 DEF Adds
    <3>3. width[n + 1] = width[n] + chars[n + 1].width
      OBVIOUS
    <3>4. \A k \in 0..(n + 1) : width[k] = IF k = 0 THEN 0 ELSE width[k - 1] + chars[k].width
      <4>1. \A k \in 0..(n + 1) : k = 0 \/ k \in 1..n \/ k = n + 1
        OBVIOUS
      <4>2. (n + 1) - 1 = n /\ n + 1 # 0 /\ \A k \in 1..n : k # 0
        OBVIOUS
      <4> HIDE DEF width
      <4>3. QED
        BY <3>1, <3>2, <3>3, <4>1, <4>2
    <3>5. QED
      BY <3>4 DEF Adds
  <2>4. QED
    BY <2>3
<1>3. Nat \subseteq S
  <2> HIDE DEF S
  <2>1. QED
    BY <1>1, <1>2, Induct
<1>4. QED
  BY <1>3

LEMMA WidthsAdd ==
  ASSUME NEW chars \in Seq(Chars)
  PROVE  /\ Widths(chars)[0] = 0
         /\ \A k \in 1..Len(chars) : Widths(chars)[k] = Widths(chars)[k - 1] + chars[k].width
<1>1. Widths(chars) = CHOOSE width : Adds(chars, Len(chars), width)
  BY DEF Widths, Adds
<1>2. Adds(chars, Len(chars), Widths(chars))
  BY <1>1, WidthsExist
<1>3. QED
  BY <1>2 DEF Adds

LEMMA WidthsNat ==
  ASSUME NEW chars \in Seq(Chars)
  PROVE  \A k \in 0..Len(chars) : Widths(chars)[k] \in Nat
<1> DEFINE S == {n \in Nat : n <= Len(chars) => Widths(chars)[n] \in Nat}
<1>1. 0 \in S
  BY WidthsAdd
<1>2. ASSUME NEW n \in Nat, n \in S PROVE n + 1 \in S
  <2>1. SUFFICES ASSUME n + 1 <= Len(chars) PROVE Widths(chars)[n + 1] \in Nat
    OBVIOUS
  <2>2. n + 1 \in 1..Len(chars) /\ (n + 1) - 1 = n /\ chars[n + 1].width \in Nat
    BY <2>1, CharWidths
  <2>3. Widths(chars)[n + 1] = Widths(chars)[n] + chars[n + 1].width
    BY <2>2, WidthsAdd
  <2>4. QED
    BY <1>2, <2>1, <2>2, <2>3
<1>3. Nat \subseteq S
  <2> HIDE DEF S
  <2>1. QED
    BY <1>1, <1>2, Induct
<1>4. QED
  BY <1>3

(* Each character takes a byte or unit at least: more of a text is wider. *)
LEMMA WidthsGrow ==
  ASSUME NEW chars \in Seq(Chars)
  PROVE  \A k, l \in 0..Len(chars) :
           k <= l => Widths(chars)[k] + (l - k) <= Widths(chars)[l]
<1>1. SUFFICES ASSUME NEW k \in 0..Len(chars)
               PROVE  \A l \in 0..Len(chars) :
                        k <= l => Widths(chars)[k] + (l - k) <= Widths(chars)[l]
  OBVIOUS
<1>2. chars \in Seq(Chars)
  OBVIOUS
<1> DEFINE S == {n \in Nat : k <= n /\ n <= Len(chars) =>
                                Widths(chars)[k] + (n - k) <= Widths(chars)[n]}
<1>3. 0 \in S
  BY <1>2, WidthsAdd
<1>4. ASSUME NEW n \in Nat, n \in S PROVE n + 1 \in S
  <2>1. SUFFICES ASSUME k <= n + 1, n + 1 <= Len(chars)
                 PROVE  Widths(chars)[k] + ((n + 1) - k) <= Widths(chars)[n + 1]
    OBVIOUS
  <2>2. n + 1 \in 1..Len(chars) /\ (n + 1) - 1 = n /\ chars[n + 1].width \in Nat \ {0}
    BY <2>1, CharWidths
  <2>3. Widths(chars)[n + 1] = Widths(chars)[n] + chars[n + 1].width
    BY <1>2, <2>2, WidthsAdd
  <2>4. Widths(chars)[n] \in Nat /\ Widths(chars)[k] \in Nat
    BY <1>2, <2>1, WidthsNat
  <2>5. CASE k = n + 1
    BY <2>3, <2>4, <2>5, <2>2
  <2>6. CASE k <= n
    BY <1>4, <2>1, <2>2, <2>3, <2>4, <2>6
  <2>7. QED
    BY <2>1, <2>5, <2>6
<1>5. Nat \subseteq S
  <2> HIDE DEF S
  <2>1. QED
    BY <1>3, <1>4, Induct
<1>6. QED
  BY <1>5

(* Some beginning fits, and the text is cut after it. *)
LEMMA WholeFits ==
  ASSUME NEW chars \in Seq(Chars), NEW cap \in Nat
  PROVE  \E n \in 0..Len(chars) : Fit(chars, cap, n) /\ Whole(chars, cap) = SubSeq(chars, 1, n)
<1> DEFINE T == {k \in 0..Len(chars) : k = Len(chars) \/ Widths(chars)[k + 1] > cap}
<1>1. PICK n \in T : \A m \in T : n <= m
  <2>1. T \in SUBSET Nat /\ Len(chars) \in T
    OBVIOUS
  <2> HIDE DEF T
  <2>2. QED
    BY <2>1, Least
<1>2. Widths(chars)[n] <= cap
  <2>1. CASE n = 0
    BY <2>1, WidthsAdd
  <2>2. CASE n # 0
    <3> PICK before \in 0..Len(chars) : before + 1 = n /\ before # Len(chars)
      BY <2>2
    <3>1. before \notin T
      BY <1>1
    <3>2. Widths(chars)[n] \in Nat
      BY WidthsNat
    <3>3. QED
      BY <3>1, <3>2
  <2>3. QED
    BY <2>1, <2>2
<1>3. \E k \in 0..Len(chars) : Fit(chars, cap, k)
  BY <1>2 DEF Fit
<1>4. QED
  BY <1>3 DEF Whole

(* A beginning of a text is as wide by itself as it is there. *)
LEMMA BeginningWidth ==
  ASSUME NEW chars \in Seq(Chars), NEW n \in 0..Len(chars)
  PROVE  Width(SubSeq(chars, 1, n)) = Widths(chars)[n]
<1> DEFINE part == SubSeq(chars, 1, n)
           S == {k \in Nat : k <= n => Widths(part)[k] = Widths(chars)[k]}
<1>1. part \in Seq(Chars) /\ Len(part) = n /\ \A k \in 1..n : part[k] = chars[k]
  OBVIOUS
<1> HIDE DEF part
<1>2. 0 \in S
  BY <1>1, WidthsAdd
<1>3. ASSUME NEW k \in Nat, k \in S PROVE k + 1 \in S
  <2>1. SUFFICES ASSUME k + 1 <= n PROVE Widths(part)[k + 1] = Widths(chars)[k + 1]
    OBVIOUS
  <2>2. k + 1 \in 1..n /\ k + 1 \in 1..Len(chars) /\ (k + 1) - 1 = k /\ k <= n
    BY <2>1
  <2>3. Widths(part)[k + 1] = Widths(part)[k] + part[k + 1].width
    BY <1>1, <2>2, WidthsAdd
  <2>4. Widths(chars)[k + 1] = Widths(chars)[k] + chars[k + 1].width
    BY <2>2, WidthsAdd
  <2>5. QED
    BY <1>1, <1>3, <2>2, <2>3, <2>4
<1>4. Nat \subseteq S
  <2> HIDE DEF S
  <2>1. QED
    BY <1>2, <1>3, Induct
<1>5. Widths(part)[n] = Widths(chars)[n]
  BY <1>4
<1>6. QED
  BY <1>1, <1>5 DEF Width, part

(* What is kept of a text that must fit, and whether a character is cut. *)
LEMMA KeptOfText ==
  ASSUME NEW chars \in Seq(Chars), NEW cap \in Nat
  PROVE  \E n \in 0..Len(chars) :
           /\ Fit(chars, cap, n)
           /\ Whole(chars, cap) = SubSeq(chars, 1, n)
           /\ Width(Whole(chars, cap)) < AtMost(Width(chars), cap)
                <=> n # Len(chars) /\ Widths(chars)[n] # cap
           /\ n <= Widths(chars)[n] /\ Widths(chars)[n] <= cap /\ Widths(chars)[n] \in Nat
<1> DEFINE cut == Width(Whole(chars, cap)) < AtMost(Width(chars), cap)
<1>1. PICK n \in 0..Len(chars) :
        Fit(chars, cap, n) /\ Whole(chars, cap) = SubSeq(chars, 1, n)
  BY WholeFits
<1>2. Width(Whole(chars, cap)) = Widths(chars)[n]
  BY <1>1, BeginningWidth
<1>3. Widths(chars)[n] \in Nat /\ Widths(chars)[Len(chars)] \in Nat /\ Widths(chars)[0] = 0
  BY WidthsNat, WidthsAdd
<1>4. n <= Widths(chars)[n]
  <2>1. 0 \in 0..Len(chars) /\ 0 <= n /\ n - 0 = n
    OBVIOUS
  <2>2. Widths(chars)[0] + (n - 0) <= Widths(chars)[n]
    BY <2>1, WidthsGrow
  <2>3. QED
    BY <1>3, <2>2
<1>5. CASE n = Len(chars)
  <2>1. Width(chars) = Widths(chars)[n] /\ Widths(chars)[n] <= cap
    BY <1>1, <1>5 DEF Width, Fit
  <2>2. ~cut
    BY <1>2, <1>3, <2>1 DEF AtMost
  <2>3. QED
    BY <1>1, <1>3, <1>4, <1>5, <2>1, <2>2
<1>6. CASE n # Len(chars)
  <2>1. n + 1 \in 0..Len(chars) /\ n + 1 <= Len(chars)
    BY <1>6
  <2>2. Widths(chars)[n + 1] + (Len(chars) - (n + 1)) <= Widths(chars)[Len(chars)]
    BY <2>1, WidthsGrow
  <2>3. Widths(chars)[n + 1] > cap /\ Widths(chars)[n] <= cap /\ Widths(chars)[n + 1] \in Nat
    BY <1>1, <1>6, <2>1, WidthsNat DEF Fit
  <2>4. Width(chars) > cap
    BY <1>3, <2>1, <2>2, <2>3 DEF Width
  <2>5. cut <=> Widths(chars)[n] # cap
    BY <1>2, <1>3, <2>3, <2>4 DEF AtMost, Width
  <2>6. QED
    BY <1>1, <1>3, <1>4, <1>6, <2>3, <2>5
<1>7. QED
  BY <1>5, <1>6

(* The characters at the beginning that are of some kinds: all of them. *)
LEMMA LeadingChars ==
  ASSUME NEW chars \in Seq(Chars), NEW kinds, NEW n, n = Leading(chars, kinds)
  PROVE  /\ n \in 0..Len(chars)
         /\ \A i \in 1..n : chars[i].kind \in kinds
         /\ n = Len(chars) \/ chars[n + 1].kind \notin kinds
<1> DEFINE T == {k \in 0..Len(chars) : k = Len(chars) \/ chars[k + 1].kind \notin kinds}
<1>1. PICK m \in T : \A k \in T : m <= k
  <2>1. T \in SUBSET Nat /\ Len(chars) \in T
    OBVIOUS
  <2> HIDE DEF T
  <2>2. QED
    BY <2>1, Least
<1>2. ASSUME NEW i \in 1..m PROVE chars[i].kind \in kinds
  <2> PICK before \in 0..Len(chars) : before + 1 = i /\ before < m
    OBVIOUS
  <2>1. before \notin T
    BY <1>1
  <2>2. QED
    BY <2>1
<1>3. \E k \in 0..Len(chars) :
        /\ \A i \in 1..k : chars[i].kind \in kinds
        /\ k = Len(chars) \/ chars[k + 1].kind \notin kinds
  BY <1>2
<1>4. QED
  BY <1>3 DEF Leading

LEMMA DroppedFirst ==
  ASSUME NEW chars \in Seq(Chars), NEW kinds
  PROVE  \E i \in 1..(Len(chars) + 1) :
           /\ DropFirst(chars, kinds) = SubSeq(chars, i, Len(chars))
           /\ \A k \in 1..(i - 1) : chars[k].kind \in kinds
<1> DEFINE n == Leading(chars, kinds)
<1>1. n \in 0..Len(chars) /\ \A i \in 1..n : chars[i].kind \in kinds
  BY LeadingChars
<1>2. DropFirst(chars, kinds) = SubSeq(chars, n + 1, Len(chars))
  BY DEF DropFirst
<1> HIDE DEF n
<1>3. n + 1 \in 1..(Len(chars) + 1) /\ (n + 1) - 1 = n
  BY <1>1
<1>4. QED
  BY <1>1, <1>2, <1>3

LEMMA DroppedLast ==
  ASSUME NEW chars \in Seq(Chars), NEW kinds
  PROVE  \E j \in 0..Len(chars) :
           /\ DropLast(chars, kinds) = SubSeq(chars, 1, j)
           /\ \A k \in (j + 1)..Len(chars) : chars[k].kind \in kinds
<1> DEFINE turned == Reverse(chars)
           n == Leading(turned, kinds)
<1>1. /\ turned \in Seq(Chars) /\ Len(turned) = Len(chars)
      /\ \A k \in 1..Len(chars) : turned[k] = chars[(Len(chars) - k) + 1]
  BY DEF Reverse
<1> HIDE DEF turned
<1>2. n \in 0..Len(chars) /\ \A i \in 1..n : turned[i].kind \in kinds
  BY <1>1, LeadingChars
<1>3. DropLast(chars, kinds) = SubSeq(chars, 1, Len(chars) - n)
  BY DEF DropLast, turned
<1> HIDE DEF n
<1>4. ASSUME NEW k \in ((Len(chars) - n) + 1)..Len(chars) PROVE chars[k].kind \in kinds
  <2> PICK i \in 1..n : i = (Len(chars) - k) + 1 /\ (Len(chars) - i) + 1 = k
    BY <1>2
  <2>1. i \in 1..Len(chars)
    BY <1>2
  <2>2. QED
    BY <1>1, <1>2, <2>1
<1>5. QED
  BY <1>2, <1>3, <1>4

(* A name loses blanks at its ends, and NULs at the last. *)
LEMMA Trimmed ==
  ASSUME NEW chars \in Seq(Chars), NEW n \in Nat, n = Len(chars)
  PROVE  \E i \in 1..(n + 1), j \in 0..n :
           /\ DropFirst(DropLast(DropLast(chars, {"nul"}), {"blank"}), {"blank"})
                = SubSeq(chars, i, j)
           /\ \A k \in 1..(i - 1) : chars[k].kind = "blank"
           /\ \A k \in (j + 1)..n : chars[k].kind \in {"blank", "nul"}
<1>1. PICK a \in 0..n :
        /\ DropLast(chars, {"nul"}) = SubSeq(chars, 1, a)
        /\ \A k \in (a + 1)..n : chars[k].kind \in {"nul"}
  BY DroppedLast
<1> DEFINE first == SubSeq(chars, 1, a)
<1>2. first \in Seq(Chars) /\ Len(first) = a /\ \A k \in 1..a : first[k] = chars[k]
  OBVIOUS
<1> HIDE DEF first
<1>3. PICK j \in 0..a :
        /\ DropLast(first, {"blank"}) = SubSeq(first, 1, j)
        /\ \A k \in (j + 1)..a : first[k].kind \in {"blank"}
  BY <1>2, DroppedLast
<1> DEFINE second == SubSeq(first, 1, j)
<1>4. second \in Seq(Chars) /\ Len(second) = j /\ \A k \in 1..j : second[k] = chars[k]
  BY <1>2
<1> HIDE DEF second
<1>5. PICK i \in 1..(j + 1) :
        /\ DropFirst(second, {"blank"}) = SubSeq(second, i, j)
        /\ \A k \in 1..(i - 1) : second[k].kind \in {"blank"}
  BY <1>4, DroppedFirst
<1>6. SubSeq(second, i, j) = SubSeq(chars, i, j)
  <2>1. \A k \in i..j : second[k] = chars[k]
    BY <1>4
  <2>2. QED
    BY <1>4, <2>1
<1>7. DropFirst(DropLast(DropLast(chars, {"nul"}), {"blank"}), {"blank"}) = SubSeq(chars, i, j)
  BY <1>1, <1>3, <1>5, <1>6 DEF first, second
<1>8. \A k \in 1..(i - 1) : chars[k].kind = "blank"
  BY <1>4, <1>5
<1>9. \A k \in (j + 1)..n : chars[k].kind \in {"blank", "nul"}
  BY <1>1, <1>2, <1>3
<1>10. i \in 1..(n + 1) /\ j \in 0..n
  OBVIOUS
<1>11. QED
  BY <1>7, <1>8, <1>9, <1>10

LEMMA NameKept ==
  ASSUME NEW name \in Seq(Chars)
  PROVE  NameSurvives(name, AsciiBytesToString(NameBytes(name)))
<1> DEFINE whole == Whole(name, NameCap)
           cut == Width(whole) < AtMost(Width(name), NameCap)
           read == AsciiBytesToString(NameBytes(name))
           trimmed == DropFirst(DropLast(DropLast(whole, {"nul"}), {"blank"}), {"blank"})
<1>1. read = IF cut THEN <<>> ELSE trimmed
  BY DEF AsciiBytesToString, NameBytes
<1>2. PICK n \in 0..Len(name) :
        /\ Fit(name, NameCap, n)
        /\ whole = SubSeq(name, 1, n)
        /\ cut <=> n # Len(name) /\ Widths(name)[n] # NameCap
  BY ConstantsAssumption, KeptOfText
<1>3. /\ SubSeq(name, 1, n) \in Seq(Chars) /\ Len(SubSeq(name, 1, n)) = n
      /\ \A k \in 1..n : SubSeq(name, 1, n)[k] = name[k]
  OBVIOUS
<1>4. PICK i \in 1..(n + 1), j \in 0..n :
        /\ trimmed = SubSeq(whole, i, j)
        /\ \A k \in 1..(i - 1) : whole[k].kind = "blank"
        /\ \A k \in (j + 1)..n : whole[k].kind \in {"blank", "nul"}
  <2> HIDE DEF whole
  <2>1. whole \in Seq(Chars) /\ n \in Nat /\ n = Len(whole)
    BY <1>2, <1>3
  <2>2. QED
    BY <2>1, Trimmed, Zenon
<1>5. SubSeq(whole, i, j) = SubSeq(name, i, j)
  <2> HIDE DEF whole
  <2>1. \A k \in i..j : whole[k] = name[k]
    BY <1>2, <1>3
  <2>2. QED
    BY <1>2, <1>3, <2>1
<1> HIDE DEF whole, cut, trimmed
<1>6. IF n = Len(name) \/ Widths(name)[n] = NameCap
      THEN \E a \in 1..(n + 1), b \in 0..n :
             /\ read = SubSeq(name, a, b)
             /\ \A k \in 1..(a - 1) : name[k].kind = "blank"
             /\ \A k \in (b + 1)..n : name[k].kind \in {"blank", "nul"}
      ELSE read = <<>>
  <2>1. /\ \A k \in 1..(i - 1) : name[k].kind = "blank"
        /\ \A k \in (j + 1)..n : name[k].kind \in {"blank", "nul"}
    BY <1>2, <1>3, <1>4
  <2> HIDE DEF read
  <2>2. QED
    BY <1>1, <1>2, <1>4, <1>5, <2>1
<1>7. QED
  BY <1>2, <1>6 DEF NameSurvives

LEMMA TitleKept ==
  ASSUME NEW title \in Seq(Chars)
  PROVE  TitleSurvives(title, Utf16ToString(EncodeUtf16(title)))
<1> DEFINE whole == Whole(title, TextCap)
           cut == Width(whole) < AtMost(Width(title), TextCap)
           m == Leading(whole, {"ink", "blank"})
           read == Utf16ToString(EncodeUtf16(title))
<1>1. read = IF cut /\ m = Len(whole) THEN Append(whole, Replacement) ELSE SubSeq(whole, 1, m)
  BY DEF Utf16ToString, EncodeUtf16
<1>2. PICK n \in 0..Len(title) :
        /\ Fit(title, TextCap, n)
        /\ whole = SubSeq(title, 1, n)
        /\ cut <=> n # Len(title) /\ Widths(title)[n] # TextCap
        /\ n <= Widths(title)[n] /\ Widths(title)[n] <= TextCap /\ Widths(title)[n] \in Nat
  BY ConstantsAssumption, KeptOfText
<1>3. /\ SubSeq(title, 1, n) \in Seq(Chars) /\ Len(SubSeq(title, 1, n)) = n
      /\ \A k \in 1..n : SubSeq(title, 1, n)[k] = title[k]
  OBVIOUS
<1> HIDE DEF whole, cut
<1>4. /\ m \in 0..n
      /\ \A i \in 1..m : whole[i].kind \in {"ink", "blank"}
      /\ m = n \/ whole[m + 1].kind \notin {"ink", "blank"}
  BY <1>2, <1>3, LeadingChars
<1> HIDE DEF m
<1>5. SubSeq(whole, 1, m) = SubSeq(title, 1, m) /\ Len(SubSeq(title, 1, m)) = m
  BY <1>2, <1>3, <1>4
<1>6. \A k \in 1..m : title[k].kind # "nul"
  BY <1>2, <1>3, <1>4
<1>7. m <= TextCap /\ TextCap \in Nat
  BY <1>2, <1>4, ConstantsAssumption
<1> HIDE DEF read
<1> SUFFICES /\ Len(read) <= TextCap
             /\ \E k \in 0..Len(title) :
                  /\ \A i \in 1..k : title[i].kind # "nul"
                  /\ \/ read = SubSeq(title, 1, k) /\ (k = Len(title) \/ title[k + 1].kind = "nul")
                     \/ /\ read \in {SubSeq(title, 1, k), Append(SubSeq(title, 1, k), Replacement)}
                        /\ k < Len(title) /\ Widths(title)[k + 1] > TextCap
  BY DEF TitleSurvives, read
<1>8. CASE m # n
  <2>1. m + 1 \in 1..n /\ m + 1 \in 1..Len(title)
    BY <1>4, <1>8
  <2>2. title[m + 1] \in Chars /\ whole[m + 1] = title[m + 1]
    BY <1>2, <1>3, <2>1
  <2>3. title[m + 1].kind = "nul"
    BY <1>4, <1>8, <2>2, CharWidths
  <2>4. read = SubSeq(title, 1, m)
    BY <1>1, <1>2, <1>3, <1>5, <1>8
  <2>5. m \in 0..Len(title)
    BY <1>4
  <2>6. Len(read) <= TextCap
    BY <1>5, <1>7, <2>4
  <2>7. QED
    BY <1>6, <2>3, <2>4, <2>5, <2>6, Zenon
<1>9. CASE m = n /\ n = Len(title)
  <2>1. read = SubSeq(title, 1, m)
    BY <1>1, <1>2, <1>5, <1>9
  <2>2. Len(read) <= TextCap /\ m \in 0..Len(title)
    BY <1>4, <1>5, <1>7, <2>1
  <2>3. QED
    BY <1>6, <1>9, <2>1, <2>2, Zenon
<1>10. CASE m = n /\ n # Len(title)
  <2>1. Widths(title)[n + 1] > TextCap /\ n < Len(title)
    BY <1>2, <1>10 DEF Fit
  <2>2. read \in {SubSeq(title, 1, n), Append(SubSeq(title, 1, n), Replacement)}
    BY <1>1, <1>2, <1>3, <1>5, <1>10
  <2>3. Len(read) <= TextCap
    <3>1. CASE cut
      <4>1. n + 1 <= TextCap
        BY <1>2, <1>7, <3>1
      <4>2. Len(Append(SubSeq(title, 1, n), Replacement)) = n + 1
        BY <1>3
      <4>3. QED
        BY <1>3, <1>7, <1>10, <2>2, <4>1, <4>2
    <3>2. CASE ~cut
      BY <1>1, <1>5, <1>7, <3>2
    <3>3. QED
      BY <3>1, <3>2
  <2>4. QED
    BY <1>6, <1>10, <2>1, <2>2, <2>3, Zenon
<1>11. QED
  BY <1>8, <1>9, <1>10 DEF read

-------------------------------------------------------------------------------
(* What is sent, by kind of message *)

PlainSent ==
  \E struct \in AboutStructs, node_type \in NodeTypes, layer \in LayerIds,
     data_type \in RequestDataTypes \cup {0} :
    /\ meant = [struct |-> struct, layer |-> layer, data_type |-> data_type]
    /\ datagrams = <<Datagram(struct, node_type, 0,
                              [layer |-> AsPacketId(layer), data_type |-> data_type])>>

LayerlessSent ==
  \E struct \in LayerlessStructs, node_type \in NodeTypes :
    /\ meant = [struct |-> struct]
    /\ datagrams = <<Datagram(struct, node_type, 0, <<>>)>>

TimeSent ==
  \E modes \in [LayerIds -> SmpteModes] :
    /\ meant = [struct |-> "Time", modes |-> modes]
    /\ datagrams = <<Datagram("Time", 2, 0,
                       [mode |-> SmpteToU8(modes[ALL[1]]),
                        rows |-> [i \in 0..7 |-> SmpteToU8(modes[ALL[i + 1]])]])>>

TextSent ==
  \/ \E name \in Names :
       /\ meant = [struct |-> "Status", name |-> name]
       /\ datagrams = <<Datagram("Status", 2, 0, [name |-> NameBytes(name)])>>
  \/ \E title \in Titles :
       /\ meant = [struct |-> "Meta", title |-> title]
       /\ datagrams = <<Datagram("Meta", 2, 0, [title |-> EncodeUtf16(title)])>>

PayloadSent ==
  \E struct \in PayloadStructs, layer \in LayerIds, length \in Lengths \cup {0} :
    /\ meant = [struct |-> struct, layer |-> layer, length |-> length]
    /\ datagrams = Split(struct, layer, length)

Sent == PlainSent \/ LayerlessSent \/ TimeSent \/ TextSent \/ PayloadSent

Right ==
  /\ understood.struct = meant.struct /\ understood.struct \in Structs
  /\ LayersKeptApart
  /\ PayloadsJoin
  /\ TextSurvives

(* Nothing is sent yet, or a message is on its way, or it was understood. *)
Journey ==
  \/ meant = Nothing /\ understood = Nothing /\ datagrams = <<>>
  \/ meant # Nothing /\ understood = Nothing /\ Sent
  \/ meant # Nothing /\ Right

(* One datagram, of a struct that is sent whole. *)
LEMMA OneReceived ==
  ASSUME NEW struct \in Structs, NEW node_type \in NodeTypes, NEW body,
         datagrams = <<Datagram(struct, node_type, 0, body)>>
  PROVE  /\ ~ \E i \in 1..Len(datagrams) : ~Readable(datagrams[i])
         /\ StructOf(datagrams[1].message_type, datagrams[1].data_type) = struct
         /\ datagrams[1].body = body
<1> PICK datagram : datagram = Datagram(struct, node_type, 0, body)
  OBVIOUS
<1>1. /\ Readable(datagram)
      /\ StructOf(datagram.message_type, datagram.data_type) = struct
      /\ datagram.body = body
  <2>1. 0 \in Counts
    BY DEF Counts
  <2>2. datagram.body = body
    BY DEF Datagram
  <2>3. QED
    BY <2>1, <2>2, DatagramReadable
<1>2. Len(datagrams) = 1 /\ datagrams[1] = datagram
  OBVIOUS
<1>3. QED
  BY <1>1, <1>2

(* What the receiver makes of a layer's datagrams. *)
LEMMA PlainReceived ==
  ASSUME PlainSent, Receive
  PROVE  Right'
<1> PICK struct \in AboutStructs, node_type \in NodeTypes, layer \in LayerIds,
         data_type \in RequestDataTypes \cup {0} :
      /\ meant = [struct |-> struct, layer |-> layer, data_type |-> data_type]
      /\ datagrams = <<Datagram(struct, node_type, 0,
                                [layer |-> AsPacketId(layer), data_type |-> data_type])>>
  BY DEF PlainSent
<1>1. /\ struct \in Structs
      /\ struct \notin {"Time", "Status", "Meta"} \cup LayerlessStructs \cup PayloadStructs
  BY StructNames DEF LayerlessStructs, PayloadStructs
<1>2. /\ ~ \E i \in 1..Len(datagrams) : ~Readable(datagrams[i])
      /\ StructOf(datagrams[1].message_type, datagrams[1].data_type) = struct
      /\ datagrams[1].body = [layer |-> AsPacketId(layer), data_type |-> data_type]
  BY <1>1, OneReceived
<1>3. understood' = [struct |-> struct, layer |-> FromPacketId(AsPacketId(layer)),
                     data_type |-> data_type]
  BY <1>1, <1>2 DEF Receive
<1>4. /\ understood'.struct = struct /\ understood'.layer = layer
      /\ understood'.data_type = data_type
  BY <1>3, LayersNumbered
<1>5. meant'.struct = struct /\ meant'.layer = layer /\ meant'.data_type = data_type
  BY DEF Receive
<1>6. (understood.struct = meant.struct /\ understood.struct \in Structs)'
  BY <1>1, <1>4, <1>5
<1>7. LayersKeptApart'
  BY <1>1, <1>4, <1>5 DEF LayersKeptApart
<1>8. PayloadsJoin'
  BY <1>1, <1>5 DEF PayloadsJoin
<1>9. TextSurvives'
  BY <1>1, <1>5 DEF TextSurvives
<1>10. QED
  BY <1>6, <1>7, <1>8, <1>9 DEF Right

LEMMA LayerlessReceived ==
  ASSUME LayerlessSent, Receive
  PROVE  Right'
<1> PICK struct \in LayerlessStructs, node_type \in NodeTypes :
      /\ meant = [struct |-> struct]
      /\ datagrams = <<Datagram(struct, node_type, 0, <<>>)>>
  BY DEF LayerlessSent
<1>1. /\ struct \in Structs
      /\ struct \notin {"Time", "Status", "Meta", "Request", "ErrorNotification"}
                        \cup LayerStructs \cup PayloadStructs
  BY StructNames DEF LayerlessStructs, LayerStructs, PayloadStructs
<1>2. /\ ~ \E i \in 1..Len(datagrams) : ~Readable(datagrams[i])
      /\ StructOf(datagrams[1].message_type, datagrams[1].data_type) = struct
  BY <1>1, OneReceived
<1>3. understood' = [struct |-> struct]
  BY <1>1, <1>2 DEF Receive
<1>4. meant' = [struct |-> struct]
  BY DEF Receive
<1>5. understood'.struct = struct /\ meant'.struct = struct
  BY <1>3, <1>4
<1>6. (LayersKeptApart /\ PayloadsJoin /\ TextSurvives)'
  BY <1>1, <1>5 DEF LayersKeptApart, PayloadsJoin, TextSurvives
<1>7. QED
  BY <1>1, <1>5, <1>6 DEF Right

(* A timecode mode survives its byte, which is never 0. *)
LEMMA ModesSurvive ==
  \A mode \in SmpteModes : SmpteToU8(mode) # 0 /\ SmpteFromU8(SmpteToU8(mode)) = mode
BY DEF SmpteModes, SmpteToU8, SmpteFromU8

(* The row a layer is read from is the one it was written to. *)
LEMMA RowsAgree ==
  \A layer \in LayerIds : Index(layer) \in 0..7 /\ ALL[Index(layer) + 1] = layer
<1> SUFFICES ASSUME NEW layer \in LayerIds
             PROVE  Index(layer) \in 0..7 /\ ALL[Index(layer) + 1] = layer
  OBVIOUS
<1>1. /\ ALL[1] = "L1" /\ ALL[2] = "L2" /\ ALL[3] = "L3" /\ ALL[4] = "L4"
      /\ ALL[5] = "LA" /\ ALL[6] = "LB" /\ ALL[7] = "LM" /\ ALL[8] = "LC"
  BY DEF ALL
<1>2. AsPacketId(layer) \in 1..8 /\ ALL[AsPacketId(layer)] = layer
  BY <1>1 DEF LayerIds, AsPacketId
<1>3. QED
  BY <1>2 DEF Index

LEMMA TimeReceived ==
  ASSUME TimeSent, Receive
  PROVE  Right'
<1> PICK modes \in [LayerIds -> SmpteModes] :
      /\ meant = [struct |-> "Time", modes |-> modes]
      /\ datagrams = <<Datagram("Time", 2, 0,
                         [mode |-> SmpteToU8(modes[ALL[1]]),
                          rows |-> [i \in 0..7 |-> SmpteToU8(modes[ALL[i + 1]])]])>>
  BY DEF TimeSent
<1> DEFINE body == [mode |-> SmpteToU8(modes[ALL[1]]),
                    rows |-> [i \in 0..7 |-> SmpteToU8(modes[ALL[i + 1]])]]
           read == [l \in LayerIds |->
                      SmpteFromU8(IF body.rows[Index(l)] = 0 THEN body.mode
                                  ELSE body.rows[Index(l)])]
<1>1. "Time" \in Structs /\ 2 \in NodeTypes
  BY DEF Structs, NodeTypes
<1>2. \A l \in LayerIds : body.rows[Index(l)] = SmpteToU8(modes[l])
  BY RowsAgree
<1>3. read = modes
  <2>1. \A l \in LayerIds : read[l] = modes[l]
    BY <1>2, ModesSurvive
  <2>2. QED
    BY <2>1
<1> HIDE DEF body
<1>4. /\ ~ \E i \in 1..Len(datagrams) : ~Readable(datagrams[i])
      /\ StructOf(datagrams[1].message_type, datagrams[1].data_type) = "Time"
      /\ datagrams[1].body = body
  BY <1>1, OneReceived DEF body
<1>5. understood' = [struct |-> "Time", modes |-> read]
  BY <1>4 DEF Receive, LayerlessStructs, PayloadStructs
<1> HIDE DEF read
<1>6. understood'.struct = "Time" /\ understood'.modes = modes
  BY <1>3, <1>5
<1>7. meant'.struct = "Time" /\ meant'.modes = modes
  BY DEF Receive
<1>8. LayersKeptApart'
  <2>1. "Time" \notin LayerStructs \cup PayloadStructs \cup {"Request", "ErrorNotification"}
    BY DEF LayerStructs, PayloadStructs
  <2>2. QED
    BY <1>6, <1>7, <2>1 DEF LayersKeptApart
<1>9. PayloadsJoin'
  BY <1>7 DEF PayloadsJoin, PayloadStructs
<1>10. TextSurvives'
  BY <1>7 DEF TextSurvives
<1>11. QED
  BY <1>1, <1>6, <1>7, <1>8, <1>9, <1>10 DEF Right

LEMMA NameReceived ==
  ASSUME NEW name \in Names, Receive,
         meant = [struct |-> "Status", name |-> name],
         datagrams = <<Datagram("Status", 2, 0, [name |-> NameBytes(name)])>>
  PROVE  Right'
<1>1. "Status" \in Structs /\ 2 \in NodeTypes
  BY DEF Structs, NodeTypes
<1>2. /\ ~ \E i \in 1..Len(datagrams) : ~Readable(datagrams[i])
      /\ StructOf(datagrams[1].message_type, datagrams[1].data_type) = "Status"
      /\ datagrams[1].body = [name |-> NameBytes(name)]
  BY <1>1, OneReceived
<1>3. understood' = [struct |-> "Status", name |-> AsciiBytesToString(NameBytes(name))]
  BY <1>2 DEF Receive, LayerlessStructs, PayloadStructs
<1>4. meant' = [struct |-> "Status", name |-> name]
  BY DEF Receive
<1>5. name \in Seq(Chars)
  BY ConstantsAssumption DEF Chars
<1>6. TextSurvives'
  <2>1. NameSurvives(meant'.name, understood'.name)
    BY <1>3, <1>4, <1>5, NameKept
  <2>2. meant'.struct = "Status"
    BY <1>4
  <2>3. QED
    BY <2>1, <2>2 DEF TextSurvives
<1>7. LayersKeptApart' /\ PayloadsJoin'
  <2>1. meant'.struct = "Status"
    BY <1>4
  <2>2. QED
    BY <2>1 DEF LayersKeptApart, PayloadsJoin, LayerStructs, PayloadStructs
<1>8. understood'.struct = "Status" /\ meant'.struct = "Status"
  BY <1>3, <1>4
<1>9. QED
  BY <1>1, <1>6, <1>7, <1>8 DEF Right

LEMMA TitleReceived ==
  ASSUME NEW title \in Titles, Receive,
         meant = [struct |-> "Meta", title |-> title],
         datagrams = <<Datagram("Meta", 2, 0, [title |-> EncodeUtf16(title)])>>
  PROVE  Right'
<1>1. "Meta" \in Structs /\ 2 \in NodeTypes
  BY DEF Structs, NodeTypes
<1>2. /\ ~ \E i \in 1..Len(datagrams) : ~Readable(datagrams[i])
      /\ StructOf(datagrams[1].message_type, datagrams[1].data_type) = "Meta"
      /\ datagrams[1].body = [title |-> EncodeUtf16(title)]
  BY <1>1, OneReceived
<1>3. understood' = [struct |-> "Meta", title |-> Utf16ToString(EncodeUtf16(title))]
  BY <1>2 DEF Receive, LayerlessStructs, PayloadStructs
<1>4. meant' = [struct |-> "Meta", title |-> title]
  BY DEF Receive
<1>5. title \in Seq(Chars)
  BY ConstantsAssumption DEF Chars
<1>6. TextSurvives'
  <2>1. understood'.title = Utf16ToString(EncodeUtf16(title)) /\ meant'.title = title
    BY <1>3, <1>4
  <2>2. meant'.struct = "Meta"
    BY <1>4
  <2>3. QED
    BY <1>5, <2>1, <2>2, TitleKept DEF TextSurvives
<1>7. LayersKeptApart' /\ PayloadsJoin'
  <2>1. meant'.struct = "Meta"
    BY <1>4
  <2>2. QED
    BY <2>1 DEF LayersKeptApart, PayloadsJoin, LayerStructs, PayloadStructs
<1>8. understood'.struct = "Meta" /\ meant'.struct = "Meta"
  BY <1>3, <1>4
<1>9. QED
  BY <1>1, <1>6, <1>7, <1>8 DEF Right

LEMMA TextReceived ==
  ASSUME TextSent, Receive
  PROVE  Right'
BY NameReceived, TitleReceived DEF TextSent

(* An empty waveform is no datagram, an empty grid or artwork one of no bytes. *)
LEMMA EmptyPayload ==
  ASSUME NEW struct \in PayloadStructs \ {"BigWaveform"}, NEW layer \in LayerIds
  PROVE  /\ Split(struct, layer, 0) =
              <<Datagram(struct, 2, 0,
                         [layer |-> AsPacketId(layer), total |-> 1, no |-> 0, from |-> 0, to |-> 0])>>
         /\ Join(Split(struct, layer, 0)) = [layer |-> layer, length |-> 0]
<1> DEFINE chunk == [layer |-> AsPacketId(layer), total |-> 1, no |-> 0, from |-> 0, to |-> 0]
           packets == <<Datagram(struct, 2, 0, chunk)>>
           With(no) == {i \in 1..Len(packets) : packets[i].body.no = no}
           Stored(no) == packets[CHOOSE i \in With(no) : TRUE].body
<1>1. Split(struct, layer, 0) = packets
  <2>1. ClusterSize(struct) \in {2400, 4400} /\ TotalPackets(struct, 0) = 1
    BY DEF ClusterSize, TotalPackets
  <2>2. \A size \in {2400, 4400} : AtMost((0 + 1) * size, 0) = 0 /\ 0 * size = 0
    BY DEF AtMost
  <2>3. \A i \in 1..1 : i - 1 = 0
    OBVIOUS
  <2>4. Split(struct, layer, 0) = [i \in 1..1 |-> Datagram(struct, 2, 0, chunk)]
    BY <2>1, <2>2, <2>3 DEF Split
  <2>5. QED
    BY <2>4
<1>2. Len(packets) = 1 /\ packets[1].body = chunk
  BY DEF Datagram
<1> HIDE DEF packets
<1>3. With(0) = {1} /\ Stored(0) = chunk
  <2>1. With(0) = {1}
    BY <1>2
  <2>2. QED
    BY <1>2, <2>1
<1>4. Join(packets) = [layer |-> FromPacketId(packets[1].body.layer),
                       length |-> IF \A no \in 0..(packets[1].body.total - 1) :
                                       /\ With(no) # {}
                                       /\ Stored(no).from = IF no = 0 THEN 0 ELSE Stored(no - 1).to
                                  THEN Stored(packets[1].body.total - 1).to ELSE -1]
  BY DEF Join
<1> HIDE DEF With, Stored
<1>5. Join(packets) = [layer |-> layer, length |-> 0]
  <2>1. \A no \in 0..(1 - 1) : no = 0
    OBVIOUS
  <2>2. FromPacketId(AsPacketId(layer)) = layer
    BY LayersNumbered
  <2>3. packets[1].body.total - 1 = 0 /\ packets[1].body.layer = AsPacketId(layer)
    BY <1>2
  <2>4. Stored(0).from = 0 /\ Stored(0).to = 0 /\ With(0) # {}
    BY <1>3
  <2>5. QED
    BY <1>2, <1>4, <2>1, <2>2, <2>3, <2>4
<1>6. QED
  BY <1>1, <1>5 DEF packets

LEMMA PayloadReceived ==
  ASSUME PayloadSent, Receive
  PROVE  Right'
<1> PICK struct \in PayloadStructs, layer \in LayerIds, length \in Lengths \cup {0} :
      /\ meant = [struct |-> struct, layer |-> layer, length |-> length]
      /\ datagrams = Split(struct, layer, length)
  BY DEF PayloadSent
<1>1. /\ length \in Nat /\ struct \in Structs /\ 2 \in NodeTypes
      /\ struct \notin {"Time", "Status", "Meta"} \cup LayerlessStructs
  BY ConstantsAssumption DEF Structs, NodeTypes, PayloadStructs, LayerlessStructs
<1>2. /\ ~ \E i \in 1..Len(datagrams) : ~Readable(datagrams[i])
      /\ StructOf(datagrams[1].message_type, datagrams[1].data_type) = struct
      /\ Join(datagrams) = [layer |-> layer, length |-> length]
  <2>1. CASE length = 0
    <3>1. struct # "BigWaveform"
      <4>1. Split("BigWaveform", layer, 0) = <<>>
        BY DEF Split
      <4>2. QED
        BY <2>1, <4>1 DEF Receive
    <3>2. datagrams = Split(struct, layer, 0)
      BY <2>1
    <3>3. PICK body : datagrams = <<Datagram(struct, 2, 0, body)>>
      BY <3>1, <3>2, EmptyPayload
    <3>4. Join(datagrams) = [layer |-> layer, length |-> length]
      BY <2>1, <3>1, <3>2, EmptyPayload
    <3>5. QED
      BY <1>1, <3>3, <3>4, OneReceived
  <2>2. CASE length \in Nat \ {0}
    <3> DEFINE n == CeilDiv(length, ClusterSize(struct))
    <3>1. n \in Nat \ {0} /\ Len(datagrams) = n
      BY <2>2, ChunksCover, SplitChunks
    <3>2. ASSUME NEW i \in 1..n
          PROVE  /\ Readable(datagrams[i])
                 /\ StructOf(datagrams[i].message_type, datagrams[i].data_type) = struct
      <4>1. PieceLength(struct, length, i) \in Counts
        <5>1. i \in 1..CeilDiv(length, ClusterSize(struct))
          OBVIOUS
        <5> HIDE DEF n
        <5>2. QED
          BY <2>2, <5>1, PieceFits, Zenon
      <4>2. datagrams[i] = Datagram(struct, 2, PieceLength(struct, length, i),
                                    Piece(struct, layer, length, i))
        BY <2>2, SplitChunks
      <4>3. QED
        BY <1>1, <4>1, <4>2, DatagramReadable
    <3> HIDE DEF n
    <3>3. 1 \in 1..n
      BY <3>1
    <3>4. Join(datagrams) = [layer |-> layer, length |-> length]
      BY <2>2, JoinSplit
    <3>5. QED
      BY <3>1, <3>2, <3>3, <3>4
  <2>3. QED
    BY <1>1, <2>1, <2>2
<1>3. understood' = [struct |-> struct, layer |-> layer, length |-> length]
  <2>1. understood' = [struct |-> struct, layer |-> Join(datagrams).layer,
                       length |-> Join(datagrams).length]
    BY <1>1, <1>2 DEF Receive
  <2>2. QED
    BY <1>2, <2>1
<1>4. /\ understood'.struct = struct /\ understood'.layer = layer /\ understood'.length = length
  BY <1>3
<1>5. meant'.struct = struct /\ meant'.layer = layer /\ meant'.length = length
  BY DEF Receive
<1>6. struct \notin {"Request", "ErrorNotification"}
  BY DEF PayloadStructs
<1>7. TextSurvives'
  BY <1>1, <1>5 DEF TextSurvives
<1>8. QED
  BY <1>1, <1>4, <1>5, <1>6, <1>7 DEF Right, LayersKeptApart, PayloadsJoin

-------------------------------------------------------------------------------
(* Every step *)

LEMMA SendsSent ==
  Next /\ ~Receive => meant = Nothing /\ UNCHANGED understood /\ (meant # Nothing /\ Sent)'
<1> SUFFICES ASSUME Next, ~Receive
             PROVE  meant = Nothing /\ UNCHANGED understood /\ (meant # Nothing /\ Sent)'
  OBVIOUS
<1>1. ASSUME NEW struct \in AboutStructs, NEW node_type \in NodeTypes, NEW layer \in LayerIds,
             NEW data_type \in RequestDataTypes \cup {0},
             SendPlain(struct, node_type, layer, data_type)
      PROVE  meant = Nothing /\ UNCHANGED understood /\ (meant # Nothing /\ Sent)'
  <2>1. /\ meant' = [struct |-> struct, layer |-> layer, data_type |-> data_type]
        /\ datagrams' = <<Datagram(struct, node_type, 0,
                                   [layer |-> AsPacketId(layer), data_type |-> data_type])>>
    BY <1>1 DEF SendPlain, Send
  <2>2. PlainSent'
    BY <2>1 DEF PlainSent
  <2>3. meant'.struct = struct /\ struct # "none"
    BY <2>1, StructNames
  <2>4. meant' # Nothing
    BY <2>3 DEF Nothing
  <2>5. QED
    BY <1>1, <2>2, <2>4 DEF SendPlain, Send, Sent
<1>2. ASSUME NEW modes \in [LayerIds -> SmpteModes], SendTime(modes)
      PROVE  meant = Nothing /\ UNCHANGED understood /\ (meant # Nothing /\ Sent)'
  <2>1. TimeSent'
    BY <1>2 DEF SendTime, Send, TimeSent
  <2>2. meant'.struct = "Time"
    BY <1>2 DEF SendTime, Send
  <2>3. meant' # Nothing
    BY <2>2 DEF Nothing
  <2>4. QED
    BY <1>2, <2>1, <2>3 DEF SendTime, Send, Sent
<1>3. ASSUME NEW name \in Names, SendStatus(name)
      PROVE  meant = Nothing /\ UNCHANGED understood /\ (meant # Nothing /\ Sent)'
  <2>1. TextSent'
    BY <1>3 DEF SendStatus, Send, TextSent
  <2>2. meant'.struct = "Status"
    BY <1>3 DEF SendStatus, Send
  <2>3. meant' # Nothing
    BY <2>2 DEF Nothing
  <2>4. QED
    BY <1>3, <2>1, <2>3 DEF SendStatus, Send, Sent
<1>4. ASSUME NEW title \in Titles, SendMeta(title)
      PROVE  meant = Nothing /\ UNCHANGED understood /\ (meant # Nothing /\ Sent)'
  <2>1. TextSent'
    BY <1>4 DEF SendMeta, Send, TextSent
  <2>2. meant'.struct = "Meta"
    BY <1>4 DEF SendMeta, Send
  <2>3. meant' # Nothing
    BY <2>2 DEF Nothing
  <2>4. QED
    BY <1>4, <2>1, <2>3 DEF SendMeta, Send, Sent
<1>5. ASSUME NEW struct \in PayloadStructs, NEW layer \in LayerIds,
             NEW length \in Lengths \cup {0}, SendPayload(struct, layer, length)
      PROVE  meant = Nothing /\ UNCHANGED understood /\ (meant # Nothing /\ Sent)'
  <2>1. PayloadSent'
    BY <1>5 DEF SendPayload, Send, PayloadSent
  <2>2. meant'.struct = struct /\ struct # "none"
    BY <1>5 DEF SendPayload, Send, PayloadStructs
  <2>3. meant' # Nothing
    BY <2>2 DEF Nothing
  <2>4. QED
    BY <1>5, <2>1, <2>3 DEF SendPayload, Send, Sent
<1>6. ASSUME NEW mode \in SmpteModes, NEW other \in SmpteModes, NEW layer \in LayerIds
      PROVE  [l \in LayerIds |-> IF l = layer THEN mode ELSE other] \in [LayerIds -> SmpteModes]
  OBVIOUS
<1>7. /\ LayerStructs \subseteq AboutStructs
      /\ {"Request", "ErrorNotification"} \subseteq AboutStructs
      /\ {"BeatGrid", "BigWaveform"} \subseteq PayloadStructs /\ "ArtworkFile" \in PayloadStructs
  BY DEF AboutStructs, PayloadStructs
<1>layerless. ASSUME NEW struct \in LayerlessStructs, NEW node_type \in NodeTypes,
              SendLayerless(struct, node_type)
       PROVE  meant = Nothing /\ UNCHANGED understood /\ (meant # Nothing /\ Sent)'
  <2>1. LayerlessSent'
    BY <1>layerless DEF SendLayerless, Send, LayerlessSent
  <2>2. meant'.struct = struct /\ struct # "none"
    BY <1>layerless DEF SendLayerless, Send, LayerlessStructs
  <2>3. meant' # Nothing
    BY <2>2 DEF Nothing
  <2>4. QED
    BY <1>layerless, <2>1, <2>3 DEF SendLayerless, Send, Sent
<1>8. CASE \E node_type \in NodeTypes, layer \in LayerIds :
             \/ \E struct \in LayerlessStructs : SendLayerless(struct, node_type)
             \/ \E struct \in LayerStructs : SendPlain(struct, node_type, layer, 0)
             \/ \E data_type \in RequestDataTypes :
                  \E struct \in {"Request", "ErrorNotification"} :
                    SendPlain(struct, node_type, layer, data_type)
  BY <1>1, <1>7, <1>8, <1>layerless
<1>9. CASE \E mode \in SmpteModes, other \in SmpteModes, layer \in LayerIds :
             SendTime([l \in LayerIds |-> IF l = layer THEN mode ELSE other])
  BY <1>2, <1>6, <1>9
<1>10. CASE \/ \E name \in Names : SendStatus(name)
           \/ \E title \in Titles : SendMeta(title)
  BY <1>3, <1>4, <1>10
<1>11. CASE \/ \E struct \in {"BeatGrid", "BigWaveform"}, layer \in LayerIds, length \in Lengths :
                 SendPayload(struct, layer, length)
            \/ \E layer \in LayerIds : SendPayload("ArtworkFile", layer, 0)
  BY <1>5, <1>7, <1>11
<1>12. QED
  BY <1>8, <1>9, <1>10, <1>11 DEF Next

LEMMA RightReceived == Right => Received
<1> SUFFICES ASSUME Right, understood = Nothing PROVE FALSE
  BY DEF Received
<1>1. understood.struct = "none"
  BY DEF Nothing
<1>2. "none" \notin Structs
  BY StructNames
<1>3. QED
  BY <1>1, <1>2 DEF Right

LEMMA StepJourney == Journey /\ [Next]_vars => Journey'
<1> SUFFICES ASSUME Journey, [Next]_vars PROVE Journey'
  OBVIOUS
<1>1. CASE UNCHANGED vars
  <2>1. Sent' <=> Sent
    BY <1>1 DEF vars, Sent, PlainSent, LayerlessSent, TimeSent, TextSent, PayloadSent
  <2>2. LayersKeptApart /\ PayloadsJoin => (LayersKeptApart /\ PayloadsJoin)'
    BY <1>1 DEF vars, LayersKeptApart, PayloadsJoin, Received
  <2>3. TextSurvives => TextSurvives'
    BY <1>1 DEF vars, TextSurvives, Received
  <2>4. QED
    BY <1>1, <2>1, <2>2, <2>3 DEF vars, Journey, Right
<1>2. CASE Receive
  <2>1. understood = Nothing /\ datagrams # <<>> /\ UNCHANGED meant
    BY <1>2 DEF Receive
  <2>2. meant # Nothing /\ Sent
    BY <2>1, RightReceived DEF Journey, Received
  <2>3. Right'
    BY <1>2, <2>2, PlainReceived, LayerlessReceived, TimeReceived, TextReceived, PayloadReceived DEF Sent
  <2>4. QED
    BY <2>1, <2>2, <2>3 DEF Journey
<1>3. CASE Next /\ ~Receive
  <2>1. meant = Nothing /\ UNCHANGED understood /\ (meant # Nothing /\ Sent)'
    BY <1>3, SendsSent
  <2>2. understood = Nothing
    BY <2>1 DEF Journey
  <2>3. QED
    BY <2>1, <2>2 DEF Journey
<1>4. QED
  BY <1>1, <1>2, <1>3

LEMMA JourneyAlways == Spec => []Journey
<1>1. Init => Journey
  BY DEF Init, Journey
<1>2. QED
  BY <1>1, StepJourney, PTL DEF Spec

(* Every struct this code sends is read as what it was written as, by any  *)
(* node of any type, and within the receiver's buffer.                     *)
THEOREM ReadableCorrect == Spec => []SentIsReadable
<1>1. Journey => SentIsReadable
  BY DEF Journey, Right, SentIsReadable, Received
<1>2. QED
  BY <1>1, JourneyAlways, PTL

(* It is read as being about the layer, the kind of data and the timecode  *)
(* modes it was sent for.                                                  *)
THEOREM LayersCorrect == Spec => []LayersKeptApart
<1>1. Journey => LayersKeptApart
  BY DEF Journey, Right, LayersKeptApart, Received
<1>2. QED
  BY <1>1, JourneyAlways, PTL

(* Any name is read as what fits of it, less outer blanks and final NULs,  *)
(* or as empty if a character is cut, and any title up to its first NUL or *)
(* the end of the field, however the characters fall on that end.          *)
THEOREM TextsCorrect == Spec => []TextSurvives
<1>1. Journey => TextSurvives
  BY DEF Journey, Right, TextSurvives, Received
<1>2. QED
  BY <1>1, JourneyAlways, PTL

(* A payload of any length at all is joined from its chunks as it was cut. *)
THEOREM PayloadsCorrect == Spec => []PayloadsJoin
<1>1. Journey => PayloadsJoin
  BY DEF Journey, Right, PayloadsJoin, Received
<1>2. QED
  BY <1>1, JourneyAlways, PTL
=============================================================================
