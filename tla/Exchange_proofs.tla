--------------------------- MODULE Exchange_proofs ---------------------------
(***************************************************************************)
(* Proofs about Exchange, for every set of requests for any kinds of data, *)
(* every number of packets and capacity, and any number of calls, losses.  *)
(***************************************************************************)
EXTENDS Exchange, FiniteSetTheorems, TLAPS

InFlight == outgoing \cup network

Todo == Seq([kind : Kinds, total : 0..MaxTotal])

-------------------------------------------------------------------------------
(* Facts about the helpers *)

LEMMA ConstantFacts ==
  /\ \A r \in Requests : KindOf[r] \in Kinds
  /\ MaxTotal \in Nat \ {0}
  /\ OutgoingCap \in Nat \ {0}
  /\ MaxCalls \in Nat
  /\ None \in Versions /\ None = 0
  /\ Numbers = 0..(MaxTotal - 1)
  /\ "error" \notin Kinds
BY ConstantsAssumption DEF None, Versions, Numbers, Kinds

(* What every call does: it stores a response of each kind it is about, and *)
(* if the cues are among them the cue state is of this call.                *)
LEMMA CallForm ==
  ASSUME Calls
  PROVE  \E todo \in Todo, kinds \in SUBSET Kinds :
           /\ Call(todo, kinds)
           /\ cues' \in {cues, calls + 1}
           /\ "CueData" \in kinds => cues' = calls + 1
           /\ \A k \in kinds : \E i \in 1..Len(todo) : todo[i].kind = k
           /\ \A i \in 1..Len(todo) : todo[i].kind \in kinds
           /\ \A i, j \in 1..Len(todo) : todo[i].kind = todo[j].kind => i = j
<1> DEFINE Form(todo, kinds) ==
      /\ Call(todo, kinds)
      /\ cues' \in {cues, calls + 1}
      /\ "CueData" \in kinds => cues' = calls + 1
      /\ \A k \in kinds : \E i \in 1..Len(todo) : todo[i].kind = k
      /\ \A i \in 1..Len(todo) : todo[i].kind \in kinds
      /\ \A i, j \in 1..Len(todo) : todo[i].kind = todo[j].kind => i = j
<1>1. 1 \in 0..MaxTotal
  BY ConstantFacts
<1>2. ASSUME NEW total \in 1..MaxTotal, LoadTrack(total)
      PROVE  \E todo \in Todo, kinds \in SUBSET Kinds : Form(todo, kinds)
  <2> DEFINE todo == <<Response("SmallWaveform", 1), Response("BigWaveform", 1),
                       Response("BeatGrid", total), Response("CueData", 1),
                       Response("ArtworkFile", 1)>>
  <2>1. todo \in Todo
    BY <1>1, ConstantFacts DEF Todo, Response, Kinds
  <2>2. Len(todo) = 5
    OBVIOUS
  <2>3. \A k \in Kinds : \E i \in 1..5 : todo[i].kind = k
    BY DEF Kinds, Response
  <2>4. \A i \in 1..5 : todo[i].kind \in Kinds
    BY DEF Kinds, Response
  <2>5. \A i, j \in 1..5 : todo[i].kind = todo[j].kind => i = j
    BY DEF Response
  <2>6. Form(todo, Kinds)
    BY <1>2, <2>2, <2>3, <2>4, <2>5 DEF LoadTrack
  <2>7. QED
    BY <2>1, <2>6
<1>3. ASSUME NEW total \in 0..MaxTotal, SetWaveforms(total)
      PROVE  \E todo \in Todo, kinds \in SUBSET Kinds : Form(todo, kinds)
  <2> DEFINE todo == <<Response("SmallWaveform", 1), Response("BigWaveform", total)>>
             kinds == {"SmallWaveform", "BigWaveform"}
  <2>1. todo \in Todo /\ kinds \in SUBSET Kinds
    BY <1>1 DEF Todo, Response, Kinds
  <2>2. Len(todo) = 2 /\ todo[1].kind = "SmallWaveform" /\ todo[2].kind = "BigWaveform"
    BY DEF Response
  <2>3. Form(todo, kinds)
    BY <1>3, <2>2 DEF SetWaveforms
  <2>4. QED
    BY <2>1, <2>3
<1>4. ASSUME NEW total \in 1..MaxTotal, SetBeatGrid(total)
      PROVE  \E todo \in Todo, kinds \in SUBSET Kinds : Form(todo, kinds)
  <2> DEFINE todo == <<Response("BeatGrid", total)>>
             kinds == {"BeatGrid"}
  <2>1. todo \in Todo /\ kinds \in SUBSET Kinds
    BY ConstantFacts DEF Todo, Response, Kinds
  <2>2. Len(todo) = 1 /\ todo[1].kind = "BeatGrid"
    BY DEF Response
  <2>3. Form(todo, kinds)
    BY <1>4, <2>2 DEF SetBeatGrid
  <2>4. QED
    BY <2>1, <2>3
<1>5. ASSUME SetCues
      PROVE  \E todo \in Todo, kinds \in SUBSET Kinds : Form(todo, kinds)
  <2> DEFINE todo == <<Response("CueData", 1)>>
             kinds == {"CueData"}
  <2>1. todo \in Todo /\ kinds \in SUBSET Kinds
    BY <1>1 DEF Todo, Response, Kinds
  <2>2. Len(todo) = 1 /\ todo[1].kind = "CueData"
    BY DEF Response
  <2>3. Form(todo, kinds)
    BY <1>5, <2>2 DEF SetCues
  <2>4. QED
    BY <2>1, <2>3
<1>6. QED
  BY <1>2, <1>3, <1>4, <1>5 DEF Calls

LEMMA AnswerType ==
  ASSUME TypeOK, NEW r \in Requests
  PROVE  /\ Answer(r) \subseteq Packets
         /\ \A packet \in Answer(r) : packet.kind = KindOf[r]
BY ConstantFacts DEF TypeOK, Answer, Packets, Numbers

(* The packets that are accepted are numbered below the room that is left. *)
LEMMA AcceptedFits ==
  ASSUME TypeOK, NEW r \in Requests
  PROVE  /\ IsFiniteSet(outgoing \cup Accepted(Answer(r)))
         /\ Cardinality(outgoing \cup Accepted(Answer(r))) <= OutgoingCap
<1> DEFINE room == OutgoingCap - Cardinality(outgoing)
           accepted == Accepted(Answer(r))
           f == [packet \in accepted |-> packet.no]
<1>1. IsFiniteSet(outgoing) /\ Cardinality(outgoing) \in Nat /\ Cardinality(outgoing) <= OutgoingCap
  BY FS_CardinalityType DEF TypeOK
<1>2. OutgoingCap \in Nat /\ room \in Nat
  BY <1>1, ConstantFacts
<1>3. \A packet \in accepted : packet.no \in 0..(room - 1)
  <2> SUFFICES ASSUME NEW packet \in accepted PROVE packet.no \in 0..(room - 1)
    OBVIOUS
  <2>1. packet.no \in Nat
    BY AnswerType, ConstantFacts DEF Accepted, Packets
  <2>2. Cardinality(outgoing) + packet.no < OutgoingCap
    BY DEF Accepted
  <2>3. QED
    BY <1>1, <1>2, <2>1, <2>2
<1>4. \A p, q \in accepted : p.no = q.no => p = q
  BY DEF Accepted, Answer
<1>5. f \in Injection(accepted, 0..(room - 1))
  BY <1>3, <1>4 DEF Injection, IsInjective
<1>6. IsFiniteSet(0..(room - 1)) /\ Cardinality(0..(room - 1)) = room
  <2>1. 0 \in Int /\ room - 1 \in Int
    BY <1>2
  <2>2. /\ IsFiniteSet(0..(room - 1))
        /\ Cardinality(0..(room - 1)) = IF 0 > room - 1 THEN 0 ELSE (room - 1) - 0 + 1
    BY ONLY <2>1, FS_Interval
  <2>3. QED
    BY <1>2, <2>2
<1>7. IsFiniteSet(accepted) /\ Cardinality(accepted) <= room
  BY <1>5, <1>6, FS_Injection
<1>8. /\ IsFiniteSet(outgoing \cup accepted)
      /\ Cardinality(outgoing \cup accepted)
           = Cardinality(outgoing) + Cardinality(accepted) - Cardinality(outgoing \cap accepted)
  BY <1>1, <1>7, FS_Union
<1>9. Cardinality(accepted) \in Nat /\ Cardinality(outgoing \cap accepted) \in Nat
  <2>1. IsFiniteSet(outgoing \cap accepted)
    BY <1>1, FS_Subset
  <2>2. QED
    BY <1>7, <2>1, FS_CardinalityType
<1>10. QED
  BY <1>1, <1>2, <1>7, <1>8, <1>9

-------------------------------------------------------------------------------
(* Type correctness *)

LEMMA InitType == Init => TypeOK
<1> SUFFICES ASSUME Init PROVE TypeOK
  OBVIOUS
<1>1. IsFiniteSet(outgoing) /\ Cardinality(outgoing) <= OutgoingCap
  BY FS_EmptySet, ConstantFacts DEF Init
<1>2. user \in Calling
  BY DEF Init, Resting, Calling
<1>3. QED
  BY <1>1, <1>2, ConstantsAssumption, ConstantFacts DEF Init, TypeOK, NoChunks

LEMMA UserType ==
  ASSUME TypeOK, Calls \/ Store \/ Return
  PROVE  TypeOK'
<1>1. UNCHANGED <<asks, outgoing, network, losses, peerVars, cause>>
  BY DEF Calls, LoadTrack, SetWaveforms, SetBeatGrid, SetCues, Call, Store, Return
<1>2. /\ cache' \in [Kinds -> [version : Versions, total : 0..MaxTotal]]
      /\ cues' \in Versions
      /\ user' \in Calling
      /\ calls' \in Versions
      /\ promised' \in [Kinds -> Versions]
  <2>1. CASE Calls
    <3>1. PICK todo \in Todo, kinds \in SUBSET Kinds :
            Call(todo, kinds) /\ cues' \in {cues, calls + 1}
      BY <2>1, CallForm
    <3>2. calls + 1 \in Versions
      BY <3>1, ConstantFacts DEF Call, TypeOK, Versions
    <3>3. user' \in Calling
      BY <3>1 DEF Call, Calling, Todo
    <3>4. QED
      BY <3>1, <3>2, <3>3 DEF Call, TypeOK
  <2>2. CASE Store
    <3>1. /\ user.todo \in Todo /\ user.kinds \in SUBSET Kinds
          /\ user = [todo |-> user.todo, kinds |-> user.kinds]
      BY DEF TypeOK, Calling, Todo
    <3>2. Head(user.todo) \in [kind : Kinds, total : 0..MaxTotal] /\ Tail(user.todo) \in Todo
      <4> DEFINE Entry == [kind : Kinds, total : 0..MaxTotal]
      <4> HIDE DEF Entry
      <4>1. user.todo \in Seq(Entry) /\ user.todo # <<>>
        BY <2>2, <3>1 DEF Store, Todo, Entry
      <4>2. Head(user.todo) \in Entry /\ Tail(user.todo) \in Seq(Entry)
        BY <4>1
      <4>3. QED
        BY <4>2 DEF Todo, Entry
    <3>3. user' \in Calling
      BY <2>2, <3>1, <3>2 DEF Store, Calling, Todo
    <3>4. cache' \in [Kinds -> [version : Versions, total : 0..MaxTotal]]
      <4> DEFINE next == Head(user.todo)
                 response == [version |-> IF next.kind = "CueData" THEN cues ELSE calls,
                              total |-> next.total]
      <4>1. response \in [version : Versions, total : 0..MaxTotal] /\ next.kind \in Kinds
        BY <3>2 DEF TypeOK
      <4>2. cache' = [cache EXCEPT ![next.kind] = response]
        BY <2>2 DEF Store
      <4>3. QED
        BY <4>1, <4>2 DEF TypeOK
    <3>5. QED
      BY <2>2, <3>3, <3>4 DEF Store, TypeOK
  <2>3. CASE Return
    <3>1. Resting \in Calling
      BY DEF Resting, Calling
    <3>2. QED
      BY <2>3, <3>1 DEF Return, TypeOK
  <2>4. QED
    BY <2>1, <2>2, <2>3
<1>3. QED
  BY <1>1, <1>2 DEF peerVars, TypeOK

LEMMA PeerType ==
  ASSUME TypeOK, NEW r \in Requests,
         Ask(r) \/ HandleRequest(r) \/ HandleEmpty(r) \/ LoseAsk(r) \/ Timeout(r)
  PROVE  TypeOK'
<1> USE DEF TypeOK
<1>1. CASE Ask(r)
  BY <1>1, ConstantFacts DEF Ask, nodeVars
<1>2. CASE HandleRequest(r)
  <2>1. outgoing' \subseteq Packets \cup Errors
    BY <1>2, AnswerType DEF HandleRequest, Accepted
  <2>2. IsFiniteSet(outgoing') /\ Cardinality(outgoing') <= OutgoingCap
    BY <1>2, AcceptedFits DEF HandleRequest
  <2>3. QED
    BY <1>2, <2>1, <2>2 DEF HandleRequest, Blame, nodeVars, peerVars
<1>3. CASE HandleEmpty(r)
  <2>1. [kind |-> "error", to |-> r] \in Errors
    BY DEF Errors
  <2>2. IsFiniteSet(outgoing') /\ Cardinality(outgoing') <= OutgoingCap
    <3>1. CASE Cardinality(outgoing) < OutgoingCap
      <4> DEFINE error == [kind |-> "error", to |-> r]
      <4>1. IsFiniteSet(outgoing) /\ Cardinality(outgoing) \in Nat
        BY FS_CardinalityType
      <4>2. /\ IsFiniteSet(outgoing \cup {error})
            /\ Cardinality(outgoing \cup {error})
                 = IF error \in outgoing THEN Cardinality(outgoing) ELSE Cardinality(outgoing) + 1
        BY <4>1, FS_AddElement
      <4>3. outgoing' = outgoing \cup {error}
        BY <1>3, <3>1 DEF HandleEmpty
      <4>4. QED
        BY <3>1, <4>1, <4>2, <4>3, ConstantFacts
    <3>2. CASE ~(Cardinality(outgoing) < OutgoingCap)
      BY <1>3, <3>2 DEF HandleEmpty
    <3>3. QED
      BY <3>1, <3>2
  <2>3. QED
    BY <1>3, <2>1, <2>2 DEF HandleEmpty, Blame, nodeVars, peerVars
<1>4. CASE LoseAsk(r)
  BY <1>4, ConstantsAssumption DEF LoseAsk, Blame, nodeVars, peerVars
<1>5. CASE Timeout(r)
  BY <1>5 DEF Timeout, nodeVars
<1>6. QED
  BY <1>1, <1>2, <1>3, <1>4, <1>5

LEMMA StoreChunkType ==
  ASSUME TypeOK, NEW r \in Requests, NEW packet \in Packets
  PROVE  /\ SizeWith(r, packet) \in 1..MaxTotal
         /\ StoreChunk(r, packet) \in [Numbers -> Versions]
         /\ \A no \in Numbers :
              StoreChunk(r, packet)[no] =
                IF no = packet.no /\ no < SizeWith(r, packet) THEN packet.version ELSE chunks[r][no]
<1>1. SizeWith(r, packet) \in 1..MaxTotal
  BY ConstantFacts DEF SizeWith, TypeOK, Packets
<1>2. chunks[r] \in [Numbers -> Versions] /\ packet.no \in Numbers /\ packet.version \in Versions
  BY DEF TypeOK, Packets
<1>3. QED
  BY <1>1, <1>2 DEF StoreChunk

LEMMA NetworkType ==
  ASSUME TypeOK,
         SendOutgoing \/ \E packet \in network :
           LosePacket(packet) \/ Arrive(packet) \/ ArriveError(packet)
  PROVE  TypeOK'
<1> USE DEF TypeOK
<1>1. CASE SendOutgoing
  <2>1. IsFiniteSet(outgoing') /\ Cardinality(outgoing') <= OutgoingCap
    BY <1>1, FS_EmptySet, ConstantFacts DEF SendOutgoing
  <2>2. QED
    BY <1>1, <2>1 DEF SendOutgoing, nodeVars, peerVars
<1>2. ASSUME NEW packet \in network, LosePacket(packet) PROVE TypeOK'
  BY <1>2, ConstantsAssumption DEF LosePacket, Blame, nodeVars, peerVars
<1>3. ASSUME NEW packet \in network, ArriveError(packet) PROVE TypeOK'
  BY <1>3 DEF ArriveError, nodeVars, peerVars
<1>4. ASSUME NEW packet \in network, Arrive(packet) PROVE TypeOK'
  <2>1. packet \in Packets
    BY <1>4, ConstantFacts DEF Arrive, Errors
  <2>2. /\ size' \in [Requests -> 0..MaxTotal]
        /\ chunks' \in [Requests -> [Numbers -> Versions]]
    BY <1>4, <2>1, StoreChunkType, ConstantFacts DEF Arrive
  <2>3. status' \in [Requests -> {"idle", "pending", "ok", "err"}]
    BY <1>4 DEF Arrive
  <2>4. QED
    BY <1>4, <2>2, <2>3 DEF Arrive, nodeVars
<1>5. QED
  BY <1>1, <1>2, <1>3, <1>4

LEMMA StepType == TypeOK /\ [Next]_vars => TypeOK'
<1>1. ASSUME TypeOK, UNCHANGED vars PROVE TypeOK'
  BY <1>1 DEF vars, nodeVars, peerVars, TypeOK
<1>2. QED
  BY <1>1, UserType, PeerType, NetworkType DEF Next

(* The state keeps its shape: in particular no answer, whatever its number *)
(* of packets, fills the outgoing queue past its capacity.                 *)
THEOREM TypeCorrect == Spec => []TypeOK
BY InitType, StepType, PTL DEF Spec

-------------------------------------------------------------------------------
(* What the node keeps of its calls *)

(* Of every kind the cache holds what the last call that returned made, or *)
(* something newer; a call still has to store what its kinds lack; and     *)
(* what has no version has no packets.                                     *)
CacheCurrent ==
  /\ \A k \in Kinds : promised[k] <= calls /\ cache[k].version >= promised[k]
  /\ cues <= calls /\ cues >= promised["CueData"]
  /\ "CueData" \in user.kinds => cues = calls
  /\ user.kinds # {} => calls > 0
  /\ \A k \in user.kinds :
       cache[k].version = calls \/ \E i \in 1..Len(user.todo) : user.todo[i].kind = k
  /\ \A i \in 1..Len(user.todo) : user.todo[i].kind \in user.kinds
  /\ \A k \in Kinds : cache[k].version = None => cache[k].total = 0

LEMMA InitCurrent == Init => CacheCurrent
BY ConstantFacts DEF Init, CacheCurrent, Resting, Kinds

LEMMA CallCurrent ==
  ASSUME TypeOK, CacheCurrent, Calls
  PROVE  CacheCurrent'
<1>1. PICK todo \in Todo, kinds \in SUBSET Kinds :
        /\ Call(todo, kinds)
        /\ cues' \in {cues, calls + 1}
        /\ "CueData" \in kinds => cues' = calls + 1
        /\ \A k \in kinds : \E i \in 1..Len(todo) : todo[i].kind = k
        /\ \A i \in 1..Len(todo) : todo[i].kind \in kinds
  BY CallForm
<1>2. /\ calls' = calls + 1 /\ user'.todo = todo /\ user'.kinds = kinds
      /\ UNCHANGED <<cache, promised>>
  BY <1>1 DEF Call
<1>3. /\ calls \in Nat /\ cues \in Nat
      /\ \A k \in Kinds : promised[k] \in Nat /\ cache[k].version \in Nat
      /\ "CueData" \in Kinds
  BY DEF TypeOK, Versions, Kinds
<1>4. QED
  BY <1>1, <1>2, <1>3 DEF CacheCurrent

LEMMA StoreCurrent ==
  ASSUME TypeOK, CacheCurrent, Store
  PROVE  CacheCurrent'
<1> DEFINE next == Head(user.todo)
           version == IF next.kind = "CueData" THEN cues ELSE calls
           Entry == [kind : Kinds, total : 0..MaxTotal]
<1> HIDE DEF Entry
<1>1. /\ user.todo \in Seq(Entry) /\ user.todo # <<>>
      /\ user'.todo = Tail(user.todo) /\ user'.kinds = user.kinds
      /\ cache' = [cache EXCEPT ![next.kind] = [version |-> version, total |-> next.total]]
      /\ UNCHANGED <<cues, calls, promised>>
  BY DEF Store, TypeOK, Calling, Entry
<1>2. next = user.todo[1] /\ next \in Entry /\ 1 \in 1..Len(user.todo)
  BY <1>1
<1>3. next.kind \in Kinds /\ next.kind \in user.kinds
  BY <1>2 DEF Entry, CacheCurrent
<1>4. version = calls /\ calls > 0 /\ calls \in Nat
  BY <1>3 DEF CacheCurrent, TypeOK, Versions
<1>5. \A k \in Kinds :
        cache'[k] = IF k = next.kind THEN [version |-> version, total |-> next.total] ELSE cache[k]
  BY <1>1, <1>3 DEF TypeOK
<1>6. \A i \in 1..Len(user.todo) : i # 1 => i - 1 \in 1..Len(Tail(user.todo))
                                            /\ Tail(user.todo)[i - 1] = user.todo[i]
  BY <1>1
<1>7. \A i \in 1..Len(Tail(user.todo)) : i + 1 \in 1..Len(user.todo)
                                         /\ Tail(user.todo)[i] = user.todo[i + 1]
  BY <1>1
<1>8. \A k \in user.kinds :
        cache'[k].version = calls \/ \E i \in 1..Len(user'.todo) : user'.todo[i].kind = k
  <2> SUFFICES ASSUME NEW k \in user.kinds
               PROVE  cache'[k].version = calls
                        \/ \E i \in 1..Len(user'.todo) : user'.todo[i].kind = k
    OBVIOUS
  <2>1. k \in Kinds
    BY DEF TypeOK, Calling
  <2>2. CASE k = next.kind
    BY <1>4, <1>5, <2>1, <2>2
  <2>3. CASE k # next.kind /\ cache[k].version = calls
    BY <1>5, <2>1, <2>3
  <2>4. ASSUME k # next.kind, NEW i \in 1..Len(user.todo), user.todo[i].kind = k
        PROVE  \E j \in 1..Len(user'.todo) : user'.todo[j].kind = k
    BY <1>1, <1>2, <1>6, <2>4
  <2>5. QED
    BY <2>2, <2>3, <2>4 DEF CacheCurrent
<1>9. \A i \in 1..Len(user'.todo) : user'.todo[i].kind \in user'.kinds
  BY <1>1, <1>7 DEF CacheCurrent
<1>10. \A k \in Kinds :
         /\ promised'[k] <= calls' /\ cache'[k].version >= promised'[k]
         /\ cache'[k].version = None => cache'[k].total = 0
  BY <1>1, <1>4, <1>5, ConstantFacts DEF CacheCurrent
<1>11. QED
  BY <1>1, <1>8, <1>9, <1>10 DEF CacheCurrent

LEMMA ReturnCurrent ==
  ASSUME TypeOK, CacheCurrent, Return
  PROVE  CacheCurrent'
<1>1. /\ user.todo = <<>>
      /\ promised' = [k \in Kinds |-> IF k \in user.kinds THEN calls ELSE promised[k]]
      /\ user' = Resting
      /\ UNCHANGED <<cache, cues, calls>>
  BY DEF Return
<1>2. \A k \in user.kinds : cache[k].version = calls
  BY <1>1 DEF CacheCurrent
<1>3. calls \in Nat /\ "CueData" \in Kinds
  BY DEF TypeOK, Versions, Kinds
<1>4. QED
  BY <1>1, <1>2, <1>3 DEF CacheCurrent, Resting

LEMMA StepCurrent == TypeOK /\ CacheCurrent /\ [Next]_vars => CacheCurrent'
<1>1. ASSUME CacheCurrent, UNCHANGED nodeVars PROVE CacheCurrent'
  BY <1>1 DEF nodeVars, CacheCurrent
<1>2. ASSUME [Next]_vars, ~(Calls \/ Store \/ Return) PROVE UNCHANGED nodeVars
  BY <1>2 DEF Next, Ask, HandleRequest, HandleEmpty, LoseAsk, Timeout, SendOutgoing, LosePacket,
              Arrive, ArriveError, vars
<1>3. QED
  BY <1>1, <1>2, CallCurrent, StoreCurrent, ReturnCurrent

(* What was promised stays promised. *)
LEMMA PromisesGrow ==
  ASSUME TypeOK, CacheCurrent, [Next]_vars
  PROVE  \A k \in Kinds : promised'[k] \in Nat /\ promised'[k] >= promised[k]
<1>1. \A k \in Kinds : promised[k] \in Nat /\ calls >= promised[k] /\ calls \in Nat
  BY DEF TypeOK, Versions, CacheCurrent
<1>2. CASE Return
  BY <1>1, <1>2 DEF Return
<1>3. CASE ~Return
  <2>1. UNCHANGED promised
    BY <1>3 DEF Next, Calls, LoadTrack, SetWaveforms, SetBeatGrid, SetCues, Call, Store, Ask,
                HandleRequest, HandleEmpty, LoseAsk, Timeout, SendOutgoing, LosePacket, Arrive,
                ArriveError, nodeVars, vars
  <2>2. QED
    BY <1>1, <2>1
<1>4. QED
  BY <1>2, <1>3

-------------------------------------------------------------------------------
(* Answers are fresh *)

(* While a request that began with nothing of its kind under way waits,    *)
(* nothing of its kind that is stored or on its way is older than its      *)
(* floor, and neither will what is still to be sent be.                    *)
NothingStale ==
  /\ \A r \in Requests : status[r] = "idle" => chunks[r] = NoChunks /\ size[r] = 0
  /\ \A r \in Requests :
       status[r] = "pending" /\ clean[r] =>
         /\ promised[KindOf[r]] >= floor[r]
         /\ \A packet \in InFlight : packet.kind = KindOf[r] => packet.version >= floor[r]
         /\ \A no \in Numbers : chunks[r][no] = None \/ chunks[r][no] >= floor[r]

LEMMA InitStale == Init => NothingStale /\ FreshAnswers
BY DEF Init, NothingStale, FreshAnswers

(* What enters the network is newer than what was promised. *)
LEMMA NewlySent ==
  ASSUME TypeOK, CacheCurrent, [Next]_vars
  PROVE  \A packet \in InFlight' :
           \/ packet \in InFlight
           \/ packet.kind = "error"
           \/ packet.kind \in Kinds /\ packet.version >= promised[packet.kind]
<1>1. ASSUME NEW r \in Requests, HandleRequest(r)
      PROVE  \A packet \in InFlight' \ InFlight :
               packet.kind \in Kinds /\ packet.version >= promised[packet.kind]
  <2>1. InFlight' \subseteq InFlight \cup Answer(r)
    BY <1>1 DEF HandleRequest, Accepted, InFlight
  <2>2. \A packet \in Answer(r) : packet.kind = KindOf[r] /\ packet.version = cache[KindOf[r]].version
    BY DEF Answer
  <2>3. QED
    BY <2>1, <2>2, ConstantFacts DEF CacheCurrent
<1>2. ASSUME NEW r \in Requests, HandleEmpty(r)
      PROVE  \A packet \in InFlight' \ InFlight : packet.kind = "error"
  BY <1>2 DEF HandleEmpty, InFlight
<1>3. CASE \A r \in Requests : ~HandleRequest(r) /\ ~HandleEmpty(r)
  <2>1. InFlight' \subseteq InFlight
    BY <1>3 DEF Next, Calls, LoadTrack, SetWaveforms, SetBeatGrid, SetCues, Call, Store, Return, Ask,
                LoseAsk, Timeout, SendOutgoing, LosePacket, Arrive, ArriveError, vars, InFlight
  <2>2. QED
    BY <2>1
<1>4. QED
  BY <1>1, <1>2, <1>3

LEMMA SameClasses ==
  ASSUME TypeOK, CacheCurrent, NothingStale, FreshAnswers, [Next]_vars,
         UNCHANGED <<size, chunks, floor, clean>>,
         \A r \in Requests : status'[r] = status[r] \/ status'[r] = "err"
  PROVE  NothingStale' /\ FreshAnswers'
<1>1. ASSUME NEW r \in Requests, status[r] = "pending", clean[r]
      PROVE  promised'[KindOf[r]] >= floor[r]
  <2>1. /\ promised[KindOf[r]] >= floor[r] /\ floor[r] \in Nat /\ promised[KindOf[r]] \in Nat
        /\ KindOf[r] \in Kinds
    BY <1>1, ConstantFacts DEF NothingStale, TypeOK, Versions
  <2>2. QED
    BY <2>1, PromisesGrow
<1>2. ASSUME NEW r \in Requests, status[r] = "pending", clean[r],
             NEW packet \in InFlight', packet.kind = KindOf[r]
      PROVE  packet.version >= floor[r]
  <2>1. CASE packet \in InFlight
    BY <1>2, <2>1 DEF NothingStale
  <2>2. CASE packet \notin InFlight
    <3>1. packet.version >= promised[KindOf[r]] /\ KindOf[r] \in Kinds
      BY <1>2, <2>2, NewlySent, ConstantFacts
    <3>2. packet.version \in Nat
      <4>1. TypeOK'
        BY StepType
      <4>2. packet \in Packets
        BY <1>2, <4>1, ConstantFacts DEF TypeOK, InFlight, Errors
      <4>3. QED
        BY <4>2 DEF Packets, Versions
    <3>3. promised[KindOf[r]] >= floor[r] /\ promised[KindOf[r]] \in Nat /\ floor[r] \in Nat
      BY <1>2, <3>1 DEF NothingStale, TypeOK, Versions
    <3>4. QED
      BY <3>1, <3>2, <3>3
  <2>3. QED
    BY <2>1, <2>2
<1>3. NothingStale'
  BY <1>1, <1>2 DEF NothingStale
<1>4. FreshAnswers'
  BY DEF FreshAnswers
<1>5. QED
  BY <1>3, <1>4

LEMMA AskStale ==
  ASSUME TypeOK, NothingStale, FreshAnswers, NEW r \in Requests, Ask(r)
  PROVE  NothingStale' /\ FreshAnswers'
<1>1. /\ status' = [status EXCEPT ![r] = "pending"]
      /\ floor' = [floor EXCEPT ![r] = promised[KindOf[r]]]
      /\ clean' = [clean EXCEPT ![r] = ~UnderWay(KindOf[r])]
      /\ UNCHANGED <<promised, InFlight, size, chunks>>
      /\ status[r] = "idle"
  BY DEF Ask, nodeVars, InFlight
<1>2. clean'[r] => \A packet \in InFlight : packet.kind # KindOf[r]
  BY <1>1 DEF UnderWay, InFlight, TypeOK
<1>3. /\ floor'[r] = promised[KindOf[r]] /\ promised[KindOf[r]] \in Nat
      /\ \A no \in Numbers : chunks[r][no] = None
  BY <1>1, ConstantFacts DEF TypeOK, NothingStale, NoChunks, Versions
<1>4. \A q \in Requests \ {r} : status'[q] = status[q] /\ floor'[q] = floor[q] /\ clean'[q] = clean[q]
  BY <1>1 DEF TypeOK
<1>5. status'[r] = "pending"
  BY <1>1 DEF TypeOK
<1>6. NothingStale'
  BY <1>1, <1>2, <1>3, <1>4, <1>5 DEF NothingStale
<1>7. FreshAnswers'
  BY <1>1, <1>4, <1>5 DEF FreshAnswers
<1>8. QED
  BY <1>6, <1>7

LEMMA ArriveStale ==
  ASSUME TypeOK, NothingStale, FreshAnswers, NEW packet \in network, Arrive(packet)
  PROVE  NothingStale' /\ FreshAnswers'
<1> DEFINE waiting == Pending(packet.kind)
           stored(r) == StoreChunk(r, packet)
<1>1. packet \in Packets /\ packet \in InFlight
  BY ConstantFacts DEF Arrive, TypeOK, Errors, InFlight
<1>2. /\ InFlight' \subseteq InFlight
      /\ UNCHANGED <<promised, floor, clean>>
  BY DEF Arrive, nodeVars, InFlight
<1>3. ASSUME NEW r \in Requests \ waiting
      PROVE  status'[r] = status[r] /\ size'[r] = size[r] /\ chunks'[r] = chunks[r]
  BY DEF Arrive
<1>4. ASSUME NEW r \in waiting
      PROVE  /\ status[r] = "pending" /\ KindOf[r] = packet.kind /\ r \in Requests
             /\ size'[r] = SizeWith(r, packet) /\ chunks'[r] = stored(r)
             /\ status'[r] \in {"pending", "ok"}
             /\ status'[r] = "ok" => Complete(stored(r), SizeWith(r, packet))
  BY DEF Arrive, Pending
<1>5. ASSUME NEW r \in waiting, clean[r], NEW no \in Numbers
      PROVE  stored(r)[no] = None \/ stored(r)[no] >= floor[r]
  BY <1>1, <1>4, <1>5, StoreChunkType DEF NothingStale
<1>6. NothingStale'
  <2>1. ASSUME NEW r \in Requests, status'[r] = "idle"
        PROVE  chunks'[r] = NoChunks /\ size'[r] = 0
    BY <1>3, <1>4, <2>1 DEF NothingStale
  <2>2. ASSUME NEW r \in Requests, status'[r] = "pending", clean[r]
        PROVE  /\ promised[KindOf[r]] >= floor[r]
               /\ \A p \in InFlight : p.kind = KindOf[r] => p.version >= floor[r]
               /\ \A no \in Numbers : chunks'[r][no] = None \/ chunks'[r][no] >= floor[r]
    BY <1>3, <1>4, <1>5, <2>2 DEF NothingStale
  <2>3. QED
    BY <1>2, <2>1, <2>2 DEF NothingStale
<1>7. FreshAnswers'
  <2> SUFFICES ASSUME NEW r \in Requests, status'[r] = "ok", clean[r], NEW no \in 0..(size'[r] - 1)
               PROVE  chunks'[r][no] >= floor[r]
    BY <1>2 DEF FreshAnswers
  <2>1. CASE r \in waiting
    <3>1. SizeWith(r, packet) \in 1..MaxTotal
      BY <1>1, StoreChunkType
    <3>2. no \in Numbers /\ no \in 0..(SizeWith(r, packet) - 1)
      BY <1>4, <2>1, <3>1, ConstantFacts
    <3>3. stored(r)[no] # None
      BY <1>4, <2>1, <3>2 DEF Complete
    <3>4. QED
      BY <1>4, <1>5, <2>1, <3>2, <3>3
  <2>2. CASE r \notin waiting
    BY <1>3, <2>2 DEF FreshAnswers
  <2>3. QED
    BY <2>1, <2>2
<1>8. QED
  BY <1>6, <1>7

LEMMA StepStale ==
  ASSUME TypeOK, CacheCurrent, NothingStale, FreshAnswers, [Next]_vars
  PROVE  NothingStale' /\ FreshAnswers'
<1>1. CASE (\A r \in Requests : ~Ask(r)) /\ (\A packet \in network : ~Arrive(packet))
  <2>1. UNCHANGED <<size, chunks, floor, clean>>
    BY <1>1 DEF Next, Calls, LoadTrack, SetWaveforms, SetBeatGrid, SetCues, Call, Store, Return,
                HandleRequest, HandleEmpty, LoseAsk, Timeout, SendOutgoing, LosePacket,
                ArriveError, peerVars, vars
  <2>2. \A r \in Requests : status'[r] = status[r] \/ status'[r] = "err"
    <3>1. CASE \E r \in Requests : Timeout(r)
      BY <3>1 DEF Timeout, TypeOK
    <3>2. CASE \A r \in Requests : ~Timeout(r)
      BY <1>1, <3>2 DEF Next, Calls, LoadTrack, SetWaveforms, SetBeatGrid, SetCues, Call, Store,
                        Return, HandleRequest, HandleEmpty, LoseAsk, SendOutgoing, LosePacket,
                        ArriveError, peerVars, vars
    <3>3. QED
      BY <3>1, <3>2
  <2>3. QED
    BY <2>1, <2>2, SameClasses
<1>2. QED
  BY <1>1, AskStale, ArriveStale

(* An answer to a request that began with nothing of its kind under way is *)
(* as new, in every packet, as the last call that had returned: requests   *)
(* after set_response_*(), set_cue_marker() or load_track() see the new    *)
(* data, whichever calls, requests and losses are interleaved.             *)
THEOREM AnswersAreFresh == Spec => []FreshAnswers
<1>1. Init => TypeOK /\ CacheCurrent /\ NothingStale /\ FreshAnswers
  BY InitType, InitCurrent, InitStale
<1>2. (TypeOK /\ CacheCurrent /\ NothingStale /\ FreshAnswers) /\ [Next]_vars
        => (TypeOK /\ CacheCurrent /\ NothingStale /\ FreshAnswers)'
  BY StepType, StepCurrent, StepStale
<1>3. QED
  BY <1>1, <1>2, PTL DEF Spec

-------------------------------------------------------------------------------
(* Answers are whole *)

(* What is stored, under way or promised is no newer than the cache; what  *)
(* is of the cache's version is of its total, too; and a call has yet to   *)
(* store each of its responses once.                                       *)
CacheNewest ==
  /\ \A k \in Kinds : cache[k].version <= calls
  /\ \A i \in 1..Len(user.todo) : cache[user.todo[i].kind].version < calls
  /\ \A i, j \in 1..Len(user.todo) : user.todo[i].kind = user.todo[j].kind => i = j
  /\ \A packet \in InFlight :
       packet.kind \in Kinds =>
         /\ packet.version <= cache[packet.kind].version
         /\ packet.version = cache[packet.kind].version => packet.total = cache[packet.kind].total
  /\ \A r \in Requests :
       /\ floor[r] <= cache[KindOf[r]].version
       /\ \A no \in Numbers : chunks[r][no] <= cache[KindOf[r]].version

(* A request whose response has not been replaced since it was made has    *)
(* taken its size from that response.                                      *)
SizesRight ==
  \A r \in Requests :
    clean[r] /\ cache[KindOf[r]].version = floor[r] =>
      /\ status[r] = "pending" => size[r] \in {0, cache[KindOf[r]].total}
      /\ status[r] = "ok" => size[r] = cache[KindOf[r]].total

LEMMA InitNewest == Init => CacheNewest /\ SizesRight
<1> SUFFICES ASSUME Init PROVE CacheNewest /\ SizesRight
  OBVIOUS
<1>1. \A r \in Requests : KindOf[r] \in Kinds
  BY ConstantFacts
<1>2. CacheNewest
  BY <1>1, ConstantFacts DEF Init, CacheNewest, InFlight, Resting, NoChunks
<1>3. SizesRight
  BY DEF Init, SizesRight
<1>4. QED
  BY <1>2, <1>3

LEMMA CallNewest ==
  ASSUME TypeOK, CacheNewest, SizesRight, Calls
  PROVE  CacheNewest' /\ SizesRight'
<1>1. PICK todo \in Todo, kinds \in SUBSET Kinds :
        /\ Call(todo, kinds)
        /\ \A i \in 1..Len(todo) : todo[i].kind \in kinds
        /\ \A i, j \in 1..Len(todo) : todo[i].kind = todo[j].kind => i = j
  BY CallForm
<1>2. /\ calls' = calls + 1 /\ user'.todo = todo
      /\ UNCHANGED <<cache, outgoing, network, status, size, chunks, floor, clean>>
  BY <1>1 DEF Call, peerVars
<1>3. calls \in Nat /\ \A k \in Kinds : cache[k].version \in Nat
  BY DEF TypeOK, Versions
<1>4. \A k \in Kinds : cache[k].version < calls'
  BY <1>2, <1>3 DEF CacheNewest
<1>5. /\ \A k \in Kinds : cache'[k].version <= calls'
      /\ \A i \in 1..Len(user'.todo) : cache'[user'.todo[i].kind].version < calls'
      /\ \A i, j \in 1..Len(user'.todo) : user'.todo[i].kind = user'.todo[j].kind => i = j
  BY <1>1, <1>2, <1>3, <1>4
<1>6. CacheNewest'
  BY <1>2, <1>5 DEF CacheNewest, InFlight
<1>7. SizesRight'
  BY <1>2 DEF SizesRight
<1>8. QED
  BY <1>6, <1>7

LEMMA StoreNewest ==
  ASSUME TypeOK, CacheCurrent, CacheNewest, SizesRight, Store
  PROVE  CacheNewest' /\ SizesRight'
<1> DEFINE kind == Head(user.todo).kind
           total == Head(user.todo).total
           Entry == [kind : Kinds, total : 0..MaxTotal]
<1> HIDE DEF Entry
<1>1. /\ user.todo \in Seq(Entry) /\ user.todo # <<>> /\ user'.todo = Tail(user.todo)
      /\ UNCHANGED <<cues, calls, outgoing, network, status, size, chunks, floor, clean>>
  BY DEF Store, TypeOK, Calling, Entry, peerVars
<1>2. /\ Head(user.todo) = user.todo[1] /\ Head(user.todo) \in Entry
      /\ 1 \in 1..Len(user.todo)
  BY <1>1
<1>3. kind \in Kinds /\ kind \in user.kinds /\ cache[kind].version < calls
  BY <1>2 DEF Entry, CacheCurrent, CacheNewest
<1>4. \A k \in Kinds :
        cache'[k] = IF k = kind THEN [version |-> calls, total |-> total] ELSE cache[k]
  BY <1>3 DEF Store, TypeOK, CacheCurrent
<1>5. /\ calls \in Nat
      /\ \A k \in Kinds : cache[k].version \in Nat /\ cache[k].version <= cache'[k].version
  BY <1>3, <1>4 DEF TypeOK, Versions
<1>6. \A i \in 1..Len(user'.todo) :
        /\ i + 1 \in 1..Len(user.todo) /\ user'.todo[i] = user.todo[i + 1]
        /\ user.todo[i + 1] \in Entry
  BY <1>1
<1>7. \A i \in 1..Len(user'.todo) : user'.todo[i].kind # kind /\ user'.todo[i].kind \in Kinds
  BY <1>2, <1>6 DEF CacheNewest, Entry
<1>8. \A i, j \in 1..Len(user'.todo) : user'.todo[i].kind = user'.todo[j].kind => i = j
  <2> SUFFICES ASSUME NEW i \in 1..Len(user'.todo), NEW j \in 1..Len(user'.todo),
                      user'.todo[i].kind = user'.todo[j].kind
               PROVE  i = j
    OBVIOUS
  <2>1. i + 1 = j + 1
    BY <1>6 DEF CacheNewest
  <2>2. QED
    BY <2>1
<1>9. \A i \in 1..Len(user'.todo) : cache'[user'.todo[i].kind].version < calls'
  BY <1>1, <1>4, <1>6, <1>7 DEF CacheNewest
<1>10. \A packet \in InFlight :
         packet.kind \in Kinds =>
           /\ packet.version <= cache'[packet.kind].version
           /\ packet.version = cache'[packet.kind].version =>
                packet.total = cache'[packet.kind].total
  <2> SUFFICES ASSUME NEW packet \in InFlight, packet.kind \in Kinds
               PROVE  /\ packet.version <= cache'[packet.kind].version
                      /\ packet.version = cache'[packet.kind].version =>
                           packet.total = cache'[packet.kind].total
    OBVIOUS
  <2>1. packet.version \in Nat
    BY ConstantFacts DEF TypeOK, InFlight, Packets, Errors, Versions
  <2>2. CASE packet.kind = kind
    BY <1>3, <1>4, <1>5, <2>1, <2>2 DEF CacheNewest
  <2>3. CASE packet.kind # kind
    BY <1>4, <2>3 DEF CacheNewest
  <2>4. QED
    BY <2>2, <2>3
<1>11. ASSUME NEW r \in Requests
       PROVE  /\ floor[r] <= cache'[KindOf[r]].version
              /\ \A no \in Numbers : chunks[r][no] <= cache'[KindOf[r]].version
  <2>1. floor[r] \in Nat /\ \A no \in Numbers : chunks[r][no] \in Nat
    BY DEF TypeOK, Versions
  <2>2. KindOf[r] \in Kinds
    BY ConstantFacts
  <2>3. QED
    BY <1>5, <2>1, <2>2, <1>3, <1>4 DEF CacheNewest
<1>12. CacheNewest'
  <2>1. \A k \in Kinds : cache'[k].version <= calls'
    BY <1>1, <1>4, <1>5 DEF CacheNewest
  <2>2. QED
    BY <1>1, <1>8, <1>9, <1>10, <1>11, <2>1 DEF CacheNewest, InFlight
<1>13. SizesRight'
  <2> SUFFICES ASSUME NEW r \in Requests, clean[r], cache'[KindOf[r]].version = floor[r]
               PROVE  cache'[KindOf[r]] = cache[KindOf[r]]
    BY <1>1 DEF SizesRight
  <2>1. KindOf[r] \in Kinds /\ floor[r] \in Nat /\ floor[r] <= cache[KindOf[r]].version
    BY ConstantFacts DEF CacheNewest, TypeOK, Versions
  <2>2. KindOf[r] # kind
    BY <1>3, <1>4, <1>5, <2>1
  <2>3. QED
    BY <1>4, <2>1, <2>2
<1>14. QED
  BY <1>12, <1>13

LEMMA ReturnNewest ==
  ASSUME CacheNewest, SizesRight, Return
  PROVE  CacheNewest' /\ SizesRight'
<1>1. /\ user'.todo = <<>>
      /\ UNCHANGED <<cache, calls, outgoing, network, status, size, chunks, floor, clean>>
  BY DEF Return, Resting, peerVars
<1>2. CacheNewest'
  BY <1>1 DEF CacheNewest, InFlight
<1>3. SizesRight'
  BY <1>1 DEF SizesRight
<1>4. QED
  BY <1>2, <1>3

LEMMA AskNewest ==
  ASSUME TypeOK, CacheCurrent, NothingStale, CacheNewest, SizesRight, NEW r \in Requests, Ask(r)
  PROVE  CacheNewest' /\ SizesRight'
<1>1. /\ status' = [status EXCEPT ![r] = "pending"]
      /\ floor' = [floor EXCEPT ![r] = promised[KindOf[r]]]
      /\ clean' = [clean EXCEPT ![r] = ~UnderWay(KindOf[r])]
      /\ UNCHANGED <<cache, user, calls, outgoing, network, size, chunks>>
      /\ status[r] = "idle"
  BY DEF Ask, nodeVars
<1>2. KindOf[r] \in Kinds /\ promised[KindOf[r]] <= cache[KindOf[r]].version
  <2>1. promised[KindOf[r]] \in Nat /\ cache[KindOf[r]].version \in Nat /\ KindOf[r] \in Kinds
    BY ConstantFacts DEF TypeOK, Versions
  <2>2. QED
    BY <2>1 DEF CacheCurrent
<1>3. floor'[r] = promised[KindOf[r]] /\ status'[r] = "pending" /\ size[r] = 0
  BY <1>1 DEF TypeOK, NothingStale
<1>4. \A q \in Requests \ {r} : status'[q] = status[q] /\ floor'[q] = floor[q] /\ clean'[q] = clean[q]
  BY <1>1 DEF TypeOK
<1>5. CacheNewest'
  BY <1>1, <1>2, <1>3, <1>4 DEF CacheNewest, InFlight
<1>6. SizesRight'
  BY <1>1, <1>3, <1>4 DEF SizesRight
<1>7. QED
  BY <1>5, <1>6

LEMMA HandleRequestNewest ==
  ASSUME TypeOK, CacheNewest, SizesRight, NEW r \in Requests, HandleRequest(r)
  PROVE  CacheNewest' /\ SizesRight'
<1>1. /\ InFlight' \subseteq InFlight \cup Answer(r)
      /\ UNCHANGED <<cache, user, calls, status, size, chunks, floor, clean>>
  BY DEF HandleRequest, Accepted, InFlight, nodeVars, peerVars
<1>2. ASSUME NEW packet \in Answer(r)
      PROVE  /\ packet.version = cache[packet.kind].version
             /\ packet.total = cache[packet.kind].total
             /\ packet.version <= cache[packet.kind].version
  <2>1. /\ packet.kind = KindOf[r] /\ packet.version = cache[KindOf[r]].version
        /\ packet.total = cache[KindOf[r]].total
    BY DEF Answer
  <2>2. cache[KindOf[r]].version \in Nat
    BY ConstantFacts DEF TypeOK, Versions
  <2>3. QED
    BY <2>1, <2>2
<1>3. CacheNewest'
  BY <1>1, <1>2 DEF CacheNewest
<1>4. SizesRight'
  BY <1>1 DEF SizesRight
<1>5. QED
  BY <1>3, <1>4

LEMMA ArriveNewest ==
  ASSUME TypeOK, NothingStale, CacheNewest, SizesRight, NEW packet \in network, Arrive(packet)
  PROVE  CacheNewest' /\ SizesRight'
<1> DEFINE waiting == Pending(packet.kind)
<1>1. packet \in Packets /\ packet \in InFlight
  BY ConstantFacts DEF Arrive, TypeOK, Errors, InFlight
<1>2. /\ InFlight' \subseteq InFlight
      /\ UNCHANGED <<cache, user, calls, floor, clean>>
  BY DEF Arrive, nodeVars, InFlight
<1>3. ASSUME NEW r \in Requests \ waiting
      PROVE  status'[r] = status[r] /\ size'[r] = size[r] /\ chunks'[r] = chunks[r]
  BY DEF Arrive
<1>4. ASSUME NEW r \in waiting
      PROVE  /\ status[r] = "pending" /\ KindOf[r] = packet.kind /\ r \in Requests
             /\ size'[r] = SizeWith(r, packet) /\ chunks'[r] = StoreChunk(r, packet)
             /\ status'[r] \in {"pending", "ok"}
  BY DEF Arrive, Pending
<1>5. packet.version <= cache[packet.kind].version
  BY <1>1 DEF CacheNewest, Packets
<1>6. ASSUME NEW r \in Requests, NEW no \in Numbers
      PROVE  chunks'[r][no] <= cache[KindOf[r]].version
  <2>1. CASE r \in waiting
    BY <1>1, <1>4, <1>5, <2>1, StoreChunkType DEF CacheNewest
  <2>2. CASE r \notin waiting
    BY <1>3, <2>2 DEF CacheNewest
  <2>3. QED
    BY <2>1, <2>2
<1>7. CacheNewest'
  BY <1>2, <1>6 DEF CacheNewest
<1>8. SizesRight'
  <2> SUFFICES ASSUME NEW r \in Requests, clean[r], cache[KindOf[r]].version = floor[r]
               PROVE  /\ status'[r] = "pending" => size'[r] \in {0, cache[KindOf[r]].total}
                      /\ status'[r] = "ok" => size'[r] = cache[KindOf[r]].total
    BY <1>2 DEF SizesRight
  <2>1. CASE r \in waiting
    <3>1. packet.version >= floor[r]
      BY <1>1, <1>4, <2>1 DEF NothingStale
    <3>2. packet.version \in Nat /\ floor[r] \in Nat
      BY <1>1 DEF Packets, Versions, TypeOK
    <3>3. packet.version = cache[packet.kind].version
      BY <1>4, <1>5, <2>1, <3>1, <3>2
    <3>4. packet.total = cache[KindOf[r]].total
      BY <1>1, <1>4, <2>1, <3>3 DEF CacheNewest, Packets
    <3>5. size[r] \in {0, cache[KindOf[r]].total}
      BY <1>4, <2>1 DEF SizesRight
    <3>6. QED
      BY <1>4, <2>1, <3>4, <3>5 DEF SizeWith
  <2>2. CASE r \notin waiting
    BY <1>3, <2>2 DEF SizesRight
  <2>3. QED
    BY <2>1, <2>2
<1>9. QED
  BY <1>7, <1>8

LEMMA StepNewest ==
  ASSUME TypeOK, CacheCurrent, NothingStale, CacheNewest, SizesRight, [Next]_vars
  PROVE  CacheNewest' /\ SizesRight'
<1>1. ASSUME UNCHANGED <<cache, user, calls, size, chunks, floor, clean>>,
             \A packet \in InFlight' : packet \in InFlight \/ packet.kind = "error",
             \A r \in Requests : status'[r] = status[r] \/ status'[r] = "err"
      PROVE  CacheNewest' /\ SizesRight'
  <2>1. CacheNewest'
    BY <1>1, ConstantFacts DEF CacheNewest
  <2>2. SizesRight'
    BY <1>1 DEF SizesRight
  <2>3. QED
    BY <2>1, <2>2
<1>2. ASSUME NEW r \in Requests, HandleEmpty(r) \/ LoseAsk(r) \/ Timeout(r)
      PROVE  CacheNewest' /\ SizesRight'
  <2>1. UNCHANGED <<cache, user, calls, size, chunks, floor, clean>>
    BY <1>2 DEF HandleEmpty, LoseAsk, Timeout, nodeVars, peerVars
  <2>2. \A packet \in InFlight' : packet \in InFlight \/ packet.kind = "error"
    BY <1>2 DEF HandleEmpty, LoseAsk, Timeout, InFlight
  <2>3. \A q \in Requests : status'[q] = status[q] \/ status'[q] = "err"
    BY <1>2 DEF HandleEmpty, LoseAsk, Timeout, peerVars, TypeOK
  <2>4. QED
    BY <1>1, <2>1, <2>2, <2>3
<1>3. CASE SendOutgoing
  BY <1>1, <1>3 DEF SendOutgoing, InFlight, nodeVars, peerVars
<1>4. ASSUME NEW packet \in network, LosePacket(packet) \/ ArriveError(packet)
      PROVE  CacheNewest' /\ SizesRight'
  BY <1>1, <1>4 DEF LosePacket, ArriveError, InFlight, nodeVars, peerVars
<1>5. CASE UNCHANGED vars
  BY <1>1, <1>5 DEF vars, nodeVars, peerVars, InFlight
<1>6. QED
  BY <1>2, <1>3, <1>4, <1>5, CallNewest, StoreNewest, ReturnNewest, AskNewest,
     HandleRequestNewest, ArriveNewest DEF Next

LEMMA NewestSuffices ==
  TypeOK /\ FreshAnswers /\ CacheNewest /\ SizesRight => WholeAnswers
<1> SUFFICES ASSUME TypeOK, FreshAnswers, CacheNewest, SizesRight, NEW r \in Requests,
                    status[r] = "ok", clean[r], cache[KindOf[r]].version = floor[r]
             PROVE  /\ size[r] = cache[KindOf[r]].total
                    /\ \A no \in 0..(size[r] - 1) : chunks[r][no] = cache[KindOf[r]].version
  BY DEF WholeAnswers
<1>1. size[r] = cache[KindOf[r]].total
  BY DEF SizesRight
<1>2. ASSUME NEW no \in 0..(size[r] - 1) PROVE chunks[r][no] = floor[r]
  <2>1. no \in Numbers
    BY ConstantFacts DEF TypeOK
  <2>2. chunks[r][no] \in Nat /\ floor[r] \in Nat
    BY <2>1 DEF TypeOK, Versions
  <2>3. chunks[r][no] >= floor[r]
    BY DEF FreshAnswers
  <2>4. chunks[r][no] <= cache[KindOf[r]].version
    BY <2>1 DEF CacheNewest
  <2>5. QED
    BY <2>2, <2>3, <2>4
<1>3. QED
  BY <1>1, <1>2

(* If no call has replaced the response meanwhile, the answer is all of it *)
(* and nothing else, whichever older ones are under way or half collected. *)
THEOREM AnswersAreWhole == Spec => []WholeAnswers
<1>1. Init => TypeOK /\ CacheCurrent /\ NothingStale /\ FreshAnswers /\ CacheNewest /\ SizesRight
  BY InitType, InitCurrent, InitStale, InitNewest
<1>2. (TypeOK /\ CacheCurrent /\ NothingStale /\ FreshAnswers /\ CacheNewest /\ SizesRight)
        /\ [Next]_vars
        => (TypeOK /\ CacheCurrent /\ NothingStale /\ FreshAnswers /\ CacheNewest /\ SizesRight)'
  BY StepType, StepCurrent, StepStale, StepNewest
<1>3. QED
  BY <1>1, <1>2, NewestSuffices, PTL DEF Spec

-------------------------------------------------------------------------------
(* A request waits for something *)

Coming(kind, no) == \E packet \in InFlight : packet.kind = kind /\ packet.no = no

(* While nothing of its kind was lost: a request that has no packet yet is *)
(* on its way, or packets are, and these are whole responses; one that has *)
(* packets lacks some, and every number it lacks is on its way.            *)
WaitsFor(r) ==
  /\ size[r] = 0 =>
       /\ r \in asks \/ \E packet \in InFlight : packet.kind = KindOf[r]
       /\ \A packet \in InFlight :
            packet.kind = KindOf[r] => \A no \in 0..(packet.total - 1) : Coming(KindOf[r], no)
  /\ size[r] # 0 =>
       /\ ~Complete(chunks[r], size[r])
       /\ \A no \in 0..(size[r] - 1) : chunks[r][no] # None \/ Coming(KindOf[r], no)

Unharmed(r) == status[r] = "pending" /\ clean[r] /\ ~cause[r]

StillComing ==
  /\ \A packet \in InFlight : packet.kind \in Kinds => packet.version # None
  /\ \A r \in Requests : Unharmed(r) => WaitsFor(r)

LEMMA InitComing == Init => StillComing
BY DEF Init, StillComing, Unharmed, InFlight

(* Packets of a request's kind that stay in flight, and packets of other   *)
(* kinds that come and go, leave it waiting.                               *)
LEMMA SameWait ==
  ASSUME NEW r \in Requests, WaitsFor(r), r \in asks => r \in asks',
         size'[r] = size[r], chunks'[r] = chunks[r],
         \A packet \in InFlight : packet.kind = KindOf[r] => packet \in InFlight',
         \A packet \in InFlight' : packet.kind = KindOf[r] => packet \in InFlight
  PROVE  WaitsFor(r)'
BY DEF WaitsFor, Coming, Complete

LEMMA AskComing ==
  ASSUME TypeOK, NothingStale, StillComing, NEW q \in Requests, Ask(q)
  PROVE  StillComing'
<1>1. /\ UNCHANGED <<InFlight, size, chunks, cause>>
      /\ asks' = asks \cup {q}
      /\ status[q] = "idle"
      /\ clean'[q] = ~UnderWay(KindOf[q])
      /\ \A r \in Requests \ {q} : status'[r] = status[r] /\ clean'[r] = clean[r]
  BY DEF Ask, InFlight, TypeOK
<1>2. ASSUME NEW r \in Requests, r # q, Unharmed(r)' PROVE WaitsFor(r)'
  BY <1>1, <1>2, SameWait DEF StillComing, Unharmed
<1>3. ASSUME Unharmed(q)' PROVE WaitsFor(q)'
  <2>1. size'[q] = 0 /\ q \in asks'
    BY <1>1 DEF NothingStale
  <2>2. \A packet \in InFlight' : packet.kind # KindOf[q]
    BY <1>1, <1>3 DEF Unharmed, UnderWay, InFlight
  <2>3. QED
    BY <2>1, <2>2 DEF WaitsFor
<1>4. QED
  BY <1>1, <1>2, <1>3 DEF StillComing

LEMMA HandleRequestComing ==
  ASSUME TypeOK, CacheCurrent, StillComing, NEW q \in Requests, HandleRequest(q)
  PROVE  StillComing'
<1> DEFINE k == KindOf[q]
<1>1. /\ asks' = asks \ {q}
      /\ InFlight' = InFlight \cup Accepted(Answer(q))
      /\ Accepted(Answer(q)) \subseteq Answer(q)
      /\ UNCHANGED <<status, size, chunks, clean>>
  BY DEF HandleRequest, Accepted, InFlight, peerVars
<1>2. \A packet \in Answer(q) :
        packet.kind = k /\ packet.version # None
          /\ \A no \in 0..(packet.total - 1) : \E p \in Answer(q) : p.kind = k /\ p.no = no
  <2>1. \A packet \in Answer(q) :
          /\ packet.kind = k /\ packet.total = cache[k].total
          /\ packet.version = cache[k].version
          /\ packet.no \in 0..(cache[k].total - 1)
    BY DEF Answer
  <2>2. \A no \in 0..(cache[k].total - 1) : \E p \in Answer(q) : p.kind = k /\ p.no = no
    <3> SUFFICES ASSUME NEW no \in 0..(cache[k].total - 1)
                 PROVE  \E p \in Answer(q) : p.kind = k /\ p.no = no
      OBVIOUS
    <3> DEFINE packet == [kind |-> k, version |-> cache[k].version, total |-> cache[k].total,
                          no |-> no, to |-> q]
    <3>1. packet \in Answer(q)
      BY DEF Answer
    <3>2. QED
      BY <3>1
  <2>3. Answer(q) # {} => cache[k].total # 0
    BY <2>1
  <2>4. Answer(q) # {} => cache[k].version # None
    BY <2>3, ConstantFacts DEF CacheCurrent
  <2>5. QED
    BY <2>1, <2>2, <2>4
<1>3. ASSUME NEW r \in Requests, Unharmed(r)' PROVE WaitsFor(r)'
  <2>1. /\ Unharmed(r) /\ WaitsFor(r)
        /\ KindOf[r] = k => Accepted(Answer(q)) = Answer(q)
    BY <1>1, <1>3 DEF HandleRequest, Blame, Pending, Unharmed, StillComing
  <2>2. CASE KindOf[r] # k
    <3>1. r # q
      BY <2>2
    <3>2. \A packet \in InFlight' : packet.kind = KindOf[r] => packet \in InFlight
      BY <1>1, <1>2, <2>2
    <3>3. QED
      BY <1>1, <2>1, <3>1, <3>2, SameWait
  <2>3. CASE KindOf[r] = k
    <3>1. InFlight' = InFlight \cup Answer(q)
      BY <1>1, <2>1, <2>3
    <3>2. \E packet \in InFlight' : packet.kind = k
      BY <1>2, <3>1 DEF HandleRequest
    <3>3. \A no : Coming(k, no) => Coming(k, no)'
      BY <3>1 DEF Coming
    <3>4. \A packet \in Answer(q) : \A no \in 0..(packet.total - 1) : Coming(k, no)'
      BY <1>2, <3>1 DEF Coming
    <3>5. QED
      BY <1>1, <2>1, <2>3, <3>1, <3>2, <3>3, <3>4 DEF WaitsFor, Complete
  <2>4. QED
    BY <2>2, <2>3
<1>4. \A packet \in InFlight' : packet.kind \in Kinds => packet.version # None
  BY <1>1, <1>2 DEF StillComing
<1>5. QED
  BY <1>3, <1>4 DEF StillComing

(* A loss blames the requests it harms. *)
LEMMA LossComing ==
  ASSUME TypeOK, StillComing,
         \/ \E q \in Requests : HandleEmpty(q) \/ LoseAsk(q)
         \/ \E packet \in network : LosePacket(packet) \/ ArriveError(packet)
  PROVE  StillComing'
<1>1. UNCHANGED <<status, size, chunks, clean>>
  BY DEF HandleEmpty, LoseAsk, LosePacket, ArriveError, peerVars
<1>2. \A packet \in InFlight' : packet.kind \in Kinds => packet \in InFlight
  <2>1. ASSUME NEW q \in Requests, HandleEmpty(q)
        PROVE  InFlight' \subseteq InFlight \cup {[kind |-> "error", to |-> q]}
    BY <2>1 DEF HandleEmpty, InFlight
  <2>2. ASSUME \A q \in Requests : ~HandleEmpty(q)
        PROVE  InFlight' \subseteq InFlight
    BY <2>2 DEF LoseAsk, LosePacket, ArriveError, InFlight
  <2>3. \A q \in Requests : [kind |-> "error", to |-> q].kind \notin Kinds
    BY ConstantFacts
  <2>4. QED
    BY <2>1, <2>2, <2>3
<1>3. ASSUME NEW r \in Requests, Unharmed(r)' PROVE WaitsFor(r)'
  <2>1. Unharmed(r) /\ WaitsFor(r)
    BY <1>1, <1>3 DEF HandleEmpty, LoseAsk, LosePacket, ArriveError, Blame, Unharmed, StillComing
  <2>2. r \in asks => r \in asks'
    BY <1>3 DEF HandleEmpty, LoseAsk, LosePacket, ArriveError, Blame, Unharmed
  <2>3. \A packet \in InFlight : packet.kind = KindOf[r] => packet \in InFlight'
    BY <1>1, <1>3, <2>1, ConstantFacts
       DEF HandleEmpty, LoseAsk, LosePacket, ArriveError, Blame, Pending, Unharmed, InFlight
  <2>4. KindOf[r] \in Kinds
    BY ConstantFacts
  <2>5. QED
    BY <1>1, <1>2, <2>1, <2>2, <2>3, <2>4, SameWait
<1>4. QED
  BY <1>2, <1>3 DEF StillComing

LEMMA ArriveComing ==
  ASSUME TypeOK, StillComing, NEW p \in network, Arrive(p)
  PROVE  StillComing'
<1>1. /\ p \in Packets /\ p \in InFlight /\ p.kind \in Kinds
      /\ InFlight' \subseteq InFlight
      /\ \A packet \in InFlight : packet # p => packet \in InFlight'
      /\ UNCHANGED <<asks, clean, cause>>
  BY ConstantFacts DEF Arrive, TypeOK, Errors, InFlight
<1>2. ASSUME NEW r \in Requests, Unharmed(r)' PROVE WaitsFor(r)'
  <2>1. Unharmed(r) /\ WaitsFor(r)
    BY <1>1, <1>2 DEF Arrive, Pending, Unharmed, StillComing
  <2>2. CASE KindOf[r] # p.kind
    <3>1. size'[r] = size[r] /\ chunks'[r] = chunks[r]
      BY <2>2 DEF Arrive, Pending
    <3>2. QED
      BY <1>1, <2>1, <2>2, <3>1, SameWait
  <2>3. CASE KindOf[r] = p.kind
    <3>1. r \in Pending(p.kind)
      BY <2>1, <2>3 DEF Pending, Unharmed
    <3>2. /\ size'[r] = SizeWith(r, p) /\ chunks'[r] = StoreChunk(r, p)
          /\ ~Complete(StoreChunk(r, p), SizeWith(r, p))
      BY <1>2, <3>1 DEF Arrive, Unharmed
    <3>3. SizeWith(r, p) \in 1..MaxTotal /\ size[r] \in 0..MaxTotal
      BY <1>1, StoreChunkType DEF TypeOK
    <3>4. ASSUME NEW no \in 0..(SizeWith(r, p) - 1)
          PROVE  StoreChunk(r, p)[no] # None \/ Coming(KindOf[r], no)'
      <4>1. no \in Numbers
        BY <3>3, <3>4, ConstantFacts
      <4>2. CASE no = p.no
        <5>1. StoreChunk(r, p)[no] = p.version
          BY <1>1, <3>3, <4>1, <4>2, StoreChunkType
        <5>2. QED
          BY <1>1, <5>1 DEF StillComing
      <4>3. CASE no # p.no
        <5>1. StoreChunk(r, p)[no] = chunks[r][no]
          BY <1>1, <4>1, <4>3, StoreChunkType
        <5>2. chunks[r][no] # None \/ Coming(KindOf[r], no)
          BY <1>1, <2>1, <2>3 DEF WaitsFor, SizeWith
        <5>3. Coming(KindOf[r], no) => Coming(KindOf[r], no)'
          BY <1>1, <4>3 DEF Coming
        <5>4. QED
          BY <5>1, <5>2, <5>3
      <4>4. QED
        BY <4>2, <4>3
    <3>5. QED
      BY <3>2, <3>3, <3>4 DEF WaitsFor
  <2>4. QED
    BY <2>2, <2>3
<1>3. QED
  BY <1>1, <1>2 DEF StillComing

LEMMA StepComing ==
  ASSUME TypeOK, CacheCurrent, NothingStale, StillComing, [Next]_vars
  PROVE  StillComing'
<1>1. CASE Calls \/ Store \/ Return \/ SendOutgoing \/ UNCHANGED vars
  <2>1. UNCHANGED <<InFlight, asks, status, size, chunks, clean, cause>>
    BY <1>1 DEF Calls, LoadTrack, SetWaveforms, SetBeatGrid, SetCues, Call, Store, Return,
                SendOutgoing, peerVars, vars, InFlight
  <2>2. QED
    BY <2>1, SameWait DEF StillComing, Unharmed
<1>2. ASSUME NEW q \in Requests, Timeout(q) PROVE StillComing'
  <2>1. UNCHANGED <<InFlight, asks, size, chunks, clean, cause>>
    BY <1>2 DEF Timeout, InFlight
  <2>2. \A r \in Requests : Unharmed(r)' => Unharmed(r)
    BY <1>2 DEF Timeout, Unharmed, TypeOK
  <2>3. QED
    BY <2>1, <2>2, SameWait DEF StillComing
<1>3. QED
  BY <1>1, <1>2, AskComing, HandleRequestComing, LossComing, ArriveComing DEF Next

LEMMA ComingSuffices == TypeOK /\ StillComing => WaitsForSomething
<1> SUFFICES ASSUME TypeOK, StillComing, NEW r \in Requests, Unharmed(r)
             PROVE  UnderWay(KindOf[r])
  BY DEF WaitsForSomething, Unharmed
<1>1. WaitsFor(r)
  BY DEF StillComing
<1>2. CASE size[r] = 0
  BY <1>1, <1>2 DEF WaitsFor, UnderWay, InFlight
<1>3. CASE size[r] # 0
  <2>1. PICK no \in 0..(size[r] - 1) : chunks[r][no] = None
    BY <1>1, <1>3 DEF WaitsFor, Complete
  <2>2. Coming(KindOf[r], no)
    BY <1>1, <1>3, <2>1 DEF WaitsFor
  <2>3. QED
    BY <2>2 DEF Coming, UnderWay, InFlight
<1>4. QED
  BY <1>2, <1>3

(* A request that began with nothing of its kind under way times out only  *)
(* if something was lost, a queue was full, or there was no data: until    *)
(* then what it still lacks is on its way.                                 *)
THEOREM NoRequestForgotten == Spec => []WaitsForSomething
<1>1. Init => TypeOK /\ CacheCurrent /\ NothingStale /\ FreshAnswers /\ StillComing
  BY InitType, InitCurrent, InitStale, InitComing
<1>2. (TypeOK /\ CacheCurrent /\ NothingStale /\ FreshAnswers /\ StillComing) /\ [Next]_vars
        => (TypeOK /\ CacheCurrent /\ NothingStale /\ FreshAnswers /\ StillComing)'
  BY StepType, StepCurrent, StepStale, StepComing
<1>3. (TypeOK /\ CacheCurrent /\ NothingStale /\ FreshAnswers /\ StillComing)
        => WaitsForSomething
  BY ComingSuffices
<1>4. QED
  BY <1>1, <1>2, <1>3, PTL DEF Spec
=============================================================================
