------------------------- MODULE DjController_proofs -------------------------
(***************************************************************************)
(* Proofs about DjController and DjControllerTimes, for every set of       *)
(* requests and responses and every value of the bounds.                   *)
(***************************************************************************)
EXTENDS DjControllerTimes, TLAPS

-------------------------------------------------------------------------------
(* Facts about the helpers *)

(* The assumptions, as the proofs use them. *)
LEMMA ResponseFacts ==
  ASSUME NEW resp \in Responses
  PROVE  /\ TotalPackets[resp] \in 0..(MaxPacketNo + 1)
         /\ MaxPacketNo \in Nat
         /\ resp # None
  BY ResponsesAssumption

(* An accumulator has room for one chunk at least. *)
LEMMA SizeWithType ==
  ASSUME TypeOK, NEW r \in Requests, NEW resp \in Responses
  PROVE  /\ SizeWith(r, resp) \in 1..(MaxPacketNo + 1)
         /\ size[r] # 0 => SizeWith(r, resp) = size[r]
<1>1. size[r] \in 0..(MaxPacketNo + 1)
  BY DEF TypeOK
<1>2. QED
  BY <1>1, ResponseFacts DEF SizeWith

(* The accumulator after a chunk: a function, changed at one number. *)
LEMMA StoreType ==
  ASSUME TypeOK, NEW r \in Requests, NEW resp \in Responses, NEW no \in PacketNos
  PROVE  /\ Store(r, resp, no) \in [PacketNos -> Responses \cup {None}]
         /\ \A m \in PacketNos :
              Store(r, resp, no)[m] =
                IF m = no /\ no < SizeWith(r, resp) THEN resp ELSE chunks[r][m]
<1>1. chunks[r] \in [PacketNos -> Responses \cup {None}]
  BY DEF TypeOK
<1>2. QED
  BY <1>1 DEF Store

LEMMA NoChunksType ==
  /\ NoChunks \in [PacketNos -> Responses \cup {None}]
  /\ \A m \in PacketNos : NoChunks[m] = None
  BY DEF NoChunks

(* The types of what the helpers and actions change. *)
LEMMA SettleType ==
  ASSUME TypeOK, NEW some, NEW how \in States, Settle(some, how)
  PROVE  /\ status' \in [Requests -> States]
         /\ left' \in [Requests -> 0..Timeout]
<1>1. 0 \in 0..Timeout
  BY BoundsAssumption
<1>2. QED
  BY <1>1 DEF Settle, TypeOK

LEMMA AbandonType ==
  ASSUME TypeOK, NEW some, Abandon(some)
  PROVE  /\ status' \in [Requests -> States]
         /\ left' \in [Requests -> 0..Timeout]
         /\ size' \in [Requests -> 0..(MaxPacketNo + 1)]
         /\ chunks' \in [Requests -> [PacketNos -> Responses \cup {None}]]
<1>1. Settle(some, "err") /\ "err" \in States
  BY DEF Abandon, States
<1>2. 0 \in 0..(MaxPacketNo + 1)
  BY ResponsesAssumption
<1>3. QED
  BY <1>1, <1>2, SettleType, NoChunksType DEF Abandon, TypeOK

-------------------------------------------------------------------------------
(* Type correctness *)

LEMMA SinglePacketType ==
  ASSUME TypeOK, NEW resp \in Responses, SinglePacket(resp)
  PROVE  TypeOK'
<1>1. 1 \in 0..(MaxPacketNo + 1) /\ 0 \in PacketNos /\ "ok" \in States
  BY ResponsesAssumption DEF PacketNos, States
<1>2. [NoChunks EXCEPT ![0] = resp] \in [PacketNos -> Responses \cup {None}]
  BY <1>1, NoChunksType
<1>3. size' \in [Requests -> 0..(MaxPacketNo + 1)]
  BY <1>1 DEF SinglePacket, TypeOK
<1>4. chunks' \in [Requests -> [PacketNos -> Responses \cup {None}]]
  BY <1>2 DEF SinglePacket, TypeOK
<1>5. QED
  BY <1>1, <1>3, <1>4, SettleType DEF SinglePacket, TypeOK

LEMMA ChunkType ==
  ASSUME TypeOK, NEW resp \in Responses, NEW no \in PacketNos, Chunk(resp, no)
  PROVE  TypeOK'
<1>1. \A r \in Requests : SizeWith(r, resp) \in 0..(MaxPacketNo + 1)
  BY SizeWithType, ResponsesAssumption
<1>2. size' \in [Requests -> 0..(MaxPacketNo + 1)]
  BY <1>1 DEF Chunk, TypeOK
<1>3. chunks' \in [Requests -> [PacketNos -> Responses \cup {None}]]
  BY StoreType DEF Chunk, TypeOK
<1>4. "ok" \in States
  BY DEF States
<1>5. QED
  BY <1>2, <1>3, <1>4, SettleType DEF Chunk, TypeOK

LEMMA StepType ==
  ASSUME TypeOK, [Next]_vars
  PROVE  TypeOK'
<1> USE DEF States
<1>1. ASSUME NEW r \in Requests, Caller(r) PROVE TypeOK'
  <2>1. status' \in [Requests -> States]
    BY <1>1 DEF Caller, Call, Enqueue, Refuse, TypeOK
  <2>2. UNCHANGED <<pc, left, size, chunks, outgoing, dropped>>
    BY <1>1 DEF Caller, Call, Enqueue, Refuse
  <2>3. QED
    BY <2>1, <2>2 DEF TypeOK
<1>2. CASE Packet
  BY <1>2, SinglePacketType, ChunkType DEF Packet
<1>3. CASE Wake \/ PacketsDone \/ SendsDone
  BY <1>3 DEF Wake, PacketsDone, SendsDone, Goto, TypeOK
<1>4. CASE DrainRequests
  BY <1>4 DEF DrainRequests, Goto, TypeOK
<1>5. ASSUME NEW r \in Requests, SendRequest(r) PROVE TypeOK'
  BY <1>5, BoundsAssumption DEF SendRequest, TypeOK
<1>6. CASE FireTimeouts
  BY <1>6, AbandonType DEF FireTimeouts, Goto, TypeOK
<1>7. CASE Exit
  BY <1>7, AbandonType DEF Exit, TypeOK
<1>8. CASE DropController \/ OtherTraffic \/ SendOutgoing
  <2>1. outgoing' \in 0..OutgoingCap
    BY <1>8, BoundsAssumption DEF DropController, OtherTraffic, SendOutgoing, TypeOK
  <2>2. dropped' \in BOOLEAN /\ UNCHANGED <<pc, status, left, size, chunks>>
    BY <1>8 DEF DropController, OtherTraffic, SendOutgoing, TypeOK
  <2>3. QED
    BY <2>1, <2>2 DEF TypeOK
<1>9. CASE SecondPasses
  <2>1. \A r \in Requests : (IF left[r] > 0 THEN left[r] - 1 ELSE 0) \in 0..Timeout
    BY BoundsAssumption DEF TypeOK
  <2>2. QED
    BY <1>9, <2>1 DEF SecondPasses, TypeOK
<1>10. CASE UNCHANGED vars
  BY <1>10 DEF TypeOK, vars
<1>11. QED
  BY <1>1, <1>2, <1>3, <1>4, <1>5, <1>6, <1>7, <1>8, <1>9, <1>10 DEF Next, Loop

LEMMA InitType == Init => TypeOK
<1>1. /\ 0 \in 0..Timeout /\ 0 \in 0..(MaxPacketNo + 1) /\ 0 \in 0..OutgoingCap
      /\ "idle" \in States /\ FALSE \in BOOLEAN
  BY BoundsAssumption, ResponsesAssumption DEF States
<1>2. QED
  BY <1>1, NoChunksType DEF Init, TypeOK

(* Every variable always has its type: no deadline lies more than Timeout  *)
(* ahead, the outgoing queue never exceeds its capacity.                   *)
THEOREM TypeCorrect == Spec => []TypeOK
<1>1. Init => TypeOK
  BY InitType
<1>2. QED
  BY <1>1, StepType, PTL DEF Spec

-------------------------------------------------------------------------------
(* The inductive invariant *)

(* A request that is not touched keeps what the invariant says of it. *)
Holds(r) ==
  /\ status[r] = "ok" => size[r] > 0 /\ Whole(r)
  /\ status[r] = "pending" /\ size[r] > 0 => ~Whole(r)
  /\ \A no \in PacketNos :
       chunks[r][no] # None =>
         /\ no < size[r]
         /\ ResponseLayer[chunks[r][no]] = LayerOf[r]
         /\ ResponseKind[chunks[r][no]] = KindOf[r]
  /\ status[r] # "pending" => left[r] = 0
  /\ status[r] \in {"idle", "calling", "queued", "drained"} =>
       size[r] = 0 /\ chunks[r] = NoChunks

(* The invariant speaks of each request by itself. *)
LEMMA IInvIsHolds == IInv <=> TypeOK /\ \A r \in Requests : Holds(r)
  BY Zenon DEF IInv, OkMeansComplete, OwnChunksOnly, HeldWhilePending, Holds

LEMMA HoldsUnchanged ==
  ASSUME NEW r \in Requests, Holds(r),
         status'[r] = status[r], left'[r] = left[r], size'[r] = size[r],
         chunks'[r] = chunks[r]
  PROVE  Holds(r)'
  BY DEF Holds, Whole

(* A request given up holds nothing. *)
LEMMA AbandonHolds ==
  ASSUME TypeOK, NEW some, Abandon(some), NEW r \in Requests, Holds(r)
  PROVE  Holds(r)'
<1>1. CASE r \in some
  <2>1. status'[r] = "err" /\ left'[r] = 0 /\ size'[r] = 0 /\ chunks'[r] = NoChunks
    BY <1>1 DEF Abandon, Settle
  <2>2. QED
    BY <2>1, NoChunksType DEF Holds
<1>2. CASE r \notin some
  <2>1. /\ status'[r] = status[r] /\ left'[r] = left[r]
        /\ size'[r] = size[r] /\ chunks'[r] = chunks[r]
    BY <1>2 DEF Abandon, Settle, TypeOK
  <2>2. QED
    BY <2>1, HoldsUnchanged
<1>3. QED
  BY <1>1, <1>2

(* A one-packet answer is complete as it is. *)
LEMMA SinglePacketHolds ==
  ASSUME TypeOK, NEW resp \in Responses, SinglePacket(resp), NEW r \in Requests, Holds(r)
  PROVE  Holds(r)'
<1>1. CASE r \in Awaiting(resp)
  <2>1. /\ status'[r] = "ok" /\ left'[r] = 0 /\ size'[r] = 1
        /\ chunks'[r] = [NoChunks EXCEPT ![0] = resp]
    BY <1>1 DEF SinglePacket, Settle
  <2>2. 0 \in PacketNos /\ resp # None
    BY ResponsesAssumption DEF PacketNos
  <2>3. chunks'[r][0] = resp /\ \A m \in PacketNos \ {0} : chunks'[r][m] = None
    BY <2>1, <2>2, NoChunksType
  <2>4. Whole(r)'
    BY <2>1, <2>2, <2>3 DEF Whole
  <2>5. ResponseLayer[resp] = LayerOf[r] /\ ResponseKind[resp] = KindOf[r]
    BY <1>1 DEF Awaiting
  <2>6. \A no \in PacketNos :
          chunks'[r][no] # None =>
            /\ no < size'[r]
            /\ ResponseLayer[chunks'[r][no]] = LayerOf[r]
            /\ ResponseKind[chunks'[r][no]] = KindOf[r]
    BY <2>1, <2>3, <2>5
  <2>7. QED
    BY <2>1, <2>4, <2>6 DEF Holds
<1>2. CASE r \notin Awaiting(resp)
  <2>1. /\ status'[r] = status[r] /\ left'[r] = left[r]
        /\ size'[r] = size[r] /\ chunks'[r] = chunks[r]
    BY <1>2 DEF SinglePacket, Settle, TypeOK
  <2>2. QED
    BY <2>1, HoldsUnchanged
<1>3. QED
  BY <1>1, <1>2

(* A chunk completes a request, which is then answered, or leaves it waiting. *)
LEMMA ChunkHolds ==
  ASSUME TypeOK, NEW resp \in Responses, NEW no \in PacketNos, Chunk(resp, no),
         NEW r \in Requests, Holds(r)
  PROVE  Holds(r)'
<1> DEFINE done == Complete(Store(r, resp, no), SizeWith(r, resp))
<1>1. CASE r \in Awaiting(resp)
  <2>1. /\ status[r] = "pending"
        /\ ResponseLayer[resp] = LayerOf[r]
        /\ ResponseKind[resp] = KindOf[r]
    BY <1>1 DEF Awaiting, In
  <2>2. /\ size'[r] = SizeWith(r, resp)
        /\ chunks'[r] = Store(r, resp, no)
        /\ status'[r] = IF done THEN "ok" ELSE status[r]
        /\ left'[r] = IF done THEN 0 ELSE left[r]
    BY <1>1 DEF Chunk, Settle
  <2>3. /\ size'[r] \in 1..(MaxPacketNo + 1)
        /\ size[r] # 0 => size'[r] = size[r]
        /\ size[r] \in 0..(MaxPacketNo + 1)
        /\ MaxPacketNo \in Nat
    BY <2>2, SizeWithType, ResponsesAssumption DEF TypeOK
  <2>4. Whole(r)' <=> done
    BY <2>2 DEF Complete, Whole
  <2>5. \A m \in PacketNos :
          chunks'[r][m] # None =>
            /\ m < size'[r]
            /\ ResponseLayer[chunks'[r][m]] = LayerOf[r]
            /\ ResponseKind[chunks'[r][m]] = KindOf[r]
    <3> SUFFICES ASSUME NEW m \in PacketNos, chunks'[r][m] # None
                 PROVE  /\ m < size'[r]
                        /\ ResponseLayer[chunks'[r][m]] = LayerOf[r]
                        /\ ResponseKind[chunks'[r][m]] = KindOf[r]
      OBVIOUS
    <3>1. CASE m = no /\ no < SizeWith(r, resp)
      <4>1. chunks'[r][m] = resp
        BY <2>2, <3>1, StoreType
      <4>2. QED
        BY <2>1, <2>2, <3>1, <4>1
    <3>2. CASE ~(m = no /\ no < SizeWith(r, resp))
      <4>1. chunks'[r][m] = chunks[r][m]
        BY <2>2, <3>2, StoreType
      <4>2. /\ m < size[r]
            /\ ResponseLayer[chunks[r][m]] = LayerOf[r]
            /\ ResponseKind[chunks[r][m]] = KindOf[r]
        BY <4>1 DEF Holds
      <4>3. size[r] # 0
        BY <4>2 DEF PacketNos
      <4>4. QED
        BY <2>3, <4>1, <4>2, <4>3
    <3>3. QED
      BY <3>1, <3>2
  <2>6. size'[r] > 0
    BY <2>3
  <2> HIDE DEF done
  <2>7. CASE done
    BY <2>2, <2>4, <2>5, <2>6, <2>7 DEF Holds
  <2>8. CASE ~done
    BY <2>1, <2>2, <2>4, <2>5, <2>8 DEF Holds
  <2>9. QED
    BY <2>7, <2>8
<1>2. CASE r \notin Awaiting(resp)
  <2>1. /\ status'[r] = status[r] /\ left'[r] = left[r]
        /\ size'[r] = size[r] /\ chunks'[r] = chunks[r]
    BY <1>2 DEF Chunk, Settle, TypeOK
  <2>2. QED
    BY <2>1, HoldsUnchanged
<1>3. QED
  BY <1>1, <1>2

(* The invariant across each action. *)
LEMMA StepInvariant ==
  ASSUME IInv, [Next]_vars
  PROVE  IInv'
<1>1. TypeOK /\ TypeOK'
  BY StepType DEF IInv
<1> SUFFICES ASSUME NEW r \in Requests PROVE Holds(r)'
  BY <1>1, Zenon DEF IInv, OkMeansComplete, OwnChunksOnly, HeldWhilePending, Holds
<1>2. Holds(r)
  BY IInvIsHolds
<1>3. ASSUME NEW q \in Requests, Caller(q) PROVE Holds(r)'
  <2>1. UNCHANGED <<left, size, chunks>>
    BY <1>3 DEF Caller, Call, Enqueue, Refuse
  <2>2. status[q] \in {"idle", "calling"} /\ status' = [status EXCEPT ![q] = status'[q]]
        /\ status'[q] \in {"calling", "queued", "err"}
    BY <1>1, <1>3 DEF Caller, Call, Enqueue, Refuse, TypeOK
  <2>3. CASE r = q
    BY <1>2, <2>1, <2>2, <2>3 DEF Holds
  <2>4. CASE r # q
    <3>1. status'[r] = status[r]
      BY <1>1, <2>2, <2>4 DEF TypeOK
    <3>2. QED
      BY <1>2, <2>1, <3>1, HoldsUnchanged
  <2>5. QED
    BY <2>3, <2>4
<1>4. CASE Packet
  BY <1>1, <1>2, <1>4, SinglePacketHolds, ChunkHolds DEF Packet
<1>5. CASE DrainRequests
  <2>1. /\ UNCHANGED <<left, size, chunks>>
        /\ status'[r] = IF status[r] = "queued" THEN "drained" ELSE status[r]
    BY <1>5 DEF DrainRequests
  <2>2. QED
    BY <1>2, <2>1, HoldsUnchanged DEF Holds
<1>6. ASSUME NEW q \in Requests, SendRequest(q) PROVE Holds(r)'
  <2>1. CASE r = q
    <3>1. status[r] = "drained" /\ status'[r] = "pending" /\ UNCHANGED <<size, chunks>>
      BY <1>1, <1>6, <2>1 DEF SendRequest, TypeOK
    <3>2. size[r] = 0
      BY <1>2, <3>1 DEF Holds
    <3>3. QED
      BY <1>2, <3>1, <3>2 DEF Holds
  <2>2. CASE r # q
    <3>1. /\ status'[r] = status[r] /\ left'[r] = left[r]
          /\ size'[r] = size[r] /\ chunks'[r] = chunks[r]
      BY <1>1, <1>6, <2>2 DEF SendRequest, TypeOK
    <3>2. QED
      BY <1>2, <3>1, HoldsUnchanged
  <2>3. QED
    BY <2>1, <2>2
<1>7. CASE FireTimeouts \/ Exit
  BY <1>1, <1>2, <1>7, AbandonHolds DEF FireTimeouts, Exit
<1>8. CASE SecondPasses
  <2>1. /\ UNCHANGED <<status, size, chunks>>
        /\ left'[r] = IF left[r] > 0 THEN left[r] - 1 ELSE 0
    BY <1>8 DEF SecondPasses
  <2>2. left[r] = 0 => left'[r] = 0
    BY <2>1
  <2>3. QED
    BY <1>2, <2>1, <2>2 DEF Holds, Whole
<1>9. CASE UNCHANGED <<status, left, size, chunks>>
  BY <1>2, <1>9, HoldsUnchanged
<1>10. QED
  BY <1>3, <1>4, <1>5, <1>6, <1>7, <1>8, <1>9
  DEF Next, Loop, vars, Wake, PacketsDone, SendsDone, DropController, OtherTraffic,
      SendOutgoing

(* The conjunction the properties rest on holds in every reachable state. *)
THEOREM Invariance == Spec => []IInv
<1>1. Init => IInv
  <2> SUFFICES ASSUME Init PROVE IInv
    OBVIOUS
  <2>1. ASSUME NEW r \in Requests PROVE Holds(r)
    BY NoChunksType DEF Init, Holds
  <2>2. QED
    BY <2>1, InitType, IInvIsHolds
<1>2. QED
  BY <1>1, StepInvariant, PTL DEF Spec

(* Ok carries every announced chunk, in whatever order they came. *)
THEOREM AnswersComplete == Spec => []OkMeansComplete
<1>1. IInv => OkMeansComplete
  BY DEF IInv
<1>2. QED
  BY <1>1, Invariance, PTL

(* Chunks of another layer or kind never reach a request. *)
THEOREM ChunksKeptApart == Spec => []OwnChunksOnly
<1>1. IInv => OwnChunksOnly
  BY DEF IInv
<1>2. QED
  BY <1>1, Invariance, PTL

-------------------------------------------------------------------------------
(* Deadlines and the time waited *)

(* What a step does to one request's state and deadline. *)
Steps(r) ==
  \/ status'[r] = status[r] /\ (left'[r] = left[r] \/ SecondPasses)
  \/ status[r] \notin {"pending", "err"} /\ status'[r] \notin {"pending", "err"}
  \/ status[r] = "drained" /\ status'[r] = "pending" /\ left'[r] = Timeout
  \/ status[r] = "pending" /\ status'[r] = "ok"
  \/ status[r] = "pending" /\ status'[r] = "err" /\ FireTimeouts /\ left[r] = 0
  \/ status'[r] = "err" /\ pc' = "exited"

LEMMA StepOfRequest ==
  ASSUME TypeOK, [Next]_vars, NEW r \in Requests
  PROVE  Steps(r)
<1>1. ASSUME NEW q \in Requests, Caller(q) PROVE Steps(r)
  <2>1. UNCHANGED left
    BY <1>1 DEF Caller, Call, Enqueue, Refuse
  <2>2. CASE r = q
    BY <1>1, <2>2 DEF Caller, Call, Enqueue, Refuse, TypeOK, Steps
  <2>3. CASE r # q
    BY <1>1, <2>1, <2>3 DEF Caller, Call, Enqueue, Refuse, TypeOK, Steps
  <2>4. QED
    BY <2>2, <2>3
<1>2. CASE Packet
  <2>1. PICK resp \in Responses :
          SinglePacket(resp) \/ \E no \in PacketNos : Chunk(resp, no)
    BY <1>2 DEF Packet
  <2>2. PICK some \in SUBSET Awaiting(resp) : Settle(some, "ok")
    BY <2>1 DEF SinglePacket, Chunk
  <2>3. r \in some => status[r] = "pending"
    BY <2>2 DEF Awaiting, In
  <2>4. QED
    BY <2>2, <2>3 DEF Settle, Steps
<1>3. CASE DrainRequests
  BY <1>3 DEF DrainRequests, Steps
<1>4. ASSUME NEW q \in Requests, SendRequest(q) PROVE Steps(r)
  <2>1. CASE r = q
    BY <1>4, <2>1 DEF SendRequest, TypeOK, Steps
  <2>2. CASE r # q
    BY <1>4, <2>2 DEF SendRequest, TypeOK, Steps
  <2>3. QED
    BY <2>1, <2>2
<1>5. CASE FireTimeouts
  <2>1. /\ status'[r] = IF r \in Overdue THEN "err" ELSE status[r]
        /\ left'[r] = IF r \in Overdue THEN 0 ELSE left[r]
    BY <1>5 DEF FireTimeouts, Abandon, Settle
  <2>2. CASE r \in Overdue
    <3>1. status[r] = "pending" /\ left[r] = 0
      BY <2>2 DEF Overdue, In
    <3>2. QED
      BY <1>5, <2>1, <2>2, <3>1 DEF Steps
  <2>3. CASE r \notin Overdue
    BY <2>1, <2>3 DEF Steps
  <2>4. QED
    BY <2>2, <2>3
<1>6. CASE Exit
  <2>1. /\ pc' = "exited"
        /\ \/ status'[r] = status[r] /\ left'[r] = left[r]
           \/ status'[r] = "err"
    BY <1>6 DEF Exit, Abandon, Settle
  <2>2. QED
    BY <2>1 DEF Steps
<1>7. CASE SecondPasses
  BY <1>7 DEF SecondPasses, Steps
<1>8. CASE UNCHANGED <<status, left>>
  BY <1>8 DEF Steps
<1>9. QED
  BY <1>1, <1>2, <1>3, <1>4, <1>5, <1>6, <1>7, <1>8
  DEF Next, Loop, vars, Wake, PacketsDone, SendsDone, DropController, OtherTraffic,
      SendOutgoing

LEMMA TimedStep == [TimedNext]_timedVars => [Next]_vars
  BY DEF TimedNext, timedVars

LEMMA TimedIsSpec == TimedSpec => Spec
<1>1. TimedInit => Init
  BY DEF TimedInit
<1>2. QED
  BY <1>1, TimedStep, PTL DEF TimedSpec, Spec

(* The deadline goes on agreeing with the time waited. *)
LEMMA DeadlineStep ==
  ASSUME TypeOK, DeadlineAgrees, [TimedNext]_timedVars
  PROVE  DeadlineAgrees'
<1>0. SUFFICES ASSUME TimedNext, NEW r \in Requests
               PROVE  waited'[r] = IF status'[r] = "pending" THEN Timeout - left'[r] ELSE 0
  <2>1. CASE UNCHANGED timedVars
    BY <2>1 DEF DeadlineAgrees, timedVars, vars
  <2>2. TimedNext => waited' = [r \in Requests |-> waited'[r]]
    BY DEF TimedNext
  <2>3. QED
    BY <2>1, <2>2 DEF DeadlineAgrees
<1>1. waited[r] = IF status[r] = "pending" THEN Timeout - left[r] ELSE 0
  BY DEF DeadlineAgrees
<1>2. left[r] \in 0..Timeout /\ Timeout \in Nat
  BY BoundsAssumption DEF TypeOK
<1>3. Steps(r)
  BY TimedStep, StepOfRequest
<1>4. waited'[r] = IF status[r] # "pending" \/ status'[r] # "pending" THEN 0
                   ELSE IF SecondPasses /\ waited[r] < Timeout THEN waited[r] + 1
                   ELSE waited[r]
  BY <1>0 DEF TimedNext
<1>5. CASE status[r] # "pending" \/ status'[r] # "pending"
  BY <1>1, <1>2, <1>3, <1>4, <1>5 DEF Steps, SecondPasses
<1>6. CASE status[r] = "pending" /\ status'[r] = "pending" /\ SecondPasses
  <2>1. left'[r] = IF left[r] > 0 THEN left[r] - 1 ELSE 0
    BY <1>6 DEF SecondPasses
  <2>2. waited'[r] = IF waited[r] < Timeout THEN waited[r] + 1 ELSE waited[r]
    BY <1>4, <1>6
  <2>3. QED
    BY <1>1, <1>2, <1>6, <2>1, <2>2
<1>7. CASE status[r] = "pending" /\ status'[r] = "pending" /\ ~SecondPasses
  BY <1>1, <1>3, <1>4, <1>7 DEF Steps
<1>8. QED
  BY <1>5, <1>6, <1>7

LEMMA DeadlinesAgree == TimedSpec => [](TypeOK /\ DeadlineAgrees)
<1>1. TimedInit => TypeOK /\ DeadlineAgrees
  BY InitType DEF TimedInit, Init, DeadlineAgrees
<1>2. TypeOK /\ DeadlineAgrees /\ [TimedNext]_timedVars => (TypeOK /\ DeadlineAgrees)'
  BY TimedStep, StepType, DeadlineStep
<1>3. QED
  BY <1>1, <1>2, PTL DEF TimedSpec

LEMMA OnTimeStep ==
  ASSUME TypeOK, DeadlineAgrees, [TimedNext]_timedVars, NEW r \in Requests
  PROVE  /\ status[r] # "err" /\ status'[r] = "err" /\ pc' # "exited" =>
              waited[r] = Timeout
         /\ pc = "timeouts" /\ pc' = "sleep" /\ status'[r] = "pending" =>
              waited[r] < Timeout
<1>1. waited[r] = IF status[r] = "pending" THEN Timeout - left[r] ELSE 0
  BY DEF DeadlineAgrees
<1>2. left[r] \in 0..Timeout /\ Timeout \in Nat \ {0}
  BY BoundsAssumption DEF TypeOK
<1>3. [Next]_vars /\ Steps(r)
  BY TimedStep, StepOfRequest
<1>4. ASSUME status[r] # "err", status'[r] = "err", pc' # "exited"
      PROVE  waited[r] = Timeout
  <2>1. status[r] = "pending" /\ left[r] = 0
    BY <1>3, <1>4 DEF Steps
  <2>2. QED
    BY <1>1, <1>2, <2>1
<1>5. ASSUME pc = "timeouts", pc' = "sleep", status'[r] = "pending"
      PROVE  waited[r] < Timeout
  <2>1. FireTimeouts
    BY <1>3, <1>5
    DEF Next, Loop, Caller, Call, Enqueue, Refuse, Packet, SinglePacket, Chunk, Wake,
        PacketsDone, DrainRequests, SendRequest, SendsDone, Exit, DropController,
        OtherTraffic, SendOutgoing, SecondPasses, Goto, vars
  <2>2. r \notin Overdue /\ status[r] = "pending"
    BY <1>5, <2>1 DEF FireTimeouts, Abandon, Settle
  <2>3. left[r] # 0
    BY <2>2 DEF Overdue, In
  <2>4. QED
    BY <1>1, <1>2, <2>2, <2>3
<1>6. QED
  BY <1>4, <1>5

(* A request that is given up has waited for its time in full since it was *)
(* sent, unless the controller went, and one whose time is over is given   *)
(* up in the same round.                                                   *)
THEOREM TimeoutsOnTime == TimedSpec => TimesOutOnTime
<1>1. TypeOK /\ DeadlineAgrees /\ [TimedNext]_timedVars =>
        [\A r \in Requests :
           /\ status[r] # "err" /\ status'[r] = "err" /\ pc' # "exited" =>
                waited[r] = Timeout
           /\ pc = "timeouts" /\ pc' = "sleep" /\ status'[r] = "pending" =>
                waited[r] < Timeout]_timedVars
  BY OnTimeStep
<1>2. QED
  BY <1>1, DeadlinesAgree, PTL DEF TimedSpec, TimesOutOnTime

-------------------------------------------------------------------------------
(* The promise *)

(* Settling requests is an answer to all of them. *)
LEMMA SettleAnswers ==
  ASSUME TypeOK, DeadlineAgrees, DeadlineAgrees', NEW some \in SUBSET Requests,
         NEW how \in {"ok", "err"}, Settle(some, how)
  PROVE  Promise!Answer(some, how)
<1>1. AnswerOf' = [r \in Requests |-> IF r \in some THEN how ELSE AnswerOf[r]]
  BY DEF Settle, AnswerOf
<1>2. waited' = [r \in Requests |-> IF r \in some THEN 0 ELSE waited[r]]
  BY DEF Settle, DeadlineAgrees
<1>3. QED
  BY <1>1, <1>2 DEF Promise!Answer

(* A step that leaves the answers, the deadlines and the task is a stutter. *)
LEMMA NobodyTold ==
  ASSUME DeadlineAgrees, DeadlineAgrees', AnswerOf' = AnswerOf,
         \A r \in Requests : status[r] = "pending" <=> status'[r] = "pending",
         UNCHANGED left, (pc = "exited") <=> (pc' = "exited")
  PROVE  UNCHANGED Promise!promiseVars
<1>1. waited' = waited
  BY DEF DeadlineAgrees
<1>2. QED
  BY <1>1 DEF Promise!promiseVars

(* Every step is a step of the promise or leaves it alone. *)
LEMMA PromiseStep ==
  ASSUME TypeOK, DeadlineAgrees, DeadlineAgrees', [Next]_vars
  PROVE  [Promise!Next]_(Promise!promiseVars)
<1> DEFINE Goal == [Promise!Next]_(Promise!promiseVars)
<1>0. Timeout \in Nat \ {0}
  BY BoundsAssumption
<1>1. ASSUME NEW r \in Requests, Call(r) PROVE Goal
  <2>1. status[r] = "idle" /\ status' = [status EXCEPT ![r] = "calling"]
        /\ UNCHANGED <<left, pc>>
    BY <1>1 DEF Call
  <2>2. AnswerOf[r] = "idle" /\ AnswerOf' = [AnswerOf EXCEPT ![r] = "asked"]
    BY <2>1 DEF AnswerOf, TypeOK
  <2>3. waited' = waited
    BY <2>1 DEF DeadlineAgrees, TypeOK
  <2>4. Promise!Ask(r)
    BY <2>1, <2>2, <2>3 DEF Promise!Ask
  <2>5. QED
    BY <2>4 DEF Promise!Next
<1>2. ASSUME NEW r \in Requests, Enqueue(r) PROVE Goal
  <2>1. AnswerOf' = AnswerOf /\ UNCHANGED <<left, pc>>
        /\ \A q \in Requests : status[q] = "pending" <=> status'[q] = "pending"
    BY <1>2 DEF Enqueue, AnswerOf, TypeOK
  <2>2. QED
    BY <2>1, NobodyTold
<1>3. ASSUME NEW r \in Requests, Refuse(r) PROVE Goal
  <2>1. status[r] = "calling" /\ status' = [status EXCEPT ![r] = "err"]
        /\ UNCHANGED <<left, pc>> /\ pc = "exited"
    BY <1>3 DEF Refuse
  <2>2. AnswerOf[r] = "asked"
        /\ AnswerOf' = [q \in Requests |-> IF q \in {r} THEN "err" ELSE AnswerOf[q]]
    BY <2>1 DEF AnswerOf, TypeOK
  <2>3. waited' = [q \in Requests |-> IF q \in {r} THEN 0 ELSE waited[q]]
    BY <2>1 DEF DeadlineAgrees, TypeOK
  <2>4. Promise!Refuse(r)
    BY <2>1, <2>2, <2>3 DEF Promise!Refuse, Promise!Answer, Promise!Asked
  <2>5. QED
    BY <2>4 DEF Promise!Next
<1>4. CASE Packet
  <2>1. PICK resp \in Responses :
          SinglePacket(resp) \/ \E no \in PacketNos : Chunk(resp, no)
    BY <1>4 DEF Packet
  <2>2. PICK some \in SUBSET Awaiting(resp) : Settle(some, "ok")
    BY <2>1 DEF SinglePacket, Chunk
  <2>3. pc = "packets" /\ pc' = pc
    BY <2>1 DEF SinglePacket, Chunk
  <2>4. some \in SUBSET Requests /\ \A r \in some : AnswerOf[r] = "asked"
    BY <2>2 DEF Awaiting, In, AnswerOf
  <2>5. \A q, r \in some : <<LayerOf[q], KindOf[q]>> = <<LayerOf[r], KindOf[r]>>
    BY <2>2 DEF Awaiting
  <2>6. Promise!Answer(some, "ok")
    BY <2>2, <2>4, SettleAnswers
  <2>7. Promise!Deliver(some)
    BY <2>3, <2>4, <2>5, <2>6 DEF Promise!Deliver
  <2>8. some \in SUBSET Promise!Asked
    BY <2>4 DEF Promise!Asked
  <2>9. QED
    BY <2>7, <2>8 DEF Promise!Next
<1>5. CASE DrainRequests
  <2>1. AnswerOf' = AnswerOf /\ UNCHANGED left /\ pc # "exited" /\ pc' # "exited"
        /\ \A q \in Requests : status[q] = "pending" <=> status'[q] = "pending"
    BY <1>5 DEF DrainRequests, Goto, AnswerOf
  <2>2. QED
    BY <2>1, NobodyTold
<1>6. ASSUME NEW r \in Requests, SendRequest(r) PROVE Goal
  <2>1. AnswerOf' = AnswerOf /\ pc' = pc
    BY <1>6 DEF SendRequest, AnswerOf, TypeOK
  <2>2. waited' = waited
    <3>1. status' = [status EXCEPT ![r] = "pending"] /\ left' = [left EXCEPT ![r] = Timeout]
          /\ status[r] = "drained"
      BY <1>6 DEF SendRequest
    <3>2. ASSUME NEW q \in Requests PROVE waited'[q] = waited[q]
      <4>1. CASE q = r
        BY <1>0, <3>1, <4>1 DEF DeadlineAgrees, TypeOK
      <4>2. CASE q # r
        BY <3>1, <4>2 DEF DeadlineAgrees, TypeOK
      <4>3. QED
        BY <4>1, <4>2
    <3>3. QED
      BY <3>2 DEF DeadlineAgrees
  <2>3. QED
    BY <2>1, <2>2 DEF Promise!promiseVars
<1>7. CASE FireTimeouts
  <2>1. Settle(Overdue, "err") /\ pc = "timeouts" /\ pc' = "sleep"
    BY <1>7 DEF FireTimeouts, Abandon, Goto
  <2>2. Overdue = {r \in Promise!Asked : waited[r] = Timeout}
    <3>1. ASSUME NEW r \in Requests
          PROVE  r \in In("pending") /\ left[r] = 0 <=>
                   AnswerOf[r] = "asked" /\ waited[r] = Timeout
      BY <1>0 DEF DeadlineAgrees, AnswerOf, In, TypeOK
    <3>2. QED
      BY <3>1 DEF Overdue, In, Promise!Asked
  <2>3. Overdue \in SUBSET Requests
    BY DEF Overdue, In
  <2>4. Promise!Answer(Overdue, "err")
    BY <2>1, <2>3, SettleAnswers
  <2>5. Promise!TimeOut
    BY <2>1, <2>2, <2>4 DEF Promise!TimeOut
  <2>6. QED
    BY <2>5 DEF Promise!Next
<1>8. CASE Exit
  <2>1. PICK some \in SUBSET Requests :
          /\ \A r \in some : status[r] \in {"queued", "drained", "pending"}
          /\ Settle(some, "err")
    BY <1>8 DEF Exit, Abandon
  <2>2. some \in SUBSET Promise!Asked
    BY <2>1 DEF Promise!Asked, AnswerOf
  <2>3. Promise!Answer(some, "err") /\ pc # "exited" /\ pc' = "exited"
    BY <1>8, <2>1, SettleAnswers DEF Exit
  <2>4. Promise!Go(some)
    BY <2>3 DEF Promise!Go
  <2>5. QED
    BY <2>2, <2>4 DEF Promise!Next
<1>9. CASE SecondPasses
  <2> DEFINE some == {r \in In("pending") : left[r] > 0}
  <2>1. AnswerOf' = AnswerOf /\ pc' = pc
    BY <1>9 DEF SecondPasses, AnswerOf
  <2>2. some \in SUBSET Promise!Asked
    BY DEF Promise!Asked, AnswerOf, In
  <2>3. ASSUME NEW r \in Requests
        PROVE  waited'[r] = IF r \in some THEN waited[r] + 1 ELSE waited[r]
    <3>1. /\ status'[r] = status[r]
          /\ left'[r] = IF left[r] > 0 THEN left[r] - 1 ELSE 0
          /\ left[r] \in 0..Timeout
      BY <1>9 DEF SecondPasses, TypeOK
    <3>2. QED
      BY <1>0, <3>1 DEF DeadlineAgrees, In
  <2>4. \A r \in some : waited[r] < Timeout
    BY <1>0 DEF DeadlineAgrees, In, TypeOK
  <2>5. waited' = [r \in Requests |-> IF r \in some THEN waited[r] + 1 ELSE waited[r]]
    BY <2>3 DEF DeadlineAgrees
  <2> HIDE DEF some
  <2>6. Promise!Wait(some)
    BY <2>1, <2>4, <2>5 DEF Promise!Wait
  <2>7. QED
    BY <2>2, <2>6 DEF Promise!Next
<1>10. CASE UNCHANGED <<status, left>> /\ ((pc = "exited") <=> (pc' = "exited"))
  BY <1>10, NobodyTold DEF AnswerOf
<1>11. QED
  BY <1>1, <1>2, <1>3, <1>4, <1>5, <1>6, <1>7, <1>8, <1>9, <1>10
  DEF Next, Loop, Caller, vars, Wake, PacketsDone, SendsDone, Goto, DropController,
      OtherTraffic, SendOutgoing

(* Every caller is answered at most once and for good: with data while the *)
(* controller lives, with an error when its time is over or when the       *)
(* controller goes.                                                        *)
THEOREM PromiseKept == TimedSpec => PromiseSpec
<1>1. TimedInit => Promise!Init
  BY DEF TimedInit, Init, Promise!Init, AnswerOf
<1>2. TypeOK /\ DeadlineAgrees /\ (TypeOK /\ DeadlineAgrees)' /\ [TimedNext]_timedVars =>
        [Promise!Next]_(Promise!promiseVars)
  BY TimedStep, PromiseStep
<1>3. QED
  BY <1>1, <1>2, DeadlinesAgree, PTL DEF TimedSpec, PromiseSpec, Promise!Spec
===============================================================================
