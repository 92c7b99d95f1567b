---------------------------- MODULE FanOut_proofs ----------------------------
(***************************************************************************)
(* Proofs about FanOut, for every set of peers and any number of packets   *)
(* and changes of the table.                                               *)
(***************************************************************************)
EXTENDS FanOut, TLAPS

-------------------------------------------------------------------------------
(* The loop and its lists *)

(* Asleep, nothing is left to send; otherwise it goes to the audience.     *)
SendingOK ==
  /\ at = "asleep" => msgs = <<>>
  /\ at # "asleep" => targets \subseteq Audience(at)

(* The lists against what became of the peers since they were read. *)
ListsOK ==
  /\ \A p \in Peers : table[p] \in roles[p]
  /\ at # "asleep" =>
       \A p \in Peers : \A q \in Queues :
         /\ p \in Audience(q) => roles[p] \cap Wanted(q) # {}
         /\ roles[p] \subseteq Wanted(q) => p \in Audience(q)

Shape == TypeOK /\ SendingOK /\ ListsOK

LEMMA ConstantFacts ==
  /\ Absent \notin Roles /\ Absent \notin {"Slave", "Repeater"}
  /\ MaxPackets \in Nat /\ MaxChanges \in Nat
  /\ Packets = 1..MaxPackets
  /\ Queues = {"broadcast", "slave", "time"}
BY ConstantsAssumption DEF Packets, Queues

LEMMA AudienceType ==
  ASSUME TypeOK, NEW q \in Queues
  PROVE  Audience(q) \subseteq Peers
BY DEF TypeOK, Audience

LEMMA InitShape == Init => Shape
<1> SUFFICES ASSUME Init PROVE Shape
  OBVIOUS
<1>1. Nothing \in [Queues -> Seq(Packets)]
  BY DEF Nothing
<1>2. changes \in 0..MaxChanges /\ queued \in 0..MaxPackets
  BY ConstantsAssumption DEF Init
<1>3. table \in [Peers -> Roles \cup {Absent}] /\ roles \in [Peers -> SUBSET (Roles \cup {Absent})]
  BY DEF Init
<1>4. sent \in [Peers -> [Queues -> Seq(Packets)]]
  BY <1>1 DEF Init
<1>5. TypeOK
  <2>1. msgs \in Seq(Packets) /\ (targets # {} <=> msgs # <<>>)
    BY DEF Init
  <2>2. at \in Queues \cup {"asleep"} /\ ticked \in BOOLEAN
    BY DEF Init
  <2>3. /\ slave_addrs \subseteq all_addrs /\ all_addrs \subseteq Peers
        /\ targets \subseteq Peers /\ opt_in \subseteq Peers
    BY DEF Init
  <2>4. queue \in [Queues -> Seq(Packets)] /\ batch \in [Queues -> Seq(Packets)]
    BY <1>1 DEF Init
  <2>5. QED
    BY <1>2, <1>3, <1>4, <2>1, <2>2, <2>3, <2>4 DEF TypeOK
<1>6. SendingOK /\ ListsOK
  BY DEF Init, SendingOK, ListsOK
<1>7. QED
  BY <1>5, <1>6 DEF Shape

LEMMA ChangeShape ==
  ASSUME Shape, NEW p \in Peers, NEW role \in Roles \cup {Absent}, Change(p, role)
  PROVE  Shape'
<1> USE DEF Shape
<1>1. /\ table' = [table EXCEPT ![p] = role]
      /\ roles' = [roles EXCEPT ![p] = @ \cup {role}]
      /\ changes' \in 0..MaxChanges
      /\ UNCHANGED <<queueVars, loopVars, optInVars>>
  <2>1. changes \in 0..MaxChanges /\ changes < MaxChanges /\ changes' = changes + 1
    BY DEF Change, TypeOK
  <2>2. changes' \in 0..MaxChanges
    BY <2>1, ConstantsAssumption
  <2>3. QED
    BY <2>2 DEF Change
<1>2. TypeOK' /\ SendingOK'
  <2>1. table' \in [Peers -> Roles \cup {Absent}]
    BY <1>1 DEF TypeOK
  <2>2. roles' \in [Peers -> SUBSET (Roles \cup {Absent})]
    BY <1>1 DEF TypeOK
  <2>3. QED
    BY <1>1, <2>1, <2>2 DEF queueVars, loopVars, optInVars, TypeOK, SendingOK, Audience
<1>3. ListsOK'
  <2>1. \A x \in Peers : table'[x] \in roles'[x] /\ roles[x] \subseteq roles'[x]
    BY <1>1 DEF TypeOK, ListsOK
  <2>2. QED
    BY <1>1, <2>1 DEF loopVars, ListsOK, Audience
<1>4. QED
  BY <1>2, <1>3

LEMMA EnqueueShape ==
  ASSUME Shape, NEW q \in Queues, Enqueue(q)
  PROVE  Shape'
<1> USE DEF Shape
<1>1. /\ queued + 1 \in Packets /\ queued' \in 0..MaxPackets
      /\ queue' = [queue EXCEPT ![q] = Append(@, queued + 1)]
      /\ UNCHANGED <<tableVars, loopVars, optInVars, roles>>
  BY ConstantFacts DEF Enqueue, TypeOK
<1>2. queue' \in [Queues -> Seq(Packets)]
  BY <1>1 DEF TypeOK
<1>3. QED
  BY <1>1, <1>2 DEF tableVars, loopVars, optInVars, TypeOK, SendingOK, ListsOK, Audience

(* What Drain leaves, whoever the audience. *)
LEMMA DrainFacts ==
  ASSUME TypeOK, NEW q \in Queues, NEW audience \in SUBSET Peers, Drain(q, audience)
  PROVE  /\ at' = q
         /\ msgs' \in Seq(Packets)
         /\ targets' \subseteq audience
         /\ targets' # {} <=> msgs' # <<>>
         /\ queue' \in [Queues -> Seq(Packets)]
         /\ batch' \in [Queues -> Seq(Packets)]
BY DEF Drain, First, TypeOK

LEMMA ReadListsShape ==
  ASSUME Shape, ReadLists
  PROVE  Shape'
<1> USE DEF Shape
<1>1. /\ all_addrs' = Listed /\ slave_addrs' = Slaves
      /\ roles' = [p \in Peers |-> {table[p]}]
      /\ Drain("broadcast", Slaves)
      /\ UNCHANGED <<table, changes, queued, opt_in, ticked, sent>>
  BY DEF ReadLists, tableVars, optInVars
<1>2. Slaves \subseteq Listed /\ Listed \subseteq Peers /\ "broadcast" \in Queues
  BY ConstantFacts DEF Slaves, Listed
<1>3. TypeOK'
  <2>1. roles' \in [Peers -> SUBSET (Roles \cup {Absent})]
    BY <1>1 DEF TypeOK
  <2>2. QED
    BY <1>1, <1>2, <2>1, DrainFacts DEF TypeOK
<1>4. SendingOK'
  BY <1>1, <1>2, DrainFacts DEF SendingOK, Audience
<1>5. ListsOK'
  <2>1. \A p \in Peers : roles'[p] = {table[p]} /\ table[p] \in Roles \cup {Absent}
    BY <1>1 DEF TypeOK
  <2>2. \A p \in Peers : (p \in Listed <=> table[p] \in Roles)
                         /\ (p \in Slaves <=> table[p] \in {"Slave", "Repeater"})
    BY <2>1, ConstantFacts DEF Listed, Slaves
  <2>3. QED
    BY <1>1, <2>1, <2>2 DEF ListsOK, Audience, Wanted
<1>6. QED
  BY <1>3, <1>4, <1>5

LEMMA NextQueueShape ==
  ASSUME Shape, NextQueue
  PROVE  Shape'
<1> USE DEF Shape
<1>1. PICK q \in {"slave", "time"} : Drain(q, Audience(q))
  BY DEF NextQueue
<1>2. /\ at # "asleep" /\ at' = q /\ q # "asleep"
      /\ UNCHANGED <<table, changes, queued, opt_in, ticked, sent, roles, all_addrs, slave_addrs>>
  BY <1>1 DEF NextQueue, Drain, tableVars, optInVars
<1>3. q \in Queues /\ Audience(q) \in SUBSET Peers
  BY ConstantFacts, AudienceType
<1>4. TypeOK'
  BY <1>1, <1>2, <1>3, DrainFacts DEF TypeOK
<1>5. SendingOK' /\ ListsOK'
  BY <1>1, <1>2, <1>3, DrainFacts DEF SendingOK, ListsOK, Audience
<1>6. QED
  BY <1>4, <1>5

LEMMA SendToShape ==
  ASSUME Shape, NEW p \in Peers, SendTo(p)
  PROVE  Shape'
<1> USE DEF Shape
<1> DEFINE rest == IF targets = {p} THEN Tail(msgs) ELSE msgs
<1>1. /\ p \in targets /\ msgs \in Seq(Packets) /\ msgs # <<>>
      /\ Head(msgs) \in Packets /\ Tail(msgs) \in Seq(Packets)
      /\ at \in Queues /\ at # "asleep" /\ p \in Audience(at)
  <2>1. p \in targets /\ targets # {}
    BY DEF SendTo
  <2>2. msgs \in Seq(Packets) /\ msgs # <<>>
    BY <2>1 DEF TypeOK
  <2>3. Head(msgs) \in Packets /\ Tail(msgs) \in Seq(Packets)
    BY <2>2
  <2>4. at \in Queues /\ at # "asleep" /\ p \in Audience(at)
    BY <2>1, <2>2 DEF TypeOK, SendingOK
  <2>5. QED
    BY <2>1, <2>2, <2>3, <2>4
<1>2. /\ sent' = [sent EXCEPT ![p][at] = Append(@, Head(msgs))]
      /\ msgs' = rest
      /\ targets' = IF targets = {p} THEN First(rest, Audience(at)) ELSE targets \ {p}
      /\ UNCHANGED <<table, changes, queue, queued, at, all_addrs, slave_addrs, opt_in, ticked,
                     roles, batch>>
  BY DEF SendTo, tableVars, queueVars, optInVars
<1>3. sent' \in [Peers -> [Queues -> Seq(Packets)]]
  <2>1. Append(sent[p][at], Head(msgs)) \in Seq(Packets)
    BY <1>1 DEF TypeOK
  <2>2. QED
    BY <1>1, <1>2, <2>1 DEF TypeOK
<1>4. /\ msgs' \in Seq(Packets) /\ targets' \subseteq Audience(at)
      /\ targets' # {} <=> msgs' # <<>>
  <2>1. targets \subseteq Audience(at) /\ Audience(at) # {}
    BY <1>1 DEF SendingOK
  <2>2. CASE targets = {p}
    BY <1>1, <1>2, <2>1, <2>2 DEF First
  <2>3. CASE targets # {p}
    <3>1. targets' = targets \ {p} /\ msgs' = msgs
      BY <1>2, <2>3
    <3>2. targets \ {p} # {}
      BY <1>1, <2>3
    <3>3. QED
      BY <1>1, <2>1, <3>1, <3>2
  <2>4. QED
    BY <2>2, <2>3
<1>5. TypeOK'
  BY <1>1, <1>2, <1>3, <1>4, AudienceType DEF TypeOK
<1>6. SendingOK' /\ ListsOK'
  BY <1>1, <1>2, <1>4 DEF SendingOK, ListsOK, Audience
<1>7. QED
  BY <1>5, <1>6

LEMMA OtherShape ==
  ASSUME Shape, Sleep \/ SecondPasses \/ Broadcast \/ UNCHANGED vars
  PROVE  Shape'
<1> USE DEF Shape
<1>1. CASE Sleep
  BY <1>1 DEF Sleep, tableVars, queueVars, optInVars, TypeOK, SendingOK, ListsOK
<1>2. CASE SecondPasses \/ Broadcast \/ UNCHANGED vars
  <2>1. UNCHANGED <<tableVars, queueVars, loopVars, roles>>
    BY <1>2 DEF SecondPasses, Broadcast, BuildOptIns, SendOptIn, vars
  <2>2. opt_in' \subseteq Peers /\ ticked' \in BOOLEAN
    BY <1>2 DEF SecondPasses, Broadcast, BuildOptIns, SendOptIn, Listed, vars, optInVars, TypeOK
  <2>3. QED
    BY <2>1, <2>2 DEF tableVars, queueVars, loopVars, TypeOK, SendingOK, ListsOK, Audience
<1>3. QED
  BY <1>1, <1>2

LEMMA StepShape == Shape /\ [Next]_vars => Shape'
BY ChangeShape, EnqueueShape, ReadListsShape, NextQueueShape, SendToShape, OtherShape
   DEF Next, OptIn, Leaves, ActiveBroadcast

(* The table, the queues, the lists and the loop keep their shape; there is *)
(* someone to send to exactly while there is something to send.             *)
THEOREM TypeCorrect == Spec => []TypeOK
<1>1. Shape => TypeOK
  BY DEF Shape
<1>2. QED
  BY <1>1, InitShape, StepShape, PTL DEF Spec

(* Nobody is sent a packet who was not in the table, in a role it is for,  *)
(* at some moment since the lists were read.                               *)
THEOREM NoneOutsideLists == Spec => LeaversLeftAlone
<1>1. ASSUME Shape, [Next]_vars, NEW p \in Peers, NEW q \in Queues, sent'[p][q] # sent[p][q]
      PROVE  roles[p] \cap Wanted(q) # {}
  <2>1. PICK x \in Peers : SendTo(x)
    BY <1>1 DEF Next, OptIn, Leaves, Change, Enqueue, ActiveBroadcast, ReadLists, NextQueue, Sleep,
                SecondPasses, Broadcast, BuildOptIns, SendOptIn, vars, loopVars
  <2>2. sent' = [sent EXCEPT ![x][at] = Append(@, Head(msgs))] /\ x \in targets
    BY <2>1 DEF SendTo
  <2>3. x = p /\ at = q
    BY <1>1, <2>2 DEF Shape, TypeOK
  <2>4. p \in Audience(q) /\ at # "asleep"
    BY <1>1, <2>2, <2>3, ConstantFacts DEF Shape, SendingOK
  <2>5. QED
    BY <1>1, <2>4 DEF Shape, ListsOK
<1>2. Shape /\ [Next]_vars =>
        [\A p \in Peers : \A q \in Queues :
           sent'[p][q] # sent[p][q] => roles[p] \cap Wanted(q) # {}]_vars
  BY <1>1
<1>3. QED
  BY <1>2, InitShape, StepShape, PTL DEF Spec, LeaversLeftAlone

-------------------------------------------------------------------------------
(* Order *)

Increasing(packets) == \A i, j \in 1..Len(packets) : i < j => packets[i] < packets[j]

Before(packets, others) ==
  \A i \in 1..Len(packets) : \A j \in 1..Len(others) : packets[i] < others[j]

(* What a peer was sent comes before what it is still to be sent of the    *)
(* packets in hand, and all of that before what is in the queue.           *)
InOrder ==
  /\ \A q \in Queues :
       /\ Increasing(queue[q])
       /\ \A i \in 1..Len(queue[q]) : queue[q][i] <= queued
       /\ at = q => Before(msgs, queue[q])
       /\ \A p \in Peers : Increasing(sent[p][q]) /\ Before(sent[p][q], queue[q])
  /\ Increasing(msgs)
  /\ \A i \in 1..Len(msgs) : msgs[i] <= queued
  /\ at # "asleep" =>
       \A p \in Peers : \A i \in 1..Len(sent[p][at]) : \A j \in 1..Len(msgs) :
         p \in targets \/ j >= 2 => sent[p][at][i] < msgs[j]
  /\ \A p \in Peers : \A q \in Queues : \A i \in 1..Len(sent[p][q]) : sent[p][q][i] <= queued

(* Packets are numbers. *)
LEMMA PacketsAreNumbers ==
  ASSUME Shape
  PROVE  /\ msgs \in Seq(Nat)
         /\ \A q \in Queues : queue[q] \in Seq(Nat) /\ batch[q] \in Seq(Nat)
         /\ \A p \in Peers : \A q \in Queues : sent[p][q] \in Seq(Nat)
         /\ queued \in Nat
<1>1. ASSUME NEW packets \in Seq(Packets) PROVE packets \in Seq(Nat)
  <2>1. \A i \in 1..Len(packets) : packets[i] \in Packets
    OBVIOUS
  <2>2. \A i \in 1..Len(packets) : packets[i] \in Nat
    BY <2>1 DEF Packets
  <2>3. QED
    BY <2>2
<1>2. queued \in Nat
  BY DEF Shape, TypeOK
<1>3. msgs \in Seq(Packets)
  BY DEF Shape, TypeOK
<1>4. \A q \in Queues : queue[q] \in Seq(Packets) /\ batch[q] \in Seq(Packets)
  BY DEF Shape, TypeOK
<1>5. \A p \in Peers : \A q \in Queues : sent[p][q] \in Seq(Packets)
  BY DEF Shape, TypeOK
<1>6. QED
  BY <1>1, <1>2, <1>3, <1>4, <1>5

LEMMA InitOrder == Init => InOrder
<1> SUFFICES ASSUME Init PROVE InOrder
  OBVIOUS
<1>1. /\ \A q \in Queues : queue[q] = <<>>
      /\ \A p \in Peers : \A q \in Queues : sent[p][q] = <<>>
      /\ msgs = <<>> /\ at = "asleep"
  BY DEF Init, Nothing
<1>2. QED
  BY <1>1 DEF InOrder, Increasing, Before

LEMMA EnqueueOrder ==
  ASSUME Shape, InOrder, NEW q \in Queues, Enqueue(q)
  PROVE  InOrder'
<1>1. /\ queued' = queued + 1 /\ queued \in Nat
      /\ queue' = [queue EXCEPT ![q] = Append(@, queued + 1)]
      /\ UNCHANGED <<msgs, targets, sent, at>>
  BY PacketsAreNumbers DEF Enqueue, loopVars
<1>2. /\ msgs \in Seq(Nat)
      /\ \A x \in Queues : queue[x] \in Seq(Nat)
      /\ \A p \in Peers : \A x \in Queues : sent[p][x] \in Seq(Nat)
  BY PacketsAreNumbers
<1>3. /\ Len(queue'[q]) = Len(queue[q]) + 1
      /\ queue'[q][Len(queue[q]) + 1] = queued + 1
      /\ \A i \in 1..Len(queue[q]) : queue'[q][i] = queue[q][i]
      /\ \A x \in Queues \ {q} : queue'[x] = queue[x]
  BY <1>1, <1>2 DEF Shape, TypeOK
<1>4. /\ Increasing(queue'[q])
      /\ \A i \in 1..Len(queue'[q]) : queue'[q][i] <= queued'
  BY <1>1, <1>2, <1>3 DEF InOrder, Increasing
<1>5. ASSUME NEW packets \in Seq(Nat), Before(packets, queue[q]),
             \A i \in 1..Len(packets) : packets[i] <= queued
      PROVE  Before(packets, queue'[q])
  BY <1>1, <1>2, <1>3, <1>5 DEF Before
<1>6. ASSUME NEW x \in Queues
      PROVE  /\ Increasing(queue'[x])
             /\ \A i \in 1..Len(queue'[x]) : queue'[x][i] <= queued'
             /\ at = x => Before(msgs, queue'[x])
             /\ \A p \in Peers : Increasing(sent[p][x]) /\ Before(sent[p][x], queue'[x])
  <2>1. CASE x = q
    <3>1. at = q => Before(msgs, queue'[q])
      BY <1>2, <1>5 DEF InOrder
    <3>2. \A p \in Peers : Increasing(sent[p][q]) /\ Before(sent[p][q], queue'[q])
      BY <1>2, <1>5 DEF InOrder
    <3>3. QED
      BY <1>4, <2>1, <3>1, <3>2
  <2>2. CASE x # q
    <3>1. queue'[x] = queue[x]
      BY <1>3, <2>2
    <3>2. \A i \in 1..Len(queue[x]) : queue[x][i] <= queued + 1
      <4>1. \A i \in 1..Len(queue[x]) : queue[x][i] \in Nat /\ queue[x][i] <= queued
        BY <1>2 DEF InOrder
      <4>2. QED
        BY <1>1, <4>1
    <3>3. QED
      BY <1>1, <3>1, <3>2 DEF InOrder
  <2>3. QED
    BY <2>1, <2>2
<1>7. /\ \A i \in 1..Len(msgs) : msgs[i] <= queued'
      /\ \A p \in Peers : \A x \in Queues : \A i \in 1..Len(sent[p][x]) : sent[p][x][i] <= queued'
  <2>1. ASSUME NEW packets \in Seq(Nat), \A i \in 1..Len(packets) : packets[i] <= queued
        PROVE  \A i \in 1..Len(packets) : packets[i] <= queued'
    <3>1. \A i \in 1..Len(packets) : packets[i] \in Nat
      OBVIOUS
    <3>2. QED
      BY <1>1, <2>1, <3>1
  <2>2. \A i \in 1..Len(msgs) : msgs[i] <= queued
    BY DEF InOrder
  <2>3. \A p \in Peers : \A x \in Queues : \A i \in 1..Len(sent[p][x]) : sent[p][x][i] <= queued
    BY DEF InOrder
  <2>4. QED
    BY <1>2, <2>1, <2>2, <2>3
<1>8. QED
  BY <1>1, <1>6, <1>7 DEF InOrder

LEMMA DrainOrder ==
  ASSUME Shape, InOrder, NEW q \in Queues, NEW audience, Drain(q, audience),
         UNCHANGED <<queued, sent>>
  PROVE  InOrder'
<1>1. /\ at' = q /\ q # "asleep"
      /\ msgs' = <<>> \/ msgs' = queue[q]
      /\ queue'[q] = <<>>
      /\ \A x \in Queues \ {q} : queue'[x] = queue[x]
  BY ConstantFacts DEF Drain, Shape, TypeOK
<1>2. Len(<<>>) = 0
  OBVIOUS
<1>3. ASSUME NEW x \in Queues
      PROVE  /\ Increasing(queue'[x])
             /\ \A i \in 1..Len(queue'[x]) : queue'[x][i] <= queued
             /\ at' = x => Before(msgs', queue'[x])
             /\ \A p \in Peers : Increasing(sent[p][x]) /\ Before(sent[p][x], queue'[x])
  <2>1. \A p \in Peers : Increasing(sent[p][x]) /\ Before(sent[p][x], queue[x])
    BY DEF InOrder
  <2>2. CASE x = q
    <3>1. queue'[x] = <<>>
      BY <1>1, <2>2
    <3>2. QED
      BY <1>2, <2>1, <3>1 DEF Increasing, Before
  <2>3. CASE x # q
    <3>1. queue'[x] = queue[x] /\ at' # x
      BY <1>1, <2>3
    <3>2. Increasing(queue[x]) /\ \A i \in 1..Len(queue[x]) : queue[x][i] <= queued
      BY DEF InOrder
    <3>3. QED
      BY <2>1, <3>1, <3>2
  <2>4. QED
    BY <2>2, <2>3
<1>4. /\ Increasing(msgs')
      /\ \A i \in 1..Len(msgs') : msgs'[i] <= queued
      /\ \A p \in Peers : \A i \in 1..Len(sent[p][q]) : \A j \in 1..Len(msgs') :
           sent[p][q][i] < msgs'[j]
  <2>1. CASE msgs' = <<>>
    BY <1>2, <2>1 DEF Increasing
  <2>2. CASE msgs' = queue[q]
    <3>1. Increasing(queue[q]) /\ \A i \in 1..Len(queue[q]) : queue[q][i] <= queued
      BY DEF InOrder
    <3>2. \A p \in Peers : Before(sent[p][q], queue[q])
      BY DEF InOrder
    <3>3. QED
      BY <2>2, <3>1, <3>2 DEF Before
  <2>3. QED
    BY <1>1, <2>1, <2>2
<1>5. QED
  BY <1>1, <1>3, <1>4 DEF InOrder

(* What one send changes, element by element. *)
OneSend(p) ==
  /\ p \in targets /\ at \in Queues /\ at # "asleep" /\ p \in Audience(at)
  /\ msgs \in Seq(Nat) /\ Len(msgs) >= 1
  /\ sent[p][at] \in Seq(Nat)
  /\ Len(sent'[p][at]) = Len(sent[p][at]) + 1
  /\ sent'[p][at][Len(sent[p][at]) + 1] = msgs[1]
  /\ \A i \in 1..Len(sent[p][at]) : sent'[p][at][i] = sent[p][at][i]
  /\ \A x \in Peers : \A q \in Queues : x # p \/ q # at => sent'[x][q] = sent[x][q]
  /\ targets # {p} => msgs' = msgs /\ targets' = targets \ {p}
  /\ targets = {p} =>
       /\ Len(msgs') = Len(msgs) - 1
       /\ \A i \in 1..Len(msgs') : msgs'[i] = msgs[i + 1]
       /\ targets' = IF msgs' = <<>> THEN {} ELSE Audience(at)
       /\ msgs' \in Seq(Nat)
  /\ UNCHANGED <<queue, queued, at, all_addrs, slave_addrs, roles, batch>>

LEMMA SendToFacts ==
  ASSUME Shape, NEW p \in Peers, SendTo(p)
  PROVE  OneSend(p)
<1>1. p \in targets /\ targets # {}
  BY DEF SendTo
<1>2. msgs \in Seq(Nat) /\ msgs # <<>> /\ Head(msgs) = msgs[1] /\ Head(msgs) \in Nat
  <2>1. msgs \in Seq(Nat) /\ msgs # <<>>
    BY <1>1, PacketsAreNumbers DEF Shape, TypeOK
  <2>2. QED
    BY <2>1
<1>3. Len(msgs) >= 1
  BY <1>2
<1>4. at \in Queues /\ at # "asleep" /\ p \in Audience(at)
  BY <1>1, <1>2 DEF Shape, TypeOK, SendingOK
<1>5. sent[p][at] \in Seq(Nat)
  BY <1>4, PacketsAreNumbers
<1>6. /\ sent'[p][at] = Append(sent[p][at], msgs[1])
      /\ \A x \in Peers : \A q \in Queues : x # p \/ q # at => sent'[x][q] = sent[x][q]
  BY <1>2, <1>4 DEF SendTo, Shape, TypeOK
<1>7. /\ Len(sent'[p][at]) = Len(sent[p][at]) + 1
      /\ sent'[p][at][Len(sent[p][at]) + 1] = msgs[1]
      /\ \A i \in 1..Len(sent[p][at]) : sent'[p][at][i] = sent[p][at][i]
  BY <1>2, <1>5, <1>6
<1>8. targets = {p} =>
        /\ Len(msgs') = Len(msgs) - 1
        /\ \A i \in 1..Len(msgs') : msgs'[i] = msgs[i + 1]
        /\ targets' = IF msgs' = <<>> THEN {} ELSE Audience(at)
        /\ msgs' \in Seq(Nat)
  <2> SUFFICES ASSUME targets = {p}
               PROVE  /\ Len(msgs') = Len(msgs) - 1
                      /\ \A i \in 1..Len(msgs') : msgs'[i] = msgs[i + 1]
                      /\ targets' = IF msgs' = <<>> THEN {} ELSE Audience(at)
                      /\ msgs' \in Seq(Nat)
    OBVIOUS
  <2>1. msgs' = Tail(msgs) /\ targets' = First(msgs', Audience(at))
    BY DEF SendTo
  <2>2. QED
    BY <1>2, <2>1 DEF First
<1>9. targets # {p} => msgs' = msgs /\ targets' = targets \ {p}
  BY DEF SendTo
<1>10. UNCHANGED <<queue, queued, at, all_addrs, slave_addrs, roles, batch>>
  BY DEF SendTo, queueVars
<1>11. QED
  BY <1>1, <1>2, <1>3, <1>4, <1>5, <1>6, <1>7, <1>8, <1>9, <1>10 DEF OneSend

LEMMA SendToOrder ==
  ASSUME Shape, InOrder, NEW p \in Peers, SendTo(p)
  PROVE  InOrder'
<1>1. /\ \A x \in Queues : queue[x] \in Seq(Nat)
      /\ \A x \in Peers : \A q \in Queues : sent[x][q] \in Seq(Nat)
      /\ queued \in Nat /\ msgs \in Seq(Nat)
  BY PacketsAreNumbers
<1>2. OneSend(p)
  BY SendToFacts
(* What is in hand stands for what was in hand, further on. *)
<1>3. \A j \in 1..Len(msgs') : \E k \in 1..Len(msgs) :
        /\ msgs'[j] = msgs[k]
        /\ k = IF targets = {p} THEN j + 1 ELSE j
  <2>1. CASE targets = {p}
    <3>1. /\ Len(msgs') = Len(msgs) - 1 /\ Len(msgs) \in Nat
          /\ \A i \in 1..Len(msgs') : msgs'[i] = msgs[i + 1]
      BY <1>1, <1>2, <2>1 DEF OneSend
    <3>2. \A j \in 1..Len(msgs') : j + 1 \in 1..Len(msgs)
      BY <3>1
    <3>3. QED
      BY <2>1, <3>1, <3>2
  <2>2. CASE targets # {p}
    <3>1. msgs' = msgs
      BY <1>2, <2>2 DEF OneSend
    <3>2. QED
      BY <2>2, <3>1
  <2>3. QED
    BY <2>1, <2>2
<1>4. Increasing(msgs') /\ (\A i \in 1..Len(msgs') : msgs'[i] <= queued)
        /\ Before(msgs', queue[at])
  <2>1. Increasing(msgs')
    <3>1. CASE targets = {p}
      <4>1. /\ Len(msgs') = Len(msgs) - 1 /\ Len(msgs) \in Nat
            /\ \A i \in 1..Len(msgs') : i + 1 \in 1..Len(msgs) /\ msgs'[i] = msgs[i + 1]
        BY <1>1, <1>2, <3>1 DEF OneSend
      <4>2. \A i, j \in 1..Len(msgs) : i < j => msgs[i] < msgs[j]
        BY DEF InOrder, Increasing
      <4>3. \A i, j \in 1..Len(msgs') : i < j => msgs'[i] < msgs'[j]
        BY <4>1, <4>2
      <4>4. QED
        BY <4>3 DEF Increasing
    <3>2. CASE targets # {p}
      BY <1>2, <3>2 DEF OneSend, InOrder
    <3>3. QED
      BY <3>1, <3>2
  <2>2. \A i \in 1..Len(msgs') : msgs'[i] <= queued
    BY <1>3 DEF InOrder
  <2>3. Before(msgs, queue[at])
    BY <1>2 DEF OneSend, InOrder
  <2>4. Before(msgs', queue[at])
    BY <1>3, <2>3 DEF Before
  <2>5. QED
    BY <2>1, <2>2, <2>4
<1>5. 1 \in 1..Len(msgs)
  BY <1>1, <1>2 DEF OneSend
<1>6. \A i \in 1..Len(sent'[p][at]) :
        \/ i \in 1..Len(sent[p][at]) /\ sent'[p][at][i] = sent[p][at][i]
        \/ i = Len(sent[p][at]) + 1 /\ sent'[p][at][i] = msgs[1]
  <2>1. Len(sent[p][at]) \in Nat /\ Len(sent'[p][at]) = Len(sent[p][at]) + 1
    BY <1>2 DEF OneSend
  <2>2. \A i \in 1..Len(sent'[p][at]) : i \in 1..Len(sent[p][at]) \/ i = Len(sent[p][at]) + 1
    BY <2>1
  <2>3. QED
    BY <1>2, <2>2 DEF OneSend
<1>7. /\ Increasing(sent'[p][at]) /\ Before(sent'[p][at], queue[at])
      /\ \A i \in 1..Len(sent'[p][at]) : sent'[p][at][i] <= queued
  <2>1. \A i \in 1..Len(sent[p][at]) : sent[p][at][i] < msgs[1]
    BY <1>2, <1>5 DEF OneSend, InOrder
  <2>2. Increasing(sent[p][at]) /\ Before(sent[p][at], queue[at])
    BY <1>2 DEF OneSend, InOrder
  <2>3. Increasing(sent'[p][at])
    <3>1. Len(sent[p][at]) \in Nat /\ Len(sent'[p][at]) = Len(sent[p][at]) + 1
      BY <1>2 DEF OneSend
    <3>2. ASSUME NEW i \in 1..Len(sent'[p][at]), NEW j \in 1..Len(sent'[p][at]), i < j
          PROVE  sent'[p][at][i] < sent'[p][at][j]
      <4>1. i \in 1..Len(sent[p][at]) /\ sent'[p][at][i] = sent[p][at][i]
        BY <1>6, <3>1, <3>2
      <4>2. CASE j \in 1..Len(sent[p][at]) /\ sent'[p][at][j] = sent[p][at][j]
        BY <2>2, <3>2, <4>1, <4>2 DEF Increasing
      <4>3. CASE sent'[p][at][j] = msgs[1]
        BY <2>1, <4>1, <4>3
      <4>4. QED
        BY <1>6, <4>2, <4>3
    <3>3. QED
      BY <3>2 DEF Increasing
  <2>4. Before(sent'[p][at], queue[at])
    <3>1. \A j \in 1..Len(queue[at]) : msgs[1] < queue[at][j]
      BY <1>2, <1>5 DEF OneSend, InOrder, Before
    <3>2. QED
      BY <1>6, <2>2, <3>1 DEF Before
  <2>5. \A i \in 1..Len(sent'[p][at]) : sent'[p][at][i] <= queued
    BY <1>2, <1>5, <1>6 DEF OneSend, InOrder
  <2>6. QED
    BY <2>3, <2>4, <2>5
<1>8. \A x \in Peers : \A i \in 1..Len(sent'[x][at]) : \A j \in 1..Len(msgs') :
        x \in targets' \/ j >= 2 => sent'[x][at][i] < msgs'[j]
  <2> SUFFICES ASSUME NEW x \in Peers, NEW i \in 1..Len(sent'[x][at]), NEW j \in 1..Len(msgs'),
                      x \in targets' \/ j >= 2
               PROVE  sent'[x][at][i] < msgs'[j]
    OBVIOUS
  <2>1. PICK k \in 1..Len(msgs) :
          msgs'[j] = msgs[k] /\ k = IF targets = {p} THEN j + 1 ELSE j
    BY <1>3
  <2>2. k >= 2 \/ (x # p /\ x \in targets)
    BY <1>2, <2>1 DEF OneSend
  <2>3. CASE x = p /\ sent'[x][at][i] = msgs[1]
    BY <1>5, <2>1, <2>2, <2>3 DEF InOrder, Increasing
  <2>4. CASE i \in 1..Len(sent[x][at]) /\ sent'[x][at][i] = sent[x][at][i]
    BY <1>2, <2>1, <2>2, <2>4 DEF OneSend, InOrder
  <2>5. QED
    BY <1>2, <1>6, <2>3, <2>4 DEF OneSend
<1>9. /\ UNCHANGED <<queue, queued, at>>
      /\ \A x \in Peers : \A q \in Queues : x # p \/ q # at => sent'[x][q] = sent[x][q]
  BY <1>2 DEF OneSend
<1>10. \A x \in Peers : \A q \in Queues :
         /\ Increasing(sent'[x][q]) /\ Before(sent'[x][q], queue[q])
         /\ \A i \in 1..Len(sent'[x][q]) : sent'[x][q][i] <= queued
  <2> SUFFICES ASSUME NEW x \in Peers, NEW q \in Queues
               PROVE  /\ Increasing(sent'[x][q]) /\ Before(sent'[x][q], queue[q])
                      /\ \A i \in 1..Len(sent'[x][q]) : sent'[x][q][i] <= queued
    OBVIOUS
  <2>1. CASE x = p /\ q = at
    BY <1>7, <2>1
  <2>2. CASE x # p \/ q # at
    BY <1>9, <2>2 DEF InOrder
  <2>3. QED
    BY <2>1, <2>2
<1>11. QED
  BY <1>4, <1>8, <1>9, <1>10 DEF InOrder

LEMMA StepOrder == Shape /\ InOrder /\ [Next]_vars => InOrder'
<1>1. ASSUME Shape, InOrder, ReadLists PROVE InOrder'
  BY <1>1, DrainOrder, ConstantFacts DEF ReadLists
<1>2. ASSUME Shape, InOrder, NextQueue PROVE InOrder'
  BY <1>2, DrainOrder, ConstantFacts DEF NextQueue
<1>3. ASSUME InOrder, UNCHANGED <<queueVars, sent, msgs, targets>>, at' \in {at, "asleep"}
      PROVE  InOrder'
  BY <1>3, ConstantFacts DEF queueVars, InOrder
<1>4. ASSUME [Next]_vars, ~ReadLists, ~NextQueue, \A p \in Peers : ~SendTo(p),
             \A q \in Queues : ~Enqueue(q)
      PROVE  UNCHANGED <<queueVars, sent, msgs, targets>> /\ at' \in {at, "asleep"}
  BY <1>4 DEF Next, OptIn, Leaves, Change, ActiveBroadcast, Sleep, SecondPasses, Broadcast,
              BuildOptIns, SendOptIn, vars, loopVars
<1>5. QED
  BY <1>1, <1>2, <1>3, <1>4, EnqueueOrder, SendToOrder

(* Every peer is sent the packets of a queue at most once each and in the  *)
(* order in which they were queued, whatever becomes of the table.         *)
THEOREM SentInOrder == Spec => []OrderKept
<1>1. InOrder => OrderKept
  BY DEF InOrder, OrderKept, Increasing
<1>2. Spec => [](Shape /\ InOrder)
  BY InitShape, InitOrder, StepShape, StepOrder, PTL DEF Spec
<1>3. QED
  BY <1>1, <1>2, PTL
-------------------------------------------------------------------------------
(* Every packet for everybody who stayed *)

(* The first n packets of the iteration's batch are the last p was sent.   *)
Got(p, q, n) ==
  n <= Len(sent[p][q]) /\
  \A i \in 1..n : batch[q][i] = sent[p][q][Len(sent[p][q]) - n + i]

(* How many of the batch in hand p has been sent. *)
Through(p) ==
  Len(batch[at]) - Len(msgs) + (IF msgs # <<>> /\ p \notin targets THEN 1 ELSE 0)

(* The queues this iteration is done with. *)
Earlier(q) ==
  \/ at = "slave" /\ q = "broadcast"
  \/ at = "time" /\ q \in {"broadcast", "slave"}

InHand ==
  /\ Len(msgs) <= Len(batch[at])
  /\ \A j \in 1..Len(msgs) : msgs[j] = batch[at][Len(batch[at]) - Len(msgs) + j]

Served ==
  /\ RolesServed
  /\ at # "asleep" => \A p \in Audience(at) : InHand /\ Got(p, at, Through(p))
  /\ \A q \in Queues : Earlier(q) => \A p \in Audience(q) : Got(p, q, Len(batch[q]))

(* What the peers were sent and are to be sent depends on the loop alone. *)
LEMMA SameServing ==
  ASSUME Served, UNCHANGED <<at, msgs, targets, sent, batch, all_addrs, slave_addrs>>,
         RolesServed'
  PROVE  Served'
<1>1. /\ \A q : Audience(q)' = Audience(q) /\ (Earlier(q)' <=> Earlier(q))
      /\ \A p : Through(p)' = Through(p)
      /\ InHand' <=> InHand
      /\ \A p, q, n : Got(p, q, n)' <=> Got(p, q, n)
  <2>1. \A q : Audience(q)' = Audience(q) /\ (Earlier(q)' <=> Earlier(q))
    BY DEF Audience, Earlier
  <2>2. \A p : Through(p)' = Through(p)
    BY DEF Through
  <2>3. InHand' <=> InHand
    BY DEF InHand
  <2>4. \A p, q, n : Got(p, q, n)' <=> Got(p, q, n)
    BY DEF Got
  <2>5. QED
    BY <2>1, <2>2, <2>3, <2>4
<1>2. at # "asleep" => \A p \in Audience(at) : InHand /\ Got(p, at, Through(p))
  BY DEF Served
<1>3. (at # "asleep" => \A p \in Audience(at) : InHand /\ Got(p, at, Through(p)))'
  <2>1. SUFFICES ASSUME at # "asleep", NEW p \in Audience(at)
                 PROVE  (InHand /\ Got(p, at, Through(p)))'
    BY <1>1
  <2>2. InHand /\ Got(p, at, Through(p))
    BY <1>2, <2>1
  <2>3. QED
    BY <1>1, <2>2 DEF Got
<1>4. (\A q \in Queues : Earlier(q) => \A p \in Audience(q) : Got(p, q, Len(batch[q])))'
  <2>1. SUFFICES ASSUME NEW q \in Queues, Earlier(q), NEW p \in Audience(q)
                 PROVE  Got(p, q, Len(batch[q]))'
    BY <1>1
  <2>2. Got(p, q, Len(batch[q]))
    BY <2>1 DEF Served
  <2>3. QED
    BY <2>2 DEF Got
<1>5. QED
  BY <1>3, <1>4 DEF Served

LEMMA InitServed == Init => Served
<1> SUFFICES ASSUME Init PROVE Served
  OBVIOUS
<1>1. at = "asleep"
  BY DEF Init
<1>2. \A p \in Peers : \A q \in Queues : batch[q] = <<>> /\ sent[p][q] = <<>>
  BY DEF Init, Nothing
<1>3. Len(<<>>) = 0
  OBVIOUS
<1>4. IsSuffix(<<>>, <<>>)
  BY <1>3 DEF IsSuffix
<1>5. RolesServed
  BY <1>2, <1>4 DEF RolesServed
<1>6. QED
  BY <1>1, <1>5 DEF Served, Earlier

LEMMA ChangeServed ==
  ASSUME Shape, Served, NEW p \in Peers, NEW role \in Roles \cup {Absent}, Change(p, role)
  PROVE  Served'
<1>1. /\ UNCHANGED <<at, msgs, targets, sent, batch, all_addrs, slave_addrs>>
      /\ roles' = [roles EXCEPT ![p] = @ \cup {role}]
  BY DEF Change, loopVars
<1>2. \A x \in Peers : roles[x] \subseteq roles'[x]
  BY <1>1 DEF Shape, TypeOK
<1>3. RolesServed'
  <2>1. SUFFICES ASSUME at = "asleep", NEW x \in Peers, NEW q \in Queues,
                        roles'[x] \subseteq Wanted(q)
                 PROVE  IsSuffix(batch[q], sent[x][q])
    BY <1>1 DEF RolesServed, IsSuffix, Wanted
  <2>2. roles[x] \subseteq Wanted(q)
    BY <1>2, <2>1
  <2>3. QED
    BY <2>1, <2>2 DEF Served, RolesServed
<1>4. QED
  BY <1>1, <1>3, SameServing

(* A batch just drained: nothing of it is sent. *)
LEMMA DrainServed ==
  ASSUME Shape, NEW q \in Queues, NEW audience \in SUBSET Peers, Drain(q, audience),
         UNCHANGED sent, Audience(q)' = audience
  PROVE  /\ RolesServed'
         /\ (\A p \in Audience(at) : InHand /\ Got(p, at, Through(p)))'
<1>1. /\ at' = q /\ q # "asleep"
      /\ audience # {} => msgs' = queue[q] /\ targets' = First(queue[q], audience)
      /\ batch'[q] = queue[q]
      /\ queue[q] \in Seq(Nat)
      /\ \A p \in Peers : sent[p][q] \in Seq(Nat)
  BY PacketsAreNumbers, ConstantFacts DEF Drain, Shape, TypeOK
<1>2. RolesServed'
  BY <1>1 DEF RolesServed
<1>3. ASSUME NEW p \in audience PROVE (InHand /\ Got(p, at, Through(p)))'
  <2>1. msgs' = queue[q] /\ batch'[at'] = queue[q] /\ (msgs' # <<>> => p \in targets')
    BY <1>1, <1>3 DEF First
  <2>2. InHand'
    BY <1>1, <2>1 DEF InHand
  <2>3. Through(p)' = 0
    BY <1>1, <2>1 DEF Through
  <2>4. p \in Peers /\ Len(sent'[p][at']) \in Nat
    BY <1>1, <1>3
  <2>5. QED
    BY <2>2, <2>3, <2>4 DEF Got
<1>4. QED
  BY <1>1, <1>2, <1>3

LEMMA ReadListsServed ==
  ASSUME Shape, Served, ReadLists
  PROVE  Served'
<1>1. Drain("broadcast", Slaves) /\ slave_addrs' = Slaves /\ UNCHANGED sent
  BY DEF ReadLists
<1>2. Slaves \in SUBSET Peers /\ "broadcast" \in Queues
  BY ConstantFacts DEF Slaves
<1>3. Audience("broadcast")' = Slaves
  BY <1>1 DEF Audience
<1>4. /\ RolesServed'
      /\ (\A p \in Audience(at) : InHand /\ Got(p, at, Through(p)))'
  BY <1>1, <1>2, <1>3, DrainServed
<1>5. at' = "broadcast"
  BY <1>1 DEF Drain
<1>6. QED
  BY <1>4, <1>5 DEF Served, Earlier

LEMMA NextQueueServed ==
  ASSUME Shape, Served, NextQueue
  PROVE  Served'
<1>1. msgs = <<>> /\ UNCHANGED <<all_addrs, slave_addrs, sent>>
  BY DEF NextQueue
<1>2. PICK q \in Queues :
        Drain(q, Audience(q)) /\
        ((at = "broadcast" /\ q = "slave") \/ (at = "slave" /\ q = "time"))
  BY ConstantFacts DEF NextQueue
<1>3. Audience(q)' = Audience(q) /\ Audience(q) \in SUBSET Peers
  BY <1>1, AudienceType DEF Audience, Shape
<1>4. /\ RolesServed'
      /\ (\A p \in Audience(at) : InHand /\ Got(p, at, Through(p)))'
  BY <1>1, <1>2, <1>3, DrainServed
(* The queue in hand is done: of its batch nothing is left. *)
<1>5. \A p \in Audience(at) : Got(p, at, Len(batch[at]))
  <2>1. at # "asleep" /\ at \in Queues /\ Len(batch[at]) \in Nat
    BY <1>2, ConstantFacts, PacketsAreNumbers
  <2>2. \A p : Through(p) = Len(batch[at])
    BY <1>1, <2>1 DEF Through
  <2>3. QED
    BY <2>1, <2>2 DEF Served
<1>6. \A x \in Queues \ {q} : batch'[x] = batch[x]
  BY <1>2 DEF Drain, Shape, TypeOK
<1>7. at' = q
  BY <1>2 DEF Drain
<1>8. ASSUME NEW x \in Queues, Earlier(x)', NEW p \in Audience(x)'
      PROVE  Got(p, x, Len(batch[x]))'
  <2>1. x # q /\ (x = at \/ Earlier(x))
    BY <1>2, <1>7, <1>8 DEF Earlier
  <2>2. p \in Audience(x)
    BY <1>1, <1>8 DEF Audience
  <2>3. Got(p, x, Len(batch[x]))
    BY <1>5, <2>1, <2>2 DEF Served
  <2>4. QED
    BY <1>1, <1>6, <2>1, <2>3 DEF Got
<1>9. QED
  BY <1>4, <1>8 DEF Served

LEMMA OneFurther ==
  ASSUME NEW a \in Nat, NEW b \in Nat, NEW c \in Nat, c = b - 1
  PROVE  \A i \in 1..c : a - b + (i + 1) = a - c + i
OBVIOUS

LEMMA SendToServed ==
  ASSUME Shape, Served, NEW p \in Peers, SendTo(p)
  PROVE  Served'
<1>1. OneSend(p)
  BY SendToFacts
<1>2. /\ at \in Queues /\ at # "asleep" /\ at' = at /\ batch' = batch
      /\ p \in Audience(at) /\ Audience(at) \subseteq Peers
      /\ batch[at] \in Seq(Nat) /\ msgs \in Seq(Nat) /\ Len(msgs) >= 1
      /\ \A x \in Peers : sent[x][at] \in Seq(Nat)
  BY <1>1, PacketsAreNumbers, AudienceType DEF OneSend, Shape
<1>3. \A q : Audience(q)' = Audience(q)
  BY <1>1 DEF OneSend, Audience
<1>4. RolesServed'
  BY <1>2 DEF RolesServed
<1>5. InHand /\ \A x \in Audience(at) : Got(x, at, Through(x))
  BY <1>2 DEF Served
<1>6. InHand'
  <2>1. CASE targets = {p}
    <3>1. /\ Len(msgs') = Len(msgs) - 1
          /\ \A i \in 1..Len(msgs') : msgs'[i] = msgs[i + 1] /\ i + 1 \in 1..Len(msgs)
      BY <1>1, <1>2, <2>1 DEF OneSend
    <3>2. \A i \in 1..Len(msgs') :
            Len(batch[at]) - Len(msgs) + (i + 1) = Len(batch[at]) - Len(msgs') + i
      <4>1. /\ Len(batch[at]) \in Nat /\ Len(msgs) \in Nat /\ Len(msgs') \in Nat
            /\ Len(msgs') = Len(msgs) - 1
        BY <1>2, <3>1
      <4>2. QED
        BY <4>1, OneFurther
    <3>3. \A j \in 1..Len(msgs) : msgs[j] = batch[at][Len(batch[at]) - Len(msgs) + j]
      BY <1>5 DEF InHand
    <3>4. \A i \in 1..Len(msgs') : msgs'[i] = batch[at][Len(batch[at]) - Len(msgs') + i]
      <4>1. TAKE i \in 1..Len(msgs')
      <4>2. msgs'[i] = batch[at][Len(batch[at]) - Len(msgs) + (i + 1)]
        BY <3>1, <3>3
      <4>3. QED
        BY <3>2, <4>2
    <3>5. Len(msgs') <= Len(batch[at])
      <4>1. Len(batch[at]) \in Nat /\ Len(msgs) \in Nat
        BY <1>2
      <4>2. Len(msgs) <= Len(batch[at])
        BY <1>5 DEF InHand
      <4>3. QED
        BY <3>1, <4>1, <4>2
    <3>6. QED
      BY <1>2, <3>4, <3>5 DEF InHand
  <2>2. CASE targets # {p}
    <3>1. msgs' = msgs
      BY <1>1, <2>2 DEF OneSend
    <3>2. QED
      BY <1>2, <1>5, <3>1 DEF InHand
  <2>3. QED
    BY <2>1, <2>2
<1>7. ASSUME NEW x \in Audience(at) PROVE Got(x, at, Through(x))'
  <2>1. CASE x = p
    <3>1. Through(p) = Len(batch[at]) - Len(msgs)
      BY <1>1, <1>2 DEF OneSend, Through
    <3>2. Through(p)' = Through(p) + 1
      <4>1. Len(batch[at]) \in Nat /\ Len(msgs) \in Nat /\ batch'[at'] = batch[at]
        BY <1>2
      <4>2. CASE targets = {p}
        <5>1. Len(msgs') = Len(msgs) - 1 /\ (msgs' # <<>> => p \in targets')
          BY <1>1, <1>2, <4>2 DEF OneSend
        <5>2. Through(p)' = Len(batch[at]) - Len(msgs')
          <6>1. ~(msgs' # <<>> /\ p \notin targets')
            BY <5>1
          <6>2. Through(p)' = Len(batch'[at']) - Len(msgs') + 0
            BY <6>1 DEF Through
          <6>3. QED
            BY <4>1, <5>1, <6>2
        <5>3. QED
          BY <3>1, <4>1, <5>1, <5>2
      <4>3. CASE targets # {p}
        <5>1. msgs' = msgs /\ msgs # <<>> /\ p \notin targets'
          BY <1>1, <1>2, <4>3 DEF OneSend
        <5>2. Through(p)' = Len(batch[at]) - Len(msgs) + 1
          BY <1>2, <5>1 DEF Through
        <5>3. QED
          BY <3>1, <5>2
      <4>4. QED
        BY <4>2, <4>3
    <3>3. Through(p) \in Nat /\ batch[at][Through(p) + 1] = msgs[1]
      BY <1>2, <1>5, <3>1 DEF InHand
    <3>4. /\ Len(sent'[p][at]) = Len(sent[p][at]) + 1
          /\ sent'[p][at][Len(sent[p][at]) + 1] = msgs[1]
          /\ \A i \in 1..Len(sent[p][at]) : sent'[p][at][i] = sent[p][at][i]
          /\ Len(sent[p][at]) \in Nat
      BY <1>1, <1>2 DEF OneSend
    <3>5. Got(p, at, Through(p))
      BY <1>2, <1>5
    <3>6. Through(p) + 1 <= Len(sent'[p][at])
      BY <3>3, <3>4, <3>5 DEF Got
    <3>7. ASSUME NEW i \in 1..(Through(p) + 1)
          PROVE  batch[at][i] = sent'[p][at][Len(sent'[p][at]) - (Through(p) + 1) + i]
      <4>1. CASE i = Through(p) + 1
        BY <3>3, <3>4, <4>1
      <4>2. CASE i \in 1..Through(p)
        <5>1. /\ Len(sent[p][at]) - Through(p) + i \in 1..Len(sent[p][at])
              /\ Len(sent'[p][at]) - (Through(p) + 1) + i = Len(sent[p][at]) - Through(p) + i
          <6>1. Through(p) <= Len(sent[p][at])
            BY <3>5 DEF Got
          <6>2. /\ Len(sent'[p][at]) = Len(sent[p][at]) + 1
                /\ Len(sent[p][at]) \in Nat /\ Through(p) \in Nat
            BY <3>3, <3>4
          <6>3. QED
            BY <4>2, <6>1, <6>2
        <5>2. batch[at][i] = sent[p][at][Len(sent[p][at]) - Through(p) + i]
          BY <3>5, <4>2 DEF Got
        <5>3. QED
          BY <3>4, <5>1, <5>2
      <4>3. QED
        BY <3>3, <4>1, <4>2
    <3>8. QED
      BY <1>2, <2>1, <3>2, <3>6, <3>7 DEF Got
  <2>2. CASE x # p
    <3>1. x \in Peers /\ sent'[x][at] = sent[x][at]
      BY <1>1, <1>2, <2>2 DEF OneSend
    <3>2. Through(x)' = Through(x)
      <4>1. CASE targets = {p}
        <5>1. /\ Len(msgs') = Len(msgs) - 1 /\ (msgs' # <<>> => x \in targets')
              /\ x \notin targets /\ msgs # <<>>
              /\ Len(batch[at]) \in Nat /\ Len(msgs) \in Nat /\ batch'[at'] = batch[at]
          BY <1>1, <1>2, <2>2, <4>1 DEF OneSend
        <5>2. Through(x)' = Len(batch[at]) - Len(msgs')
          <6>1. ~(msgs' # <<>> /\ x \notin targets')
            BY <5>1
          <6>2. Through(x)' = Len(batch'[at']) - Len(msgs') + 0
            BY <6>1 DEF Through
          <6>3. QED
            BY <5>1, <6>2
        <5>3. Through(x) = Len(batch[at]) - Len(msgs) + 1
          BY <5>1 DEF Through
        <5>4. QED
          BY <5>1, <5>2, <5>3
      <4>2. CASE targets # {p}
        BY <1>1, <1>2, <2>2, <4>2 DEF OneSend, Through
      <4>3. QED
        BY <4>1, <4>2
    <3>3. QED
      BY <1>2, <1>5, <3>1, <3>2 DEF Got
  <2>3. QED
    BY <2>1, <2>2
<1>8. \A q \in Queues : Earlier(q) => q # at /\ \A x \in Audience(q) : x \in Peers /\ sent'[x][q] = sent[x][q]
  BY <1>1, AudienceType DEF Earlier, OneSend, Shape
<1>9. \A q \in Queues : Earlier(q)' => \A x \in Audience(q)' : Got(x, q, Len(batch[q]))'
  <2>1. \A q \in Queues : Earlier(q)' = Earlier(q)
    BY <1>2 DEF Earlier
  <2>2. ASSUME NEW q \in Queues, Earlier(q), NEW x \in Audience(q)
        PROVE  Got(x, q, Len(batch[q]))'
    <3>1. Got(x, q, Len(batch[q]))
      BY <2>2 DEF Served
    <3>2. QED
      BY <1>2, <1>8, <2>2, <3>1 DEF Got
  <2>3. QED
    BY <1>3, <2>1, <2>2
<1>10. QED
  BY <1>2, <1>3, <1>4, <1>6, <1>7, <1>9 DEF Served

(* The iteration is over: what the lists held is what stayed. *)
LEMMA SleepServed ==
  ASSUME Shape, Served, Sleep
  PROVE  Served'
<1>1. /\ at = "time" /\ msgs = <<>> /\ at' = "asleep"
      /\ UNCHANGED <<sent, batch, roles>>
  BY DEF Sleep
<1>2. ASSUME NEW q \in Queues, NEW p \in Audience(q) PROVE Got(p, q, Len(batch[q]))
  <2>1. CASE q = "time"
    <3>1. Len(batch[at]) \in Nat
      BY <1>1, <2>1, PacketsAreNumbers
    <3>2. Through(p) = Len(batch[at])
      BY <1>1, <3>1 DEF Through
    <3>3. QED
      BY <1>1, <1>2, <2>1, <3>2 DEF Served
  <2>2. CASE q # "time"
    BY <1>1, <1>2, <2>2, ConstantFacts DEF Served, Earlier
  <2>3. QED
    BY <2>1, <2>2
<1>3. \A p \in Peers : \A q \in Queues : roles[p] \subseteq Wanted(q) => p \in Audience(q)
  BY <1>1 DEF Shape, ListsOK
<1>4. \A p \in Peers : \A q \in Queues :
        roles[p] \subseteq Wanted(q) => IsSuffix(batch[q], sent[p][q])
  BY <1>2, <1>3 DEF Got, IsSuffix
<1>5. RolesServed'
  BY <1>1, <1>4 DEF RolesServed, IsSuffix, Wanted
<1>6. QED
  BY <1>1, <1>5 DEF Served, Earlier

LEMMA StepServed == Shape /\ Served /\ [Next]_vars => Served'
<1>1. ASSUME Served, UNCHANGED <<at, msgs, targets, sent, batch, all_addrs, slave_addrs, roles>>
      PROVE  Served'
  <2>1. RolesServed'
    BY <1>1 DEF Served, RolesServed, IsSuffix, Wanted
  <2>2. QED
    BY <1>1, <2>1, SameServing
<1>2. ASSUME [Next]_vars, ~ReadLists, ~NextQueue, ~Sleep, \A p \in Peers : ~SendTo(p),
             \A p \in Peers : ~OptIn(p) /\ ~Leaves(p)
      PROVE  UNCHANGED <<at, msgs, targets, sent, batch, all_addrs, slave_addrs, roles>>
  BY <1>2 DEF Next, Enqueue, ActiveBroadcast, SecondPasses, Broadcast,
              BuildOptIns, SendOptIn, vars, loopVars
<1>3. ASSUME Shape, Served, NEW p \in Peers, OptIn(p) \/ Leaves(p) PROVE Served'
  BY <1>3, ChangeServed DEF OptIn, Leaves
<1>4. QED
  BY <1>1, <1>2, <1>3, ReadListsServed, NextQueueServed, SendToServed, SleepServed

(* A peer that was in the table, in a role a queue is for, for all of an   *)
(* iteration has been sent all that was drained from it, however many      *)
(* peers and packets there are and whatever the others did meanwhile.      *)
THEOREM StayersAreServed == Spec => []RolesServed
<1>1. Served => RolesServed
  BY DEF Served
<1>2. Spec => [](Shape /\ Served)
  BY InitShape, InitServed, StepShape, StepServed, PTL DEF Spec
<1>3. QED
  BY <1>1, <1>2, PTL
=============================================================================
