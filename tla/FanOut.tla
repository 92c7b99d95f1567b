------------------------------- MODULE FanOut -------------------------------
(***************************************************************************)
(* Who is sent what (src/src/node/dispatcher.rs): active_broadcast takes   *)
(* the packets an ActiveDJNode queued and sends each to the peers whose    *)
(* role asks for it, and `broadcast` sends every peer an OptIn each second.*)
(*                                                                         *)
(* Both copy the peers' addresses out of the table and then await one      *)
(* send_to after the other.  Listeners change the table meanwhile.         *)
(*                                                                         *)
(* Left out: how the table changes (PeerTable), how the queues are filled  *)
(* (ActiveNode), the SEQ of a packet (one atomic increment, which no       *)
(* receiver reads), and the copies to the broadcast addresses of the LAN,  *)
(* which go to whoever is there.  send_to may fail; the loops go on, so a  *)
(* send stands for the attempt.                                            *)
(***************************************************************************)
EXTENDS Naturals, Sequences

CONSTANTS
  Peers,        \* the entries the table may have, and their addresses
  Roles,        \* the node types peers announce
  Absent,       \* not in discovered_nodes
  MaxPackets,   \* bound: packets queued in a behaviour
  MaxChanges    \* bound: changes of the table

Queues == {"broadcast", "slave", "time"}

ASSUME ConstantsAssumption ==
  /\ Roles \subseteq {"Auto", "Master", "Slave", "Repeater"}
  /\ Absent \notin {"Auto", "Master", "Slave", "Repeater"}
  /\ MaxPackets \in Nat
  /\ MaxChanges \in Nat

Packets == 1..MaxPackets     \* in the order in which they are queued

VARIABLES
  table,      \* discovered_nodes: the node type of each peer
  changes,    \* changes of the table so far
  queue,      \* the three queues of the ActiveDJNode
  queued,     \* packets queued so far
  at,         \* active_broadcast: asleep, or the queue it is sending
  all_addrs, slave_addrs,   \* the lists of this iteration
  msgs,       \* what it drained and has not sent
  targets,    \* the peers that have yet to get the first of them
  opt_in,     \* `broadcast`: the peers that have yet to get this second's OptIn
  ticked,     \* ... and whether the second has passed
  sent,       \* history: the packets sent to each peer from each queue
  roles,      \* history: what each peer has been in the table since the iteration began
  batch       \* history: what the iteration drained from each queue

tableVars == <<table, changes>>
queueVars == <<queue, queued>>
loopVars == <<at, all_addrs, slave_addrs, msgs, targets, sent, batch>>
optInVars == <<opt_in, ticked>>
vars == <<tableVars, queueVars, loopVars, optInVars, roles>>

Listed == {p \in Peers : table[p] # Absent}

(* Mutant: only the node type Slave is asked for. *)
Slaves_NoRepeaters == {p \in Peers : table[p] = "Slave"}

Slaves == {p \in Peers : table[p] \in {"Slave", "Repeater"}}

Nothing == [q \in Queues |-> <<>>]

Init ==
  /\ table = [p \in Peers |-> Absent]
  /\ changes = 0
  /\ queue = Nothing
  /\ queued = 0
  /\ at = "asleep"
  /\ all_addrs = {} /\ slave_addrs = {}
  /\ msgs = <<>>
  /\ targets = {}
  /\ opt_in = {}
  /\ ticked = FALSE
  /\ sent = [p \in Peers |-> Nothing]
  /\ roles = [p \in Peers |-> {Absent}]
  /\ batch = Nothing

------------------------------------------------------------------------------
(* The listeners, and the ActiveDJNode *)

Change(p, role) ==
  /\ table[p] # role
  /\ changes < MaxChanges
  /\ changes' = changes + 1
  /\ table' = [table EXCEPT ![p] = role]
  /\ roles' = [roles EXCEPT ![p] = @ \cup {role}]
  /\ UNCHANGED <<queueVars, loopVars, optInVars>>

(* A new peer, or one that announces another node type. *)
OptIn(p) == \E role \in Roles : Change(p, role)

(* An OptOut, or ten silent seconds. *)
Leaves(p) == Change(p, Absent)

Enqueue(q) ==
  /\ queued < MaxPackets
  /\ queued' = queued + 1
  /\ queue' = [queue EXCEPT ![q] = Append(@, queued + 1)]
  /\ UNCHANGED <<tableVars, loopVars, optInVars, roles>>

------------------------------------------------------------------------------
(* active_broadcast *)

Audience(q) == IF q = "time" THEN all_addrs ELSE slave_addrs

(* Mutant: a first packet is taken for granted. *)
First_Always(packets, audience) == audience

(* The peers the first of `packets` goes to. *)
First(packets, audience) == IF packets = <<>> THEN {} ELSE audience

(* Mutant: what is drained is sent from its end (pop). *)
Drain_Reversed(q, audience) ==
  /\ at' = q
  /\ msgs' = IF audience = {} THEN <<>>
             ELSE [i \in 1..Len(queue[q]) |-> queue[q][Len(queue[q]) + 1 - i]]
  /\ targets' = First(queue[q], audience)
  /\ queue' = [queue EXCEPT ![q] = <<>>]
  /\ batch' = [batch EXCEPT ![q] = queue[q]]

(* drain_into: what nobody is to get is gone with it. *)
Drain(q, audience) ==
  /\ at' = q
  /\ msgs' = IF audience = {} THEN <<>> ELSE queue[q]
  /\ targets' = First(queue[q], audience)
  /\ queue' = [queue EXCEPT ![q] = <<>>]
  /\ batch' = [batch EXCEPT ![q] = queue[q]]

(* Mutant: the lists are read before the loop, and when they are empty. *)
ReadLists_Once ==
  /\ at = "asleep"
  /\ all_addrs' = IF all_addrs = {} THEN Listed ELSE all_addrs
  /\ slave_addrs' = IF all_addrs = {} THEN Slaves ELSE slave_addrs
  /\ roles' = [p \in Peers |-> {table[p]}]
  /\ Drain("broadcast", slave_addrs')
  /\ UNCHANGED <<tableVars, queued, optInVars, sent>>

(* The lists are read once per iteration, under the lock. *)
ReadLists ==
  /\ at = "asleep"
  /\ all_addrs' = Listed
  /\ slave_addrs' = Slaves
  /\ roles' = [p \in Peers |-> {table[p]}]
  /\ Drain("broadcast", Slaves)
  /\ UNCHANGED <<tableVars, queued, optInVars, sent>>

(* One send_to; after the last peer the next packet is begun. *)
SendTo(p) ==
  LET rest == IF targets = {p} THEN Tail(msgs) ELSE msgs IN
  /\ p \in targets
  /\ sent' = [sent EXCEPT ![p][at] = Append(@, Head(msgs))]
  /\ msgs' = rest
  /\ targets' = IF targets = {p} THEN First(rest, Audience(at)) ELSE targets \ {p}
  /\ UNCHANGED <<tableVars, queueVars, at, all_addrs, slave_addrs, optInVars, roles, batch>>

NextQueue ==
  /\ msgs = <<>>
  /\ \/ at = "broadcast" /\ Drain("slave", Audience("slave"))
     \/ at = "slave" /\ Drain("time", Audience("time"))
  /\ UNCHANGED <<tableVars, queued, all_addrs, slave_addrs, sent, optInVars, roles>>

Sleep ==
  /\ msgs = <<>>
  /\ at = "time"
  /\ at' = "asleep"
  /\ UNCHANGED <<tableVars, queueVars, all_addrs, slave_addrs, msgs, targets, sent,
                 optInVars, roles, batch>>

------------------------------------------------------------------------------
(* broadcast *)

SecondPasses ==
  /\ ~ticked
  /\ ticked' = TRUE
  /\ UNCHANGED <<tableVars, queueVars, loopVars, opt_in, roles>>

(* Mutant: the list of active_broadcast's slaves is used. *)
BuildOptIns_SlavesOnly ==
  /\ ticked
  /\ opt_in = {}
  /\ ticked' = FALSE
  /\ opt_in' = Slaves
  /\ UNCHANGED <<tableVars, queueVars, loopVars, roles>>

(* The packets of a burst are all built, and then sent. *)
BuildOptIns ==
  /\ ticked
  /\ opt_in = {}
  /\ ticked' = FALSE
  /\ opt_in' = Listed
  /\ UNCHANGED <<tableVars, queueVars, loopVars, roles>>

SendOptIn(p) ==
  /\ p \in opt_in
  /\ opt_in' = opt_in \ {p}
  /\ UNCHANGED <<tableVars, queueVars, loopVars, ticked, roles>>

------------------------------------------------------------------------------
ActiveBroadcast ==
  \/ ReadLists \/ NextQueue \/ Sleep
  \/ \E p \in Peers : SendTo(p)

Broadcast == BuildOptIns \/ \E p \in Peers : SendOptIn(p)

Next ==
  \/ \E p \in Peers : OptIn(p) \/ Leaves(p)
  \/ \E q \in Queues : Enqueue(q)
  \/ ActiveBroadcast
  \/ SecondPasses \/ Broadcast

Spec == Init /\ [][Next]_vars

(* The worker thread comes back to each task, the lock is fair, UDP takes  *)
(* what it is given, and the clock runs.                                   *)
Fairness == WF_vars(ActiveBroadcast) /\ WF_vars(Broadcast) /\ WF_vars(SecondPasses)

FairSpec == Spec /\ Fairness

------------------------------------------------------------------------------
(* Properties *)

(* The shape of the state; what is being sent was queued. *)
TypeOK ==
  /\ table \in [Peers -> Roles \cup {Absent}]
  /\ changes \in 0..MaxChanges
  /\ queue \in [Queues -> Seq(Packets)]
  /\ queued \in 0..MaxPackets
  /\ at \in Queues \cup {"asleep"}
  /\ slave_addrs \subseteq all_addrs /\ all_addrs \subseteq Peers
  /\ msgs \in Seq(Packets)
  /\ targets \subseteq Peers
  /\ targets # {} <=> msgs # <<>>
  /\ opt_in \subseteq Peers
  /\ ticked \in BOOLEAN
  /\ sent \in [Peers -> [Queues -> Seq(Packets)]]
  /\ roles \in [Peers -> SUBSET (Roles \cup {Absent})]
  /\ batch \in [Queues -> Seq(Packets)]

(* The roles a queue is for. *)
Wanted(q) == IF q = "time" THEN Roles ELSE {"Slave", "Repeater"}

IsSuffix(part, whole) ==
  Len(part) <= Len(whole) /\
  \A i \in 1..Len(part) : part[i] = whole[Len(whole) - Len(part) + i]

(* "Unicast to all slaves", "unicast to each slave/repeater", "unicast to  *)
(* all discovered nodes" (comments in active_broadcast): when an iteration *)
(* is over, a peer that was in the table for all of it, for Status, Metrics*)
(* and Meta as a slave or repeater, has got every packet that was drained, *)
(* whoever joined, left or changed meanwhile.                              *)
RolesServed ==
  at = "asleep" =>
    \A p \in Peers : \A q \in Queues :
      roles[p] \subseteq Wanted(q) => IsSuffix(batch[q], sent[p][q])

(* Lists age, but not beyond their iteration: who is sent a packet was in  *)
(* the table at some moment since it began, and as a slave or repeater if  *)
(* the packet is for those.                                                *)
LeaversLeftAlone ==
  [][\A p \in Peers : \A q \in Queues :
       sent'[p][q] # sent[p][q] => roles[p] \cap Wanted(q) # {}]_vars

(* A peer is sent the packets of a queue once each, in the order in which  *)
(* they were queued, across iterations too, although lists change.         *)
OrderKept ==
  \A p \in Peers : \A q \in Queues :
    \A i, j \in 1..Len(sent[p][q]) : i < j => sent[p][q][i] < sent[p][q][j]

(* Peers forget a node that is silent for ten seconds: one that stays in   *)
(* the table is sent an OptIn again and again.                             *)
KeepsAnnouncing ==
  \A p \in Peers : <>[](p \in Listed) => []<><<SendOptIn(p)>>_vars
=============================================================================
