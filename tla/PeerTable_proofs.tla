--------------------------- MODULE PeerTable_proofs ---------------------------
(***************************************************************************)
(* Proofs about PeerTable, for every set of hosts and ports, every Timeout *)
(* and every value of the bounds.                                          *)
(***************************************************************************)
EXTENDS PeerTable, TLAPS

USE DEF Address, Controllers, NoController

-------------------------------------------------------------------------------
(* Facts about the helpers *)

(* The published form of an entry is an info, and present with it. *)
LEMMA InfoOfType ==
  ASSUME NEW node \in ForeignNode \cup {None}
  PROVE  /\ InfoOf(node) \in ForeignNodeInfo \cup {None}
         /\ InfoOf(node) = None <=> node = None
<1>1. CASE node = None
  BY <1>1 DEF InfoOf
<1>2. CASE node # None
  <2>1. node \in ForeignNode
    BY <1>2
  <2>2. InfoOf(node) = [last_seen |-> node.last_seen, address |-> node.address,
                        has_dj_controller |-> node.dj_controller # NoController]
    BY <1>2 DEF InfoOf
  <2>3. (node.dj_controller # NoController) \in BOOLEAN
    OBVIOUS
  <2>4. InfoOf(node) \in ForeignNodeInfo
    BY <2>1, <2>2, <2>3 DEF ForeignNode, ForeignNodeInfo
  <2>5. QED
    BY <1>2, <2>4, NoneAssumption
<1>3. QED
  BY <1>1, <1>2

(* A packet is only ever routed to a registered entry, of its own host. *)
LEMMA RouteKeysKnown ==
  ASSUME NEW src \in Address, NEW k \in RouteKeys(src)
  PROVE  k \in Address /\ Known(k) /\ k.ip = src.ip
  BY DEF RouteKeys, KnownOn, KnownKeys

(* The source addresses Next enumerates are addresses. *)
LEMMA SourcesAreAddresses ==
  ASSUME NEW ip \in Hosts,
         NEW port \in OptInPorts \cup DjPorts \cup OptOutPorts \cup ListenPorts \cup {DefaultPort}
  PROVE  [ip |-> ip, port |-> port] \in Address
  BY PortsAssumption

-------------------------------------------------------------------------------
(* Type correctness *)

(* The types of what each action changes. *)
LEMMA PublishType ==
  ASSUME nodes' \in [Address -> ForeignNode \cup {None}], Publish
  PROVE  nodes_snapshot' \in [Address -> ForeignNodeInfo \cup {None}]
  BY InfoOfType DEF Publish

LEMMA OptInType ==
  ASSUME TypeOK, NEW ip \in Hosts, OptInFrom(ip)
  PROVE  TypeOK'
<1>1. PICK port \in OptInPorts, listener_port \in ListenPorts :
        OptIn([ip |-> ip, port |-> port], listener_port)
  BY DEF OptInFrom
<1> DEFINE src == [ip |-> ip, port |-> port]
           address == [ip |-> ip, port |-> listener_port]
           ctrl == IF Known(src) THEN nodes[src].dj_controller ELSE NoController
           node == [last_seen |-> now, address |-> address, dj_controller |-> ctrl]
<1>2. src \in Address /\ address \in Address
  BY SourcesAreAddresses
<1> HIDE DEF src
<1>3. ctrl \in 0..MaxControllers
  <2>1. CASE Known(src)
    <3>1. nodes[src] \in ForeignNode
      BY <1>2, <2>1 DEF TypeOK, Known
    <3>2. QED
      BY <2>1, <3>1 DEF ForeignNode
  <2>2. CASE ~Known(src)
    BY <2>2, BoundsAssumption
  <2>3. QED
    BY <2>1, <2>2
<1>4. nodes' \in [Address -> ForeignNode \cup {None}]
  <2>1. node \in ForeignNode
    BY <1>2, <1>3 DEF TypeOK, ForeignNode
  <2>2. nodes' = [nodes EXCEPT ![src] = node]
    BY <1>1, <1>2 DEF OptIn, TypeOK, src
  <2>3. QED
    BY <2>1, <2>2, <1>2 DEF TypeOK
<1>5. nodes_snapshot' \in [Address -> ForeignNodeInfo \cup {None}]
  BY <1>1, <1>4, PublishType DEF OptIn
<1>6. QED
  BY <1>1, <1>4, <1>5 DEF OptIn, TypeOK, ctrlVars, timeVars

LEMMA OptOutType ==
  ASSUME TypeOK, NEW ip \in Hosts, OptOutFrom(ip)
  PROVE  TypeOK'
<1>1. PICK port \in OptOutPorts : OptOut([ip |-> ip, port |-> port])
  BY DEF OptOutFrom
<1>2. nodes' \in [Address -> ForeignNode \cup {None}]
  BY <1>1 DEF TypeOK, OptOut
<1>3. nodes_snapshot' \in [Address -> ForeignNodeInfo \cup {None}]
  BY <1>1, <1>2, PublishType DEF OptOut
<1>4. QED
  BY <1>1, <1>2, <1>3 DEF OptOut, TypeOK, ctrlVars, timeVars

LEMMA NewControllerType ==
  ASSUME TypeOK, NEW addr \in Address, NewController(addr)
  PROVE  /\ created + 1 \in Controllers
         /\ created' \in 0..MaxControllers
         /\ foreign_addr' \in [Controllers -> Address \cup {None}]
         /\ buf_output' \in [Controllers -> BOOLEAN]
         /\ views' \in [Controllers -> Nat]
  BY BoundsAssumption DEF TypeOK, NewController

LEMMA FeedType ==
  ASSUME TypeOK, NEW c \in Controllers, NEW ip \in Hosts, Feed(c, ip)
  PROVE  fed' \in [Controllers -> SUBSET Hosts]
<1>1. CASE fed' = fed
  BY <1>1 DEF TypeOK
<1>2. CASE fed' = [fed EXCEPT ![c] = @ \cup {ip}]
  BY <1>2 DEF TypeOK
<1>3. QED
  BY <1>1, <1>2 DEF Feed

LEMMA DjPacketType ==
  ASSUME TypeOK, NEW ip \in Hosts, DjPacketFrom(ip)
  PROVE  TypeOK'
<1>1. PICK port \in DjPorts :
        LET src == [ip |-> ip, port |-> port] IN
        DjPacketRegisters(src) \/ DjPacketAttaches(src) \/ DjPacketRouted(src)
  BY DEF DjPacketFrom
<1> DEFINE src == [ip |-> ip, port |-> port]
           address == [ip |-> ip, port |-> DefaultPort]
<1>2. src \in Address /\ address \in Address /\ src.ip = ip
  BY SourcesAreAddresses
<1> HIDE DEF src, address
<1>3. CASE DjPacketRegisters(src)
  <2>1. NewController(address)
    BY <1>2, <1>3 DEF DjPacketRegisters, address
  <2>2. nodes' \in [Address -> ForeignNode \cup {None}]
    <3>1. nodes' = [nodes EXCEPT ![src] =
            [last_seen |-> now, address |-> address, dj_controller |-> created + 1]]
      BY <1>2, <1>3 DEF DjPacketRegisters, address
    <3>2. [last_seen |-> now, address |-> address, dj_controller |-> created + 1] \in ForeignNode
      BY <1>2, <2>1, NewControllerType DEF TypeOK, ForeignNode
    <3>3. QED
      BY <3>1, <3>2, <1>2 DEF TypeOK
  <2>3. nodes_snapshot' \in [Address -> ForeignNodeInfo \cup {None}]
    BY <1>3, <2>2, PublishType DEF DjPacketRegisters
  <2>4. QED
    BY <1>2, <1>3, <2>1, <2>2, <2>3, NewControllerType
    DEF DjPacketRegisters, TypeOK, timeVars
<1>4. CASE DjPacketAttaches(src)
  <2>1. PICK k \in RouteKeys(src) :
          /\ nodes[k].dj_controller = NoController
          /\ NewController(nodes[k].address)
          /\ Feed(created + 1, src.ip)
          /\ nodes' = [nodes EXCEPT ![k].dj_controller = created + 1,
                                    ![k].last_seen = now]
    BY <1>4 DEF DjPacketAttaches
  <2>2. k \in Address /\ nodes[k] \in ForeignNode
    BY <1>2, <2>1, RouteKeysKnown DEF Known, TypeOK
  <2>3. nodes[k].address \in Address
    BY <2>2 DEF ForeignNode
  <2>4. nodes' \in [Address -> ForeignNode \cup {None}]
    <3>1. created + 1 \in 0..MaxControllers /\ now \in Nat
      BY <2>1, <2>3, NewControllerType DEF TypeOK
    <3>2. [nodes[k] EXCEPT !.dj_controller = created + 1, !.last_seen = now] \in ForeignNode
      BY <2>2, <3>1 DEF ForeignNode
    <3>3. nodes' = [nodes EXCEPT ![k] = [nodes[k] EXCEPT !.dj_controller = created + 1, !.last_seen = now]]
      BY <2>1, <2>2 DEF TypeOK
    <3>4. QED
      BY <3>2, <3>3, <2>2 DEF TypeOK
  <2>5. nodes_snapshot' \in [Address -> ForeignNodeInfo \cup {None}]
    BY <1>4, <2>4, PublishType DEF DjPacketAttaches
  <2>6. fed' \in [Controllers -> SUBSET Hosts]
    BY <1>2, <2>1, <2>3, NewControllerType, FeedType
  <2>7. QED
    BY <1>4, <2>1, <2>3, <2>4, <2>5, <2>6, NewControllerType
    DEF DjPacketAttaches, TypeOK, timeVars
<1>5. CASE DjPacketRouted(src)
  <2>1. PICK k \in RouteKeys(src) :
          /\ nodes[k].dj_controller # NoController
          /\ Feed(nodes[k].dj_controller, src.ip)
          /\ nodes' = [nodes EXCEPT ![k].last_seen = now]
    BY <1>5 DEF DjPacketRouted
  <2>2. k \in Address /\ nodes[k] \in ForeignNode
    BY <1>2, <2>1, RouteKeysKnown DEF Known, TypeOK
  <2>3. nodes[k].dj_controller \in Controllers
    BY <2>1, <2>2, BoundsAssumption DEF ForeignNode
  <2>4. nodes' \in [Address -> ForeignNode \cup {None}]
    <3>1. [nodes[k] EXCEPT !.last_seen = now] \in ForeignNode
      BY <2>2 DEF ForeignNode, TypeOK
    <3>2. QED
      BY <2>1, <2>2, <3>1 DEF TypeOK
  <2>5. fed' \in [Controllers -> SUBSET Hosts]
    BY <1>2, <2>1, <2>3, FeedType
  <2>6. QED
    BY <1>5, <2>4, <2>5 DEF DjPacketRouted, TypeOK, timeVars
<1>6. QED
  BY <1>1, <1>3, <1>4, <1>5 DEF src

LEMMA SweepType ==
  ASSUME TypeOK, TimeoutSweep
  PROVE  TypeOK'
<1>1. nodes' \in [Address -> ForeignNode \cup {None}]
  BY DEF TimeoutSweep, TypeOK, Known
<1>2. nodes_snapshot' \in [Address -> ForeignNodeInfo \cup {None}]
  BY <1>1, PublishType DEF TimeoutSweep
<1>3. uptime' \in 0..(UptimeWrap - 1)
  BY BoundsAssumption DEF TimeoutSweep, NextUptime, TypeOK
<1>4. QED
  BY <1>1, <1>2, <1>3 DEF TimeoutSweep, TypeOK, ctrlVars

LEMMA TakeViewType ==
  ASSUME TypeOK, NEW k \in Address, Claimable(k), TakeView(nodes[k].dj_controller)
  PROVE  /\ nodes[k] \in ForeignNode
         /\ nodes[k].dj_controller \in Controllers
         /\ buf_output' \in [Controllers -> BOOLEAN]
         /\ views' \in [Controllers -> Nat]
<1>1. nodes[k] \in ForeignNode
  BY DEF Claimable, Known, TypeOK
<1>2. nodes[k].dj_controller \in Controllers
  BY <1>1, BoundsAssumption DEF Claimable, ForeignNode
<1>3. QED
  BY <1>1, <1>2 DEF TakeView, TypeOK

LEMMA StepType ==
  ASSUME TypeOK, [Next]_vars
  PROVE  TypeOK'
<1>1. ASSUME NEW ip \in Hosts, OptInFrom(ip) PROVE TypeOK'
  BY <1>1, OptInType
<1>2. ASSUME NEW ip \in Hosts, OptOutFrom(ip) PROVE TypeOK'
  BY <1>2, OptOutType
<1>3. ASSUME NEW ip \in Hosts, DjPacketFrom(ip) PROVE TypeOK'
  BY <1>3, DjPacketType
<1>4. CASE TimeoutTick
  BY <1>4 DEF TimeoutTick, TypeOK, ctrlVars
<1>5. CASE TimeoutSweep
  BY <1>5, SweepType
<1>6. CASE ClockAdvances
  BY <1>6 DEF ClockAdvances, TypeOK, ctrlVars
<1>7. ASSUME NEW addr \in Address, GetControllerView(addr) PROVE TypeOK'
  BY <1>7, TakeViewType DEF GetControllerView, TypeOK, timeVars
<1>8. ASSUME NEW addr \in Address, GetControllerViewNone(addr) PROVE TypeOK'
  BY <1>8 DEF GetControllerViewNone, TypeOK, vars, ctrlVars, timeVars
<1>9. CASE GetAnyControllerView
  BY <1>9, TakeViewType DEF GetAnyControllerView, TypeOK, timeVars
<1>10. CASE UNCHANGED vars
  BY <1>10 DEF TypeOK, vars, ctrlVars, timeVars
<1>11. QED
  BY <1>1, <1>2, <1>3, <1>4, <1>5, <1>6, <1>7, <1>8, <1>9, <1>10 DEF Next

(* Every variable always has its type; the uptime stays below its wrap. *)
THEOREM TypeCorrect == Spec => []TypeOK
<1>1. Init => TypeOK
  BY BoundsAssumption DEF Init, TypeOK
<1>2. QED
  BY <1>1, StepType, PTL DEF Spec

-------------------------------------------------------------------------------
(* The inductive invariant.  A step that publishes makes the snapshot agree *)
(* by itself; a step that leaves the addresses on their hosts answers       *)
(* Requests on their hosts; so both are stated once, about any step.        *)

LEMMA PublishAgrees ==
  ASSUME TypeOK', Publish
  PROVE  SnapshotAgrees'
<1> SUFFICES ASSUME NEW k \in Address
             PROVE  /\ Known(k)' <=> nodes_snapshot'[k] # None
                    /\ Known(k)' =>
                         /\ nodes_snapshot'[k].address = nodes'[k].address
                         /\ nodes_snapshot'[k].has_dj_controller =
                              (nodes'[k].dj_controller # NoController)
                         /\ nodes_snapshot'[k].last_seen <= nodes'[k].last_seen
  BY DEF SnapshotAgrees
<1>1. nodes'[k] \in ForeignNode \cup {None}
  BY DEF TypeOK
<1>2. nodes_snapshot'[k] = InfoOf(nodes'[k])
  BY DEF Publish
<1>3. CASE nodes'[k] = None
  BY <1>2, <1>3 DEF InfoOf, Known
<1>4. CASE nodes'[k] # None
  <2>1. nodes'[k].last_seen \in Nat
    BY <1>1, <1>4 DEF ForeignNode
  <2>2. nodes_snapshot'[k] # None
    BY <1>1, <1>2, <1>4, InfoOfType
  <2> DEFINE has == nodes'[k].dj_controller # NoController
  <2>3. nodes_snapshot'[k] = [last_seen |-> nodes'[k].last_seen,
                              address |-> nodes'[k].address,
                              has_dj_controller |-> has]
    BY <1>2, <1>4 DEF InfoOf
  <2> HIDE DEF has
  <2>4. nodes_snapshot'[k].last_seen <= nodes'[k].last_seen
    BY <2>1, <2>3
  <2>5. nodes_snapshot'[k].address = nodes'[k].address
    BY <2>3
  <2>6. nodes_snapshot'[k].has_dj_controller = has
    BY <2>3
  <2>7. Known(k)'
    BY <1>4 DEF Known
  <2>8. QED
    BY <2>2, <2>4, <2>5, <2>6, <2>7, Zenon DEF has
<1>5. QED
  BY <1>3, <1>4

(* A response goes to an entry of its host, or to the host itself. *)
LEMMA RepliesFollowEntries ==
  ASSUME EntriesOnHost'
  PROVE  RepliesOnHost'
  BY DEF EntriesOnHost, RepliesOnHost, ReplyAddresses, RouteKeys, KnownOn, KnownKeys

(* What IInv says of one registered entry. *)
LEMMA EntryFacts ==
  ASSUME IInv, NEW k \in Address, Known(k)
  PROVE  /\ nodes[k] \in ForeignNode
         /\ nodes[k].address \in Address
         /\ nodes[k].address.ip = k.ip
         /\ nodes[k].last_seen \in Nat
         /\ nodes[k].last_seen <= now
         /\ nodes[k].dj_controller \in 0..created
         /\ nodes[k].dj_controller # NoController =>
              /\ nodes[k].dj_controller \in Controllers
              /\ foreign_addr[nodes[k].dj_controller].ip = k.ip
              /\ fed[nodes[k].dj_controller] \subseteq {k.ip}
<1>1. nodes[k] \in ForeignNode
  BY DEF IInv, TypeOK, Known
<1>2. k \in KnownKeys
  BY DEF KnownKeys
<1>3. /\ nodes[k].address \in Address
      /\ nodes[k].last_seen \in Nat
      /\ nodes[k].dj_controller \in 0..MaxControllers
  BY <1>1 DEF ForeignNode
<1>4. nodes[k].last_seen <= now
  BY <1>2 DEF IInv, ClocksInOrder
<1>5. nodes[k].dj_controller \in 0..created
  BY <1>2, <1>3, BoundsAssumption DEF IInv, ControllersCreated, TypeOK
<1>6. QED
  BY <1>1, <1>2, <1>3, <1>4, <1>5 DEF IInv, HostsKeptApart, EntriesOnHost, ControllersOnHost

(* A step that changes one entry k, publishes, and leaves every controller *)
(* and clock alone.                                                        *)
LEMMA OneEntryStep ==
  ASSUME IInv, TypeOK', NEW k \in Address,
         \A j \in Address \ {k} : nodes'[j] = nodes[j],
         nodes'[k] # None =>
           /\ nodes'[k].address.ip = k.ip
           /\ nodes'[k].last_seen <= now
           /\ nodes'[k].dj_controller =
                IF Known(k) THEN nodes[k].dj_controller ELSE NoController,
         SnapshotAgrees',
         created' = created, foreign_addr' = foreign_addr,
         buf_output' = buf_output, views' = views, now' = now, secs' = secs,
         fed' = fed
  PROVE  IInv'
<1>1. EntriesOnHost'
  BY DEF EntriesOnHost, KnownKeys, Known, IInv, HostsKeptApart
<1>2. ControllersOnHost'
  BY DEF ControllersOnHost, KnownKeys, Known, IInv, HostsKeptApart
<1>3. ViewsClaimedOnce'
  BY DEF ViewsClaimedOnce, IInv, OneViewPerController
<1>4. ControllersUnshared'
  BY DEF ControllersUnshared, KnownKeys, Known, IInv, OneViewPerController
<1>5. ClocksInOrder'
  BY DEF ClocksInOrder, KnownKeys, Known, IInv
<1>6. ControllersCreated'
  <2>1. 0 <= created
    BY BoundsAssumption DEF IInv, TypeOK
  <2>2. ASSUME NEW j \in KnownKeys' PROVE nodes'[j].dj_controller <= created'
    <3>1. CASE j = k
      <4>1. Known(k) => nodes[k].dj_controller <= created
        BY DEF IInv, ControllersCreated, KnownKeys
      <4>2. QED
        BY <2>1, <2>2, <3>1, <4>1 DEF KnownKeys, Known
    <3>2. CASE j # k
      BY <2>2, <3>2 DEF IInv, ControllersCreated, KnownKeys, Known
    <3>3. QED
      BY <3>1, <3>2
  <2>3. QED
    BY <2>2 DEF IInv, ControllersCreated
<1>7. QED
  BY <1>1, <1>2, <1>3, <1>4, <1>5, <1>6, RepliesFollowEntries
  DEF IInv, HostsKeptApart, OneViewPerController

(* The invariant across each action. *)
LEMMA OptInStep ==
  ASSUME IInv, NEW ip \in Hosts, OptInFrom(ip)
  PROVE  IInv'
<1>1. PICK port \in OptInPorts, listener_port \in ListenPorts :
        OptIn([ip |-> ip, port |-> port], listener_port)
  BY DEF OptInFrom
<1> DEFINE src == [ip |-> ip, port |-> port]
<1>2. src \in Address /\ src.ip = ip
  BY SourcesAreAddresses
<1>3. TypeOK'
  BY OptInType DEF IInv
<1>4. SnapshotAgrees'
  BY <1>1, <1>3, PublishAgrees DEF OptIn
<1> HIDE DEF src
<1>5. nodes'[src] = [last_seen |-> now,
                     address |-> [ip |-> src.ip, port |-> listener_port],
                     dj_controller |->
                       IF Known(src) THEN nodes[src].dj_controller ELSE NoController]
  BY <1>1, <1>2 DEF OptIn, IInv, TypeOK, src
<1>6. \A j \in Address \ {src} : nodes'[j] = nodes[j]
  BY <1>1, <1>2 DEF OptIn, IInv, TypeOK, src
<1>7. now \in Nat
  BY DEF IInv, TypeOK
<1>8. QED
  BY <1>1, <1>2, <1>3, <1>4, <1>5, <1>6, <1>7, OneEntryStep DEF OptIn, ctrlVars, timeVars

LEMMA OptOutStep ==
  ASSUME IInv, NEW ip \in Hosts, OptOutFrom(ip)
  PROVE  IInv'
<1>1. PICK port \in OptOutPorts : OptOut([ip |-> ip, port |-> port])
  BY DEF OptOutFrom
<1> DEFINE src == [ip |-> ip, port |-> port]
<1>2. src \in Address
  BY SourcesAreAddresses
<1>3. TypeOK'
  BY OptOutType DEF IInv
<1>4. SnapshotAgrees'
  BY <1>1, <1>3, PublishAgrees DEF OptOut
<1> HIDE DEF src
<1>5. nodes'[src] = None /\ \A j \in Address \ {src} : nodes'[j] = nodes[j]
  BY <1>1, <1>2 DEF OptOut, IInv, TypeOK, src
<1>6. QED
  BY <1>1, <1>2, <1>3, <1>4, <1>5, OneEntryStep DEF OptOut, ctrlVars, timeVars

(* A step that gives the entry k a newly created controller. *)
LEMMA NewControllerStep ==
  ASSUME IInv, TypeOK', NEW k \in Address, NEW addr \in Address,
         NewController(addr), addr.ip = k.ip,
         \A j \in Address \ {k} : nodes'[j] = nodes[j],
         nodes'[k] # None,
         nodes'[k].address.ip = k.ip,
         nodes'[k].last_seen = now,
         nodes'[k].dj_controller = created + 1,
         \A c \in Controllers \ {created + 1} : fed'[c] = fed[c],
         fed'[created + 1] \subseteq {k.ip},
         SnapshotAgrees', now' = now, secs' = secs
  PROVE  IInv'
<1> DEFINE c == created + 1
<1>1. /\ c \in Controllers
      /\ created \in Nat /\ created' = c /\ c # NoController
      /\ foreign_addr'[c] = addr
      /\ buf_output'[c] = TRUE
      /\ views' = views
      /\ \A d \in Controllers \ {c} :
           foreign_addr'[d] = foreign_addr[d] /\ buf_output'[d] = buf_output[d]
  BY NewControllerType, BoundsAssumption DEF NewController, IInv, TypeOK
<1>2. now \in Nat
  BY DEF IInv, TypeOK
<1>3. \A j \in Address \ {k} : Known(j)' =>
        /\ Known(j)
        /\ nodes'[j] = nodes[j]
        /\ nodes[j].dj_controller # c
        /\ nodes[j].dj_controller <= created
        /\ nodes[j].dj_controller # NoController => nodes[j].dj_controller \in Controllers
  <2> SUFFICES ASSUME NEW j \in Address \ {k}, Known(j)'
               PROVE  /\ Known(j)
                      /\ nodes'[j] = nodes[j]
                      /\ nodes[j].dj_controller # c
                      /\ nodes[j].dj_controller <= created
                      /\ nodes[j].dj_controller # NoController =>
                           nodes[j].dj_controller \in Controllers
    OBVIOUS
  <2>1. nodes'[j] = nodes[j] /\ Known(j)
    BY DEF Known
  <2>2. QED
    BY <1>1, <2>1, EntryFacts
<1> HIDE DEF c
<1>4. EntriesOnHost'
  BY <1>3 DEF EntriesOnHost, KnownKeys, Known, IInv, HostsKeptApart
<1>5. ControllersOnHost'
  <2> SUFFICES ASSUME NEW j \in Address, Known(j)', nodes'[j].dj_controller # NoController
               PROVE  /\ foreign_addr'[nodes'[j].dj_controller].ip = j.ip
                      /\ fed'[nodes'[j].dj_controller] \subseteq {j.ip}
    BY DEF ControllersOnHost, KnownKeys
  <2>1. CASE j = k
    BY <1>1, <2>1 DEF c
  <2>2. CASE j # k
    BY <1>1, <1>3, <2>2, EntryFacts DEF c
  <2>3. QED
    BY <2>1, <2>2
<1>6. ViewsClaimedOnce'
  <2>1. views[c] = 0
    BY <1>1 DEF c, IInv, ControllersCreated
  <2>2. QED
    BY <1>1, <2>1 DEF ViewsClaimedOnce, IInv, OneViewPerController
<1>7. ControllersUnshared'
  BY <1>3 DEF ControllersUnshared, KnownKeys, Known, IInv, OneViewPerController, c
<1>8. ClocksInOrder'
  BY <1>2, <1>3 DEF ClocksInOrder, KnownKeys, Known, IInv
<1>9. ControllersCreated'
  <2>1. \A j \in KnownKeys' : nodes'[j].dj_controller <= created'
    <3>1. MaxControllers \in Nat
      BY BoundsAssumption
    <3>2. SUFFICES ASSUME NEW j \in Address, Known(j)'
                   PROVE  nodes'[j].dj_controller <= created + 1
      BY <1>1 DEF KnownKeys, c
    <3>3. CASE j = k
      BY <1>1, <3>3
    <3>4. CASE j # k
      <4>1. Known(j) /\ nodes'[j] = nodes[j]
        BY <1>3, <3>2, <3>4
      <4>2. nodes[j].dj_controller \in 0..created
        BY <4>1, EntryFacts
      <4>3. QED
        BY <1>1, <4>1, <4>2
    <3>5. QED
      BY <3>3, <3>4
  <2>2. ASSUME NEW d \in Controllers, d > created'
        PROVE  views'[d] = 0 /\ ~buf_output'[d] /\ fed'[d] = {}
    <3>1. d > created /\ d # c /\ d # created + 1
      BY <1>1, <2>2 DEF c
    <3>2. views[d] = 0 /\ ~buf_output[d] /\ fed[d] = {}
      BY <3>1 DEF IInv, ControllersCreated
    <3>3. QED
      BY <1>1, <3>1, <3>2
  <2>3. QED
    BY <2>1, <2>2 DEF ControllersCreated
<1>10. QED
  BY <1>4, <1>5, <1>6, <1>7, <1>8, <1>9, RepliesFollowEntries
  DEF IInv, HostsKeptApart, OneViewPerController

LEMMA DjPacketStep ==
  ASSUME IInv, NEW ip \in Hosts, DjPacketFrom(ip)
  PROVE  IInv'
<1>1. PICK port \in DjPorts :
        LET src == [ip |-> ip, port |-> port] IN
        DjPacketRegisters(src) \/ DjPacketAttaches(src) \/ DjPacketRouted(src)
  BY DEF DjPacketFrom
<1> DEFINE src == [ip |-> ip, port |-> port]
           address == [ip |-> ip, port |-> DefaultPort]
<1>2. src \in Address /\ address \in Address /\ src.ip = ip /\ address.ip = ip
  BY SourcesAreAddresses
<1>3. TypeOK /\ TypeOK'
  BY DjPacketType DEF IInv
<1> HIDE DEF src, address
<1>4. CASE DjPacketRegisters(src)
  <2>1. NewController(address)
    BY <1>2, <1>4 DEF DjPacketRegisters, address
  <2>2. nodes' = [nodes EXCEPT ![src] =
          [last_seen |-> now, address |-> address, dj_controller |-> created + 1]]
    BY <1>2, <1>4 DEF DjPacketRegisters, address
  <2>3. /\ nodes'[src] = [last_seen |-> now, address |-> address,
                          dj_controller |-> created + 1]
        /\ \A j \in Address \ {src} : nodes'[j] = nodes[j]
    BY <1>2, <1>3, <2>2 DEF TypeOK
  <2>4. nodes'[src] # None
    BY <1>2, <1>3, <2>1, <2>3, NewControllerType, NoneAssumption DEF TypeOK, ForeignNode
  <2>5. fed' = fed /\ now' = now /\ secs' = secs
    BY <1>4 DEF DjPacketRegisters, timeVars
  <2>6. fed'[created + 1] \subseteq {src.ip}
    <3>1. created + 1 \in Controllers /\ created + 1 > created
      BY <1>2, <1>3, <2>1, NewControllerType, BoundsAssumption DEF TypeOK
    <3>2. QED
      BY <2>5, <3>1 DEF IInv, ControllersCreated
  <2>7. SnapshotAgrees'
    BY <1>3, <1>4, PublishAgrees DEF DjPacketRegisters
  <2>8. QED
    BY <1>2, <1>3, <2>1, <2>3, <2>4, <2>5, <2>6, <2>7, NewControllerStep
<1>5. CASE DjPacketAttaches(src)
  <2>1. PICK k \in RouteKeys(src) :
          /\ nodes[k].dj_controller = NoController
          /\ NewController(nodes[k].address)
          /\ Feed(created + 1, src.ip)
          /\ nodes' = [nodes EXCEPT ![k].dj_controller = created + 1,
                                    ![k].last_seen = now]
    BY <1>5 DEF DjPacketAttaches
  <2>2. k \in Address /\ Known(k) /\ k.ip = src.ip
    BY <1>2, <2>1, RouteKeysKnown
  <2>3. /\ nodes[k] \in ForeignNode
        /\ nodes[k].address \in Address
        /\ nodes[k].address.ip = k.ip
    BY <2>2, EntryFacts
  <2>4. /\ \A j \in Address \ {k} : nodes'[j] = nodes[j]
        /\ nodes'[k].address = nodes[k].address
        /\ nodes'[k].last_seen = now
        /\ nodes'[k].dj_controller = created + 1
    BY <1>3, <2>1, <2>2, <2>3 DEF TypeOK, ForeignNode
  <2>5. nodes'[k] # None
    <3>1. created + 1 \in 0..MaxControllers /\ now \in Nat
      BY <1>3, <2>1, <2>3, NewControllerType DEF TypeOK
    <3>2. nodes'[k] = [nodes[k] EXCEPT !.dj_controller = created + 1, !.last_seen = now]
      BY <1>3, <2>1, <2>2 DEF TypeOK
    <3>3. nodes'[k] \in ForeignNode
      BY <2>3, <3>1, <3>2 DEF ForeignNode
    <3>4. QED
      BY <3>3, NoneAssumption
  <2>6. created + 1 \in Controllers /\ fed[created + 1] = {}
    <3>1. created + 1 \in Controllers
      BY <1>3, <2>1, <2>3, NewControllerType
    <3>2. created + 1 > created
      BY <1>3, BoundsAssumption DEF TypeOK
    <3>3. QED
      BY <3>1, <3>2 DEF IInv, ControllersCreated
  <2>7. /\ fed'[created + 1] \subseteq {k.ip}
        /\ \A c \in Controllers \ {created + 1} : fed'[c] = fed[c]
    BY <1>3, <2>1, <2>2, <2>6 DEF Feed, TypeOK
  <2>8. SnapshotAgrees' /\ now' = now /\ secs' = secs
    BY <1>3, <1>5, PublishAgrees DEF DjPacketAttaches, timeVars
  <2>9. QED
    BY <1>3, <2>1, <2>2, <2>3, <2>4, <2>5, <2>7, <2>8, NewControllerStep
<1>6. CASE DjPacketRouted(src)
  <2>1. PICK k \in RouteKeys(src) :
          /\ nodes[k].dj_controller # NoController
          /\ Feed(nodes[k].dj_controller, src.ip)
          /\ nodes' = [nodes EXCEPT ![k].last_seen = now]
    BY <1>6 DEF DjPacketRouted
  <2>2. k \in Address /\ Known(k) /\ k.ip = src.ip
    BY <1>2, <2>1, RouteKeysKnown
  <2> DEFINE c == nodes[k].dj_controller
  <2>3. /\ nodes[k] \in ForeignNode
        /\ nodes[k].last_seen \in Nat /\ nodes[k].last_seen <= now
        /\ c \in Controllers /\ c <= created
        /\ created \in Nat /\ now \in Nat
    BY <1>3, <2>1, <2>2, EntryFacts, BoundsAssumption DEF TypeOK
  <2>4. \A j \in Address : /\ Known(j)' <=> Known(j)
                           /\ Known(j) =>
                                /\ nodes'[j].address = nodes[j].address
                                /\ nodes'[j].dj_controller = nodes[j].dj_controller
                                /\ nodes'[j].last_seen =
                                     IF j = k THEN now ELSE nodes[j].last_seen
    <3>1. [nodes[k] EXCEPT !.last_seen = now] \in ForeignNode
      BY <2>3 DEF ForeignNode
    <3>2. nodes' = [nodes EXCEPT ![k] = [nodes[k] EXCEPT !.last_seen = now]]
      BY <1>3, <2>1, <2>2 DEF TypeOK
    <3>3. nodes'[k] = [nodes[k] EXCEPT !.last_seen = now] /\ nodes'[k] # None
      BY <1>3, <2>2, <3>1, <3>2, NoneAssumption DEF TypeOK
    <3>4. \A j \in Address \ {k} : nodes'[j] = nodes[j]
      BY <1>3, <2>2, <3>2 DEF TypeOK
    <3>5. QED
      BY <2>2, <2>3, <3>3, <3>4 DEF Known, ForeignNode
  <2>5. \A d \in Controllers : fed'[d] \subseteq (fed[d] \cup (IF d = c THEN {k.ip} ELSE {}))
    BY <1>3, <2>1, <2>2, <2>3 DEF Feed, TypeOK
  <2> HIDE DEF c
  <2>6. /\ nodes_snapshot' = nodes_snapshot /\ created' = created
        /\ foreign_addr' = foreign_addr /\ buf_output' = buf_output
        /\ views' = views /\ now' = now /\ secs' = secs
    BY <1>6 DEF DjPacketRouted, timeVars
  <2>7. SnapshotAgrees'
    <3> SUFFICES ASSUME NEW j \in Address, Known(j)
                 PROVE  nodes_snapshot[j].last_seen <= nodes'[j].last_seen
      BY <2>4, <2>6 DEF SnapshotAgrees, IInv
    <3>1. /\ nodes_snapshot[j] # None
          /\ nodes_snapshot[j].last_seen <= nodes[j].last_seen
      BY DEF IInv, SnapshotAgrees
    <3>2. nodes_snapshot[j].last_seen \in Nat
      BY <1>3, <3>1 DEF TypeOK, ForeignNodeInfo
    <3>3. QED
      BY <2>3, <2>4, <3>1, <3>2
  <2>8. EntriesOnHost'
    BY <2>4 DEF EntriesOnHost, KnownKeys, IInv, HostsKeptApart
  <2>9. ControllersOnHost'
    <3> SUFFICES ASSUME NEW j \in Address, Known(j), nodes[j].dj_controller # NoController
                 PROVE  /\ foreign_addr[nodes[j].dj_controller].ip = j.ip
                        /\ fed'[nodes[j].dj_controller] \subseteq {j.ip}
      BY <2>4, <2>6 DEF ControllersOnHost, KnownKeys
    <3>1. /\ nodes[j].dj_controller \in Controllers
          /\ foreign_addr[nodes[j].dj_controller].ip = j.ip
          /\ fed[nodes[j].dj_controller] \subseteq {j.ip}
      BY EntryFacts
    <3>2. nodes[j].dj_controller = c => j = k
      BY <2>1, <2>2 DEF c, IInv, OneViewPerController, ControllersUnshared, KnownKeys
    <3>3. QED
      BY <2>5, <3>1, <3>2
  <2>10. OneViewPerController'
    BY <2>4, <2>6 DEF OneViewPerController, ViewsClaimedOnce, ControllersUnshared, KnownKeys, IInv
  <2>11. ClocksInOrder'
    BY <2>3, <2>4, <2>6 DEF ClocksInOrder, KnownKeys, IInv
  <2>12. ControllersCreated'
    <3>1. ASSUME NEW d \in Controllers, d > created PROVE fed'[d] = {}
      <4>1. d # c /\ fed[d] = {}
        BY <2>3, <3>1 DEF IInv, ControllersCreated
      <4>2. QED
        BY <2>5, <4>1
    <3>2. QED
      BY <2>4, <2>6, <3>1 DEF ControllersCreated, KnownKeys, IInv
  <2>13. QED
    BY <1>3, <2>7, <2>8, <2>9, <2>10, <2>11, <2>12, RepliesFollowEntries
    DEF IInv, HostsKeptApart
<1>7. QED
  BY <1>1, <1>4, <1>5, <1>6 DEF src

LEMMA SweepStep ==
  ASSUME IInv, TimeoutSweep
  PROVE  IInv'
<1>1. TypeOK'
  BY SweepType DEF IInv
<1>2. SnapshotAgrees'
  BY <1>1, PublishAgrees DEF TimeoutSweep
<1>3. \A k \in Address : Known(k)' => Known(k) /\ nodes'[k] = nodes[k]
  BY DEF TimeoutSweep, Known, IInv, TypeOK
<1>4. EntriesOnHost' /\ ControllersOnHost'
  BY <1>3 DEF EntriesOnHost, ControllersOnHost, KnownKeys, TimeoutSweep, ctrlVars,
              IInv, HostsKeptApart
<1>5. OneViewPerController'
  BY <1>3 DEF OneViewPerController, ViewsClaimedOnce, ControllersUnshared, KnownKeys,
              TimeoutSweep, ctrlVars, IInv
<1>6. ClocksInOrder' /\ ControllersCreated'
  BY <1>3 DEF ClocksInOrder, ControllersCreated, KnownKeys, TimeoutSweep, ctrlVars, IInv
<1>7. QED
  BY <1>1, <1>2, <1>4, <1>5, <1>6, RepliesFollowEntries DEF IInv, HostsKeptApart

(* Claiming a view touches only the controller's buffer and views. *)
LEMMA TakeViewStep ==
  ASSUME IInv, TypeOK', NEW k \in Address, Claimable(k), TakeView(nodes[k].dj_controller),
         UNCHANGED <<nodes, nodes_snapshot, created, foreign_addr, fed, timeVars>>
  PROVE  IInv'
<1> DEFINE c == nodes[k].dj_controller
<1>1. c \in Controllers /\ buf_output[c] /\ c <= created
  <2>1. Known(k) /\ c # NoController /\ buf_output[c]
    BY DEF Claimable
  <2>2. QED
    BY <2>1, EntryFacts
<1>2. /\ buf_output' = [buf_output EXCEPT ![c] = FALSE]
      /\ views' = [views EXCEPT ![c] = @ + 1]
  BY DEF TakeView
<1> HIDE DEF c
<1>3. ViewsClaimedOnce'
  BY <1>1, <1>2 DEF ViewsClaimedOnce, IInv, OneViewPerController, TypeOK
<1>4. ControllersCreated'
  BY <1>1, <1>2, BoundsAssumption DEF ControllersCreated, KnownKeys, Known, IInv, TypeOK
<1>5. SnapshotAgrees'
  BY DEF IInv, SnapshotAgrees, Known
<1>6. EntriesOnHost' /\ ControllersOnHost'
  BY DEF IInv, HostsKeptApart, EntriesOnHost, ControllersOnHost, KnownKeys, Known
<1>7. ControllersUnshared'
  BY DEF IInv, OneViewPerController, ControllersUnshared, KnownKeys, Known
<1>8. ClocksInOrder'
  BY DEF IInv, ClocksInOrder, KnownKeys, Known, timeVars
<1>9. QED
  BY <1>3, <1>4, <1>5, <1>6, <1>7, <1>8, RepliesFollowEntries
  DEF IInv, HostsKeptApart, OneViewPerController

(* A step that leaves table, snapshot and controllers alone. *)
LEMMA ClockStep ==
  ASSUME IInv, TypeOK', UNCHANGED <<nodes, nodes_snapshot, ctrlVars>>, ClocksInOrder'
  PROVE  IInv'
<1>1. SnapshotAgrees'
  BY DEF IInv, SnapshotAgrees, Known
<1>2. EntriesOnHost' /\ ControllersOnHost'
  BY DEF IInv, HostsKeptApart, EntriesOnHost, ControllersOnHost, KnownKeys, Known, ctrlVars
<1>3. OneViewPerController'
  BY DEF IInv, OneViewPerController, ViewsClaimedOnce, ControllersUnshared, KnownKeys, Known,
         ctrlVars
<1>4. ControllersCreated'
  BY DEF IInv, ControllersCreated, KnownKeys, Known, ctrlVars
<1>5. QED
  BY <1>1, <1>2, <1>3, <1>4, RepliesFollowEntries DEF IInv, HostsKeptApart

LEMMA InitInvariant == Init => IInv
<1> SUFFICES ASSUME Init PROVE IInv
  OBVIOUS
<1>1. TypeOK
  BY BoundsAssumption DEF Init, TypeOK
<1>2. KnownKeys = {}
  BY DEF Init, KnownKeys, Known
<1>3. SnapshotAgrees
  BY DEF Init, SnapshotAgrees, Known
<1>4. HostsKeptApart
  BY <1>2 DEF Init, HostsKeptApart, EntriesOnHost, ControllersOnHost, RepliesOnHost,
              ReplyAddresses, RouteKeys, KnownOn, Known
<1>5. OneViewPerController
  BY <1>2 DEF Init, OneViewPerController, ViewsClaimedOnce, ControllersUnshared
<1>6. ClocksInOrder /\ ControllersCreated
  BY <1>2 DEF Init, ClocksInOrder, ControllersCreated
<1>7. QED
  BY <1>1, <1>3, <1>4, <1>5, <1>6 DEF IInv

LEMMA StepInvariant ==
  ASSUME IInv, [Next]_vars
  PROVE  IInv'
<1>1. TypeOK /\ TypeOK'
  BY StepType DEF IInv
<1>2. ASSUME NEW ip \in Hosts, OptInFrom(ip) PROVE IInv'
  BY <1>2, OptInStep
<1>3. ASSUME NEW ip \in Hosts, OptOutFrom(ip) PROVE IInv'
  BY <1>3, OptOutStep
<1>4. ASSUME NEW ip \in Hosts, DjPacketFrom(ip) PROVE IInv'
  BY <1>4, DjPacketStep
<1>5. CASE TimeoutTick
  <2>1. now \in Nat
    BY <1>1 DEF TypeOK
  <2>2. ClocksInOrder'
    BY <1>5, <2>1 DEF TimeoutTick, ClocksInOrder, KnownKeys, Known, IInv
  <2>3. QED
    BY <1>1, <1>5, <2>2, ClockStep DEF TimeoutTick
<1>6. CASE TimeoutSweep
  BY <1>6, SweepStep
<1>7. CASE ClockAdvances
  <2>1. /\ now \in Nat /\ now' = now + 1 /\ nodes' = nodes
        /\ secs' = secs /\ (secs # None => secs \in Nat)
    BY <1>1, <1>7 DEF ClockAdvances, TypeOK
  <2>2. \A k \in KnownKeys : nodes[k].last_seen \in Nat
    BY <1>1 DEF KnownKeys, Known, TypeOK, ForeignNode
  <2>3. ClocksInOrder'
    BY <2>1, <2>2 DEF ClocksInOrder, KnownKeys, Known, IInv
  <2>4. QED
    BY <1>1, <1>7, <2>3, ClockStep DEF ClockAdvances
<1>8. ASSUME NEW addr \in Address, GetControllerView(addr) PROVE IInv'
  BY <1>1, <1>8, TakeViewStep DEF GetControllerView
<1>9. CASE GetAnyControllerView
  BY <1>1, <1>9, TakeViewStep DEF GetAnyControllerView
<1>10. CASE UNCHANGED vars
  <2>1. ClocksInOrder'
    BY <1>10 DEF ClocksInOrder, KnownKeys, Known, IInv, vars, timeVars
  <2>2. QED
    BY <1>1, <1>10, <2>1, ClockStep DEF vars
<1>11. QED
  BY <1>2, <1>3, <1>4, <1>5, <1>6, <1>7, <1>8, <1>9, <1>10 DEF Next, GetControllerViewNone

(* The conjunction the properties rest on holds in every reachable state. *)
THEOREM Invariance == Spec => []IInv
<1>1. QED
  BY InitInvariant, StepInvariant, PTL DEF Spec

(* What active_nodes() returns is the table, in every reachable state. *)
THEOREM SnapshotCorrect == Spec => []SnapshotAgrees
<1>1. IInv => SnapshotAgrees
  BY DEF IInv
<1>2. QED
  BY <1>1, Invariance, PTL

(* Peers, requests and responses of different hosts are never mixed up. *)
THEOREM HostsCorrect == Spec => []HostsKeptApart
<1>1. IInv => HostsKeptApart
  BY DEF IInv
<1>2. QED
  BY <1>1, Invariance, PTL

(* No controller ever has two views, or serves two peers. *)
THEOREM ViewsCorrect == Spec => []OneViewPerController
<1>1. IInv => OneViewPerController
  BY DEF IInv
<1>2. QED
  BY <1>1, Invariance, PTL

-------------------------------------------------------------------------------
(* Steps never replace the controller of a peer that stays. *)

LEMMA ControllerStaysStep ==
  ASSUME TypeOK, [Next]_vars,
         NEW k \in Address, Known(k), Known(k)', nodes[k].dj_controller # NoController
  PROVE  nodes'[k].dj_controller = nodes[k].dj_controller
<1>1. nodes[k] \in ForeignNode
  BY DEF TypeOK, Known
<1>2. ASSUME NEW ip \in Hosts, OptInFrom(ip)
      PROVE  nodes'[k].dj_controller = nodes[k].dj_controller
  <2>1. PICK port \in OptInPorts, listener_port \in ListenPorts :
          OptIn([ip |-> ip, port |-> port], listener_port)
    BY <1>2 DEF OptInFrom
  <2>2. QED
    BY <2>1 DEF OptIn, TypeOK
<1>3. ASSUME NEW ip \in Hosts, OptOutFrom(ip)
      PROVE  nodes'[k].dj_controller = nodes[k].dj_controller
  BY <1>3 DEF OptOutFrom, OptOut, TypeOK, Known
<1>4. ASSUME NEW ip \in Hosts, DjPacketFrom(ip)
      PROVE  nodes'[k].dj_controller = nodes[k].dj_controller
  <2>1. PICK port \in DjPorts :
          LET src == [ip |-> ip, port |-> port] IN
          DjPacketRegisters(src) \/ DjPacketAttaches(src) \/ DjPacketRouted(src)
    BY <1>4 DEF DjPacketFrom
  <2> DEFINE src == [ip |-> ip, port |-> port]
  <2>2. src \in Address
    BY SourcesAreAddresses
  <2> HIDE DEF src
  <2>3. CASE DjPacketRegisters(src)
    BY <2>3 DEF DjPacketRegisters, RouteKeys, TypeOK
  <2>4. CASE DjPacketAttaches(src)
    <3>1. PICK j \in RouteKeys(src) :
            /\ nodes[j].dj_controller = NoController
            /\ nodes' = [nodes EXCEPT ![j].dj_controller = created + 1,
                                      ![j].last_seen = now]
      BY <2>4 DEF DjPacketAttaches
    <3>2. QED
      BY <3>1 DEF TypeOK
  <2>5. CASE DjPacketRouted(src)
    <3>1. PICK j \in RouteKeys(src) : nodes' = [nodes EXCEPT ![j].last_seen = now]
      BY <2>5 DEF DjPacketRouted
    <3>2. QED
      BY <1>1, <3>1 DEF TypeOK, ForeignNode
  <2>6. QED
    BY <2>1, <2>3, <2>4, <2>5 DEF src
<1>5. CASE TimeoutSweep
  BY <1>5 DEF TimeoutSweep, TypeOK, Known
<1>6. CASE nodes' = nodes
  BY <1>6
<1>7. QED
  BY <1>2, <1>3, <1>4, <1>5, <1>6
  DEF Next, vars, TimeoutTick, ClockAdvances, GetControllerView, GetControllerViewNone,
      GetAnyControllerView

(* A claimed view is never left with a controller its peer does not use. *)
THEOREM ControllersNeverReplaced == Spec => ControllerStays
<1>1. TypeOK /\ [Next]_vars =>
        [\A k \in Address :
           (Known(k) /\ Known(k)' /\ nodes[k].dj_controller # NoController)
             => nodes'[k].dj_controller = nodes[k].dj_controller]_vars
  BY ControllerStaysStep
<1>2. QED
  BY <1>1, TypeCorrect, PTL DEF Spec, ControllerStays

-------------------------------------------------------------------------------
(* PeerTable implements Directory. *)

Listed == {k \in Address : nodes_snapshot[k] # None}

Heard == [k \in Address |-> IF Known(k) THEN nodes[k].last_seen ELSE 0]

(* What is listed is what the table holds. *)
LEMMA ListedIsKnown ==
  ASSUME SnapshotAgrees
  PROVE  Listed = KnownKeys
  BY DEF SnapshotAgrees, Listed, KnownKeys

(* A step that refreshes the entry k and no other is a Hear of k. *)
LEMMA HearStep ==
  ASSUME IInv, IInv', NEW k \in Address, now' = now,
         Known(k)', nodes'[k].last_seen = now,
         \A j \in Address \ {k} : nodes'[j] = nodes[j]
  PROVE  Dir!Hear(k)
<1>1. Listed = KnownKeys /\ Listed' = KnownKeys'
  BY ListedIsKnown DEF IInv, Listed, KnownKeys, SnapshotAgrees
<1>2. KnownKeys' = KnownKeys \cup {k}
  BY DEF KnownKeys, Known
<1>3. Heard' = [Heard EXCEPT ![k] = now]
  BY DEF Heard, Known
<1>4. QED
  BY <1>1, <1>2, <1>3 DEF Dir!Hear, Listed, Heard

(* An OptOut is a Leave, of a listed peer or of nobody. *)
LEMMA OptOutLeaves ==
  ASSUME IInv, IInv', NEW src \in Address, OptOut(src)
  PROVE  Dir!Leave(src)
<1>1. Listed = KnownKeys /\ Listed' = KnownKeys'
  BY ListedIsKnown DEF IInv, Listed, KnownKeys, SnapshotAgrees
<1>2. nodes' = [nodes EXCEPT ![src] = None] /\ now' = now
  BY DEF OptOut, timeVars
<1>3. KnownKeys' = KnownKeys \ {src}
  BY <1>2 DEF KnownKeys, Known, IInv, TypeOK
<1>4. Heard' = [q \in Address |-> IF q = src THEN 0 ELSE Heard[q]]
  BY <1>2 DEF Heard, Known, IInv, TypeOK
<1>5. QED
  BY <1>1, <1>2, <1>3, <1>4 DEF Dir!Leave, Listed, Heard

(* The sweep judges by an old clock, which can only spare a peer. *)
LEMMA SweepForgets ==
  ASSUME IInv, IInv', TimeoutSweep
  PROVE  \E silent \in SUBSET Listed : Dir!Forget(silent)
<1> DEFINE gone == {k \in KnownKeys : ~Keep(nodes[k], secs)}
<1>1. Listed = KnownKeys /\ Listed' = KnownKeys'
  BY ListedIsKnown DEF IInv, Listed, KnownKeys, SnapshotAgrees
<1>2. /\ nodes' = [k \in Address |->
              IF Known(k) /\ Keep(nodes[k], secs) THEN nodes[k] ELSE None]
      /\ now' = now
  BY DEF TimeoutSweep
<1>3. \A k \in Address : Known(k)' <=> k \in KnownKeys \ gone
  BY <1>2 DEF Known, KnownKeys
<1>4. KnownKeys' = KnownKeys \ gone
  BY <1>3 DEF KnownKeys
<1>5. Heard' = [q \in Address |-> IF q \in gone THEN 0 ELSE Heard[q]]
  BY <1>2, <1>3 DEF Heard, Known, KnownKeys
<1>6. \A k \in gone : Heard[k] + Timeout <= now
  <2> SUFFICES ASSUME NEW k \in gone PROVE Heard[k] + Timeout <= now
    OBVIOUS
  <2>1. k \in Address /\ Known(k) /\ Heard[k] = nodes[k].last_seen
    BY DEF KnownKeys, Heard
  <2>2. nodes[k].last_seen \in Nat
    BY <2>1, EntryFacts
  <2>3. secs \in Nat /\ now \in Nat /\ secs <= now
    BY DEF TimeoutSweep, IInv, TypeOK, ClocksInOrder
  <2>4. ~(nodes[k].last_seen + Timeout > secs)
    BY DEF Keep
  <2>5. QED
    BY <2>1, <2>2, <2>3, <2>4, BoundsAssumption
<1> HIDE DEF gone
<1>7. gone \in SUBSET Listed
  BY <1>1 DEF gone
<1>8. Dir!Forget(gone)
  BY <1>1, <1>2, <1>4, <1>5, <1>6, <1>7 DEF Dir!Forget, Listed, Heard, KnownKeys
<1>9. QED
  BY <1>7, <1>8 DEF Dir!Forget

(* A DJ packet, whatever it makes of its source, is a Hear of one peer. *)
LEMMA PacketIsHeard ==
  ASSUME IInv, IInv', NEW ip \in Hosts, OptInFrom(ip) \/ DjPacketFrom(ip)
  PROVE  \E k \in Address : Dir!Hear(k)
<1>1. CASE OptInFrom(ip)
  <2>1. PICK port \in OptInPorts, listener_port \in ListenPorts :
          OptIn([ip |-> ip, port |-> port], listener_port)
    BY <1>1 DEF OptInFrom
  <2> DEFINE src == [ip |-> ip, port |-> port]
  <2>2. src \in Address
    BY SourcesAreAddresses
  <2> HIDE DEF src
  <2>3. /\ nodes'[src].last_seen = now
        /\ now' = now
        /\ \A j \in Address \ {src} : nodes'[j] = nodes[j]
    BY <2>1, <2>2 DEF OptIn, IInv, TypeOK, timeVars, src
  <2>4. Known(src)'
    <3>1. DEFINE node == [last_seen |-> now,
                          address |-> [ip |-> ip, port |-> listener_port],
                          dj_controller |->
                            IF Known(src) THEN nodes[src].dj_controller ELSE NoController]
    <3>2. nodes'[src] = node
      BY <2>1, <2>2 DEF OptIn, IInv, TypeOK, src
    <3>3. node.dj_controller \in 0..MaxControllers
      <4>1. CASE Known(src)
        BY <2>2, <4>1, EntryFacts DEF ForeignNode
      <4>2. CASE ~Known(src)
        BY <4>2, BoundsAssumption
      <4>3. QED
        BY <4>1, <4>2
    <3>4. node \in ForeignNode
      BY <3>3, SourcesAreAddresses DEF IInv, TypeOK, ForeignNode
    <3>5. QED
      BY <3>2, <3>4, NoneAssumption DEF Known
  <2>5. QED
    BY <2>2, <2>3, <2>4, HearStep
<1>2. CASE DjPacketFrom(ip)
  <2>1. PICK port \in DjPorts :
          LET src == [ip |-> ip, port |-> port] IN
          DjPacketRegisters(src) \/ DjPacketAttaches(src) \/ DjPacketRouted(src)
    BY <1>2 DEF DjPacketFrom
  <2> DEFINE src == [ip |-> ip, port |-> port]
             address == [ip |-> ip, port |-> DefaultPort]
  <2>2. src \in Address /\ address \in Address /\ src.ip = ip
    BY SourcesAreAddresses
  <2> HIDE DEF src, address
  <2>3. CASE DjPacketRegisters(src)
    <3>1. /\ NewController(address)
          /\ nodes' = [nodes EXCEPT ![src] =
               [last_seen |-> now, address |-> address, dj_controller |-> created + 1]]
          /\ now' = now
      BY <2>2, <2>3 DEF DjPacketRegisters, timeVars, address
    <3>2. [last_seen |-> now, address |-> address, dj_controller |-> created + 1]
            \in ForeignNode
      BY <2>2, <3>1, NewControllerType DEF IInv, TypeOK, ForeignNode
    <3>3. Known(src)' /\ nodes'[src].last_seen = now
          /\ \A j \in Address \ {src} : nodes'[j] = nodes[j]
      BY <2>2, <3>1, <3>2, NoneAssumption DEF Known, IInv, TypeOK
    <3>4. QED
      BY <2>2, <3>1, <3>3, HearStep
  <2>4. CASE DjPacketAttaches(src)
    <3>1. PICK k \in RouteKeys(src) :
            /\ NewController(nodes[k].address)
            /\ nodes' = [nodes EXCEPT ![k].dj_controller = created + 1,
                                      ![k].last_seen = now]
      BY <2>4 DEF DjPacketAttaches
    <3>2. k \in Address /\ nodes[k] \in ForeignNode /\ nodes[k].address \in Address
      BY <2>2, RouteKeysKnown, EntryFacts
    <3>3. created + 1 \in 0..MaxControllers /\ now \in Nat /\ now' = now
      BY <2>4, <3>1, <3>2, NewControllerType DEF IInv, TypeOK, DjPacketAttaches, timeVars
    <3>4. nodes'[k] = [nodes[k] EXCEPT !.dj_controller = created + 1, !.last_seen = now]
          /\ \A j \in Address \ {k} : nodes'[j] = nodes[j]
      BY <3>1, <3>2 DEF IInv, TypeOK
    <3>5. nodes'[k] \in ForeignNode /\ nodes'[k].last_seen = now
      BY <3>2, <3>3, <3>4 DEF ForeignNode
    <3>6. QED
      BY <3>2, <3>3, <3>4, <3>5, NoneAssumption, HearStep DEF Known
  <2>5. CASE DjPacketRouted(src)
    <3>1. PICK k \in RouteKeys(src) : nodes' = [nodes EXCEPT ![k].last_seen = now]
      BY <2>5 DEF DjPacketRouted
    <3>2. k \in Address /\ nodes[k] \in ForeignNode
      BY <2>2, RouteKeysKnown, EntryFacts
    <3>3. now \in Nat /\ now' = now
      BY <2>5 DEF IInv, TypeOK, DjPacketRouted, timeVars
    <3>4. nodes'[k] = [nodes[k] EXCEPT !.last_seen = now]
          /\ \A j \in Address \ {k} : nodes'[j] = nodes[j]
      BY <3>1, <3>2 DEF IInv, TypeOK
    <3>5. nodes'[k] \in ForeignNode /\ nodes'[k].last_seen = now
      BY <3>2, <3>3, <3>4 DEF ForeignNode
    <3>6. QED
      BY <3>2, <3>3, <3>4, <3>5, NoneAssumption, HearStep DEF Known
  <2>6. QED
    BY <2>1, <2>3, <2>4, <2>5 DEF src
<1>3. QED
  BY <1>1, <1>2

(* Every step is a step of the Directory or leaves it alone. *)
LEMMA DirectoryStep ==
  ASSUME IInv, IInv', [Next]_vars
  PROVE  [Dir!Next]_(Dir!dirVars)
<1>1. ASSUME NEW ip \in Hosts, OptInFrom(ip) \/ DjPacketFrom(ip) PROVE Dir!Next
  BY <1>1, PacketIsHeard DEF Dir!Next
<1>2. ASSUME NEW ip \in Hosts, OptOutFrom(ip) PROVE Dir!Next
  <2>1. PICK port \in OptOutPorts : OptOut([ip |-> ip, port |-> port])
    BY <1>2 DEF OptOutFrom
  <2>2. [ip |-> ip, port |-> port] \in Address
    BY SourcesAreAddresses
  <2>3. QED
    BY <2>1, <2>2, OptOutLeaves DEF Dir!Next
<1>3. CASE TimeoutSweep
  BY <1>3, SweepForgets DEF Dir!Next, Listed
<1>4. CASE ClockAdvances
  BY <1>4 DEF ClockAdvances, Known, Dir!Next, Dir!Advance
<1>5. CASE UNCHANGED <<nodes, nodes_snapshot, now>>
  BY <1>5 DEF Dir!dirVars, Known
<1>6. QED
  BY <1>1, <1>2, <1>3, <1>4, <1>5
  DEF Next, vars, timeVars, TimeoutTick, GetControllerView, GetControllerViewNone,
      GetAnyControllerView

(* The published list implements the Directory, step by step. *)
THEOREM DirectoryImplemented == Spec => DirectorySpec
<1>1. Init => Dir!Init
  BY DEF Init, Dir!Init, Known
<1>2. IInv /\ IInv' /\ [Next]_vars => [Dir!Next]_(Dir!dirVars)
  BY DirectoryStep
<1>3. QED
  BY <1>1, <1>2, Invariance, PTL DEF Spec, DirectorySpec, Dir!Spec
===============================================================================
