------------------------------ MODULE PeerTable ------------------------------
(***************************************************************************)
(* The table of discovered peers kept by the dispatcher, and everything    *)
(* that touches it (src/src/node/dispatcher.rs, src/src/lib.rs):           *)
(*                                                                         *)
(*  - the four `listen` tasks, one per UDP socket, which register, refresh *)
(*    and remove peers and route DJ packets to a DjController;             *)
(*  - `timeout_foreign_nodes`, which drops silent peers once per second;   *)
(*  - the user's thread, which claims a DjControllerView and reads the     *)
(*    published list of peers.                                             *)
(*                                                                         *)
(* A handler holds the write lock of `Dispatcher::state` from its first    *)
(* read of the table to its last write, and awaits nothing in between, so  *)
(* it is one step.  A listener does nothing between receiving a packet and *)
(* taking the lock: waiting for the lock is a packet that arrives later.   *)
(* UDP loses, duplicates and reorders: any packet of the environment may   *)
(* arrive at any time.  timeout_foreign_nodes reads the clock BEFORE it    *)
(* takes the lock; that is two steps (TimeoutTick, TimeoutSweep).          *)
(***************************************************************************)
EXTENDS Integers

CONSTANTS
  Hosts,           \* IPv4 addresses
  Ports,           \* UDP ports
  OptInPorts,      \* the source ports of OptIn packets: 60000 or its fall-back
  DjPorts,         \* the source ports of DJ packets: 60000, 60001 (Time), 65023 (responses)
  OptOutPorts,     \* the source ports of OptOut packets
  ListenPorts,     \* the unicast ports a peer can announce in its OptIn
  DefaultPort,     \* 65023, assumed for a peer whose OptIn has not been seen
  Timeout,         \* 10: seconds of silence after which a peer is dropped
  UptimeWrap,      \* 43200: the announced uptime rolls over at 12 h
  MaxControllers,  \* bound: DjControllers created in a behaviour
  Horizon,         \* bound: the last second in which a packet arrives
  MaxTime,         \* bound: the last second of the clock
  None             \* an absent table entry

Address == [ip : Hosts, port : Ports]

(* A DjController is identified by its order of creation; 0 is Option::None. *)
Controllers == 1..MaxControllers
NoController == 0

ForeignNode ==
  [last_seen : Nat, address : Address, dj_controller : 0..MaxControllers]

ForeignNodeInfo ==
  [last_seen : Nat, address : Address, has_dj_controller : BOOLEAN]

ASSUME PortsAssumption ==
  /\ OptInPorts \subseteq Ports
  /\ DjPorts \subseteq Ports
  /\ OptOutPorts \subseteq Ports
  /\ ListenPorts \subseteq Ports
  /\ DefaultPort \in Ports

ASSUME BoundsAssumption ==
  /\ Timeout \in Nat \ {0}
  /\ UptimeWrap \in Nat \ {0}
  /\ MaxControllers \in Nat
  /\ Horizon \in Nat
  /\ MaxTime \in Nat

ASSUME NoneAssumption ==
  /\ None \notin ForeignNode
  /\ None \notin ForeignNodeInfo

VARIABLES
  nodes,           \* DynamicNodeState::discovered_nodes, keyed by source address
  nodes_snapshot,  \* the list published for active_nodes(), with the entry it came from
  created,         \* how many DjControllers have been created
  foreign_addr,    \* where each controller's task sends its requests
  buf_output,      \* whether a controller's triple-buffer output is unclaimed
  views,           \* how many DjControllerViews were handed out for a controller
  fed,             \* the hosts whose packets were put in a controller's packet queue
  now,             \* timestamp_secs(): the wall clock, in seconds
  ticks,           \* how often the 1 Hz interval of timeout_foreign_nodes fired
  secs,            \* the clock as that task read it, or None when it holds no reading
  uptime           \* Dispatcher::uptime

ctrlVars == <<created, foreign_addr, buf_output, views, fed>>
timeVars == <<now, ticks, secs, uptime>>
vars == <<nodes, nodes_snapshot, ctrlVars, timeVars>>

------------------------------------------------------------------------------
(* Reading the table *)

Known(k) == nodes[k] # None

KnownKeys == {k \in Address : Known(k)}

(* Mutant: the IP address is not compared. *)
KnownOn_AnyHost(ip) == KnownKeys

(* The keys that share an IP address with a packet's source. *)
KnownOn(ip) == {k \in KnownKeys : k.ip = ip}

(* The entry a packet belongs to: the one registered under its very source *)
(* address, else any with the same IP, else none.                          *)
RouteKeys(src) ==
  IF Known(src) THEN {src} ELSE KnownOn(src.ip)

(* Where the response to a Request goes. *)
ReplyAddresses(src) ==
  IF RouteKeys(src) = {}
    THEN {[ip |-> src.ip, port |-> DefaultPort]}
    ELSE {nodes[k].address : k \in RouteKeys(src)}

Claimable(k) ==
  /\ Known(k)
  /\ nodes[k].dj_controller # NoController
  /\ buf_output[nodes[k].dj_controller]

(* ForeignNodeInfo::from *)
InfoOf(node) ==
  IF node = None
    THEN None
    ELSE [last_seen |-> node.last_seen,
          address |-> node.address,
          has_dj_controller |-> node.dj_controller # NoController]

(* publish_nodes_snapshot, called with the lock held *)
Publish == nodes_snapshot' = [k \in Address |-> InfoOf(nodes'[k])]

------------------------------------------------------------------------------
Init ==
  /\ nodes = [k \in Address |-> None]
  /\ nodes_snapshot = [k \in Address |-> None]
  /\ created = 0
  /\ foreign_addr = [c \in Controllers |-> None]
  /\ buf_output = [c \in Controllers |-> FALSE]
  /\ views = [c \in Controllers |-> 0]
  /\ fed = [c \in Controllers |-> {}]
  /\ now = 0
  /\ ticks = 0
  /\ secs = None
  /\ uptime = 0

------------------------------------------------------------------------------
(* The listeners *)

PacketArrives == now <= Horizon

(* Mutant: the entry is inserted afresh, as HashMap::insert would do. *)
OptIn_Overwrites(src, listener_port) ==
  /\ PacketArrives
  /\ nodes' = [nodes EXCEPT ![src] =
       [last_seen |-> now,
        address |-> [ip |-> src.ip, port |-> listener_port],
        dj_controller |-> NoController]]
  /\ Publish
  /\ UNCHANGED <<ctrlVars, timeVars>>

(* An OptIn registers its source, or refreshes it and adopts the listener *)
(* port it announces; a controller already attached stays.                *)
OptIn(src, listener_port) ==
  /\ PacketArrives
  /\ nodes' = [nodes EXCEPT ![src] =
       [last_seen |-> now,
        address |-> [ip |-> src.ip, port |-> listener_port],
        dj_controller |-> IF Known(src) THEN @.dj_controller ELSE NoController]]
  /\ Publish
  /\ UNCHANGED <<ctrlVars, timeVars>>

(* Mutant: the removal is not published. *)
OptOut_Unpublished(src) ==
  /\ PacketArrives
  /\ nodes' = [nodes EXCEPT ![src] = None]
  /\ UNCHANGED <<nodes_snapshot, ctrlVars, timeVars>>

(* An OptOut removes the entry of its source address, if there is one. *)
OptOut(src) ==
  /\ PacketArrives
  /\ nodes' = [nodes EXCEPT ![src] = None]
  /\ Publish
  /\ UNCHANGED <<ctrlVars, timeVars>>

(* DjController::new: a controller that will send its requests to addr. *)
NewController(addr) ==
  /\ created < MaxControllers
  /\ created' = created + 1
  /\ foreign_addr' = [foreign_addr EXCEPT ![created + 1] = addr]
  /\ buf_output' = [buf_output EXCEPT ![created + 1] = TRUE]
  /\ UNCHANGED views

(* packet_tx.try_send: a full queue drops the packet. *)
Feed(c, ip) ==
  \/ fed' = [fed EXCEPT ![c] = @ \cup {ip}]
  \/ fed' = fed

(* A DJ packet of a host nothing is known of: an entry under the packet's  *)
(* own source address, with a controller.  The packet itself is not passed *)
(* to that controller.                                                     *)
DjPacketRegisters(src) ==
  LET address == [ip |-> src.ip, port |-> DefaultPort] IN
  /\ PacketArrives
  /\ RouteKeys(src) = {}
  /\ NewController(address)
  /\ nodes' = [nodes EXCEPT ![src] =
       [last_seen |-> now, address |-> address, dj_controller |-> created + 1]]
  /\ Publish
  /\ UNCHANGED <<fed, timeVars>>

(* The first DJ packet of a registered peer: its controller is created. *)
DjPacketAttaches(src) ==
  /\ PacketArrives
  /\ \E k \in RouteKeys(src) :
       /\ nodes[k].dj_controller = NoController
       /\ NewController(nodes[k].address)
       /\ Feed(created + 1, src.ip)
       /\ nodes' = [nodes EXCEPT ![k].dj_controller = created + 1,
                                 ![k].last_seen = now]
  /\ Publish
  /\ UNCHANGED timeVars

(* Any further DJ packet: last_seen is refreshed, nothing is published. *)
DjPacketRouted(src) ==
  /\ PacketArrives
  /\ \E k \in RouteKeys(src) :
       /\ nodes[k].dj_controller # NoController
       /\ Feed(nodes[k].dj_controller, src.ip)
       /\ nodes' = [nodes EXCEPT ![k].last_seen = now]
  /\ UNCHANGED <<nodes_snapshot, created, foreign_addr, buf_output, views, timeVars>>

------------------------------------------------------------------------------
(* timeout_foreign_nodes *)

(* Mutant: the uptime does not roll over. *)
NextUptime_NoWrap == uptime + 1

NextUptime == (uptime + 1) % UptimeWrap

(* Mutants: the limit is off by one second. *)
Keep_TooEager(node, t) == node.last_seen + Timeout > t + 1
Keep_TooLate(node, t) == node.last_seen + Timeout >= t

Keep(node, t) == node.last_seen + Timeout > t

(* The interval fires (at once, then once per second; late ticks are made *)
(* up for) and the task reads the clock, before it asks for the lock.     *)
TimeoutTick ==
  /\ secs = None
  /\ ticks <= now
  /\ ticks' = ticks + 1
  /\ secs' = now
  /\ UNCHANGED <<nodes, nodes_snapshot, ctrlVars, now, uptime>>

(* The task holds the lock and judges every entry by the clock it read. *)
TimeoutSweep ==
  /\ secs # None
  /\ uptime' = NextUptime
  /\ nodes' = [k \in Address |->
       IF Known(k) /\ Keep(nodes[k], secs) THEN nodes[k] ELSE None]
  /\ Publish
  /\ secs' = None
  /\ UNCHANGED <<ctrlVars, now, ticks>>

ClockAdvances ==
  /\ now < MaxTime
  /\ now' = now + 1
  /\ UNCHANGED <<nodes, nodes_snapshot, ctrlVars, ticks, secs, uptime>>

------------------------------------------------------------------------------
(* The user's thread *)

(* Mutant: the output is handed out without taking it from the controller. *)
TakeView_Shared(c) ==
  /\ views' = [views EXCEPT ![c] = @ + 1]
  /\ UNCHANGED buf_output

(* buf_output.take() and a new DjControllerView around it *)
TakeView(c) ==
  /\ buf_output' = [buf_output EXCEPT ![c] = FALSE]
  /\ views' = [views EXCEPT ![c] = @ + 1]

(* get_controller_view: the address is looked up as a KEY of the table. *)
GetControllerView(addr) ==
  /\ Claimable(addr)
  /\ TakeView(nodes[addr].dj_controller)
  /\ UNCHANGED <<nodes, nodes_snapshot, created, foreign_addr, fed, timeVars>>

(* get_controller_view returns None. *)
GetControllerViewNone(addr) ==
  /\ ~Claimable(addr)
  /\ UNCHANGED vars

(* get_any_controller_view: the first claimable entry, in no order. *)
GetAnyControllerView ==
  /\ \E k \in Address :
       /\ Claimable(k)
       /\ TakeView(nodes[k].dj_controller)
  /\ UNCHANGED <<nodes, nodes_snapshot, created, foreign_addr, fed, timeVars>>

------------------------------------------------------------------------------
OptInFrom(ip) ==
  \E port \in OptInPorts, listener_port \in ListenPorts :
    OptIn([ip |-> ip, port |-> port], listener_port)

OptOutFrom(ip) ==
  \E port \in OptOutPorts : OptOut([ip |-> ip, port |-> port])

DjPacketFrom(ip) ==
  \E port \in DjPorts :
    LET src == [ip |-> ip, port |-> port] IN
    DjPacketRegisters(src) \/ DjPacketAttaches(src) \/ DjPacketRouted(src)

Next ==
  \/ \E ip \in Hosts : OptInFrom(ip) \/ OptOutFrom(ip) \/ DjPacketFrom(ip)
  \/ TimeoutTick
  \/ TimeoutSweep
  \/ ClockAdvances
  \/ \E addr \in Address : GetControllerView(addr) \/ GetControllerViewNone(addr)
  \/ GetAnyControllerView

Spec == Init /\ [][Next]_vars

(* The clock advances, the interval fires and the task gets the fair lock; *)
(* packets and the user's calls may never come.                            *)
Fairness ==
  /\ WF_vars(ClockAdvances)
  /\ WF_vars(TimeoutTick)
  /\ WF_vars(TimeoutSweep)

FairSpec == Spec /\ Fairness

------------------------------------------------------------------------------
(* Properties *)

(* Every variable has its type; the announced uptime never reaches 12 h. *)
TypeOK ==
  /\ nodes \in [Address -> ForeignNode \cup {None}]
  /\ nodes_snapshot \in [Address -> ForeignNodeInfo \cup {None}]
  /\ created \in 0..MaxControllers
  /\ foreign_addr \in [Controllers -> Address \cup {None}]
  /\ buf_output \in [Controllers -> BOOLEAN]
  /\ views \in [Controllers -> Nat]
  /\ fed \in [Controllers -> SUBSET Hosts]
  /\ now \in Nat
  /\ ticks \in Nat
  /\ secs \in Nat \cup {None}
  /\ uptime \in 0..(UptimeWrap - 1)

(* What active_nodes() hands out is the table, whoever changed it last:    *)
(* the same peers, at the same addresses, with a controller exactly when   *)
(* they have one.  Only last_seen may lag, since routing a DJ packet to an *)
(* existing controller publishes nothing.                                  *)
SnapshotAgrees ==
  \A k \in Address :
    /\ Known(k) <=> nodes_snapshot[k] # None
    /\ Known(k) =>
         /\ nodes_snapshot[k].address = nodes[k].address
         /\ nodes_snapshot[k].has_dj_controller =
              (nodes[k].dj_controller # NoController)
         /\ nodes_snapshot[k].last_seen <= nodes[k].last_seen

(* The three parts: where a peer is addressed, what its controller gets and *)
(* whom it asks, and whom a response is for.                                *)
EntriesOnHost == \A k \in KnownKeys : nodes[k].address.ip = k.ip

ControllersOnHost ==
  \A k \in KnownKeys :
    nodes[k].dj_controller # NoController =>
      /\ foreign_addr[nodes[k].dj_controller].ip = k.ip
      /\ fed[nodes[k].dj_controller] \subseteq {k.ip}

RepliesOnHost ==
  \A src \in Address : \A dest \in ReplyAddresses(src) : dest.ip = src.ip

(* Hosts are never mixed up: a peer is addressed on the host it was heard   *)
(* from, its controller is fed by that host's packets only and asks that    *)
(* host only, and the response to a Request goes to the host that asked.    *)
HostsKeptApart == EntriesOnHost /\ ControllersOnHost /\ RepliesOnHost

(* The two parts: one reader per controller, one peer per controller. *)
ViewsClaimedOnce ==
  \A c \in Controllers : views[c] + (IF buf_output[c] THEN 1 ELSE 0) <= 1

ControllersUnshared ==
  \A j, k \in KnownKeys :
    /\ nodes[j].dj_controller = nodes[k].dj_controller
    /\ nodes[j].dj_controller # NoController
    => j = k

(* A controller serves one peer, and its triple buffer has one reader: at  *)
(* most one DjControllerView exists per controller, however claims by      *)
(* address, claims of any peer, drops and rejoins interleave.              *)
OneViewPerController == ViewsClaimedOnce /\ ControllersUnshared

(* As long as a peer stays in the table its controller is never replaced   *)
(* or lost, which would leave a claimed view reading a buffer nobody       *)
(* writes: not by a repeated OptIn, not by a packet from another port.     *)
ControllerStays ==
  [][\A k \in Address :
       (Known(k) /\ Known(k)' /\ nodes[k].dj_controller # NoController)
         => nodes'[k].dj_controller = nodes[k].dj_controller]_vars

(* The published list implements the Directory: peers appear when heard    *)
(* and disappear only by OptOut or after Timeout seconds of silence, even  *)
(* when the sweep judges with a clock read before the lock was free.       *)
Dir == INSTANCE Directory WITH
  Peers <- Address,
  listed <- {k \in Address : nodes_snapshot[k] # None},
  heard <- [k \in Address |-> IF Known(k) THEN nodes[k].last_seen ELSE 0]

DirectorySpec == Dir!Spec

(* When the network has fallen silent for good, every peer is eventually   *)
(* forgotten, in the table and in the published list.                      *)
SilentPeersForgotten ==
  <>[](\A k \in Address : nodes[k] = None /\ nodes_snapshot[k] = None)

------------------------------------------------------------------------------
(* The inductive invariant: what the properties above rest on *)

(* Nothing was seen, and no clock read, later than now. *)
ClocksInOrder ==
  /\ \A k \in KnownKeys : nodes[k].last_seen <= now
  /\ secs # None => secs <= now

(* Entries refer to controllers that were created; a controller that was *)
(* not has no view, no buffer and no packets.                            *)
ControllersCreated ==
  /\ \A k \in KnownKeys : nodes[k].dj_controller <= created
  /\ \A c \in Controllers :
       c > created => views[c] = 0 /\ ~buf_output[c] /\ fed[c] = {}

IInv ==
  /\ TypeOK
  /\ SnapshotAgrees
  /\ HostsKeptApart
  /\ OneViewPerController
  /\ ClocksInOrder
  /\ ControllersCreated

------------------------------------------------------------------------------
(* What the documentation says of the table, and the code does not do *)

(* has_dj_controller means "that a DjControllerView is available" (lib.rs): *)
(* get_controller_view, given the published address of a peer that has a    *)
(* controller nobody has claimed, returns a view.                           *)
ViewAtPublishedAddress ==
  \A k \in Address :
    Claimable(k) => Claimable(nodes_snapshot[k].address)

(* The OptOut is sent "so peers can drop it immediately": a peer "drops our *)
(* entry" (lib.rs, Drop for TCNetClient).  No entry of a host that opts out *)
(* is left.                                                                 *)
LeaversDropped ==
  [][\A src \in Address : OptOut(src) => \A k \in KnownKeys' : k.ip # src.ip]_vars
==============================================================================
