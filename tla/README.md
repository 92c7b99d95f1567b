# TLA+ models of tcnet

tcnet is a Rust implementation of TCNet, the UDP protocol by which DJ equipment
shares playback state. A `TCNetClient` discovers peers, mirrors the state of
those that broadcast, fetches waveforms, beat grids, cue tables and artwork
from them, and can itself broadcast as an `ActiveDJNode`. This directory holds
TLA+ models of that code, TLC configurations that check them, and TLAPS proofs.
Paths below are relative to the crate's `src/`.

## 1. Inventory

### Threads

The runtime has ONE worker thread (`lib.rs:230`). On it run, as tokio tasks that
alternate at their awaits: four listeners, one per socket; `send`, `broadcast`
(OptIn), `active_broadcast`; `timeout_foreign_nodes`; one `dj_controller_task`
per discovered peer that sent a DJ packet; and the background task of an
`ActiveDJNode`. The user's threads run beside it, inside the methods of
`TCNetClient`, `DjControllerView`, `WaveformRequester` and `ActiveDJNode`.

### Components

| component | state | operations | interacts by | modules |
|---|---|---|---|---|
| Peer table (`node/dispatcher.rs`, `node/mod.rs`, `lib.rs`) | `discovered_nodes` keyed by source address, with each peer's listener address, last-seen time and controller; the published `nodes_snapshot`; `uptime` | OptIn, OptOut, DJ packet, 1 Hz sweep; `active_nodes`, `get_controller_view`, `get_any_controller_view` | an `RwLock` on the table, an `ArcSwap` for the snapshot, a packet queue into each controller | PeerTable, Directory |
| Controller task (`node/dj_controller.rs`, `view.rs`) | pending requests with their chunks and deadlines | every 10 ms: drain packets, write the triple buffer, drain requests, send, time out | packet queue in, request queue in, outgoing queue out, one-shot replies | DjController, DjControllerTimes, RequestPromise |
| `apply_packet`, `DjControllerView::update` | layers and mixer of a peer | copies fields of Status, Metrics, Time, Meta, Mixer | triple buffer | Mirror |
| Broadcaster (`active_node.rs`) | eight layers, cues, mixer, each an `ArcSwap` | some 25 user calls; ticks of 20 ms (Time), 50 ms (Metrics), 1 s (Status, Meta) | three queues to `active_broadcast`, the response cache | ActiveNode, Mirror, Exchange |
| Response cache and Request handler (`node/response_data.rs`, `node/dispatcher.rs`) | per layer: last Metrics and Meta, cue, waveform, grid, artwork packets | a Request is answered from it, or by an ErrorNotification | `ArcSwap`s, outgoing queue | Exchange, ActiveNode |
| Send tasks (`node/dispatcher.rs`) | the address lists of an iteration, `current_seq` | drain a queue, number, `send_to` | queues, table (addresses) | FanOut |
| Wire format (`protocol.rs`, `node/tcnet_packet.rs`) | none | parse, serialise, split and join, convert | | Wire |
| Construction, binding, shutdown (`lib.rs`, `start_node`) | sockets | bind with fall-back ports, OptOut on drop | | (PeerTable) |

### What is hard, and what correctness means

- *Peer table.* UDP delivers in any order, and a peer speaks from several ports:
  which entry does a packet belong to? Four handlers change the table and each
  must publish. The sweep reads the clock before it holds the lock. Correct
  means: the published list is the table; a peer disappears only by OptOut or
  silence; hosts are not mixed up; a controller is never replaced under its view
  and never has two.
- *Controller.* Chunks are lost, duplicated, reordered and belong to several
  responses; timeouts race answers; the controller can be dropped under a
  waiting caller; a blocking send sits on the only worker thread. Correct means:
  an answer is complete, of the right layer and kind, given once, in the end,
  and an error comes when the time is over, neither before nor later.
- *Broadcaster.* Two threads build, store and send the same packets without a
  common lock; queues are bounded; the network loses. Correct means: loaded
  layers can be asked for, and stale values are put right.
- *Mirror.* No packet carries a whole layer, some fields come from three kinds
  of packet, nothing orders the kinds, and a packet can combine layers of two
  moments. Correct means: what a call announces arrives with its packets, and in
  the end a view shows what the broadcaster has.
- *Exchange.* A response packet names neither the request nor the response it is
  part of; the responses change while they are being sent; each of their packets
  may find the queue full. Correct means: an answer is not older than what a
  call had promised, and a request does not wait for nothing.
- *Fan-out.* The lists of addresses are read once per iteration and then used
  across many awaits, while the table changes. Correct means: who stays gets
  everything once and in order, and nobody else gets anything.
- *Wire.* Two hand-written dispatch tables, sizes, chunk arithmetic and text
  fields must agree between the two sides. Correct means: what is sent is read,
  as what it was meant for.

`PROJECT.json` lists the hazards line by line, with the properties aimed at each.

## 2. Modules

    Directory <--------- PeerTable      <- MCPeerTable         (TLC)
      what active_nodes    |
      promises             +-------------- PeerTable_proofs    (TLAPS)

    RequestPromise <---- DjController,                       DjController_proofs
      what a request     DjControllerTimes <- MCDjController   (of both)
      promises
                         ActiveNode,                         ActiveNode_proofs
                         ActiveNodeTicks <- MCActiveNode,      (of both)
                         Mirror         <- MCMirror,         Mirror_proofs
                         MirrorHistory  <- MCMirrorHistory,  MirrorHistory_proofs
                         Exchange       <- MCExchange,       Exchange_proofs
                         FanOut         <- MCFanOut,         FanOut_proofs
                         Wire           <- MCWire,           Wire_proofs

An arrow to the left from a component is a refinement (`INSTANCE ... WITH`, the
abstract specification as a property). DjControllerTimes, ActiveNodeTicks and
MirrorHistory extend the module above them with history variables; they have no code of their own.
Mirror and Exchange compose the two ends of the protocol: Mirror a broadcaster
and a peer's `apply_packet`, Exchange a broadcaster, its Request handler and a
peer's controller. What one module keeps in detail the others abstract; each
says in its head where the rest is.

### PeerTable

`nodes` and `nodes_snapshot` are the table and the published list, functions
from source addresses. `created`, `foreign_addr`, `buf_output`, `views` and
`fed` keep what the table holds of controllers: how many exist, whom each asks,
whether its triple-buffer output is still there to be claimed, how many views
took it, and the hosts whose packets it was given (a history). `now`, `ticks`,
`secs` and `uptime` belong to the sweep.

A listener holds the write lock from its first read of the table to its last
write and awaits nothing in between, so `OptIn`, `OptOut` and the three outcomes
of a DJ packet (`DjPacketRegisters`, `DjPacketAttaches`, `DjPacketRouted`) are one step
each. The sweep is two, because it reads the clock first (`TimeoutTick`,
`TimeoutSweep`). The user's lookups take the lock and are a step each.

UDP needs no channel: the environment may send any packet of any host at any
time (up to `Horizon`), which covers loss, duplication and reordering.
`OptOutPorts` says where a peer's OptOut comes from. In the passing runs it is
the OptIn's own port, as a peer may well do; the port a `TCNetClient` picks is
the subject of run `peer_optout`.

### DjController

`pc` follows the loop of the task; `status`, `left`, `size` and `chunks` are the
requests: where each is (with the caller, queued, drained, pending, answered),
the seconds to its deadline, and its accumulator; `outgoing` is the level of the
dispatcher's queue, and `dropped` says that the table let the controller go. A
chunk is represented by the response it is part of. The drain of the packet
queue is a sequence of `SinglePacket` and `Chunk` steps, chosen freely among the
chunks of all responses the peer ever gives: loss, duplication, reordering and a
full queue are all in that choice.

The task awaits only in its sleep. Everything else on the worker thread
(`SendOutgoing`, `OtherTraffic`, `DropController`) is therefore enabled only when
`WorkerFree`, while the callers' threads (`Call`, `Enqueue`, `Refuse`) run at
any time.

`Exit` stands for a failing `drain_into`. Whether kanal reports a dropped sender
there is a matter of that library, so after `dropped` the model allows it and
never relies on it.

DjControllerTimes adds `waited`, the seconds since each pending request was sent.
It never looks at `left`, the deadline that the task computes; so
`TimesOutOnTime` compares the task's timeouts with the time that has really passed,
and catches a deadline set too early or too late as well as one tested wrongly.
It counts from the send, as the code does: what a request waits in the request
queue before that is not part of the 5 s. RequestPromise is stated in the same
terms: whom an event may answer, with what, and when the time is over.

### ActiveNode

`layers` are the layers, each reduced to its track id and one value for all the
rest of its playback state, which is one thing in a new node (120 bpm, normal
speed) and another in the default that `unload_track` stores. `load_track` does not
reject the id 0, which the ticks then read as no track; so `Tracks` may hold it.
(Mirror's may not: there the id stands for title and length too, which the code
shows whatever the id.) `user` is the call in progress, `bg` the background
task with what it holds in its hands, `last_metrics` and `last_meta` the cache,
the two queues lead to `active_broadcast`, and `slave` is what a slave peer last
heard. Each load, store and `try_send` on a field shared by the two threads is
a step of its own, except that the layers of a Status packet are loaded at once
(Mirror loads them one by one). Within the worker thread the background task
awaits only in `select!`, so `active_broadcast` runs while it is idle. `try_send`
on a full queue drops the packet and reports `Ok(false)`, which the callers do
not distinguish.

### Mirror

`layers`, `mixer`, `user` and `bg` are the sender: a call changes the state and
then announces it, packet after packet (`Announce`); a tick loads the eight
layers one after the other (`LoadLayer`), or checks a layer, loads it again and
sends (`CheckLayer`, `BuildPacket`, `SendLayer`). `network` stands for the queues,
the send tasks and UDP: `Deliver(i)` takes any packet, `Lose(i)` drops it.
`mirror` is the state in the triple buffer, one field per field of the Rust
snapshot that has a source of its own. `disturbed` remembers that a packet was
lost, overtaken, or out of date when it was sent: `AnnouncedAtOnce` is about the
behaviours without these, `MirrorCatchesUp` about all.

The code drains a batch of packets, applies them and writes the buffer once; the
model writes after each packet, so that a view sees more states, not fewer.

### MirrorHistory and ActiveNodeTicks

These add to every step of Mirror and ActiveNode what a property has to remember,
and constrain nothing. MirrorHistory keeps all states each layer, and the mixer,
has been in (`pastLayers`, `pastMixers`), so that `ShownOnceWas` can say that what
a view shows once was so. Both follow the background task: `quiet` says that
nothing has disturbed the tick in progress since it began, `through` has the kinds
of tick that have ended so. What disturbs is a call; in Mirror also a lost packet
and one delivered out of turn. A tick begun while a call is still announcing is
not quiet either.

### Exchange

One layer of a broadcaster and one peer. `cache` holds the prepared response of
each kind, by the version (the call that made it) and number of its packets;
`user` is the setter that stores them one by one; `asks` are Requests on their
way, `outgoing` and `network` response packets queued and on their way;
`status`, `size` and `chunks` the peer's requests, as in DjController. The
Request handler reads the cache and queues packets one by one with `try_send`
(`HandleRequest`), or an EMPTY notification (`HandleEmpty`), which the peer
ignores (`ArriveError`). `outgoing` is a set: SEQ makes no difference and UDP
reorders anyway, so the order in which `send` takes packets is left open.

`promised`, `floor`, `clean` and `cause` are histories: what finished calls have
promised, what was promised when a request was made, whether anything of its
kind was under way then, and whether anything of its kind was lost, dropped or
absent since.

### FanOut

`table` gives the role of each peer, `queue` the three queues. `ReadLists` copies
the addresses and drains the Status queue; `SendTo(p)` is one `send_to`, the
peers of a packet in any order (a `HashMap`'s); `NextQueue` and `Sleep` end a
queue and an iteration. `OptIn` and `Leaves` change the table between any two
sends. `BuildOptIns` and `SendOptIn` are the `broadcast` task, `SecondPasses` its
interval. `sent`, `roles` and `batch` are histories.

### Wire

No process but a journey: a node sends a message (`SendLayerless`, `SendPlain`,
`SendTime`, `SendStatus`, `SendMeta`, `SendPayload`), as datagrams, and `Receive` is what the
other side makes of them. deku writes and reads the fields of a struct in order
by generated code, so a struct is its size and the fields a reader can stumble
over: the enums, the counted payload, the chunk numbers, the texts. What is
hand-written on both sides is translated: `message_type_id` against
`deserialize_packet`, `as_packet_id` against `from_packet_id`, `chunks` and
`div_ceil` against the accumulator, the name's bytes against `from_utf8`, the
title's UTF-16 units against `from_utf16_lossy`. A character is its width and
whether it is white space, NUL or neither: the receiver trims white space around a
name and NULs at its end, and reads a title up to its first NUL, so
`TextSurvives` says which part of a text comes back, and not that all of it does.
The only artwork there is to send is the empty one that `load_track` stores.

## 3. Runs

Bounds are given in the `.cfg` files. Unless said otherwise deadlock is checked.

| run | asks | bounds, and why they are enough |
|---|---|---|
| `peer_table` | `TypeOK`, `SnapshotAgrees`, `OneViewPerController`, `ControllerStays`, `DirectorySpec`, `SilentPeersForgotten` | one host with two source ports, two listener ports and two controllers: enough to register twice, change the port, be forgotten and come back with a new controller. `Timeout` 2, packets until second 2 (`Horizon`), clock until 4 (`MaxTime`), so that everything times out; `UptimeWrap` 3, so that the uptime rolls over |
| `peer_hosts` | `HostsKeptApart` | two hosts, since it is about pairs; a shorter time |
| `controller` | `TypeOK`, `OkMeansComplete`, `OwnChunksOnly`, `TimesOutOnTime`, `PromiseSpec`, `EveryRequestAnswered` | two requests for one beat grid and one for cues; grids of three tracks with different totals, one of them announcing 0 packets, and one of another layer; the request queue holds 1, so callers wait. `Timeout` 1, so that of two requests sent before and after a second passes only one is overdue |
| `active_node` | `TypeOK`, `LoadedLayersAnswer`, `ResponsesPutRight`, `ResponsesCatchUp`, `SlaveCatchesUp` | one layer, two tracks and the id 0, two calls, one lost packet, queues of 2: a call races a tick, finds a queue full, follows another. Two slots hold what a round of ticks queues for a slave, as the code's 512 do; `SlaveCatchesUp` needs that: with two layers and one slot the second layer's packets can find the queue full for ever |
| `mirror` | `TypeOK`, `AnnouncedAtOnce`, `ShownOnceWas`, `ViewPutRight`, `MirrorCatchesUp` | two layers, so that one packet can combine two moments and the Metrics tick can come between layers; two calls, one loss. One packet is in flight at a time: a queue, or packets that overtake, need `MaxInFlight` 2, under which the properties hold as well (with one layer, or without losses; the invariants also with both, and one position of the faders) but which take too long to be kept: the theorems are for any number |
| `exchange` | `TypeOK`, `FreshAnswers`, `WholeAnswers`, `WaitsForSomething` | two requests for a waveform of up to two packets (two callers share a controller), two calls that replace it, an outgoing queue of 2 that two answers overflow, one datagram lost |
| `fan_out` | `TypeOK`, `RolesServed`, `OrderKept`, `LeaversLeftAlone`, `KeepsAnnouncing` | two peers, one of each class of address list; three changes, so that one can leave and return with another type; two packets, so that order matters |
| `wire` | `SentIsReadable`, `LayersKeptApart`, `PayloadsJoin`, `TextSurvives` | every struct, layer and enum; payload lengths around one, two and many clusters of 2400 and 4400 bytes, and 0; texts of up to four characters of 1 to 4 bytes and five of 1 or 2 units, ink, white space or NUL, in fields of 5 bytes and 4 units |
| `peer_views`, `peer_optout` | one statement of the documentation each | as `peer_table` |
| `controller_blocked` | `EveryRequestAnswered` again | as `controller`, but the outgoing queue holds 1 |
| `mirror_unloaded` | `UnloadedShowsNothing` | one layer, no loss, two packets in flight |

`AnnouncedAtOnce` and `MirrorCatchesUp` divide the mirror's correctness: while no
packet was lost, overtaken or out of date, what a call announced has arrived as
soon as its packets have; and whatever happened, the ticks put right in the end
what they carry. The second excludes what no tick carries: the mixer, and the
title and length of a layer without a track (run `mirror_unloaded`).
`ShownOnceWas` has no condition at all: however packets are lost, late or out of
turn, and although a Time packet can combine layers of two moments, of ONE layer
a view shows no state that the layer never was in, packet by packet. It does not
say that all fields are of the same moment: four kinds of packet bring them.

"In the end" says little about when. `ViewPutRight` and `ResponsesPutRight` do: one
tick that nothing disturbs is enough, whatever went wrong before it. They are the
safety halves of `MirrorCatchesUp` and `ResponsesCatchUp`, which need, besides, that
such a tick comes: that is fairness, once calls and losses have ceased.

`FreshAnswers`, `WholeAnswers` and `WaitsForSomething` have conditions, and they
are the code's.
A request can be answered by packets that were on their way before it was made,
and these can be of a response since replaced: `FreshAnswers` is about requests
made when nothing of their kind was under way (`clean`). Chunks of two responses
that a call separates can be put together: `WholeAnswers` is about requests whose
response has not been replaced since, and says that the answer is then ALL of
that response and nothing else. A request does wait for
nothing, until its timeout, if a packet of its kind was lost, found the outgoing
queue full, or there was nothing prepared: `WaitsForSomething` says that there is
always such a cause, for requests begun when nothing of their kind was under way.

### Findings

Four runs EXPECT a violation: the property states what a doc comment says, the
code does otherwise, and TLC shows how. `findings` in `PROJECT.json` quotes the
lines.

1. `active_nodes()` publishes the listener address, `get_controller_view` looks up
   the source address: the published address of a peer with a controller yields
   `None` (`peer_views`).
2. The OptOut of `TCNetClient` comes from an ephemeral port and removes nothing
   (`peer_optout`).
3. `outgoing_tx.send` blocks the only worker thread; with the queue full nothing
   runs any more, timeouts included (`controller_blocked`).
4. `unload_track` announces a Status only: title and length of the old track stay
   at the peers, of which it says that they "stop showing the previous track"
   (`mirror_unloaded`).

`EveryRequestAnswered` is thus checked twice. It passes when the queue never is
full at a send (`OutgoingCap` 4 for three requests and one message of others)
and fails when it can be; the second is a condition of the code's, not an
artefact: 256 slots are shared by every controller and every multi-packet
response.

### Other disagreements noticed

These need no run, being visible in a line or two, or were found to be tolerable:

- A Time packet before the OptIn gives a host two entries, though a comment in
  the DJ handler speaks of preventing spurious duplicates.
- A controller keeps sending its requests to the address it was created with.
- Chunks of two responses can be reassembled into one answer; nothing in a
  packet would tell.
- The cached Metrics response need not be the last Metrics sent.
- An EMPTY notification is sent so that a peer can fail fast; the peer's
  controller ignores it and the request times out.
- The magic `TCN` of a header is never compared; the header is 24 bytes where a
  doc comment says 32.
- A name with white space around it, or of nothing else, is read trimmed; a title
  with a NUL is read up to it.
- SEQ is one increasing stream as drawn, not as sent.
- `ActiveDJNode`'s doc lets Metrics tick for playing layers; the code ticks for
  loaded ones.

### Deadlock

`CHECK_DEADLOCK FALSE` is set where the system may stop: the blocked worker thread
of `controller_blocked`; ActiveNode and Exchange after the user's last call and
the last packet; Wire at the end of a journey.

### Bounds by name

`MaxControllers`, `Horizon`, `MaxTime` (PeerTable), `MaxPacketNo`, `OthersMay`
(DjController), `MaxCalls`, `MaxLosses` (ActiveNode, Mirror, Exchange),
`MaxInFlight` (Mirror; senders wait for room), `MaxTotal` (Exchange), `MaxPackets`,
`MaxChanges` (FanOut) exist for the model alone. `Timeout`, `UptimeWrap`,
`RequestCap`, `OutgoingCap`, `QueueCap`, `LastLayer`, `NameCap` and `TextCap` are
constants of the code, smaller here: the code compares with them and does
nothing else. `Names`, `Titles` and `Lengths` are samples of what a user may pass.

### Fairness

- PeerTable: the clock advances, the interval fires, and the task gets tokio's
  `RwLock`, which is fair: weak fairness of `ClockAdvances`, `TimeoutTick` and
  `TimeoutSweep`. Packets and lookups are never assumed.
- DjController: tokio resumes a task whose sleep is over, so the loop, and the
  send task, go on; time passes; a thread that called goes on. Weak fairness of
  each. No packet is assumed, nor `Exit`.
- ActiveNode: a call and a tick run to their end, and `active_broadcast` comes back
  from its sleep (weak fairness). Two intervals that are due at once are picked
  from at random by `select!`, and a due interval stays due, so neither is passed
  over for ever: strong fairness of the ticks. No call is assumed.
- Mirror: the same for the call's announcements, the steps of a tick and the
  three ticks; and a network with packets delivers in the end (weak fairness of
  delivering its first: losses are bounded). No call is assumed.
- FanOut: the worker thread comes back to `active_broadcast` and to `broadcast`, the
  lock is fair, `send_to` of a UDP socket returns, and the clock runs: weak
  fairness of each.
- Exchange and Wire are checked for safety only: a request's liveness is
  DjController's.

### Mutants

Every property of a passing run is paired with a mutant in `PROJECT.json`: an operator,
in the module, that changes one definition as a plausible mistake would (an
unpublished change, a limit off by one, a comparison left out). The property
must fail when it takes the definition's place.

## 4. Proofs

`TLAPS` checks the following for every value of the constants that satisfies the
modules' named assumptions (`ConstantsAssumption`, `BoundsAssumption`,
`PortsAssumption`, `RequestsAssumption`, `ResponsesAssumption`, `NoneAssumption`),
which are evaluated in the runs. They fix the types of the constants and keep
the stand-ins for Rust's `None` apart from values; none limits the number of
peers, layers, requests, chunks or calls.

**PeerTable_proofs.** `TypeCorrect`; then `Invariance`, that `IInv` is an
invariant, and from it `SnapshotCorrect`, `HostsCorrect`, `ViewsCorrect`,
`ControllersNeverReplaced` and `DirectoryImplemented`.

`IInv` adds to the properties what they need and do not say.
`OneViewPerController` holds after a new controller is handed to an entry only if
no entry refers to a controller not yet created, and if such a controller has
neither view nor buffer (`ControllersCreated`). The Directory may forget a peer
only if it has been silent for `Timeout` by its OWN clock, while the sweep judged
by an earlier reading: hence `secs <= now`; and `last_seen <= now`
(`ClocksInOrder`) keeps the snapshot's time behind the table's. In the
refinement, a sweep maps to `Forget` of the entries it drops, OptIn and DJ
packets to `Hear`, OptOut to `Leave` (or a stutter), the clock to `Advance`, and
the lookups to stutters.

**DjController_proofs.** `TypeCorrect`; `Invariance`; `AnswersComplete`,
`ChunksKeptApart`, `TimeoutsOnTime`, `PromiseKept`.

Here `IInv` adds `HeldWhilePending`: a request that is not yet pending has no
chunks and no size, so that the first chunk to arrive sizes an empty
accumulator, and a request that is no longer pending has no deadline. The
argument for `OkMeansComplete` is by cases on the chunk step: a request either
gets the chunk and is settled exactly if that completes it, or is left alone.

`TimeoutsOnTime` and `PromiseKept` are about DjControllerTimes and rest on
`DeadlineAgrees`: the time waited and the time left make up the timeout, for every
pending request. It holds because `SendRequest` sets the whole timeout and because
both clocks run together (`DeadlineStep`); then what is overdue is exactly what has
waited in full (`OnTimeStep`). In the refinement, a chunk or packet maps to
`Deliver` to those it settles, who asked for the same since `Awaiting` compares both
layer and kind; `FireTimeouts` to `TimeOut`, `SecondPasses` to `Wait`, `Exit` to `Go`;
what moves a request from queue to queue is a stutter (`PromiseStep`).

**ActiveNode_proofs.** `TypeCorrect`, from `Shape`, which adds what the task holds
in its hands; `LoadedAnswers`; `TicksPutRight`. The first property speaks of a layer at rest, so its
strengthening, `AnswersInTime`, follows the steps of a call: what has to be
stored by the time it returns is stored, or still to be done. For
`ResponsesPutRight` the invariant, `TicksRecorded`, follows a quiet tick through the
layers (`OnCourse`): those behind it are right, and what it holds for the one it is
at is the present state (`HoldsPresent`), since no call has come since it began.

**Exchange_proofs.** `TypeCorrect` (with `AcceptedFits`: what the handler queues
fits); `AnswersAreFresh`; `AnswersAreWhole`; `NoRequestForgotten`. Freshness needs two
invariants: `CacheCurrent`, that the cache is never older than what is promised
and a setter that has not returned has the rest to store; and `NothingStale`,
that for a clean request everything under way and every chunk collected is at
least as new as its `floor`. Wholeness adds the bound from the other side:
`CacheNewest`, that nothing stored or under way is newer than the cache, and what is
of its version is of its total; chunks that are neither older nor newer than the
cache are of it, and there are as many as it has (`SizesRight`). `StillComing` turns `WaitsForSomething` into a step
by step argument: every packet a request lacks is in flight, or its Request is.

**FanOut_proofs.** `TypeCorrect`; `NoneOutsideLists`; `SentInOrder`, from `InOrder`:
what was sent to a peer from a queue comes before what is in hand, which comes
before what is queued; `StayersAreServed`, from `Served`: at each point of an
iteration, every peer of the list has got what the loop is through with.

**Mirror_proofs.** `TypeCorrect`, from `Shape`; `AnnouncedCorrect`. A view shows a
field late for as long as it takes, so the invariant `Accounted` says where the
field is: while nothing was disturbed, every demanded field of every layer is
either COMING with an announcement its call has still to make, or READY: the last
packet on its way that carries the field carries the value the broadcaster has,
or there is none and the view shows it. Ticks keep it because what they send is either the
present value or marks the run disturbed.

**MirrorHistory_proofs.** `ShownCorrect`: what a packet on its way was built from
(`NetworkRecorded`), and the layers the task holds (`TaskRecorded`), are in the record
of the past, which only grows (`RecordGrows`); so `apply_packet` writes from nothing
else (`ApplyRecorded`). `TicksPutRight` uses Mirror_proofs' `Ready` again, now for
the fields a quiet tick has announced so far: `SendReady` and `DeliverReady` carry
it through sends and deliveries in order, whatever was on the way before, and
`TaskStepRecorded` through the tick, layer by layer.

**Wire_proofs.** `ReadableCorrect`, `LayersCorrect`, `TextsCorrect` and
`PayloadsCorrect`, for payloads and texts of any length. `TablesAgree` and `Sizes` go through the tables; `ChunksCover`
and `SplitChunks` bound the cuts, and `JoinSplit` says that joining what was split
gives the payload back. A text is a sequence of characters, and where each of them
ends is a recursive function; facts about every prefix are proved by induction in the
form the provers can instantiate: a set of numbers that has 0 and with each number
the next is all of `Nat` (`Induct`, from the well-foundedness of `<`). With it
`WidthsGrow` and `WholeFits` give `NameKept` and `TitleKept`: what is read is the part
of a text that fits, less what the receiver trims, whose extent `LeadingChars` finds. `Journey` carries them from the sender to the receiver.

**Only model-checked:** the six liveness properties (`SilentPeersForgotten`,
`EveryRequestAnswered`, `ResponsesCatchUp`, `SlaveCatchesUp`, `MirrorCatchesUp`,
`KeepsAnnouncing`), since TLAPS does not reason about `ENABLED` and fairness here;
of `ResponsesCatchUp` and `MirrorCatchesUp` the safety half is proved, see above.
Every invariant, action property and refinement of the passing runs is stated by
a theorem. The expected violations are counterexamples and need no proof.

## 5. Not modelled, and why

- Fields that are copied and never looked at, string formatting, logging: no
  property depends on them. The content of a beat grid is its length; its beat
  counter is 16 bits wide and overflows for tracks of hours.
- deku's generated reading and writing of fields: external; Wire has the sizes and
  the tables around it. `Uptime`, `WireFrame` and other types of the protocol that no
  code uses.
- Port fall-back (`bind_with_fallback`) and the runtime's start and stop: they
  happen once, before and after everything else. The effect of the fall-back, a
  source port other than 60000, is in the sets of ports.
- A wall clock set back or forward: entries would live longer or go at once;
  the code does not guard against it.
- Several `ActiveDJNode`s of one client, which the documentation forbids and
  nothing prevents, and several threads in the `&self` setters of prepared
  responses: the states would alternate, and nothing is promised of them.
- SEQ: no receiver reads it.
- A client dropped while its `ActiveDJNode` lives (closed queues).
- Tests, the example, scripts: read for what they claim, not part of the program.

## 6. What is left

1. `Session`: two nodes, each with a PeerTable, whose OptIns and OptOuts are each
   other's; join, leave, crash and return. PeerTable has one side with a free
   environment, which covers the other's behaviour but says nothing of both.
2. The prepared responses of a layer set by several threads (`Exchange` with a
   second user), if the code comes to promise something of it.
3. The safety halves of the other liveness properties, in the way of
   `ViewPutRight`: how many undisturbed sweeps, iterations or OptIns are enough.
4. The broadcaster over a client that goes away: queues that close in the middle
   of a call.
