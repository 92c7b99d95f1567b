------------------------------ MODULE Exchange ------------------------------
(***************************************************************************)
(* A request from end to end: the responses an ActiveDJNode has prepared   *)
(* for a layer (src/src/active_node.rs, src/src/node/response_data.rs),    *)
(* the Request handler that sends them, the outgoing queue                 *)
(* (src/src/node/dispatcher.rs), UDP, and the peer's controller, which     *)
(* puts the packets together (src/src/node/dj_controller.rs).              *)
(*                                                                         *)
(* Neither end names a request: a Request carries a layer and a kind of    *)
(* data, and a response packet carries the same and its number.  So a      *)
(* packet answers whoever waits for its kind.                              *)
(*                                                                         *)
(* Data is represented by its version, the number of the user's call that  *)
(* made it.  One layer is modelled, and one requesting peer; the timers    *)
(* and queues of its controller are in DjController.  UDP loses and        *)
(* reorders here; it duplicates in DjController.  unload_track touches     *)
(* none of the responses, so it is no step of this module.                 *)
(***************************************************************************)
EXTENDS Integers, Sequences, FiniteSets

CONSTANTS
  Requests,     \* the calls of request_*() made in a behaviour
  KindOf,       \* the kind of data each asks for
  MaxTotal,     \* bound: the packets of one response
  OutgoingCap,  \* 256: capacity of the outgoing queue
  MaxCalls,     \* bound: the user's calls in a behaviour
  MaxLosses     \* bound: the datagrams lost

Kinds == {"SmallWaveform", "BigWaveform", "BeatGrid", "CueData", "ArtworkFile"}

ASSUME ConstantsAssumption ==
  /\ KindOf \in [Requests -> Kinds]
  /\ MaxTotal \in Nat \ {0}
  /\ OutgoingCap \in Nat \ {0}
  /\ MaxCalls \in Nat
  /\ MaxLosses \in Nat

Versions == 0..MaxCalls
None == 0                   \* no call has made version 0
Numbers == 0..(MaxTotal - 1)

VARIABLES
  cache,      \* the prepared response of each kind: its version, and of how many packets
  cues,       \* the version of the layer's cue state (cue_states)
  user,       \* the call in progress: responses still to store, kinds it is about
  calls,      \* the calls made so far; that of the current call is its version
  promised,   \* history: of each kind, the version of the last call that returned
  asks,       \* the requests whose Request datagram is on its way
  outgoing,   \* the outgoing queue, as the set of packets in it
  network,    \* response packets on their way to the peer
  losses,     \* datagrams lost so far
  status,     \* of each request: "idle", "pending", "ok" or "err"
  size,       \* chunks.len() of a pending request; 0 before its first packet
  chunks,     \* of each packet number, the version stored
  floor,      \* history: what was promised when the request was made
  clean,      \* history: nothing of its kind was under way then
  cause       \* history: something of its kind was lost or dropped, or there was no data

nodeVars == <<cache, cues, user, calls, promised>>
peerVars == <<status, size, chunks, floor, clean>>
vars == <<nodeVars, asks, outgoing, network, losses, peerVars, cause>>

Packets == [kind : Kinds, version : Versions, total : 1..MaxTotal, no : Numbers, to : Requests]
Errors == [kind : {"error"}, to : Requests]

Response(kind, total) == [kind |-> kind, total |-> total]
Resting == [todo |-> <<>>, kinds |-> {}]
NoChunks == [no \in Numbers |-> None]

Init ==
  /\ cache = [k \in Kinds |-> [version |-> None, total |-> 0]]
  /\ cues = None
  /\ user = Resting
  /\ calls = 0
  /\ promised = [k \in Kinds |-> None]
  /\ asks = {}
  /\ outgoing = {}
  /\ network = {}
  /\ losses = 0
  /\ status = [r \in Requests |-> "idle"]
  /\ size = [r \in Requests |-> 0]
  /\ chunks = [r \in Requests |-> NoChunks]
  /\ floor = [r \in Requests |-> None]
  /\ clean = [r \in Requests |-> FALSE]
  /\ cause = [r \in Requests |-> FALSE]

------------------------------------------------------------------------------
(* The user's calls.  A call stores its responses one after the other, each *)
(* with all its packets at once: they share one ArcSwap.                    *)

Call(todo, kinds) ==
  /\ user = Resting
  /\ calls < MaxCalls
  /\ calls' = calls + 1
  /\ user' = [todo |-> todo, kinds |-> kinds]
  /\ UNCHANGED <<cache, promised, asks, outgoing, network, losses, peerVars, cause>>

(* The placeholders are of one packet each, the beat grid of as many as the *)
(* track is long.  The cue state is reset first.                            *)
LoadTrack(total) ==
  /\ Call(<<Response("SmallWaveform", 1), Response("BigWaveform", 1),
            Response("BeatGrid", total), Response("CueData", 1),
            Response("ArtworkFile", 1)>>, Kinds)
  /\ cues' = calls + 1

(* Mutant: an empty `big` leaves the old packets. *)
SetWaveforms_KeepsOld(total) ==
  /\ Call(<<Response("SmallWaveform", 1)>> \o
            (IF total = 0 THEN <<>> ELSE <<Response("BigWaveform", total)>>),
          {"SmallWaveform", "BigWaveform"})
  /\ UNCHANGED cues

(* An empty `big` leaves no packets; an empty grid is one empty packet. *)
SetWaveforms(total) ==
  /\ Call(<<Response("SmallWaveform", 1), Response("BigWaveform", total)>>,
          {"SmallWaveform", "BigWaveform"})
  /\ UNCHANGED cues

SetBeatGrid(total) ==
  /\ Call(<<Response("BeatGrid", total)>>, {"BeatGrid"})
  /\ UNCHANGED cues

(* set_cue_marker, set_hot_cues, set_loop_range. *)
SetCues ==
  /\ Call(<<Response("CueData", 1)>>, {"CueData"})
  /\ cues' = calls + 1

Store ==
  LET next == Head(user.todo) IN
  /\ user.todo # <<>>
  /\ user' = [user EXCEPT !.todo = Tail(@)]
  /\ cache' = [cache EXCEPT ![next.kind] =
       [version |-> IF next.kind = "CueData" THEN cues ELSE calls, total |-> next.total]]
  /\ UNCHANGED <<cues, calls, promised, asks, outgoing, network, losses, peerVars, cause>>

Return ==
  /\ user.todo = <<>>
  /\ user.kinds # {}
  /\ user' = Resting
  /\ promised' = [k \in Kinds |-> IF k \in user.kinds THEN calls ELSE promised[k]]
  /\ UNCHANGED <<cache, cues, calls, asks, outgoing, network, losses, peerVars, cause>>

------------------------------------------------------------------------------
(* The peer asks *)

UnderWay(kind) ==
  \/ \E r \in asks : KindOf[r] = kind
  \/ \E packet \in outgoing \cup network : packet.kind = kind

Pending(kind) == {r \in Requests : status[r] = "pending" /\ KindOf[r] = kind}

(* DjController has the way from the call to the socket. *)
Ask(r) ==
  /\ status[r] = "idle"
  /\ status' = [status EXCEPT ![r] = "pending"]
  /\ asks' = asks \cup {r}
  /\ floor' = [floor EXCEPT ![r] = promised[KindOf[r]]]
  /\ clean' = [clean EXCEPT ![r] = ~UnderWay(KindOf[r])]
  /\ UNCHANGED <<nodeVars, outgoing, network, losses, size, chunks, cause>>

------------------------------------------------------------------------------
(* The Request handler and the send task *)

(* Mutant: the packets are numbered from 1. *)
Answer_FromOne(r) ==
  LET cached == cache[KindOf[r]] IN
  {[kind |-> KindOf[r], version |-> cached.version, total |-> cached.total,
    no |-> no, to |-> r] : no \in 1..cached.total}

(* Mutant: the number of the last packet is announced as the total. *)
Answer_LastNumber(r) ==
  LET cached == cache[KindOf[r]] IN
  {[kind |-> KindOf[r], version |-> cached.version, no |-> no, to |-> r,
    total |-> IF cached.total = 1 THEN 1 ELSE cached.total - 1] : no \in 0..(cached.total - 1)}

(* build_request_response: the packets of one load of the cache. *)
Answer(r) ==
  LET cached == cache[KindOf[r]] IN
  {[kind |-> KindOf[r], version |-> cached.version, total |-> cached.total,
    no |-> no, to |-> r] : no \in 0..(cached.total - 1)}

(* Mutant: the queue takes them all. *)
Accepted_All(packets) == packets

(* try_send for each packet in turn: those that find the queue full are    *)
(* dropped, and nobody is told.                                            *)
Accepted(packets) ==
  {packet \in packets : Cardinality(outgoing) + packet.no < OutgoingCap}

Blame(some) == cause' = [r \in Requests |-> cause[r] \/ r \in some]

HandleRequest(r) ==
  /\ r \in asks
  /\ asks' = asks \ {r}
  /\ Answer(r) # {}
  /\ outgoing' = outgoing \cup Accepted(Answer(r))
  /\ Blame(IF Accepted(Answer(r)) = Answer(r) THEN {} ELSE Pending(KindOf[r]))
  /\ UNCHANGED <<nodeVars, network, losses, peerVars>>

(* No data: an ErrorNotification (014, EMPTY), by try_send. *)
HandleEmpty(r) ==
  /\ r \in asks
  /\ asks' = asks \ {r}
  /\ Answer(r) = {}
  /\ outgoing' = IF Cardinality(outgoing) < OutgoingCap
                   THEN outgoing \cup {[kind |-> "error", to |-> r]} ELSE outgoing
  /\ Blame({r})
  /\ UNCHANGED <<nodeVars, network, losses, peerVars>>

(* `send` drains the queue. *)
SendOutgoing ==
  /\ outgoing # {}
  /\ network' = network \cup outgoing
  /\ outgoing' = {}
  /\ UNCHANGED <<nodeVars, asks, losses, peerVars, cause>>

------------------------------------------------------------------------------
(* UDP and the peer's controller *)

LoseAsk(r) ==
  /\ r \in asks
  /\ losses < MaxLosses
  /\ losses' = losses + 1
  /\ asks' = asks \ {r}
  /\ Blame({r})
  /\ UNCHANGED <<nodeVars, outgoing, network, peerVars>>

LosePacket(packet) ==
  /\ losses < MaxLosses
  /\ losses' = losses + 1
  /\ network' = network \ {packet}
  /\ Blame(Pending(packet.kind))
  /\ UNCHANGED <<nodeVars, asks, outgoing, peerVars>>

SizeWith(r, packet) == IF size[r] # 0 THEN size[r] ELSE packet.total

StoreChunk(r, packet) ==
  IF packet.no < SizeWith(r, packet)
    THEN [chunks[r] EXCEPT ![packet.no] = packet.version]
    ELSE chunks[r]

Complete(stored, n) == \A no \in 0..(n - 1) : stored[no] # None

(* A packet goes to every request that waits for its kind. *)
Arrive(packet) ==
  LET waiting == Pending(packet.kind)
      answered == {r \in waiting : Complete(StoreChunk(r, packet), SizeWith(r, packet))} IN
  /\ packet.kind \in Kinds
  /\ network' = network \ {packet}
  /\ size' = [r \in Requests |-> IF r \in waiting THEN SizeWith(r, packet) ELSE size[r]]
  /\ chunks' = [r \in Requests |-> IF r \in waiting THEN StoreChunk(r, packet) ELSE chunks[r]]
  /\ status' = [r \in Requests |-> IF r \in answered THEN "ok" ELSE status[r]]
  /\ UNCHANGED <<nodeVars, asks, outgoing, losses, floor, clean, cause>>

(* dj_controller_task has no arm for an ErrorNotification: the request goes *)
(* on waiting.                                                              *)
ArriveError(packet) ==
  /\ packet.kind = "error"
  /\ network' = network \ {packet}
  /\ UNCHANGED <<nodeVars, asks, outgoing, losses, peerVars, cause>>

(* Five seconds pass before all of the answer is there. *)
Timeout(r) ==
  /\ status[r] = "pending"
  /\ status' = [status EXCEPT ![r] = "err"]
  /\ UNCHANGED <<nodeVars, asks, outgoing, network, losses, size, chunks, floor, clean, cause>>

------------------------------------------------------------------------------
Calls ==
  \/ \E total \in 1..MaxTotal : LoadTrack(total) \/ SetBeatGrid(total)
  \/ \E total \in 0..MaxTotal : SetWaveforms(total)
  \/ SetCues

Next ==
  \/ Calls \/ Store \/ Return
  \/ \E r \in Requests : Ask(r) \/ HandleRequest(r) \/ HandleEmpty(r) \/ LoseAsk(r) \/ Timeout(r)
  \/ SendOutgoing
  \/ \E packet \in network : LosePacket(packet) \/ Arrive(packet) \/ ArriveError(packet)

Spec == Init /\ [][Next]_vars

------------------------------------------------------------------------------
(* Properties *)

Calling == [todo : Seq([kind : Kinds, total : 0..MaxTotal]), kinds : SUBSET Kinds]

(* The shape of the state, the bound on the outgoing queue, and no stored *)
(* version that no call has made.                                         *)
TypeOK ==
  /\ cache \in [Kinds -> [version : Versions, total : 0..MaxTotal]]
  /\ cues \in Versions
  /\ user \in Calling
  /\ calls \in Versions
  /\ promised \in [Kinds -> Versions]
  /\ asks \subseteq Requests
  /\ outgoing \subseteq Packets \cup Errors
  /\ IsFiniteSet(outgoing)
  /\ Cardinality(outgoing) <= OutgoingCap
  /\ network \subseteq Packets \cup Errors
  /\ losses \in 0..MaxLosses
  /\ status \in [Requests -> {"idle", "pending", "ok", "err"}]
  /\ size \in [Requests -> 0..MaxTotal]
  /\ chunks \in [Requests -> [Numbers -> Versions]]
  /\ floor \in [Requests -> Versions]
  /\ clean \in [Requests -> BOOLEAN]
  /\ cause \in [Requests -> BOOLEAN]

(* "Peers' subsequent requests see the new bytes" (set_response_waveforms),*)
(* "will receive the updated cue point" (set_cue_marker), "will receive    *)
(* the new grid on the next exchange" (set_response_beat_grid): every      *)
(* packet of an answer is at least as new as what the last call promised   *)
(* when the request was made, whichever later call, request or loss is     *)
(* interleaved, if nothing of the kind was under way at that moment.       *)
FreshAnswers ==
  \A r \in Requests :
    status[r] = "ok" /\ clean[r] =>
      \A no \in 0..(size[r] - 1) : chunks[r][no] >= floor[r]

(* ... and unless a call has stored a newer response meanwhile, the answer *)
(* is the prepared response, all of it and nothing else: no packet of an   *)
(* older one, no packet short, although nothing in a packet says which     *)
(* response it belongs to.                                                 *)
WholeAnswers ==
  \A r \in Requests :
    LET cached == cache[KindOf[r]] IN
    status[r] = "ok" /\ clean[r] /\ cached.version = floor[r] =>
      /\ size[r] = cached.total
      /\ \A no \in 0..(size[r] - 1) : chunks[r][no] = cached.version

(* A request that began with nothing of its kind under way never waits for *)
(* nothing: while it is pending something of its kind is on its way, unless*)
(* a datagram was lost, a queue was full, or there was no data.            *)
WaitsForSomething ==
  \A r \in Requests :
    status[r] = "pending" /\ clean[r] /\ ~cause[r] => UnderWay(KindOf[r])
=============================================================================
