---------------------------- MODULE DjController ----------------------------
(***************************************************************************)
(* The task of one DjController (src/src/node/dj_controller.rs): it        *)
(* answers the requests of the views (src/src/view.rs) with data its peer  *)
(* sends back, in one packet or in numbered chunks, or with a timeout.     *)
(*                                                                         *)
(* The task shares one worker thread (TCNetClient::new, worker_threads(1)) *)
(* with the listeners, the send task and every other controller.  It       *)
(* awaits only in the sleep that ends its loop, so those run only while    *)
(* pc = "sleep".  The callers' threads run at any time.                    *)
(*                                                                         *)
(* Packets: UDP loses, duplicates and reorders, and the queue of 100 drops *)
(* what does not fit; the chunks drained in an iteration are any chunks of *)
(* any responses the peer ever gave, in any order.  A pending request's    *)
(* deadline is kept as the seconds left until it.                          *)
(***************************************************************************)
EXTENDS Integers, FiniteSets

CONSTANTS
  Requests,        \* the calls of request_*() made in a behaviour
  KindOf,          \* the kind of data each asks for
  LayerOf,         \* the layer each asks about
  Responses,       \* the payloads the peer sends: one per kind, layer and loaded track
  ResponseKind,
  ResponseLayer,
  TotalPackets,    \* the total_packets field its chunks carry (0 is sent by some peers)
  MaxPacketNo,     \* bound: the largest packet_no
  Timeout,         \* 5: seconds a request waits
  RequestCap,      \* 16: capacity of the request queue
  OutgoingCap,     \* 256: capacity of the dispatcher's outgoing queue
  OthersMay,       \* bound: the level to which others fill that queue between two sends
  None             \* a chunk not yet received

SingleKinds == {"SmallWaveform", "CueData"}
ChunkedKinds == {"BigWaveform", "ArtworkFile", "BeatGrid"}
Kinds == SingleKinds \cup ChunkedKinds

PacketNos == 0..MaxPacketNo

ASSUME RequestsAssumption ==
  /\ KindOf \in [Requests -> Kinds]
  /\ DOMAIN LayerOf = Requests

ASSUME ResponsesAssumption ==
  /\ ResponseKind \in [Responses -> Kinds]
  /\ DOMAIN ResponseLayer = Responses
  /\ MaxPacketNo \in Nat
  /\ TotalPackets \in [Responses -> 0..(MaxPacketNo + 1)]
  /\ None \notin Responses

ASSUME BoundsAssumption ==
  /\ Timeout \in Nat \ {0}
  /\ RequestCap \in Nat \ {0}
  /\ OutgoingCap \in Nat \ {0}
  /\ OthersMay \in 0..OutgoingCap

VARIABLES
  pc,         \* where the task is in its loop
  status,     \* where each request is, or how it was answered
  left,       \* seconds left until a pending request's deadline
  size,       \* chunks.len() of a pending request; 0 before its first chunk
  chunks,     \* for each packet_no, the response whose chunk is stored
  outgoing,   \* how many messages the outgoing queue holds
  dropped     \* the dispatcher dropped its DjController (OptOut or timeout)

vars == <<pc, status, left, size, chunks, outgoing, dropped>>

In(state) == {r \in Requests : status[r] = state}

NoChunks == [n \in PacketNos |-> None]

(* Mutant: the layer is not compared. *)
Awaiting_AnyLayer(resp) ==
  {r \in In("pending") : KindOf[r] = ResponseKind[resp]}

(* PendingRequest entries are found by layer and kind; swap_remove reorders *)
(* the list, and each loop visits every entry once.                         *)
Awaiting(resp) ==
  {r \in In("pending") :
     LayerOf[r] = ResponseLayer[resp] /\ KindOf[r] = ResponseKind[resp]}

------------------------------------------------------------------------------
Init ==
  /\ pc = "sleep"
  /\ status = [r \in Requests |-> "idle"]
  /\ left = [r \in Requests |-> 0]
  /\ size = [r \in Requests |-> 0]
  /\ chunks = [r \in Requests |-> NoChunks]
  /\ outgoing = 0
  /\ dropped = FALSE

------------------------------------------------------------------------------
(* The callers *)

(* request_*() is called; request_tx.send blocks while the queue is full. *)
Call(r) ==
  /\ status[r] = "idle"
  /\ status' = [status EXCEPT ![r] = "calling"]
  /\ UNCHANGED <<pc, left, size, chunks, outgoing, dropped>>

Enqueue(r) ==
  /\ status[r] = "calling"
  /\ pc # "exited"
  /\ Cardinality(In("queued")) < RequestCap
  /\ status' = [status EXCEPT ![r] = "queued"]
  /\ UNCHANGED <<pc, left, size, chunks, outgoing, dropped>>

(* The task is gone: send returns Err, reported as TimeoutError. *)
Refuse(r) ==
  /\ status[r] = "calling"
  /\ pc = "exited"
  /\ status' = [status EXCEPT ![r] = "err"]
  /\ UNCHANGED <<pc, left, size, chunks, outgoing, dropped>>

------------------------------------------------------------------------------
(* The task's loop *)

Goto(from, to) == pc = from /\ pc' = to

Wake ==
  /\ Goto("sleep", "packets")
  /\ UNCHANGED <<status, left, size, chunks, outgoing, dropped>>

(* Requests leave the pending list with an answer, and take their deadline *)
(* with them.                                                              *)
Settle(some, how) ==
  /\ status' = [r \in Requests |-> IF r \in some THEN how ELSE status[r]]
  /\ left' = [r \in Requests |-> IF r \in some THEN 0 ELSE left[r]]

(* A one-packet answer resolves every request that waits for it. *)
SinglePacket(resp) ==
  LET answered == Awaiting(resp) IN
  /\ pc = "packets"
  /\ ResponseKind[resp] \in SingleKinds
  /\ Settle(answered, "ok")
  /\ size' = [r \in Requests |-> IF r \in answered THEN 1 ELSE size[r]]
  /\ chunks' = [r \in Requests |->
       IF r \in answered THEN [NoChunks EXCEPT ![0] = resp] ELSE chunks[r]]
  /\ UNCHANGED <<pc, outgoing, dropped>>

(* The accumulator is sized by the first chunk that arrives. *)
SizeWith(r, resp) ==
  IF size[r] # 0 THEN size[r]
  ELSE IF TotalPackets[resp] = 0 THEN 1 ELSE TotalPackets[resp]

(* A chunk is stored at its number, over an earlier one, unless the number *)
(* lies outside the accumulator.                                           *)
Store(r, resp, no) ==
  IF no < SizeWith(r, resp) THEN [chunks[r] EXCEPT ![no] = resp] ELSE chunks[r]

(* Mutant: the request is answered with the chunk numbered last. *)
Complete_AtLast(stored, n) == stored[n - 1] # None

Complete(stored, n) == \A no \in 0..(n - 1) : stored[no] # None

(* A chunk goes to every request that waits for it, and resolves those     *)
(* whose accumulator it completes.                                         *)
Chunk(resp, no) ==
  LET waiting == Awaiting(resp)
      completes(r) == Complete(Store(r, resp, no), SizeWith(r, resp)) IN
  /\ pc = "packets"
  /\ ResponseKind[resp] \in ChunkedKinds
  /\ size' = [r \in Requests |-> IF r \in waiting THEN SizeWith(r, resp) ELSE size[r]]
  /\ chunks' = [r \in Requests |-> IF r \in waiting THEN Store(r, resp, no) ELSE chunks[r]]
  /\ Settle({r \in waiting : completes(r)}, "ok")
  /\ UNCHANGED <<pc, outgoing, dropped>>

(* The queue is drained and the new state is in the triple buffer. *)
PacketsDone ==
  /\ Goto("packets", "requests")
  /\ UNCHANGED <<status, left, size, chunks, outgoing, dropped>>

DrainRequests ==
  /\ Goto("requests", "sending")
  /\ status' = [r \in Requests |->
       IF status[r] = "queued" THEN "drained" ELSE status[r]]
  /\ UNCHANGED <<left, size, chunks, outgoing, dropped>>

(* Mutants: the deadline is set a second late, or a second early. *)
SendRequest_LateDeadline(r) ==
  /\ pc = "sending"
  /\ status[r] = "drained"
  /\ outgoing < OutgoingCap
  /\ outgoing' = outgoing + 1
  /\ status' = [status EXCEPT ![r] = "pending"]
  /\ left' = [left EXCEPT ![r] = Timeout + 1]
  /\ UNCHANGED <<pc, size, chunks, dropped>>

SendRequest_EarlyDeadline(r) ==
  /\ pc = "sending"
  /\ status[r] = "drained"
  /\ outgoing < OutgoingCap
  /\ outgoing' = outgoing + 1
  /\ status' = [status EXCEPT ![r] = "pending"]
  /\ left' = [left EXCEPT ![r] = Timeout - 1]
  /\ UNCHANGED <<pc, size, chunks, dropped>>

(* outgoing_tx.send blocks the worker thread while the queue is full; then *)
(* the request is pending.                                                 *)
SendRequest(r) ==
  /\ pc = "sending"
  /\ status[r] = "drained"
  /\ outgoing < OutgoingCap
  /\ outgoing' = outgoing + 1
  /\ status' = [status EXCEPT ![r] = "pending"]
  /\ left' = [left EXCEPT ![r] = Timeout]
  /\ UNCHANGED <<pc, size, chunks, dropped>>

SendsDone ==
  /\ Goto("sending", "timeouts")
  /\ In("drained") = {}
  /\ UNCHANGED <<status, left, size, chunks, outgoing, dropped>>

(* Requests given up are dropped with what they had accumulated. *)
Abandon(some) ==
  /\ Settle(some, "err")
  /\ size' = [r \in Requests |-> IF r \in some THEN 0 ELSE size[r]]
  /\ chunks' = [r \in Requests |-> IF r \in some THEN NoChunks ELSE chunks[r]]

(* Mutants: once a deadline has passed the whole list is given up; a request *)
(* that has received some chunk no longer times out.                         *)
Overdue_All == IF \E r \in In("pending") : left[r] = 0 THEN In("pending") ELSE {}

Overdue_UnlessStarted == {r \in In("pending") : left[r] = 0 /\ size[r] = 0}

Overdue == {r \in In("pending") : left[r] = 0}

FireTimeouts ==
  /\ Goto("timeouts", "sleep")
  /\ Abandon(Overdue)
  /\ UNCHANGED <<outgoing, dropped>>

(* A drain that fails ends the task; the replies it holds are dropped with *)
(* it, which the callers see as TimeoutError.                              *)
Exit ==
  /\ dropped
  /\ pc \in {"sleep", "requests"}
  /\ pc' = "exited"
  /\ Abandon({r \in Requests : status[r] \in {"queued", "drained", "pending"}})
  /\ UNCHANGED <<outgoing, dropped>>

------------------------------------------------------------------------------
(* The rest of the worker thread, and time *)

WorkerFree == pc \in {"sleep", "exited"}

(* The dispatcher removes the peer; the view keeps its request_tx. *)
DropController ==
  /\ WorkerFree
  /\ ~dropped
  /\ dropped' = TRUE
  /\ UNCHANGED <<pc, status, left, size, chunks, outgoing>>

(* Listeners and other controllers queue messages of their own. *)
OtherTraffic ==
  /\ WorkerFree
  /\ outgoing < OthersMay
  /\ outgoing' = outgoing + 1
  /\ UNCHANGED <<pc, status, left, size, chunks, dropped>>

(* The send task drains the queue to the network. *)
SendOutgoing ==
  /\ WorkerFree
  /\ outgoing > 0
  /\ outgoing' = 0
  /\ UNCHANGED <<pc, status, left, size, chunks, dropped>>

SecondPasses ==
  /\ \E r \in In("pending") : left[r] > 0
  /\ left' = [r \in Requests |-> IF left[r] > 0 THEN left[r] - 1 ELSE 0]
  /\ UNCHANGED <<pc, status, size, chunks, outgoing, dropped>>

------------------------------------------------------------------------------
Caller(r) == Call(r) \/ Enqueue(r) \/ Refuse(r)

Packet ==
  \E resp \in Responses :
    \/ SinglePacket(resp)
    \/ \E no \in PacketNos :
         (no = 0 \/ no < TotalPackets[resp]) /\ Chunk(resp, no)

Loop ==
  \/ Wake
  \/ PacketsDone
  \/ DrainRequests
  \/ \E r \in Requests : SendRequest(r)
  \/ SendsDone
  \/ FireTimeouts

Next ==
  \/ \E r \in Requests : Caller(r)
  \/ Packet
  \/ Loop
  \/ Exit
  \/ DropController
  \/ OtherTraffic
  \/ SendOutgoing
  \/ SecondPasses

Spec == Init /\ [][Next]_vars

(* tokio resumes a task whose sleep is over and the clock runs.  A caller's *)
(* thread runs once it called.  No packet needs to arrive.                  *)
Fairness ==
  /\ WF_vars(Loop)
  /\ WF_vars(SendOutgoing)
  /\ WF_vars(SecondPasses)
  /\ \A r \in Requests : WF_vars(Enqueue(r) \/ Refuse(r))

------------------------------------------------------------------------------
(* Properties *)

States == {"idle", "calling", "queued", "drained", "pending", "ok", "err"}

(* Every variable has its type: no deadline lies more than Timeout ahead,  *)
(* and the outgoing queue never exceeds its capacity.                      *)
TypeOK ==
  /\ pc \in {"sleep", "packets", "requests", "sending", "timeouts", "exited"}
  /\ status \in [Requests -> States]
  /\ left \in [Requests -> 0..Timeout]
  /\ size \in [Requests -> 0..(MaxPacketNo + 1)]
  /\ chunks \in [Requests -> [PacketNos -> Responses \cup {None}]]
  /\ outgoing \in 0..OutgoingCap
  /\ dropped \in BOOLEAN

(* Every chunk number of a request's accumulator has been received. *)
Whole(r) == \A no \in 0..(size[r] - 1) : chunks[r][no] # None

(* A caller who gets Ok gets every chunk up to the announced total, and a  *)
(* request whose chunks have all arrived does not go on waiting, whatever  *)
(* the order, duplication and interleaving of responses.                   *)
OkMeansComplete ==
  \A r \in Requests :
    /\ status[r] = "ok" => size[r] > 0 /\ Whole(r)
    /\ status[r] = "pending" /\ size[r] > 0 => ~Whole(r)

(* No chunk of another layer or of another kind of data is ever stored for *)
(* a request, and none outside its accumulator.                            *)
OwnChunksOnly ==
  \A r \in Requests : \A no \in PacketNos :
    chunks[r][no] # None =>
      /\ no < size[r]
      /\ ResponseLayer[chunks[r][no]] = LayerOf[r]
      /\ ResponseKind[chunks[r][no]] = KindOf[r]

------------------------------------------------------------------------------
(* The inductive invariant: what the properties above rest on *)

(* A request holds no data and no deadline before it is pending, and no *)
(* deadline after.                                                      *)
HeldWhilePending ==
  \A r \in Requests :
    /\ status[r] # "pending" => left[r] = 0
    /\ status[r] \in {"idle", "calling", "queued", "drained"} =>
         size[r] = 0 /\ chunks[r] = NoChunks

IInv == TypeOK /\ OkMeansComplete /\ OwnChunksOnly /\ HeldWhilePending
=============================================================================
