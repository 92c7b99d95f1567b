--------------------------- MODULE RequestPromise ---------------------------
(***************************************************************************)
(* What the request_* methods of DjControllerView and WaveformRequester    *)
(* promise their caller (src/src/view.rs): a request that was made is      *)
(* answered once, with the data, or with an error when it has waited for   *)
(* its time or when there is no controller any more.                       *)
(***************************************************************************)
EXTENDS Naturals

CONSTANTS
  Requests,
  About,    \* what each request asks for
  Timeout   \* how long it waits

VARIABLES
  answer,   \* what the caller's future of each request holds
  waited,   \* how long it has waited
  gone      \* there is no controller any more

promiseVars == <<answer, waited, gone>>

Asked == {r \in Requests : answer[r] = "asked"}

Init ==
  /\ answer = [r \in Requests |-> "idle"]
  /\ waited = [r \in Requests |-> 0]
  /\ gone = FALSE

Ask(r) ==
  /\ answer[r] = "idle"
  /\ answer' = [answer EXCEPT ![r] = "asked"]
  /\ UNCHANGED <<waited, gone>>

(* Time counts for the requests that have been sent to the peer. *)
Wait(some) ==
  /\ waited' = [r \in Requests |-> IF r \in some THEN waited[r] + 1 ELSE waited[r]]
  /\ \A r \in some : waited[r] < Timeout
  /\ UNCHANGED <<answer, gone>>

Answer(some, how) ==
  /\ answer' = [r \in Requests |-> IF r \in some THEN how ELSE answer[r]]
  /\ waited' = [r \in Requests |-> IF r \in some THEN 0 ELSE waited[r]]

(* One event at the controller can answer several requests for the same. *)
Deliver(some) ==
  /\ ~gone
  /\ \A q, r \in some : About[q] = About[r]
  /\ Answer(some, "ok")
  /\ UNCHANGED gone

(* Everyone whose time is over is told so, and nobody else. *)
TimeOut ==
  /\ ~gone
  /\ Answer({r \in Asked : waited[r] = Timeout}, "err")
  /\ UNCHANGED gone

(* The controller goes, and with it the requests that had reached it. *)
Go(some) ==
  /\ ~gone
  /\ gone' = TRUE
  /\ Answer(some, "err")

Refuse(r) ==
  /\ gone
  /\ r \in Asked
  /\ Answer({r}, "err")
  /\ UNCHANGED gone

Next ==
  \/ \E r \in Requests : Ask(r) \/ Refuse(r)
  \/ \E some \in SUBSET Asked : Wait(some) \/ Deliver(some) \/ Go(some)
  \/ TimeOut

Spec == Init /\ [][Next]_promiseVars

(* Nobody waits for ever. *)
Answered ==
  \A r \in Requests : answer[r] = "asked" ~> answer[r] \in {"ok", "err"}
=============================================================================
