-------------------------- MODULE DjControllerTimes --------------------------
(***************************************************************************)
(* DjController with a clock of its own for every request: the seconds     *)
(* since it was sent.  The record does not look at the deadlines that the  *)
(* task computes, so it can say whether they are the right ones, and what  *)
(* the views promise their callers can be stated in its terms.             *)
(***************************************************************************)
EXTENDS DjController

VARIABLE waited    \* history: seconds since a pending request was sent, up to Timeout

timedVars == <<vars, waited>>

TimedInit == Init /\ waited = [r \in Requests |-> 0]

TimedNext ==
  /\ Next
  /\ waited' = [r \in Requests |->
       IF status[r] # "pending" \/ status'[r] # "pending" THEN 0
       ELSE IF SecondPasses /\ waited[r] < Timeout THEN waited[r] + 1
       ELSE waited[r]]

TimedSpec == TimedInit /\ [][TimedNext]_timedVars

FairTimedSpec == TimedSpec /\ Fairness

------------------------------------------------------------------------------
(* Properties *)

(* "Times out after 5 s" (view.rs): while the controller is there, an error *)
(* means that the time has been waited in full since the request was sent,  *)
(* whatever chunks have come meanwhile; and no round of the loop leaves a   *)
(* request waiting whose time is over.                                      *)
TimesOutOnTime ==
  [][\A r \in Requests :
       /\ status[r] # "err" /\ status'[r] = "err" /\ pc' # "exited" =>
            waited[r] = Timeout
       /\ pc = "timeouts" /\ pc' = "sleep" /\ status'[r] = "pending" =>
            waited[r] < Timeout]_timedVars

AnswerOf == [r \in Requests |->
  IF status[r] \in {"idle", "ok", "err"} THEN status[r] ELSE "asked"]

(* What a caller is told and when: data only while the controller lives and *)
(* only with others who asked for the same, an error when the time is over, *)
(* to all whose time is over, or when the controller goes.                  *)
Promise == INSTANCE RequestPromise WITH
  About <- [r \in Requests |-> <<LayerOf[r], KindOf[r]>>],
  answer <- AnswerOf,
  gone <- pc = "exited"

PromiseSpec == Promise!Spec

(* Each request is answered in the end: with the data, after the timeout,  *)
(* or when the controller is dropped.                                      *)
EveryRequestAnswered == Promise!Answered

------------------------------------------------------------------------------
(* The inductive invariant: what TimesOutOnTime and PromiseSpec rest on *)

(* The deadline the task computed agrees with the time waited. *)
DeadlineAgrees ==
  waited = [r \in Requests |-> IF status[r] = "pending" THEN Timeout - left[r] ELSE 0]
=============================================================================
