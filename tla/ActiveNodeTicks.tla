--------------------------- MODULE ActiveNodeTicks ---------------------------
(***************************************************************************)
(* ActiveNode with a record of the ticks that nothing disturbed: those     *)
(* that began after the last call had returned and ran to their end.  That *)
(* stale responses are put right is a liveness property of ActiveNode; the *)
(* record says when: one such tick is enough, whatever the races before    *)
(* it have left in the cache.                                              *)
(***************************************************************************)
EXTENDS ActiveNode

VARIABLES
  quiet,  \* history: no call since the latest tick began, and none was in progress then
  through \* history: the ticks that began and ended since the last call returned

ticksVars == <<vars, quiet, through>>

TicksInit == Init /\ quiet = FALSE /\ through = {}

CallBegins == calls' # calls
TickBegins == Idle(bg) /\ ~Idle(bg')
TickEnds == ~Idle(bg) /\ Idle(bg')

TicksNext ==
  /\ Next
  /\ quiet' = IF CallBegins THEN FALSE
              ELSE IF TickBegins THEN Idle(user) ELSE quiet
  /\ through' = IF CallBegins THEN {}
                ELSE IF TickEnds /\ quiet THEN through \cup {bg.tick} ELSE through

TicksSpec == TicksInit /\ [][TicksNext]_ticksVars

FairTicksSpec == TicksSpec /\ Fairness

------------------------------------------------------------------------------
(* Properties *)

(* One Metrics tick, or one Status tick with the Metas it sends, that no   *)
(* call disturbs puts the response of every loaded layer right, even one   *)
(* that a tick before it had stored over a newer one; and it stays right   *)
(* until the next call.                                                    *)
ResponsesPutRight ==
  \A l \in Layers :
    Loaded(l) =>
      /\ "metrics" \in through => last_metrics[l] = layers[l]
      /\ "status" \in through => last_meta[l] = layers[l].track_id
=============================================================================
