------------------------------ MODULE Directory ------------------------------
(***************************************************************************)
(* What TCNetClient::active_nodes promises its caller (src/src/lib.rs,     *)
(* `ForeignNodeInfo` and `active_nodes`), without tables, locks or         *)
(* controllers: a directory of peers, in which a peer appears when it is   *)
(* heard, and from which it disappears only because it said so or because  *)
(* nothing was heard of it for Timeout seconds.                            *)
(***************************************************************************)
EXTENDS Integers

CONSTANTS
  Peers,     \* the addresses a peer can be registered under
  Timeout    \* seconds of silence after which a peer may be forgotten

VARIABLES
  now,       \* wall clock, in seconds
  listed,    \* the peers the directory lists
  heard      \* for each listed peer, when it was last heard

dirVars == <<now, listed, heard>>

Init ==
  /\ now \in Nat
  /\ listed = {}
  /\ heard \in [Peers -> Nat]

(* Something was received from a peer: it is listed, and heard of now. *)
Hear(p) ==
  /\ listed' = listed \cup {p}
  /\ heard' = [heard EXCEPT ![p] = now]
  /\ UNCHANGED now

(* A peer announces that it leaves. *)
Leave(p) ==
  /\ listed' = listed \ {p}
  /\ heard' = [q \in Peers |-> IF q = p THEN 0 ELSE heard[q]]
  /\ UNCHANGED now

(* Peers that have been silent long enough are forgotten, all at once. *)
Forget(silent) ==
  /\ \A p \in silent : heard[p] + Timeout <= now
  /\ listed' = listed \ silent
  /\ heard' = [q \in Peers |-> IF q \in silent THEN 0 ELSE heard[q]]
  /\ UNCHANGED now

Advance ==
  /\ now' = now + 1
  /\ UNCHANGED <<listed, heard>>

Next ==
  \/ \E p \in Peers : Hear(p) \/ Leave(p)
  \/ \E silent \in SUBSET listed : Forget(silent)
  \/ Advance

Spec == Init /\ [][Next]_dirVars
==============================================================================
