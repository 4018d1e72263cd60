--------------------------- MODULE OrderLifecycle ---------------------------
(***************************************************************************)
(* What the order table promises, without handlers, queues or knobs: every *)
(* order id is issued once, in increasing order, straight into one of the  *)
(* three end states of orders.default_state; only an OPEN order can change *)
(* phase, and only to CANCELLED; a reset clears every issued order for     *)
(* good; and exactly the COMPLETE orders are traded.  Orders.tla is shown  *)
(* to implement this module.                                               *)
(***************************************************************************)
EXTENDS Integers

CONSTANT MaxOrders      \* order ids that may be issued: bounds the model

VARIABLES
  phase,                \* id -> where the id is in its life
  traded                \* the ids that have a trade

vars == <<phase, traded>>

Ids == 1..MaxOrders
PlacedAs == {"COMPLETE", "OPEN", "REJECTED"}
Phases == PlacedAs \cup {"unused", "CANCELLED", "cleared"}

Init ==
  /\ phase = [i \in Ids |-> "unused"]
  /\ traded = {}

\* The next id in sequence is issued, in state s.
Place(i, s) ==
  /\ phase[i] = "unused"
  /\ \A j \in Ids : j < i => phase[j] # "unused"
  /\ phase' = [phase EXCEPT ![i] = s]
  /\ traded' = IF s = "COMPLETE" THEN traded \cup {i} ELSE traded

Cancel(i) ==
  /\ phase[i] = "OPEN"
  /\ phase' = [phase EXCEPT ![i] = "CANCELLED"]
  /\ UNCHANGED traded

Reset ==
  /\ phase' = [i \in Ids |-> IF phase[i] = "unused" THEN "unused" ELSE "cleared"]
  /\ traded' = {}

Next ==
  \/ \E i \in Ids, s \in PlacedAs : Place(i, s)
  \/ \E i \in Ids : Cancel(i)
  \/ Reset

Spec == Init /\ [][Next]_vars
=============================================================================
