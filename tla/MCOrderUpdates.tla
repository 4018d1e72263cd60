--------------------------- MODULE MCOrderUpdates ---------------------------
(***************************************************************************)
(* Small instances of OrderUpdates for TLC: one order and the connections  *)
(* that hear of it.                                                        *)
(***************************************************************************)
EXTENDS OrderUpdates

CONSTANTS r1, c1, c2

MCRequests == {r1}
MCListed == {"INFY"}
MCPlacements ==
  {[symbol |-> "INFY", transaction_type |-> "BUY", order_type |-> "LIMIT",
    quantity |-> 1, price |-> 7, trigger_price |-> None, disclosed_quantity |-> None]}

Edit(q, p, t) == [order_type |-> None, quantity |-> q, price |-> p, trigger_price |-> t]
WholeEdits == {Edit(2, None, None)}
TwoEdits == {Edit(2, None, None), Edit(3, None, None)}

MCLtps == {5}
OneDelay == {1}
SomeDelays == {0, 2}
NoInjections == {}

MCClients == {c1, c2}
FirstClient == {c1}
NoClients == {}

\* No action reads the last response; it is not part of these properties.
WithoutResponse == <<table, knobs, injections, req, scheduled, updateVars>>
=============================================================================
