------------------------------ MODULE MCOrders ------------------------------
(***************************************************************************)
(* Small instances of Orders for TLC: the values of its constants.         *)
(***************************************************************************)
EXTENDS Orders, TLC

CONSTANTS r1, r2

MCRequests == {r1, r2}
\* No action reads the last response, so two states that differ only in it
\* have the same successors, and the action properties are checked on every
\* step, whether its target was seen before or not.
WithoutResponse == <<table, knobs, injections, req, scheduled>>

Symmetry == Permutations(MCRequests)

Body(symbol, type, q, p, t) ==
  [symbol |-> symbol, transaction_type |-> "BUY", order_type |-> type,
   quantity |-> q, price |-> p, trigger_price |-> t, disclosed_quantity |-> None]

Edit(type, q, p, t) == [order_type |-> type, quantity |-> q, price |-> p, trigger_price |-> t]

MCListed == {"INFY"}

\* A market order, a limit order, an order for an instrument nobody lists, a
\* limit order without its price, and one that discloses an infinity.
MCPlacements ==
  {Body("INFY", "MARKET", 2, None, None),
   Body("INFY", "LIMIT", 1, 7, None),
   Body("ACME", "MARKET", 1, None, None),
   Body("INFY", "LIMIT", 1, None, None),
   [Body("INFY", "LIMIT", 1, 7, None) EXCEPT !.disclosed_quantity = NotFinite]}

\* A full edit; bodies refused at the quantity, and at the price after the
\* quantity was set.
MCModifications ==
  {Edit("SL", 3, 8, 6), Edit(None, 0, None, None), Edit(None, 3, Malformed, None)}

MCLtps == {5}
MCDelays == {0}
NoInjections == {}
=============================================================================
