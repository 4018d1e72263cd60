---------------------------- MODULE MCPortfolio ----------------------------
(***************************************************************************)
(* A small instance of Portfolio for TLC: a share bought and sold, and a   *)
(* future in lots of five, with injected errors and failing modifies.  A   *)
(* hundredth is two units, so that half the prices are rounded.            *)
(***************************************************************************)
EXTENDS Portfolio

CONSTANT r1

MCRequests == {r1}
WithoutResponse == <<table, knobs, injections, req, scheduled>>

Body(symbol, side, type, q, p) ==
  [symbol |-> symbol, transaction_type |-> side, order_type |-> type,
   quantity |-> q, price |-> p, trigger_price |-> None, disclosed_quantity |-> None]
Edit(q, p, t) == [order_type |-> None, quantity |-> q, price |-> p, trigger_price |-> t]

MCListed == {"INFY", "FUT"}
MCLotSize == [s \in MCListed |-> IF s = "INFY" THEN 1 ELSE 5]
MCPlacements ==
  {Body("INFY", "BUY", "MARKET", 3, None), Body("INFY", "SELL", "LIMIT", 2, 7),
   Body("FUT", "SELL", "MARKET", 1, None)}

\* A full edit; bodies refused at the price and at the trigger price.
MCModifications ==
  {Edit(4, None, None), Edit(4, Malformed, None), Edit(4, None, Malformed)}

MCLtps == {4, 5}
MCDelays == {0}
MCInjectable == {"orders.modify"}
=============================================================================
