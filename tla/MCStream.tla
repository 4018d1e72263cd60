------------------------------ MODULE MCStream ------------------------------
(***************************************************************************)
(* A small instance of Stream for TLC: an index; a share whose tick has a  *)
(* fifth decimal; a currency future with a tick finer than the fourth      *)
(* decimal; a bond that costs hardly more than its tick, which is one in   *)
(* the fourth decimal.  Words are six bits wide.                           *)
(***************************************************************************)
EXTENDS Stream, TLC

CONSTANTS c1, c2

NIFTY == 1
INFY == 2
USDINR == 3
BOND == 4

MCInstrument ==
  [t \in {NIFTY, INFY, USDINR, BOND} |->
     CASE t = NIFTY -> [is_index |-> TRUE, tick_size |-> 3, lot_size |-> 1,
                        start_price |-> 31, scale |-> 1]
       [] t = INFY -> [is_index |-> FALSE, tick_size |-> 3, lot_size |-> 2,
                       start_price |-> 20, scale |-> 1]
       [] t = USDINR -> [is_index |-> FALSE, tick_size |-> 1, lot_size |-> 1,
                         start_price |-> 6, scale |-> 4]
       [] t = BOND -> [is_index |-> FALSE, tick_size |-> 2, lot_size |-> 1,
                       start_price |-> 8, scale |-> 1]]

\* The digits of the seed, to the base 3, are what the steps draw in turn: any of
\* the three first, then one of the extremes.
MCSeeds == {d + 3 * e + 9 * f : d \in 0..2, e \in {0, 2}, f \in {0, 2}}
MCDraw(s, ts, t) ==
  LET digit == (s \div 3^Len(ts)) % 3 IN
  [gauss |-> 150 * (digit - 1), ltq |-> 1 + 16 * digit, buy |-> 7 + t, sell |-> 9 + t,
   oi |-> <<5, 0, 3>>[digit + 1],
   depth |-> [k \in 1..10 |-> [quantity |-> k, orders |-> 1 + k]]]

MCConnections == {c1, c2}
MCSubscriptions ==
  {<<<<NIFTY, "full">>, <<INFY, "full">>>>, <<<<BOND, "quote">>, <<INFY, "ltp">>>>,
   <<<<USDINR, "full">>>>}
MCRequested ==
  {<<"quote", {INFY, USDINR, 99}>>, <<"quote.ohlc", {NIFTY}>>, <<"quote.ltp", {INFY}>>}
Symmetry == Permutations(MCConnections)
=============================================================================
