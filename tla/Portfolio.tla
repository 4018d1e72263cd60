----------------------------- MODULE Portfolio -----------------------------
(***************************************************************************)
(* GET /portfolio/positions (rest/portfolio.py): nothing is kept; every    *)
(* answer is folded anew from the COMPLETE orders of the table, whatever   *)
(* has become of it since they were filled.                                *)
(*                                                                         *)
(* The symbol of an order stands for its exchange, tradingsymbol and       *)
(* product together, the key of a position.  Prices are integers in a unit *)
(* that divides them and the hundredth, to which answers are rounded; the  *)
(* arithmetic before a rounding is exact, where that of floats may tip a   *)
(* tie.                                                                    *)
(***************************************************************************)
EXTENDS Orders, Rounding, Functions

CONSTANTS
  LotSize,          \* of each listed symbol
  Cent              \* price units in a hundredth

ASSUME PortfolioAssumption ==
  /\ LotSize \in [Listed -> Nat \ {0}]
  /\ Cent \in Nat \ {0}

\* Mutant of Value: the price asked for counts, not that of the fill.
ValueAsked(o) == o.filled_quantity * o.price
Value(o) == o.filled_quantity * o.average_price

\* The group of a symbol, as _build_positions adds it up.
Group(s) ==
  LET filled == {i \in orders : order[i].status = "COMPLETE" /\ order[i].symbol = s}
      buys == {i \in filled : order[i].transaction_type = "BUY"}
      quantity == [i \in filled |-> order[i].filled_quantity]
      value == [i \in filled |-> Value(order[i])]
  IN [buy_quantity |-> SumFunctionOnSet(quantity, buys),
      buy_value |-> SumFunctionOnSet(value, buys),
      sell_quantity |-> SumFunctionOnSet(quantity, filled \ buys),
      sell_value |-> SumFunctionOnSet(value, filled \ buys)]

\* round(x, 2)
Cents(x) == Cent * RoundHalfEven(x, Cent)

\* A quotient rounded so; the quantity may be negative, and 0 gives 0.
Quotient(value, quantity) ==
  IF quantity = 0 THEN 0
  ELSE IF quantity > 0 THEN Cent * RoundHalfEven(value, Cent * quantity)
  ELSE -(Cent * RoundHalfEven(value, -(Cent * quantity)))

\* Mutant of Pnl: a sold position gains with the price.
PnlUnsigned(net, quantity, s, last_price) ==
  Cents(net + Magnitude(quantity) * last_price * LotSize[s])
Pnl(net, quantity, s, last_price) == Cents(net + quantity * last_price * LotSize[s])

Position(s, ltp) ==
  LET g == Group(s)
      quantity == g.buy_quantity - g.sell_quantity
      buy_value == Cents(g.buy_value)
      sell_value == Cents(g.sell_value)
  IN [quantity |-> quantity,
      average_price |-> Quotient(Magnitude(buy_value - sell_value), quantity),
      last_price |-> Cents(ltp),
      value |-> Cents(sell_value - buy_value),
      pnl |-> Pnl(sell_value - buy_value, quantity, s, Cents(ltp)),
      buy_quantity |-> g.buy_quantity, buy_price |-> Quotient(buy_value, g.buy_quantity),
      buy_value |-> buy_value,
      sell_quantity |-> g.sell_quantity, sell_price |-> Quotient(sell_value, g.sell_quantity),
      sell_value |-> sell_value]

-----------------------------------------------------------------------------
(* Properties.                                                             *)

TradesOf(s, side) ==
  {i \in Ids : trades[i] # <<>> /\ trades[i][1].symbol = s /\ trades[i][1].transaction_type = side}
Traded(of(_), s, side) == SumFunction([i \in TradesOf(s, side) |-> of(trades[i][1])])

\* Positions come from the order objects, GET /trades from the records made
\* when they were filled: the two agree on every quantity and value, whatever
\* modifies, cancels and resets came in between.
PositionsMatchTrades ==
  \A s \in Listed :
    LET g == Group(s)
        Units(t) == t.quantity
        Worth(t) == t.quantity * t.average_price
    IN /\ g.buy_quantity = Traded(Units, s, "BUY") /\ g.buy_value = Traded(Worth, s, "BUY")
       /\ g.sell_quantity = Traded(Units, s, "SELL") /\ g.sell_value = Traded(Worth, s, "SELL")

\* No request but a reset takes anything out of a position: what was bought and
\* sold of a symbol never shrinks as long as the orders of the table stay.
PositionsOnlyGrow ==
  [][orders \subseteq orders' =>
       \A s \in Listed :
         /\ Group(s).buy_quantity <= Group(s)'.buy_quantity
         /\ Group(s).sell_quantity <= Group(s)'.sell_quantity]_vars

\* The profit of a position is the sum of what each trade has gained at the last
\* price -- if a lot is one unit: otherwise the open quantity counts by the lot
\* and the trades by the unit (portfolio.py:67), and only closed positions are
\* right.  It is off by half a hundredth at most for each side of the position
\* and for each unit open (portfolio.py:59-61 round before they multiply), and
\* exact where nothing is rounded.  The average price is where a bought position
\* breaks even, to half a hundredth.
PnlIsMarkToMarket ==
  \A s \in Listed, ltp \in Ltps :
    LET g == Group(s)
        p == Position(s, ltp)
        Gain(t) == t.quantity * (ltp - t.average_price)
        gained == Traded(Gain, s, "BUY") - Traded(Gain, s, "SELL")
        whole == \A x \in {g.buy_value, g.sell_value, ltp} : x % Cent = 0
    IN /\ LotSize[s] = 1 \/ p.quantity = 0 =>
            /\ 2 * Magnitude(p.pnl - gained) <= Cent * (2 + Magnitude(p.quantity))
            /\ whole => p.pnl = gained
       /\ p.quantity > 0 /\ p.buy_value >= p.sell_value =>
            2 * Magnitude(p.quantity * p.average_price + p.value) <= Cent * p.quantity
=============================================================================
