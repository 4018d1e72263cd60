-------------------------- MODULE Portfolio_proofs --------------------------
(***************************************************************************)
(* Proofs about the positions, for every book of orders: they are those of *)
(* the trades, they only grow, and their profit is marked to the market.   *)
(***************************************************************************)
EXTENDS Portfolio, Orders_proofs, Lemmas

-----------------------------------------------------------------------------
(* The trades tell what was bought and sold.                               *)

\* A trade names the symbol and the side of its order.
TradesDescribe ==
  \A i \in Ids :
    trades[i] # <<>> => /\ trades[i][1].symbol = order[i].symbol
                        /\ trades[i][1].transaction_type = order[i].transaction_type

LEMMA DescribeStep ==
  ASSUME Inv, TradesDescribe, [Next]_vars
  PROVE  TradesDescribe'
<1>1. /\ order \in [Ids -> Order \cup {None}] /\ trades \in [Ids -> Seq(Trade)]
      /\ orderSeq \in Nat /\ orders \subseteq 1..orderSeq
  BY DEF Inv, TypeOK
<1>2. ASSUME NEW i \in Ids, trades[i] # <<>>
      PROVE  order'[i] = order[i]
  <2>1. i \in 1..orderSeq /\ order[i].status \in {"COMPLETE", "REJECTED"}
    BY <1>1, <1>2 DEF Inv, TradesMatchOrders
  <2> QED
    BY <2>1, FinalStep
<1>3. ASSUME NEW i \in Ids, trades'[i] = trades[i]
      PROVE  trades'[i] # <<>> => /\ trades'[i][1].symbol = order'[i].symbol
                                  /\ trades'[i][1].transaction_type = order'[i].transaction_type
  BY <1>2, <1>3 DEF TradesDescribe
<1>4. CASE UNCHANGED trades
  BY <1>3, <1>4 DEF TradesDescribe
<1>5. CASE Reset
  BY <1>5 DEF Reset, TradesDescribe
<1>6. ASSUME NEW p \in Placements, NEW ltp \in Ltps, PlaceRecorded(p, ltp)
      PROVE  TradesDescribe'
  <2> DEFINE id == orderSeq + 1
  <2>1. PICK o \in Order : Added(id, o)
    BY <1>6, PlaceWrites DEF Inv
  <2>2. CASE o.status # "COMPLETE"
    BY <1>4, <2>1, <2>2 DEF Added
  <2>3. CASE o.status = "COMPLETE"
    <3>1. id \in Ids /\ trades' = [trades EXCEPT ![id] = <<BuildTrade(id, o)>>]
          /\ order' = [order EXCEPT ![id] = o]
      BY <2>1, <2>3 DEF Added
    <3>2. trades'[id] = <<BuildTrade(id, o)>> /\ order'[id] = o
      BY <1>1, <3>1
    <3>3. /\ <<BuildTrade(id, o)>>[1].symbol = o.symbol
          /\ <<BuildTrade(id, o)>>[1].transaction_type = o.transaction_type
      BY DEF BuildTrade
    <3>4. \A i \in Ids : i # id => trades'[i] = trades[i]
      BY <1>1, <3>1
    <3> HIDE DEF id
    <3> QED
      BY <1>3, <3>2, <3>3, <3>4 DEF TradesDescribe
  <2> QED
    BY <2>2, <2>3
<1>7. ASSUME Quiet \/ (\E r \in Requests : ModifyBody(r)) \/ (\E id \in Ids : CancelOrder(id))
      PROVE  UNCHANGED trades
  BY <1>7, ModifyWrites, CancelWrites DEF Inv, Quiet
<1> QED
  BY <1>4, <1>5, <1>6, <1>7, QuietSteps DEF Inv

\* Inv of Orders, and what the trades say.
Book == Inv /\ TradesDescribe

LEMMA BookAlways == Spec => []Book
<1>1. Init => TradesDescribe
  BY DEF Init, TradesDescribe
<1>2. Inv /\ TradesDescribe /\ [Next]_vars => TradesDescribe'
  BY DescribeStep
<1>3. Inv /\ TradesDescribe => Book
  BY DEF Book
<1> QED
  BY <1>1, <1>2, <1>3, InvAlways, PTL DEF Spec

-----------------------------------------------------------------------------
(* The groups of a position.                                               *)

Filled(s) == {i \in orders : order[i].status = "COMPLETE" /\ order[i].symbol = s}
Bought(s) == {i \in Filled(s) : order[i].transaction_type = "BUY"}
Sold(s) == Filled(s) \ Bought(s)

FilledQuantity(s) == [i \in Filled(s) |-> order[i].filled_quantity]
FilledValue(s) == [i \in Filled(s) |-> Value(order[i])]

LEMMA GroupIs ==
  ASSUME NEW s
  PROVE  LET g == Group(s) IN
         /\ g.buy_quantity = SumFunctionOnSet(FilledQuantity(s), Bought(s))
         /\ g.buy_value = SumFunctionOnSet(FilledValue(s), Bought(s))
         /\ g.sell_quantity = SumFunctionOnSet(FilledQuantity(s), Sold(s))
         /\ g.sell_value = SumFunctionOnSet(FilledValue(s), Sold(s))
BY DEF Group, Filled, Bought, Sold, FilledQuantity, FilledValue

\* What is filled is a finite set of issued orders, with whole quantities.
LEMMA FilledType ==
  ASSUME TypeOK, NEW s
  PROVE  /\ IsFiniteSet(Bought(s)) /\ IsFiniteSet(Sold(s))
         /\ \A i \in Filled(s) :
              /\ i \in Ids /\ i \in 1..orderSeq /\ order[i] \in Order
              /\ order[i].filled_quantity \in Nat /\ order[i].average_price \in Int
              /\ FilledQuantity(s)[i] = order[i].filled_quantity
              /\ FilledValue(s)[i] = order[i].filled_quantity * order[i].average_price
<1>1. orderSeq \in Nat /\ orderSeq <= MaxOrders /\ MaxOrders \in Nat /\ orders \subseteq 1..orderSeq
  BY OrdersAssumption DEF TypeOK
<1>2. IsFiniteSet(Filled(s))
  <2>1. IsFiniteSet(1..orderSeq)
    BY <1>1, FS_Interval
  <2>2. Filled(s) \in SUBSET (1..orderSeq)
    BY <1>1 DEF Filled
  <2> QED
    BY <2>1, <2>2, FS_Subset
<1>3. Bought(s) \in SUBSET Filled(s) /\ Sold(s) \in SUBSET Filled(s)
  BY DEF Bought, Sold
<1>4. IsFiniteSet(Bought(s)) /\ IsFiniteSet(Sold(s))
  BY <1>2, <1>3, FS_Subset
<1>5. ASSUME NEW i \in Filled(s)
      PROVE  /\ i \in Ids /\ i \in 1..orderSeq /\ order[i] \in Order
             /\ order[i].filled_quantity \in Nat /\ order[i].average_price \in Int
  <2>1. i \in 1..orderSeq /\ i \in Ids
    BY <1>1 DEF Filled, Ids
  <2>2. order[i] \in Order
    BY <1>1, <2>1 DEF TypeOK
  <2> QED
    BY <2>1, <2>2 DEF Order, Snapshot, Quantity, Price
<1> QED
  BY <1>4, <1>5 DEF FilledQuantity, FilledValue, Value

\* The orders that count are those with a trade.
LEMMA TradesOfSide ==
  ASSUME Book, NEW s
  PROVE  TradesOf(s, "BUY") = Bought(s) /\ TradesOf(s, "SELL") = Sold(s)
<1>1. ASSUME NEW i \in Ids
      PROVE  /\ trades[i] # <<>> <=> i \in orders /\ order[i].status = "COMPLETE"
             /\ trades[i] # <<>> => /\ trades[i][1].symbol = order[i].symbol
                                    /\ trades[i][1].transaction_type = order[i].transaction_type
  BY DEF Book, Inv, TradesMatchOrders, TradesDescribe
<1>2. ASSUME NEW i \in orders
      PROVE  i \in Ids /\ order[i].transaction_type \in {"BUY", "SELL"}
  <2>1. i \in Ids /\ i \in 1..orderSeq
    BY OrdersAssumption DEF Book, Inv, TypeOK, Ids
  <2>2. order[i] \in Order
    BY <2>1 DEF Book, Inv, TypeOK
  <2> QED
    BY <2>1, <2>2 DEF Order, Snapshot, Side
<1> QED
  BY <1>1, <1>2 DEF TradesOf, Bought, Sold, Filled

OfSide(s, side) == IF side = "BUY" THEN Bought(s) ELSE Sold(s)

\* What the trade of a filled order adds to each of the sums.
LEMMA TradeOfFilled ==
  ASSUME Book, NEW s, NEW side \in {"BUY", "SELL"}
  PROVE  /\ TradesOf(s, side) = OfSide(s, side) /\ IsFiniteSet(OfSide(s, side))
         /\ \A i \in OfSide(s, side) :
              /\ trades[i][1].quantity = FilledQuantity(s)[i]
              /\ trades[i][1].quantity * trades[i][1].average_price = FilledValue(s)[i]
              /\ FilledQuantity(s)[i] \in Nat /\ FilledValue(s)[i] \in Int
              /\ trades[i][1].average_price \in Int
<1>1. TradesOf(s, side) = OfSide(s, side) /\ IsFiniteSet(OfSide(s, side))
  BY TradesOfSide, FilledType DEF OfSide, Book, Inv
<1>2. ASSUME NEW i \in OfSide(s, side)
      PROVE  /\ trades[i][1].quantity = order[i].filled_quantity
             /\ trades[i][1].average_price = order[i].average_price
             /\ order[i].filled_quantity \in Nat /\ order[i].average_price \in Int
             /\ FilledQuantity(s)[i] = order[i].filled_quantity
             /\ FilledValue(s)[i] = order[i].filled_quantity * order[i].average_price
  <2>1. i \in Ids /\ trades[i] # <<>> /\ i \in Filled(s)
    BY <1>1, <1>2 DEF TradesOf, OfSide, Bought, Sold
  <2> QED
    BY <2>1, FilledType DEF Book, Inv, TradesMatchOrders
<1>3. ASSUME NEW i \in OfSide(s, side)
      PROVE  /\ trades[i][1].quantity * trades[i][1].average_price = FilledValue(s)[i]
             /\ FilledValue(s)[i] \in Int
  <2> DEFINE q == order[i].filled_quantity
             v == order[i].average_price
  <2>1. q \in Int /\ v \in Int /\ FilledValue(s)[i] = q * v
        /\ trades[i][1].quantity = q /\ trades[i][1].average_price = v
    BY <1>2
  <2> HIDE DEF q, v
  <2>2. q * v \in Int
    BY <2>1
  <2> QED
    BY <2>1, <2>2
<1> QED
  BY <1>1, <1>2, <1>3

\* A sum over the trades of one side is one over the orders filled on it.
LEMMA TradedIs ==
  ASSUME Book, NEW s, NEW side \in {"BUY", "SELL"}, NEW f, NEW h, DOMAIN h = TradesOf(s, side),
         \A i \in OfSide(s, side) : h[i] = f[i]
  PROVE  SumFunction(h) = SumFunctionOnSet(f, OfSide(s, side))
<1>1. DOMAIN h = OfSide(s, side) /\ IsFiniteSet(OfSide(s, side))
  BY TradeOfFilled
<1> QED
  BY <1>1, SumAgree DEF SumFunction

Units(s, side) == SumFunctionOnSet(FilledQuantity(s), OfSide(s, side))
Worth(s, side) == SumFunctionOnSet(FilledValue(s), OfSide(s, side))

LEMMA GroupOfSides ==
  ASSUME NEW s
  PROVE  LET g == Group(s) IN
         /\ g.buy_quantity = Units(s, "BUY") /\ g.buy_value = Worth(s, "BUY")
         /\ g.sell_quantity = Units(s, "SELL") /\ g.sell_value = Worth(s, "SELL")
BY GroupIs DEF Units, Worth, OfSide

LEMMA SidesTraded ==
  ASSUME Book, NEW s, NEW side \in {"BUY", "SELL"}
  PROVE  /\ SumFunction([i \in TradesOf(s, side) |-> trades[i][1].quantity]) = Units(s, side)
         /\ SumFunction([i \in TradesOf(s, side) |->
              trades[i][1].quantity * trades[i][1].average_price]) = Worth(s, side)
<1> DEFINE units == [i \in TradesOf(s, side) |-> trades[i][1].quantity]
           worth == [i \in TradesOf(s, side) |-> trades[i][1].quantity * trades[i][1].average_price]
<1>1. /\ DOMAIN units = TradesOf(s, side) /\ DOMAIN worth = TradesOf(s, side)
      /\ \A i \in OfSide(s, side) :
           units[i] = FilledQuantity(s)[i] /\ worth[i] = FilledValue(s)[i]
  BY TradeOfFilled
<1> HIDE DEF units, worth
<1>2. SumFunction(units) = Units(s, side) /\ SumFunction(worth) = Worth(s, side)
  BY <1>1, TradedIs DEF Units, Worth
<1> QED
  BY <1>2 DEF units, worth

\* Whatever became of an order since it was filled, GET /portfolio/positions
\* adds up what GET /trades lists: quantities and values, bought and sold.
THEOREM PositionsAlwaysMatch == Spec => []PositionsMatchTrades
<1>1. Book => PositionsMatchTrades
  BY GroupOfSides, SidesTraded DEF PositionsMatchTrades, Traded
<1> QED
  BY <1>1, BookAlways, PTL

-----------------------------------------------------------------------------
(* Positions only grow.                                                    *)

\* As long as the orders stay, what was filled stays filled.
LEMMA FilledStays ==
  ASSUME Inv, [Next]_vars, orders \subseteq orders', NEW s
  PROVE  /\ Filled(s) \subseteq Filled(s)' /\ Bought(s) \subseteq Bought(s)'
         /\ Sold(s) \subseteq Sold(s)'
         /\ \A i \in Filled(s) : order'[i] = order[i]
<1>1. ASSUME NEW i \in Filled(s)
      PROVE  order'[i] = order[i]
  <2>1. i \in 1..orderSeq /\ order[i].status \in {"COMPLETE", "REJECTED"}
    BY FilledType DEF Inv, Filled
  <2> QED
    BY <2>1, FinalStep
<1> QED
  BY <1>1 DEF Filled, Bought, Sold

\* FilledType, as a state predicate: it holds before and after a step.
FilledFine ==
  \A s \in Listed :
    /\ IsFiniteSet(Bought(s)) /\ IsFiniteSet(Sold(s))
    /\ \A i \in Filled(s) : /\ order[i].filled_quantity \in Nat
                            /\ FilledQuantity(s)[i] = order[i].filled_quantity

LEMMA TypedIsFine == TypeOK => FilledFine
BY FilledType DEF FilledFine

LEMMA UnitsGrow ==
  ASSUME Inv, FilledFine, FilledFine', [Next]_vars, orders \subseteq orders',
         NEW s \in Listed, NEW side \in {"BUY", "SELL"}
  PROVE  Units(s, side) <= Units(s, side)'
<1> DEFINE was == OfSide(s, side)
           now == OfSide(s, side)'
           f == FilledQuantity(s)
           g == FilledQuantity(s)'
<1>1. was \in SUBSET now /\ IsFiniteSet(now) /\ IsFiniteSet(was)
  BY FilledStays DEF OfSide, FilledFine
<1>2. \A i \in now : g[i] \in Nat
  BY DEF FilledFine, OfSide, Bought, Sold
<1>3. \A i \in was : f[i] = g[i]
  <2>1. ASSUME NEW i \in was
        PROVE  f[i] = g[i]
    <3>1. i \in Filled(s) /\ i \in Filled(s)' /\ order'[i] = order[i]
      BY FilledStays DEF OfSide, Bought, Sold
    <3> QED
      BY <3>1 DEF FilledFine
  <2> QED
    BY <2>1
<1>4. Units(s, side) = SumFunctionOnSet(f, was) /\ Units(s, side)' = SumFunctionOnSet(g, now)
  BY DEF Units
<1> HIDE DEF was, now, f, g
<1>5. SumFunctionOnSet(f, was) = SumFunctionOnSet(g, was)
  BY <1>1, <1>3, SumAgree
<1>6. SumFunctionOnSet(g, was) <= SumFunctionOnSet(g, now)
  BY <1>1, <1>2, SumMonotone
<1> QED
  BY <1>4, <1>5, <1>6

LEMMA GroupUnits ==
  \A s \in Listed : /\ Group(s).buy_quantity = Units(s, "BUY")
                    /\ Group(s).sell_quantity = Units(s, "SELL")
BY GroupOfSides

\* Modifies, cancels and fills of other orders never take from a position: only
\* a reset does.
THEOREM PositionsAlwaysGrow == Spec => PositionsOnlyGrow
<1>1. TypeOK' => FilledFine'
  BY TypedIsFine, PTL
<1>2. (\A s \in Listed : /\ Group(s).buy_quantity = Units(s, "BUY")
                         /\ Group(s).sell_quantity = Units(s, "SELL"))'
  BY GroupUnits, PTL
<1>3. Inv /\ Inv' /\ [Next]_vars =>
        [orders \subseteq orders' =>
           \A s \in Listed :
             /\ Group(s).buy_quantity <= Group(s)'.buy_quantity
             /\ Group(s).sell_quantity <= Group(s)'.sell_quantity]_vars
  <2> SUFFICES ASSUME Inv, Inv', [Next]_vars, orders \subseteq orders', NEW s \in Listed
               PROVE  /\ Group(s).buy_quantity <= Group(s)'.buy_quantity
                      /\ Group(s).sell_quantity <= Group(s)'.sell_quantity
    OBVIOUS
  <2>1. FilledFine /\ FilledFine'
    BY <1>1, TypedIsFine DEF Inv
  <2>2. Units(s, "BUY") <= Units(s, "BUY")' /\ Units(s, "SELL") <= Units(s, "SELL")'
    BY <2>1, UnitsGrow
  <2>3. /\ Group(s).buy_quantity = Units(s, "BUY") /\ Group(s).sell_quantity = Units(s, "SELL")
        /\ Group(s)'.buy_quantity = Units(s, "BUY")' /\ Group(s)'.sell_quantity = Units(s, "SELL")'
    BY <1>2, GroupUnits
  <2> QED
    BY <2>2, <2>3
<1> QED
  BY <1>3, InvAlways, PTL DEF Spec, PositionsOnlyGrow

-----------------------------------------------------------------------------
(* Profit.                                                                 *)

LEMMA GainTraded ==
  ASSUME Book, NEW s, NEW side \in {"BUY", "SELL"}, NEW ltp \in Int
  PROVE  /\ Units(s, side) \in Int /\ Worth(s, side) \in Int
         /\ SumFunction([i \in TradesOf(s, side) |->
              trades[i][1].quantity * (ltp - trades[i][1].average_price)]) =
              Units(s, side) * ltp - Worth(s, side)
<1> DEFINE f == FilledQuantity(s)
           g == FilledValue(s)
           h == [i \in TradesOf(s, side) |->
                   trades[i][1].quantity * (ltp - trades[i][1].average_price)]
           set == OfSide(s, side)
<1>1. IsFiniteSet(set) /\ DOMAIN h = TradesOf(s, side) /\ DOMAIN h = set
  BY TradeOfFilled
<1>2. ASSUME NEW i \in set
      PROVE  f[i] \in Int /\ g[i] \in Int /\ h[i] = f[i] * ltp - g[i]
  <2> DEFINE q == trades[i][1].quantity
             v == trades[i][1].average_price
  <2>1. f[i] = q /\ g[i] = q * v /\ q \in Int /\ v \in Int /\ g[i] \in Int
    BY TradeOfFilled
  <2>2. h[i] = q * (ltp - v)
    BY <1>1
  <2> HIDE DEF q, v, f, g, h
  <2>3. q * (ltp - v) = q * ltp - q * v
    BY <2>1
  <2> QED
    BY <2>1, <2>2, <2>3
<1>3. Units(s, side) = SumFunctionOnSet(f, set) /\ Worth(s, side) = SumFunctionOnSet(g, set)
  BY DEF Units, Worth
<1> HIDE DEF f, g, h, set
<1>4. SumFunctionOnSet(f, set) \in Int /\ SumFunctionOnSet(g, set) \in Int
  BY <1>1, <1>2, SumSplit
<1>5. SumFunctionOnSet(h, set) = SumFunctionOnSet(f, set) * ltp - SumFunctionOnSet(g, set)
  BY <1>1, <1>2, SumLinear
<1> QED
  BY <1>1, <1>3, <1>4, <1>5 DEF SumFunction, h

Hundredths(x) == \E k \in Int : x = k * Cent

\* round(x, 2) is off by half a hundredth at most, and gives whole hundredths,
\* which it leaves alone.
LEMMA CentsNear ==
  ASSUME NEW x \in Int
  PROVE  /\ Cents(x) \in Int
         /\ 2 * Cents(x) <= 2 * x + Cent /\ 2 * Cents(x) >= 2 * x - Cent
         /\ Hundredths(Cents(x))
<1> DEFINE r == RoundHalfEven(x, Cent)
<1>1. Cent \in Int /\ Cent > 0
  BY PortfolioAssumption
<1>2. r \in Int /\ 2 * (Cent * r) <= 2 * x + Cent /\ 2 * (Cent * r) >= 2 * x - Cent
  BY <1>1, RoundNear
<1>3. Cents(x) = Cent * r
  BY DEF Cents
<1> HIDE DEF r
<1>4. Cent * r \in Int /\ Cent * r = r * Cent
  BY <1>1, <1>2
<1> QED
  BY <1>2, <1>3, <1>4 DEF Hundredths

LEMMA CentsExact ==
  ASSUME NEW k \in Int
  PROVE  Cents(k * Cent) = k * Cent
<1>1. Cent \in Int /\ Cent > 0
  BY PortfolioAssumption
<1>2. RoundHalfEven(k * Cent, Cent) = k
  BY <1>1, RoundExact
<1> QED
  BY <1>1, <1>2 DEF Cents

LEMMA CentsWhole ==
  ASSUME NEW x \in Int, x % Cent = 0
  PROVE  Cents(x) = x
<1>1. Cent \in Int /\ Cent > 0
  BY PortfolioAssumption
<1> DEFINE k == x \div Cent
<1>2. k \in Int /\ x = k * Cent
  <2>1. x \div Cent \in Int /\ x = Cent * (x \div Cent) + (x % Cent)
    BY <1>1, Division
  <2> HIDE DEF k
  <2>2. k \in Int /\ x = Cent * k
    BY <1>1, <2>1 DEF k
  <2> QED
    BY <1>1, <2>2
<1> HIDE DEF k
<1> QED
  BY <1>2, CentsExact

\* Sums of whole hundredths need no rounding.
LEMMA ValuesExact ==
  ASSUME NEW bv \in Int, NEW sv \in Int, NEW last \in Int, NEW q \in Int, NEW s,
         LotSize[s] \in Int, Hundredths(bv), Hundredths(sv), Hundredths(last)
  PROVE  /\ Cents(sv - bv) = sv - bv
         /\ Pnl(sv - bv, q, s, last) = (sv - bv) + q * last * LotSize[s]
<1> DEFINE lot == LotSize[s]
<1>1. PICK b \in Int : bv = b * Cent
  BY DEF Hundredths
<1>2. PICK c \in Int : sv = c * Cent
  BY DEF Hundredths
<1>3. PICK l \in Int : last = l * Cent
  BY DEF Hundredths
<1>4. Cent \in Int /\ lot \in Int
  BY PortfolioAssumption
<1> HIDE DEF lot
<1>5. sv - bv = (c - b) * Cent
  BY <1>1, <1>2, <1>4
<1> DEFINE w == q * lot
<1>6. w \in Int /\ q * last * lot = w * last
  BY <1>4
<1> HIDE DEF w
<1> DEFINE u == w * l
<1>7. u \in Int /\ w * last = u * Cent
  <2>1. w * (l * Cent) = (w * l) * Cent /\ w * l \in Int
    BY <1>4, <1>6
  <2> QED
    BY <1>3, <2>1
<1> HIDE DEF u
<1>8. (sv - bv) + q * last * lot = (c - b + u) * Cent
  BY <1>4, <1>5, <1>6, <1>7
<1>9. Cents((c - b) * Cent) = (c - b) * Cent /\ Cents((c - b + u) * Cent) = (c - b + u) * Cent
  BY <1>7, CentsExact
<1> QED
  BY <1>5, <1>8, <1>9 DEF Pnl, lot

\* Profit before and after the rounding of the values and of the last price.
LEMMA ProfitNear ==
  ASSUME NEW bv \in Int, NEW sv \in Int, NEW ltp \in Int, NEW q \in Int
  PROVE  2 * Magnitude(((Cents(sv) - Cents(bv)) + q * Cents(ltp)) - ((sv - bv) + q * ltp))
           <= Cent * (2 + Magnitude(q))
<1> DEFINE x == Cents(sv) - sv
           y == Cents(bv) - bv
           z == Cents(ltp) - ltp
<1>1. Cent \in Int /\ Cent > 0
  BY PortfolioAssumption
<1>2. /\ x \in Int /\ 2 * x <= Cent /\ 2 * x >= -Cent
      /\ y \in Int /\ 2 * y <= Cent /\ 2 * y >= -Cent
      /\ z \in Int /\ 2 * z <= Cent /\ 2 * z >= -Cent
  <2>1. ASSUME NEW a \in Int
        PROVE  LET e == Cents(a) - a IN e \in Int /\ 2 * e <= Cent /\ 2 * e >= -Cent
    <3> DEFINE c == Cents(a)
    <3>1. c \in Int /\ 2 * c <= 2 * a + Cent /\ 2 * c >= 2 * a - Cent
      BY CentsNear
    <3> HIDE DEF c
    <3>2. (c - a) \in Int /\ 2 * (c - a) <= Cent /\ 2 * (c - a) >= -Cent
      BY <1>1, <3>1
    <3> QED
      BY <3>2 DEF c
  <2> QED
    BY <2>1
<1>3. Cents(sv) = sv + x /\ Cents(bv) = bv + y /\ Cents(ltp) = ltp + z
  BY CentsNear
<1> HIDE DEF x, y, z
<1> DEFINE p == q * ltp
           d == q * z
           m == Cent * Magnitude(q)
<1>4. p \in Int /\ d \in Int /\ q * (ltp + z) = p + d
  BY <1>2
<1>5. m \in Int /\ 2 * d <= m /\ 2 * d >= -m
  <2>1. CASE q >= 0
    <3>1. q * (2 * z) <= q * Cent /\ q * (2 * z) >= q * (-Cent)
      BY <1>1, <1>2, <2>1
    <3>2. q * (2 * z) = 2 * d /\ q * (-Cent) = -(q * Cent) /\ q * Cent = m
      BY <1>1, <1>2, <2>1 DEF Magnitude
    <3> QED
      BY <1>1, <3>1, <3>2
  <2>2. CASE q < 0
    <3> DEFINE n == -q
    <3>1. n \in Int /\ n > 0 /\ Magnitude(q) = n
      BY <2>2 DEF Magnitude
    <3>2. d = -(n * z)
      BY <1>2
    <3> HIDE DEF n, d
    <3>3. n * (2 * z) <= n * Cent /\ n * (2 * z) >= n * (-Cent)
      BY <1>1, <1>2, <3>1
    <3>4. n * (2 * z) = 2 * (n * z) /\ n * (-Cent) = -(n * Cent) /\ n * Cent = m
      BY <1>1, <1>2, <3>1
    <3>5. n * z \in Int /\ n * Cent \in Int
      BY <1>1, <1>2, <3>1
    <3> QED
      BY <3>2, <3>3, <3>4, <3>5
  <2> QED
    BY <2>1, <2>2
<1>6. Cent * (2 + Magnitude(q)) = 2 * Cent + m
  <2>1. Magnitude(q) \in Int
    BY DEF Magnitude
  <2> QED
    BY <1>1, <2>1
<1> HIDE DEF p, d, m
<1>7. (((sv + x) - (bv + y)) + (p + d)) - ((sv - bv) + p) = x - y + d
  BY <1>2, <1>4
<1>8. 2 * Magnitude(x - y + d) <= 2 * Cent + m
  BY <1>1, <1>2, <1>4, <1>5 DEF Magnitude
<1>9. ((Cents(sv) - Cents(bv)) + q * Cents(ltp)) - ((sv - bv) + q * ltp) = x - y + d
  BY <1>3, <1>4, <1>7, Zenon DEF p
<1> QED
  BY <1>6, <1>8, <1>9, Zenon

\* Where a bought position breaks even.
LEMMA AverageBreaksEven ==
  ASSUME NEW bv \in Int, NEW sv \in Int, bv >= sv, NEW q \in Int, q > 0
  PROVE  2 * Magnitude(q * Quotient(Magnitude(bv - sv), q) + (sv - bv)) <= Cent * q
<1> DEFINE n == bv - sv
           m == Cent * q
           r == RoundHalfEven(n, m)
<1>1. n \in Int /\ n >= 0 /\ Cent \in Int /\ Cent > 0
  BY PortfolioAssumption
<1>2. Magnitude(bv - sv) = n
  BY <1>1 DEF Magnitude
<1>3. Quotient(n, q) = Cent * r
  BY DEF Quotient
<1>4. m \in Int /\ m > 0
  BY <1>1
<1> HIDE DEF n, m
<1>5. r \in Int /\ 2 * (m * r) <= 2 * n + m /\ 2 * (m * r) >= 2 * n - m
  BY <1>1, <1>4, RoundNear
<1> HIDE DEF r
<1>6. q * (Cent * r) = m * r /\ m * r \in Int
  BY <1>1, <1>5 DEF m
<1>7. sv - bv = -n
  BY DEF n
<1> DEFINE x == m * r
<1> HIDE DEF x
<1>8. 2 * Magnitude(x + (sv - bv)) <= m
  <2>1. x \in Int /\ 2 * x <= 2 * n + m /\ 2 * x >= 2 * n - m
    BY <1>5, <1>6 DEF x
  <2> QED
    BY <1>1, <1>4, <1>7, <2>1 DEF Magnitude
<1> QED
  BY <1>2, <1>3, <1>6, <1>8 DEF x, m

\* The profit of a position is what its trades have gained, to half a hundredth
\* for each side and for each unit open, and exactly where values and last price
\* are whole hundredths, for any orders and prices -- unless it is open in a
\* symbol whose lot is not one unit.
THEOREM PnlAlwaysMarkToMarket == Spec => []PnlIsMarkToMarket
<1>1. ASSUME Book, NEW s \in Listed, NEW ltp \in Ltps
      PROVE  LET g == Group(s)
                 p == Position(s, ltp)
                 Gain(t) == t.quantity * (ltp - t.average_price)
                 gained == Traded(Gain, s, "BUY") - Traded(Gain, s, "SELL")
                 whole == \A x \in {g.buy_value, g.sell_value, ltp} : x % Cent = 0
             IN /\ LotSize[s] = 1 \/ p.quantity = 0 =>
                     /\ 2 * Magnitude(p.pnl - gained) <= Cent * (2 + Magnitude(p.quantity))
                     /\ whole => p.pnl = gained
                /\ p.quantity > 0 /\ p.buy_value >= p.sell_value =>
                     2 * Magnitude(p.quantity * p.average_price + p.value) <= Cent * p.quantity
  <2> DEFINE p == Position(s, ltp)
             bq == Units(s, "BUY")
             sq == Units(s, "SELL")
             q == bq - sq
             bv == Worth(s, "BUY")
             sv == Worth(s, "SELL")
             bc == Cents(bv)
             sc == Cents(sv)
             last == Cents(ltp)
             lot == LotSize[s]
             Gained(side) == SumFunction([i \in TradesOf(s, side) |->
                               trades[i][1].quantity * (ltp - trades[i][1].average_price)])
  <2>1. /\ bq \in Int /\ sq \in Int /\ bv \in Int /\ sv \in Int /\ ltp \in Int /\ lot \in Int
        /\ Gained("BUY") = bq * ltp - bv /\ Gained("SELL") = sq * ltp - sv
    <3>1. ltp \in Int
      BY OrdersAssumption
    <3>2. lot \in Int
      BY PortfolioAssumption
    <3>3. ASSUME NEW side \in {"BUY", "SELL"}
          PROVE  /\ Units(s, side) \in Int /\ Worth(s, side) \in Int
                 /\ Gained(side) = Units(s, side) * ltp - Worth(s, side)
      BY <1>1, <3>1, GainTraded
    <3> QED
      BY <3>1, <3>2, <3>3
  <2>2. Group(s).buy_value = bv /\ Group(s).sell_value = sv
    BY GroupOfSides
  <2>3. /\ p.quantity = q /\ p.buy_value = bc /\ p.sell_value = sc /\ p.value = Cents(sc - bc)
        /\ p.average_price = Quotient(Magnitude(bc - sc), q)
        /\ p.pnl = Pnl(sc - bc, q, s, last)
    BY GroupOfSides DEF Position
  <2> HIDE DEF p, Gained, bq, sq, bv, sv
  <2>4. bc \in Int /\ sc \in Int /\ last \in Int /\ q \in Int
    BY <2>1, CentsNear
  <2>5. p.value = sc - bc /\ p.pnl = (sc - bc) + q * last * lot
    <3>1. Hundredths(bc) /\ Hundredths(sc) /\ Hundredths(last)
      BY <2>1, CentsNear
    <3> HIDE DEF bc, sc, last, q
    <3>2. LotSize[s] \in Int
      BY <2>1
    <3>3. Cents(sc - bc) = sc - bc
      BY <2>4, <3>1, <3>2, ValuesExact
    <3>4. Pnl(sc - bc, q, s, last) = (sc - bc) + q * last * LotSize[s]
      BY <2>4, <3>1, <3>2, ValuesExact
    <3> QED
      BY <2>3, <3>3, <3>4
  <2>6. Gained("BUY") - Gained("SELL") = (sv - bv) + q * ltp
    <3>1. q * ltp = bq * ltp - sq * ltp /\ bq * ltp \in Int /\ sq * ltp \in Int
      BY <2>1
    <3> QED
      BY <2>1, <3>1
  <2> HIDE DEF q, lot
  <2>7. lot = 1 \/ q = 0 => p.pnl = (sc - bc) + q * last
    <3> HIDE DEF bc, sc, last
    <3>1. q * last \in Int
      BY <2>4
    <3>2. lot = 1 => q * last * lot = q * last
      BY <3>1
    <3>3. q = 0 => q * last * lot = 0 /\ q * last = 0
      BY <2>1, <2>4
    <3> QED
      BY <2>5, <3>2, <3>3
  <2>8. lot = 1 \/ q = 0 =>
          2 * Magnitude(p.pnl - (Gained("BUY") - Gained("SELL"))) <= Cent * (2 + Magnitude(q))
    BY <2>1, <2>4, <2>6, <2>7, ProfitNear
  <2>9. (lot = 1 \/ q = 0) /\ (\A x \in {bv, sv, ltp} : x % Cent = 0) =>
          p.pnl = Gained("BUY") - Gained("SELL")
    <3> SUFFICES ASSUME lot = 1 \/ q = 0, \A x \in {bv, sv, ltp} : x % Cent = 0
                 PROVE  p.pnl = Gained("BUY") - Gained("SELL")
      OBVIOUS
    <3>1. bc = bv /\ sc = sv /\ last = ltp
      BY <2>1, CentsWhole
    <3> QED
      BY <2>6, <2>7, <3>1
  <2>10. q > 0 /\ bc >= sc =>
           2 * Magnitude(q * p.average_price + p.value) <= Cent * q
    <3> HIDE DEF bc, sc, last
    <3> QED
      BY <2>3, <2>4, <2>5, AverageBreaksEven
  <2> HIDE DEF bc, sc, last
  <2>11. lot = 1 \/ p.quantity = 0 =>
           /\ 2 * Magnitude(p.pnl - (Gained("BUY") - Gained("SELL")))
                <= Cent * (2 + Magnitude(p.quantity))
           /\ (\A x \in {bv, sv, ltp} : x % Cent = 0) => p.pnl = Gained("BUY") - Gained("SELL")
    BY <2>3, <2>8, <2>9
  <2>12. p.quantity > 0 /\ p.buy_value >= p.sell_value =>
           2 * Magnitude(p.quantity * p.average_price + p.value) <= Cent * p.quantity
    BY <2>3, <2>10
  <2> QED
    BY <2>2, <2>11, <2>12 DEF p, lot, Gained, Traded
<1>2. Book => PnlIsMarkToMarket
  BY <1>1 DEF PnlIsMarkToMarket
<1> QED
  BY <1>2, BookAlways, PTL
=============================================================================
