------------------------------- MODULE Market -------------------------------
(***************************************************************************)
(* The price generator (market/generator.py): per instrument a bounded     *)
(* random walk with its day range, volume, open interest and depth book,   *)
(* all driven by one random source that a reset seeds again.               *)
(*                                                                         *)
(* Prices are integers in a unit that divides the tick sizes, which may be *)
(* any, and the fourth decimal of a price, to which prices are rounded.    *)
(* The arithmetic before a rounding is exact, where that of floats may tip *)
(* a tie.  What the random source answers depends on its seed and on       *)
(* everything drawn from it before: on the sequence of instruments stepped *)
(* since it was seeded.                                                    *)
(***************************************************************************)
EXTENDS Rounding, Sequences

CONSTANTS
  Tokens,           \* the instruments of the configuration
  Instrument,       \* token -> is_index, tick_size, lot_size, start_price, scale
  Grain,            \* price units in the fourth decimal of a price
  Seeds,            \* values of config.market.seed
  Draw(_, _, _),    \* what a step draws: seed, tokens stepped before, token
  Now,              \* int(time.time()); nothing modelled depends on it
  MaxSteps          \* bound: steps between two resets

DEPTH_LEVELS == 5
Positive == Nat \ {0}
Level == [quantity: Positive, price: Int, orders: Positive]

\* gauss is in thousandths of the price.
Drawn ==
  [gauss: Int, ltq: Positive, buy: Positive, sell: Positive, oi: Nat,
   depth: [1..2 * DEPTH_LEVELS -> [quantity: Positive, orders: Positive]]]

ASSUME MarketAssumption ==
  /\ Tokens \subseteq Nat
  /\ Instrument \in [Tokens -> [is_index: BOOLEAN, tick_size: Positive, lot_size: Positive,
                                start_price: Positive, scale: Positive]]
  /\ Grain \in Positive
  /\ Now \in Nat /\ MaxSteps \in Nat

Histories == UNION {[1..n -> Tokens] : n \in 0..MaxSteps}

ASSUME DrawAssumption ==
  \A s \in Seeds, ts \in Histories, t \in Tokens : Draw(s, ts, t) \in Drawn

VARIABLES
  market,           \* _state: token -> the instrument's state dict
  drawn,            \* _rng: the tokens stepped since it was seeded
  seed

marketVars == <<market, drawn, seed>>

Greatest(a, b) == IF a >= b THEN a ELSE b
Least(a, b) == IF a <= b THEN a ELSE b

\* round(x, 4)
FourDecimals(x) == Grain * RoundHalfEven(x, Grain)

\* _round_to_tick, of a price in thousandths of a unit.  The outcome is a
\* multiple of the tick only if the tick has no fifth decimal.
RoundToTick(t, price) ==
  LET tick == Instrument[t].tick_size IN
  FourDecimals(tick * RoundHalfEven(price, 1000 * tick))

InitState(t) ==
  LET sp == Instrument[t].start_price IN
  [last_price |-> sp, open |-> sp, high |-> sp, low |-> sp, close |-> sp, volume |-> 0,
   last_traded_quantity |-> 0, average_traded_price |-> sp,
   total_buy_quantity |-> 0, total_sell_quantity |-> 0,
   oi |-> 0, oi_day_high |-> 0, oi_day_low |-> 0,
   last_trade_time |-> 0, exchange_timestamp |-> 0, bids |-> <<>>, offers |-> <<>>]

MarketInit ==
  /\ seed \in Seeds
  /\ market = [t \in Tokens |-> InitState(t)]
  /\ drawn = <<>>

-----------------------------------------------------------------------------
(* step                                                                    *)

\* Mutant of Walk: the price is not kept in its band.
WalkFree(t, last, gauss) == RoundToTick(t, last * (1000 + gauss))

\* The price moves by its draw, is kept within a fifth of the start price, and
\* then rounded to a tick.
Walk(t, last, gauss) ==
  LET sp == Instrument[t].start_price IN
  RoundToTick(t, Least(Greatest(last * (1000 + gauss), 800 * sp), 1200 * sp))

\* Mutant of Offer: one tick too close.
OfferFromZero(t, ltp, l) == RoundToTick(t, 1000 * (ltp + Instrument[t].tick_size * (l - 1)))

Bid(t, ltp, l) ==
  LET tick == Instrument[t].tick_size IN
  RoundToTick(t, 1000 * Greatest(ltp - tick * l, tick))
Offer(t, ltp, l) == RoundToTick(t, 1000 * (ltp + Instrument[t].tick_size * l))

LevelOf(t, price, d) ==
  [quantity |-> d.quantity * Instrument[t].lot_size, price |-> price, orders |-> d.orders]
Bids(t, ltp, d) ==
  [l \in 1..DEPTH_LEVELS |-> LevelOf(t, Bid(t, ltp, l), d.depth[l])]
Offers(t, ltp, d) ==
  [l \in 1..DEPTH_LEVELS |-> LevelOf(t, Offer(t, ltp, l), d.depth[DEPTH_LEVELS + l])]

\* Mutant of Move: the range is that of the price before.
MoveLate(st, price) ==
  [st EXCEPT !.last_price = price, !.high = Greatest(@, st.last_price),
             !.low = Least(@, st.last_price),
             !.last_trade_time = Now, !.exchange_timestamp = Now]

Move(st, price) ==
  [st EXCEPT !.last_price = price, !.high = Greatest(@, price), !.low = Least(@, price),
             !.last_trade_time = Now, !.exchange_timestamp = Now]

\* Mutant of DayLow: the initial 0 counts.
DayLowPlain(low, oi) == Least(low, oi)

\* A day low of 0 counts as not set yet.
DayLow(low, oi) == IF low = 0 THEN oi ELSE Least(low, oi)

\* Mutant of VolumeAfter: the volume is that of the last trade.
VolumeOfTrade(volume, ltq) == ltq
VolumeAfter(volume, ltq) == volume + ltq

Trade(t, st, price, d) ==
  LET ltq == d.ltq * Instrument[t].lot_size IN
  [st EXCEPT !.last_traded_quantity = ltq, !.volume = VolumeAfter(@, ltq),
             !.average_traded_price = RoundToTick(t, 500 * (@ + price)),
             !.total_buy_quantity = d.buy, !.total_sell_quantity = d.sell,
             !.oi = d.oi, !.oi_day_high = Greatest(@, d.oi), !.oi_day_low = DayLow(@, d.oi),
             !.bids = Bids(t, price, d), !.offers = Offers(t, price, d)]

Step(t, st, d) ==
  LET price == Walk(t, st.last_price, d.gauss)
      moved == Move(st, price)
  IN IF Instrument[t].is_index THEN moved ELSE Trade(t, moved, price, d)

\* The state of t after it is stepped as the k-th of the sequence ts.
Stepped(ts, k) == Step(ts[k], market[ts[k]], Draw(seed, drawn \o SubSeq(ts, 1, k - 1), ts[k]))

\* The instruments of ts, each once, are stepped in their order.
Advance(ts) ==
  /\ Len(drawn) + Len(ts) <= MaxSteps
  /\ market' = [t \in Tokens |->
                  IF \E k \in DOMAIN ts : ts[k] = t
                  THEN Stepped(ts, CHOOSE k \in DOMAIN ts : ts[k] = t)
                  ELSE market[t]]
  /\ drawn' = drawn \o ts
  /\ UNCHANGED seed

\* MarketGenerator.reset
Reseed ==
  /\ market' = [t \in Tokens |-> InitState(t)]
  /\ drawn' = <<>>
  /\ UNCHANGED seed

-----------------------------------------------------------------------------
(* Types and safety.                                                       *)

State ==
  [last_price: Nat, open: Positive, high: Positive, low: Nat, close: Positive, volume: Nat,
   last_traded_quantity: Nat, average_traded_price: Nat,
   total_buy_quantity: Nat, total_sell_quantity: Nat,
   oi: Nat, oi_day_high: Nat, oi_day_low: Nat,
   last_trade_time: Nat, exchange_timestamp: Nat, bids: Seq(Level), offers: Seq(Level)]

\* Prices and quantities never become negative.
MarketTypeOK ==
  /\ market \in [Tokens -> State]
  /\ drawn \in Histories
  /\ seed \in Seeds

\* The walk is clamped before it is rounded, to a tick and then to the fourth
\* decimal: a price may leave the band of a fifth around the start price, but
\* by no more than half a tick and half a fourth decimal, and never falls to
\* zero unless one of the two is larger than the start price.
PriceStaysInBand ==
  \A t \in Tokens :
    LET i == Instrument[t]
        p == market[t].last_price
        slack == 500 * (i.tick_size + Grain)
    IN /\ 1000 * p + slack >= 800 * i.start_price
       /\ 1000 * p - slack <= 1200 * i.start_price
       /\ i.tick_size <= i.start_price /\ Grain <= i.start_price => p > 0

\* The states the walk has gone through since it was seeded, from the steps
\* alone: Replayed[n] is the market after the first n of them.
Replayed ==
  LET run[n \in 0..Len(drawn)] ==
        IF n = 0 THEN [t \in Tokens |-> InitState(t)]
        ELSE [run[n - 1] EXCEPT
                ![drawn[n]] = Step(drawn[n], @, Draw(seed, SubSeq(drawn, 1, n - 1), drawn[n]))]
  IN [n \in 0..Len(drawn) |-> run[n]]

\* generator.py:1 and market.py:8-11: the walk is seeded and deterministic, and
\* REST reads do not perturb it: the market is a function of the seed and of
\* which instruments were stepped since the last reset, whoever asked for the
\* steps, however they interleave with quotes, and whatever came before a reset.
Reproducible == market = Replayed[Len(drawn)]

\* The states t was in since the reset, the first one included.
Past(t) == {n \in 0..Len(drawn) : n = 0 \/ drawn[n] = t}

\* The running day range is the range of the prices there have been since the
\* reset, whichever connections stepped the walk.
DayRangeIsExact ==
  LET r == Replayed IN
  \A t \in Tokens :
    /\ \A n \in Past(t) : r[n][t].last_price \in market[t].low..market[t].high
    /\ \E n \in Past(t) : r[n][t].last_price = market[t].high
    /\ \E n \in Past(t) : r[n][t].last_price = market[t].low

\* The running range of the open interest is its range since the reset, but
\* the low is only right if no step has drawn an open interest of zero.
OiRange ==
  LET r == Replayed IN
  \A t \in Tokens :
    LET ois == {r[n][t].oi : n \in Past(t) \ {0}} IN
    ois # {} /\ ~Instrument[t].is_index =>
      /\ market[t].oi_day_high \in ois /\ \A oi \in ois : oi <= market[t].oi_day_high
      /\ 0 \notin ois => market[t].oi_day_low \in ois /\ \A oi \in ois : oi >= market[t].oi_day_low

\* No crossed book: offers ascend from the price and bids descend, whatever the
\* tick.  If a tick is not finer than the fourth decimal, the offers do so
\* strictly and from above the price, and the bids stay above zero; strictly
\* below the price and below each other only as long as the price is high
\* enough for a tick, or for five, below it.
BookStraddlesLast ==
  \A t \in Tokens : market[t].bids # <<>> =>
    LET st == market[t]
        tick == Instrument[t].tick_size
        bid(l) == st.bids[l].price
        offer(l) == st.offers[l].price
        levels == 1..DEPTH_LEVELS
    IN /\ \A l \in levels : offer(l) >= st.last_price
       /\ \A l, m \in levels : l < m => offer(l) <= offer(m) /\ bid(l) >= bid(m)
       /\ Grain <= tick =>
            /\ \A l \in levels : offer(l) > st.last_price /\ bid(l) > 0
            /\ \A l, m \in levels : l < m => offer(l) < offer(m)
            /\ st.last_price > FourDecimals(tick) => bid(1) < st.last_price
            /\ st.last_price > FourDecimals(DEPTH_LEVELS * tick) =>
                 \A l, m \in levels : l < m => bid(l) > bid(m)
=============================================================================
