---------------------------- MODULE Stream_proofs ----------------------------
(***************************************************************************)
(* Proofs about the walk, for every instrument, seed and way to draw: how  *)
(* far a price can go, what the depth book looks like, and how near the    *)
(* prices of a quote's book are to those on the wire; that the walk is the *)
(* fold of what was drawn, and its ranges those of the states it passed;   *)
(* and that what a client holds has the documented fields and lies within  *)
(* the day.                                                                *)
(***************************************************************************)
EXTENDS Stream, SequenceTheorems, Lemmas

-----------------------------------------------------------------------------
(* Rounding.                                                               *)

\* The instrument of a token, as the facts about prices need it.
LEMMA InstrumentType ==
  ASSUME NEW t \in Tokens
  PROVE  /\ Instrument[t].tick_size \in Positive /\ Instrument[t].lot_size \in Positive
         /\ Instrument[t].start_price \in Positive /\ Instrument[t].is_index \in BOOLEAN
BY MarketAssumption

LEMMA GrainType == Grain \in Int /\ Grain > 0
BY MarketAssumption DEF Positive

\* Rounding to four decimals is off by half a fourth decimal at most, gives a
\* multiple of it, ...
LEMMA FourDecimalsNear ==
  ASSUME NEW x \in Int
  PROVE  /\ FourDecimals(x) \in Int
         /\ 2 * FourDecimals(x) <= 2 * x + Grain
         /\ 2 * FourDecimals(x) >= 2 * x - Grain
         /\ \E k \in Int : FourDecimals(x) = Grain * k
<1> DEFINE k == RoundHalfEven(x, Grain)
<1>1. k \in Int /\ 2 * (Grain * k) <= 2 * x + Grain /\ 2 * (Grain * k) >= 2 * x - Grain
  BY GrainType, RoundNear
<1>2. FourDecimals(x) = Grain * k
  BY DEF FourDecimals
<1> HIDE DEF k
<1>3. Grain * k \in Int
  BY <1>1, GrainType
<1> QED
  BY <1>1, <1>2, <1>3

\* ... keeps the order, ...
LEMMA FourDecimalsMonotone ==
  ASSUME NEW x \in Int, NEW y \in Int, x <= y
  PROVE  FourDecimals(x) <= FourDecimals(y)
<1> DEFINE j == RoundHalfEven(x, Grain)
           k == RoundHalfEven(y, Grain)
<1>1. j \in Int /\ k \in Int /\ j <= k
  BY GrainType, RoundNear, RoundMonotone
<1>2. FourDecimals(x) = Grain * j /\ FourDecimals(y) = Grain * k
  BY DEF FourDecimals
<1> HIDE DEF j, k
<1>3. Grain * j <= Grain * k
  BY <1>1, GrainType
<1> QED
  BY <1>2, <1>3

\* ... and leaves a price of four decimals alone.
LEMMA FourDecimalsExact ==
  ASSUME NEW k \in Int
  PROVE  FourDecimals(Grain * k) = Grain * k
<1>1. Grain * k = k * Grain
  BY GrainType
<1>2. RoundHalfEven(k * Grain, Grain) = k
  BY GrainType, RoundExact
<1> QED
  BY <1>1, <1>2 DEF FourDecimals

\* A price in thousandths goes to a nearest multiple of the tick, and then to
\* four decimals.
LEMMA RoundToTickNearest ==
  ASSUME NEW t \in Tokens, NEW x \in Int
  PROVE  LET tick == Instrument[t].tick_size
             k == RoundHalfEven(x, 1000 * tick)
         IN /\ k \in Int /\ RoundToTick(t, x) = FourDecimals(tick * k)
            /\ 1000 * (tick * k) <= x + 500 * tick
            /\ 1000 * (tick * k) >= x - 500 * tick
<1> DEFINE tick == Instrument[t].tick_size
           m == 1000 * tick
           k == RoundHalfEven(x, m)
<1>1. tick \in Int /\ m \in Int /\ m > 0
  BY InstrumentType DEF Positive
<1>2. k \in Int /\ 2 * (m * k) <= 2 * x + m /\ 2 * (m * k) >= 2 * x - m
  <2> HIDE DEF m
  <2> QED
    BY <1>1, RoundNear
<1>3. RoundToTick(t, x) = FourDecimals(tick * k)
  BY DEF RoundToTick
<1> HIDE DEF k, tick
<1>4. (1000 * tick) * k = 1000 * (tick * k) /\ tick * k \in Int
  BY <1>1, <1>2
<1> QED
  BY <1>1, <1>2, <1>3, <1>4 DEF tick, k

\* The outcome is off by half a tick and half a fourth decimal at most.
LEMMA RoundToTickNear ==
  ASSUME NEW t \in Tokens, NEW x \in Int
  PROVE  /\ RoundToTick(t, x) \in Int
         /\ 1000 * RoundToTick(t, x) <= x + 500 * (Instrument[t].tick_size + Grain)
         /\ 1000 * RoundToTick(t, x) >= x - 500 * (Instrument[t].tick_size + Grain)
         /\ \E k \in Int : RoundToTick(t, x) = FourDecimals(Instrument[t].tick_size * k)
<1> DEFINE tick == Instrument[t].tick_size
           k == RoundHalfEven(x, 1000 * tick)
<1>1. /\ k \in Int /\ RoundToTick(t, x) = FourDecimals(tick * k)
      /\ 1000 * (tick * k) <= x + 500 * tick /\ 1000 * (tick * k) >= x - 500 * tick
  BY RoundToTickNearest
<1>2. tick \in Int
  BY InstrumentType DEF Positive
<1> HIDE DEF k, tick
<1> DEFINE y == tick * k
<1>3. y \in Int
  BY <1>1, <1>2
<1>4. 1000 * y <= x + 500 * tick /\ 1000 * y >= x - 500 * tick
  BY <1>1
<1>5. RoundToTick(t, x) = FourDecimals(y)
  BY <1>1
<1>6. \E j \in Int : RoundToTick(t, x) = FourDecimals(tick * j)
  BY <1>1
<1> HIDE DEF y
<1>7. /\ FourDecimals(y) \in Int
      /\ 2 * FourDecimals(y) <= 2 * y + Grain /\ 2 * FourDecimals(y) >= 2 * y - Grain
  BY <1>3, FourDecimalsNear
<1> QED
  BY <1>2, <1>3, <1>4, <1>5, <1>6, <1>7, GrainType DEF tick

LEMMA RoundToTickMonotone ==
  ASSUME NEW t \in Tokens, NEW x \in Int, NEW y \in Int, x <= y
  PROVE  RoundToTick(t, x) <= RoundToTick(t, y)
<1> DEFINE tick == Instrument[t].tick_size
           j == RoundHalfEven(x, 1000 * tick)
           k == RoundHalfEven(y, 1000 * tick)
<1>1. tick \in Int /\ tick > 0 /\ 1000 * tick \in Int /\ 1000 * tick > 0
  BY InstrumentType DEF Positive
<1>2. /\ j \in Int /\ RoundToTick(t, x) = FourDecimals(tick * j)
      /\ k \in Int /\ RoundToTick(t, y) = FourDecimals(tick * k)
  BY RoundToTickNearest
<1>3. j <= k
  <2> DEFINE m == 1000 * tick
  <2>1. m \in Int /\ m > 0
    BY <1>1
  <2> HIDE DEF m
  <2>2. RoundHalfEven(x, m) <= RoundHalfEven(y, m)
    BY <2>1, RoundMonotone
  <2> QED
    BY <2>2 DEF m
<1> HIDE DEF j, k, tick
<1>4. tick * j <= tick * k /\ tick * j \in Int /\ tick * k \in Int
  BY <1>1, <1>2, <1>3
<1> QED
  BY <1>2, <1>4, FourDecimalsMonotone

\* A price that is not negative stays so.
LEMMA RoundToTickNat ==
  ASSUME NEW t \in Tokens, NEW x \in Nat
  PROVE  RoundToTick(t, x) \in Nat
<1> DEFINE tick == Instrument[t].tick_size
           m == 1000 * tick
<1>1. tick \in Int /\ m \in Int /\ m > 0
  BY InstrumentType DEF Positive
<1>2. RoundHalfEven(0, m) = 0
  <2> HIDE DEF m
  <2>1. 0 * m = 0 /\ RoundHalfEven(0 * m, m) = 0
    BY <1>1, RoundExact
  <2> QED
    BY <2>1
<1>3. RoundToTick(t, 0) = FourDecimals(tick * 0)
  BY <1>2 DEF RoundToTick
<1> HIDE DEF m, tick
<1>4. tick * 0 = 0 /\ Grain * 0 = 0
  BY <1>1, GrainType
<1>5. RoundToTick(t, 0) = 0
  BY <1>3, <1>4, FourDecimalsExact
<1>6. RoundToTick(t, 0) <= RoundToTick(t, x) /\ RoundToTick(t, x) \in Int
  BY RoundToTickMonotone, RoundToTickNear
<1> QED
  BY <1>5, <1>6

-----------------------------------------------------------------------------
(* One step of an instrument.                                              *)

\* What PriceStaysInBand says of one price, and that it is a natural number.
InBand(t, p) ==
  LET i == Instrument[t]
      slack == 500 * (i.tick_size + Grain)
  IN /\ p \in Nat
     /\ 1000 * p + slack >= 800 * i.start_price
     /\ 1000 * p - slack <= 1200 * i.start_price
     /\ i.tick_size <= i.start_price /\ Grain <= i.start_price => p > 0

\* What a step sets the price to, is in the band and a rounded multiple of the
\* tick.
LEMMA WalkInBand ==
  ASSUME NEW t \in Tokens, NEW last \in Nat, NEW gauss \in Int
  PROVE  /\ Walk(t, last, gauss) \in Nat /\ InBand(t, Walk(t, last, gauss))
         /\ \E k \in Int : Walk(t, last, gauss) = FourDecimals(Instrument[t].tick_size * k)
<1> DEFINE tick == Instrument[t].tick_size
           sp == Instrument[t].start_price
           x == Least(Greatest(last * (1000 + gauss), 800 * sp), 1200 * sp)
           p == RoundToTick(t, x)
           k == RoundHalfEven(x, 1000 * tick)
<1>1. tick \in Int /\ tick > 0 /\ sp \in Int /\ sp > 0
  BY InstrumentType DEF Positive
<1>2. last * (1000 + gauss) \in Int
  OBVIOUS
<1>3. x \in Nat /\ 800 * sp <= x /\ x <= 1200 * sp
  BY <1>1, <1>2 DEF Least, Greatest
<1>4. Walk(t, last, gauss) = p
  BY DEF Walk
<1> HIDE DEF x
<1>5. /\ p \in Nat
      /\ 1000 * p <= x + 500 * (tick + Grain)
      /\ 1000 * p >= x - 500 * (tick + Grain)
      /\ \E j \in Int : p = FourDecimals(tick * j)
  BY <1>3, RoundToTickNear, RoundToTickNat
<1>6. /\ k \in Int /\ p = FourDecimals(tick * k)
      /\ 1000 * (tick * k) <= x + 500 * tick /\ 1000 * (tick * k) >= x - 500 * tick
  BY <1>3, RoundToTickNearest
<1> HIDE DEF p, tick, sp, k
<1>7. ASSUME tick <= sp, Grain <= sp
      PROVE  p > 0
  <2>1. k >= 1
    <3>1. SUFFICES ASSUME k <= 0 PROVE FALSE
      BY <1>6
    <3>2. tick * k <= 0
      BY <1>1, <1>6, <3>1
    <3> QED
      BY <1>1, <1>3, <1>6, <1>7, <3>2
  <2> DEFINE y == tick * k
  <2>2. y \in Int /\ y >= tick
    BY <1>1, <1>6, <2>1
  <2>3. 1000 * y >= x - 500 * tick /\ p = FourDecimals(y)
    BY <1>6
  <2> HIDE DEF y
  <2>4. 2 * p >= 2 * y - Grain
    BY <2>2, <2>3, FourDecimalsNear
  <2> QED
    BY <1>1, <1>3, <1>5, <1>7, <2>2, <2>3, <2>4, GrainType
<1> QED
  BY <1>1, <1>3, <1>4, <1>5, <1>7, GrainType DEF InBand, tick, sp

\* The fields of a state and of a draw.
LEMMA StateFields ==
  ASSUME NEW st \in State
  PROVE  /\ st.last_price \in Nat /\ st.high \in Positive /\ st.low \in Nat /\ st.volume \in Nat
         /\ st.average_traded_price \in Nat /\ st.oi_day_high \in Nat /\ st.oi_day_low \in Nat
BY DEF State

LEMMA DrawnFields ==
  ASSUME NEW d \in Drawn
  PROVE  /\ d.gauss \in Int /\ d.ltq \in Positive /\ d.buy \in Positive /\ d.sell \in Positive
         /\ d.oi \in Nat
         /\ d.depth \in [1..2 * DEPTH_LEVELS -> [quantity: Positive, orders: Positive]]
BY DEF Drawn

LEMMA LevelsType ==
  ASSUME NEW t \in Tokens, NEW ltp \in Nat, NEW d \in Drawn
  PROVE  Bids(t, ltp, d) \in Seq(Level) /\ Offers(t, ltp, d) \in Seq(Level)
<1>1. ASSUME NEW l \in 1..DEPTH_LEVELS
      PROVE  Bid(t, ltp, l) \in Int /\ Offer(t, ltp, l) \in Int
  <2> DEFINE tick == Instrument[t].tick_size
  <2>1. tick \in Int /\ l \in Int
    BY InstrumentType DEF Positive
  <2>2. tick * l \in Int
    BY <2>1
  <2> HIDE DEF tick
  <2>3. 1000 * Greatest(ltp - tick * l, tick) \in Int /\ 1000 * (ltp + tick * l) \in Int
    BY <2>1, <2>2 DEF Greatest
  <2> QED
    BY <2>3, RoundToTickNear DEF Bid, Offer, tick
<1>2. ASSUME NEW price \in Int, NEW e \in [quantity: Positive, orders: Positive]
      PROVE  LevelOf(t, price, e) \in Level
  <2>1. e.quantity * Instrument[t].lot_size \in Positive
    <3>1. e.quantity \in Int /\ e.quantity > 0
          /\ Instrument[t].lot_size \in Int /\ Instrument[t].lot_size > 0
      BY InstrumentType DEF Positive
    <3> DEFINE q == e.quantity
               lot == Instrument[t].lot_size
    <3>2. q * lot \in Int /\ q * lot > 0
      <4> HIDE DEF q, lot
      <4> QED
        BY <3>1 DEF q, lot
    <3> QED
      BY <3>2 DEF Positive
  <2> QED
    BY <2>1 DEF LevelOf, Level
<1>3. ASSUME NEW l \in 1..DEPTH_LEVELS
      PROVE  /\ d.depth[l] \in [quantity: Positive, orders: Positive]
             /\ d.depth[DEPTH_LEVELS + l] \in [quantity: Positive, orders: Positive]
  BY DrawnFields DEF DEPTH_LEVELS
<1>4. /\ Bids(t, ltp, d) \in [1..DEPTH_LEVELS -> Level]
      /\ Offers(t, ltp, d) \in [1..DEPTH_LEVELS -> Level]
  BY <1>1, <1>2, <1>3 DEF Bids, Offers
<1>5. Seq(Level) = UNION {[1..n -> Level] : n \in Nat}
  BY SeqDef
<1>6. [1..DEPTH_LEVELS -> Level] \subseteq Seq(Level)
  BY <1>5 DEF DEPTH_LEVELS
<1> QED
  BY <1>4, <1>6

LEMMA InitStateType ==
  ASSUME NEW t \in Tokens
  PROVE  InitState(t) \in State
<1>1. Instrument[t].start_price \in Positive /\ Instrument[t].start_price \in Nat
  BY InstrumentType DEF Positive
<1>2. <<>> \in Seq(Level)
  OBVIOUS
<1> QED
  BY <1>1, <1>2 DEF InitState, State

\* Move and Trade keep the type of a state.
LEMMA MoveType ==
  ASSUME NEW st \in State, NEW price \in Nat
  PROVE  Move(st, price) \in State
<1>1. Greatest(st.high, price) \in Positive /\ Least(st.low, price) \in Nat
  BY StateFields DEF Greatest, Least, Positive
<1> QED
  BY <1>1, MarketAssumption DEF Move, State

LEMMA TradeType ==
  ASSUME NEW t \in Tokens, NEW st \in State, NEW price \in Nat, NEW d \in Drawn
  PROVE  Trade(t, st, price, d) \in State
<1> DEFINE ltq == d.ltq * Instrument[t].lot_size
<1>1. ltq \in Nat
  <2>1. d.ltq \in Nat /\ Instrument[t].lot_size \in Nat
    BY InstrumentType, DrawnFields DEF Positive
  <2> QED
    BY <2>1
<1>2. VolumeAfter(st.volume, ltq) \in Nat
  BY <1>1, StateFields DEF VolumeAfter
<1>3. RoundToTick(t, 500 * (st.average_traded_price + price)) \in Nat
  <2>1. 500 * (st.average_traded_price + price) \in Nat
    BY StateFields
  <2> QED
    BY <2>1, RoundToTickNat
<1>4. /\ d.buy \in Nat /\ d.sell \in Nat /\ d.oi \in Nat
      /\ Greatest(st.oi_day_high, d.oi) \in Nat /\ DayLow(st.oi_day_low, d.oi) \in Nat
  BY StateFields, DrawnFields DEF Greatest, Least, DayLow, Positive
<1> DEFINE volume == VolumeAfter(st.volume, ltq)
           average == RoundToTick(t, 500 * (st.average_traded_price + price))
           s1 == [st EXCEPT !.last_traded_quantity = ltq, !.volume = volume,
                            !.average_traded_price = average]
           s2 == [s1 EXCEPT !.total_buy_quantity = d.buy, !.total_sell_quantity = d.sell,
                            !.oi = d.oi, !.oi_day_high = Greatest(st.oi_day_high, d.oi),
                            !.oi_day_low = DayLow(st.oi_day_low, d.oi)]
           s3 == [s2 EXCEPT !.bids = Bids(t, price, d), !.offers = Offers(t, price, d)]
<1>5. volume \in Nat /\ average \in Nat
  BY <1>2, <1>3
<1> HIDE DEF ltq, volume, average
<1>6. s1 \in State
  BY <1>1, <1>5 DEF State
<1> HIDE DEF s1
<1>7. s2 \in State
  BY <1>4, <1>6 DEF State
<1> HIDE DEF s2
<1>8. s3 \in State
  BY <1>7, LevelsType DEF State
<1>9. Trade(t, st, price, d) = s3
  BY DEF Trade, s1, s2, s3, ltq, volume, average
<1> QED
  BY <1>8, <1>9

LEMMA StepType ==
  ASSUME NEW t \in Tokens, NEW st \in State, NEW d \in Drawn
  PROVE  Step(t, st, d) \in State
<1> DEFINE price == Walk(t, st.last_price, d.gauss)
<1>1. price \in Nat
  BY WalkInBand, StateFields, DrawnFields
<1> HIDE DEF price
<1>2. Move(st, price) \in State
  BY <1>1, MoveType
<1>3. Trade(t, Move(st, price), price, d) \in State
  BY <1>1, <1>2, TradeType
<1> QED
  BY <1>2, <1>3 DEF Step, price

-----------------------------------------------------------------------------
(* The depth book.                                                         *)

\* The book of a state is computed from its last price, a rounded multiple of the
\* tick; an index has none.
Book(t, st) ==
  /\ Instrument[t].is_index => st.bids = <<>>
  /\ st.bids # <<>> =>
       /\ \E k \in Int : st.last_price = FourDecimals(Instrument[t].tick_size * k)
       /\ \A l \in 1..DEPTH_LEVELS :
            /\ st.bids[l].price = Bid(t, st.last_price, l)
            /\ st.offers[l].price = Offer(t, st.last_price, l)

\* Whatever is drawn, a step ends in a sound state.
Sound(t, st) == st \in State /\ InBand(t, st.last_price) /\ Book(t, st)

LEMMA InitSound ==
  ASSUME NEW t \in Tokens
  PROVE  Sound(t, InitState(t))
<1>1. InitState(t) \in State
  BY InitStateType
<1>2. InitState(t).bids = <<>> /\ InitState(t).last_price = Instrument[t].start_price
  BY DEF InitState
<1>3. /\ Instrument[t].start_price \in Int /\ Instrument[t].start_price > 0
      /\ Instrument[t].tick_size \in Int /\ Instrument[t].tick_size > 0
  BY InstrumentType DEF Positive
<1>4. InBand(t, Instrument[t].start_price)
  BY <1>3, GrainType DEF InBand
<1> QED
  BY <1>1, <1>2, <1>4 DEF Sound, Book

LEMMA StepSound ==
  ASSUME NEW t \in Tokens, NEW st \in State, Book(t, st), NEW d \in Drawn
  PROVE  Sound(t, Step(t, st, d))
<1> DEFINE price == Walk(t, st.last_price, d.gauss)
           moved == Move(st, price)
           after == Step(t, st, d)
<1>1. after \in State
  BY StepType
<1>2. InBand(t, price) /\ \E k \in Int : price = FourDecimals(Instrument[t].tick_size * k)
  BY WalkInBand, StateFields, DrawnFields
<1>3. CASE Instrument[t].is_index
  <2>1. after = moved
    BY <1>3 DEF Step
  <2>2. moved.last_price = price /\ moved.bids = st.bids
    BY DEF Move, State
  <2>3. st.bids = <<>>
    BY <1>3 DEF Book
  <2> HIDE DEF price, moved, after
  <2> QED
    BY <1>1, <1>2, <2>1, <2>2, <2>3 DEF Sound, Book, after
<1>4. CASE ~Instrument[t].is_index
  <2>1. after = Trade(t, moved, price, d)
    BY <1>4 DEF Step
  <2>2. moved \in State /\ moved.last_price = price
    <3>1. price \in Nat
      BY WalkInBand, StateFields, DrawnFields
    <3> HIDE DEF price
    <3>2. moved \in State
      BY <3>1, MoveType
    <3>3. moved.last_price = price
      BY DEF Move, State
    <3> QED
      BY <3>2, <3>3
  <2> HIDE DEF price, moved
  <2>3. /\ after.last_price = moved.last_price
        /\ after.bids = Bids(t, price, d) /\ after.offers = Offers(t, price, d)
    BY <2>1, <2>2 DEF Trade, State
  <2>4. ASSUME NEW l \in 1..DEPTH_LEVELS
        PROVE  /\ after.bids[l].price = Bid(t, price, l)
               /\ after.offers[l].price = Offer(t, price, l)
    BY <2>3 DEF Bids, Offers, LevelOf
  <2> HIDE DEF after
  <2> QED
    BY <1>1, <1>2, <1>4, <2>2, <2>3, <2>4 DEF Sound, Book, after
<1> QED
  BY <1>3, <1>4

-----------------------------------------------------------------------------
(* Steps of the market.                                                    *)

LEMMA HistoryIsSeq ==
  ASSUME NEW h
  PROVE  h \in Histories <=> h \in Seq(Tokens) /\ Len(h) <= MaxSteps
<1>1. Seq(Tokens) = UNION {[1..n -> Tokens] : n \in Nat}
  BY SeqDef
<1>2. MaxSteps \in Nat
  BY MarketAssumption
<1>3. ASSUME h \in Histories PROVE h \in Seq(Tokens) /\ Len(h) <= MaxSteps
  <2>1. PICK n \in 0..MaxSteps : h \in [1..n -> Tokens]
    BY <1>3 DEF Histories
  <2>2. h \in Seq(Tokens)
    BY <1>1, <1>2, <2>1
  <2>3. Len(h) = n
    BY <1>2, <2>1, <2>2, LenProperties
  <2> QED
    BY <1>2, <2>1, <2>2, <2>3
<1>4. ASSUME h \in Seq(Tokens), Len(h) <= MaxSteps PROVE h \in Histories
  <2>1. h \in [1..Len(h) -> Tokens] /\ Len(h) \in 0..MaxSteps
    BY <1>2, <1>4, LenProperties
  <2> QED
    BY <2>1 DEF Histories
<1> QED
  BY <1>3, <1>4

MarketSound == MarketTypeOK /\ \A t \in Tokens : Sound(t, market[t])

LEMMA AdvanceSound ==
  ASSUME MarketSound, NEW ts \in Seq(Tokens), Advance(ts)
  PROVE  MarketSound'
<1>1. drawn \in Seq(Tokens) /\ seed \in Seeds
  BY HistoryIsSeq DEF MarketSound, MarketTypeOK
<1>2. Len(drawn) + Len(ts) <= MaxSteps /\ drawn' = drawn \o ts /\ seed' = seed
  BY DEF Advance
<1>3. drawn' \in Histories
  <2>1. drawn \o ts \in Seq(Tokens) /\ Len(drawn \o ts) = Len(drawn) + Len(ts)
    BY <1>1, ConcatProperties
  <2> QED
    BY <1>2, <2>1, HistoryIsSeq
<1>4. ASSUME NEW k \in DOMAIN ts
      PROVE  Sound(ts[k], Stepped(ts, k))
  <2> DEFINE before == SubSeq(ts, 1, k - 1)
             h == drawn \o before
             d == Draw(seed, h, ts[k])
  <2>1. k \in 1..Len(ts) /\ Len(ts) \in Nat /\ ts[k] \in Tokens
    BY LenProperties, ElementOfSeq
  <2>2. before \in Seq(Tokens) /\ Len(before) = k - 1
    BY <2>1, SubSeqProperties
  <2>3. h \in Seq(Tokens) /\ Len(h) = Len(drawn) + (k - 1)
    BY <1>1, <2>2, ConcatProperties
  <2>4. h \in Histories
    <3>1. Len(drawn) \in Nat /\ MaxSteps \in Nat
      BY <1>1, MarketAssumption, LenProperties
    <3>2. Len(h) <= MaxSteps
      BY <1>2, <2>1, <2>3, <3>1
    <3> QED
      BY <2>3, <3>2, HistoryIsSeq
  <2>5. d \in Drawn
    BY <1>1, <2>1, <2>4, DrawAssumption
  <2>6. Stepped(ts, k) = Step(ts[k], market[ts[k]], d)
    BY DEF Stepped
  <2> HIDE DEF d
  <2>7. market[ts[k]] \in State /\ Book(ts[k], market[ts[k]])
    BY <2>1 DEF MarketSound, Sound
  <2> QED
    BY <2>1, <2>5, <2>6, <2>7, StepSound
<1>5. market' = [t \in Tokens |->
                   IF \E k \in DOMAIN ts : ts[k] = t
                   THEN Stepped(ts, CHOOSE k \in DOMAIN ts : ts[k] = t)
                   ELSE market[t]]
  BY DEF Advance
<1>6. ASSUME NEW t \in Tokens
      PROVE  Sound(t, market'[t])
  <2>1. CASE \E k \in DOMAIN ts : ts[k] = t
    <3> DEFINE k == CHOOSE k \in DOMAIN ts : ts[k] = t
    <3>1. k \in DOMAIN ts /\ ts[k] = t
      BY <2>1
    <3>2. market'[t] = Stepped(ts, k)
      BY <1>5, <2>1
    <3> HIDE DEF k
    <3> QED
      BY <1>4, <3>1, <3>2
  <2>2. CASE ~\E k \in DOMAIN ts : ts[k] = t
    BY <1>5, <2>2 DEF MarketSound
  <2> QED
    BY <2>1, <2>2
<1>7. market' \in [Tokens -> State]
  BY <1>5, <1>6 DEF Sound
<1> QED
  BY <1>1, <1>2, <1>3, <1>6, <1>7 DEF MarketSound, MarketTypeOK

LEMMA SeedingSound ==
  ASSUME seed \in Seeds
  PROVE  /\ MarketInit => MarketSound
         /\ Reseed => MarketSound'
<1>1. <<>> \in Histories
  <2>1. <<>> \in Seq(Tokens) /\ Len(<<>>) = 0 /\ MaxSteps \in Nat
    BY MarketAssumption, EmptySeq
  <2>2. Len(<<>>) <= MaxSteps
    BY <2>1
  <2> QED
    BY <2>1, <2>2, HistoryIsSeq
<1>2. [t \in Tokens |-> InitState(t)] \in [Tokens -> State]
  BY InitStateType
<1> QED
  BY <1>1, <1>2, InitSound DEF MarketInit, Reseed, MarketSound, MarketTypeOK

-----------------------------------------------------------------------------
(* Every reachable state.                                                  *)

\* The inductive invariant.
SoundStream ==
  /\ MarketSound
  /\ TypeOK
  /\ DOMAIN held = Connections

LEMMA TokensAreSeq ==
  ASSUME TypeOK, NEW c \in Connections, subs[c] # <<>>
  PROVE  TokensOf(c) \in Seq(Tokens) /\ Len(TokensOf(c)) = Len(subs[c])
         /\ DOMAIN TokensOf(c) = DOMAIN subs[c]
<1>1. subs[c] \in Seq(Tokens \X Modes)
  BY StreamAssumption DEF TypeOK
<1>2. DOMAIN subs[c] = 1..Len(subs[c]) /\ Len(subs[c]) \in Nat
  BY <1>1, LenProperties
<1>3. \A k \in 1..Len(subs[c]) : subs[c][k][1] \in Tokens
  <2> TAKE k \in 1..Len(subs[c])
  <2>1. subs[c][k] \in Tokens \X Modes
    BY <1>1, ElementOfSeq
  <2> QED
    BY <2>1
<1>4. TokensOf(c) \in [1..Len(subs[c]) -> Tokens]
  BY <1>2, <1>3 DEF TokensOf
<1>5. TokensOf(c) \in Seq(Tokens)
  BY <1>2, <1>4, SeqDef
<1> QED
  BY <1>2, <1>4, <1>5, LenProperties

LEMMA InitIsSound == Init => SoundStream
<1>1. ASSUME Init PROVE SoundStream
  <2>1. MarketSound
    BY <1>1, SeedingSound DEF Init, MarketInit
  <2>2. day = 1 /\ 1 \in 1..MaxDays
    BY <1>1, StreamAssumption DEF Init, Positive
  <2> QED
    BY <1>1, <2>1, <2>2 DEF Init, SoundStream, TypeOK, MarketSound
<1> QED
  BY <1>1

LEMMA BuildSound ==
  ASSUME SoundStream, NEW c \in Connections, BuildFrame(c)
  PROVE  SoundStream'
<1> DEFINE frame == [day |-> day, packets |-> [k \in DOMAIN subs[c] |-> Packet(c, k)]]
<1>1. /\ subs[c] # <<>> /\ Advance(TokensOf(c))
      /\ held' = [held EXCEPT ![c] = frame]
      /\ UNCHANGED <<subs, quoted, day>>
  BY DEF BuildFrame
<1>2. TokensOf(c) \in Seq(Tokens)
  BY <1>1, TokensAreSeq DEF SoundStream
<1>3. MarketSound'
  BY <1>1, <1>2, AdvanceSound DEF SoundStream
<1>4. frame.day = day /\ DOMAIN frame.packets = DOMAIN subs[c]
  OBVIOUS
<1>5. day \in 1..day
  BY StreamAssumption DEF SoundStream, TypeOK, Positive
<1> HIDE DEF frame
<1> QED
  BY <1>1, <1>3, <1>4, <1>5 DEF SoundStream, TypeOK, MarketSound

LEMMA FailureSound ==
  ASSUME SoundStream, NEW c \in Connections, PusherFails(c)
  PROVE  SoundStream'
<1>1. PICK k \in TooLarge(c) : Advance(SubSeq(TokensOf(c), 1, k))
  BY DEF PusherFails
<1>2. /\ subs[c] # <<>> /\ held[c] = None
      /\ subs' = [subs EXCEPT ![c] = <<>>]
      /\ UNCHANGED <<held, quoted, day>>
  BY DEF PusherFails
<1>3. TokensOf(c) \in Seq(Tokens) /\ k \in 1..Len(TokensOf(c))
  BY <1>2, TokensAreSeq, LenProperties DEF SoundStream, TooLarge
<1>4. SubSeq(TokensOf(c), 1, k) \in Seq(Tokens)
  BY <1>3, LenProperties, SubSeqProperties
<1>5. MarketSound'
  BY <1>1, <1>4, AdvanceSound DEF SoundStream
<1> QED
  BY <1>2, <1>5 DEF SoundStream, TypeOK, MarketSound

LEMMA SoundStep == SoundStream /\ [Next]_vars => SoundStream'
<1> SUFFICES ASSUME SoundStream, [Next]_vars
             PROVE  SoundStream'
  OBVIOUS
<1>1. ASSUME UNCHANGED marketVars PROVE MarketSound'
  BY <1>1 DEF SoundStream, MarketSound, MarketTypeOK, marketVars
<1>2. ASSUME NEW c \in Connections, NEW s \in Subscriptions, Connect(c, s)
      PROVE  SoundStream'
  <2>1. MarketSound'
    BY <1>1, <1>2 DEF Connect
  <2>2. \A d \in Connections : held[d] # None => d # c
    BY <1>2 DEF SoundStream, TypeOK, Connect
  <2> QED
    BY <1>2, <2>1, <2>2, StreamAssumption DEF SoundStream, TypeOK, MarketSound, Connect
<1>3. ASSUME NEW c \in Connections, SendFrame(c)
      PROVE  SoundStream'
  <2>1. MarketSound'
    BY <1>1, <1>3 DEF SendFrame
  <2> QED
    BY <1>3, <2>1 DEF SoundStream, TypeOK, MarketSound, SendFrame
<1>4. ASSUME NEW c \in Connections, Leave(c)
      PROVE  SoundStream'
  <2>1. MarketSound'
    BY <1>1, <1>4 DEF Leave
  <2> QED
    BY <1>4, <2>1 DEF SoundStream, TypeOK, MarketSound, Leave
<1>5. ASSUME NEW q \in Requested, Quote(q[1], q[2])
      PROVE  SoundStream'
  <2>1. MarketSound'
    BY <1>1, <1>5 DEF Quote
  <2> DEFINE of == [t \in RequestedInstruments(q[2]) |-> QuoteOf(q[1], t)]
  <2>2. quoted' = [day |-> day, of |-> of] /\ DOMAIN of \subseteq Tokens
    BY <1>5 DEF Quote, RequestedInstruments
  <2> HIDE DEF of
  <2>3. day \in 1..day
    BY StreamAssumption DEF SoundStream, TypeOK, Positive
  <2> QED
    BY <1>5, <2>1, <2>2, <2>3 DEF SoundStream, TypeOK, MarketSound, Quote
<1>6. ASSUME Reset
      PROVE  SoundStream'
  <2>1. MarketSound'
    BY <1>6, SeedingSound DEF Reset, SoundStream, TypeOK, MarketTypeOK
  <2>2. day' \in 1..MaxDays /\ 1..day \subseteq 1..day'
    BY <1>6, StreamAssumption DEF Reset, SoundStream, TypeOK, Positive
  <2> QED
    BY <1>6, <2>1, <2>2 DEF SoundStream, TypeOK, MarketSound, Reset
<1>7. ASSUME UNCHANGED vars
      PROVE  SoundStream'
  <2>1. MarketSound'
    BY <1>1, <1>7 DEF vars
  <2> QED
    BY <1>7, <2>1 DEF SoundStream, TypeOK, MarketSound, vars, streamVars
<1> QED
  BY <1>2, <1>3, <1>4, <1>5, <1>6, <1>7, BuildSound, FailureSound DEF Next

LEMMA AlwaysSound == Spec => []SoundStream
BY InitIsSound, SoundStep, PTL DEF Spec

\* Frames are held by open connections, with a packet for each subscription;
\* no price, volume or quantity of the walk is ever negative.
THEOREM TypeCorrect == Spec => []TypeOK
<1>1. SoundStream => TypeOK
  BY DEF SoundStream
<1> QED
  BY <1>1, AlwaysSound, PTL

\* The walk keeps to its band, but for what its two roundings add, for any draws
\* and any ticks.
THEOREM PriceAlwaysInBand == Spec => []PriceStaysInBand
<1>1. SoundStream => PriceStaysInBand
  BY DEF SoundStream, MarketSound, Sound, InBand, PriceStaysInBand
<1> QED
  BY <1>1, AlwaysSound, PTL

\* Whatever the tick: the levels are in order, and the offers not below the
\* price.
LEMMA LevelsOrdered ==
  ASSUME NEW t \in Tokens, NEW k \in Int,
         NEW l \in 1..DEPTH_LEVELS, NEW m \in 1..DEPTH_LEVELS, l < m
  PROVE  LET p == FourDecimals(Instrument[t].tick_size * k) IN
         /\ Offer(t, p, l) >= p
         /\ Offer(t, p, l) <= Offer(t, p, m) /\ Bid(t, p, l) >= Bid(t, p, m)
<1> DEFINE tick == Instrument[t].tick_size
           p == FourDecimals(tick * k)
<1>1. tick \in Int /\ tick > 0 /\ l \in Int /\ m \in Int /\ l >= 1
  BY InstrumentType DEF Positive, DEPTH_LEVELS
<1>2. p \in Int /\ FourDecimals(p) = p
  <2>1. tick * k \in Int
    BY <1>1
  <2>2. PICK j \in Int : p = Grain * j
    BY <2>1, FourDecimalsNear
  <2>3. p \in Int
    BY <2>1, FourDecimalsNear
  <2> HIDE DEF p
  <2> QED
    BY <2>2, <2>3, FourDecimalsExact
<1> HIDE DEF tick, p
<1> DEFINE a == tick * l
           b == tick * m
<1>3. a \in Int /\ b \in Int /\ a >= tick /\ a <= b
  <2>1. tick * l >= tick
    BY <1>1
  <2>2. tick * (m - l) >= 0 /\ tick * (m - l) = tick * m - tick * l
    BY <1>1
  <2> QED
    BY <1>1, <2>1, <2>2
<1>4. /\ Offer(t, p, l) = RoundToTick(t, 1000 * (p + a))
      /\ Offer(t, p, m) = RoundToTick(t, 1000 * (p + b))
      /\ Bid(t, p, l) = RoundToTick(t, 1000 * Greatest(p - a, tick))
      /\ Bid(t, p, m) = RoundToTick(t, 1000 * Greatest(p - b, tick))
  BY DEF Offer, Bid, a, b, tick
<1> HIDE DEF a, b
<1> DEFINE x == 1000 * (p + a)
           j == RoundHalfEven(x, 1000 * tick)
           z == tick * j
<1>5. j \in Int /\ RoundToTick(t, x) = FourDecimals(z) /\ 1000 * z >= x - 500 * tick
  <2> x \in Int
    BY <1>2, <1>3
  <2> HIDE DEF x
  <2> QED
    BY RoundToTickNearest DEF tick
<1>6. z \in Int /\ x = 1000 * (p + a)
  BY <1>1, <1>5
<1> HIDE DEF x, j, z
<1>7. p <= z
  BY <1>1, <1>2, <1>3, <1>5, <1>6
<1>8. Offer(t, p, l) >= p
  BY <1>2, <1>4, <1>5, <1>6, <1>7, FourDecimalsMonotone, FourDecimalsNear
<1>9. Offer(t, p, l) <= Offer(t, p, m)
  <2>1. 1000 * (p + a) \in Int /\ 1000 * (p + b) \in Int /\ 1000 * (p + a) <= 1000 * (p + b)
    BY <1>2, <1>3
  <2> QED
    BY <1>4, <2>1, RoundToTickMonotone
<1>10. Bid(t, p, l) >= Bid(t, p, m)
  <2>1. /\ 1000 * Greatest(p - a, tick) \in Int /\ 1000 * Greatest(p - b, tick) \in Int
        /\ 1000 * Greatest(p - b, tick) <= 1000 * Greatest(p - a, tick)
    BY <1>1, <1>2, <1>3 DEF Greatest
  <2>2. Bid(t, p, l) \in Int /\ Bid(t, p, m) \in Int
    BY <1>4, <2>1, RoundToTickNear
  <2> QED
    BY <1>4, <2>1, <2>2, RoundToTickMonotone
<1> QED
  BY <1>8, <1>9, <1>10 DEF p, tick

\* A number that is less than half a tick from a multiple is rounded to it.
LEMMA MultipleNearby ==
  ASSUME NEW t \in Tokens, NEW y \in Int, NEW j \in Int,
         2 * y < 2 * (Instrument[t].tick_size * j) + Instrument[t].tick_size,
         2 * y > 2 * (Instrument[t].tick_size * j) - Instrument[t].tick_size
  PROVE  RoundToTick(t, 1000 * y) = FourDecimals(Instrument[t].tick_size * j)
<1> DEFINE tick == Instrument[t].tick_size
           k == RoundHalfEven(1000 * y, 1000 * tick)
<1>1. tick \in Int /\ tick > 0
  BY InstrumentType DEF Positive
<1>2. /\ k \in Int /\ RoundToTick(t, 1000 * y) = FourDecimals(tick * k)
      /\ 1000 * (tick * k) <= 1000 * y + 500 * tick
      /\ 1000 * (tick * k) >= 1000 * y - 500 * tick
  <2> 1000 * y \in Int
    OBVIOUS
  <2> QED
    BY RoundToTickNearest
<1>3. 2 * y < 2 * (tick * j) + tick /\ 2 * y > 2 * (tick * j) - tick
  OBVIOUS
<1> HIDE DEF k, tick
<1> DEFINE d == k - j
<1>4. d \in Int /\ tick * d = tick * k - tick * j /\ tick * k \in Int /\ tick * j \in Int
  BY <1>1, <1>2
<1> HIDE DEF d
<1>5. tick * d < tick /\ tick * d > -tick
  BY <1>1, <1>2, <1>3, <1>4
<1>6. d >= 1 => tick * d >= tick
  BY <1>1, <1>4
<1>7. d <= -1 => tick * d <= -tick
  BY <1>1, <1>4
<1>8. d = 0
  BY <1>1, <1>4, <1>5, <1>6, <1>7
<1>9. k = j
  BY <1>2, <1>8 DEF d
<1> QED
  BY <1>2, <1>9 DEF tick

\* The least price of a bid.
LEMMA OneTick ==
  ASSUME NEW t \in Tokens
  PROVE  RoundToTick(t, 1000 * Instrument[t].tick_size) = FourDecimals(Instrument[t].tick_size)
<1> DEFINE tick == Instrument[t].tick_size
<1>1. tick \in Int /\ tick > 0 /\ tick * 1 = tick
  BY InstrumentType DEF Positive
<1>2. \A z \in Int, j \in Int :
        2 * z < 2 * (tick * j) + tick /\ 2 * z > 2 * (tick * j) - tick =>
          RoundToTick(t, 1000 * z) = FourDecimals(tick * j)
  BY MultipleNearby
<1> HIDE DEF tick
<1>3. ASSUME NEW z \in Int, z = tick
      PROVE  RoundToTick(t, 1000 * z) = FourDecimals(z)
  <2>1. PICK j \in Int : tick * j = z
    BY <1>1, <1>3
  <2>2. 2 * z < 2 * (tick * j) + tick /\ 2 * z > 2 * (tick * j) - tick
    BY <1>1, <1>3, <2>1
  <2> QED
    BY <1>2, <2>1, <2>2
<1> QED
  BY <1>1, <1>3 DEF tick

\* If a tick is not finer than the fourth decimal, the levels are counted in
\* ticks from the price, ...
LEMMA LevelsCounted ==
  ASSUME NEW t \in Tokens, Grain <= Instrument[t].tick_size,
         NEW k \in Int, NEW l \in 1..DEPTH_LEVELS
  PROVE  LET tick == Instrument[t].tick_size
             p == FourDecimals(tick * k)
         IN /\ Offer(t, p, l) = FourDecimals(tick * (k + l))
            /\ Bid(t, p, l) = FourDecimals(tick * Greatest(k - l, 1))
<1> DEFINE tick == Instrument[t].tick_size
           y == tick * k
           p == FourDecimals(y)
           a == tick * l
<1>1. tick \in Int /\ tick > 0 /\ Grain <= tick /\ l \in Int
  BY InstrumentType DEF Positive, DEPTH_LEVELS
<1>2. /\ Offer(t, p, l) = RoundToTick(t, 1000 * (p + a))
      /\ Bid(t, p, l) = RoundToTick(t, 1000 * Greatest(p - a, tick))
  BY DEF Offer, Bid
<1>3. y \in Int /\ a \in Int
  BY <1>1
<1>4. tick * (k + l) = y + a /\ tick * (k - l) = y - a /\ tick * 1 = tick
  BY <1>1
<1>5. Grain = tick => p = y
  <2>1. ASSUME Grain = tick PROVE p = y
    BY <2>1, FourDecimalsExact
  <2> QED
    BY <2>1
<1>6. \A j \in Int : (j <= 0 => tick * j <= 0) /\ (j >= 2 => tick * j >= 2 * tick)
  BY <1>1
<1>7. \A z \in Int, j \in Int :
        2 * z < 2 * (tick * j) + tick /\ 2 * z > 2 * (tick * j) - tick =>
          RoundToTick(t, 1000 * z) = FourDecimals(tick * j)
  BY MultipleNearby
<1> HIDE DEF y, a, tick
<1>8. p \in Int /\ 2 * p <= 2 * y + Grain /\ 2 * p >= 2 * y - Grain
  BY <1>3, FourDecimalsNear
<1> HIDE DEF p
<1>9. 2 * p < 2 * y + tick /\ 2 * p > 2 * y - tick
  <2>1. CASE Grain = tick
    BY <1>1, <1>3, <1>5, <1>8, <2>1
  <2>2. CASE Grain < tick
    BY <1>1, <1>3, <1>8, <2>2, GrainType
  <2> QED
    BY <1>1, <2>1, <2>2, GrainType
<1>10. RoundToTick(t, 1000 * (p + a)) = FourDecimals(tick * (k + l))
  <2>1. p + a \in Int /\ k + l \in Int
    BY <1>1, <1>3, <1>8
  <2>2. 2 * (p + a) < 2 * (y + a) + tick /\ 2 * (p + a) > 2 * (y + a) - tick
    BY <1>1, <1>3, <1>8, <1>9
  <2> QED
    BY <1>4, <1>7, <2>1, <2>2
<1>11. RoundToTick(t, 1000 * Greatest(p - a, tick)) = FourDecimals(tick * Greatest(k - l, 1))
  <2>1. CASE p - a >= tick
    <3>1. k - l \in Int /\ k - l >= 1
      <4>1. SUFFICES ASSUME k - l <= 0 PROVE FALSE
        BY <1>1
      <4>2. y - a <= 0
        BY <1>1, <1>4, <1>6, <4>1
      <4> QED
        BY <1>1, <1>3, <1>8, <1>9, <2>1, <4>2
    <3>2. Greatest(k - l, 1) = k - l /\ Greatest(p - a, tick) = p - a
      BY <1>1, <1>3, <1>8, <2>1, <3>1 DEF Greatest
    <3>3. p - a \in Int /\ 2 * (p - a) < 2 * (y - a) + tick /\ 2 * (p - a) > 2 * (y - a) - tick
      BY <1>1, <1>3, <1>8, <1>9
    <3>4. RoundToTick(t, 1000 * (p - a)) = FourDecimals(tick * (k - l))
      BY <1>4, <1>7, <3>1, <3>3
    <3> QED
      BY <3>2, <3>4
  <2>2. CASE p - a < tick
    <3>1. k - l \in Int /\ k - l <= 1
      <4>1. SUFFICES ASSUME k - l >= 2 PROVE FALSE
        BY <1>1
      <4>2. y - a >= 2 * tick
        BY <1>1, <1>4, <1>6, <4>1
      <4> QED
        BY <1>1, <1>3, <1>8, <1>9, <2>2, <4>2
    <3>2. Greatest(k - l, 1) = 1 /\ Greatest(p - a, tick) = tick
      BY <1>1, <1>3, <1>8, <2>2, <3>1 DEF Greatest
    <3>3. RoundToTick(t, 1000 * tick) = FourDecimals(tick * 1)
      BY <1>4, OneTick DEF tick
    <3> QED
      BY <3>2, <3>3
  <2> QED
    BY <1>1, <1>3, <1>8, <2>1, <2>2
<1> QED
  BY <1>2, <1>10, <1>11 DEF p, y, tick

\* ... and no two numbers of ticks are the same price.
LEMMA TicksApart ==
  ASSUME NEW t \in Tokens, Grain <= Instrument[t].tick_size,
         NEW j \in Int, NEW k \in Int, j < k
  PROVE  FourDecimals(Instrument[t].tick_size * j) < FourDecimals(Instrument[t].tick_size * k)
<1> DEFINE tick == Instrument[t].tick_size
<1>1. tick \in Int /\ tick > 0 /\ Grain <= tick
  BY InstrumentType DEF Positive
<1> HIDE DEF tick
<1>2. tick * j \in Int /\ tick * k \in Int /\ tick * k >= tick * j + tick
  <2>1. tick * (k - j) >= tick /\ tick * (k - j) = tick * k - tick * j
    BY <1>1
  <2> QED
    BY <1>1, <2>1
<1>3. CASE Grain = tick
  <2>1. FourDecimals(tick * j) = tick * j /\ FourDecimals(tick * k) = tick * k
    BY <1>3, FourDecimalsExact
  <2> QED
    BY <1>1, <1>2, <2>1 DEF tick
<1>4. CASE Grain < tick
  <2> DEFINE x == tick * j
             y == tick * k
  <2>1. x \in Int /\ y \in Int /\ y >= x + tick
    BY <1>2
  <2> HIDE DEF x, y
  <2>2. /\ FourDecimals(x) \in Int /\ 2 * FourDecimals(x) <= 2 * x + Grain
        /\ FourDecimals(y) \in Int /\ 2 * FourDecimals(y) >= 2 * y - Grain
    BY <2>1, FourDecimalsNear
  <2>3. FourDecimals(x) < FourDecimals(y)
    BY <1>1, <1>4, <2>1, <2>2, GrainType
  <2> QED
    BY <2>3 DEF x, y, tick
<1> QED
  BY <1>1, <1>3, <1>4, GrainType

\* No state the stream can show has a crossed book, whatever the ticks; it has
\* levels apart from each other and from the price whenever a tick is at least
\* one in the fourth decimal.
THEOREM BookAlwaysStraddles == Spec => []BookStraddlesLast
<1>1. ASSUME SoundStream PROVE BookStraddlesLast
  <2> SUFFICES ASSUME NEW t \in Tokens, market[t].bids # <<>>
               PROVE  LET st == market[t]
                          tick == Instrument[t].tick_size
                          bid(l) == st.bids[l].price
                          offer(l) == st.offers[l].price
                          levels == 1..DEPTH_LEVELS
                      IN /\ \A l \in levels : offer(l) >= st.last_price
                         /\ \A l, m \in levels : l < m => offer(l) <= offer(m) /\ bid(l) >= bid(m)
                         /\ Grain <= tick =>
                              /\ \A l \in levels : offer(l) > st.last_price /\ bid(l) > 0
                              /\ \A l, m \in levels : l < m => offer(l) < offer(m)
                              /\ st.last_price > FourDecimals(tick) => bid(1) < st.last_price
                              /\ st.last_price > FourDecimals(DEPTH_LEVELS * tick) =>
                                   \A l, m \in levels : l < m => bid(l) > bid(m)
    BY DEF BookStraddlesLast
  <2> DEFINE p == market[t].last_price
             tick == Instrument[t].tick_size
             bid(l) == market[t].bids[l].price
             offer(l) == market[t].offers[l].price
             levels == 1..DEPTH_LEVELS
  <2>1. Book(t, market[t])
    BY <1>1 DEF SoundStream, MarketSound, Sound
  <2>2. PICK k \in Int : p = FourDecimals(tick * k)
    BY <2>1 DEF Book
  <2>3. \A l \in levels : bid(l) = Bid(t, p, l) /\ offer(l) = Offer(t, p, l)
    BY <2>1 DEF Book
  <2>4. ASSUME NEW l \in levels, NEW m \in levels, l < m
        PROVE  offer(l) >= p /\ offer(l) <= offer(m) /\ bid(l) >= bid(m)
    BY <2>2, <2>3, <2>4, LevelsOrdered
  <2>5. ASSUME NEW l \in levels PROVE offer(l) >= p
    <3>1. 1 \in levels /\ 5 \in levels /\ 1 < 5
      BY DEF DEPTH_LEVELS
    <3>2. offer(1) >= p
      BY <2>4, <3>1
    <3>3. l = 1 \/ 1 < l
      BY DEF DEPTH_LEVELS
    <3>4. 1 < l => offer(1) <= offer(l)
      BY <2>4, <3>1
    <3>5. offer(1) \in Int /\ offer(l) \in Int /\ p \in Int
      <4>1. tick \in Int /\ tick * k \in Int /\ l \in Int
        BY InstrumentType DEF Positive, DEPTH_LEVELS
      <4>2. p \in Int
        BY <2>2, <4>1, FourDecimalsNear
      <4>3. 1000 * (p + tick * l) \in Int /\ 1000 * (p + tick * 1) \in Int
        <5> HIDE DEF p, tick
        <5> QED
          BY <4>1, <4>2
      <4>4. Offer(t, p, l) \in Int /\ Offer(t, p, 1) \in Int
        BY <4>3, RoundToTickNear DEF Offer
      <4> QED
        BY <2>3, <3>1, <4>2, <4>4
    <3> HIDE DEF offer, p
    <3> QED
      BY <3>2, <3>3, <3>4, <3>5
  <2>6. ASSUME Grain <= tick
        PROVE  /\ \A l \in levels : offer(l) > p /\ bid(l) > 0
               /\ \A l, m \in levels : l < m => offer(l) < offer(m)
               /\ p > FourDecimals(tick) => bid(1) < p
               /\ p > FourDecimals(DEPTH_LEVELS * tick) =>
                    \A l, m \in levels : l < m => bid(l) > bid(m)
    <3> DEFINE F(j) == FourDecimals(tick * j)
    <3>1. \A l \in levels : offer(l) = F(k + l) /\ bid(l) = F(Greatest(k - l, 1))
      BY <2>2, <2>3, <2>6, LevelsCounted
    <3>2. \A j, m \in Int : j < m => F(j) < F(m)
      BY <2>6, TicksApart
    <3>3. \A j \in Int : F(j) \in Int
      <4>1. \A j \in Int : tick * j \in Int
        BY InstrumentType DEF Positive
      <4> QED
        BY <4>1, FourDecimalsNear
    <3>4. F(0) = 0 /\ F(1) = FourDecimals(tick) /\ F(5) = FourDecimals(DEPTH_LEVELS * tick)
      <4>1. tick \in Int
        BY InstrumentType DEF Positive
      <4> HIDE DEF tick
      <4>2. tick * 0 = Grain * 0 /\ Grain * 0 = 0 /\ tick * 1 = tick /\ tick * 5 = 5 * tick
        BY <4>1, GrainType
      <4> QED
        BY <4>2, FourDecimalsExact DEF DEPTH_LEVELS
    <3>5. p = F(k)
      BY <2>2
    <3>6. levels = 1..5
      BY DEF DEPTH_LEVELS
    <3> HIDE DEF F, offer, bid, p, tick, levels
    <3>7. \A m \in Int : F(k) > F(m) => k > m
      BY <3>2, <3>3
    <3>8. \A l \in levels : /\ k + l \in Int /\ k + l > k
                            /\ Greatest(k - l, 1) \in Int /\ Greatest(k - l, 1) > 0
      BY <3>6 DEF Greatest
    <3>9. \A l \in levels : offer(l) > p /\ bid(l) > 0
      <4> TAKE l \in levels
      <4>1. F(k) < F(k + l) /\ F(0) < F(Greatest(k - l, 1))
        BY <3>2, <3>8
      <4> QED
        BY <3>1, <3>3, <3>4, <3>5, <3>8, <4>1
    <3>10. \A l, m \in levels : l < m => offer(l) < offer(m)
      <4> TAKE l \in levels, m \in levels
      <4>1. l < m => k + l < k + m
        BY <3>6
      <4>2. l < m => F(k + l) < F(k + m)
        BY <3>2, <3>8, <4>1
      <4> QED
        BY <3>1, <4>2
    <3>11. p > F(1) => bid(1) < p
      <4> SUFFICES ASSUME p > F(1) PROVE bid(1) < p
        OBVIOUS
      <4>1. k > 1
        BY <3>5, <3>7
      <4>2. Greatest(k - 1, 1) \in Int /\ Greatest(k - 1, 1) < k /\ 1 \in levels
        BY <3>6, <4>1 DEF Greatest
      <4>3. F(Greatest(k - 1, 1)) < F(k) /\ bid(1) = F(Greatest(k - 1, 1))
        BY <3>1, <3>2, <4>2
      <4> QED
        BY <3>5, <4>3
    <3>12. p > F(5) => \A l, m \in levels : l < m => bid(l) > bid(m)
      <4> SUFFICES ASSUME p > F(5), NEW l \in levels, NEW m \in levels, l < m
                   PROVE  bid(l) > bid(m)
        OBVIOUS
      <4>1. k > 5
        BY <3>5, <3>7
      <4>2. Greatest(k - m, 1) < Greatest(k - l, 1)
        BY <3>6, <4>1 DEF Greatest
      <4> QED
        BY <3>1, <3>2, <3>3, <3>8, <4>2
    <3> QED
      BY <3>4, <3>9, <3>10, <3>11, <3>12
  <2> QED
    BY <2>4, <2>5, <2>6
<1> QED
  BY <1>1, AlwaysSound, PTL

\* Two prices of four decimals that differ by less than two of the last differ
\* by one at most.
LEMMA OneInTheFourth ==
  ASSUME NEW i \in Int, NEW j \in Int,
         2 * (Grain * i - Grain * j) <= 3 * Grain, 2 * (Grain * j - Grain * i) <= 3 * Grain
  PROVE  Magnitude(Grain * i - Grain * j) <= Grain
<1> DEFINE d == i - j
<1>1. d \in Int /\ Grain * d = Grain * i - Grain * j /\ Grain * i \in Int /\ Grain * j \in Int
  BY GrainType
<1> HIDE DEF d
<1>2. d <= 1 /\ d >= -1
  <2>1. d >= 2 => Grain * d >= 2 * Grain
    BY <1>1, GrainType
  <2>2. d <= -2 => Grain * d <= -2 * Grain
    BY <1>1, GrainType
  <2> QED
    BY <1>1, <2>1, <2>2, GrainType
<1>3. Grain * d <= Grain /\ Grain * d >= -Grain
  BY <1>1, <1>2, GrainType
<1> QED
  BY <1>1, <1>3, GrainType DEF Magnitude

\* A price next to a multiple of the tick is rounded to a price near it.
LEMMA LevelNear ==
  ASSUME NEW t \in Tokens, NEW y \in Int, NEW j \in Int,
         2 * (y - Instrument[t].tick_size * j) <= Grain,
         2 * (Instrument[t].tick_size * j - y) <= Grain
  PROVE  /\ RoundToTick(t, 1000 * y) - y <= Grain
         /\ y - RoundToTick(t, 1000 * y) <= Grain
<1> DEFINE tick == Instrument[t].tick_size
           k == RoundHalfEven(1000 * y, 1000 * tick)
           x == tick * k
           m == tick * j
<1>1. tick \in Int /\ tick > 0
  BY InstrumentType DEF Positive
<1>2. /\ k \in Int /\ RoundToTick(t, 1000 * y) = FourDecimals(x)
      /\ 1000 * x <= 1000 * y + 500 * tick /\ 1000 * x >= 1000 * y - 500 * tick
  <2> 1000 * y \in Int
    OBVIOUS
  <2> QED
    BY RoundToTickNearest
<1>3. 2 * (y - m) <= Grain /\ 2 * (m - y) <= Grain
  OBVIOUS
<1> HIDE DEF k, tick
<1>4. x \in Int /\ m \in Int
  BY <1>1, <1>2
<1>5. \/ x = m
      \/ x >= m + tick
      \/ x <= m - tick
  <2> DEFINE d == k - j
  <2>1. d \in Int /\ tick * d = x - m
    BY <1>1, <1>2
  <2> HIDE DEF d, x, m
  <2>2. d >= 1 => tick * d >= tick
    BY <1>1, <2>1
  <2>3. d <= -1 => tick * d <= -tick
    BY <1>1, <2>1
  <2>4. d = 0 => tick * d = 0
    BY <1>1
  <2> QED
    BY <1>1, <1>4, <2>1, <2>2, <2>3, <2>4
<1> HIDE DEF x, m
<1>6. 2 * (x - y) <= Grain /\ 2 * (y - x) <= Grain
  BY <1>1, <1>2, <1>3, <1>4, <1>5, GrainType
<1>7. /\ FourDecimals(x) \in Int
      /\ 2 * FourDecimals(x) <= 2 * x + Grain /\ 2 * FourDecimals(x) >= 2 * x - Grain
  BY <1>4, FourDecimalsNear
<1> QED
  BY <1>2, <1>4, <1>6, <1>7, GrainType

\* The depth of a quote at a level.
LEMMA RestLevels ==
  ASSUME NEW t \in Tokens, ~Instrument[t].is_index, NEW l \in 1..DEPTH_LEVELS,
         NEW i \in Int, market[t].last_price = Grain * i
  PROVE  \E s \in Int :
           /\ FourDecimals(Instrument[t].tick_size * l) = Grain * s
           /\ FullQuote(t).depth.sell[l].price = Grain * (i + s)
           /\ FullQuote(t).depth.buy[l].price = Grain * (i - s)
<1> DEFINE tick == Instrument[t].tick_size
           step == FourDecimals(tick * l)
           p == market[t].last_price
<1>1. tick * l \in Int
  <2>1. tick \in Int /\ l \in Int
    BY InstrumentType DEF Positive, DEPTH_LEVELS
  <2> HIDE DEF tick
  <2> QED
    BY <2>1
<1>2. PICK s \in Int : step = Grain * s
  BY <1>1, FourDecimalsNear
<1>3. /\ FullQuote(t).depth.sell[l].price = FourDecimals(p + step)
      /\ FullQuote(t).depth.buy[l].price = FourDecimals(p - step)
  BY DEF FullQuote, RestDepth, RestLevel
<1> HIDE DEF step, p, tick
<1>4. p + step = Grain * (i + s) /\ p - step = Grain * (i - s) /\ i + s \in Int /\ i - s \in Int
  BY <1>2, GrainType DEF p
<1>5. /\ FullQuote(t).depth.sell[l].price = Grain * (i + s)
      /\ FullQuote(t).depth.buy[l].price = Grain * (i - s)
  BY <1>3, <1>4, FourDecimalsExact
<1> QED
  BY <1>2, <1>5 DEF step, tick

\* A price of the stream is that of a level of the quote up to one in the fourth
\* decimal, whatever the tick; a bid where no floor applies to it.
LEMMA LevelsClose ==
  ASSUME NEW t \in Tokens, ~Instrument[t].is_index, NEW l \in 1..DEPTH_LEVELS, NEW k \in Int,
         market[t].last_price = FourDecimals(Instrument[t].tick_size * k)
  PROVE  LET p == market[t].last_price
             buy == FullQuote(t).depth.buy[l].price
             sell == FullQuote(t).depth.sell[l].price
         IN /\ Magnitude(sell - Offer(t, p, l)) <= Grain
            /\ buy <= Bid(t, p, l) + Grain
            /\ p > FourDecimals(DEPTH_LEVELS * Instrument[t].tick_size) =>
                 Magnitude(buy - Bid(t, p, l)) <= Grain
<1> DEFINE tick == Instrument[t].tick_size
           p == market[t].last_price
           buy == FullQuote(t).depth.buy[l].price
           sell == FullQuote(t).depth.sell[l].price
           a == tick * l
           step == FourDecimals(a)
           top == RoundToTick(t, 1000 * (p + a))
           below == RoundToTick(t, 1000 * (p - a))
           bid == RoundToTick(t, 1000 * Greatest(p - a, tick))
<1>1. tick \in Int /\ tick > 0 /\ l \in Int /\ l >= 1 /\ l <= 5
  BY InstrumentType DEF Positive, DEPTH_LEVELS
<1>2. Offer(t, p, l) = top /\ Bid(t, p, l) = bid
  BY DEF Offer, Bid
<1>3. p = FourDecimals(tick * k)
  OBVIOUS
<1>4. a \in Int /\ tick * k \in Int
  <2> HIDE DEF tick
  <2> QED
    BY <1>1
<1>5. PICK i \in Int : p = Grain * i
  BY <1>3, <1>4, FourDecimalsNear
<1>6. PICK s \in Int : step = Grain * s /\ sell = Grain * (i + s) /\ buy = Grain * (i - s)
  BY <1>5, RestLevels
<1>7. /\ p \in Int /\ 2 * p <= 2 * (tick * k) + Grain /\ 2 * p >= 2 * (tick * k) - Grain
      /\ step \in Int /\ 2 * step <= 2 * a + Grain /\ 2 * step >= 2 * a - Grain
  BY <1>3, <1>4, FourDecimalsNear
<1>8. /\ top \in Int /\ below \in Int /\ bid \in Int /\ below <= bid
      /\ \E j \in Int : top = Grain * j
      /\ \E j \in Int : below = Grain * j
      /\ \E j \in Int : bid = Grain * j
  <2> DEFINE x == 1000 * (p + a)
             y == 1000 * (p - a)
             z == 1000 * Greatest(p - a, tick)
  <2>1. x \in Int /\ y \in Int /\ z \in Int /\ y <= z
    <3> HIDE DEF p, a, tick
    <3> QED
      BY <1>1, <1>4, <1>7 DEF Greatest
  <2>2. ASSUME NEW w \in Int
        PROVE  RoundToTick(t, w) \in Int /\ \E j \in Int : RoundToTick(t, w) = Grain * j
    <3>1. PICK j \in Int : RoundToTick(t, w) = FourDecimals(tick * j)
      BY RoundToTickNear
    <3>2. tick * j \in Int
      <4> HIDE DEF tick
      <4> QED
        BY <1>1
    <3> QED
      BY <3>1, <3>2, FourDecimalsNear
  <2>3. top = RoundToTick(t, x) /\ below = RoundToTick(t, y) /\ bid = RoundToTick(t, z)
    OBVIOUS
  <2> HIDE DEF x, y, z, top, below, bid
  <2>4. RoundToTick(t, y) <= RoundToTick(t, z)
    BY <2>1, RoundToTickMonotone
  <2> QED
    BY <2>1, <2>2, <2>3, <2>4
<1>9. RoundToTick(t, 1000 * tick) = FourDecimals(tick)
  BY OneTick
<1>10. \A y, j \in Int :
         2 * (y - tick * j) <= Grain /\ 2 * (tick * j - y) <= Grain =>
           /\ RoundToTick(t, 1000 * y) - y <= Grain
           /\ y - RoundToTick(t, 1000 * y) <= Grain
  BY LevelNear
<1>11. FourDecimals(DEPTH_LEVELS * tick) = FourDecimals(tick * 5)
  <2>1. DEPTH_LEVELS * tick = tick * 5
    BY <1>1 DEF DEPTH_LEVELS
  <2> QED
    BY <2>1
<1>12. /\ tick * (k + l) = tick * k + a /\ tick * (k - l) = tick * k - a
       /\ k + l \in Int /\ k - l \in Int
  <2> HIDE DEF tick
  <2> QED
    BY <1>1
<1> HIDE DEF tick, p, buy, sell, a, step
<1>13. top - (p + a) <= Grain /\ (p + a) - top <= Grain
  <2> DEFINE y == p + a
             j == k + l
  <2>1. y \in Int /\ j \in Int /\ tick * j = tick * k + a
    BY <1>4, <1>7, <1>12
  <2>2. y - (tick * k + a) = p - tick * k
    BY <1>4, <1>7
  <2> HIDE DEF y, j
  <2>3. 2 * (y - tick * j) <= Grain /\ 2 * (tick * j - y) <= Grain
    BY <1>4, <1>7, <2>1, <2>2, GrainType
  <2>4. RoundToTick(t, 1000 * y) - y <= Grain /\ y - RoundToTick(t, 1000 * y) <= Grain
    BY <1>10, <2>1, <2>3
  <2> QED
    BY <2>4 DEF y, top
<1>14. below - (p - a) <= Grain /\ (p - a) - below <= Grain
  <2> DEFINE y == p - a
             j == k - l
  <2>1. y \in Int /\ j \in Int /\ tick * j = tick * k - a
    BY <1>4, <1>7, <1>12
  <2>2. y - (tick * k - a) = p - tick * k
    BY <1>4, <1>7
  <2> HIDE DEF y, j
  <2>3. 2 * (y - tick * j) <= Grain /\ 2 * (tick * j - y) <= Grain
    BY <1>4, <1>7, <2>1, <2>2, GrainType
  <2>4. RoundToTick(t, 1000 * y) - y <= Grain /\ y - RoundToTick(t, 1000 * y) <= Grain
    BY <1>10, <2>1, <2>3
  <2> QED
    BY <2>4 DEF y, below
<1> HIDE DEF top, below, bid
<1>15. sell = p + step /\ buy = p - step /\ sell \in Int /\ buy \in Int
  BY <1>5, <1>6, <1>7, GrainType
<1>16. \A x \in Int, y \in Int :
         /\ \E j \in Int : x = Grain * j
         /\ \E j \in Int : y = Grain * j
         /\ 2 * (x - y) <= 3 * Grain /\ 2 * (y - x) <= 3 * Grain
         => Magnitude(x - y) <= Grain
  BY OneInTheFourth
<1>17. (\E j \in Int : sell = Grain * j) /\ (\E j \in Int : buy = Grain * j)
  <2>1. i + s \in Int /\ i - s \in Int
    OBVIOUS
  <2> QED
    BY <1>6, <2>1
<1>18. Magnitude(sell - top) <= Grain
  <2>1. 2 * (sell - top) <= 3 * Grain /\ 2 * (top - sell) <= 3 * Grain
    BY <1>4, <1>7, <1>8, <1>13, <1>15, GrainType
  <2> QED
    BY <1>8, <1>15, <1>16, <1>17, <2>1
<1>19. Magnitude(buy - below) <= Grain
  <2>1. 2 * (buy - below) <= 3 * Grain /\ 2 * (below - buy) <= 3 * Grain
    BY <1>4, <1>7, <1>8, <1>14, <1>15, GrainType
  <2> QED
    BY <1>8, <1>15, <1>16, <1>17, <2>1
<1>20. buy <= bid + Grain
  BY <1>8, <1>15, <1>19, GrainType DEF Magnitude
<1>21. ASSUME p > FourDecimals(tick * 5)
       PROVE  Magnitude(buy - bid) <= Grain
  <2>1. CASE p - a >= tick
    <3>1. Greatest(p - a, tick) = p - a
      BY <1>1, <1>4, <1>7, <2>1 DEF Greatest
    <3> QED
      BY <1>19, <3>1 DEF bid, below
  <2>2. CASE p - a < tick
    <3>1. Greatest(p - a, tick) = tick
      BY <1>1, <1>4, <1>7, <2>2 DEF Greatest
    <3>2. bid = FourDecimals(tick)
      BY <1>9, <3>1 DEF bid
    <3>3. k >= 6
      <4>1. SUFFICES ASSUME k <= 5 PROVE FALSE
        OBVIOUS
      <4>2. tick * k <= tick * 5 /\ tick * 5 \in Int
        BY <1>1, <4>1
      <4>3. FourDecimals(tick * k) <= FourDecimals(tick * 5)
        BY <1>4, <4>2, FourDecimalsMonotone
      <4>4. FourDecimals(tick * 5) \in Int
        BY <4>2, FourDecimalsNear
      <4> QED
        BY <1>3, <1>7, <1>21, <4>3, <4>4
    <3>4. tick * (k - l) >= tick
      <4>1. k - l \in Int /\ k - l >= 1
        BY <1>1, <3>3
      <4> QED
        BY <1>1, <4>1
    <3>5. 2 * bid <= 2 * tick + Grain /\ 2 * bid >= 2 * tick - Grain
      BY <1>1, <3>2, FourDecimalsNear
    <3>6. 2 * (buy - bid) <= 3 * Grain /\ 2 * (bid - buy) <= 3 * Grain
      BY <1>1, <1>4, <1>7, <1>8, <1>12, <1>15, <2>2, <3>4, <3>5, GrainType
    <3> QED
      BY <1>8, <1>15, <1>16, <1>17, <3>6
  <2> QED
    BY <1>1, <1>4, <1>7, <2>1, <2>2
<1> QED
  BY <1>2, <1>11, <1>18, <1>20, <1>21 DEF p, buy, sell, tick

\* Exactly so if the tick has four decimals.
LEMMA LevelsEqual ==
  ASSUME NEW t \in Tokens, ~Instrument[t].is_index, NEW l \in 1..DEPTH_LEVELS, NEW k \in Int,
         market[t].last_price = FourDecimals(Instrument[t].tick_size * k),
         Instrument[t].tick_size % Grain = 0
  PROVE  LET p == market[t].last_price
             buy == FullQuote(t).depth.buy[l].price
         IN /\ FullQuote(t).depth.sell[l].price = Offer(t, p, l)
            /\ buy <= Bid(t, p, l)
            /\ p > FourDecimals(DEPTH_LEVELS * Instrument[t].tick_size) => buy = Bid(t, p, l)
<1> DEFINE tick == Instrument[t].tick_size
           p == market[t].last_price
           buy == FullQuote(t).depth.buy[l].price
           sell == FullQuote(t).depth.sell[l].price
<1>1. tick \in Int /\ tick > 0 /\ l \in Int /\ l >= 1 /\ l <= 5
  BY InstrumentType DEF Positive, DEPTH_LEVELS
<1>2. PICK c \in Int : tick = Grain * c
  <2>1. tick % Grain = 0
    OBVIOUS
  <2> HIDE DEF tick
  <2> DEFINE q == tick \div Grain
             r == tick % Grain
  <2>2. q \in Int /\ tick = Grain * q + r
    BY <1>1, GrainType, Division
  <2>3. r = 0
    BY <2>1
  <2> HIDE DEF q, r
  <2>4. Grain * q + 0 = Grain * q
    BY <2>2, GrainType
  <2> QED
    BY <2>2, <2>3, <2>4
<1>3. p = FourDecimals(tick * k)
  OBVIOUS
<1>4. /\ Offer(t, p, l) = FourDecimals(tick * (k + l))
      /\ Bid(t, p, l) = FourDecimals(tick * Greatest(k - l, 1))
  <2>1. Grain <= tick
    <3> HIDE DEF tick
    <3>1. c >= 1
      <4>1. SUFFICES ASSUME c <= 0 PROVE FALSE
        OBVIOUS
      <4>2. Grain * c <= 0
        BY <4>1, GrainType
      <4> QED
        BY <1>1, <1>2, <4>2
    <3>2. Grain * c >= Grain
      BY <3>1, GrainType
    <3> QED
      BY <1>2, <3>2
  <2> QED
    BY <2>1, <1>3, LevelsCounted
<1>5. ASSUME NEW j \in Int PROVE FourDecimals(tick * j) = Grain * (c * j)
  <2> HIDE DEF tick
  <2>1. tick * j = Grain * (c * j) /\ c * j \in Int
    BY <1>2, GrainType
  <2> QED
    BY <2>1, FourDecimalsExact
<1>6. p = Grain * (c * k) /\ c * k \in Int
  BY <1>3, <1>5
<1>7. PICK s \in Int : /\ FourDecimals(tick * l) = Grain * s
                       /\ sell = Grain * (c * k + s) /\ buy = Grain * (c * k - s)
  BY <1>6, RestLevels
<1>8. Grain * s = Grain * (c * l)
  BY <1>1, <1>5, <1>7
<1>9. FourDecimals(DEPTH_LEVELS * tick) = Grain * (c * 5)
  <2>1. DEPTH_LEVELS * tick = tick * 5
    BY <1>1 DEF DEPTH_LEVELS
  <2> QED
    BY <1>5, <2>1
<1>10. /\ Offer(t, p, l) = Grain * (c * (k + l))
       /\ Bid(t, p, l) = Grain * (c * Greatest(k - l, 1))
  <2>1. k + l \in Int /\ Greatest(k - l, 1) \in Int
    BY <1>1 DEF Greatest
  <2> QED
    BY <1>4, <1>5, <2>1
<1> HIDE DEF tick, p, buy, sell
<1>11. \A j \in Int : tick * j = Grain * (c * j) /\ tick * j \in Int
  BY <1>1, <1>2, GrainType
<1>12. sell = tick * k + tick * l /\ buy = tick * k - tick * l
  <2>1. Grain * (c * k + s) = Grain * (c * k) + Grain * s
    BY <1>6, GrainType
  <2>2. Grain * (c * k - s) = Grain * (c * k) - Grain * s
    BY <1>6, GrainType
  <2> QED
    BY <1>1, <1>7, <1>8, <1>11, <2>1, <2>2
<1>13. tick * (k + l) = tick * k + tick * l /\ tick * (k - l) = tick * k - tick * l
  BY <1>1
<1>14. Offer(t, p, l) = tick * (k + l) /\ Bid(t, p, l) = tick * Greatest(k - l, 1)
  <2>1. k + l \in Int /\ Greatest(k - l, 1) \in Int
    BY <1>1 DEF Greatest
  <2> QED
    BY <1>10, <1>11, <2>1
<1>15. buy <= Bid(t, p, l)
  <2>1. k - l \in Int /\ Greatest(k - l, 1) \in Int /\ Greatest(k - l, 1) >= k - l
    BY <1>1 DEF Greatest
  <2>2. tick * Greatest(k - l, 1) >= tick * (k - l)
    BY <1>1, <2>1
  <2> QED
    BY <1>12, <1>13, <1>14, <2>2
<1>16. ASSUME p > Grain * (c * 5) PROVE buy = Bid(t, p, l)
  <2>1. tick * k > tick * 5
    BY <1>6, <1>11, <1>16
  <2>2. k > 5
    <3>1. SUFFICES ASSUME k <= 5 PROVE FALSE
      OBVIOUS
    <3>2. tick * k <= tick * 5
      BY <1>1, <3>1
    <3> QED
      BY <1>1, <2>1, <3>2
  <2>3. Greatest(k - l, 1) = k - l
    BY <1>1, <2>2 DEF Greatest
  <2> QED
    BY <1>12, <1>13, <1>14, <2>3
<1> QED
  BY <1>9, <1>12, <1>13, <1>14, <1>15, <1>16 DEF p, buy, sell, tick

\* The prices of the depth a quote computes are those on the wire, up to one in
\* the fourth decimal and exactly for a tick of four decimals, but for bids that
\* would be below one tick.
THEOREM QuotesAlwaysAgree == Spec => []QuoteAgreesWithStream
<1>1. ASSUME SoundStream PROVE QuoteAgreesWithStream
  <2> SUFFICES ASSUME NEW t \in Tokens, market[t].bids # <<>>, NEW l \in 1..DEPTH_LEVELS
               PROVE  LET st == market[t]
                          tick == Instrument[t].tick_size
                          buy == FullQuote(t).depth.buy[l].price
                          sell == FullQuote(t).depth.sell[l].price
                          high == st.last_price > FourDecimals(DEPTH_LEVELS * tick)
                      IN /\ Magnitude(sell - st.offers[l].price) <= Grain
                         /\ buy <= st.bids[l].price + Grain
                         /\ high => Magnitude(buy - st.bids[l].price) <= Grain
                         /\ tick % Grain = 0 =>
                              /\ sell = st.offers[l].price
                              /\ buy <= st.bids[l].price
                              /\ high => buy = st.bids[l].price
    BY DEF QuoteAgreesWithStream
  <2>1. Book(t, market[t])
    BY <1>1 DEF SoundStream, MarketSound, Sound
  <2>2. /\ ~Instrument[t].is_index
        /\ market[t].bids[l].price = Bid(t, market[t].last_price, l)
        /\ market[t].offers[l].price = Offer(t, market[t].last_price, l)
    BY <2>1 DEF Book
  <2>3. PICK k \in Int : market[t].last_price = FourDecimals(Instrument[t].tick_size * k)
    BY <2>1 DEF Book
  <2> QED
    BY <2>2, <2>3, LevelsClose, LevelsEqual
<1> QED
  BY <1>1, AlwaysSound, PTL

-----------------------------------------------------------------------------
(* The walk can be replayed from the seed and the instruments stepped.     *)

Seeded == [t \in Tokens |-> InitState(t)]

\* The market m after the n-th step of the sequence d, under seed s.
After(m, d, n, s) ==
  [m EXCEPT ![d[n]] = Step(d[n], @, Draw(s, SubSeq(d, 1, n - 1), d[n]))]

Replays(run, d, s) ==
  run = [n \in 0..Len(d) |-> IF n = 0 THEN Seeded ELSE After(run[n - 1], d, n, s)]
RunOf(d, s) == CHOOSE run : Replays(run, d, s)

LEMMA ReplayedIs == Replayed = [n \in 0..Len(drawn) |-> RunOf(drawn, seed)[n]]
BY DEF Replayed, RunOf, Replays, After, Seeded

LEMMA AfterType ==
  ASSUME NEW d \in Histories, NEW s \in Seeds, NEW n \in 1..Len(d), NEW m \in [Tokens -> State]
  PROVE  After(m, d, n, s) \in [Tokens -> State]
<1> DEFINE h == SubSeq(d, 1, n - 1)
<1>1. d \in Seq(Tokens) /\ Len(d) <= MaxSteps /\ Len(d) \in Nat /\ MaxSteps \in Nat
  BY HistoryIsSeq, MarketAssumption, LenProperties
<1>2. d[n] \in Tokens /\ \A i \in 1..n - 1 : d[i] \in Tokens
  BY <1>1, ElementOfSeq
<1>3. h \in Seq(Tokens) /\ Len(h) = n - 1
  BY <1>1, <1>2, SubSeqProperties
<1>4. h \in Histories
  <2>1. Len(h) <= MaxSteps
    BY <1>1, <1>3
  <2> QED
    BY <1>3, <2>1, HistoryIsSeq
<1>5. Draw(s, h, d[n]) \in Drawn
  BY <1>2, <1>4, DrawAssumption
<1> DEFINE e == Draw(s, h, d[n])
<1>6. e \in Drawn
  BY <1>5
<1>7. After(m, d, n, s) = [m EXCEPT ![d[n]] = Step(d[n], m[d[n]], e)]
  BY DEF After
<1> HIDE DEF e
<1>8. Step(d[n], m[d[n]], e) \in State
  BY <1>2, <1>6, StepType
<1> QED
  BY <1>2, <1>7, <1>8

\* There is a run over any sequence, and what it goes through are states.
LEMMA RunExists ==
  ASSUME NEW d \in Histories, NEW s \in Seeds
  PROVE  Replays(RunOf(d, s), d, s)
<1> DEFINE V == [Tokens -> State]
           N == Len(d)
           g == [p \in (1..N) \X V |-> After(p[2], d, p[1], s)]
<1>1. N \in Nat
  BY HistoryIsSeq, LenProperties
<1>2. Seeded \in V
  BY InitStateType DEF Seeded
<1>3. g \in [(1..N) \X V -> V]
  BY AfterType
<1>4. \A n \in 1..N, m \in V : g[<<n, m>>] = After(m, d, n, s)
  OBVIOUS
<1> HIDE DEF V, g
<1>5. PICK f \in [0..N -> V] : Recursive(f, N, Seeded, g)
  <2> HIDE DEF N
  <2> QED
    BY <1>1, <1>2, <1>3, RecursionExists
<1>6. ASSUME NEW n \in 0..N, n # 0
      PROVE  g[<<n, f[n - 1]>>] = After(f[n - 1], d, n, s)
  BY <1>1, <1>4, <1>5, <1>6
<1>7. Replays(f, d, s)
  BY <1>5, <1>6 DEF Replays, Recursive
<1> QED
  BY <1>7 DEF RunOf

LEMMA PrefixAgrees ==
  ASSUME NEW d \in Seq(Tokens), NEW e \in Seq(Tokens), NEW n \in Nat,
         n <= Len(d), n <= Len(e), \A i \in 1..n : d[i] = e[i]
  PROVE  SubSeq(d, 1, n) = SubSeq(e, 1, n)
<1> DEFINE a == SubSeq(d, 1, n)
           b == SubSeq(e, 1, n)
<1>1. \A i \in 1..n : d[i] \in Tokens /\ e[i] \in Tokens
  BY ElementOfSeq, LenProperties
<1>2. /\ a \in Seq(Tokens) /\ Len(a) = n /\ \A i \in 1..n : a[i] = d[i]
      /\ b \in Seq(Tokens) /\ Len(b) = n /\ \A i \in 1..n : b[i] = e[i]
  BY <1>1, SubSeqProperties
<1> HIDE DEF a, b
<1>3. a = b
  BY <1>2, SeqEqual
<1> QED
  BY <1>3 DEF a, b

\* Two histories that agree so far have gone through the same states.
LEMMA RunPrefix ==
  ASSUME NEW d \in Seq(Tokens), NEW e \in Seq(Tokens), Len(d) <= Len(e),
         \A n \in 1..Len(d) : d[n] = e[n],
         NEW s, NEW q, NEW r, Replays(q, d, s), Replays(r, e, s)
  PROVE  \A n \in 0..Len(d) : q[n] = r[n]
<1> DEFINE T == {n \in Nat : n <= Len(d) => q[n] = r[n]}
<1>1. Len(d) \in Nat /\ Len(e) \in Nat
  BY LenProperties
<1>2. 0 \in T
  BY <1>1 DEF Replays
<1>3. ASSUME NEW n \in Nat, n \in T
      PROVE  n + 1 \in T
  <2>1. SUFFICES ASSUME n + 1 <= Len(d)
                 PROVE  q[n + 1] = r[n + 1]
    OBVIOUS
  <2>2. q[n] = r[n] /\ n + 1 \in 0..Len(d) /\ n + 1 \in 0..Len(e) /\ n + 1 # 0 /\ (n + 1) - 1 = n
    BY <1>1, <1>3, <2>1
  <2>3. q[n + 1] = After(q[n], d, n + 1, s) /\ r[n + 1] = After(r[n], e, n + 1, s)
    BY <2>2 DEF Replays
  <2>4. SubSeq(d, 1, n) = SubSeq(e, 1, n)
    BY <1>1, <2>1, PrefixAgrees
  <2>5. d[n + 1] = e[n + 1]
    BY <2>1
  <2> QED
    BY <2>2, <2>3, <2>4, <2>5 DEF After
<1>4. Nat \subseteq T
  <2> HIDE DEF T
  <2> QED
    BY <1>2, <1>3, NumbersInductive
<1> QED
  BY <1>1, <1>4

Distinct(ts) == \A j, k \in DOMAIN ts : ts[j] = ts[k] => j = k

\* The market between two instruments of ts: k of them have been stepped.
Midway(ts, k) ==
  [t \in Tokens |-> IF \E j \in 1..k : ts[j] = t
                    THEN Stepped(ts, CHOOSE j \in DOMAIN ts : ts[j] = t)
                    ELSE market[t]]

\* The history with ts appended, up to what precedes the k-th of ts.
LEMMA SteppedBefore ==
  ASSUME NEW d \in Seq(Tokens), NEW ts \in Seq(Tokens), NEW k \in 1..Len(ts)
  PROVE  /\ (d \o ts)[Len(d) + k] = ts[k]
         /\ SubSeq(d \o ts, 1, Len(d) + k - 1) = d \o SubSeq(ts, 1, k - 1)
<1> DEFINE e == d \o ts
           h == SubSeq(ts, 1, k - 1)
           a == SubSeq(e, 1, Len(d) + k - 1)
           b == d \o h
<1>1. Len(d) \in Nat /\ Len(ts) \in Nat /\ k \in Nat /\ k >= 1 /\ k <= Len(ts)
  BY LenProperties
<1>2. /\ e \in Seq(Tokens) /\ Len(e) = Len(d) + Len(ts)
      /\ \A i \in 1..Len(d) + Len(ts) : e[i] = IF i <= Len(d) THEN d[i] ELSE ts[i - Len(d)]
  BY ConcatProperties
<1>3. /\ h \in Seq(Tokens) /\ Len(h) = k - 1 /\ \A i \in 1..k - 1 : h[i] = ts[i]
  <2>1. \A i \in 1..k - 1 : ts[i] \in Tokens
    BY <1>1, ElementOfSeq
  <2>2. k - 1 \in Int /\ (1 <= k - 1 \/ k - 1 = 0)
    BY <1>1
  <2> QED
    BY <2>1, <2>2, SubSeqProperties
<1> HIDE DEF e, h
<1>4. /\ b \in Seq(Tokens) /\ Len(b) = Len(d) + k - 1
      /\ \A i \in 1..Len(d) + k - 1 : b[i] = IF i <= Len(d) THEN d[i] ELSE h[i - Len(d)]
  <2>1. /\ d \o h \in Seq(Tokens) /\ Len(d \o h) = Len(d) + Len(h)
        /\ \A i \in 1..Len(d) + Len(h) : (d \o h)[i] = IF i <= Len(d) THEN d[i] ELSE h[i - Len(d)]
    BY <1>3, ConcatProperties
  <2>2. Len(d) + Len(h) = Len(d) + k - 1
    BY <1>1, <1>3
  <2> HIDE DEF b
  <2> QED
    BY <2>1, <2>2 DEF b
<1>5. /\ a \in Seq(Tokens) /\ Len(a) = Len(d) + k - 1
      /\ \A i \in 1..Len(d) + k - 1 : a[i] = e[i]
  <2> DEFINE n == Len(d) + k - 1
  <2>1. n \in Int /\ n >= 0 /\ n <= Len(e)
    BY <1>1, <1>2
  <2>2. \A i \in 1..n : e[i] \in Tokens
    BY <1>2, <2>1, ElementOfSeq
  <2> HIDE DEF n
  <2>3. SubSeq(e, 1, n) \in Seq(Tokens) /\ Len(SubSeq(e, 1, n)) = n
        /\ \A i \in 1..n : SubSeq(e, 1, n)[i] = e[i]
    BY <2>1, <2>2, SubSeqProperties
  <2> QED
    BY <2>3 DEF n
<1> HIDE DEF a, b
<1>6. ASSUME NEW i \in 1..Len(d) + k - 1
      PROVE  a[i] = b[i]
  <2>1. i \in 1..Len(d) + Len(ts) /\ (~(i <= Len(d)) => i - Len(d) \in 1..k - 1)
    BY <1>1
  <2>2. e[i] = IF i <= Len(d) THEN d[i] ELSE ts[i - Len(d)]
    BY <1>2, <2>1
  <2> QED
    BY <1>3, <1>4, <1>5, <2>1, <2>2
<1>7. a = b
  BY <1>4, <1>5, <1>6, SeqEqual
<1>8. e[Len(d) + k] = ts[k]
  <2>1. Len(d) + k \in 1..Len(d) + Len(ts) /\ ~(Len(d) + k <= Len(d)) /\ (Len(d) + k) - Len(d) = k
    BY <1>1
  <2> QED
    BY <1>2, <2>1
<1> QED
  BY <1>7, <1>8 DEF a, b, e, h

\* What a frame steps, the replay steps too, one after the other.
LEMMA ReplayMidway ==
  ASSUME MarketSound, Reproducible, NEW ts \in Seq(Tokens), Distinct(ts), Advance(ts)
  PROVE  /\ drawn' \in Histories /\ Len(drawn') = Len(drawn) + Len(ts)
         /\ \A n \in 0..Len(drawn) : Replayed'[n] = Replayed[n]
         /\ \A k \in 0..Len(ts) : Replayed'[Len(drawn) + k] = Midway(ts, k)
<1> DEFINE e == drawn \o ts
           q == RunOf(e, seed)
           r == RunOf(drawn, seed)
           N == Len(drawn)
<1>1. drawn \in Seq(Tokens) /\ drawn \in Histories /\ seed \in Seeds
  BY HistoryIsSeq DEF MarketSound, MarketTypeOK
<1>2. drawn' = e /\ seed' = seed
  BY DEF Advance
<1>3. e \in Histories
  BY <1>2, AdvanceSound DEF MarketSound, MarketTypeOK
<1>4. /\ e \in Seq(Tokens) /\ Len(e) = N + Len(ts) /\ N \in Nat /\ Len(ts) \in Nat
      /\ \A i \in 1..N : e[i] = drawn[i]
  <2>1. N \in Nat /\ Len(ts) \in Nat
    BY <1>1, LenProperties
  <2>2. /\ e \in Seq(Tokens) /\ Len(e) = N + Len(ts)
        /\ \A i \in 1..N + Len(ts) : e[i] = IF i <= N THEN drawn[i] ELSE ts[i - N]
    BY <1>1, ConcatProperties
  <2> HIDE DEF e
  <2> QED
    BY <2>1, <2>2
<1>5. Replays(q, e, seed) /\ Replays(r, drawn, seed)
  BY <1>1, <1>3, RunExists
<1>6. /\ Replayed = [n \in 0..N |-> r[n]]
      /\ Replayed' = [n \in 0..N + Len(ts) |-> q[n]]
  <2>1. Replayed = [n \in 0..Len(drawn) |-> RunOf(drawn, seed)[n]]
    BY ReplayedIs
  <2>2. Replayed' = [n \in 0..Len(drawn') |-> RunOf(drawn', seed')[n]]
    BY DEF Replayed, RunOf, Replays, After, Seeded
  <2>3. Replayed' = [n \in 0..Len(e) |-> RunOf(e, seed)[n]]
    BY <1>2, <2>2
  <2> HIDE DEF e
  <2> QED
    BY <1>4, <2>1, <2>3
<1> HIDE DEF e, q, r
<1>7. \A n \in 0..N : q[n] = r[n]
  <2>1. N <= Len(e) /\ \A n \in 1..N : drawn[n] = e[n]
    BY <1>4
  <2> QED
    BY <1>1, <1>4, <1>5, <2>1, RunPrefix
<1> DEFINE T == {k \in Nat : k <= Len(ts) => q[N + k] = Midway(ts, k)}
<1>8. 0 \in T
  <2>1. q[N] = market
    BY <1>4, <1>6, <1>7 DEF Reproducible
  <2>2. Midway(ts, 0) = [t \in Tokens |-> market[t]]
    BY DEF Midway
  <2>3. market = [t \in Tokens |-> market[t]]
    BY DEF MarketSound, MarketTypeOK
  <2> QED
    BY <1>4, <2>1, <2>2, <2>3
<1>9. ASSUME NEW k \in Nat, k \in T
      PROVE  k + 1 \in T
  <2>1. SUFFICES ASSUME k + 1 <= Len(ts)
                 PROVE  q[N + (k + 1)] = Midway(ts, k + 1)
    OBVIOUS
  <2> DEFINE t == ts[k + 1]
             n == N + (k + 1)
             m == Midway(ts, k)
  <2>2. k + 1 \in 1..Len(ts) /\ k + 1 \in DOMAIN ts /\ DOMAIN ts = 1..Len(ts) /\ t \in Tokens
    BY <1>4, <2>1, LenProperties, ElementOfSeq
  <2>3. q[N + k] = m
    BY <1>9, <2>1
  <2>4. n \in 0..Len(e) /\ n # 0 /\ n - 1 = N + k
    BY <1>4, <2>1
  <2>5. q[n] = After(q[n - 1], e, n, seed)
    BY <1>5, <2>4 DEF Replays
  <2>6. e[n] = t /\ SubSeq(e, 1, n - 1) = drawn \o SubSeq(ts, 1, k)
    <3>1. /\ (drawn \o ts)[Len(drawn) + (k + 1)] = ts[k + 1]
          /\ SubSeq(drawn \o ts, 1, Len(drawn) + (k + 1) - 1) = drawn \o SubSeq(ts, 1, (k + 1) - 1)
      BY <1>1, <2>2, SteppedBefore
    <3>2. (k + 1) - 1 = k
      OBVIOUS
    <3>3. N + (k + 1) - 1 = (N + (k + 1)) - 1
      BY <1>4
    <3> QED
      BY <3>1, <3>2, <3>3 DEF e
  <2>7. \A j \in DOMAIN ts : ts[j] = t => j = k + 1
    BY <2>2 DEF Distinct
  <2>8. m[t] = market[t]
    <3>1. ~\E j \in 1..k : ts[j] = t
      BY <2>1, <2>2, <2>7
    <3> QED
      BY <2>2, <3>1 DEF Midway
  <2>9. (CHOOSE j \in DOMAIN ts : ts[j] = t) = k + 1
    BY <2>2, <2>7
  <2>10. Stepped(ts, k + 1) = Step(t, market[t], Draw(seed, drawn \o SubSeq(ts, 1, k), t))
    <3>1. (k + 1) - 1 = k
      OBVIOUS
    <3> QED
      BY <3>1 DEF Stepped
  <2>11. q[n] = [m EXCEPT ![t] = Stepped(ts, k + 1)]
    BY <2>3, <2>4, <2>5, <2>6, <2>8, <2>10 DEF After
  <2>12. ASSUME NEW u \in Tokens
         PROVE  q[n][u] = Midway(ts, k + 1)[u]
    <3>1. m \in [Tokens -> UNION {{m[v]} : v \in Tokens}] /\ DOMAIN m = Tokens
      BY DEF Midway
    <3>2. CASE u = t
      <4>1. q[n][u] = Stepped(ts, k + 1)
        BY <2>11, <3>1, <3>2
      <4>2. \E j \in 1..k + 1 : ts[j] = u
        BY <2>2, <3>2
      <4> QED
        BY <2>9, <3>2, <4>1, <4>2 DEF Midway
    <3>3. CASE u # t
      <4>1. q[n][u] = m[u]
        BY <2>11, <3>1, <3>3
      <4>2. (\E j \in 1..k + 1 : ts[j] = u) <=> (\E j \in 1..k : ts[j] = u)
        BY <3>3
      <4> QED
        BY <4>1, <4>2 DEF Midway
    <3> QED
      BY <3>2, <3>3
  <2>13. DOMAIN q[n] = Tokens /\ q[n] = [u \in Tokens |-> q[n][u]]
    BY <2>11 DEF Midway
  <2>14. Midway(ts, k + 1) = [u \in Tokens |-> Midway(ts, k + 1)[u]]
    BY DEF Midway
  <2> HIDE DEF n
  <2>15. q[n] = Midway(ts, k + 1)
    BY <2>12, <2>13, <2>14
  <2> QED
    BY <2>15 DEF n
<1>10. Nat \subseteq T
  <2> HIDE DEF T
  <2> QED
    BY <1>8, <1>9, NumbersInductive
<1>11. \A k \in 0..Len(ts) : Replayed'[N + k] = Midway(ts, k)
  <2> TAKE k \in 0..Len(ts)
  <2>1. k \in T /\ k <= Len(ts) /\ N + k \in 0..N + Len(ts)
    BY <1>4, <1>10
  <2> QED
    BY <1>6, <2>1
<1>12. \A n \in 0..N : Replayed'[n] = Replayed[n]
  BY <1>4, <1>6, <1>7
<1> QED
  BY <1>2, <1>3, <1>4, <1>11, <1>12

\* The range st gives is that of the prices of the states in S.
PriceRange(S, st) ==
  /\ st.low \in Nat /\ st.high \in Nat
  /\ \A v \in S : v.last_price \in st.low..st.high
  /\ \E v \in S : v.last_price = st.high
  /\ \E v \in S : v.last_price = st.low

\* The same for the open interest of the states after a step, which may be none.
OiRangeOf(S, st) ==
  /\ st.oi_day_high \in Nat /\ st.oi_day_low \in Nat
  /\ S = {} => st.oi_day_high = 0 /\ st.oi_day_low = 0
  /\ \A v \in S : v.oi \in Nat /\ v.oi <= st.oi_day_high
  /\ S # {} => \E v \in S : v.oi = st.oi_day_high
  /\ S # {} /\ (\A v \in S : v.oi # 0) =>
       /\ \E v \in S : v.oi = st.oi_day_low
       /\ \A v \in S : v.oi >= st.oi_day_low

\* What a step does to the running ranges.
LEMMA StepRanges ==
  ASSUME NEW t \in Tokens, NEW st \in State, NEW d \in Drawn
  PROVE  LET after == Step(t, st, d)
             price == Walk(t, st.last_price, d.gauss)
         IN /\ price \in Nat /\ after.last_price = price
            /\ after.high = Greatest(st.high, price) /\ after.low = Least(st.low, price)
            /\ Instrument[t].is_index => after.volume = st.volume
            /\ ~Instrument[t].is_index =>
                 /\ after.oi = d.oi /\ after.oi_day_high = Greatest(st.oi_day_high, d.oi)
                 /\ after.oi_day_low = DayLow(st.oi_day_low, d.oi)
                 /\ after.volume = st.volume + d.ltq * Instrument[t].lot_size
<1> DEFINE price == Walk(t, st.last_price, d.gauss)
           moved == Move(st, price)
           after == Step(t, st, d)
<1>1. price \in Nat
  BY WalkInBand, StateFields, DrawnFields
<1> HIDE DEF price
<1>2. /\ moved.last_price = price
      /\ moved.high = Greatest(st.high, price) /\ moved.low = Least(st.low, price)
      /\ moved.volume = st.volume
      /\ moved.oi_day_high = st.oi_day_high /\ moved.oi_day_low = st.oi_day_low
  BY DEF Move, State
<1>3. moved \in State
  BY <1>1, MoveType
<1> HIDE DEF moved
<1>4. CASE Instrument[t].is_index
  <2>1. after = moved
    BY <1>4 DEF Step, price, moved
  <2> QED
    BY <1>1, <1>2, <1>4, <2>1 DEF price
<1>5. CASE ~Instrument[t].is_index
  <2>1. after = Trade(t, moved, price, d)
    BY <1>5 DEF Step, price, moved
  <2> HIDE DEF after
  <2>2. /\ after.last_price = moved.last_price
        /\ after.high = moved.high /\ after.low = moved.low
        /\ after.oi = d.oi /\ after.oi_day_high = Greatest(moved.oi_day_high, d.oi)
        /\ after.oi_day_low = DayLow(moved.oi_day_low, d.oi)
        /\ after.volume = moved.volume + d.ltq * Instrument[t].lot_size
    BY <1>3, <2>1 DEF Trade, State, VolumeAfter
  <2> QED
    BY <1>1, <1>2, <1>5, <2>2 DEF price, after
<1> QED
  BY <1>4, <1>5

\* A step keeps the range of the prices exact.
LEMMA StepKeepsPriceRange ==
  ASSUME NEW t \in Tokens, NEW st \in State, NEW d \in Drawn, NEW S, PriceRange(S, st)
  PROVE  PriceRange(S \cup {Step(t, st, d)}, Step(t, st, d))
<1> DEFINE after == Step(t, st, d)
           price == Walk(t, st.last_price, d.gauss)
           R == S \cup {after}
<1>1. /\ price \in Nat /\ after.last_price = price
      /\ after.high = Greatest(st.high, price) /\ after.low = Least(st.low, price)
  BY StepRanges
<1> HIDE DEF after, price
<1>2. /\ after.low \in Nat /\ after.high \in Nat /\ after.low <= price /\ price <= after.high
      /\ after.low <= st.low /\ st.high <= after.high
      /\ after.low = st.low \/ after.low = price
      /\ after.high = st.high \/ after.high = price
  BY <1>1 DEF PriceRange, Greatest, Least
<1>3. \A v \in R : v.last_price \in after.low..after.high
  BY <1>1, <1>2 DEF PriceRange
<1>4. (\E v \in R : v.last_price = after.high) /\ \E v \in R : v.last_price = after.low
  BY <1>1, <1>2 DEF PriceRange
<1>5. PriceRange(R, after)
  BY <1>2, <1>3, <1>4 DEF PriceRange
<1> QED
  BY <1>5 DEF after

\* And that of the open interest.
LEMMA StepKeepsOiRange ==
  ASSUME NEW t \in Tokens, ~Instrument[t].is_index, NEW st \in State, NEW d \in Drawn,
         NEW S, OiRangeOf(S, st)
  PROVE  OiRangeOf(S \cup {Step(t, st, d)}, Step(t, st, d))
<1> DEFINE after == Step(t, st, d)
           R == S \cup {after}
<1>1. /\ d.oi \in Nat /\ after.oi = d.oi
      /\ after.oi_day_high = Greatest(st.oi_day_high, d.oi)
      /\ after.oi_day_low = DayLow(st.oi_day_low, d.oi)
  BY StepRanges, DrawnFields
<1> HIDE DEF after
<1>2. /\ after.oi_day_high \in Nat /\ after.oi_day_low \in Nat /\ d.oi <= after.oi_day_high
      /\ st.oi_day_high <= after.oi_day_high
      /\ after.oi_day_high = st.oi_day_high \/ after.oi_day_high = d.oi
  BY <1>1 DEF OiRangeOf, Greatest, DayLow, Least
<1>3. \A v \in R : v.oi \in Nat /\ v.oi <= after.oi_day_high
  BY <1>1, <1>2 DEF OiRangeOf
<1>4. \E v \in R : v.oi = after.oi_day_high
  <2>1. CASE S = {}
    <3>1. st.oi_day_high = 0
      BY <2>1 DEF OiRangeOf
    <3> QED
      BY <1>1, <3>1 DEF Greatest
  <2>2. CASE S # {}
    BY <1>1, <1>2, <2>2 DEF OiRangeOf
  <2> QED
    BY <2>1, <2>2
<1>5. ASSUME \A v \in R : v.oi # 0
      PROVE  (\E v \in R : v.oi = after.oi_day_low) /\ \A v \in R : v.oi >= after.oi_day_low
  <2>1. CASE S = {}
    <3>1. st.oi_day_low = 0
      BY <2>1 DEF OiRangeOf
    <3>2. after.oi_day_low = d.oi
      BY <1>1, <3>1 DEF DayLow
    <3> QED
      BY <1>1, <2>1, <3>2
  <2>2. CASE S # {}
    <3>1. PICK v \in S : v.oi = st.oi_day_low
      BY <1>5, <2>2 DEF OiRangeOf
    <3>2. st.oi_day_low # 0 /\ \A w \in S : w.oi \in Nat /\ w.oi >= st.oi_day_low
      BY <1>5, <2>2, <3>1 DEF OiRangeOf
    <3>3. /\ after.oi_day_low <= st.oi_day_low /\ after.oi_day_low <= d.oi
          /\ after.oi_day_low = st.oi_day_low \/ after.oi_day_low = d.oi
      BY <1>1, <3>2 DEF OiRangeOf, DayLow, Least
    <3>4. \A w \in S : w.oi >= after.oi_day_low
      BY <1>2, <3>2, <3>3 DEF OiRangeOf
    <3> QED
      BY <1>1, <3>1, <3>3, <3>4
  <2> QED
    BY <2>1, <2>2
<1>6. OiRangeOf(R, after)
  BY <1>2, <1>3, <1>4, <1>5 DEF OiRangeOf
<1> QED
  BY <1>6 DEF after

-----------------------------------------------------------------------------
(* The replay and the ranges over it.                                      *)

\* The states t has been in since the reset, and those a step has left it in.
Visited(t) == {Replayed[n][t] : n \in Past(t)}
SteppedTo(t) == {Replayed[n][t] : n \in Past(t) \ {0}}

\* What a frame adds to the replay.
LEMMA AdvanceVisits ==
  ASSUME MarketSound, Reproducible, NEW ts \in Seq(Tokens), Distinct(ts), Advance(ts)
  PROVE  /\ Reproducible'
         /\ \A t \in Tokens :
              \/ /\ market'[t] = market[t]
                 /\ Visited(t)' = Visited(t) /\ SteppedTo(t)' = SteppedTo(t)
              \/ /\ \E d \in Drawn : market'[t] = Step(t, market[t], d)
                 /\ Visited(t)' = Visited(t) \cup {market'[t]}
                 /\ SteppedTo(t)' = SteppedTo(t) \cup {market'[t]}
<1> DEFINE N == Len(drawn)
           M == Len(ts)
<1>1. /\ drawn \in Seq(Tokens) /\ N \in Nat /\ M \in Nat /\ DOMAIN ts = 1..M
      /\ drawn \in Histories /\ seed \in Seeds
  BY HistoryIsSeq, LenProperties DEF MarketSound, MarketTypeOK
<1>2. /\ drawn' \in Histories /\ Len(drawn') = N + M
      /\ \A n \in 0..N : Replayed'[n] = Replayed[n]
      /\ \A k \in 0..M : Replayed'[N + k] = Midway(ts, k)
  BY ReplayMidway
<1>3. market' = Midway(ts, M)
  <2>1. market' = [t \in Tokens |->
                   IF \E k \in DOMAIN ts : ts[k] = t
                   THEN Stepped(ts, CHOOSE k \in DOMAIN ts : ts[k] = t)
                   ELSE market[t]]
    BY DEF Advance
  <2> QED
    BY <1>1, <2>1 DEF Midway
<1>4. Reproducible'
  BY <1>1, <1>2, <1>3 DEF Reproducible
<1>5. /\ \A n \in 1..N : drawn'[n] = drawn[n]
      /\ \A k \in 1..M : drawn'[N + k] = ts[k]
  <2>1. drawn' = drawn \o ts
    BY DEF Advance
  <2>2. \A i \in 1..N + M : (drawn \o ts)[i] = IF i <= N THEN drawn[i] ELSE ts[i - N]
    BY <1>1, ConcatProperties
  <2>3. ASSUME NEW n \in 1..N PROVE drawn'[n] = drawn[n]
    BY <1>1, <2>1, <2>2
  <2>4. ASSUME NEW k \in 1..M PROVE drawn'[N + k] = ts[k]
    <3>1. N + k \in 1..N + M /\ ~(N + k <= N) /\ (N + k) - N = k
      BY <1>1
    <3> QED
      BY <2>1, <2>2, <3>1
  <2> QED
    BY <2>3, <2>4
<1>6. ASSUME NEW t \in Tokens, ~\E k \in 1..M : ts[k] = t
      PROVE  market'[t] = market[t] /\ Past(t)' = Past(t)
  <2>1. market'[t] = market[t]
    BY <1>3, <1>6 DEF Midway
  <2>2. ASSUME NEW n PROVE n \in Past(t)' <=> n \in Past(t)
    <3>1. n \in Past(t)' <=> n \in 0..N + M /\ (n = 0 \/ drawn'[n] = t)
      BY <1>2 DEF Past
    <3>2. n \in Past(t) <=> n \in 0..N /\ (n = 0 \/ drawn[n] = t)
      BY DEF Past
    <3>3. n \in 0..N + M /\ ~(n \in 0..N) => n - N \in 1..M /\ n = N + (n - N)
      BY <1>1
    <3>4. n \in 0..N + M /\ ~(n \in 0..N) => drawn'[n] # t /\ n # 0
      BY <1>1, <1>5, <1>6, <3>3
    <3>5. n \in 0..N => n \in 0..N + M /\ (n = 0 \/ n \in 1..N)
      BY <1>1
    <3> HIDE DEF N, M
    <3> QED
      BY <1>5, <3>1, <3>2, <3>4, <3>5
  <2> QED
    BY <2>1, <2>2
<1>7. ASSUME NEW t \in Tokens, NEW k \in 1..M, ts[k] = t
      PROVE  /\ Past(t)' = Past(t) \cup {N + k} /\ Replayed'[N + k][t] = market'[t]
             /\ \E d \in Drawn : market'[t] = Step(t, market[t], d)
  <2>1. \A j \in 1..M : ts[j] = t => j = k
    BY <1>1, <1>7 DEF Distinct
  <2>2. (CHOOSE j \in DOMAIN ts : ts[j] = t) = k
    BY <1>1, <1>7, <2>1
  <2>3. Midway(ts, M)[t] = Stepped(ts, k) /\ Midway(ts, k)[t] = Stepped(ts, k)
    <3>1. (\E j \in 1..M : ts[j] = t) /\ \E j \in 1..k : ts[j] = t
      BY <1>7
    <3> QED
      BY <2>2, <3>1 DEF Midway
  <2>4. Replayed'[N + k][t] = market'[t]
    BY <1>2, <1>3, <2>3
  <2>5. ASSUME NEW n PROVE n \in Past(t)' <=> n \in Past(t) \/ n = N + k
    <3>1. n \in Past(t)' <=> n \in 0..N + M /\ (n = 0 \/ drawn'[n] = t)
      BY <1>2 DEF Past
    <3>2. n \in Past(t) <=> n \in 0..N /\ (n = 0 \/ drawn[n] = t)
      BY DEF Past
    <3>3. n \in 0..N + M /\ ~(n \in 0..N) => n - N \in 1..M /\ n = N + (n - N)
      BY <1>1
    <3>4. n \in 0..N + M /\ ~(n \in 0..N) => (drawn'[n] = t <=> n = N + k) /\ n # 0
      <4> SUFFICES ASSUME n \in 0..N + M, ~(n \in 0..N)
                   PROVE  (drawn'[n] = t <=> n = N + k) /\ n # 0
        OBVIOUS
      <4>1. drawn'[n] = ts[n - N]
        BY <1>5, <3>3
      <4>2. ts[n - N] = t <=> n - N = k
        BY <1>7, <2>1, <3>3
      <4> QED
        BY <1>1, <3>3, <4>1, <4>2
    <3>5. n \in 0..N => n \in 0..N + M /\ (n = 0 \/ n \in 1..N) /\ n # N + k
      BY <1>1
    <3>6. N + k \in 0..N + M
      BY <1>1
    <3> HIDE DEF N, M
    <3> QED
      BY <1>5, <3>1, <3>2, <3>4, <3>5, <3>6
  <2>6. \E d \in Drawn : Stepped(ts, k) = Step(t, market[t], d)
    <3> DEFINE h == drawn \o SubSeq(ts, 1, k - 1)
    <3>1. /\ (drawn \o ts)[Len(drawn) + k] = ts[k]
          /\ SubSeq(drawn \o ts, 1, Len(drawn) + k - 1) = h
      BY <1>1, SteppedBefore
    <3>2. h \in Histories
      <4>1. SubSeq(ts, 1, k - 1) \in Seq(Tokens) /\ Len(SubSeq(ts, 1, k - 1)) = k - 1
        <5>1. \A i \in 1..k - 1 : ts[i] \in Tokens
          BY <1>1, ElementOfSeq
        <5>2. k - 1 \in Int /\ (1 <= k - 1 \/ k - 1 = 0)
          BY <1>1
        <5> QED
          BY <5>1, <5>2, SubSeqProperties
      <4>2. h \in Seq(Tokens) /\ Len(h) = N + (k - 1)
        BY <1>1, <4>1, ConcatProperties
      <4>3. N + M <= MaxSteps /\ MaxSteps \in Nat
        BY MarketAssumption DEF Advance
      <4>4. N + (k - 1) <= MaxSteps
        BY <1>1, <4>3
      <4> QED
        BY <4>2, <4>4, HistoryIsSeq
    <3>3. Draw(seed, h, t) \in Drawn
      BY <1>1, <3>2, DrawAssumption
    <3>4. Stepped(ts, k) = Step(t, market[t], Draw(seed, h, t))
      BY <1>7 DEF Stepped
    <3> QED
      BY <3>3, <3>4
  <2>7. Past(t)' = Past(t) \cup {N + k}
    BY <2>5
  <2>8. market'[t] = Stepped(ts, k)
    BY <1>3, <2>3
  <2> QED
    BY <2>4, <2>6, <2>7, <2>8
<1>8. \A t \in Tokens : Past(t) \subseteq 0..N
  BY DEF Past
<1>9. ASSUME NEW t \in Tokens, ~\E k \in 1..M : ts[k] = t
      PROVE  Visited(t)' = Visited(t) /\ SteppedTo(t)' = SteppedTo(t)
  <2>1. /\ Visited(t)' = {Replayed'[n][t] : n \in Past(t)}
        /\ SteppedTo(t)' = {Replayed'[n][t] : n \in Past(t) \ {0}}
    BY <1>6, <1>9 DEF Visited, SteppedTo
  <2>2. \A n \in Past(t) : Replayed'[n] = Replayed[n]
    BY <1>2, <1>8
  <2> QED
    BY <2>1, <2>2 DEF Visited, SteppedTo
<1>10. ASSUME NEW t \in Tokens, NEW k \in 1..M, ts[k] = t
       PROVE  /\ Visited(t)' = Visited(t) \cup {market'[t]}
              /\ SteppedTo(t)' = SteppedTo(t) \cup {market'[t]}
  <2> DEFINE m == N + k
  <2>1. Past(t)' = Past(t) \cup {m} /\ Replayed'[m][t] = market'[t] /\ m # 0
    BY <1>1, <1>7, <1>10
  <2>2. \A n \in Past(t) : Replayed'[n] = Replayed[n]
    BY <1>2, <1>8
  <2> HIDE DEF m
  <2>3. /\ Visited(t)' = {Replayed'[n][t] : n \in Past(t) \cup {m}}
        /\ SteppedTo(t)' = {Replayed'[n][t] : n \in (Past(t) \cup {m}) \ {0}}
    BY <2>1 DEF Visited, SteppedTo
  <2> QED
    BY <2>1, <2>2, <2>3 DEF Visited, SteppedTo
<1> QED
  BY <1>4, <1>6, <1>7, <1>9, <1>10

\* The market is what the replay ends in, and its ranges are those of the replay.
MarketExact ==
  /\ Reproducible
  /\ \A t \in Tokens :
       /\ PriceRange(Visited(t), market[t])
       /\ ~Instrument[t].is_index => OiRangeOf(SteppedTo(t), market[t])

LEMMA SeedingExact ==
  /\ seed \in Seeds /\ MarketInit => MarketExact
  /\ seed \in Seeds /\ Reseed => MarketExact'
<1>1. ASSUME NEW t \in Tokens
      PROVE  /\ InitState(t).low = InitState(t).last_price /\ InitState(t).high = InitState(t).last_price
             /\ InitState(t).last_price \in Nat
             /\ InitState(t).oi_day_high = 0 /\ InitState(t).oi_day_low = 0
  BY InstrumentType DEF InitState, Positive
<1>2. ASSUME NEW t \in Tokens
      PROVE  PriceRange({InitState(t)}, InitState(t)) /\ OiRangeOf({}, InitState(t))
  <2> DEFINE st == InitState(t)
  <2>1. /\ st.low = st.last_price /\ st.high = st.last_price /\ st.last_price \in Nat
        /\ st.oi_day_high = 0 /\ st.oi_day_low = 0
    BY <1>1
  <2> HIDE DEF st
  <2>2. PriceRange({st}, st) /\ OiRangeOf({}, st)
    BY <2>1 DEF PriceRange, OiRangeOf
  <2> QED
    BY <2>2 DEF st
<1>3. ASSUME NEW s \in Seeds
      PROVE  RunOf(<<>>, s)[0] = Seeded
  <2>1. <<>> \in Histories
    <3>1. <<>> \in Seq(Tokens) /\ Len(<<>>) = 0 /\ MaxSteps \in Nat
      BY MarketAssumption, EmptySeq
    <3>2. Len(<<>>) <= MaxSteps
      BY <3>1
    <3> QED
      BY <3>1, <3>2, HistoryIsSeq
  <2>2. Replays(RunOf(<<>>, s), <<>>, s)
    BY <2>1, RunExists
  <2>3. 0 \in 0..Len(<<>>)
    OBVIOUS
  <2> QED
    BY <2>2, <2>3 DEF Replays
<1>4. ASSUME seed \in Seeds, MarketInit
      PROVE  MarketExact
  <2>1. drawn = <<>> /\ market = Seeded /\ Len(drawn) = 0
    BY <1>4 DEF MarketInit, Seeded
  <2>2. Replayed = [n \in 0..0 |-> RunOf(<<>>, seed)[n]]
    BY <2>1, ReplayedIs
  <2>3. Replayed[0] = Seeded
    BY <1>3, <1>4, <2>2
  <2>4. \A t \in Tokens : Past(t) = {0}
    BY <2>1 DEF Past
  <2>5. ASSUME NEW t \in Tokens
        PROVE  market[t] = InitState(t) /\ Visited(t) = {InitState(t)} /\ SteppedTo(t) = {}
    BY <2>1, <2>3, <2>4 DEF Seeded, Visited, SteppedTo
  <2> QED
    BY <1>2, <2>1, <2>3, <2>5 DEF MarketExact, Reproducible
<1>5. ASSUME seed \in Seeds, Reseed
      PROVE  MarketExact'
  <2>1. drawn' = <<>> /\ market' = Seeded /\ Len(drawn') = 0 /\ seed' = seed
    BY <1>5 DEF Reseed, Seeded
  <2>2. Replayed' = [n \in 0..Len(drawn') |-> RunOf(drawn', seed')[n]]
    BY DEF Replayed, RunOf, Replays, After, Seeded
  <2>3. Replayed'[0] = Seeded
    BY <1>3, <1>5, <2>1, <2>2
  <2>4. \A t \in Tokens : Past(t)' = {0}
    BY <2>1 DEF Past
  <2>5. ASSUME NEW t \in Tokens
        PROVE  market'[t] = InitState(t) /\ Visited(t)' = {InitState(t)} /\ SteppedTo(t)' = {}
    BY <2>1, <2>3, <2>4 DEF Seeded, Visited, SteppedTo
  <2> QED
    BY <1>2, <2>1, <2>3, <2>5 DEF MarketExact, Reproducible
<1> QED
  BY <1>4, <1>5

LEMMA AdvanceExact ==
  ASSUME MarketSound, MarketExact, NEW ts \in Seq(Tokens), Distinct(ts), Advance(ts)
  PROVE  MarketExact'
<1>1. Reproducible'
  BY AdvanceVisits DEF MarketExact
<1>2. ASSUME NEW t \in Tokens
      PROVE  /\ PriceRange(Visited(t)', market'[t])
             /\ ~Instrument[t].is_index => OiRangeOf(SteppedTo(t)', market'[t])
  <2>1. market[t] \in State
    BY DEF MarketSound, MarketTypeOK
  <2>2. /\ PriceRange(Visited(t), market[t])
        /\ ~Instrument[t].is_index => OiRangeOf(SteppedTo(t), market[t])
    BY DEF MarketExact
  <2>3. \/ /\ market'[t] = market[t]
           /\ Visited(t)' = Visited(t) /\ SteppedTo(t)' = SteppedTo(t)
        \/ /\ \E d \in Drawn : market'[t] = Step(t, market[t], d)
           /\ Visited(t)' = Visited(t) \cup {market'[t]}
           /\ SteppedTo(t)' = SteppedTo(t) \cup {market'[t]}
    BY AdvanceVisits DEF MarketExact
  <2>4. CASE /\ market'[t] = market[t]
             /\ Visited(t)' = Visited(t) /\ SteppedTo(t)' = SteppedTo(t)
    BY <2>2, <2>4
  <2>5. CASE /\ \E d \in Drawn : market'[t] = Step(t, market[t], d)
             /\ Visited(t)' = Visited(t) \cup {market'[t]}
             /\ SteppedTo(t)' = SteppedTo(t) \cup {market'[t]}
    <3>1. PICK d \in Drawn : market'[t] = Step(t, market[t], d)
      BY <2>5
    <3>2. PriceRange(Visited(t) \cup {market'[t]}, market'[t])
      BY <2>1, <2>2, <3>1, StepKeepsPriceRange
    <3>3. ~Instrument[t].is_index => OiRangeOf(SteppedTo(t) \cup {market'[t]}, market'[t])
      BY <2>1, <2>2, <3>1, StepKeepsOiRange
    <3> QED
      BY <2>5, <3>2, <3>3
  <2> QED
    BY <2>3, <2>4, <2>5
<1> QED
  BY <1>1, <1>2 DEF MarketExact

\* A connection is subscribed to an instrument once.
LEMMA TokensAreDistinct ==
  ASSUME TypeOK, NEW c \in Connections, subs[c] # <<>>
  PROVE  Distinct(TokensOf(c))
<1>1. subs[c] \in Subscriptions
  BY DEF TypeOK
<1>2. \A j, k \in DOMAIN subs[c] : subs[c][j][1] = subs[c][k][1] => j = k
  BY <1>1, StreamAssumption
<1> QED
  BY <1>2 DEF Distinct, TokensOf

LEMMA UnchangedExact == MarketExact /\ UNCHANGED marketVars => MarketExact'
<1> SUFFICES ASSUME MarketExact, UNCHANGED marketVars
             PROVE  MarketExact'
  OBVIOUS
<1>1. market' = market /\ drawn' = drawn /\ seed' = seed
  BY DEF marketVars
<1>2. Replayed' = Replayed
  BY <1>1 DEF Replayed
<1>3. \A t \in Tokens : Visited(t)' = Visited(t) /\ SteppedTo(t)' = SteppedTo(t)
  BY <1>1, <1>2 DEF Visited, SteppedTo, Past
<1> QED
  BY <1>1, <1>2, <1>3 DEF MarketExact, Reproducible

\* Only the instruments of a frame are stepped: all of them, or those up to
\* the one whose packet cannot be packed.
LEMMA StreamAdvances ==
  ASSUME SoundStream, NEW c \in Connections, BuildFrame(c) \/ PusherFails(c)
  PROVE  \E ts \in Seq(Tokens) : Distinct(ts) /\ Advance(ts)
<1>1. subs[c] # <<>>
  BY DEF BuildFrame, PusherFails
<1>2. TokensOf(c) \in Seq(Tokens) /\ Distinct(TokensOf(c))
  BY <1>1, TokensAreSeq, TokensAreDistinct DEF SoundStream
<1>3. CASE BuildFrame(c)
  BY <1>2, <1>3 DEF BuildFrame
<1>4. CASE PusherFails(c)
  <2>1. PICK k \in TooLarge(c) : Advance(SubSeq(TokensOf(c), 1, k))
    BY <1>4 DEF PusherFails
  <2> DEFINE ts == SubSeq(TokensOf(c), 1, k)
  <2>2. k \in 1..Len(TokensOf(c)) /\ Len(TokensOf(c)) \in Nat
        /\ DOMAIN TokensOf(c) = 1..Len(TokensOf(c))
    BY <1>1, <1>2, TokensAreSeq, LenProperties DEF SoundStream, TooLarge
  <2>3. \A i \in 1..k : TokensOf(c)[i] \in Tokens
    BY <1>2, <2>2, ElementOfSeq
  <2>4. ts \in Seq(Tokens) /\ Len(ts) = k /\ \A i \in 1..k : ts[i] = TokensOf(c)[i]
    BY <1>2, <2>2, <2>3, SubSeqProperties
  <2> HIDE DEF ts
  <2>5. DOMAIN ts = 1..k
    BY <2>4, LenProperties
  <2>6. Distinct(ts)
    BY <1>2, <2>2, <2>4, <2>5 DEF Distinct
  <2> QED
    BY <2>1, <2>4, <2>6 DEF ts
<1> QED
  BY <1>3, <1>4

\* Every other step leaves the market alone or seeds it.
LEMMA StreamSteps ==
  [Next]_vars => \/ \E c \in Connections : BuildFrame(c) \/ PusherFails(c)
                 \/ Reset
                 \/ UNCHANGED marketVars /\ UNCHANGED day
BY DEF Next, vars, marketVars, streamVars, Connect, SendFrame, Leave, Quote

LEMMA ExactStep == SoundStream /\ MarketExact /\ [Next]_vars => MarketExact'
<1> SUFFICES ASSUME SoundStream, MarketExact, [Next]_vars
             PROVE  MarketExact'
  OBVIOUS
<1>1. seed \in Seeds /\ MarketSound
  BY DEF SoundStream, MarketSound, MarketTypeOK
<1>2. ASSUME NEW c \in Connections, BuildFrame(c) \/ PusherFails(c)
      PROVE  MarketExact'
  <2>1. PICK ts \in Seq(Tokens) : Distinct(ts) /\ Advance(ts)
    BY <1>2, StreamAdvances
  <2> QED
    BY <1>1, <2>1, AdvanceExact
<1>3. ASSUME Reset PROVE MarketExact'
  BY <1>1, <1>3, SeedingExact DEF Reset
<1> QED
  BY <1>2, <1>3, StreamSteps, UnchangedExact

LEMMA AlwaysExact == Spec => []MarketExact
<1>1. Init => MarketExact
  BY SeedingExact DEF Init, MarketInit
<1> QED
  BY <1>1, AlwaysSound, ExactStep, PTL DEF Spec

\* generator.py:1: the market is a function of the seed and of the instruments
\* stepped since the reset, for every way to draw.
THEOREM AlwaysReproducible == Spec => []Reproducible
<1>1. MarketExact => Reproducible
  BY DEF MarketExact
<1> QED
  BY <1>1, AlwaysExact, PTL

\* The running high and low of the day are the greatest and the least price
\* there has been since the reset, the first one included.
THEOREM DayRangeAlwaysExact == Spec => []DayRangeIsExact
<1>1. ASSUME MarketExact, NEW t \in Tokens
      PROVE  /\ \A n \in Past(t) : Replayed[n][t].last_price \in market[t].low..market[t].high
             /\ \E n \in Past(t) : Replayed[n][t].last_price = market[t].high
             /\ \E n \in Past(t) : Replayed[n][t].last_price = market[t].low
  BY <1>1 DEF MarketExact, PriceRange, Visited
<1>2. MarketExact => DayRangeIsExact
  BY <1>1 DEF DayRangeIsExact
<1> QED
  BY <1>2, AlwaysExact, PTL

\* The high and the low of the open interest are its range since the reset,
\* the low as long as no step has drawn an open interest of zero.
THEOREM OiRangeAlways == Spec => []OiRange
<1>1. ASSUME MarketExact, NEW t \in Tokens, ~Instrument[t].is_index,
             NEW ois, ois = {Replayed[n][t].oi : n \in Past(t) \ {0}}, ois # {}
      PROVE  /\ market[t].oi_day_high \in ois /\ \A oi \in ois : oi <= market[t].oi_day_high
             /\ 0 \notin ois => /\ market[t].oi_day_low \in ois
                                /\ \A oi \in ois : oi >= market[t].oi_day_low
  <2>1. OiRangeOf(SteppedTo(t), market[t])
    BY <1>1 DEF MarketExact
  <2>2. ois = {v.oi : v \in SteppedTo(t)}
    BY <1>1 DEF SteppedTo
  <2>3. SteppedTo(t) # {}
    BY <1>1, <2>2
  <2> HIDE <1>1
  <2>4. market[t].oi_day_high \in ois /\ \A oi \in ois : oi <= market[t].oi_day_high
    BY <2>1, <2>2, <2>3 DEF OiRangeOf
  <2>5. ASSUME 0 \notin ois
        PROVE  market[t].oi_day_low \in ois /\ \A oi \in ois : oi >= market[t].oi_day_low
    <3>1. \A v \in SteppedTo(t) : v.oi # 0
      BY <2>2, <2>5
    <3> QED
      BY <2>1, <2>2, <2>3, <3>1 DEF OiRangeOf
  <2> QED
    BY <2>4, <2>5
<1>2. MarketExact => OiRange
  <2> SUFFICES ASSUME MarketExact PROVE OiRange
    OBVIOUS
  <2> QED
    BY <1>1 DEF OiRange
<1> QED
  BY <1>2, AlwaysExact, PTL

-----------------------------------------------------------------------------
(* What is found in a packet.                                              *)

IsSeq(s, n) == n \in Nat /\ s = [k \in 1..n |-> s[k]]

LEMMA SeqIs ==
  ASSUME NEW s, NEW n, IsSeq(s, n)
  PROVE  /\ s \in Seq({s[k] : k \in 1..n}) /\ Len(s) = n /\ DOMAIN s = 1..n
<1> DEFINE V == {s[k] : k \in 1..n}
<1>1. s \in [1..n -> V] /\ n \in Nat
  BY DEF IsSeq
<1>2. s \in Seq(V)
  BY <1>1, SeqDef
<1> QED
  BY <1>1, <1>2, LenProperties

Joins(j, s, t) == j = s \o t

LEMMA Joined ==
  ASSUME NEW s, NEW t, NEW n, NEW m, IsSeq(s, n), IsSeq(t, m),
         NEW j, Joins(j, s, t)
  PROVE  /\ IsSeq(j, n + m)
         /\ \A k \in 1..n + m : j[k] = IF k <= n THEN s[k] ELSE t[k - n]
<1> DEFINE V == {s[k] : k \in 1..n} \cup {t[k] : k \in 1..m}
<1>1. s \in [1..n -> V] /\ t \in [1..m -> V] /\ n \in Nat /\ m \in Nat
  BY DEF IsSeq
<1>2. s \in Seq(V) /\ t \in Seq(V) /\ Len(s) = n /\ Len(t) = m
  <2> HIDE DEF V
  <2>1. s \in Seq(V) /\ t \in Seq(V)
    BY <1>1, SeqDef
  <2> QED
    BY <1>1, <2>1, LenProperties
<1>3. /\ j \in Seq(V) /\ Len(j) = n + m
      /\ \A k \in 1..n + m : j[k] = IF k <= n THEN s[k] ELSE t[k - n]
  <2>1. j = s \o t
    BY DEF Joins
  <2> HIDE DEF V
  <2> QED
    BY <1>2, <2>1, ConcatProperties
<1> HIDE DEF V
<1>4. j \in [1..n + m -> V]
  BY <1>3, LenProperties
<1>5. IsSeq(j, n + m)
  BY <1>1, <1>4 DEF IsSeq
<1> QED
  BY <1>3, <1>5

\* The k-th of fields of which the first m have four bytes, the others twelve.
Place(m, k) == IF k <= m + 1 THEN 4 * (k - 1) ELSE 4 * m + 12 * (k - m - 1)

\* m words and then n - m entries of a depth book.
Fielded(p, m, n) ==
  /\ IsSeq(p, n) /\ m \in 0..n
  /\ \A k \in 1..n : p[k].width = IF k <= m THEN 4 ELSE 12

LEMMA OffsetsAre ==
  ASSUME NEW p, NEW m, NEW n, Fielded(p, m, n)
  PROVE  Offsets(p) = [k \in 1..n + 1 |-> Place(m, k)]
<1>1. n \in Nat /\ m \in Nat /\ m <= n /\ Len(p) = n
  BY SeqIs DEF Fielded, IsSeq
<1> DEFINE g == [k \in (1..n) \X Nat |-> k[2] + IF k[1] <= m THEN 4 ELSE 12]
           Chosen(at) == at = [k \in 1..Len(p) + 1 |->
                                 IF k = 1 THEN 0 ELSE at[k - 1] + p[k - 1].width]
           at == CHOOSE a : Chosen(a)
           h == [k \in 1..n + 1 |-> Place(m, k)]
<1>2. Chosen(h)
  <2>1. ASSUME NEW k \in 1..n + 1
        PROVE  h[k] = IF k = 1 THEN 0 ELSE h[k - 1] + p[k - 1].width
    <3>1. CASE k = 1
      BY <1>1, <3>1 DEF Place
    <3>2. CASE k # 1
      <4>1. k - 1 \in 1..n /\ k - 1 \in 1..n + 1
        BY <1>1, <3>2
      <4>2. p[k - 1].width = IF k - 1 <= m THEN 4 ELSE 12
        BY <4>1 DEF Fielded
      <4>3. h[k] = Place(m, k) /\ h[k - 1] = Place(m, k - 1)
        BY <4>1
      <4> HIDE DEF h
      <4> QED
        BY <1>1, <3>2, <4>2, <4>3 DEF Place
    <3> QED
      BY <3>1, <3>2
  <2> QED
    BY <1>1, <2>1
<1>3. Chosen(at)
  BY <1>2
<1> DEFINE T == {k \in Nat : k <= n => at[k + 1] = Place(m, k + 1)}
<1>4. 0 \in T
  <2>1. 1 \in 1..Len(p) + 1 /\ 0 + 1 = 1 /\ Place(m, 1) = 0
    BY <1>1 DEF Place
  <2>2. at[1] = 0
    <3> HIDE DEF at
    <3> QED
      BY <1>3, <2>1
  <2> HIDE DEF at
  <2> QED
    BY <2>1, <2>2
<1>5. ASSUME NEW k \in Nat, k \in T PROVE k + 1 \in T
  <2>1. SUFFICES ASSUME k + 1 <= n PROVE at[k + 1 + 1] = Place(m, k + 1 + 1)
    OBVIOUS
  <2>2. at[k + 1] = Place(m, k + 1)
    BY <1>1, <1>5, <2>1
  <2>3. k + 1 + 1 \in 1..n + 1 /\ k + 1 + 1 # 1 /\ (k + 1 + 1) - 1 = k + 1 /\ k + 1 \in 1..n
    BY <1>1, <2>1
  <2>4. at[k + 1 + 1] = at[k + 1] + p[k + 1].width
    <3> HIDE DEF at
    <3> QED
      BY <1>1, <1>3, <2>3
  <2>5. p[k + 1].width = IF k + 1 <= m THEN 4 ELSE 12
    BY <2>3 DEF Fielded
  <2> HIDE DEF at
  <2> QED
    BY <1>1, <2>2, <2>4, <2>5 DEF Place
<1>6. Nat \subseteq T
  <2> HIDE DEF T
  <2> QED
    BY <1>4, <1>5, NumbersInductive
<1>7. \A k \in 1..n + 1 : at[k] = Place(m, k)
  <2> TAKE k \in 1..n + 1
  <2>1. k - 1 \in Nat /\ k - 1 <= n /\ (k - 1) + 1 = k
    BY <1>1
  <2>2. k - 1 \in T
    <3> HIDE DEF T
    <3> QED
      BY <1>6, <2>1
  <2> HIDE DEF at
  <2> QED
    BY <2>1, <2>2
<1>8. Offsets(p) = [k \in 1..Len(p) + 1 |-> at[k]]
  BY DEF Offsets
<1> HIDE DEF at
<1> QED
  BY <1>1, <1>7, <1>8

\* What is at the place of a field is the value of the field.
LEMMA FieldAt ==
  ASSUME NEW p, NEW m, NEW n, Fielded(p, m, n)
  PROVE  /\ Length(p) = Place(m, n + 1)
         /\ \A k \in 1..n : At(p, Place(m, k)) = p[k].value
<1>1. n \in Nat /\ m \in Nat /\ m <= n /\ Len(p) = n /\ DOMAIN p = 1..n
  BY SeqIs DEF Fielded, IsSeq
<1>2. \A k \in 1..n + 1 : Offsets(p)[k] = Place(m, k)
  <2>1. Offsets(p) = [k \in 1..n + 1 |-> Place(m, k)]
    BY OffsetsAre
  <2> QED
    BY <2>1
<1>3. Length(p) = Place(m, n + 1)
  BY <1>1, <1>2 DEF Length
<1>4. ASSUME NEW k \in 1..n PROVE At(p, Place(m, k)) = p[k].value
  <2>1. \A j \in 1..n : Offsets(p)[j] = Place(m, k) <=> j = k
    <3> TAKE j \in 1..n
    <3>1. Offsets(p)[j] = Place(m, j)
      BY <1>1, <1>2
    <3> QED
      BY <1>1, <3>1 DEF Place
  <2>2. (CHOOSE j \in DOMAIN p : Offsets(p)[j] = Place(m, k)) = k
    BY <1>1, <2>1
  <2> QED
    BY <2>2 DEF At
<1> QED
  BY <1>3, <1>4

LEMMA IndexShows ==
  ASSUME NEW t \in Tokens, Instrument[t].is_index, NEW st, NEW mode \in Modes
  PROVE  Shows(PackPacket(t, st, mode), t, st, mode)
<1> DEFINE scale == Instrument[t].scale
           p == PackIndex(t, st, mode, scale)
           n == CASE mode = "ltp" -> 2 [] mode = "quote" -> 7 [] OTHER -> 8
<1>1. /\ n \in Nat /\ n >= 2 /\ DOMAIN p = 1..n
      /\ p = [k \in 1..n |-> p[k]]
      /\ p[1] = Word(t) /\ p[2] = Word(U(st.last_price, scale))
      /\ mode # "ltp" =>
           /\ p[3] = Word(U(st.high, scale)) /\ p[4] = Word(U(st.low, scale))
           /\ p[5] = Word(U(st.open, scale)) /\ p[6] = Word(U(st.close, scale))
           /\ p[7] = SignedWord(U(st.last_price - st.close, scale))
      /\ mode = "full" => p[8] = Word(st.exchange_timestamp)
  <2>1. CASE mode = "ltp"
    BY <2>1 DEF PackIndex
  <2>2. CASE mode = "quote"
    BY <2>2 DEF PackIndex
  <2>3. CASE mode = "full"
    BY <2>3 DEF PackIndex
  <2> QED
    BY <2>1, <2>2, <2>3 DEF Modes
<1> HIDE DEF p
<1>2. Fielded(p, n, n)
  <2>1. \A k \in 1..n : p[k].width = 4
    <3>1. CASE mode = "ltp"
      BY <1>1, <3>1 DEF Word
    <3>2. CASE mode = "quote"
      BY <1>1, <3>2 DEF Word, SignedWord
    <3>3. CASE mode = "full"
      BY <1>1, <3>3 DEF Word, SignedWord
    <3> QED
      BY <3>1, <3>2, <3>3 DEF Modes
  <2> HIDE DEF n
  <2> QED
    BY <1>1, <2>1 DEF Fielded, IsSeq
<1>3. Length(p) = 4 * n /\ \A k \in 1..n : At(p, 4 * (k - 1)) = p[k].value
  <2>1. Length(p) = Place(n, n + 1) /\ \A k \in 1..n : At(p, Place(n, k)) = p[k].value
    <3> HIDE DEF n
    <3> QED
      BY <1>2, FieldAt
  <2>2. Place(n, n + 1) = 4 * n /\ \A k \in 1..n : Place(n, k) = 4 * (k - 1)
    <3> HIDE DEF n
    <3> QED
      BY <1>1 DEF Place
  <2> HIDE DEF n
  <2> QED
    BY <2>1, <2>2
<1>4. /\ At(p, 0) = t /\ At(p, 4) = U(st.last_price, scale)
      /\ mode # "ltp" =>
           /\ At(p, 8) = U(st.high, scale) /\ At(p, 12) = U(st.low, scale)
           /\ At(p, 16) = U(st.open, scale) /\ At(p, 20) = U(st.close, scale)
           /\ At(p, 24) = U(st.last_price - st.close, scale)
      /\ mode = "full" => At(p, 28) = st.exchange_timestamp
  <2>1. ASSUME NEW k \in 1..8, k <= n
        PROVE  At(p, 4 * (k - 1)) = p[k].value
    <3> HIDE DEF n
    <3> QED
      BY <1>1, <1>3, <2>1
  <2>2. At(p, 0) = p[1].value /\ At(p, 4) = p[2].value
    <3> HIDE DEF n
    <3>1. 4 * (1 - 1) = 0 /\ 4 * (2 - 1) = 4 /\ 1 <= n /\ 2 <= n
      BY <1>1
    <3> QED
      BY <2>1, <3>1
  <2>3. ASSUME mode # "ltp"
        PROVE  /\ At(p, 8) = p[3].value /\ At(p, 12) = p[4].value /\ At(p, 16) = p[5].value
               /\ At(p, 20) = p[6].value /\ At(p, 24) = p[7].value
    <3>1. n >= 7
      BY <2>3
    <3>2. /\ 4 * (3 - 1) = 8 /\ 4 * (4 - 1) = 12 /\ 4 * (5 - 1) = 16
          /\ 4 * (6 - 1) = 20 /\ 4 * (7 - 1) = 24
      OBVIOUS
    <3>3. 3 <= n /\ 4 <= n /\ 5 <= n /\ 6 <= n /\ 7 <= n
      <4> HIDE DEF n
      <4> QED
        BY <1>1, <3>1
    <3> HIDE DEF n
    <3> QED
      BY <2>1, <3>2, <3>3
  <2>4. ASSUME mode = "full" PROVE At(p, 28) = p[8].value
    <3>1. 8 <= n
      BY <2>4
    <3>2. 4 * (8 - 1) = 28
      OBVIOUS
    <3> HIDE DEF n
    <3> QED
      BY <2>1, <3>1, <3>2
  <2> HIDE DEF n
  <2> QED
    BY <1>1, <2>2, <2>3, <2>4 DEF Word, SignedWord
<1>5. Size(t, mode) = 4 * n
  <2>1. mode = "ltp" \/ mode = "quote" \/ mode = "full"
    BY DEF Modes
  <2> QED
    BY <2>1 DEF Size
<1>6. ASSUME NEW f \in DOMAIN IndexTable, IndexTable[f] < Size(t, mode)
      PROVE  At(p, IndexTable[f]) = IF f \in Prices THEN U(st[f], scale) ELSE st[f]
  <2> HIDE DEF scale
  <2>1. f \in {"last_price", "high", "low", "open", "close", "exchange_timestamp"}
    BY DEF IndexTable
  <2>2. mode = "ltp" => Size(t, mode) = 8
    BY DEF Size
  <2>3. mode = "quote" => Size(t, mode) = 28
    BY DEF Size
  <2>4. CASE f = "last_price"
    BY <1>4, <2>4 DEF IndexTable, Prices
  <2>5. CASE f \in {"high", "low", "open", "close"}
    <3>1. mode # "ltp"
      BY <1>6, <2>2, <2>5 DEF IndexTable
    <3> QED
      BY <1>4, <2>5, <3>1 DEF IndexTable, Prices
  <2>6. CASE f = "exchange_timestamp"
    <3>1. mode = "full"
      BY <1>6, <2>2, <2>3, <2>6 DEF IndexTable, Modes
    <3> QED
      BY <1>4, <2>6, <3>1 DEF IndexTable, Prices
  <2> QED
    BY <2>1, <2>4, <2>5, <2>6
<1>7. Size(t, mode) \in {28, 32} => At(p, 24) = U(st.last_price - st.close, scale)
  <2>1. mode = "ltp" => Size(t, mode) = 8
    BY DEF Size
  <2> QED
    BY <1>4, <2>1
<1>8. Size(t, mode) # 184
  <2>1. n <= 8
    BY DEF Modes
  <2> HIDE DEF n
  <2> QED
    BY <1>1, <1>5, <2>1
<1>9. Table(t) = IndexTable /\ PackPacket(t, st, mode) = p
  BY DEF Table, PackPacket, p
<1> HIDE DEF n
<1> QED
  BY <1>3, <1>4, <1>5, <1>6, <1>7, <1>8, <1>9 DEF Shows

\* The words of a packet of a tradeable instrument, and its fields: the words
\* and in mode "full" its depth entries.
WordsIn(mode) == CASE mode = "ltp" -> 2 [] mode = "quote" -> 11 [] OTHER -> 16
FieldsIn(mode) == IF mode = "full" THEN 26 ELSE WordsIn(mode)

HoldsFields(p, t, st, mode, scale) ==
  /\ IsSeq(p, FieldsIn(mode))
  /\ p[1] = Word(t) /\ p[2] = Word(U(st.last_price, scale))
  /\ mode # "ltp" =>
       /\ p[3] = Word(st.last_traded_quantity)
       /\ p[4] = Word(U(st.average_traded_price, scale)) /\ p[5] = Word(st.volume)
       /\ p[6] = Word(st.total_buy_quantity) /\ p[7] = Word(st.total_sell_quantity)
       /\ p[8] = Word(U(st.open, scale)) /\ p[9] = Word(U(st.high, scale))
       /\ p[10] = Word(U(st.low, scale)) /\ p[11] = Word(U(st.close, scale))
  /\ mode = "full" =>
       /\ p[12] = Word(st.last_trade_time) /\ p[13] = Word(st.oi)
       /\ p[14] = Word(st.oi_day_high) /\ p[15] = Word(st.oi_day_low)
       /\ p[16] = Word(st.exchange_timestamp)
       /\ \A k \in 1..DEPTH_LEVELS :
            /\ p[16 + k] = Entry(st.bids[k], scale)
            /\ p[21 + k] = Entry(st.offers[k], scale)

LEMMA TradeablePacket ==
  ASSUME NEW t, NEW st, NEW mode \in Modes, NEW scale,
         IsSeq(st.bids, DEPTH_LEVELS), IsSeq(st.offers, DEPTH_LEVELS)
  PROVE  HoldsFields(PackTradeable(t, st, mode, scale), t, st, mode, scale)
<1> DEFINE a1 == Word(t)
           a2 == Word(U(st.last_price, scale))
           b1 == Word(st.last_traded_quantity)
           b2 == Word(U(st.average_traded_price, scale))
           b3 == Word(st.volume)
           b4 == Word(st.total_buy_quantity)
           b5 == Word(st.total_sell_quantity)
           b6 == Word(U(st.open, scale))
           b7 == Word(U(st.high, scale))
           b8 == Word(U(st.low, scale))
           b9 == Word(U(st.close, scale))
           c1 == Word(st.last_trade_time)
           c2 == Word(st.oi)
           c3 == Word(st.oi_day_high)
           c4 == Word(st.oi_day_low)
           c5 == Word(st.exchange_timestamp)
           ltp == <<a1, a2>>
           quote == ltp \o <<b1, b2, b3, b4, b5, b6, b7, b8, b9>>
           words == quote \o <<c1, c2, c3, c4, c5>>
           depth == PackDepth(st, scale)
           p == PackTradeable(t, st, mode, scale)
<1>1. mode = "ltp" \/ mode = "quote" \/ mode = "full"
  BY DEF Modes
<1>2. /\ mode = "ltp" => p = ltp
      /\ mode = "quote" => p = quote
      /\ mode = "full" => p = words \o depth
  BY DEF PackTradeable
<1> HIDE DEF a1, a2, b1, b2, b3, b4, b5, b6, b7, b8, b9, c1, c2, c3, c4, c5, p, depth
<1>3. IsSeq(ltp, 2) /\ ltp[1] = a1 /\ ltp[2] = a2
  BY DEF IsSeq
<1>6. /\ IsSeq(quote, 11) /\ quote[1] = a1 /\ quote[2] = a2 /\ quote[3] = b1 /\ quote[4] = b2
      /\ quote[5] = b3 /\ quote[6] = b4 /\ quote[7] = b5 /\ quote[8] = b6
      /\ quote[9] = b7 /\ quote[10] = b8 /\ quote[11] = b9
  BY DEF IsSeq
<1>7. /\ IsSeq(words, 16) /\ words[1] = a1 /\ words[2] = a2 /\ words[3] = b1 /\ words[4] = b2
      /\ words[5] = b3 /\ words[6] = b4 /\ words[7] = b5 /\ words[8] = b6
      /\ words[9] = b7 /\ words[10] = b8 /\ words[11] = b9
      /\ words[12] = c1 /\ words[13] = c2 /\ words[14] = c3 /\ words[15] = c4 /\ words[16] = c5
  BY DEF IsSeq
<1>8. /\ IsSeq(depth, 10)
      /\ \A k \in 1..5 : depth[k] = Entry(st.bids[k], scale) /\ depth[5 + k] = Entry(st.offers[k], scale)
  <2> DEFINE levels == st.bids \o st.offers
  <2>1. depth = [k \in DOMAIN levels |-> Entry(levels[k], scale)]
    BY DEF depth, PackDepth
  <2>2. /\ IsSeq(levels, DEPTH_LEVELS + DEPTH_LEVELS)
        /\ \A k \in 1..DEPTH_LEVELS + DEPTH_LEVELS :
             levels[k] = IF k <= DEPTH_LEVELS THEN st.bids[k] ELSE st.offers[k - DEPTH_LEVELS]
    <3>1. Joins(levels, st.bids, st.offers)
      BY DEF Joins
    <3> HIDE DEF levels
    <3> QED
      BY <3>1, Joined
  <2> HIDE DEF levels
  <2>3. DEPTH_LEVELS = 5 /\ DEPTH_LEVELS + DEPTH_LEVELS = 10
    BY DEF DEPTH_LEVELS
  <2>8. /\ IsSeq(levels, 10)
        /\ \A k \in 1..10 : levels[k] = IF k <= 5 THEN st.bids[k] ELSE st.offers[k - 5]
    BY <2>2, <2>3
  <2>10. DOMAIN levels = 1..10
    BY <2>8, SeqIs
  <2>4. depth = [k \in 1..10 |-> Entry(levels[k], scale)]
    BY <2>1, <2>10
  <2>5. IsSeq(depth, 10)
    BY <2>4 DEF IsSeq
  <2>6. \A k \in 1..10 : depth[k] = Entry(levels[k], scale)
    BY <2>4
  <2>7. ASSUME NEW k \in 1..5
        PROVE  levels[k] = st.bids[k] /\ levels[5 + k] = st.offers[k]
    <3>1. k \in 1..10 /\ 5 + k \in 1..10 /\ k <= 5 /\ ~(5 + k <= 5) /\ (5 + k) - 5 = k
      OBVIOUS
    <3> QED
      BY <2>8, <3>1
  <2>9. \A k \in 1..5 : k \in 1..10 /\ 5 + k \in 1..10
    OBVIOUS
  <2> QED
    BY <2>5, <2>6, <2>7, <2>9
<1> HIDE DEF ltp, quote, words
<1> DEFINE all == words \o depth
<1>9. /\ IsSeq(all, 26)
      /\ \A k \in 1..16 : all[k] = words[k]
      /\ \A k \in 1..10 : all[16 + k] = depth[k]
  <2>1. ASSUME NEW x, NEW y, x = 16, y = 10
        PROVE  /\ IsSeq(all, x + y)
               /\ \A k \in 1..x + y : all[k] = IF k <= x THEN words[k] ELSE depth[k - x]
    <3>1. IsSeq(words, x) /\ IsSeq(depth, y)
      BY <1>7, <1>8, <2>1
    <3>2. Joins(all, words, depth)
      BY DEF Joins
    <3> HIDE DEF all
    <3> QED
      BY <3>1, <3>2, Joined
  <2> HIDE DEF all
  <2>2. /\ IsSeq(all, 26)
        /\ \A k \in 1..26 : all[k] = IF k <= 16 THEN words[k] ELSE depth[k - 16]
    BY <2>1
  <2>3. ASSUME NEW k \in 1..16 PROVE all[k] = words[k]
    <3>1. k \in 1..26 /\ k <= 16
      OBVIOUS
    <3> QED
      BY <2>2, <3>1
  <2>4. ASSUME NEW k \in 1..10 PROVE all[16 + k] = depth[k]
    <3>1. 16 + k \in 1..26 /\ ~(16 + k <= 16) /\ (16 + k) - 16 = k
      OBVIOUS
    <3> QED
      BY <2>2, <3>1
  <2> QED
    BY <2>2, <2>3, <2>4
<1>15. mode = "full" => p = all
  BY <1>2
<1> HIDE DEF all
<1>10. IsSeq(p, FieldsIn(mode))
  <2>1. FieldsIn("ltp") = 2 /\ FieldsIn("quote") = 11 /\ FieldsIn("full") = 26
    BY DEF FieldsIn, WordsIn
  <2> QED
    BY <2>1, <1>1, <1>2, <1>3, <1>6, <1>9, <1>15
<1>11. p[1] = a1 /\ p[2] = a2
  <2>1. 1 \in 1..16 /\ 2 \in 1..16
    OBVIOUS
  <2>2. all[1] = a1 /\ all[2] = a2
    BY <1>7, <1>9, <2>1
  <2> QED
    BY <1>1, <1>2, <1>3, <1>6, <1>15, <2>2
<1>12. ASSUME mode # "ltp"
       PROVE  /\ p[3] = b1 /\ p[4] = b2 /\ p[5] = b3 /\ p[6] = b4 /\ p[7] = b5
              /\ p[8] = b6 /\ p[9] = b7 /\ p[10] = b8 /\ p[11] = b9
  <2>1. CASE mode = "quote"
    BY <1>2, <1>6, <2>1
  <2>2. CASE mode = "full"
    <3>1. \A k \in 3..11 : p[k] = words[k]
      BY <1>9, <1>15, <2>2
    <3> QED
      BY <1>7, <3>1
  <2> QED
    BY <1>1, <1>12, <2>1, <2>2
<1>13. ASSUME mode = "full"
       PROVE  p[12] = c1 /\ p[13] = c2 /\ p[14] = c3 /\ p[15] = c4 /\ p[16] = c5
  <2>1. \A k \in 12..16 : p[k] = words[k]
    BY <1>9, <1>15, <1>13
  <2> QED
    BY <1>7, <2>1
<1>14. ASSUME mode = "full", NEW k \in 1..5
       PROVE  p[16 + k] = Entry(st.bids[k], scale) /\ p[21 + k] = Entry(st.offers[k], scale)
  <2>1. k \in 1..10 /\ 5 + k \in 1..10 /\ 16 + (5 + k) = 21 + k
    OBVIOUS
  <2>2. all[16 + k] = depth[k] /\ all[16 + (5 + k)] = depth[5 + k]
    BY <1>9, <2>1
  <2> QED
    BY <1>8, <1>14, <1>15, <2>1, <2>2
<1> QED
  BY <1>10, <1>11, <1>12, <1>13, <1>14
  DEF a1, a2, b1, b2, b3, b4, b5, b6, b7, b8, b9, c1, c2, c3, c4, c5, p, DEPTH_LEVELS, HoldsFields

LEMMA TradeableShows ==
  ASSUME NEW t \in Tokens, ~Instrument[t].is_index, NEW st, NEW mode \in Modes,
         IsSeq(st.bids, DEPTH_LEVELS), IsSeq(st.offers, DEPTH_LEVELS)
  PROVE  Shows(PackPacket(t, st, mode), t, st, mode)
<1> DEFINE scale == Instrument[t].scale
           p == PackTradeable(t, st, mode, scale)
           m == WordsIn(mode)
           n == FieldsIn(mode)
<1>1. HoldsFields(p, t, st, mode, scale)
  BY TradeablePacket
<1> USE DEF HoldsFields
<1> HIDE DEF p
<1>2. mode = "ltp" \/ mode = "quote" \/ mode = "full"
  BY DEF Modes
<1>3. /\ mode = "ltp" => m = 2 /\ n = 2
      /\ mode = "quote" => m = 11 /\ n = 11
      /\ mode = "full" => m = 16 /\ n = 26
  BY DEF WordsIn, FieldsIn
<1>17. IsSeq(p, n)
  BY <1>1
<1> HIDE DEF m, n
<1>4. \A k \in 1..n : p[k].width = IF k <= m THEN 4 ELSE 12
  <2>1. p[1].width = 4 /\ p[2].width = 4
    BY <1>1 DEF Word
  <2>2. ASSUME mode # "ltp" PROVE \A k \in 1..11 : p[k].width = 4
    <3>1. /\ p[3].width = 4 /\ p[4].width = 4 /\ p[5].width = 4 /\ p[6].width = 4 /\ p[7].width = 4
          /\ p[8].width = 4 /\ p[9].width = 4 /\ p[10].width = 4 /\ p[11].width = 4
      BY <1>1, <2>2 DEF Word
    <3>2. \A k \in 1..11 : k \in {1, 2, 3, 4, 5, 6, 7, 8, 9, 10, 11}
      OBVIOUS
    <3> QED
      BY <2>1, <3>1, <3>2
  <2>3. ASSUME mode = "full" PROVE \A k \in 12..16 : p[k].width = 4
    <3>1. /\ p[12].width = 4 /\ p[13].width = 4 /\ p[14].width = 4 /\ p[15].width = 4
          /\ p[16].width = 4
      BY <1>1, <2>3 DEF Word
    <3>2. \A k \in 12..16 : k \in {12, 13, 14, 15, 16}
      OBVIOUS
    <3> QED
      BY <3>1, <3>2
  <2>4. ASSUME mode = "full", NEW k \in 1..5 PROVE p[16 + k].width = 12 /\ p[21 + k].width = 12
    BY <1>1, <2>4 DEF Entry, DEPTH_LEVELS
  <2>5. ASSUME mode = "full", NEW k \in 17..26 PROVE p[k].width = 12
    <3>1. CASE k <= 21
      <4>1. k - 16 \in 1..5 /\ 16 + (k - 16) = k
        BY <3>1
      <4> QED
        BY <2>4, <2>5, <4>1
    <3>2. CASE ~(k <= 21)
      <4>1. k - 21 \in 1..5 /\ 21 + (k - 21) = k
        BY <3>2
      <4> QED
        BY <2>4, <2>5, <4>1
    <3> QED
      BY <3>1, <3>2
  <2>6. CASE mode = "ltp"
    BY <1>3, <2>1, <2>6
  <2>7. CASE mode = "quote"
    <3>1. \A k \in 1..11 : p[k].width = 4
      BY <2>2, <2>7
    <3> QED
      BY <1>3, <2>7, <3>1
  <2>8. CASE mode = "full"
    <3>1. (\A k \in 1..11 : p[k].width = 4) /\ m = 16 /\ n = 26
      BY <1>3, <2>2, <2>8
    <3>2. (\A k \in 12..16 : p[k].width = 4) /\ \A k \in 17..26 : p[k].width = 12
      BY <2>3, <2>5, <2>8
    <3> QED
      BY <3>1, <3>2
  <2> QED
    BY <1>2, <2>6, <2>7, <2>8
<1>5. Fielded(p, m, n)
  BY <1>2, <1>3, <1>4, <1>17 DEF Fielded
<1>6. Length(p) = Place(m, n + 1) /\ \A k \in 1..n : At(p, Place(m, k)) = p[k].value
  BY <1>5, FieldAt
<1>7. Length(p) = Size(t, mode)
  BY <1>2, <1>3, <1>6 DEF Place, Size
<1>8. ASSUME NEW k \in 1..16, k <= n
      PROVE  At(p, 4 * (k - 1)) = p[k].value
  <2>1. k \in 1..n /\ Place(m, k) = 4 * (k - 1)
    BY <1>2, <1>3, <1>8 DEF Place
  <2> QED
    BY <1>6, <2>1
<1>9. /\ At(p, 0) = t /\ At(p, 4) = U(st.last_price, scale)
  <2>1. 1 <= n /\ 2 <= n /\ 4 * (1 - 1) = 0 /\ 4 * (2 - 1) = 4
    BY <1>2, <1>3
  <2>2. At(p, 0) = p[1].value /\ At(p, 4) = p[2].value
    BY <1>8, <2>1
  <2> QED
    BY <1>1, <2>2 DEF Word
<1>10. ASSUME mode # "ltp"
       PROVE  /\ At(p, 8) = st.last_traded_quantity
              /\ At(p, 12) = U(st.average_traded_price, scale) /\ At(p, 16) = st.volume
              /\ At(p, 20) = st.total_buy_quantity /\ At(p, 24) = st.total_sell_quantity
              /\ At(p, 28) = U(st.open, scale) /\ At(p, 32) = U(st.high, scale)
              /\ At(p, 36) = U(st.low, scale) /\ At(p, 40) = U(st.close, scale)
  <2>1. n >= 11
    BY <1>2, <1>3, <1>10
  <2>2. ASSUME NEW k \in 3..11 PROVE At(p, 4 * (k - 1)) = p[k].value
    <3>1. k \in 1..16 /\ k <= n
      BY <1>2, <1>3, <1>10
    <3> QED
      BY <1>8, <3>1
  <2>3. /\ 4 * (3 - 1) = 8 /\ 4 * (4 - 1) = 12 /\ 4 * (5 - 1) = 16 /\ 4 * (6 - 1) = 20
        /\ 4 * (7 - 1) = 24 /\ 4 * (8 - 1) = 28 /\ 4 * (9 - 1) = 32 /\ 4 * (10 - 1) = 36
        /\ 4 * (11 - 1) = 40
    OBVIOUS
  <2>4. /\ At(p, 8) = p[3].value /\ At(p, 12) = p[4].value /\ At(p, 16) = p[5].value
        /\ At(p, 20) = p[6].value /\ At(p, 24) = p[7].value /\ At(p, 28) = p[8].value
        /\ At(p, 32) = p[9].value /\ At(p, 36) = p[10].value /\ At(p, 40) = p[11].value
    BY <2>2, <2>3
  <2> QED
    BY <1>1, <1>10, <2>4 DEF Word
<1>11. ASSUME mode = "full"
       PROVE  /\ At(p, 44) = st.last_trade_time /\ At(p, 48) = st.oi
              /\ At(p, 52) = st.oi_day_high /\ At(p, 56) = st.oi_day_low
              /\ At(p, 60) = st.exchange_timestamp
  <2>1. n = 26
    BY <1>3, <1>11
  <2>2. ASSUME NEW k \in 12..16 PROVE At(p, 4 * (k - 1)) = p[k].value
    BY <1>8, <2>1
  <2>3. /\ 4 * (12 - 1) = 44 /\ 4 * (13 - 1) = 48 /\ 4 * (14 - 1) = 52
        /\ 4 * (15 - 1) = 56 /\ 4 * (16 - 1) = 60
    OBVIOUS
  <2>4. /\ At(p, 44) = p[12].value /\ At(p, 48) = p[13].value /\ At(p, 52) = p[14].value
        /\ At(p, 56) = p[15].value /\ At(p, 60) = p[16].value
    BY <2>2, <2>3
  <2> QED
    BY <1>1, <1>11, <2>4 DEF Word
<1>12. ASSUME mode = "full", NEW k \in 1..2 * DEPTH_LEVELS
       PROVE  LET level == IF k <= DEPTH_LEVELS THEN st.bids[k] ELSE st.offers[k - DEPTH_LEVELS]
              IN At(p, 64 + 12 * (k - 1)) = <<level.quantity, U(level.price, scale), level.orders>>
  <2> DEFINE level == IF k <= DEPTH_LEVELS THEN st.bids[k] ELSE st.offers[k - DEPTH_LEVELS]
  <2>1. k \in 1..10 /\ DEPTH_LEVELS = 5
    BY DEF DEPTH_LEVELS
  <2>2. 16 + k \in 1..n /\ Place(m, 16 + k) = 64 + 12 * (k - 1)
    BY <1>3, <1>12, <2>1 DEF Place
  <2>3. At(p, 64 + 12 * (k - 1)) = p[16 + k].value
    BY <1>6, <2>2
  <2>4. p[16 + k] = Entry(level, scale)
    <3>1. CASE k <= 5
      BY <1>1, <1>12, <2>1, <3>1
    <3>2. CASE ~(k <= 5)
      <4>1. k - 5 \in 1..5 /\ 21 + (k - 5) = 16 + k
        BY <2>1, <3>2
      <4> QED
        BY <1>1, <1>12, <2>1, <3>2, <4>1
    <3> QED
      BY <3>1, <3>2
  <2> HIDE DEF level
  <2>5. p[16 + k].value = <<level.quantity, U(level.price, scale), level.orders>>
    BY <2>4 DEF Entry
  <2> QED
    BY <2>3, <2>5 DEF level
<1>13. /\ mode = "ltp" => Size(t, mode) = 8
       /\ mode = "quote" => Size(t, mode) = 44
       /\ mode = "full" => Size(t, mode) = 184
  BY DEF Size
<1>14. ASSUME NEW f \in DOMAIN TradeableTable, TradeableTable[f] < Size(t, mode)
       PROVE  At(p, TradeableTable[f]) = IF f \in Prices THEN U(st[f], scale) ELSE st[f]
  <2> HIDE DEF scale
  <2>1. f \in {"last_price", "last_traded_quantity", "average_traded_price", "volume",
               "total_buy_quantity", "total_sell_quantity", "open", "high", "low", "close",
               "last_trade_time", "oi", "oi_day_high", "oi_day_low", "exchange_timestamp"}
    BY DEF TradeableTable
  <2>2. CASE f = "last_price"
    BY <1>9, <2>2 DEF TradeableTable, Prices
  <2>3. CASE f \in {"last_traded_quantity", "volume", "total_buy_quantity", "total_sell_quantity"}
    <3>1. mode # "ltp"
      BY <1>13, <1>14, <2>3 DEF TradeableTable
    <3> QED
      BY <1>10, <2>3, <3>1 DEF TradeableTable, Prices
  <2>4. CASE f \in {"average_traded_price", "open", "high", "low", "close"}
    <3>1. mode # "ltp"
      BY <1>13, <1>14, <2>4 DEF TradeableTable
    <3> QED
      BY <1>10, <2>4, <3>1 DEF TradeableTable, Prices
  <2>5. CASE f \in {"last_trade_time", "oi", "oi_day_high", "oi_day_low", "exchange_timestamp"}
    <3>1. mode = "full"
      BY <1>2, <1>13, <1>14, <2>5 DEF TradeableTable
    <3> QED
      BY <1>11, <2>5, <3>1 DEF TradeableTable, Prices
  <2> QED
    BY <2>1, <2>2, <2>3, <2>4, <2>5
<1>15. Size(t, mode) \notin {28, 32} /\ (Size(t, mode) = 184 => mode = "full")
  BY <1>2, <1>13
<1>16. Table(t) = TradeableTable /\ PackPacket(t, st, mode) = p
  BY DEF Table, PackPacket, p
<1> QED
  BY <1>7, <1>9, <1>12, <1>14, <1>15, <1>16 DEF Shows

\* A packet of what a step ends in, shows it.
LEMMA StepShows ==
  ASSUME NEW t \in Tokens, NEW st \in State, NEW d \in Drawn, NEW mode \in Modes
  PROVE  Shows(PackPacket(t, Step(t, st, d), mode), t, Step(t, st, d), mode)
<1> DEFINE price == Walk(t, st.last_price, d.gauss)
           moved == Move(st, price)
           after == Step(t, st, d)
<1>1. CASE Instrument[t].is_index
  <2> HIDE DEF after
  <2>1. Shows(PackPacket(t, after, mode), t, after, mode)
    BY <1>1, IndexShows
  <2> QED
    BY <2>1 DEF after
<1>2. CASE ~Instrument[t].is_index
  <2>1. after = Trade(t, moved, price, d)
    BY <1>2 DEF Step
  <2>2. moved \in State
    <3>1. price \in Nat
      BY WalkInBand, StateFields, DrawnFields
    <3> HIDE DEF price
    <3> QED
      BY <3>1, MoveType
  <2> HIDE DEF price, moved, after
  <2>3. after.bids = Bids(t, price, d) /\ after.offers = Offers(t, price, d)
    BY <2>1, <2>2 DEF Trade, State
  <2>4. IsSeq(after.bids, DEPTH_LEVELS) /\ IsSeq(after.offers, DEPTH_LEVELS)
    BY <2>3 DEF IsSeq, Bids, Offers, DEPTH_LEVELS
  <2>5. Shows(PackPacket(t, after, mode), t, after, mode)
    BY <1>2, <2>4, TradeableShows
  <2> QED
    BY <2>5 DEF after
<1> QED
  BY <1>1, <1>2

-----------------------------------------------------------------------------
(* A frame and the market it was built from.                               *)

\* Each packet of a new frame is that of its instrument just stepped.
LEMMA FrameBuilt ==
  ASSUME SoundStream, NEW c \in Connections, BuildFrame(c), NEW k \in DOMAIN subs[c]
  PROVE  LET t == subs[c][k][1]
             mode == subs[c][k][2]
         IN /\ t \in Tokens /\ mode \in Modes
            /\ \E d \in Drawn : market'[t] = Step(t, market[t], d)
            /\ held'[c].day = day
            /\ held'[c].packets[k] = PackPacket(t, market'[t], mode)
            /\ Fits(PackPacket(t, market'[t], mode))
<1>1. /\ subs[c] # <<>> /\ Advance(TokensOf(c)) /\ TooLarge(c) = {}
      /\ held' = [held EXCEPT ![c] =
                    [day |-> day, packets |-> [j \in DOMAIN subs[c] |-> Packet(c, j)]]]
  BY DEF BuildFrame
<1>2. subs[c] \in Seq(Tokens \X Modes)
  BY <1>1, StreamAssumption DEF SoundStream, TypeOK
<1>3. subs[c][k] \in Tokens \X Modes
  <2>1. k \in 1..Len(subs[c])
    BY <1>2, LenProperties
  <2> QED
    BY <1>2, <2>1, ElementOfSeq
<1>4. PICK t \in Tokens, mode \in Modes : subs[c][k] = <<t, mode>>
  BY <1>3
<1>5. PICK ts : ts = TokensOf(c)
  OBVIOUS
<1>6. /\ ts \in Seq(Tokens) /\ Distinct(ts) /\ k \in DOMAIN ts /\ ts[k] = t
  BY <1>1, <1>4, <1>5, TokensAreSeq, TokensAreDistinct DEF SoundStream, TokensOf
<1>7. (CHOOSE j \in DOMAIN ts : ts[j] = t) = k
  BY <1>6 DEF Distinct
<1>8. market'[t] = Stepped(ts, k)
  <2>1. market' = [u \in Tokens |->
                   IF \E j \in DOMAIN ts : ts[j] = u
                   THEN Stepped(ts, CHOOSE j \in DOMAIN ts : ts[j] = u)
                   ELSE market[u]]
    BY <1>1, <1>5 DEF Advance
  <2>2. \E j \in DOMAIN ts : ts[j] = t
    BY <1>6
  <2> QED
    BY <1>7, <2>1, <2>2
<1>9. Packet(c, k) = PackPacket(t, market'[t], mode)
  BY <1>4, <1>5, <1>6, <1>8 DEF Packet
<1>10. held'[c].day = day /\ held'[c].packets[k] = Packet(c, k)
  BY <1>1 DEF SoundStream
<1>11. Fits(Packet(c, k))
  BY <1>1 DEF TooLarge
<1>12. \E d \in Drawn : market'[t] = Step(t, market[t], d)
  <2> DEFINE h == drawn \o SubSeq(ts, 1, k - 1)
  <2>1. drawn \in Seq(Tokens) /\ seed \in Seeds
    BY HistoryIsSeq DEF SoundStream, MarketSound, MarketTypeOK
  <2>2. k \in 1..Len(ts) /\ Len(ts) \in Nat /\ Len(drawn) \in Nat
    BY <1>6, <2>1, LenProperties
  <2>3. SubSeq(ts, 1, k - 1) \in Seq(Tokens) /\ Len(SubSeq(ts, 1, k - 1)) = k - 1
    <3>1. \A i \in 1..k - 1 : ts[i] \in Tokens
      BY <1>6, <2>2, ElementOfSeq
    <3>2. k - 1 \in Int /\ (1 <= k - 1 \/ k - 1 = 0)
      BY <2>2
    <3> QED
      BY <1>6, <3>1, <3>2, SubSeqProperties
  <2>4. h \in Seq(Tokens) /\ Len(h) = Len(drawn) + (k - 1)
    BY <2>1, <2>3, ConcatProperties
  <2>5. Len(drawn) + Len(ts) <= MaxSteps /\ MaxSteps \in Nat
    BY <1>1, <1>5, MarketAssumption DEF Advance
  <2>6. Len(h) <= MaxSteps
    BY <2>2, <2>4, <2>5
  <2>7. Draw(seed, h, t) \in Drawn
    BY <2>1, <2>4, <2>6, HistoryIsSeq, DrawAssumption
  <2>8. Stepped(ts, k) = Step(t, market[t], Draw(seed, h, t))
    BY <1>6 DEF Stepped
  <2> QED
    BY <1>8, <2>7, <2>8
<1> QED
  BY <1>4, <1>9, <1>10, <1>11, <1>12

\* A connection gets a frame by building it.
LEMMA FrameIsBuilt ==
  ASSUME SoundStream, [Next]_vars, NEW c \in Connections, held[c] = None, held'[c] # None
  PROVE  BuildFrame(c)
<1>1. DOMAIN held = Connections
  BY DEF SoundStream
<1>2. ASSUME NEW e \in Connections, BuildFrame(e) PROVE e = c
  BY <1>1, <1>2 DEF BuildFrame
<1>3. ASSUME NEW e \in Connections, NEW s \in Subscriptions, Connect(e, s) PROVE FALSE
  BY <1>3 DEF Connect
<1>4. ASSUME NEW e \in Connections, PusherFails(e) PROVE FALSE
  BY <1>4 DEF PusherFails
<1>5. ASSUME NEW e \in Connections, SendFrame(e) \/ Leave(e) PROVE FALSE
  BY <1>1, <1>5 DEF SendFrame, Leave
<1>6. ASSUME NEW q \in Requested, Quote(q[1], q[2]) PROVE FALSE
  BY <1>6 DEF Quote
<1>7. ~Reset /\ ~UNCHANGED vars
  BY DEF Reset, vars, streamVars
<1> QED
  BY <1>2, <1>3, <1>4, <1>5, <1>6, <1>7 DEF Next

\* packets.py and KITE_SPEC.md section 4: a client that reads a frame at the
\* documented offsets finds the market the frame was built from, in every mode,
\* for every price and however many connections step the instruments.
THEOREM FramesAlwaysFollowSpec == Spec => FramesFollowSpec
<1>1. ASSUME SoundStream, [Next]_vars, NEW c \in Connections, held[c] = None, held'[c] # None,
             NEW k \in DOMAIN subs[c]
      PROVE  Shows(held'[c].packets[k], subs[c][k][1], market'[subs[c][k][1]], subs[c][k][2])
  <2>1. BuildFrame(c)
    BY <1>1, FrameIsBuilt
  <2>2. PICK t, mode : t = subs[c][k][1] /\ mode = subs[c][k][2]
    OBVIOUS
  <2>3. /\ t \in Tokens /\ mode \in Modes
        /\ \E d \in Drawn : market'[t] = Step(t, market[t], d)
        /\ held'[c].packets[k] = PackPacket(t, market'[t], mode)
    BY <1>1, <2>1, <2>2, FrameBuilt
  <2>4. market[t] \in State
    BY <1>1, <2>3 DEF SoundStream, MarketSound, MarketTypeOK
  <2>5. PICK d \in Drawn : market'[t] = Step(t, market[t], d)
    BY <2>3
  <2>6. Shows(PackPacket(t, market'[t], mode), t, market'[t], mode)
    BY <2>3, <2>4, <2>5, StepShows
  <2> QED
    BY <2>2, <2>3, <2>6
<1>2. SoundStream /\ [Next]_vars =>
        [\A c \in Connections : held[c] = None /\ held'[c] # None =>
           \A k \in DOMAIN subs[c] :
             Shows(held'[c].packets[k], subs[c][k][1], market'[subs[c][k][1]], subs[c][k][2])]_vars
  BY <1>1
<1> QED
  BY <1>2, AlwaysSound, PTL DEF Spec, FramesFollowSpec

LEMMA UMonotone ==
  ASSUME NEW a \in Nat, NEW b \in Nat, a <= b, NEW scale \in Positive
  PROVE  U(a, scale) \in Int /\ U(b, scale) \in Int /\ U(a, scale) <= U(b, scale)
<1>1. Unit \in Int /\ Unit > 0 /\ scale \in Int /\ scale > 0
  BY PacketsAssumption DEF Positive
<1>2. a * scale \in Int /\ b * scale \in Int /\ a * scale <= b * scale
  BY <1>1
<1> QED
  BY <1>1, <1>2, RoundMonotone, RoundNear DEF U

LEMMA UExact ==
  ASSUME NEW a \in Nat
  PROVE  U(a, Unit) = a
<1>1. Unit \in Int /\ Unit > 0
  BY PacketsAssumption DEF Positive
<1> QED
  BY <1>1, RoundExact DEF U

-----------------------------------------------------------------------------
(* A day of an instrument.                                                 *)

\* The last price is in its range; an index is not traded.
InDay(t, st) ==
  /\ st.low <= st.last_price /\ st.last_price <= st.high
  /\ Instrument[t].is_index => st.volume = 0

\* Until a reset the range and the volume only grow.
Grown(st, after) == after.low <= st.low /\ st.high <= after.high /\ st.volume <= after.volume

LEMMA StepGrows ==
  ASSUME NEW t \in Tokens, NEW st \in State, InDay(t, st), NEW d \in Drawn
  PROVE  InDay(t, Step(t, st, d)) /\ Grown(st, Step(t, st, d))
<1> DEFINE after == Step(t, st, d)
           price == Walk(t, st.last_price, d.gauss)
<1>1. /\ price \in Nat /\ after.last_price = price
      /\ after.high = Greatest(st.high, price) /\ after.low = Least(st.low, price)
      /\ Instrument[t].is_index => after.volume = st.volume
      /\ ~Instrument[t].is_index => after.volume = st.volume + d.ltq * Instrument[t].lot_size
  BY StepRanges
<1>2. st.high \in Nat /\ st.low \in Nat /\ st.volume \in Nat
  BY StateFields DEF Positive
<1> DEFINE ltq == d.ltq * Instrument[t].lot_size
<1>3. ltq \in Nat
  <2>1. d.ltq \in Nat /\ Instrument[t].lot_size \in Nat
    BY DrawnFields, InstrumentType DEF Positive
  <2> QED
    BY <2>1
<1> HIDE DEF after, price, ltq
<1>4. after.low <= price /\ price <= after.high /\ after.low <= st.low /\ st.high <= after.high
  BY <1>1, <1>2 DEF Greatest, Least
<1>5. st.volume <= after.volume
  BY <1>1, <1>2, <1>3 DEF ltq
<1>6. InDay(t, after) /\ Grown(st, after)
  BY <1>1, <1>4, <1>5 DEF InDay, Grown
<1> QED
  BY <1>6 DEF after

Daily == \A t \in Tokens : InDay(t, market[t])

LEMMA SeededDaily ==
  ASSUME NEW t \in Tokens
  PROVE  InDay(t, InitState(t))
<1>1. Instrument[t].start_price \in Nat
  BY InstrumentType DEF Positive
<1> QED
  BY <1>1 DEF InDay, InitState

LEMMA AdvanceGrows ==
  ASSUME MarketSound, Reproducible, Daily, NEW ts \in Seq(Tokens), Distinct(ts), Advance(ts),
         NEW t \in Tokens
  PROVE  InDay(t, market'[t]) /\ Grown(market[t], market'[t])
<1>1. market[t] \in State /\ InDay(t, market[t])
  BY DEF MarketSound, MarketTypeOK, Daily
<1>2. market'[t] = market[t] \/ \E d \in Drawn : market'[t] = Step(t, market[t], d)
  BY AdvanceVisits
<1>3. CASE market'[t] = market[t]
  <2>1. /\ market[t].low \in Nat /\ market[t].high \in Nat /\ market[t].volume \in Nat
    BY <1>1, StateFields DEF Positive
  <2> QED
    BY <1>1, <1>3, <2>1 DEF Grown
<1>4. CASE \E d \in Drawn : market'[t] = Step(t, market[t], d)
  <2>1. PICK d \in Drawn : market'[t] = Step(t, market[t], d)
    BY <1>4
  <2> QED
    BY <1>1, <2>1, StepGrows
<1> QED
  BY <1>2, <1>3, <1>4

\* Between two resets every instrument only grows.
LEMMA DayGrows ==
  ASSUME SoundStream, Reproducible, Daily, [Next]_vars
  PROVE  /\ Daily'
         /\ day' = day => \A t \in Tokens : Grown(market[t], market'[t])
<1>1. MarketSound /\ day \in Nat
  BY StreamAssumption DEF SoundStream, TypeOK, Positive
<1>2. ASSUME NEW c \in Connections, BuildFrame(c) \/ PusherFails(c)
      PROVE  Daily' /\ \A t \in Tokens : Grown(market[t], market'[t])
  <2>1. PICK ts \in Seq(Tokens) : Distinct(ts) /\ Advance(ts)
    BY <1>2, StreamAdvances
  <2>2. \A t \in Tokens : InDay(t, market'[t]) /\ Grown(market[t], market'[t])
    BY <1>1, <2>1, AdvanceGrows
  <2> QED
    BY <2>2 DEF Daily
<1>3. ASSUME Reset PROVE Daily' /\ day' # day
  <2>1. \A t \in Tokens : market'[t] = InitState(t)
    BY <1>3 DEF Reset, Reseed
  <2>2. day' # day
    BY <1>1, <1>3 DEF Reset
  <2> QED
    BY <2>1, <2>2, SeededDaily DEF Daily
<1>4. ASSUME UNCHANGED marketVars
      PROVE  Daily' /\ \A t \in Tokens : Grown(market[t], market'[t])
  <2>1. market' = market
    BY <1>4 DEF marketVars
  <2>2. \A t \in Tokens : Grown(market[t], market[t])
    <3> TAKE t \in Tokens
    <3>1. market[t] \in State
      BY <1>1 DEF MarketSound, MarketTypeOK
    <3>2. market[t].low \in Nat /\ market[t].high \in Nat /\ market[t].volume \in Nat
      BY <3>1, StateFields DEF Positive
    <3> QED
      BY <3>2 DEF Grown
  <2> QED
    BY <2>1, <2>2 DEF Daily
<1> QED
  BY <1>2, <1>3, <1>4, StreamSteps

LEMMA AlwaysDaily == Spec => []Daily
<1>1. Init => Daily
  BY SeededDaily DEF Init, MarketInit, Daily
<1>2. MarketExact => Reproducible
  BY DEF MarketExact
<1>3. SoundStream /\ Reproducible /\ Daily /\ [Next]_vars => Daily'
  BY DayGrows
<1> QED
  BY <1>1, <1>2, <1>3, AlwaysSound, AlwaysExact, PTL DEF Spec

\* A packet with more than the price of a traded instrument holds its volume.
LEMMA PackedVolume ==
  ASSUME NEW t, NEW st, NEW mode \in Modes, mode # "ltp", NEW scale,
         IsSeq(st.bids, DEPTH_LEVELS), IsSeq(st.offers, DEPTH_LEVELS),
         Fits(PackTradeable(t, st, mode, scale))
  PROVE  st.volume <= MaxWord
<1> DEFINE p == PackTradeable(t, st, mode, scale)
           n == FieldsIn(mode)
<1>1. HoldsFields(p, t, st, mode, scale) /\ Fits(p)
  BY TradeablePacket
<1> HIDE DEF p
<1>2. IsSeq(p, n) /\ p[5] = Word(st.volume)
  BY <1>1 DEF HoldsFields
<1>3. n \in Nat /\ n >= 11
  BY DEF FieldsIn, WordsIn, Modes
<1> HIDE DEF n
<1>4. 5 \in DOMAIN p
  <2>1. DOMAIN p = 1..n
    BY <1>2, SeqIs
  <2> QED
    BY <1>3, <2>1
<1>5. \A k \in DOMAIN p : p[k].fits
  BY <1>1 DEF Fits
<1>6. Word(st.volume).fits
  BY <1>2, <1>4, <1>5, Zenon
<1>7. st.volume \in 0..MaxWord
  BY <1>6 DEF Word
<1> QED
  BY <1>7, PacketsAssumption

LEMMA FitsVolume ==
  ASSUME NEW t \in Tokens, ~Instrument[t].is_index, NEW st \in State, NEW d \in Drawn,
         NEW mode \in Modes, mode # "ltp", Fits(PackPacket(t, Step(t, st, d), mode))
  PROVE  Step(t, st, d).volume <= MaxWord
<1> DEFINE price == Walk(t, st.last_price, d.gauss)
           moved == Move(st, price)
           after == Step(t, st, d)
<1>1. after = Trade(t, moved, price, d)
  BY DEF Step
<1>2. moved \in State
  <2>1. price \in Nat
    BY WalkInBand, StateFields, DrawnFields
  <2> HIDE DEF price
  <2> QED
    BY <2>1, MoveType
<1>3. Fits(PackTradeable(t, after, mode, Instrument[t].scale))
  BY DEF PackPacket
<1> HIDE DEF price, moved, after
<1>4. after.bids = Bids(t, price, d) /\ after.offers = Offers(t, price, d)
  BY <1>1, <1>2 DEF Trade, State
<1>5. IsSeq(after.bids, DEPTH_LEVELS) /\ IsSeq(after.offers, DEPTH_LEVELS)
  BY <1>4 DEF IsSeq, Bids, Offers, DEPTH_LEVELS
<1>6. after.volume <= MaxWord
  BY <1>3, <1>5, PackedVolume
<1> QED
  BY <1>6 DEF after

\* packets.py:56: once the volume of the day does not fit its field, no frame
\* holds more than the price of that instrument until the reset, whichever
\* connection asks for it.
THEOREM OverflowAlwaysLasts == Spec => OverflowLastsUntilReset
<1>1. ASSUME SoundStream, Reproducible, Daily, [Next]_vars, NEW t \in Tokens,
             market[t].volume > MaxWord, day' = day
      PROVE  /\ market'[t].volume > MaxWord
             /\ \A c \in Connections : held[c] = None /\ held'[c] # None =>
                  \A k \in DOMAIN subs[c] : subs[c][k][1] = t => subs[c][k][2] = "ltp"
  <2>1. market[t] \in State /\ InDay(t, market[t]) /\ MaxWord \in Nat
    BY <1>1, PacketsAssumption DEF SoundStream, MarketSound, MarketTypeOK, Daily
  <2>2. market[t].volume \in Nat
    BY <2>1, StateFields
  <2>3. ~Instrument[t].is_index
    BY <1>1, <2>1, <2>2 DEF InDay
  <2>4. market[t].volume <= market'[t].volume
    BY <1>1, DayGrows DEF Grown
  <2>5. MarketSound'
    BY <1>1, SoundStep DEF SoundStream
  <2>6. market'[t] \in State
    BY <2>5 DEF MarketSound, MarketTypeOK
  <2>7. market'[t].volume \in Nat
    BY <2>6, StateFields
  <2>8. market'[t].volume > MaxWord
    BY <1>1, <2>1, <2>2, <2>4, <2>7
  <2>9. ASSUME NEW c \in Connections, held[c] = None, held'[c] # None,
               NEW k \in DOMAIN subs[c], subs[c][k][1] = t
        PROVE  subs[c][k][2] = "ltp"
    <3>1. BuildFrame(c)
      BY <1>1, <2>9, FrameIsBuilt
    <3>2. PICK mode : mode = subs[c][k][2]
      OBVIOUS
    <3>3. /\ mode \in Modes
          /\ \E d \in Drawn : market'[t] = Step(t, market[t], d)
          /\ Fits(PackPacket(t, market'[t], mode))
      BY <1>1, <2>9, <3>1, <3>2, FrameBuilt
    <3>4. PICK d \in Drawn : market'[t] = Step(t, market[t], d)
      BY <3>3
    <3>5. mode # "ltp" => market'[t].volume <= MaxWord
      BY <2>1, <2>3, <3>3, <3>4, FitsVolume
    <3> QED
      BY <2>1, <2>7, <2>8, <3>2, <3>5
  <2> QED
    BY <2>8, <2>9
<1>2. SoundStream /\ Reproducible /\ Daily /\ [Next]_vars =>
        [\A t \in Tokens :
           market[t].volume > MaxWord /\ day' = day =>
             /\ market'[t].volume > MaxWord
             /\ \A c \in Connections : held[c] = None /\ held'[c] # None =>
                  \A k \in DOMAIN subs[c] : subs[c][k][1] = t => subs[c][k][2] = "ltp"]_vars
  BY <1>1
<1>3. MarketExact => Reproducible
  BY DEF MarketExact
<1> QED
  BY <1>2, <1>3, AlwaysSound, AlwaysExact, AlwaysDaily, PTL DEF Spec, OverflowLastsUntilReset

-----------------------------------------------------------------------------
(* What is shown of a day stays true until the day ends.                   *)

\* shown is a part of the state st, in units of a scale.
PartOf(shown, st, scale) ==
  /\ shown.last_price = U(st.last_price, scale)
  /\ "low" \in DOMAIN shown => shown.low = U(st.low, scale) /\ shown.high = U(st.high, scale)
  /\ "volume" \in DOMAIN shown => shown.volume = st.volume

\* It is a part of a state that t has been in today.
Reads(shown, t, scale) ==
  \E st \in State : InDay(t, st) /\ Grown(st, market[t]) /\ PartOf(shown, st, scale)

LEMMA ReadsWithin ==
  ASSUME MarketSound, NEW t \in Tokens, NEW scale \in Positive, NEW shown, Reads(shown, t, scale)
  PROVE  Within(shown, t, scale)
<1>1. PICK st \in State : InDay(t, st) /\ Grown(st, market[t]) /\ PartOf(shown, st, scale)
  BY DEF Reads
<1>2. market[t] \in State
  BY DEF MarketSound, MarketTypeOK
<1> DEFINE now == market[t]
<1>3. /\ now.low \in Nat /\ now.high \in Nat /\ now.volume \in Nat
      /\ st.low \in Nat /\ st.high \in Nat /\ st.volume \in Nat /\ st.last_price \in Nat
  BY <1>1, <1>2, StateFields DEF Positive
<1>4. /\ now.low <= st.low /\ st.low <= st.last_price /\ st.last_price <= st.high
      /\ st.high <= now.high /\ st.volume <= now.volume
  BY <1>1 DEF InDay, Grown
<1>5. U(now.low, scale) \in Int /\ U(st.low, scale) \in Int /\ U(now.low, scale) <= U(st.low, scale)
  BY <1>3, <1>4, UMonotone
<1>6. U(st.last_price, scale) \in Int /\ U(st.low, scale) <= U(st.last_price, scale)
  BY <1>3, <1>4, UMonotone
<1>7. U(st.high, scale) \in Int /\ U(st.last_price, scale) <= U(st.high, scale)
  BY <1>3, <1>4, UMonotone
<1>8. U(now.high, scale) \in Int /\ U(st.high, scale) <= U(now.high, scale)
  BY <1>3, <1>4, UMonotone
<1>9. U(now.low, scale) <= U(st.last_price, scale) /\ U(st.last_price, scale) <= U(now.high, scale)
  BY <1>5, <1>6, <1>7, <1>8
<1> QED
  BY <1>1, <1>4, <1>5, <1>6, <1>7, <1>8, <1>9 DEF PartOf, Within

LEMMA GrownOn ==
  ASSUME NEW a \in State, NEW b \in State, NEW c \in State, Grown(a, b), Grown(b, c)
  PROVE  Grown(a, c)
<1>1. \A s \in State : s.low \in Nat /\ s.high \in Nat /\ s.volume \in Nat
  BY StateFields DEF Positive
<1> QED
  BY <1>1 DEF Grown

LEMMA ReadsStill ==
  ASSUME MarketSound, MarketSound', NEW t \in Tokens, Grown(market[t], market'[t]),
         NEW shown, NEW scale, Reads(shown, t, scale)
  PROVE  Reads(shown, t, scale)'
<1>1. PICK st \in State : InDay(t, st) /\ Grown(st, market[t]) /\ PartOf(shown, st, scale)
  BY DEF Reads
<1>2. market[t] \in State /\ market'[t] \in State
  BY DEF MarketSound, MarketTypeOK
<1>3. Grown(st, market'[t])
  BY <1>1, <1>2, GrownOn
<1> QED
  BY <1>1, <1>3 DEF Reads

\* What a client decodes from a packet is a part of the state it shows.
LEMMA DecodedIsPart ==
  ASSUME NEW t \in Tokens, NEW st, NEW mode \in Modes, NEW p, Shows(p, t, st, mode)
  PROVE  PartOf(Decoded(p, t, mode), st, Instrument[t].scale)
<1> DEFINE scale == Instrument[t].scale
           rows == {f \in DOMAIN Table(t) : Table(t)[f] < Size(t, mode)}
           shown == Decoded(p, t, mode)
<1>1. shown = [f \in rows |-> At(p, Table(t)[f])]
  BY DEF Decoded
<1>2. \A f \in rows : shown[f] = IF f \in Prices THEN U(st[f], scale) ELSE st[f]
  BY <1>1 DEF Shows
<1>3. DOMAIN shown = rows
  BY <1>1
<1> HIDE DEF shown, scale
<1>4. "last_price" \in rows
  BY DEF Table, IndexTable, TradeableTable, Size, Modes
<1>5. "low" \in rows => "high" \in rows
  BY DEF Table, IndexTable, TradeableTable, Size, Modes
<1> HIDE DEF rows
<1>6. shown.last_price = U(st.last_price, scale)
  BY <1>2, <1>4 DEF Prices
<1>7. "low" \in rows => shown.low = U(st.low, scale) /\ shown.high = U(st.high, scale)
  BY <1>2, <1>5 DEF Prices
<1>8. "volume" \in rows => shown.volume = st.volume
  BY <1>2 DEF Prices
<1>9. PartOf(shown, st, scale)
  BY <1>3, <1>6, <1>7, <1>8 DEF PartOf
<1> QED
  BY <1>9 DEF shown, scale

\* And a quote is a part of the state there is, in units.
LEMMA QuoteIsPart ==
  ASSUME MarketSound, NEW t \in Tokens, NEW endpoint
  PROVE  PartOf(QuoteOf(endpoint, t), market[t], Unit)
<1> DEFINE st == market[t]
           q == QuoteOf(endpoint, t)
<1>1. st \in State
  BY DEF MarketSound, MarketTypeOK
<1> HIDE DEF st
<1>2. /\ U(st.last_price, Unit) = st.last_price /\ U(st.low, Unit) = st.low
      /\ U(st.high, Unit) = st.high
  BY <1>1, StateFields, UExact DEF Positive
<1>3. CASE endpoint = "quote"
  <2>1. q = FullQuote(t)
    BY <1>3 DEF QuoteOf
  <2> HIDE DEF q
  <2>2. q.last_price = st.last_price /\ q.low = st.low /\ q.high = st.high /\ q.volume = st.volume
    BY <2>1 DEF FullQuote, st
  <2>3. PartOf(q, st, Unit)
    BY <1>2, <2>2 DEF PartOf
  <2> QED
    BY <2>3 DEF q, st
<1>4. CASE endpoint = "quote.ohlc"
  <2>1. q = [last_price |-> st.last_price, high |-> st.high, low |-> st.low]
    BY <1>4 DEF QuoteOf, st
  <2> HIDE DEF q
  <2>2. PartOf(q, st, Unit)
    BY <1>2, <2>1 DEF PartOf
  <2> QED
    BY <2>2 DEF q, st
<1>5. CASE endpoint # "quote" /\ endpoint # "quote.ohlc"
  <2>1. q = [last_price |-> st.last_price]
    BY <1>5 DEF QuoteOf, st
  <2> HIDE DEF q
  <2>2. PartOf(q, st, Unit)
    BY <1>2, <2>1 DEF PartOf
  <2> QED
    BY <2>2 DEF q, st
<1> QED
  BY <1>3, <1>4, <1>5

\* The k-th packet of the frame of c is read as today's.
PacketReads(c, k) ==
  Reads(Decoded(held[c].packets[k], subs[c][k][1], subs[c][k][2]), subs[c][k][1],
        Instrument[subs[c][k][1]].scale)

QuoteReads(t) == Reads(quoted.of[t], t, Unit)

ShownToday ==
  /\ \A c \in Connections : held[c] # None /\ held[c].day = day =>
       \A k \in DOMAIN subs[c] : PacketReads(c, k)
  /\ quoted.day = day => \A t \in DOMAIN quoted.of : QuoteReads(t)

\* A subscription is to a token in a mode.
LEMMA SubscribedTo ==
  ASSUME TypeOK, NEW c \in Connections, NEW k \in DOMAIN subs[c], subs[c] # <<>>
  PROVE  subs[c][k][1] \in Tokens /\ subs[c][k][2] \in Modes
<1>1. subs[c] \in Seq(Tokens \X Modes)
  BY StreamAssumption DEF TypeOK
<1>2. k \in 1..Len(subs[c])
  BY <1>1, LenProperties
<1>3. subs[c][k] \in Tokens \X Modes
  BY <1>1, <1>2, ElementOfSeq
<1> QED
  BY <1>3

LEMMA ShownWithin ==
  ASSUME SoundStream, ShownToday
  PROVE  ShownStaysWithinDay
<1>1. ASSUME NEW c \in Connections, held[c] # None, held[c].day = day, NEW k \in DOMAIN subs[c]
      PROVE  LET t == subs[c][k][1] IN
             Within(Decoded(held[c].packets[k], t, subs[c][k][2]), t, Instrument[t].scale)
  <2>1. subs[c][k][1] \in Tokens
    BY <1>1, SubscribedTo DEF SoundStream, TypeOK
  <2>2. Instrument[subs[c][k][1]].scale \in Positive
    BY <2>1, MarketAssumption
  <2>3. PacketReads(c, k)
    BY <1>1 DEF ShownToday
  <2> QED
    BY <2>1, <2>2, <2>3, ReadsWithin DEF PacketReads, SoundStream
<1>2. ASSUME quoted.day = day, NEW t \in DOMAIN quoted.of
      PROVE  Within(quoted.of[t], t, Unit)
  <2>1. t \in Tokens
    BY <1>2 DEF SoundStream, TypeOK
  <2>2. QuoteReads(t)
    BY <1>2 DEF ShownToday
  <2> QED
    BY <2>1, <2>2, PacketsAssumption, ReadsWithin DEF QuoteReads, SoundStream
<1> QED
  BY <1>1, <1>2 DEF ShownStaysWithinDay

\* A frame that stays in its push delay on a day, and a quote that stays the
\* last answer, are still read as today's.
LEMMA KeptReads ==
  ASSUME SoundStream, SoundStream', ShownToday, day' = day,
         \A t \in Tokens : Grown(market[t], market'[t])
  PROVE  /\ \A c \in Connections :
              held[c] # None /\ held[c].day = day /\ held'[c] = held[c] /\ subs'[c] = subs[c] =>
                \A k \in DOMAIN subs'[c] : PacketReads(c, k)'
         /\ quoted' = quoted /\ quoted.day = day => \A t \in DOMAIN quoted'.of : QuoteReads(t)'
<1>1. ASSUME NEW c \in Connections, held[c] # None, held[c].day = day, held'[c] = held[c],
             subs'[c] = subs[c], NEW k \in DOMAIN subs[c]
      PROVE  PacketReads(c, k)'
  <2>1. PICK t, mode : t = subs[c][k][1] /\ mode = subs[c][k][2]
    OBVIOUS
  <2>2. t \in Tokens
    BY <1>1, <2>1, SubscribedTo DEF SoundStream, TypeOK
  <2>3. PICK shown : shown = Decoded(held[c].packets[k], t, mode)
    OBVIOUS
  <2>4. Reads(shown, t, Instrument[t].scale)
    BY <1>1, <2>1, <2>3 DEF ShownToday, PacketReads
  <2>5. Reads(shown, t, Instrument[t].scale)'
    BY <2>2, <2>4, ReadsStill DEF SoundStream
  <2>6. /\ t = subs'[c][k][1] /\ mode = subs'[c][k][2]
        /\ shown = Decoded(held'[c].packets[k], t, mode)
    BY <1>1, <2>1, <2>3
  <2> QED
    BY <2>5, <2>6 DEF PacketReads
<1>2. ASSUME quoted' = quoted, quoted.day = day, NEW t \in DOMAIN quoted.of
      PROVE  QuoteReads(t)'
  <2>1. t \in Tokens
    BY <1>2 DEF SoundStream, TypeOK
  <2>2. PICK shown : shown = quoted.of[t]
    OBVIOUS
  <2>3. Reads(shown, t, Unit)
    BY <1>2, <2>2 DEF ShownToday, QuoteReads
  <2>4. Reads(shown, t, Unit)'
    BY <2>1, <2>3, ReadsStill DEF SoundStream
  <2> QED
    BY <1>2, <2>2, <2>4 DEF QuoteReads
<1> QED
  BY <1>1, <1>2

LEMMA ShownByFrame ==
  ASSUME SoundStream, SoundStream', Daily', NEW c \in Connections, BuildFrame(c),
         NEW k \in DOMAIN subs[c]
  PROVE  PacketReads(c, k)'
<1>1. PICK t, mode : t = subs[c][k][1] /\ mode = subs[c][k][2]
  OBVIOUS
<1>2. /\ t \in Tokens /\ mode \in Modes
      /\ \E d \in Drawn : market'[t] = Step(t, market[t], d)
      /\ held'[c].packets[k] = PackPacket(t, market'[t], mode)
  BY <1>1, FrameBuilt
<1>3. PICK d \in Drawn : market'[t] = Step(t, market[t], d)
  BY <1>2
<1>4. PICK st : st = market'[t]
  OBVIOUS
<1>5. market[t] \in State /\ st \in State
  BY <1>2, <1>4 DEF SoundStream, MarketSound, MarketTypeOK
<1>6. PICK p : p = held'[c].packets[k]
  OBVIOUS
<1>7. Shows(p, t, st, mode)
  BY <1>2, <1>3, <1>4, <1>5, <1>6, StepShows
<1>8. PartOf(Decoded(p, t, mode), st, Instrument[t].scale)
  BY <1>2, <1>7, DecodedIsPart
<1>9. InDay(t, st) /\ Grown(st, market'[t])
  <2>1. InDay(t, st)
    BY <1>2, <1>4 DEF Daily
  <2>2. st.low \in Nat /\ st.high \in Nat /\ st.volume \in Nat
    BY <1>5, StateFields DEF Positive
  <2> QED
    BY <1>4, <2>1, <2>2 DEF Grown
<1>10. Reads(Decoded(p, t, mode), t, Instrument[t].scale)'
  BY <1>5, <1>8, <1>9 DEF Reads
<1>11. subs' = subs
  BY DEF BuildFrame
<1> QED
  BY <1>1, <1>6, <1>10, <1>11 DEF PacketReads

LEMMA ShownByQuote ==
  ASSUME SoundStream, Daily, NEW endpoint, NEW ts, Quote(endpoint, ts), NEW t \in DOMAIN quoted'.of
  PROVE  QuoteReads(t)'
<1>1. quoted' = [day |-> day, of |-> [u \in RequestedInstruments(ts) |-> QuoteOf(endpoint, u)]]
      /\ market' = market
  BY DEF Quote, marketVars
<1>2. t \in Tokens /\ quoted'.of[t] = QuoteOf(endpoint, t)
  BY <1>1 DEF RequestedInstruments
<1>3. PICK st : st = market[t]
  OBVIOUS
<1>4. PICK shown : shown = QuoteOf(endpoint, t)
  OBVIOUS
<1>5. PartOf(shown, st, Unit)
  BY <1>2, <1>3, <1>4, QuoteIsPart DEF SoundStream
<1>6. st \in State /\ InDay(t, st)
  BY <1>2, <1>3 DEF SoundStream, MarketSound, MarketTypeOK, Daily
<1>7. st.low \in Nat /\ st.high \in Nat /\ st.volume \in Nat
  BY <1>6, StateFields DEF Positive
<1>8. Grown(st, market'[t])
  BY <1>1, <1>3, <1>7 DEF Grown
<1>9. Reads(shown, t, Unit)'
  BY <1>5, <1>6, <1>8 DEF Reads
<1> QED
  BY <1>2, <1>4, <1>9 DEF QuoteReads

LEMMA ShownStep ==
  ASSUME SoundStream, SoundStream', Reproducible, Daily, ShownToday, [Next]_vars
  PROVE  ShownToday'
<1>1. Daily' /\ (day' = day => \A t \in Tokens : Grown(market[t], market'[t]))
  BY DayGrows
<1>2. DOMAIN held = Connections /\ day \in Nat
  BY StreamAssumption DEF SoundStream, TypeOK, Positive
<1>3. ASSUME day' = day, quoted' = quoted,
             \A c \in Connections : held'[c] # None =>
               \/ held'[c] = held[c] /\ subs'[c] = subs[c]
               \/ \A k \in DOMAIN subs'[c] : PacketReads(c, k)'
      PROVE  ShownToday'
  <2>1. /\ \A c \in Connections :
             held[c] # None /\ held[c].day = day /\ held'[c] = held[c] /\ subs'[c] = subs[c] =>
               \A k \in DOMAIN subs'[c] : PacketReads(c, k)'
        /\ quoted.day = day => \A t \in DOMAIN quoted'.of : QuoteReads(t)'
    BY <1>1, <1>3, KeptReads
  <2>2. ASSUME NEW c \in Connections, held'[c] # None, held'[c].day = day'
        PROVE  \A k \in DOMAIN subs'[c] : PacketReads(c, k)'
    BY <1>3, <2>1, <2>2
  <2> QED
    BY <1>3, <2>1, <2>2 DEF ShownToday
<1>4. ASSUME NEW c \in Connections, BuildFrame(c) PROVE ShownToday'
  <2>1. /\ day' = day /\ quoted' = quoted /\ subs' = subs
        /\ \A e \in Connections : e # c => held'[e] = held[e]
    BY <1>2, <1>4 DEF BuildFrame
  <2>2. \A k \in DOMAIN subs'[c] : PacketReads(c, k)'
    BY <1>1, <1>4, <2>1, ShownByFrame
  <2> QED
    BY <1>3, <2>1, <2>2
<1>5. ASSUME NEW c \in Connections, NEW s \in Subscriptions, Connect(c, s) PROVE ShownToday'
  <2>1. /\ day' = day /\ quoted' = quoted /\ held' = held
        /\ \A e \in Connections : e # c => subs'[e] = subs[e]
    BY <1>5 DEF Connect, SoundStream, TypeOK
  <2>2. held[c] = None
    BY <1>5 DEF Connect, SoundStream, TypeOK
  <2> QED
    BY <1>3, <2>1, <2>2
<1>6. ASSUME NEW c \in Connections, PusherFails(c) PROVE ShownToday'
  <2>1. /\ day' = day /\ quoted' = quoted /\ held' = held /\ held[c] = None
        /\ \A e \in Connections : e # c => subs'[e] = subs[e]
    BY <1>6 DEF PusherFails, SoundStream, TypeOK
  <2> QED
    BY <1>3, <2>1
<1>7. ASSUME NEW c \in Connections, SendFrame(c) \/ Leave(c) PROVE ShownToday'
  <2>1. /\ day' = day /\ quoted' = quoted /\ held'[c] = None
        /\ \A e \in Connections : e # c => subs'[e] = subs[e] /\ held'[e] = held[e]
    BY <1>2, <1>7 DEF SendFrame, Leave, SoundStream, TypeOK
  <2> QED
    BY <1>3, <2>1
<1>8. ASSUME NEW q \in Requested, Quote(q[1], q[2]) PROVE ShownToday'
  <2>1. PICK endpoint, ts : endpoint = q[1] /\ ts = q[2]
    OBVIOUS
  <2>2. Quote(endpoint, ts)
    BY <1>8, <2>1
  <2>3. day' = day /\ held' = held /\ subs' = subs
    BY <2>2 DEF Quote
  <2>4. \A t \in DOMAIN quoted'.of : QuoteReads(t)'
    BY <2>2, ShownByQuote
  <2>5. \A c \in Connections :
           held[c] # None /\ held[c].day = day /\ held'[c] = held[c] /\ subs'[c] = subs[c] =>
             \A k \in DOMAIN subs'[c] : PacketReads(c, k)'
    BY <1>1, <2>3, KeptReads
  <2> QED
    BY <2>3, <2>4, <2>5 DEF ShownToday
<1>9. ASSUME Reset PROVE ShownToday'
  <2>1. day' = day + 1 /\ held' = held /\ quoted' = quoted
    BY <1>9 DEF Reset
  <2>2. quoted.day <= day /\ \A c \in Connections : held[c] # None => held[c].day <= day
    BY DEF SoundStream, TypeOK
  <2>3. quoted'.day # day' /\ \A c \in Connections : held'[c] # None => held'[c].day # day'
    <3>1. quoted.day \in Int /\ \A c \in Connections : held[c] # None => held[c].day \in Int
      BY DEF SoundStream, TypeOK
    <3> QED
      BY <1>2, <2>1, <2>2, <3>1
  <2> QED
    BY <2>3 DEF ShownToday
<1>10. ASSUME UNCHANGED vars PROVE ShownToday'
  <2>1. day' = day /\ quoted' = quoted /\ held' = held /\ subs' = subs
    BY <1>10 DEF vars, streamVars
  <2> QED
    BY <1>3, <2>1
<1> QED
  BY <1>4, <1>5, <1>6, <1>7, <1>8, <1>9, <1>10 DEF Next

\* A frame in its push delay and the last quote of a day never show a price
\* outside their range, nor a range or a volume the day has not reached,
\* however the other connections step the instrument meanwhile.
THEOREM ShownAlwaysWithinDay == Spec => []ShownStaysWithinDay
<1>1. Init => ShownToday
  BY DEF Init, ShownToday
<1>2. SoundStream /\ ShownToday => ShownStaysWithinDay
  BY ShownWithin
<1>3. MarketExact => Reproducible
  BY DEF MarketExact
<1>4. SoundStream /\ SoundStream' /\ Reproducible /\ Daily /\ ShownToday /\ [Next]_vars => ShownToday'
  BY ShownStep
<1> QED
  BY <1>1, <1>2, <1>3, <1>4, AlwaysSound, AlwaysExact, AlwaysDaily, PTL DEF Spec
==============================================================================
