------------------------------- MODULE Stream -------------------------------
(***************************************************************************)
(* The one price generator under all who use it: the pushers of several    *)
(* connections (ws/ticker.py), each of which steps it for every frame it   *)
(* builds, the REST quotes that only read it (rest/market.py), and resets. *)
(* A frame is built in one go and sent after the push delay.               *)
(***************************************************************************)
EXTENDS Packets

CONSTANTS
  Connections,
  Subscriptions,    \* what a connection may subscribe to: <<token, mode>> pairs
  Requested,        \* what a GET may ask for: <<endpoint, tokens>>, listed or not
  None,             \* no frame is held
  MaxDays           \* bound: resets

ASSUME StreamAssumption ==
  /\ Subscriptions \subseteq Seq(Tokens \X Modes)
  /\ \A s \in Subscriptions : s # <<>> /\ \A j, k \in DOMAIN s : s[j][1] = s[k][1] => j = k
  /\ \A q \in Requested : q[1] \in {"quote", "quote.ohlc", "quote.ltp"}
  /\ MaxDays \in Positive

VARIABLES
  subs,             \* connection -> its subscriptions, in the order of the dict;
                    \* <<>> while it is closed
  held,             \* connection -> the frame in its push delay, or None
  quoted,           \* the last answer of the quote endpoints: token -> its quote
  day               \* auxiliary: the resets so far, by which frames are dated

streamVars == <<subs, held, quoted, day>>
vars == <<marketVars, streamVars>>

Init ==
  /\ MarketInit
  /\ subs = [c \in Connections |-> <<>>]
  /\ held = [c \in Connections |-> None]
  /\ quoted = [day |-> 1, of |-> <<>>]
  /\ day = 1

\* A client connects and subscribes.
Connect(c, s) ==
  /\ subs[c] = <<>>
  /\ subs' = [subs EXCEPT ![c] = s]
  /\ UNCHANGED <<marketVars, held, quoted, day>>

TokensOf(c) == [k \in DOMAIN subs[c] |-> subs[c][k][1]]
Packet(c, k) == PackPacket(TokensOf(c)[k], Stepped(TokensOf(c), k), subs[c][k][2])
TooLarge(c) == {k \in DOMAIN subs[c] : ~Fits(Packet(c, k))}

\* Mutant of BuildFrame: the instruments are stepped after they are packed.
BuildFrameFirst(c) ==
  /\ subs[c] # <<>> /\ held[c] = None
  /\ TooLarge(c) = {}
  /\ Advance(TokensOf(c))
  /\ held' = [held EXCEPT ![c] =
       [day |-> day, packets |->
          [k \in DOMAIN subs[c] |-> PackPacket(TokensOf(c)[k], market[TokensOf(c)[k]], subs[c][k][2])]]]
  /\ UNCHANGED <<subs, quoted, day>>

BuildFrame(c) ==
  /\ subs[c] # <<>> /\ held[c] = None
  /\ TooLarge(c) = {}
  /\ Advance(TokensOf(c))
  /\ held' = [held EXCEPT ![c] =
                [day |-> day, packets |-> [k \in DOMAIN subs[c] |-> Packet(c, k)]]]
  /\ UNCHANGED <<subs, quoted, day>>

\* A field that does not fit raises in the pusher, which ends the connection;
\* the instruments up to that one have been stepped.
PusherFails(c) ==
  /\ subs[c] # <<>> /\ held[c] = None
  /\ \E k \in TooLarge(c) :
       /\ \A j \in TooLarge(c) : k <= j
       /\ Advance(SubSeq(TokensOf(c), 1, k))
  /\ subs' = [subs EXCEPT ![c] = <<>>]
  /\ UNCHANGED <<held, quoted, day>>

SendFrame(c) ==
  /\ held[c] # None
  /\ held' = [held EXCEPT ![c] = None]
  /\ UNCHANGED <<marketVars, subs, quoted, day>>

\* Mutant of Leave: the pusher is not cancelled.
LeaveKeepsFrame(c) ==
  /\ subs[c] # <<>>
  /\ subs' = [subs EXCEPT ![c] = <<>>]
  /\ UNCHANGED <<marketVars, held, quoted, day>>

\* The connection ends, with or without a frame in its push delay.
Leave(c) ==
  /\ subs[c] # <<>>
  /\ subs' = [subs EXCEPT ![c] = <<>>]
  /\ held' = [held EXCEPT ![c] = None]
  /\ UNCHANGED <<marketVars, quoted, day>>

-----------------------------------------------------------------------------
(* GET /quote, /quote/ohlc and /quote/ltp: the snapshot, or a part of it,  *)
(* of every instrument asked for that is listed.                           *)

RestLevel(t, price, l) ==
  [price |-> FourDecimals(price), quantity |-> 100 * l * Instrument[t].lot_size, orders |-> l]

\* Mutant of RestDepth: its levels start at the price.
RestDepthFromZero(t) ==
  LET price == market[t].last_price
      step(l) == FourDecimals(Instrument[t].tick_size * (l - 1))
  IN IF Instrument[t].is_index THEN [buy |-> <<>>, sell |-> <<>>]
     ELSE [buy |-> [l \in 1..DEPTH_LEVELS |-> RestLevel(t, price - step(l), l)],
           sell |-> [l \in 1..DEPTH_LEVELS |-> RestLevel(t, price + step(l), l)]]

\* _depth of rest/market.py, its levels nearest first.
RestDepth(t) ==
  LET price == market[t].last_price
      step(l) == FourDecimals(Instrument[t].tick_size * l)
  IN IF Instrument[t].is_index THEN [buy |-> <<>>, sell |-> <<>>]
     ELSE [buy |-> [l \in 1..DEPTH_LEVELS |-> RestLevel(t, price - step(l), l)],
           sell |-> [l \in 1..DEPTH_LEVELS |-> RestLevel(t, price + step(l), l)]]

FullQuote(t) ==
  LET st == market[t] IN
  [last_price |-> st.last_price, high |-> st.high, low |-> st.low, volume |-> st.volume,
   depth |-> RestDepth(t)]

QuoteOf(endpoint, t) ==
  CASE endpoint = "quote" -> FullQuote(t)
    [] endpoint = "quote.ohlc" ->
         [last_price |-> market[t].last_price, high |-> market[t].high, low |-> market[t].low]
    [] OTHER -> [last_price |-> market[t].last_price]

RequestedInstruments(ts) == ts \cap Tokens

\* Mutant of Quote: the depth of the quote is drawn from the random source.
QuoteDraws(endpoint, ts) ==
  /\ Len(drawn) < MaxSteps
  /\ quoted' = [day |-> day, of |-> [t \in RequestedInstruments(ts) |-> QuoteOf(endpoint, t)]]
  /\ drawn' = Append(drawn, CHOOSE t \in RequestedInstruments(ts) : TRUE)
  /\ UNCHANGED <<market, seed, subs, held, day>>

Quote(endpoint, ts) ==
  /\ quoted' = [day |-> day, of |-> [t \in RequestedInstruments(ts) |-> QuoteOf(endpoint, t)]]
  /\ UNCHANGED <<marketVars, subs, held, day>>

Reset ==
  /\ day < MaxDays
  /\ day' = day + 1
  /\ Reseed
  /\ UNCHANGED <<subs, held, quoted>>

Next ==
  \/ \E c \in Connections :
       \/ \E s \in Subscriptions : Connect(c, s)
       \/ BuildFrame(c) \/ PusherFails(c) \/ SendFrame(c) \/ Leave(c)
  \/ \E q \in Requested : Quote(q[1], q[2])
  \/ Reset

Spec == Init /\ [][Next]_vars

-----------------------------------------------------------------------------
(* Properties.                                                             *)

\* A frame is held by an open connection, dated from a day that has begun,
\* with a packet for each subscription; a quote is of listed instruments.
TypeOK ==
  /\ MarketTypeOK
  /\ subs \in [Connections -> Subscriptions \cup {<<>>}]
  /\ \A c \in Connections : held[c] # None =>
       /\ held[c].day \in 1..day
       /\ subs[c] # <<>> /\ DOMAIN held[c].packets = DOMAIN subs[c]
  /\ quoted.day \in 1..day /\ DOMAIN quoted.of \subseteq Tokens
  /\ day \in 1..MaxDays

\* A frame shows the market it was built from, in the sizes and at the offsets
\* of KITE_SPEC.md section 4, however other connections step the instruments.
FramesFollowSpec ==
  [][\A c \in Connections : held[c] = None /\ held'[c] # None =>
       \A k \in DOMAIN subs[c] :
         Shows(held'[c].packets[k], subs[c][k][1], market'[subs[c][k][1]], subs[c][k][2])]_vars

\* What a frame in its push delay or a quote shows of the running day still
\* holds: the price shown is in the range shown, and the range and the volume
\* have only grown since, however the other connections step the instrument.
Within(shown, t, scale) ==
  LET st == market[t]
      low == U(st.low, scale)
      high == U(st.high, scale)
  IN /\ shown.last_price \in low..high
     /\ "low" \in DOMAIN shown =>
          /\ shown.last_price \in shown.low..shown.high
          /\ low <= shown.low /\ shown.high <= high
     /\ "volume" \in DOMAIN shown => shown.volume <= st.volume

Decoded(p, t, mode) ==
  LET rows == {f \in DOMAIN Table(t) : Table(t)[f] < Size(t, mode)} IN
  [f \in rows |-> At(p, Table(t)[f])]

ShownStaysWithinDay ==
  /\ \A c \in Connections : held[c] # None /\ held[c].day = day =>
       \A k \in DOMAIN subs[c] :
         LET t == subs[c][k][1] IN
         Within(Decoded(held[c].packets[k], t, subs[c][k][2]), t, Instrument[t].scale)
  /\ quoted.day = day => \A t \in DOMAIN quoted.of : Within(quoted.of[t], t, Unit)

\* The depth of a quote and the depth on the wire are computed apart, and the
\* quantities and orders of the first are placeholders.  Its prices are those on
\* the wire, up to one in the fourth decimal, and exactly if the tick has no
\* more decimals: the offers always, the bids where five ticks fit below the
\* price.  A bid of a quote is not kept above zero, as those on the wire are.
QuoteAgreesWithStream ==
  \A t \in Tokens : market[t].bids # <<>> =>
    \A l \in 1..DEPTH_LEVELS :
      LET st == market[t]
          tick == Instrument[t].tick_size
          buy == FullQuote(t).depth.buy[l].price
          sell == FullQuote(t).depth.sell[l].price
          high == st.last_price > FourDecimals(DEPTH_LEVELS * tick)
      IN /\ Magnitude(sell - st.offers[l].price) <= Grain
         /\ buy <= st.bids[l].price + Grain
         /\ high => Magnitude(buy - st.bids[l].price) <= Grain
         /\ tick % Grain = 0 =>
              /\ sell = st.offers[l].price
              /\ buy <= st.bids[l].price
              /\ high => buy = st.bids[l].price

\* packets.py:56: once the volume of a day does not fit its field, it does not
\* until the reset: every connection that asks for more than the price of that
\* instrument fails at its next frame, however often it connects again.
OverflowLastsUntilReset ==
  [][\A t \in Tokens :
       market[t].volume > MaxWord /\ day' = day =>
         /\ market'[t].volume > MaxWord
         /\ \A c \in Connections : held[c] = None /\ held'[c] # None =>
              \A k \in DOMAIN subs[c] : subs[c][k][1] = t => subs[c][k][2] = "ltp"]_vars
=============================================================================
