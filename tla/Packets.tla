------------------------------ MODULE Packets ------------------------------
(***************************************************************************)
(* The binary market-data packets (ws/packets.py).  A packet is the        *)
(* sequence of the integers struct.pack writes, each with its width in     *)
(* bytes and whether its format can hold it; a field that cannot be held   *)
(* raises struct.error.                                                    *)
(***************************************************************************)
EXTENDS Market

CONSTANTS
  Unit,             \* price units in a rupee
  MaxWord,          \* largest value of an unsigned 32-bit field
  MaxShort          \* largest value of an unsigned 16-bit field

ASSUME PacketsAssumption ==
  /\ Unit \in Positive /\ Unit % Grain = 0
  /\ MaxWord \in Nat /\ MaxShort \in Nat

Modes == {"ltp", "quote", "full"}

\* _u: a price in the integer unit of the wire.
U(price, scale) == RoundHalfEven(price * scale, Unit)

\* Mutant of Word: the value is masked to the width of the field.
WordMasked(v) == [width |-> 4, value |-> v % (MaxWord + 1), fits |-> TRUE]

\* struct formats I, i, and IIHxx
Word(v) == [width |-> 4, value |-> v, fits |-> v \in 0..MaxWord]
SignedWord(v) == [width |-> 4, value |-> v,
                  fits |-> 2 * v >= -(MaxWord + 1) /\ 2 * v <= MaxWord - 1]
Entry(level, scale) ==
  LET price == U(level.price, scale) IN
  [width |-> 12, value |-> <<level.quantity, price, level.orders>>,
   fits |-> level.quantity <= MaxWord /\ price \in 0..MaxWord /\ level.orders <= MaxShort]

PackDepth(st, scale) ==
  LET levels == st.bids \o st.offers IN
  [k \in DOMAIN levels |-> Entry(levels[k], scale)]

PackTradeable(t, st, mode, scale) ==
  LET ltp == <<Word(t), Word(U(st.last_price, scale))>>
      quote == ltp \o
        <<Word(st.last_traded_quantity), Word(U(st.average_traded_price, scale)),
          Word(st.volume), Word(st.total_buy_quantity), Word(st.total_sell_quantity),
          Word(U(st.open, scale)), Word(U(st.high, scale)),
          Word(U(st.low, scale)), Word(U(st.close, scale))>>
      extra == <<Word(st.last_trade_time), Word(st.oi), Word(st.oi_day_high),
                 Word(st.oi_day_low), Word(st.exchange_timestamp)>>
  IN CASE mode = "ltp" -> ltp
       [] mode = "quote" -> quote
       [] OTHER -> quote \o extra \o PackDepth(st, scale)

\* Mutant of PackIndex: the order of the fields is that of a tradeable packet.
PackIndexAsTradeable(t, st, mode, scale) ==
  LET ltp == <<Word(t), Word(U(st.last_price, scale))>>
      quote == ltp \o
        <<Word(U(st.open, scale)), Word(U(st.high, scale)), Word(U(st.low, scale)),
          Word(U(st.close, scale)), SignedWord(U(st.last_price - st.close, scale))>>
  IN CASE mode = "ltp" -> ltp
       [] mode = "quote" -> quote
       [] OTHER -> Append(quote, Word(st.exchange_timestamp))

PackIndex(t, st, mode, scale) ==
  LET ltp == <<Word(t), Word(U(st.last_price, scale))>>
      quote == ltp \o
        <<Word(U(st.high, scale)), Word(U(st.low, scale)), Word(U(st.open, scale)),
          Word(U(st.close, scale)), SignedWord(U(st.last_price - st.close, scale))>>
  IN CASE mode = "ltp" -> ltp
       [] mode = "quote" -> quote
       [] OTHER -> Append(quote, Word(st.exchange_timestamp))

PackPacket(t, st, mode) ==
  IF Instrument[t].is_index THEN PackIndex(t, st, mode, Instrument[t].scale)
  ELSE PackTradeable(t, st, mode, Instrument[t].scale)

Fits(packet) == \A k \in DOMAIN packet : packet[k].fits

-----------------------------------------------------------------------------
(* The client's side, from the tables of KITE_SPEC.md section 4.           *)

\* Where the k-th field of a packet starts, and the value found at an offset.
Offsets(packet) ==
  LET at[k \in 1..Len(packet) + 1] ==
        IF k = 1 THEN 0 ELSE at[k - 1] + packet[k - 1].width
  IN [k \in 1..Len(packet) + 1 |-> at[k]]
Length(packet) == Offsets(packet)[Len(packet) + 1]
At(packet, offset) ==
  LET at == Offsets(packet) IN packet[CHOOSE k \in DOMAIN packet : at[k] = offset].value

TradeableTable ==
  [last_price |-> 4, last_traded_quantity |-> 8, average_traded_price |-> 12, volume |-> 16,
   total_buy_quantity |-> 20, total_sell_quantity |-> 24, open |-> 28, high |-> 32,
   low |-> 36, close |-> 40, last_trade_time |-> 44, oi |-> 48, oi_day_high |-> 52,
   oi_day_low |-> 56, exchange_timestamp |-> 60]
IndexTable ==
  [last_price |-> 4, high |-> 8, low |-> 12, open |-> 16, close |-> 20, exchange_timestamp |-> 28]
Table(t) == IF Instrument[t].is_index THEN IndexTable ELSE TradeableTable

Prices == {"last_price", "average_traded_price", "open", "high", "low", "close"}

Size(t, mode) ==
  CASE mode = "ltp" -> 8
    [] mode = "quote" -> IF Instrument[t].is_index THEN 28 ELSE 44
    [] OTHER -> IF Instrument[t].is_index THEN 32 ELSE 184

\* Packet shows the state st of t in a mode: it has the documented size, and
\* what is at the documented offsets are the fields of the state.
Shows(packet, t, st, mode) ==
  LET scale == Instrument[t].scale
      rows == {f \in DOMAIN Table(t) : Table(t)[f] < Size(t, mode)}
  IN /\ Length(packet) = Size(t, mode)
     /\ At(packet, 0) = t
     /\ \A f \in rows :
          At(packet, Table(t)[f]) = IF f \in Prices THEN U(st[f], scale) ELSE st[f]
     /\ Size(t, mode) \in {28, 32} => At(packet, 24) = U(st.last_price - st.close, scale)
     /\ Size(t, mode) = 184 =>
          \A k \in 1..2 * DEPTH_LEVELS :
            LET level == IF k <= DEPTH_LEVELS THEN st.bids[k] ELSE st.offers[k - DEPTH_LEVELS]
            IN At(packet, 64 + 12 * (k - 1)) =
                 <<level.quantity, U(level.price, scale), level.orders>>
=============================================================================
