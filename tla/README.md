# FakeKite: models, model checking and proofs

FakeKite is a stand-in for a broker's API: REST endpoints for orders, portfolio
and quotes, a WebSocket ticker, and a control plane that lets a test harness
force rejections, errors, latency and disconnects. All of it runs on one asyncio
event loop over one in-memory state. There are no threads and no locks, so every
hazard lives at an `await`.

This directory holds TLA+ modules translated from `src/fakekite/`, TLC
configurations that check small instances, and TLAPS proofs for every instance.

## 1. Inventory

| Component | State | Operations | Interacts with |
|---|---|---|---|
| Order endpoints `rest/orders.py` | none of its own | place, modify, cancel, list, history, trades | reads and writes the shared state; creates update tasks |
| Shared state `state.py` | orders, history, trades, id sequences, `ws_clients`, injections, forced rejections, the generator | `reset`, `next_*_id`, reads | everything |
| Control plane `control.py` | none | reset, latency, disconnect, force_reject, order_state, error | writes the shared state and the configuration |
| Envelopes `rest/envelopes.py` | `ErrorInjection.count` | `maybe_inject`, `KiteError` | first statement of every REST handler |
| Order updates `ws/order_updates.py` | the tasks themselves | `emit_order_update`, `broadcast_text` | created by the order handlers, send on `ws_clients` |
| Ticker `ws/ticker.py` | `subs`, `_changed`, two tasks per connection | endpoint, reader, pusher, idle wait, run | registers in `ws_clients`, steps the market |
| Rate limiter `rest/ratelimit.py` | `_windows` | `dispatch` | in front of all REST handlers |
| Market generator `market/generator.py` | one walk per instrument, one random source | `step`, `snapshot`, `ltp`, `reset` | stepped by every pusher, read by orders, quotes, portfolio |
| Packets `ws/packets.py` | none | `pack_packet` and its parts | called by the pusher on what `step` returned |
| Quotes `rest/market.py` | none | quote, ohlc, ltp, instruments CSV | read the generator's live dictionaries |
| Portfolio `rest/portfolio.py` | none | positions, holdings | fold the order table |
| Session `rest/session.py` | none | token exchange, profile, margins, logout | constants behind authentication and injection |
| Authentication `auth.py`, latency `latency.py` | `config.auth`, `config.latency` | `parse_rest_auth`, `check_ws_auth`, `sleep_ms`, the REST dependency | in front of every Kite route |
| Instruments, configuration, wiring | fixed after startup | lookups, validation, `create_app` | read by the rest |

What is hard here, and what makes each component correct:

* **Order endpoints.** `modify_order` checks the status, awaits the request
  body, and then writes to the object it looked up. A cancel, another modify or
  a reset may run in between. `place_order` awaits too, and consumes a forced
  rejection before it knows that it can build an order. Correct means: orders,
  trades and history agree; a filled or rejected order never changes; ids are
  never reused.
* **Order updates.** A task copies the order when it first runs, sleeps, and is
  suspended once per client. Correct means: the last frame a client gets is the
  current state, one client's failure does not cost the others their frames.
* **Ticker.** Reader and pusher share `subs` and an event that is cleared after
  every wait. Correct means: no subscription is slept through, frames are at
  most one request old, a connection that ends is deregistered.
* **Rate limiter.** Windows are restarted only when used. Correct means: nobody
  can tell them from counters cleared at each second.
* **Market, packets, quotes.** Every connection steps the one walk, quotes read
  its live dictionary, a reset seeds it again while frames wait in the push
  delay. Correct means: what is drawn since a reset determines the state; the
  day's range is exactly that of the prices; the book is never crossed; what a
  client holds of the running day lies within the current range.
* **Portfolio.** Positions are computed from order objects that modifies and
  cancels kept on changing. Correct means: they agree with the trade records.
* **In front of the handlers.** A request sleeps first and is authenticated and
  charged for an injected error afterwards, under whatever the control plane has
  set by then. `set_latency` assigns field by field; `disconnect` awaits each
  close. Correct means: a count of n fails exactly n admitted calls, a latency is
  always one that can be slept, a disconnect drops what it found and no other.

`PROJECT.json` lists every hazard with the line where it bites and the
properties that cover it.

## 2. Modules

| Module | What it is |
|---|---|
| `OrderLifecycle` | abstract: the life of an order id, no handlers |
| `Orders` | the order handlers, the table, the knobs, error injection |
| `OrderUpdates` | extends `Orders` with the update tasks and the clients that get frames |
| `Portfolio` | extends `Orders` with `GET /portfolio/positions` |
| `Ticker` | one ticker connection |
| `Throttle` | abstract: per-second counters |
| `RateLimit` | the middleware |
| `Rounding` | division rounded half to even, as `round` does |
| `Market` | the price generator |
| `Packets` | extends `Market` with the binary packets of its states |
| `Stream` | extends `Packets`: pushers, quotes and resets over the one generator |
| `ErrorBudget` | abstract: calls that are still to fail, per endpoint |
| `Gateway` | what every request passes before its handler, and the control plane |
| `MCOrders`, `MCOrderUpdates`, `MCPortfolio`, `MCTicker`, `MCRateLimit`, `MCStream`, `MCGateway` | values of the constants for TLC |
| `Orders_proofs`, `OrderUpdates_proofs`, `Portfolio_proofs`, `RateLimit_proofs`, `Ticker_proofs`, `Stream_proofs`, `Gateway_proofs` | TLAPS proofs |
| `Lemmas` | facts several of them rest on: rounding, induction over sets of numbers and over finite sets, sums |

### Orders

`order` maps an id to the order *object* and `orders` is the set of ids the
table still holds: a suspended handler keeps its object over a reset. `history`
and `trades` are the other two dictionaries, `req` says for each request slot
which handler is suspended on its body and for which order, `scheduled` is the
queue of update tasks that were created and have not started.

* A handler is one action up to its `await`: `PlaceBegin`/`PlaceBody`,
  `ModifyBegin`/`ModifyBody`; `CancelOrder`, the reads and the control plane have
  no await after they first look at the state and are one action each.
* `ModifyMalformed` stops at the first bad field with the fields before it
  already stored, as the code does. `ModifyApplied` writes the object before it
  touches the history, and answers `unhandled` when the history entry is gone.
* `InjectedError` is `maybe_inject`; every other handler action requires that
  none is pending (`Passes`).
* `PlaceRefused` is a body refused with an envelope. `Inconvertible` is the one
  body that is not: an infinite or NaN disclosed quantity, on which `int` raises
  (`orders.py:121`), after the fields before it were found well formed and before
  a forced rejection is claimed; `PlaceFails` answers `unhandled`.
* The trade sequence and the order sequence survive `Reset`, as in the code.
* A field of a body is a number, `None` (absent or empty) or `Malformed`; the
  disclosed quantity may be `NotFinite`. The
  model gives one flag, `order_type = Malformed`, to any choice field refused.
  Prices are integers. Timestamps, tag, guid, variety, product, validity and
  disclosed quantity are left out of the order: nothing modelled reads them.
  Injection counts that are text, which also make a call fail unhandled, are the
  matter of `Gateway`.

### OrderUpdates

`StartUpdate` runs the oldest scheduled task to its first await: it copies the
object and either sleeps or starts to broadcast. `WakeUpdate(n)` is a timer:
`Due` lets a task wake only after the earlier ones whose delay is no longer
than its own, which is what timers guarantee. `SendOn` writes the frame to the first
client that is open and suspends the task there; `Resume(c)` continues the
oldest task suspended at `c`, over the copy of `ws_clients` it took.

The transport is not in `src/`: sending is modelled as uvicorn does it, the frame
written at the call and the task then waiting for the buffer to drain. Waits at
one connection end in the order they began.

### Ticker

`pusher` names the await the pusher is at: `delay` (push delay), `frame` and
`heartbeat` (sends), `tick`, `idle`. `LoopTop` is the loop body up to the next
await. The push delay can be changed at any time, so zero or positive is a free
choice at each frame. A market frame is reduced to the modes of its packets,
which is all the requests can influence. `Malformed` stands for a list entry
that `int()` refuses or a mode that cannot be looked up in a set.
A handshake that fails in `accept` is the same as `Refuse`.

### RateLimit

`Dispatch` is the middleware for one request; it has no await between reading
and writing `_windows`. Paths are reduced to the five kinds it tells apart.
The clock is assumed not to be set back.

### Portfolio

`Group` is the loop of `_build_positions` for one key, a fold over the COMPLETE
orders of `orders`; `Position` is the record the endpoint answers. It adds no
variable and no action: positions are a function of the table, so what the
properties ask is whether the table's objects can still be trusted after every
interleaving of `Orders`. Prices are integers in a unit that divides them and the
hundredth, which is `Cent` units: the currency ticks of `config.example.yaml` are
finer than it. `Cents` is `round(x, 2)` and stands wherever the code rounds: both
values, the last price, each average, `value` and `pnl`.

### Market, Packets, Stream

`market` is the dictionary `_state`. The random source is `drawn`, the tokens
stepped since it was seeded: what a step draws is `Draw(seed, drawn, token)`, an
operator constant, so nothing is assumed of the distribution but the signs of
what `randint` returns. `Step` is the method `step`, field by field, with the
clamp before the rounding as in the code. Prices are integers in a unit that
divides every tick and the fourth decimal, which is `Grain` units; `gauss` is in
thousandths of the price. `RoundToTick` rounds twice, as `_round_to_tick` does: to
a multiple of the tick and then to four decimals (`FourDecimals`), so that the
configuration may have any positive tick. In `Stream`, `RestDepth` has the
roundings of the quote's own depth, `round(tick * level, 4)` and
`round(price -+ step, 4)`, which need not come out the same.

Of floats only what a rounding does to them is modelled: the arithmetic before it
is exact, so a tie may go the other way in the code.

`Packets` gives a packet as the sequence of the values `struct.pack` is called
with, each with its width and whether its format can hold it. The widths of the
fields (32 and 16 bits) are the constants `MaxWord` and `MaxShort`.

`Stream` has one action per atomic stretch of code: `BuildFrame` steps and packs
every subscribed instrument without an await, `SendFrame` is the end of the push
delay, `PusherFails` the `struct.error` of a field that does not fit, with the
instruments before it already stepped. `Quote` reads. `Reset` seeds the walk
again; `day` is auxiliary and counts resets so that a frame can be dated. How
subscriptions change is the matter of `Ticker`, so a connection here subscribes
once.

### Gateway, ErrorBudget

`Arrive` reads the latency. If it is zero, dependencies and handler run through
in one step; otherwise the request sleeps and `Wake` does the rest. `Served` is
authentication, `maybe_inject` and the handler, whose only trace is whether it
answered. Credentials and headers are sequences of characters, split by
`Colon` where the code calls `partition`; `LimiterKey` is the split the rate
limiter makes on its own.

A count of an injection is in halves, so that a fraction is distinct from any
whole number; `Text` is one that is no number. `Spent` is the code's
`if count == 1 ... elif count > 0`. `SetLatency` is the loop over the body:
`Accepted` is how far it gets, `Assigned` what it leaves.

`Disconnect` takes the list comprehension of its targets, `CloseNext` is one
turn of the loop over them, `DisconnectEnds` the answer. Sockets may close on
their own and deregister in between: `Deregister` takes the first place of a
connection out of the list, as `list.remove` does. The close itself is external, and modelled
as taking effect when it is called.

## 3. Runs

| Run | Question | Bounds and why they suffice |
|---|---|---|
| `orders` | do orders, trades and history agree over all interleavings; does the table implement `OrderLifecycle` | 2 ids, 2 request slots: a modify can overlap a place, a cancel, another modify and a reset, and a second id shows reuse. `MaxHistory` stops modifies after the first recorded edits of an order, but two may be suspended at once. |
| `orders_final_race`, `orders_views`, `orders_force_reject` | the three statements of section 5 about orders | 1 id, enough for each counterexample |
| `portfolio` | do positions agree with the trades, never shrink, and value what was traded | 2 ids, 1 slot, a buy, a sale, and a future in lots of five; bodies that fail at price and trigger price; injected errors; a hundredth of two units (`Cent = 2`) and last prices on and between the hundredths. 95 436 states |
| `updates_in_order` | is the last frame the current state | 1 order, two edits and a cancel, one client from the start and one that joins, one delay |
| `updates` | is the current state sent whatever the delays, and a cancel eventually announced | delays 0 and 2, two clients, one of which may fail at any point |
| `ticker` | wakeups, stale frames, streaming, cleanup | two listed tokens, one unlisted, every kind of request; the state space is finite without further bounds |
| `ticker_silent` | does an open connection always hear something | same |
| `ratelimit` | does it implement `Throttle` | two keys in three classes, two seconds, limit 1 and at most two requests per key and second: below, at and above the limit |
| `stream` | is the walk reproducible, its ranges exact, its book uncrossed, its frames as documented, its overflow confined | 2 connections, 12 seeds that draw up, down or nothing, 3 steps and one reset; a fourth decimal of two units (`Grain = 2`) and 4 instruments: an index, a share with a fifth decimal in its tick, a currency future with a tick finer than the fourth decimal, a bond priced near its tick; words of six bits, so that a volume overflows (no price does). 95 282 states |
| `gateway` | are errors spent as a budget, latencies valid, doors consistent, disconnects exact | 2 overlapping requests of one endpoint that has two calls, every kind of count, bodies bad in the middle and at the end, both kinds of authentication, 2 sockets. 55 020 states |

`VIEW` drops the last response or answer in six runs: no action reads it, and
action properties are checked on every step, whether its target was seen before or
not. Request slots and connections are symmetric in the `MCOrders`, `MCStream` and
`MCGateway` runs, none of which checks liveness. `CHECK_DEADLOCK FALSE` appears
only for the ticker: a connection ends for good.

Bounds in guards: `MaxOrders` (ids), `MaxHistory` (snapshots after which no modify
starts), `MaxCount` (force_reject and injection counts), `MaxScheduled` (tasks
created and not started), `MaxTime` and `MaxRequests` of the limiter, `MaxSteps`
(steps of the walk between two resets), `MaxDays` (resets). `Cent`, `Grain` and `Unit` (units in a hundredth, in the fourth
decimal and in one) are no bounds: the proofs hold for any.

Properties, all of the kind a unit test would hardly reach:

* `TradesMatchOrders`, `QuantitiesMatchStatus`, `HistoryStatusAgrees`: the three
  views of an order agree after any interleaving.
* `SuspendedAreUnfilled`, `FilledAndRejectedAreFinal`: what saves the late modify
  from doing more harm. Only OPEN orders may be suspended on, and OPEN only ever
  becomes CANCELLED.
* `DriftOnlyByFailedModify`: the one way in which list and history come apart.
  `UnhandledLeavesNoTrace`: a placement or a modify that fails unhandled (at
  `orders.py:121` and `:347`) changes nothing that any request reads.
* `ImplementsLifecycle`: refinement, with an id's phase read off `order`,
  `orders` and `orderSeq`.
* `PositionsMatchTrades`, `PositionsOnlyGrow`, `PnlIsMarkToMarket`: positions,
  folded from objects, against the trade records; the last one up to what the
  roundings to hundredths add, which grows with the open quantity.
* `LastFrameIsCurrent`, `CurrentStateIsSent`, `FilledIsAnnouncedOnly`,
  `CancelIsAnnounced`: what a client learns of an order.
* `NoLostWakeup`, `AtMostOneOutdatedFrame`, `SubscriptionIsStreamed`,
  `EndedIsDeregistered`: reader against pusher.
* `ImplementsThrottle`.
* `Reproducible` (the state is the fold of what was drawn since the seed, whoever
  stepped), `DayRangeIsExact` and `OiRange` (against the states passed through),
  `PriceStaysInBand`, `BookStraddlesLast`, `QuoteAgreesWithStream`: each says what
  holds for any tick, and what more holds for ticks of four decimals.
* `FramesFollowSpec` (sizes and offsets of KITE_SPEC section 4),
  `ShownStaysWithinDay` (frames in the push delay and quotes against later steps),
  `OverflowLastsUntilReset` (what no longer fits stays so, for every connection).
* `ImplementsErrorBudget`, `LatencyStaysValid`, `LatencyAnswerIsHonest`,
  `DoorsAgree`, `DisconnectDropsItsTargets`.

Every property has a mutant of the modelled code that violates it (the operators
commented "Mutant of").

Two abstract specifications of the kind of `OrderLifecycle` are worth a remark.
`Throttle` and `ErrorBudget` are what a test author believes the simulator does;
the refinements map lazily restarted windows to counters, and a count in halves
to a budget: whole positive counts to themselves, fractions and negative ones to
`Forever`, text to `Broken`.

### Fairness

Weak fairness of what the event loop does on its own: it runs every task it holds,
timers fire, and a send ends, because the server closes a connection
that does not answer its pings. Nothing is assumed of clients, of requests or of
the harness. The heartbeat timeout is kept out of `TickerSpec`, so that
`SubscriptionIsStreamed` shows the event alone wakes the pusher; only
`NeverSilent` assumes it.

## 4. Proofs

For all values of the constants that satisfy the named assumptions (`...Assumption`
in each module, evaluated by TLC on the passing runs):

* `Orders_proofs`: `TypeCorrect`; `TradesAlwaysMatch`, `SuspendedStayUnfilled`,
  `FilledAndRejectedStay`; `HistoryAlwaysAgrees`, `QuantitiesAlwaysMatch`,
  `UnhandledNeverTraced`, `DriftsOnlyByFailedModify`; `LifecycleImplemented`.
  The core of the inductive invariant is `Inv == TypeOK /\ TradesMatchOrders /\
  SuspendedAreUnfilled`. The trades alone are not inductive: a modify writes
  quantity to an object without looking at its status again, and only
  `SuspendedAreUnfilled` says that the object has no trade. In turn
  `SuspendedAreUnfilled` holds because nothing leaves OPEN but to CANCELLED.
  `HistoryStatusAgrees` is inductive with the types, `QuantitiesMatchStatus` with
  `Inv`: a late modify writes quantities, but never to a filled order. That a
  modify which ends unhandled wrote to no order of the table then follows, since
  an order still in the table has a history. `DriftsOnlyByFailedModify` goes through the steps: all
  that write an order append it to its history or are that modify.
  `QuietSteps` sorts every step into one that leaves the table alone, a reset, a
  modify, a cancel or a placement; `ModifyWrites`, `CancelWrites` and `PlaceWrites` say what
  the last three write. All results rest on these.
* `OrderUpdates_proofs`: `TableUndisturbed` (the composition implements `Orders`,
  so everything above holds under it too), `UpdatesTypeCorrect`,
  `FilledAlwaysAnnounced`, `CurrentAlwaysSent` and `LastFrameAlwaysCurrent`.
  `FilledAlwaysAnnounced` adds to `Inv` the shape of sockets and queues and that
  every frame, wherever it waits, is `Good`: if its order was filled or
  rejected, it shows that final state. A frame is good when it is copied, and
  stays so because these orders do not change and no other order becomes one of
  them.
  `CurrentAlwaysSent` holds for all delays and any failing sockets. Its invariant
  `Telling` says where the frame with the present state of an order is: with a
  task that has not started, with one that sleeps, with one that is suspended
  before it comes to the client, or at the client. It needs
  `HistoryStatusAgrees`, and that a handler which changes an order creates a
  task (`ChangesAreAnnounced`).
  `LastFrameAlwaysCurrent` has two hypotheses, those of the run
  `updates_in_order`: `DelaysAgree` (the update delay is never set to
  another value) and `Leavers = {}` (no socket fails). Both are needed. A later
  task with a shorter delay overtakes an earlier one; and when a client fails
  while a task is suspended at it, the next task skips that client and reaches
  those after it first, which TLC finds in twelve states. Its invariant is `Routed` (a task suspended at
  the connection at place p has those at the places after p before it) and
  `InOrder`: every frame that is no longer true of its order is followed by one
  that is, among the sleeping tasks and, once none of these has it, on the way to
  each client and in its inbox. One task is behind another when it is suspended
  at an earlier place, or at the same place and later; since a send releases
  its oldest task first, no task overtakes (`ResumeInLine`).
* `Portfolio_proofs`: `PositionsAlwaysMatch`, `PositionsAlwaysGrow`,
  `PnlAlwaysMarkToMarket`. The folds over the COMPLETE orders are
  sums over a set of ids, and the trades sum over the same ids the same values,
  by `TradesMatchOrders`; that sums of equal terms, of more terms and of
  combined terms behave as they should is in `Lemmas`. Profit and average then
  need arithmetic only: `CentsNear` says what a rounding to hundredths adds,
  `ValuesExact` that the last ones add nothing because the values are whole
  hundredths by then, `ProfitNear` what is left of the first ones after the
  multiplication by the quantity.
* `RateLimit_proofs`: `TypeCorrect` and `ThrottleImplemented`. Each counted
  request is a `Serve` or a `Refuse` of `Throttle`, and the clock's tick is its
  `NewSecond`, because no window is dated ahead of the clock.
* `Ticker_proofs`: `TypeCorrect`, `NothingSleptThrough` (`NoLostWakeup`) and
  `OneOutdatedFrame` (`AtMostOneOutdatedFrame`). The first needs that from the
  moment the pusher chooses the heartbeat, not only once it idles, a
  subscription the reader applied has set the event (`SignalPending`); the
  second that a frame held in the push delay is either current or no outdated
  frame was sent since the last request (`HeldBack`).
* `Stream_proofs`: `TypeCorrect`, `PriceAlwaysInBand`, `BookAlwaysStraddles`,
  `QuotesAlwaysAgree`; `AlwaysReproducible`, `DayRangeAlwaysExact`,
  `OiRangeAlways`; `FramesAlwaysFollowSpec`, `OverflowAlwaysLasts`,
  `ShownAlwaysWithinDay`, for any instruments, seeds, draws and ticks. The
  invariant `SoundStream` says of every instrument that its price is in the band
  (`InBand`), and of one that has a book that its price is a rounded multiple of
  the tick and its levels are those computed from that price (`Book`). The
  arithmetic rests on `RoundNear` and `RoundMonotone`, by which rounding is off by
  a half at most and keeps the order. With the two roundings of `RoundToTick`, a
  price is near a multiple of the tick (`MultipleNearby`), different multiples give
  different prices if a tick is at least one in the fourth decimal (`TicksApart`),
  and the levels of quote and stream, both near the same number, are at most one
  in the fourth decimal apart (`LevelsClose`), or equal when nothing is rounded
  (`LevelsEqual`).
  `MarketExact` is that the market is the fold of what was drawn, and that its
  ranges are those of the states in between (`PriceRange`, `OiRangeOf`): a step
  appends one token, the fold over all but the last is the state before it,
  and a range that was exact is widened by the new value and no further. The
  fold is a recursive function, so its equations come from `RecursionExists`.
  That packets have the documented layout is computed field by field, for every
  mode and kind of instrument. `ShownToday` says of every frame held of the running day, and of
  the last quote, that it is a part of a state (`Reads`) whose range encloses its price
  (`InDay`) and from which range and volume have only grown (`Grown`).
* `Gateway_proofs`: `TypesAlwaysHold`, `LatencyAlwaysValid`,
  `LatencyAnswersAreHonest`, `DoorsAlwaysAgree`, `ErrorBudgetImplemented`,
  `DisconnectAlwaysDropsItsTargets`. `AcceptedIsPrefix` says that
  the assignments of a body are those before its first bad value, `HeaderSplits`
  that a header is split where it was joined, `SpendingOne` that spending a count
  spends one of its budget, or none of one without end. Every answer of a
  request or of the control plane is then one step of `ErrorBudget`. A
  disconnect is followed by `Dropping`: its targets are all of its key, and those
  before its place in the loop are closed, which lasts because a closed socket
  does not open again (`Registered`).

Induction goes through sets: the library's principles take an operator, which
no installed prover instantiates, so `NumbersInductive` and `SubsetsInductive`
speak of the set of numbers, or of subsets, a fact holds of, and are proved from the
well-ordering of the numbers (`LeastOf`) and by counting.

Model-checked only: `CancelIsAnnounced`, `SubscriptionIsStreamed` and
`EndedIsDeregistered`, which are liveness: fairness and ENABLED are beyond the
prover. Every other property of a passing run is a theorem. What the runs show
beside them is that the hypotheses are met and that the cases occur, and they
refute the statements of section 5.

## 5. Where code and documents disagree

Each is a run that TLC refutes, with the shortest trace it finds.

1. `TerminalOrdersAreFinal` (CHANGELOG.md:112). A modify passes its check, the order
   is cancelled, the body arrives: the CANCELLED order is changed, gets history,
   and the client is told success.
2. `ViewsAgree` (orders.py:5-7). A modify with a good quantity and a bad price is
   refused, but the quantity stays.
3. `ForcedRejectionsReachOrders` (control.py:9). A placement for an unknown
   instrument uses up a forced rejection.
4. `NeverSilent` (ticker.py:5-6). Only unknown tokens subscribed: no frame and no
   heartbeat.

Met while modelling, stated in no document, and so written into the properties as
what does hold:

* A refused latency request leaves the fields before the bad one changed
  (`LatencyAnswerIsHonest`).
* An injection count that is a fraction, or negative, never runs out, and text
  turns every call into an unhandled error (`BudgetOf`).
* The profit of an open position multiplies by the lot size and the traded values
  do not; the average price of a sold position is negative (`PnlIsMarkToMarket` is
  restricted accordingly). With the shipped tick of 0.0025, values and last price
  are rounded to hundredths before they are multiplied: 1000 bought at 83.5025
  show a loss of 2.5 at the price they were bought for.
* The walk is clamped and then rounded twice, so a price may leave its band by half
  a tick and half a fourth decimal (`PriceStaysInBand`). With a tick finer than the
  fourth decimal the levels of a book collapse onto each other and onto the price
  (`BookStraddlesLast`). A quote and the stream may differ by one in the fourth
  decimal about the same level (tick 0.03125, price 0.0938: second offer 0.1563 and
  0.1562), always differ in its quantity and orders, which the quote makes up, and
  a quote's bids are not kept above zero while the stream's are
  (`QuoteAgreesWithStream`). An open interest of 0 counts as a low
  not set (`OiRange`).
* An infinite or NaN disclosed quantity, and a reset while a modify awaits its body,
  make a request fail with no documented envelope (`UnhandledLeavesNoTrace`).
* A key that contains a colon is admitted by the WebSocket and never by REST
  (`DoorsAgree`).

## 6. Not modelled, and the plan

Done in this order: `Orders` (the core), `OrderUpdates`, `Ticker`, `RateLimit`,
`Market` with `Packets` and `Stream`, `Portfolio`, `Gateway`, and the proofs of
all their safety properties. Next:

1. What liveness rests on: from every state that is not quiet, a step of the event
   loop brings the waiting frame nearer, as an action property.
2. A composition of `Ticker` and `OrderUpdates` over one socket, with text frames
   between the halves of the pusher's loop.

Not modelled: holdings, the instruments CSV and the session answers (constants and
formatting); loading a configuration file and starting the server (I/O); the
two-byte counts of the frame envelope; a wall clock that is set back, memory that
is never freed; prices of orders that are not finite numbers; floating-point error
before a rounding; more than one disconnect in progress.
