------------------------------- MODULE Orders -------------------------------
(***************************************************************************)
(* The order endpoints (rest/orders.py) over the one in-memory order table *)
(* (state.py), with the control-plane knobs (control.py) and the error     *)
(* injection (rest/envelopes.py) they read.                                *)
(*                                                                         *)
(* Everything runs on one event loop, so a handler is atomic up to its     *)
(* next await.  place_order and modify_order await the request body inside *)
(* the handler: each is two actions, and any other handler may run between *)
(* them.  Handlers keep a reference to the order OBJECT over that await:   *)
(* order[id] is the object, `orders' the ids the table still maps to one.  *)
(***************************************************************************)
EXTENDS Integers, Sequences

CONSTANTS
  Requests,         \* slots for requests suspended on their body
  Listed,           \* the instruments of the instrument master
  Placements,       \* bodies a POST may carry
  Modifications,    \* bodies a PUT may carry
  Ltps,             \* prices the market generator may show
  Delays,           \* values of order_update_delay_ms
  Injectable,       \* endpoints the harness forces errors on
  EmitHistory,      \* config.orders.emit_order_history
  None,             \* a field that is omitted, or Python's None
  Malformed,        \* a field whose text is not of the required form
  NotFinite,        \* the text of an infinity or of a NaN
  MaxOrders,        \* bound: ids issued
  MaxHistory,       \* bound: snapshots after which no modify is started
  MaxCount,         \* bound: force_reject and error injection counts
  MaxScheduled      \* bound: tasks created before the loop starts the first

Ids == 1..MaxOrders
ORDER_TYPES == {"MARKET", "LIMIT", "SL", "SL-M"}
OrderStates == {"COMPLETE", "OPEN", "REJECTED"}
Final == {"COMPLETE", "CANCELLED", "REJECTED"}
Field == Int \cup {None, Malformed}
Endpoints == {"orders.place", "orders.modify", "orders.cancel", "orders.list",
              "orders.history", "orders.order_trades", "trades.list"}
Counts == -1..MaxCount              \* -1: until cleared

ASSUME OrdersAssumption ==
  /\ MaxOrders \in Nat /\ MaxHistory \in Nat /\ MaxCount \in Nat
  /\ MaxScheduled \in Nat
  /\ Injectable \subseteq Endpoints /\ EmitHistory \in BOOLEAN
  /\ Ltps \subseteq Int /\ Delays \subseteq Nat
  /\ None \notin Int /\ Malformed \notin Int /\ None # Malformed
  /\ None \notin ORDER_TYPES /\ Malformed \notin ORDER_TYPES
  /\ NotFinite \notin Field
  \* order_type is Malformed when any of the choice fields (exchange,
  \* transaction_type, order_type, product, validity, variety) is refused.
  /\ \A p \in Placements :
       /\ p.quantity \in Field /\ p.price \in Field /\ p.trigger_price \in Field
       /\ p.disclosed_quantity \in Field \cup {NotFinite}
       /\ p.order_type \in ORDER_TYPES \cup {Malformed}
       /\ p.transaction_type \in {"BUY", "SELL"}
  /\ \A p \in Modifications :
       /\ p.quantity \in Field /\ p.price \in Field /\ p.trigger_price \in Field
       /\ p.order_type \in ORDER_TYPES \cup {None}

VARIABLES
  order,            \* id -> order object, None before the id is issued
  orders,           \* the ids in the order table
  history,          \* id -> snapshots, oldest first; <<>> = no entry
  trades,           \* id -> trades; <<>> = no entry
  orderSeq, tradeSeq,
  forceReject,      \* force_reject_remaining
  defaultState,     \* config.orders.default_state
  updateDelay,      \* config.latency.order_update_delay_ms
  injections,       \* endpoint -> remaining triggers, 0 = none pending
  req,              \* slot -> the suspended handler and its order id
  scheduled,        \* emit_order_update tasks created and not yet started
  response          \* the last response sent

table == <<order, orders, history, trades, orderSeq, tradeSeq>>
knobs == <<forceReject, defaultState, updateDelay>>
vars == <<table, knobs, injections, req, scheduled, response>>

Idle == [op |-> "none", id |-> 0]
Reply(endpoint, outcome) == response' = [endpoint |-> endpoint, outcome |-> outcome]

Init ==
  /\ order = [i \in Ids |-> None]
  /\ orders = {}
  /\ history = [i \in Ids |-> <<>>]
  /\ trades = [i \in Ids |-> <<>>]
  /\ orderSeq = 0 /\ tradeSeq = 0
  /\ forceReject = 0
  /\ defaultState \in OrderStates
  /\ updateDelay \in Delays
  /\ injections = [e \in Endpoints |-> 0]
  /\ req = [r \in Requests |-> Idle]
  /\ scheduled = <<>>
  /\ response = [endpoint |-> "none", outcome |-> "none"]

-----------------------------------------------------------------------------
(* maybe_inject: the first statement of every handler.                     *)

Passes(e) == injections[e] = 0 /\ UNCHANGED injections

InjectedError(e) ==
  /\ injections[e] # 0
  /\ injections' = [injections EXCEPT ![e] = IF @ > 0 THEN @ - 1 ELSE @]
  /\ Reply(e, "injected")
  /\ UNCHANGED <<table, knobs, req, scheduled>>

-----------------------------------------------------------------------------
(* POST /orders/:variety                                                   *)

Num(v) == IF v = None THEN 0 ELSE v

WellFormed(p) ==
  /\ p.order_type \in ORDER_TYPES
  /\ p.quantity \in Int /\ p.quantity > 0
  /\ p.price # Malformed /\ p.trigger_price # Malformed

\* int() of a float that is not finite raises what nothing handles.
Inconvertible(p) == WellFormed(p) /\ p.disclosed_quantity = NotFinite

ValidPlacement(p) ==
  /\ WellFormed(p)
  /\ p.disclosed_quantity \notin {Malformed, NotFinite}
  /\ p.order_type \in {"LIMIT", "SL"} => Num(p.price) > 0
  /\ p.order_type \in {"SL", "SL-M"} => Num(p.trigger_price) > 0

FillPrice(p, ltp) == IF p.order_type \in {"LIMIT", "SL"} THEN Num(p.price) ELSE ltp

\* build_order, for the id just issued.
BuildOrder(id, p, status, ltp) ==
  [status             |-> status,
   symbol             |-> p.symbol,
   transaction_type   |-> p.transaction_type,
   order_type         |-> p.order_type,
   quantity           |-> p.quantity,
   price              |-> Num(p.price),
   trigger_price      |-> Num(p.trigger_price),
   modified           |-> FALSE,
   average_price      |-> IF status = "COMPLETE" THEN FillPrice(p, ltp) ELSE 0,
   filled_quantity    |-> IF status = "COMPLETE" THEN p.quantity ELSE 0,
   pending_quantity   |-> IF status = "OPEN" THEN p.quantity ELSE 0,
   cancelled_quantity |-> 0,
   exchange_order_id  |-> IF status = "REJECTED" THEN None ELSE id]

\* A snapshot of o from before anything was filled.
Unfilled(o, status) ==
  [o EXCEPT !.status = status, !.average_price = 0,
            !.filled_quantity = 0, !.pending_quantity = o.quantity]

\* Mutant of BuildHistory: the filled state is not recorded.
BuildHistoryUnfilled(o) ==
  <<Unfilled(o, "PUT ORDER REQ RECEIVED")>>
    \o (IF o.status = "COMPLETE" THEN <<Unfilled(o, "OPEN")>> ELSE <<o>>)

BuildHistory(o) ==
  <<Unfilled(o, "PUT ORDER REQ RECEIVED")>>
    \o (IF o.status = "COMPLETE" THEN <<Unfilled(o, "OPEN")>> ELSE <<>>)
    \o <<o>>

BuildTrade(id, o) ==
  [trade_id |-> tradeSeq + 1, order_id |-> id, symbol |-> o.symbol,
   transaction_type |-> o.transaction_type, quantity |-> o.quantity,
   average_price |-> o.average_price, exchange_order_id |-> o.exchange_order_id]

RecordOrder(id, o) ==
  /\ order' = [order EXCEPT ![id] = o]
  /\ orders' = orders \cup {id}
  /\ history' = [history EXCEPT ![id] = BuildHistory(o)]
  /\ IF o.status = "COMPLETE"
     THEN /\ trades' = [trades EXCEPT ![id] = <<BuildTrade(id, o)>>]
          /\ tradeSeq' = tradeSeq + 1
     ELSE UNCHANGED <<trades, tradeSeq>>

ScheduleUpdate(id) ==
  /\ Len(scheduled) < MaxScheduled
  /\ scheduled' = Append(scheduled, [id |-> id, delay |-> updateDelay])

PlaceBegin(r) ==
  /\ req[r] = Idle
  /\ orderSeq < MaxOrders
  /\ Passes("orders.place")
  /\ req' = [req EXCEPT ![r] = [op |-> "place", id |-> 0]]
  /\ UNCHANGED <<table, knobs, scheduled, response>>

PlaceRefused(p) ==
  /\ ~ValidPlacement(p) /\ ~Inconvertible(p)
  /\ Reply("orders.place", "InputException")
  /\ UNCHANGED <<table, knobs, scheduled>>

PlaceFails(p) ==
  /\ Inconvertible(p)
  /\ Reply("orders.place", "unhandled")
  /\ UNCHANGED <<table, knobs, scheduled>>

\* A forced rejection is claimed before the order is built.
PlacedStatus == IF forceReject > 0 THEN "REJECTED" ELSE defaultState

\* Mutant of ClaimForcedReject: the budget is used without a look at it.
ClaimForcedRejectUnchecked == forceReject - 1
ClaimForcedReject == IF forceReject > 0 THEN forceReject - 1 ELSE 0

PlaceUnlisted(p) ==
  /\ ValidPlacement(p) /\ p.symbol \notin Listed
  /\ forceReject' = ClaimForcedReject
  /\ Reply("orders.place", "InputException")
  /\ UNCHANGED <<table, defaultState, updateDelay, scheduled>>

PlaceRecorded(p, ltp) ==
  /\ ValidPlacement(p) /\ p.symbol \in Listed
  /\ orderSeq < MaxOrders
  /\ forceReject' = ClaimForcedReject
  /\ orderSeq' = orderSeq + 1
  /\ RecordOrder(orderSeq', BuildOrder(orderSeq', p, PlacedStatus, ltp))
  /\ ScheduleUpdate(orderSeq')
  /\ Reply("orders.place", "success")
  /\ UNCHANGED <<defaultState, updateDelay>>

PlaceBody(r) ==
  /\ req[r].op = "place"
  /\ req' = [req EXCEPT ![r] = Idle]
  /\ \E p \in Placements :
       \/ PlaceRefused(p) \/ PlaceFails(p) \/ PlaceUnlisted(p)
       \/ \E ltp \in Ltps : PlaceRecorded(p, ltp)
  /\ UNCHANGED injections

-----------------------------------------------------------------------------
(* PUT /orders/:variety/:order_id                                          *)

\* Mutant of ModifyAllowed: the status is not checked.
ModifyAllowedAlways(id) == id \in orders
ModifyAllowed(id) == id \in orders /\ order[id].status \notin Final

ModifyRefused(id) ==
  /\ Passes("orders.modify")
  /\ ~ModifyAllowed(id)
  /\ Reply("orders.modify", IF id \in orders THEN "OrderException" ELSE "InputException")
  /\ UNCHANGED <<table, knobs, req, scheduled>>

ModifyBegin(r, id) ==
  /\ req[r] = Idle
  /\ Len(history[id]) < MaxHistory
  /\ Passes("orders.modify")
  /\ ModifyAllowed(id)
  /\ req' = [req EXCEPT ![r] = [op |-> "modify", id |-> id]]
  /\ UNCHANGED <<table, knobs, scheduled, response>>

BadQuantity(p) == p.quantity # None /\ ~(p.quantity \in Int /\ p.quantity > 0)

\* Mutant of SetQuantity: the pending quantity is forgotten.
SetQuantityOnly(o, p) ==
  IF p.quantity = None THEN o ELSE [o EXCEPT !.quantity = p.quantity]
SetQuantity(o, p) ==
  IF p.quantity = None THEN o
  ELSE [o EXCEPT !.quantity = p.quantity, !.pending_quantity = p.quantity]
SetPrice(o, p) == IF p.price = None THEN o ELSE [o EXCEPT !.price = p.price]
SetRest(o, p) ==
  [o EXCEPT !.trigger_price = IF p.trigger_price = None THEN @ ELSE p.trigger_price,
            !.order_type = IF p.order_type = None THEN @ ELSE p.order_type,
            !.modified = TRUE]

\* The body is refused at its first bad field, the fields before it applied.
ModifyMalformed(id, p) ==
  /\ \/ BadQuantity(p) /\ UNCHANGED order
     \/ /\ ~BadQuantity(p) /\ p.price = Malformed
        /\ order' = [order EXCEPT ![id] = SetQuantity(@, p)]
     \/ /\ ~BadQuantity(p) /\ p.price # Malformed /\ p.trigger_price = Malformed
        /\ order' = [order EXCEPT ![id] = SetPrice(SetQuantity(@, p), p)]
  /\ Reply("orders.modify", "InputException")
  /\ UNCHANGED <<history, scheduled>>

\* Mutant of Modified: the snapshot of the order as it now is, is left out.
ModifiedOnly(o) == <<[o EXCEPT !.status = "MODIFIED"]>>
Modified(o) == <<[o EXCEPT !.status = "MODIFIED"], o>>

\* The object is updated first; the history lookup fails if a reset ran
\* while the body was awaited.
ModifyApplied(id, p) ==
  LET o == SetRest(SetPrice(SetQuantity(order[id], p), p), p) IN
  /\ ~BadQuantity(p) /\ p.price # Malformed /\ p.trigger_price # Malformed
  /\ order' = [order EXCEPT ![id] = o]
  /\ \/ /\ history[id] # <<>>
        /\ history' = [history EXCEPT ![id] = @ \o Modified(o)]
        /\ ScheduleUpdate(id)
        /\ Reply("orders.modify", "success")
     \/ /\ history[id] = <<>>       \* KeyError
        /\ Reply("orders.modify", "unhandled")
        /\ UNCHANGED <<history, scheduled>>

ModifyBody(r) ==
  /\ req[r].op = "modify"
  /\ req' = [req EXCEPT ![r] = Idle]
  /\ \E p \in Modifications : ModifyMalformed(req[r].id, p) \/ ModifyApplied(req[r].id, p)
  /\ UNCHANGED <<orders, trades, orderSeq, tradeSeq, knobs, injections>>

\* The client goes away before its body arrives: request.body() raises.
BodyLost(r) ==
  /\ req[r] # Idle
  /\ req' = [req EXCEPT ![r] = Idle]
  /\ UNCHANGED <<table, knobs, injections, scheduled, response>>

-----------------------------------------------------------------------------
(* DELETE /orders/:variety/:order_id -- no await: one action.              *)

\* Mutant of CancelAllowed: only a repeated cancel is refused.
CancelAllowedOnce(id) == id \in orders /\ order[id].status # "CANCELLED"
CancelAllowed(id) == id \in orders /\ order[id].status \notin Final

CancelRefused(id) ==
  /\ Passes("orders.cancel")
  /\ ~CancelAllowed(id)
  /\ Reply("orders.cancel", IF id \in orders THEN "OrderException" ELSE "InputException")
  /\ UNCHANGED <<table, knobs, req, scheduled>>

Cancelled(o) ==
  [o EXCEPT !.status = "CANCELLED", !.cancelled_quantity = o.pending_quantity,
            !.pending_quantity = 0]

CancelOrder(id) ==
  /\ Passes("orders.cancel")
  /\ CancelAllowed(id)
  /\ order' = [order EXCEPT ![id] = Cancelled(@)]
  /\ history' = [history EXCEPT ![id] = Append(@, Cancelled(order[id]))]
  /\ ScheduleUpdate(id)
  /\ Reply("orders.cancel", "success")
  /\ UNCHANGED <<orders, trades, orderSeq, tradeSeq, knobs, req>>

-----------------------------------------------------------------------------
(* The reads, and what the two that depend on one order answer.            *)

OrderHistory(id) == IF EmitHistory THEN history[id] ELSE <<order[id]>>

ListRead(e) ==
  /\ e \in {"orders.list", "trades.list"}
  /\ Passes(e)
  /\ Reply(e, "success")
  /\ UNCHANGED <<table, knobs, req, scheduled>>

OrderRead(e, id) ==
  /\ e \in {"orders.history", "orders.order_trades"}
  /\ Passes(e)
  /\ Reply(e, IF id \in orders THEN "success" ELSE "InputException")
  /\ UNCHANGED <<table, knobs, req, scheduled>>

-----------------------------------------------------------------------------
(* The control plane.  Each handler awaits its body before anything else,  *)
(* so what it does is one action.                                          *)

\* Mutant of Reset: the id sequence starts again.
ResetRestartsIds ==
  /\ orders' = {} /\ orderSeq' = 0
  /\ history' = [i \in Ids |-> <<>>]
  /\ trades' = [i \in Ids |-> <<>>]
  /\ injections' = [e \in Endpoints |-> 0]
  /\ forceReject' = 0
  /\ Reply("control", "success")
  /\ UNCHANGED <<order, tradeSeq, defaultState, updateDelay, req, scheduled>>

\* Mutant of Reset: the histories are cleared, the table is not.
ResetHistoryOnly ==
  /\ history' = [i \in Ids |-> <<>>]
  /\ trades' = [i \in Ids |-> <<>>]
  /\ injections' = [e \in Endpoints |-> 0]
  /\ forceReject' = 0
  /\ Reply("control", "success")
  /\ UNCHANGED <<order, orders, orderSeq, tradeSeq, defaultState, updateDelay, req, scheduled>>

Reset ==
  /\ orders' = {}
  /\ history' = [i \in Ids |-> <<>>]
  /\ trades' = [i \in Ids |-> <<>>]
  /\ injections' = [e \in Endpoints |-> 0]
  /\ forceReject' = 0
  /\ Reply("control", "success")
  /\ UNCHANGED <<order, orderSeq, tradeSeq, defaultState, updateDelay, req, scheduled>>

SetLatency(d) ==
  /\ updateDelay' = d
  /\ Reply("control", "success")
  /\ UNCHANGED <<table, forceReject, defaultState, injections, req, scheduled>>

ForceReject(n) ==
  /\ forceReject' = n
  /\ Reply("control", "success")
  /\ UNCHANGED <<table, defaultState, updateDelay, injections, req, scheduled>>

SetOrderState(s) ==
  /\ defaultState' = s
  /\ Reply("control", "success")
  /\ UNCHANGED <<table, forceReject, updateDelay, injections, req, scheduled>>

\* n = 0 is {"clear": true}; a new injection replaces the pending one.
SetError(e, n) ==
  /\ injections' = [injections EXCEPT ![e] = n]
  /\ Reply("control", "success")
  /\ UNCHANGED <<table, knobs, req, scheduled>>

ControlRefused ==
  /\ Reply("control", "InputException")
  /\ UNCHANGED <<table, knobs, injections, req, scheduled>>

-----------------------------------------------------------------------------
\* The loop runs the oldest scheduled task up to its first await; what the
\* task does is in OrderUpdates.
TakeUpdate ==
  /\ scheduled # <<>>
  /\ scheduled' = Tail(scheduled)
  /\ UNCHANGED <<table, knobs, injections, req, response>>

OrderRequest(r) ==
  \/ PlaceBegin(r)
  \/ PlaceBody(r)
  \/ \E id \in Ids : ModifyBegin(r, id)
  \/ ModifyBody(r)
  \/ BodyLost(r)

ImmediateRequest ==
  \/ \E e \in Endpoints : InjectedError(e) \/ ListRead(e)
  \/ \E id \in Ids : ModifyRefused(id) \/ CancelRefused(id) \/ CancelOrder(id)
  \/ \E e \in Endpoints, id \in Ids : OrderRead(e, id)

Control ==
  \/ Reset
  \/ \E d \in Delays : SetLatency(d)
  \/ \E n \in 0..MaxCount : ForceReject(n)
  \/ \E s \in OrderStates : SetOrderState(s)
  \/ \E e \in Injectable, n \in Counts : SetError(e, n)
  \/ ControlRefused

Handlers == (\E r \in Requests : OrderRequest(r)) \/ ImmediateRequest \/ Control

Next == Handlers \/ TakeUpdate

Spec == Init /\ [][Next]_vars

-----------------------------------------------------------------------------
(* Types.                                                                  *)

Statuses == OrderStates \cup {"CANCELLED", "MODIFIED", "PUT ORDER REQ RECEIVED"}
Quantity == Nat
Price == Int
Side == {"BUY", "SELL"}

Snapshot ==
  [status: Statuses, symbol: Listed, transaction_type: Side, order_type: ORDER_TYPES,
   quantity: Quantity, price: Price, trigger_price: Price, modified: BOOLEAN,
   average_price: Price, filled_quantity: Quantity, pending_quantity: Quantity,
   cancelled_quantity: Quantity, exchange_order_id: Ids \cup {None}]

Order == {o \in Snapshot : o.status \in OrderStates \cup {"CANCELLED"}}

\* What Python's None is not.
ASSUME NoneAssumption == None \notin Order

Trade ==
  [trade_id: Nat, order_id: Ids, symbol: Listed, transaction_type: Side,
   quantity: Quantity, average_price: Price, exchange_order_id: Ids \cup {None}]

Outcomes == {"none", "success", "injected", "InputException", "OrderException", "unhandled"}

\* Every variable holds what the handlers may store there; the object of
\* every issued id exists; the table's keys were issued; and a suspended
\* modify holds an issued order.
TypeOK ==
  /\ order \in [Ids -> Order \cup {None}]
  /\ orders \subseteq 1..orderSeq
  /\ \A i \in Ids : order[i] # None <=> i <= orderSeq
  /\ history \in [Ids -> Seq(Snapshot)]
  /\ trades \in [Ids -> Seq(Trade)] /\ \A i \in Ids : Len(trades[i]) <= 1
  /\ orderSeq \in 0..MaxOrders /\ tradeSeq \in Nat
  /\ forceReject \in 0..MaxCount
  /\ defaultState \in OrderStates /\ updateDelay \in Delays
  /\ injections \in [Endpoints -> Counts]
  /\ req \in [Requests -> [op: {"none", "place", "modify"}, id: 0..MaxOrders]]
  /\ \A r \in Requests : req[r].op = "modify" => req[r].id \in 1..orderSeq
  /\ scheduled \in Seq([id: Ids, delay: Delays])
  /\ \A n \in DOMAIN scheduled : scheduled[n].id \in 1..orderSeq
  /\ response \in [endpoint: Endpoints \cup {"none", "control"}, outcome: Outcomes]

-----------------------------------------------------------------------------
(* Safety.                                                                 *)

\* _record_order trades an order in the step that completes it and nothing
\* completes or refills it later: GET /trades lists exactly the COMPLETE
\* orders of the table, each once, for the quantity and price it was filled
\* at -- whatever modify, cancel and reset do while its handler is suspended.
TradesMatchOrders ==
  \A i \in Ids :
    /\ trades[i] # <<>> <=> i \in orders /\ order[i].status = "COMPLETE"
    /\ trades[i] # <<>> =>
         /\ trades[i][1].quantity = order[i].filled_quantity
         /\ trades[i][1].quantity = order[i].quantity
         /\ trades[i][1].average_price = order[i].average_price

\* A modify that waits for its body holds an order that is OPEN, or was
\* cancelled meanwhile: a wait never brings it onto a filled or rejected one.
SuspendedAreUnfilled ==
  \A r \in Requests :
    req[r].op = "modify" => order[req[r].id].status \in {"OPEN", "CANCELLED"}

Ledger(o) ==
  /\ o.quantity > 0
  /\ o.status = "OPEN" =>
       o.pending_quantity = o.quantity /\ o.filled_quantity = 0 /\ o.cancelled_quantity = 0
  /\ o.status = "COMPLETE" =>
       o.pending_quantity = 0 /\ o.filled_quantity = o.quantity /\ o.cancelled_quantity = 0
  /\ o.status = "REJECTED" =>
       o.pending_quantity = 0 /\ o.filled_quantity = 0 /\ o.exchange_order_id = None
  /\ o.status = "CANCELLED" => o.filled_quantity = 0 /\ o.cancelled_quantity > 0

\* The quantity fields of build_order, modify_order and cancel_order stay a
\* ledger of the status: all pending while OPEN, all filled once COMPLETE,
\* nothing either way in REJECTED, nothing filled in CANCELLED.
QuantitiesMatchStatus == \A i \in 1..orderSeq : Ledger(order[i])

LastSnapshot(id) == history[id][Len(history[id])]

\* order_history has an entry for exactly the ids of the table; it starts
\* with the request received, and its last snapshot has the table's status,
\* even after a modify that lost a race with a cancel.
HistoryStatusAgrees ==
  \A i \in Ids :
    /\ history[i] # <<>> <=> i \in orders
    /\ i \in orders =>
         /\ history[i][1].status = "PUT ORDER REQ RECEIVED"
         /\ LastSnapshot(i).status = order[i].status

\* The inductive invariant of the proofs.
Inv == TypeOK /\ TradesMatchOrders /\ SuspendedAreUnfilled

\* Once filled or rejected, an order never changes again: not by a modify that
\* checked its status before the body arrived, not by a cancel, not by a reset.
FilledAndRejectedAreFinal ==
  [][\A i \in 1..orderSeq :
       order[i].status \in {"COMPLETE", "REJECTED"} => order'[i] = order[i]]_vars

\* A placement that fails on an unconvertible disclosed_quantity (orders.py:121)
\* and a modify that finds no history (orders.py:347) answer with no documented
\* envelope, but leave no trace in what any request reads: the fields the modify
\* has stored by then are those of an order a reset took out of the table while
\* the body was awaited, and no forced rejection is used up.
UnhandledLeavesNoTrace ==
  [][\A r \in Requests :
       (PlaceBody(r) \/ ModifyBody(r)) /\ response'.outcome = "unhandled" =>
         /\ \A i \in orders : order'[i] = order[i]
         /\ UNCHANGED <<orders, history, trades, orderSeq, tradeSeq, knobs, scheduled>>]_vars

Agrees(id) == id \in orders => LastSnapshot(id) = order[id]

\* GET /orders and GET /orders/:id come to disagree about an order in one way
\* only: a modify refused half way through its fields, answered InputException.
DriftOnlyByFailedModify ==
  [][\A i \in Ids :
       Agrees(i) /\ ~Agrees(i)' =>
         response' = [endpoint |-> "orders.modify", outcome |-> "InputException"]]_vars

\* The life of each id: issued in order, OPEN the only state that changes,
\* CANCELLED the only change, never issued again after a reset.
PhaseOf(i) == IF i > orderSeq THEN "unused"
              ELSE IF i \in orders THEN order[i].status ELSE "cleared"

Lifecycle == INSTANCE OrderLifecycle
               WITH phase <- [i \in Ids |-> PhaseOf(i)],
                    traded <- {i \in Ids : trades[i] # <<>>}

\* The order table implements OrderLifecycle.
ImplementsLifecycle == Lifecycle!Spec

-----------------------------------------------------------------------------
(* What the repository's documents say and the code does not do.           *)

\* CHANGELOG.md:112: modify or cancel of a terminal-state order is refused
\* with OrderException, so a CANCELLED order of the table never changes.
TerminalOrdersAreFinal ==
  [][\A i \in orders \cap orders' : order[i].status \in Final => order'[i] = order[i]]_vars

\* orders.py:5: every read comes from one table, so the views stay
\* consistent: the history ends in the order the list shows.
ViewsAgree ==
  \A i \in orders : OrderHistory(i)[Len(OrderHistory(i))] = order[i]

\* control.py:9: the next N placed orders land in REJECTED, so a forced
\* rejection is used up only by placing a REJECTED order.
ForcedRejectionsReachOrders ==
  [][\A r \in Requests : PlaceBody(r) /\ forceReject' # forceReject =>
       orderSeq' = orderSeq + 1 /\ order'[orderSeq'].status = "REJECTED"]_vars
=============================================================================
