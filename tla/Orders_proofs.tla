--------------------------- MODULE Orders_proofs ---------------------------
(***************************************************************************)
(* Proofs about Orders, for every set of request slots, instruments,       *)
(* bodies and prices and every bound.                                      *)
(***************************************************************************)
EXTENDS Orders, SequenceTheorems, TLAPS

LEMMA Singleton ==
  ASSUME NEW S, NEW e \in S
  PROVE  <<e>> \in Seq(S) /\ Len(<<e>>) = 1 /\ <<e>> # <<>>
OBVIOUS

-----------------------------------------------------------------------------
(* What the builders return.                                               *)

\* build_order returns an order object, in the state it was asked for.
LEMMA BuildOrderType ==
  ASSUME NEW id \in Ids, NEW p \in Placements, ValidPlacement(p), p.symbol \in Listed,
         NEW status \in OrderStates, NEW ltp \in Ltps
  PROVE  /\ BuildOrder(id, p, status, ltp) \in Order
         /\ BuildOrder(id, p, status, ltp).status = status
<1> DEFINE o == BuildOrder(id, p, status, ltp)
<1>1. /\ p.quantity \in Quantity /\ p.order_type \in ORDER_TYPES
      /\ p.transaction_type \in Side
      /\ Num(p.price) \in Price /\ Num(p.trigger_price) \in Price
  BY OrdersAssumption DEF ValidPlacement, WellFormed, Num, Field, Quantity, Price, Side
<1>2. FillPrice(p, ltp) \in Price
  BY <1>1, OrdersAssumption DEF FillPrice, Price
<1>3. status \in Statuses
  BY DEF Statuses
<1>4. /\ (IF status = "COMPLETE" THEN FillPrice(p, ltp) ELSE 0) \in Price
      /\ (IF status = "COMPLETE" THEN p.quantity ELSE 0) \in Quantity
      /\ (IF status = "OPEN" THEN p.quantity ELSE 0) \in Quantity
      /\ (IF status = "REJECTED" THEN None ELSE id) \in Ids \cup {None}
      /\ 0 \in Quantity
  BY <1>1, <1>2 DEF Price, Quantity
<1>5. o \in Snapshot
  BY <1>1, <1>3, <1>4 DEF BuildOrder, Snapshot
<1>6. o.status = status
  BY DEF BuildOrder
<1> QED
  BY <1>5, <1>6 DEF Order

\* The snapshots a placement records are snapshots.
LEMMA UnfilledType ==
  ASSUME NEW o \in Order
  PROVE  /\ o \in Snapshot
         /\ Unfilled(o, "PUT ORDER REQ RECEIVED") \in Snapshot
         /\ Unfilled(o, "OPEN") \in Snapshot
<1>1. o \in Snapshot
  BY DEF Order
<1>2. ASSUME NEW status \in Statuses
      PROVE  Unfilled(o, status) \in Snapshot
  <2>1. 0 \in Price /\ 0 \in Quantity
    BY DEF Price, Quantity
  <2> QED
    BY <1>1, <1>2, <2>1 DEF Unfilled, Snapshot
<1> QED
  BY <1>1, <1>2 DEF Statuses, OrderStates

\* The history of a new order is a sequence of snapshots.
LEMMA BuildHistoryType ==
  ASSUME NEW o \in Order
  PROVE  BuildHistory(o) \in Seq(Snapshot)
<1>1. /\ <<Unfilled(o, "PUT ORDER REQ RECEIVED")>> \in Seq(Snapshot)
      /\ <<Unfilled(o, "OPEN")>> \in Seq(Snapshot)
      /\ <<o>> \in Seq(Snapshot) /\ <<>> \in Seq(Snapshot)
  BY UnfilledType, Singleton, EmptySeq
<1> QED
  BY <1>1, ConcatProperties DEF BuildHistory

\* The trade of an order object is a trade.
LEMMA BuildTradeType ==
  ASSUME TypeOK, NEW id \in Ids, NEW o \in Order
  PROVE  BuildTrade(id, o) \in Trade
<1>1. tradeSeq + 1 \in Nat
  BY DEF TypeOK
<1>2. o \in Snapshot
  BY DEF Order
<1> QED
  BY <1>1, <1>2 DEF BuildTrade, Snapshot, Trade

\* Setting the fields of a modify keeps an order object and its status.
LEMMA SettersType ==
  ASSUME NEW o \in Order, NEW p \in Modifications, ~BadQuantity(p)
  PROVE  /\ SetQuantity(o, p) \in Order /\ SetQuantity(o, p).status = o.status
         /\ p.price # Malformed =>
              SetPrice(o, p) \in Order /\ SetPrice(o, p).status = o.status
         /\ p.trigger_price # Malformed =>
              SetRest(o, p) \in Order /\ SetRest(o, p).status = o.status
<1>1. /\ p.quantity = None \/ p.quantity \in Quantity
      /\ p.price \in Price \cup {None, Malformed}
      /\ p.trigger_price \in Price \cup {None, Malformed}
      /\ p.order_type \in ORDER_TYPES \cup {None}
  BY OrdersAssumption DEF BadQuantity, Field, Price, Quantity
<1>2. SetQuantity(o, p) \in Order /\ SetQuantity(o, p).status = o.status
  BY <1>1 DEF SetQuantity, Order, Snapshot
<1>3. ASSUME p.price # Malformed
      PROVE  SetPrice(o, p) \in Order /\ SetPrice(o, p).status = o.status
  BY <1>1, <1>3 DEF SetPrice, Order, Snapshot
<1>4. ASSUME p.trigger_price # Malformed
      PROVE  SetRest(o, p) \in Order /\ SetRest(o, p).status = o.status
  BY <1>1, <1>4 DEF SetRest, Order, Snapshot
<1> QED
  BY <1>2, <1>3, <1>4

\* So is what a cancel makes of an order object, and the pair of snapshots a
\* modify records is a sequence of them.
LEMMA CancelledType ==
  ASSUME NEW o \in Order
  PROVE  Cancelled(o) \in Order /\ Cancelled(o).status = "CANCELLED"
<1>1. 0 \in Quantity /\ "CANCELLED" \in Statuses
  BY DEF Quantity, Statuses
<1> QED
  BY <1>1 DEF Cancelled, Order, Snapshot

LEMMA ModifiedType ==
  ASSUME NEW o \in Order
  PROVE  Modified(o) \in Seq(Snapshot) /\ Len(Modified(o)) = 2
<1>1. "MODIFIED" \in Statuses
  BY DEF Statuses
<1>2. o \in Snapshot /\ [o EXCEPT !.status = "MODIFIED"] \in Snapshot
  BY <1>1 DEF Order, Snapshot
<1> QED
  BY <1>2 DEF Modified

-----------------------------------------------------------------------------
(* Type correctness, one lemma for each group of actions.                  *)

\* What a handler answers, and a slot it leaves.
LEMMA ReplyType ==
  ASSUME NEW e \in Endpoints \cup {"control"}, NEW a \in Outcomes, Reply(e, a)
  PROVE  response' \in [endpoint: Endpoints \cup {"none", "control"}, outcome: Outcomes]
BY DEF Reply

LEMMA IdleType ==
  ASSUME TypeOK, NEW r \in Requests, req' = [req EXCEPT ![r] = Idle], orderSeq' = orderSeq
  PROVE  /\ req' \in [Requests -> [op: {"none", "place", "modify"}, id: 0..MaxOrders]]
         /\ \A q \in Requests : req'[q].op = "modify" => req'[q].id \in 1..orderSeq'
BY OrdersAssumption DEF Idle, TypeOK

\* The task a handler creates for an issued id may be appended.
LEMMA ScheduleUpdateType ==
  ASSUME TypeOK, NEW id \in Ids, NEW n \in 0..MaxOrders, id <= n, orderSeq <= n, ScheduleUpdate(id)
  PROVE  /\ scheduled' \in Seq([id: Ids, delay: Delays])
         /\ \A k \in DOMAIN scheduled' : scheduled'[k].id \in 1..n
<1> DEFINE task == [id |-> id, delay |-> updateDelay]
<1>1. task \in [id: Ids, delay: Delays] /\ scheduled \in Seq([id: Ids, delay: Delays])
  BY DEF TypeOK
<1>2. scheduled' = Append(scheduled, task)
  BY DEF ScheduleUpdate
<1>3. scheduled' \in Seq([id: Ids, delay: Delays]) /\ Len(scheduled') = Len(scheduled) + 1
  BY <1>1, <1>2
<1>4. ASSUME NEW k \in 1..Len(scheduled')
      PROVE  scheduled'[k].id \in 1..n
  <2>1. CASE k = Len(scheduled) + 1
    <3>1. scheduled'[k] = task
      BY <1>1, <1>2, <2>1
    <3> QED
      BY <3>1, OrdersAssumption DEF Ids
  <2>2. CASE k # Len(scheduled) + 1
    <3>1. k \in 1..Len(scheduled) /\ scheduled'[k] = scheduled[k]
      BY <1>1, <1>2, <1>3, <2>2
    <3>2. scheduled[k].id \in 1..orderSeq
      BY <1>1, <3>1 DEF TypeOK
    <3> QED
      BY <3>1, <3>2, OrdersAssumption DEF TypeOK
  <2> QED
    BY <2>1, <2>2
<1> QED
  BY <1>1, <1>3, <1>4

LEMMA PlaceType ==
  ASSUME TypeOK, NEW r \in Requests, PlaceBegin(r) \/ PlaceBody(r)
  PROVE  TypeOK'
<1> USE OrdersAssumption
<1>1. CASE PlaceBegin(r)
  BY <1>1 DEF PlaceBegin, Passes, TypeOK, table, knobs
<1>2. ASSUME PlaceBody(r), NEW p \in Placements, PlaceRefused(p)
      PROVE  TypeOK'
  BY <1>2 DEF PlaceBody, PlaceRefused, Reply, Idle, TypeOK, table, knobs, Endpoints, Outcomes
<1>3. ASSUME PlaceBody(r), NEW p \in Placements, PlaceFails(p)
      PROVE  TypeOK'
  BY <1>3 DEF PlaceBody, PlaceFails, Reply, Idle, TypeOK, table, knobs, Endpoints, Outcomes
<1>4. ASSUME PlaceBody(r), NEW p \in Placements, PlaceUnlisted(p)
      PROVE  TypeOK'
  BY <1>4 DEF PlaceBody, PlaceUnlisted, ClaimForcedReject, Reply, Idle, TypeOK, table,
              Endpoints, Outcomes
<1>5. ASSUME PlaceBody(r), NEW p \in Placements, NEW ltp \in Ltps, PlaceRecorded(p, ltp)
      PROVE  TypeOK'
  <2> DEFINE id == orderSeq + 1
             o == BuildOrder(id, p, PlacedStatus, ltp)
  <2>1. /\ id \in Ids /\ id \in 0..MaxOrders /\ orderSeq < id /\ orderSeq <= id /\ id <= id
        /\ orderSeq' = id
    BY <1>5 DEF PlaceRecorded, TypeOK, Ids
  <2>2. PlacedStatus \in OrderStates
    BY DEF PlacedStatus, OrderStates, TypeOK
  <2>3. o \in Order
    BY <1>5, <2>1, <2>2, BuildOrderType DEF PlaceRecorded
  <2>4. RecordOrder(id, o)
    BY <1>5, <2>1 DEF PlaceRecorded
  <2>5. order' \in [Ids -> Order \cup {None}] /\ \A i \in Ids : order'[i] # None <=> i <= orderSeq'
    BY <2>1, <2>3, <2>4, NoneAssumption DEF RecordOrder, TypeOK, Ids
  <2>6. orders' \subseteq 1..orderSeq'
    <3>1. orders' = orders \cup {id}
      BY <2>4 DEF RecordOrder
    <3>2. orders \subseteq 1..orderSeq /\ orderSeq \in Nat
      BY DEF TypeOK
    <3>3. \A i \in orders : i \in 1..id
      BY <2>1, <3>2 DEF TypeOK
    <3>4. id \in 1..id
      BY <3>2
    <3> QED
      BY ONLY <2>1, <3>1, <3>3, <3>4
  <2>7. history' \in [Ids -> Seq(Snapshot)]
    BY <2>1, <2>3, <2>4, BuildHistoryType DEF RecordOrder, TypeOK
  <2>8. /\ trades' \in [Ids -> Seq(Trade)] /\ \A i \in Ids : Len(trades'[i]) <= 1
        /\ tradeSeq' \in Nat
    <3>1. BuildTrade(id, o) \in Trade
      BY <2>1, <2>3, BuildTradeType
    <3>2. <<BuildTrade(id, o)>> \in Seq(Trade) /\ Len(<<BuildTrade(id, o)>>) = 1
      BY <3>1, Singleton
    <3>3. CASE o.status = "COMPLETE"
      <4>1. trades' = [trades EXCEPT ![id] = <<BuildTrade(id, o)>>] /\ tradeSeq' = tradeSeq + 1
        BY <2>4, <3>3 DEF RecordOrder
      <4> QED
        BY <2>1, <3>2, <4>1 DEF TypeOK
    <3>4. CASE o.status # "COMPLETE"
      BY <2>4, <3>4 DEF RecordOrder, TypeOK
    <3> QED
      BY <3>3, <3>4
  <2>9. ScheduleUpdate(id)
    BY <1>5, <2>1 DEF PlaceRecorded
  <2>10. /\ scheduled' \in Seq([id: Ids, delay: Delays])
         /\ \A n \in DOMAIN scheduled' : scheduled'[n].id \in 1..orderSeq'
    BY <2>1, <2>9, ScheduleUpdateType
  <2>11. forceReject' \in 0..MaxCount
    BY <1>5 DEF PlaceRecorded, ClaimForcedReject, TypeOK
  <2>12. /\ req' \in [Requests -> [op: {"none", "place", "modify"}, id: 0..MaxOrders]]
         /\ \A q \in Requests : req'[q].op = "modify" => req'[q].id \in 1..orderSeq'
    BY <1>5, <2>1 DEF PlaceBody, Idle, TypeOK
  <2>13. /\ response' \in [endpoint: Endpoints \cup {"none", "control"}, outcome: Outcomes]
         /\ UNCHANGED <<defaultState, updateDelay, injections>>
    BY <1>5 DEF PlaceBody, PlaceRecorded, Reply, Endpoints, Outcomes
  <2> QED
    BY <2>1, <2>5, <2>6, <2>7, <2>8, <2>10, <2>11, <2>12, <2>13 DEF TypeOK
<1> QED
  BY <1>1, <1>2, <1>3, <1>4, <1>5 DEF PlaceBody

LEMMA ModifyType ==
  ASSUME TypeOK, NEW r \in Requests, (\E i \in Ids : ModifyBegin(r, i)) \/ ModifyBody(r)
  PROVE  TypeOK'
<1> USE OrdersAssumption
<1>1. ASSUME NEW i \in Ids, ModifyBegin(r, i)
      PROVE  TypeOK'
  <2>1. i \in 1..orderSeq /\ i \in 0..MaxOrders
    BY <1>1 DEF ModifyBegin, ModifyAllowed, TypeOK, Ids
  <2> QED
    BY <1>1, <2>1 DEF ModifyBegin, Passes, TypeOK, table, knobs
<1> DEFINE id == req[r].id
<1>2. ASSUME ModifyBody(r), NEW p \in Modifications
      PROVE  /\ id \in Ids /\ id \in 1..orderSeq /\ id \in 0..MaxOrders
             /\ order[id] \in Order /\ orderSeq \in 0..MaxOrders
  <2>1. id \in 1..orderSeq /\ orderSeq \in 0..MaxOrders
    BY <1>2 DEF ModifyBody, TypeOK
  <2>2. id \in Ids /\ id \in 0..MaxOrders /\ order[id] # None
    BY <2>1 DEF TypeOK, Ids
  <2> QED
    BY <2>1, <2>2 DEF TypeOK
<1>3. ASSUME ModifyBody(r), NEW p \in Modifications, ModifyMalformed(id, p)
      PROVE  TypeOK'
  <2>1. /\ order' \in [Ids -> Order \cup {None}]
        /\ \A i \in Ids : order'[i] # None <=> i <= orderSeq
    <3>1. CASE UNCHANGED order
      BY <3>1 DEF TypeOK
    <3>2. ASSUME NEW o \in Order, order' = [order EXCEPT ![id] = o]
          PROVE  /\ order' \in [Ids -> Order \cup {None}]
                 /\ \A i \in Ids : order'[i] # None <=> i <= orderSeq
      BY <1>2, <1>3, <3>2, NoneAssumption DEF TypeOK
    <3> QED
      BY <1>2, <1>3, <3>1, <3>2, SettersType DEF ModifyMalformed
  <2> QED
    BY <1>3, <2>1 DEF ModifyBody, ModifyMalformed, Reply, Idle, TypeOK, knobs, Endpoints, Outcomes
<1>4. ASSUME ModifyBody(r), NEW p \in Modifications, ModifyApplied(id, p)
      PROVE  TypeOK'
  <2> DEFINE o == SetRest(SetPrice(SetQuantity(order[id], p), p), p)
  <2>1. o \in Order
    BY <1>2, <1>4, SettersType DEF ModifyApplied
  <2>2. /\ order' \in [Ids -> Order \cup {None}]
        /\ \A i \in Ids : order'[i] # None <=> i <= orderSeq
    BY <1>2, <1>4, <2>1, NoneAssumption DEF ModifyApplied, TypeOK
  <2> DEFINE Rest == /\ req' = [req EXCEPT ![r] = Idle]
                     /\ UNCHANGED <<orders, trades, orderSeq, tradeSeq, knobs, injections>>
  <2>5. Rest
    BY <1>4 DEF ModifyBody
  <2>3. CASE history[id] = <<>> /\ UNCHANGED <<history, scheduled>>
             /\ Reply("orders.modify", "unhandled")
    BY <2>2, <2>3, <2>5 DEF Reply, Idle, TypeOK, knobs, Endpoints, Outcomes
  <2>4. CASE /\ history' = [history EXCEPT ![id] = @ \o Modified(o)]
             /\ ScheduleUpdate(id)
             /\ Reply("orders.modify", "success")
    <3>1. history[id] \o Modified(o) \in Seq(Snapshot)
      BY <1>2, <1>4, <2>1, ModifiedType, ConcatProperties DEF TypeOK
    <3>2. history' \in [Ids -> Seq(Snapshot)]
      BY <1>2, <1>4, <2>4, <3>1 DEF TypeOK
    <3>3. /\ scheduled' \in Seq([id: Ids, delay: Delays])
          /\ \A n \in DOMAIN scheduled' : scheduled'[n].id \in 1..orderSeq
      <4>1. id <= orderSeq /\ orderSeq <= orderSeq
        BY <1>2, <1>4
      <4> QED
        BY <1>2, <1>4, <2>4, <4>1, ScheduleUpdateType
    <3>4. response' \in [endpoint: Endpoints \cup {"none", "control"}, outcome: Outcomes]
      BY <2>4, ReplyType DEF Endpoints, Outcomes
    <3>5. /\ req' \in [Requests -> [op: {"none", "place", "modify"}, id: 0..MaxOrders]]
          /\ \A q \in Requests : req'[q].op = "modify" => req'[q].id \in 1..orderSeq'
      BY <2>5, IdleType
    <3> QED
      BY <2>2, <2>5, <3>2, <3>3, <3>4, <3>5 DEF TypeOK, knobs
  <2> QED
    BY <1>4, <2>3, <2>4 DEF ModifyApplied
<1> QED
  BY <1>1, <1>3, <1>4 DEF ModifyBody

LEMMA CancelType ==
  ASSUME TypeOK, NEW id \in Ids, CancelOrder(id)
  PROVE  TypeOK'
<1>1. /\ id \in 1..orderSeq /\ orderSeq \in 0..MaxOrders
      /\ id <= orderSeq /\ orderSeq <= orderSeq
      /\ order[id] \in Order
  <2>1. id \in 1..orderSeq /\ orderSeq \in 0..MaxOrders
    BY DEF CancelOrder, CancelAllowed, TypeOK
  <2>2. order[id] # None
    BY <2>1 DEF TypeOK
  <2> QED
    BY <2>1, <2>2, OrdersAssumption DEF TypeOK
<1>2. Cancelled(order[id]) \in Order /\ Cancelled(order[id]) \in Snapshot
  BY <1>1, CancelledType DEF Order
<1>3. /\ order' \in [Ids -> Order \cup {None}]
      /\ \A i \in Ids : order'[i] # None <=> i <= orderSeq
  BY <1>1, <1>2, NoneAssumption DEF CancelOrder, TypeOK
<1>4. history' \in [Ids -> Seq(Snapshot)]
  <2>1. Append(history[id], Cancelled(order[id])) \in Seq(Snapshot)
    BY <1>2 DEF TypeOK
  <2> QED
    BY <2>1 DEF CancelOrder, TypeOK
<1>5. /\ scheduled' \in Seq([id: Ids, delay: Delays])
      /\ \A n \in DOMAIN scheduled' : scheduled'[n].id \in 1..orderSeq
  <2>1. ScheduleUpdate(id)
    BY DEF CancelOrder
  <2> QED
    BY <1>1, <2>1, ScheduleUpdateType
<1> QED
  BY <1>3, <1>4, <1>5 DEF CancelOrder, Passes, Reply, TypeOK, knobs, Endpoints, Outcomes

\* The handlers that only answer, and a request whose body never came.
LEMMA AnswerType ==
  ASSUME TypeOK,
         \/ \E e \in Endpoints : InjectedError(e) \/ ListRead(e)
         \/ \E id \in Ids : ModifyRefused(id) \/ CancelRefused(id)
         \/ \E e \in Endpoints, id \in Ids : OrderRead(e, id)
         \/ \E r \in Requests : BodyLost(r)
         \/ ControlRefused
  PROVE  TypeOK'
<1>1. ASSUME NEW e \in Endpoints, InjectedError(e)
      PROVE  TypeOK'
  <2>1. injections' \in [Endpoints -> Counts]
    BY <1>1, OrdersAssumption DEF InjectedError, TypeOK, Counts
  <2>2. response' \in [endpoint: Endpoints \cup {"none", "control"}, outcome: Outcomes]
    BY <1>1, ReplyType DEF InjectedError, Outcomes
  <2> QED
    BY <1>1, <2>1, <2>2 DEF InjectedError, TypeOK, table, knobs
<1>2. ASSUME UNCHANGED <<table, knobs, injections, scheduled, req>>,
             response' \in [endpoint: Endpoints \cup {"none", "control"}, outcome: Outcomes]
      PROVE  TypeOK'
  BY <1>2 DEF TypeOK, table, knobs
<1>3. /\ {"success", "InputException", "OrderException"} \subseteq Outcomes
      /\ {"orders.modify", "orders.cancel"} \subseteq Endpoints
  BY DEF Outcomes, Endpoints
<1>4. ASSUME NEW e \in Endpoints, ListRead(e)
      PROVE  TypeOK'
  BY <1>2, <1>3, <1>4, ReplyType DEF ListRead, Passes
<1>5. ASSUME NEW id \in Ids, ModifyRefused(id)
      PROVE  TypeOK'
  BY <1>2, <1>3, <1>5, ReplyType DEF ModifyRefused, Passes
<1>6. ASSUME NEW id \in Ids, CancelRefused(id)
      PROVE  TypeOK'
  BY <1>2, <1>3, <1>6, ReplyType DEF CancelRefused, Passes
<1>7. ASSUME NEW e \in Endpoints, NEW id \in Ids, OrderRead(e, id)
      PROVE  TypeOK'
  BY <1>2, <1>3, <1>7, ReplyType DEF OrderRead, Passes
<1>8. CASE ControlRefused
  BY <1>2, <1>3, <1>8, ReplyType DEF ControlRefused
<1>9. ASSUME NEW r \in Requests, BodyLost(r)
      PROVE  TypeOK'
  <2>1. orderSeq' = orderSeq
    BY <1>9 DEF BodyLost, table
  <2>2. /\ req' \in [Requests -> [op: {"none", "place", "modify"}, id: 0..MaxOrders]]
        /\ \A q \in Requests : req'[q].op = "modify" => req'[q].id \in 1..orderSeq'
    BY <1>9, <2>1, IdleType DEF BodyLost
  <2> QED
    BY <1>9, <2>2 DEF BodyLost, TypeOK, table, knobs
<1> QED
  BY <1>1, <1>4, <1>5, <1>6, <1>7, <1>8, <1>9

\* The control plane, and the loop taking a task.
LEMMA ControlType ==
  ASSUME TypeOK, Control \/ TakeUpdate
  PROVE  TypeOK'
<1> USE OrdersAssumption
<1>1. CASE Reset
  BY <1>1, EmptySeq DEF Reset, Reply, TypeOK, Counts, Outcomes
<1>2. ASSUME NEW d \in Delays, SetLatency(d)
      PROVE  TypeOK'
  BY <1>2 DEF SetLatency, Reply, TypeOK, table, Outcomes
<1>3. ASSUME NEW n \in 0..MaxCount, ForceReject(n)
      PROVE  TypeOK'
  BY <1>3 DEF ForceReject, Reply, TypeOK, table, Outcomes
<1>4. ASSUME NEW s \in OrderStates, SetOrderState(s)
      PROVE  TypeOK'
  BY <1>4 DEF SetOrderState, Reply, TypeOK, table, Outcomes
<1>5. ASSUME NEW e \in Injectable, NEW n \in Counts, SetError(e, n)
      PROVE  TypeOK'
  BY <1>5 DEF SetError, Reply, TypeOK, table, knobs, Outcomes
<1>6. CASE TakeUpdate
  <2>1. /\ Tail(scheduled) \in Seq([id: Ids, delay: Delays])
        /\ \A n \in 1..Len(Tail(scheduled)) : Tail(scheduled)[n] = scheduled[n + 1]
        /\ Len(Tail(scheduled)) = Len(scheduled) - 1
    BY <1>6, HeadTailProperties DEF TakeUpdate, TypeOK
  <2>2. \A n \in DOMAIN scheduled' : scheduled'[n].id \in 1..orderSeq
    BY <1>6, <2>1 DEF TakeUpdate, TypeOK
  <2> QED
    BY <1>6, <2>1, <2>2 DEF TakeUpdate, TypeOK, table, knobs
<1> QED
  BY <1>1, <1>2, <1>3, <1>4, <1>5, <1>6, AnswerType DEF Control

\* TypeOK is inductive.
LEMMA TypeStep ==
  ASSUME TypeOK, [Next]_vars
  PROVE  TypeOK'
<1>1. CASE UNCHANGED vars
  BY <1>1 DEF TypeOK, vars, table, knobs
<1>2. ASSUME NEW r \in Requests, OrderRequest(r)
      PROVE  TypeOK'
  BY <1>2, PlaceType, ModifyType, AnswerType DEF OrderRequest
<1>3. CASE ImmediateRequest
  BY <1>3, AnswerType, CancelType DEF ImmediateRequest
<1> QED
  BY <1>1, <1>2, <1>3, ControlType DEF Next, Handlers

\* Types hold in every state: in particular the object of every issued id
\* exists, and a suspended modify or a scheduled task never names any other.
THEOREM TypeCorrect == Spec => []TypeOK
<1>1. Init => TypeOK
  BY OrdersAssumption, EmptySeq
  DEF Init, TypeOK, Idle, Endpoints, Outcomes, Counts, Ids
<1>2. TypeOK /\ [Next]_vars => TypeOK'
  BY TypeStep
<1> QED
  BY <1>1, <1>2, PTL DEF Spec

-----------------------------------------------------------------------------
(* The trades match the orders.                                            *)

\* What a modify may do to the table when its body arrives: it writes fields
\* of the one object it holds, never the status.
LEMMA ModifyWrites ==
  ASSUME TypeOK, NEW r \in Requests, ModifyBody(r)
  PROVE  /\ req[r].op = "modify" /\ req[r].id \in Ids /\ order[req[r].id] \in Order
         /\ req' = [req EXCEPT ![r] = Idle]
         /\ UNCHANGED <<orders, trades, orderSeq>>
         /\ \E o \in Order : /\ o.status = order[req[r].id].status
                             /\ order' = [order EXCEPT ![req[r].id] = o]
<1> DEFINE id == req[r].id
<1>1. /\ req[r].op = "modify" /\ req' = [req EXCEPT ![r] = Idle]
      /\ UNCHANGED <<orders, trades, orderSeq>>
  BY DEF ModifyBody
<1>2. id \in 1..orderSeq /\ orderSeq \in 0..MaxOrders
  BY <1>1 DEF TypeOK
<1>3. id \in Ids
  BY <1>2, OrdersAssumption DEF Ids
<1>4. order[id] \in Order /\ order \in [Ids -> Order \cup {None}]
  BY <1>2, <1>3 DEF TypeOK
<1>5. ASSUME NEW p \in Modifications, ModifyMalformed(id, p)
      PROVE  \E o \in Order : o.status = order[id].status /\ order' = [order EXCEPT ![id] = o]
  <2>1. CASE UNCHANGED order
    BY <1>3, <1>4, <2>1
  <2>2. CASE ~BadQuantity(p) /\ order' = [order EXCEPT ![id] = SetQuantity(@, p)]
    BY <1>3, <1>4, <2>2, SettersType
  <2>3. CASE /\ ~BadQuantity(p) /\ p.price # Malformed
             /\ order' = [order EXCEPT ![id] = SetPrice(SetQuantity(@, p), p)]
    BY <1>3, <1>4, <2>3, SettersType
  <2> QED
    BY <1>5, <2>1, <2>2, <2>3 DEF ModifyMalformed
<1>6. ASSUME NEW p \in Modifications, ModifyApplied(id, p)
      PROVE  \E o \in Order : o.status = order[id].status /\ order' = [order EXCEPT ![id] = o]
  <2> DEFINE o1 == SetQuantity(order[id], p)
             o2 == SetPrice(o1, p)
             o3 == SetRest(o2, p)
  <2>1. /\ ~BadQuantity(p) /\ p.price # Malformed /\ p.trigger_price # Malformed
        /\ order' = [order EXCEPT ![id] = o3]
    BY <1>6 DEF ModifyApplied
  <2>2. o1 \in Order /\ o1.status = order[id].status
    BY <1>4, <2>1, SettersType
  <2>3. o2 \in Order /\ o2.status = order[id].status
    BY <2>1, <2>2, SettersType
  <2>4. o3 \in Order /\ o3.status = order[id].status
    BY <2>1, <2>3, SettersType
  <2> HIDE DEF o3
  <2> QED
    BY <2>1, <2>4
<1> QED
  BY <1>1, <1>3, <1>4, <1>5, <1>6 DEF ModifyBody

\* What a new order adds to the table.
Added(id, o) ==
  /\ id \in Ids /\ orderSeq' = id /\ id \notin orders
  /\ o.status \in OrderStates
  /\ o.status = "COMPLETE" => o.filled_quantity = o.quantity
  /\ order' = [order EXCEPT ![id] = o]
  /\ orders' = orders \cup {id}
  /\ o.status = "COMPLETE" => trades' = [trades EXCEPT ![id] = <<BuildTrade(id, o)>>]
  /\ o.status # "COMPLETE" => trades' = trades

LEMMA PlaceWrites ==
  ASSUME TypeOK, NEW p \in Placements, NEW ltp \in Ltps, PlaceRecorded(p, ltp)
  PROVE  \E o \in Order : /\ Added(orderSeq + 1, o) /\ Ledger(o)
                          /\ history' = [history EXCEPT ![orderSeq + 1] = BuildHistory(o)]
<1> DEFINE id == orderSeq + 1
           o == BuildOrder(id, p, PlacedStatus, ltp)
<1>1. id \in Ids /\ orderSeq' = id /\ id \notin orders
  <2>1. /\ orderSeq \in 0..MaxOrders /\ MaxOrders \in Nat /\ orders \subseteq 1..orderSeq
        /\ orderSeq < MaxOrders /\ orderSeq' = orderSeq + 1
    BY OrdersAssumption DEF PlaceRecorded, TypeOK
  <2> QED
    BY <2>1 DEF Ids
<1>2. PlacedStatus \in OrderStates
  BY DEF PlacedStatus, OrderStates, TypeOK
<1>3. o \in Order /\ o.status = PlacedStatus
  BY <1>1, <1>2, BuildOrderType DEF PlaceRecorded
<1>4. o.status = "COMPLETE" => o.filled_quantity = o.quantity
  BY <1>3 DEF BuildOrder
<1>5. RecordOrder(id, o)
  BY <1>1 DEF PlaceRecorded
<1>6. Ledger(o)
  BY <1>2 DEF PlaceRecorded, ValidPlacement, WellFormed, BuildOrder, Ledger, OrderStates
<1> HIDE DEF o
<1>7. Added(id, o) /\ history' = [history EXCEPT ![id] = BuildHistory(o)]
  BY <1>1, <1>2, <1>3, <1>4, <1>5 DEF RecordOrder, Added
<1> QED
  BY <1>3, <1>6, <1>7

\* What a cancel does to the table.
LEMMA CancelWrites ==
  ASSUME TypeOK, NEW id \in Ids, CancelOrder(id)
  PROVE  /\ id \in orders /\ order[id] \in Order /\ order[id].status = "OPEN"
         /\ Cancelled(order[id]).status = "CANCELLED"
         /\ order' = [order EXCEPT ![id] = Cancelled(order[id])]
         /\ UNCHANGED <<orders, trades, orderSeq, req>>
<1>1. id \in orders /\ order[id].status \notin Final
  BY DEF CancelOrder, CancelAllowed
<1>2. order[id] \in Order
  BY <1>1, OrdersAssumption DEF TypeOK
<1>3. order[id].status = "OPEN"
  BY <1>1, <1>2 DEF Order, Final, OrderStates
<1> QED
  BY <1>1, <1>2, <1>3, CancelledType DEF CancelOrder

-----------------------------------------------------------------------------
(* What a step does to the table: all the theorems below rest on it.       *)

\* A step that leaves the table alone.  A slot it changes is given up or
\* takes an order that is still OPEN.
Quiet ==
  /\ UNCHANGED <<order, orders, history, trades, orderSeq>>
  /\ \A r \in Requests :
       \/ req'[r] = req[r]
       \/ req'[r].op # "modify"
       \/ req'[r].id \in 1..orderSeq /\ order[req'[r].id].status = "OPEN"

\* The handlers that only answer, the knobs, the loop, and the first half of
\* a place or a modify are quiet.
LEMMA QuietSteps ==
  ASSUME TypeOK, [Next]_vars
  PROVE  \/ Quiet
         \/ Reset
         \/ \E r \in Requests : ModifyBody(r)
         \/ \E id \in Ids : CancelOrder(id)
         \/ \E r \in Requests, p \in Placements, ltp \in Ltps :
              /\ PlaceRecorded(p, ltp) /\ req' = [req EXCEPT ![r] = Idle]
<1>1. ASSUME UNCHANGED <<table, req>>
      PROVE  Quiet
  BY <1>1 DEF Quiet, table
<1>2. ASSUME NEW r \in Requests, NEW op \in {"none", "place"},
             UNCHANGED table, req' = [req EXCEPT ![r] = [op |-> op, id |-> 0]]
      PROVE  Quiet
  BY <1>2 DEF Quiet, table, TypeOK
<1>3. ASSUME NEW r \in Requests, NEW id \in Ids, ModifyBegin(r, id)
      PROVE  Quiet
  <2>1. id \in 1..orderSeq /\ order[id].status \notin Final
    BY <1>3 DEF ModifyBegin, ModifyAllowed, TypeOK
  <2>2. order[id] \in Order
    BY <2>1, OrdersAssumption DEF TypeOK
  <2>3. order[id].status = "OPEN"
    BY <2>1, <2>2 DEF Order, Final, OrderStates
  <2>4. UNCHANGED table /\ req' = [req EXCEPT ![r] = [op |-> "modify", id |-> id]]
    BY <1>3 DEF ModifyBegin
  <2> QED
    BY <2>1, <2>3, <2>4 DEF Quiet, table, TypeOK
<1>4. CASE UNCHANGED vars
  BY <1>1, <1>4 DEF vars
<1>5. CASE ImmediateRequest
  BY <1>1, <1>5 DEF ImmediateRequest, InjectedError, ListRead, ModifyRefused, CancelRefused,
                    OrderRead
<1>6. CASE Control
  BY <1>1, <1>6 DEF Control, SetLatency, ForceReject, SetOrderState, SetError, ControlRefused
<1>7. CASE TakeUpdate
  BY <1>1, <1>7 DEF TakeUpdate
<1>8. ASSUME NEW r \in Requests, PlaceBegin(r) \/ BodyLost(r)
      PROVE  Quiet
  BY <1>2, <1>8 DEF PlaceBegin, BodyLost, Idle
<1>9. ASSUME NEW r \in Requests, PlaceBody(r)
      PROVE  \/ Quiet
             \/ \E p \in Placements, ltp \in Ltps :
                  /\ PlaceRecorded(p, ltp) /\ req' = [req EXCEPT ![r] = Idle]
  BY <1>2, <1>9 DEF PlaceBody, PlaceRefused, PlaceFails, PlaceUnlisted, Idle
<1> QED
  BY <1>3, <1>4, <1>5, <1>6, <1>7, <1>8, <1>9 DEF Next, Handlers, OrderRequest

-----------------------------------------------------------------------------
(* The trades match the orders.                                            *)

\* The trade of a completed order carries what the order was filled with.
LEMMA TradeOfOrder ==
  ASSUME NEW id, NEW o
  PROVE  /\ <<BuildTrade(id, o)>> # <<>>
         /\ <<BuildTrade(id, o)>>[1].quantity = o.quantity
         /\ <<BuildTrade(id, o)>>[1].average_price = o.average_price
BY DEF BuildTrade

\* An order a handler may write -- OPEN or CANCELLED, in the table or cleared
\* -- has no trade, so writing it in place disturbs none.
LEMMA WriteKeepsMatch ==
  ASSUME TypeOK, TradesMatchOrders, NEW id \in Ids, NEW o \in Order,
         order[id].status \in {"OPEN", "CANCELLED"}, o.status \in {"OPEN", "CANCELLED"},
         order' = [order EXCEPT ![id] = o], UNCHANGED <<orders, trades>>
  PROVE  TradesMatchOrders'
<1> SUFFICES ASSUME NEW i \in Ids
             PROVE  /\ trades'[i] # <<>> <=> i \in orders' /\ order'[i].status = "COMPLETE"
                    /\ trades'[i] # <<>> =>
                         /\ trades'[i][1].quantity = order'[i].filled_quantity
                         /\ trades'[i][1].quantity = order'[i].quantity
                         /\ trades'[i][1].average_price = order'[i].average_price
  BY DEF TradesMatchOrders
<1>1. order \in [Ids -> Order \cup {None}]
  BY DEF TypeOK
<1>2. CASE i = id
  BY <1>1, <1>2 DEF TradesMatchOrders
<1>3. CASE i # id
  BY <1>1, <1>3 DEF TradesMatchOrders
<1> QED
  BY <1>2, <1>3

\* Inv is inductive.
LEMMA InvStep ==
  ASSUME Inv, [Next]_vars
  PROVE  Inv'
<1> USE DEF Inv
<1>1. TypeOK'
  BY TypeStep
<1>2. CASE Quiet
  <2>1. TradesMatchOrders'
    BY <1>2 DEF Quiet, TradesMatchOrders
  <2>2. SuspendedAreUnfilled'
    BY <1>2 DEF Quiet, SuspendedAreUnfilled
  <2> QED
    BY <1>1, <2>1, <2>2
<1>3. CASE Reset
  <2>1. TradesMatchOrders'
    BY <1>3 DEF Reset, TradesMatchOrders
  <2>2. SuspendedAreUnfilled'
    BY <1>3 DEF Reset, SuspendedAreUnfilled
  <2> QED
    BY <1>1, <2>1, <2>2
<1>4. ASSUME NEW r \in Requests, ModifyBody(r)
      PROVE  Inv'
  <2> DEFINE id == req[r].id
  <2>1. PICK o \in Order : o.status = order[id].status /\ order' = [order EXCEPT ![id] = o]
    BY <1>4, ModifyWrites
  <2>2. id \in Ids /\ UNCHANGED <<orders, trades>> /\ order[id].status \in {"OPEN", "CANCELLED"}
    BY <1>4, ModifyWrites DEF SuspendedAreUnfilled
  <2>3. TradesMatchOrders'
    BY <2>1, <2>2, WriteKeepsMatch
  <2>4. SuspendedAreUnfilled'
    <3> SUFFICES ASSUME NEW q \in Requests, req'[q].op = "modify"
                 PROVE  order'[req'[q].id].status \in {"OPEN", "CANCELLED"}
      BY DEF SuspendedAreUnfilled
    <3>1. req'[q] = req[q]
      BY <1>4, ModifyWrites DEF Idle, TypeOK
    <3>2. order[req[q].id].status \in {"OPEN", "CANCELLED"}
      BY <3>1 DEF SuspendedAreUnfilled
    <3>3. order \in [Ids -> Order \cup {None}]
      BY DEF TypeOK
    <3> QED
      BY <2>1, <2>2, <3>1, <3>2, <3>3
  <2> QED
    BY <1>1, <2>3, <2>4
<1>5. ASSUME NEW id \in Ids, CancelOrder(id)
      PROVE  Inv'
  <2>1. /\ order[id] \in Order /\ order[id].status = "OPEN"
        /\ Cancelled(order[id]) \in Order /\ Cancelled(order[id]).status = "CANCELLED"
        /\ order' = [order EXCEPT ![id] = Cancelled(order[id])]
        /\ UNCHANGED <<orders, trades, req>>
    BY <1>5, CancelWrites, CancelledType
  <2>2. TradesMatchOrders'
    BY <2>1, WriteKeepsMatch
  <2>3. order \in [Ids -> Order \cup {None}]
    BY DEF TypeOK
  <2>4. SuspendedAreUnfilled'
    BY <2>1, <2>3 DEF SuspendedAreUnfilled
  <2> QED
    BY <1>1, <2>2, <2>4
<1>6. ASSUME NEW r \in Requests, NEW p \in Placements, NEW ltp \in Ltps,
             PlaceRecorded(p, ltp), req' = [req EXCEPT ![r] = Idle]
      PROVE  Inv'
  <2> DEFINE id == orderSeq + 1
  <2>1. PICK o \in Order : Added(id, o)
    BY <1>6, PlaceWrites
  <2>2. /\ order \in [Ids -> Order \cup {None}] /\ trades \in [Ids -> Seq(Trade)]
        /\ orderSeq \in Nat
    BY DEF TypeOK
  <2>3. TradesMatchOrders'
    <3> SUFFICES ASSUME NEW i \in Ids
                 PROVE  /\ trades'[i] # <<>> <=> i \in orders' /\ order'[i].status = "COMPLETE"
                        /\ trades'[i] # <<>> =>
                             /\ trades'[i][1].quantity = order'[i].filled_quantity
                             /\ trades'[i][1].quantity = order'[i].quantity
                             /\ trades'[i][1].average_price = order'[i].average_price
      BY DEF TradesMatchOrders
    <3>1. CASE i = id
      <4>1. order'[i] = o /\ i \in orders' /\ trades[i] = <<>>
        BY <2>1, <2>2, <3>1 DEF Added, TradesMatchOrders
      <4>2. CASE o.status = "COMPLETE"
        <5>1. trades'[i] = <<BuildTrade(id, o)>> /\ o.filled_quantity = o.quantity
          BY <2>1, <2>2, <3>1, <4>2 DEF Added
        <5> QED
          BY <4>1, <4>2, <5>1, TradeOfOrder
      <4>3. CASE o.status # "COMPLETE"
        BY <2>1, <4>1, <4>3 DEF Added
      <4> QED
        BY <4>2, <4>3
    <3>2. CASE i # id
      <4>1. order'[i] = order[i] /\ trades'[i] = trades[i] /\ (i \in orders' <=> i \in orders)
        BY <2>1, <2>2, <3>2 DEF Added
      <4> QED
        BY <4>1 DEF TradesMatchOrders
    <3> QED
      BY <3>1, <3>2
  <2>4. SuspendedAreUnfilled'
    <3> SUFFICES ASSUME NEW q \in Requests, req'[q].op = "modify"
                 PROVE  order'[req'[q].id].status \in {"OPEN", "CANCELLED"}
      BY DEF SuspendedAreUnfilled
    <3>1. req'[q] = req[q]
      BY <1>6 DEF Idle, TypeOK
    <3>2. req[q].id \in 1..orderSeq /\ order[req[q].id].status \in {"OPEN", "CANCELLED"}
      BY <3>1 DEF TypeOK, SuspendedAreUnfilled
    <3>3. req[q].id # id
      BY <2>2, <3>2
    <3> QED
      BY <2>1, <2>2, <3>1, <3>2, <3>3 DEF Added
  <2> QED
    BY <1>1, <2>3, <2>4
<1> QED
  BY <1>2, <1>3, <1>4, <1>5, <1>6, QuietSteps

LEMMA InvAlways == Spec => []Inv
<1>1. Init => Inv
  <2>1. Init => TypeOK
    BY OrdersAssumption, EmptySeq
    DEF Init, TypeOK, Idle, Endpoints, Outcomes, Counts, Ids
  <2>2. Init => TradesMatchOrders /\ SuspendedAreUnfilled
    BY DEF Init, TradesMatchOrders, SuspendedAreUnfilled, Idle
  <2> QED
    BY <2>1, <2>2 DEF Inv
<1>2. Inv /\ [Next]_vars => Inv'
  BY InvStep
<1> QED
  BY <1>1, <1>2, PTL DEF Spec

\* GET /trades lists exactly the COMPLETE orders of the table, each for what
\* it was filled with, whatever the handlers do between their awaits.
THEOREM TradesAlwaysMatch == Spec => []TradesMatchOrders
BY InvAlways, PTL DEF Inv

\* A modify that waits for its body never finds its order filled or rejected.
THEOREM SuspendedStayUnfilled == Spec => []SuspendedAreUnfilled
BY InvAlways, PTL DEF Inv

-----------------------------------------------------------------------------
(* History and table agree on the status of every order.                   *)

\* A modify refused at one of its fields answers so.
Refused == response' = [endpoint |-> "orders.modify", outcome |-> "InputException"]

\* What a modify may do to the histories when its body arrives.
LEMMA ModifyRecords ==
  ASSUME TypeOK, NEW r \in Requests, ModifyBody(r)
  PROVE  \/ /\ UNCHANGED history
            /\ history[req[r].id] = <<>> \/ Refused
         \/ /\ history[req[r].id] # <<>>
            /\ \E o \in Order :
                 /\ o.status = order[req[r].id].status
                 /\ order' = [order EXCEPT ![req[r].id] = o]
                 /\ history' = [history EXCEPT ![req[r].id] = @ \o Modified(o)]
<1> DEFINE id == req[r].id
<1>1. order[id] \in Order
  BY ModifyWrites
<1>2. ASSUME NEW p \in Modifications, ModifyMalformed(id, p)
      PROVE  UNCHANGED history /\ Refused
  BY <1>2 DEF ModifyMalformed, Reply, Refused
<1>3. ASSUME NEW p \in Modifications, ModifyApplied(id, p)
      PROVE  \/ UNCHANGED history /\ history[id] = <<>>
             \/ /\ history[id] # <<>>
                /\ \E o \in Order :
                     /\ o.status = order[id].status
                     /\ order' = [order EXCEPT ![id] = o]
                     /\ history' = [history EXCEPT ![id] = @ \o Modified(o)]
  <2> DEFINE o1 == SetQuantity(order[id], p)
             o2 == SetPrice(o1, p)
             o3 == SetRest(o2, p)
  <2>1. ~BadQuantity(p) /\ p.price # Malformed /\ p.trigger_price # Malformed
    BY <1>3 DEF ModifyApplied
  <2>2. o1 \in Order /\ o1.status = order[id].status
    BY <1>1, <2>1, SettersType
  <2>3. o2 \in Order /\ o2.status = order[id].status
    BY <2>1, <2>2, SettersType
  <2>4. o3 \in Order /\ o3.status = order[id].status
    BY <2>1, <2>3, SettersType
  <2>5. /\ order' = [order EXCEPT ![id] = o3]
        /\ \/ UNCHANGED history /\ history[id] = <<>>
           \/ history[id] # <<>> /\ history' = [history EXCEPT ![id] = @ \o Modified(o3)]
    BY <1>3 DEF ModifyApplied
  <2> HIDE DEF o3
  <2> QED
    BY <2>4, <2>5
<1> QED
  BY <1>2, <1>3 DEF ModifyBody

\* How a history begins and ends.
Tells(h, status) ==
  /\ h # <<>>
  /\ h[1].status = "PUT ORDER REQ RECEIVED"
  /\ h[Len(h)].status = status

LEMMA AppendedEnds ==
  ASSUME NEW S, NEW s \in Seq(S), s # <<>>, NEW e \in S
  PROVE  /\ Append(s, e) \in Seq(S) /\ Append(s, e) # <<>>
         /\ Append(s, e)[1] = s[1] /\ Append(s, e)[Len(Append(s, e))] = e
<1>1. Len(s) \in Nat /\ Len(s) > 0
  BY EmptySeq, LenProperties
<1>2. /\ Append(s, e) \in Seq(S) /\ Len(Append(s, e)) = Len(s) + 1
      /\ \A k \in 1..Len(s) : Append(s, e)[k] = s[k]
      /\ Append(s, e)[Len(s) + 1] = e
  BY AppendProperties
<1>3. Append(s, e) # <<>>
  BY <1>1, <1>2
<1> QED
  BY <1>1, <1>2, <1>3

LEMMA BuiltHistoryTells ==
  ASSUME NEW o \in Order
  PROVE  Tells(BuildHistory(o), o.status) /\ BuildHistory(o)[Len(BuildHistory(o))] = o
<1> DEFINE first == Unfilled(o, "PUT ORDER REQ RECEIVED")
           open == Unfilled(o, "OPEN")
<1>1. o \in Snapshot /\ first \in Snapshot /\ open \in Snapshot
  BY UnfilledType
<1>2. first.status = "PUT ORDER REQ RECEIVED"
  BY <1>1 DEF Unfilled, Snapshot
<1>3. <<first>> \in Seq(Snapshot) /\ <<first>> # <<>> /\ <<first>>[1] = first
  BY <1>1, Singleton
<1>4. BuildHistory(o) = <<first>> \o (IF o.status = "COMPLETE" THEN <<open>> ELSE <<>>) \o <<o>>
  BY DEF BuildHistory
<1> HIDE DEF first, open
<1> DEFINE s == <<first>>
           t == Append(s, open)
<1>5. s \in Seq(Snapshot) /\ s # <<>> /\ s[1] = first
  BY <1>3
<1>6. <<open>> \in Seq(Snapshot) /\ <<o>> \in Seq(Snapshot)
  BY <1>1, Singleton
<1> HIDE DEF s
<1>7. CASE o.status = "COMPLETE"
  <2>1. t \in Seq(Snapshot) /\ t # <<>> /\ t[1] = s[1]
    BY <1>1, <1>5, AppendedEnds
  <2>2. s \o <<open>> = t
    BY <1>1, <1>5
  <2> HIDE DEF t
  <2>3. t \o <<o>> = Append(t, o)
    BY <1>1, <2>1
  <2>4. BuildHistory(o) = Append(t, o)
    BY <1>4, <1>7, <2>2, <2>3 DEF s
  <2>5. Append(t, o) # <<>> /\ Append(t, o)[1] = t[1] /\ Append(t, o)[Len(Append(t, o))] = o
    BY <1>1, <2>1, AppendedEnds
  <2> QED
    BY <1>2, <1>5, <2>1, <2>4, <2>5 DEF Tells
<1>8. CASE o.status # "COMPLETE"
  <2>1. s \o <<>> = s
    BY <1>5
  <2>2. s \o <<o>> = Append(s, o)
    BY <1>1, <1>5
  <2>3. BuildHistory(o) = Append(s, o)
    BY <1>4, <1>8, <2>1, <2>2 DEF s
  <2>4. Append(s, o) # <<>> /\ Append(s, o)[1] = s[1] /\ Append(s, o)[Len(Append(s, o))] = o
    BY <1>1, <1>5, AppendedEnds
  <2> QED
    BY <1>2, <1>5, <2>3, <2>4 DEF Tells
<1> QED
  BY <1>7, <1>8

LEMMA ModifiedTells ==
  ASSUME NEW h \in Seq(Snapshot), NEW o \in Order, Tells(h, o.status)
  PROVE  Tells(h \o Modified(o), o.status) /\ (h \o Modified(o))[Len(h \o Modified(o))] = o
<1> DEFINE edit == [o EXCEPT !.status = "MODIFIED"]
<1>1. o \in Snapshot /\ edit \in Snapshot
  BY DEF Order, Snapshot, Statuses
<1> HIDE DEF edit
<1>2. Modified(o) = <<edit, o>>
  BY DEF Modified, edit
<1>3. h \o <<edit, o>> = Append(Append(h, edit), o)
  BY <1>1
<1>4. h # <<>> /\ h[1].status = "PUT ORDER REQ RECEIVED"
  BY DEF Tells
<1> DEFINE g == Append(h, edit)
<1>5. g \in Seq(Snapshot) /\ g # <<>> /\ g[1] = h[1]
  BY <1>1, <1>4, AppendedEnds
<1> HIDE DEF g
<1>6. /\ Append(g, o) # <<>> /\ Append(g, o)[1] = g[1]
      /\ Append(g, o)[Len(Append(g, o))] = o
  BY <1>1, <1>5, AppendedEnds
<1> QED
  BY <1>2, <1>3, <1>4, <1>5, <1>6 DEF Tells, g

LEMMA CancelledTells ==
  ASSUME NEW h \in Seq(Snapshot), NEW o \in Order, NEW status, Tells(h, status)
  PROVE  /\ Tells(Append(h, Cancelled(o)), "CANCELLED")
         /\ Append(h, Cancelled(o))[Len(Append(h, Cancelled(o)))] = Cancelled(o)
<1>1. Cancelled(o) \in Snapshot /\ Cancelled(o).status = "CANCELLED"
  BY CancelledType DEF Order
<1>2. h # <<>> /\ h[1].status = "PUT ORDER REQ RECEIVED"
  BY DEF Tells
<1> QED
  BY <1>1, <1>2, AppendedEnds DEF Tells

\* The history of an order is written at each write of its status, and at no
\* other time but by a modify, which records the status it found.
LEMMA HistoryStep ==
  ASSUME TypeOK, HistoryStatusAgrees, [Next]_vars
  PROVE  HistoryStatusAgrees'
<1> DEFINE Agree(i) == /\ history[i] # <<>> <=> i \in orders
                       /\ i \in orders => Tells(history[i], order[i].status)
<1>1. \A i \in Ids : Agree(i)
  BY DEF HistoryStatusAgrees, Tells, LastSnapshot
<1>2. /\ order \in [Ids -> Order \cup {None}] /\ history \in [Ids -> Seq(Snapshot)]
      /\ orderSeq \in Nat /\ orders \subseteq 1..orderSeq
  BY DEF TypeOK
<1>3. SUFFICES ASSUME NEW i \in Ids
               PROVE  /\ history'[i] # <<>> <=> i \in orders'
                      /\ i \in orders' => Tells(history'[i], order'[i].status)
  BY DEF HistoryStatusAgrees, Tells, LastSnapshot
<1>4. CASE Quiet
  BY <1>1, <1>4 DEF Quiet
<1>5. CASE Reset
  BY <1>5 DEF Reset
<1>6. ASSUME NEW r \in Requests, ModifyBody(r)
      PROVE  /\ history'[i] # <<>> <=> i \in orders'
             /\ i \in orders' => Tells(history'[i], order'[i].status)
  <2> DEFINE id == req[r].id
  <2>1. PICK o \in Order : o.status = order[id].status /\ order' = [order EXCEPT ![id] = o]
    BY <1>6, ModifyWrites
  <2>2. id \in Ids /\ UNCHANGED orders /\ order'[i].status = order[i].status
    BY <1>2, <1>6, <2>1, ModifyWrites
  <2>3. CASE UNCHANGED history
    BY <1>1, <2>2, <2>3
  <2>4. ASSUME NEW s \in Order, s.status = order[id].status, history[id] # <<>>,
               history' = [history EXCEPT ![id] = @ \o Modified(s)]
        PROVE  /\ history'[i] # <<>> <=> i \in orders'
               /\ i \in orders' => Tells(history'[i], order'[i].status)
    <3>1. CASE i = id
      <4>1. id \in orders /\ Tells(history[id], s.status) /\ history[id] \in Seq(Snapshot)
        BY <1>1, <1>2, <2>2, <2>4
      <4>2. history'[id] = history[id] \o Modified(s)
        BY <1>2, <2>2, <2>4
      <4>3. Tells(history'[id], s.status)
        BY <4>1, <4>2, ModifiedTells
      <4>4. history'[id] # <<>>
        BY <4>3 DEF Tells
      <4> QED
        BY <2>2, <2>4, <3>1, <4>1, <4>3, <4>4
    <3>2. CASE i # id
      BY <1>1, <1>2, <2>2, <2>4, <3>2
    <3> QED
      BY <3>1, <3>2
  <2> QED
    BY <1>6, <2>3, <2>4, ModifyRecords
<1>7. ASSUME NEW id \in Ids, CancelOrder(id)
      PROVE  /\ history'[i] # <<>> <=> i \in orders'
             /\ i \in orders' => Tells(history'[i], order'[i].status)
  <2>1. /\ id \in orders /\ order[id] \in Order /\ Cancelled(order[id]).status = "CANCELLED"
        /\ order' = [order EXCEPT ![id] = Cancelled(order[id])] /\ UNCHANGED orders
    BY <1>7, CancelWrites
  <2>2. history' = [history EXCEPT ![id] = Append(@, Cancelled(order[id]))]
    BY <1>7 DEF CancelOrder
  <2>3. CASE i = id
    <3>1. Tells(history[id], order[id].status) /\ history[id] \in Seq(Snapshot)
      BY <1>1, <1>2, <2>1
    <3>2. Tells(Append(history[id], Cancelled(order[id])), "CANCELLED")
      BY <2>1, <3>1, CancelledTells
    <3>3. history'[i] = Append(history[id], Cancelled(order[id]))
          /\ order'[i].status = "CANCELLED" /\ i \in orders'
      BY <1>2, <2>1, <2>2, <2>3
    <3> QED
      BY <3>2, <3>3 DEF Tells
  <2>4. CASE i # id
    BY <1>1, <1>2, <2>1, <2>2, <2>4
  <2> QED
    BY <2>3, <2>4
<1>8. ASSUME NEW p \in Placements, NEW ltp \in Ltps, PlaceRecorded(p, ltp)
      PROVE  /\ history'[i] # <<>> <=> i \in orders'
             /\ i \in orders' => Tells(history'[i], order'[i].status)
  <2> DEFINE id == orderSeq + 1
  <2>1. PICK o \in Order : Added(id, o) /\ history' = [history EXCEPT ![id] = BuildHistory(o)]
    BY <1>8, PlaceWrites
  <2>2. CASE i = id
    <3>1. order'[i] = o /\ i \in orders' /\ history'[i] = BuildHistory(o)
      BY <1>2, <2>1, <2>2 DEF Added
    <3> QED
      BY <3>1, BuiltHistoryTells DEF Tells
  <2>3. CASE i # id
    <3>1. order'[i] = order[i] /\ history'[i] = history[i] /\ (i \in orders' <=> i \in orders)
      BY <1>2, <2>1, <2>3 DEF Added
    <3> QED
      BY <1>1, <3>1
  <2> QED
    BY <2>2, <2>3
<1> QED
  BY <1>4, <1>5, <1>6, <1>7, <1>8, QuietSteps

\* GET /orders and GET /orders/:id never disagree about a status, whatever races
\* a modify has lost, and no history outlives its order.
THEOREM HistoryAlwaysAgrees == Spec => []HistoryStatusAgrees
<1>1. Init => HistoryStatusAgrees
  BY DEF Init, HistoryStatusAgrees
<1>2. TypeOK /\ HistoryStatusAgrees /\ [Next]_vars => HistoryStatusAgrees'
  BY HistoryStep
<1> QED
  BY <1>1, <1>2, TypeCorrect, PTL DEF Spec

\* A placement or modify that fails unhandled changes nothing a client can read,
\* whatever was reset while its body was awaited.
THEOREM UnhandledNeverTraced == Spec => UnhandledLeavesNoTrace
<1>1. ASSUME NEW r \in Requests, PlaceBody(r), response'.outcome = "unhandled"
      PROVE  UNCHANGED <<table, knobs, scheduled>>
  <2>1. PICK p \in Placements :
          \/ PlaceRefused(p) \/ PlaceFails(p) \/ PlaceUnlisted(p)
          \/ \E ltp \in Ltps : PlaceRecorded(p, ltp)
    BY <1>1 DEF PlaceBody
  <2>2. PlaceFails(p)
    BY <1>1, <2>1 DEF PlaceRefused, PlaceUnlisted, PlaceRecorded, Reply
  <2> QED
    BY <2>2 DEF PlaceFails
<1>2. ASSUME TypeOK, HistoryStatusAgrees, NEW r \in Requests, ModifyBody(r),
             response'.outcome = "unhandled"
      PROVE  /\ \A i \in orders : order'[i] = order[i]
             /\ UNCHANGED <<orders, history, trades, orderSeq, tradeSeq, knobs, scheduled>>
  <2> DEFINE id == req[r].id
  <2>1. ASSUME NEW p \in Modifications, ModifyMalformed(id, p)
        PROVE  FALSE
    BY <1>2, <2>1 DEF ModifyMalformed, Reply
  <2>2. PICK p \in Modifications : ModifyApplied(id, p)
    BY <1>2, <2>1 DEF ModifyBody
  <2>3. history[id] = <<>> /\ UNCHANGED <<history, scheduled>>
    <3>1. \/ Reply("orders.modify", "success")
          \/ history[id] = <<>> /\ UNCHANGED <<history, scheduled>>
      <4> HIDE DEF id
      <4> QED
        BY <2>2 DEF ModifyApplied
    <3> QED
      BY <1>2, <3>1 DEF Reply
  <2>4. id \notin orders
    BY <1>2, <2>3, ModifyWrites DEF HistoryStatusAgrees
  <2>5. \E o : order' = [order EXCEPT ![id] = o]
    BY <2>2 DEF ModifyApplied
  <2>6. \A i \in orders : order'[i] = order[i]
    <3>1. DOMAIN order = Ids /\ orders \subseteq 1..orderSeq /\ orderSeq \in 0..MaxOrders
      BY <1>2 DEF TypeOK
    <3>2. orders \subseteq DOMAIN order
      BY <3>1, OrdersAssumption DEF Ids
    <3> HIDE DEF id
    <3> QED
      BY <2>4, <2>5, <3>2
  <2>7. UNCHANGED <<orders, trades, orderSeq, tradeSeq, knobs>>
    BY <1>2 DEF ModifyBody
  <2> QED
    BY <2>3, <2>6, <2>7
<1>3. TypeOK /\ HistoryStatusAgrees /\ [Next]_vars =>
        [\A r \in Requests :
           (PlaceBody(r) \/ ModifyBody(r)) /\ response'.outcome = "unhandled" =>
             /\ \A i \in orders : order'[i] = order[i]
             /\ UNCHANGED <<orders, history, trades, orderSeq, tradeSeq, knobs, scheduled>>]_vars
  <2> SUFFICES ASSUME TypeOK, HistoryStatusAgrees, NEW r \in Requests,
                      PlaceBody(r) \/ ModifyBody(r), response'.outcome = "unhandled"
               PROVE  /\ \A i \in orders : order'[i] = order[i]
                      /\ UNCHANGED <<orders, history, trades, orderSeq, tradeSeq, knobs, scheduled>>
    OBVIOUS
  <2>1. CASE PlaceBody(r)
    BY <1>1, <2>1 DEF table
  <2>2. CASE ModifyBody(r)
    BY <1>2, <2>2
  <2> QED
    BY <2>1, <2>2
<1> QED
  BY <1>3, TypeCorrect, HistoryAlwaysAgrees, PTL DEF Spec, UnhandledLeavesNoTrace

-----------------------------------------------------------------------------
(* The quantities of an order are a ledger of its status.                  *)

\* A modify keeps the ledger of an order that is OPEN or CANCELLED.
LEMMA SettersLedger ==
  ASSUME NEW o \in Order, NEW p \in Modifications, ~BadQuantity(p), Ledger(o),
         o.status \in {"OPEN", "CANCELLED"}
  PROVE  /\ Ledger(SetQuantity(o, p))
         /\ p.price # Malformed => Ledger(SetPrice(o, p))
         /\ p.trigger_price # Malformed => Ledger(SetRest(o, p))
<1>1. o \in Snapshot
  BY DEF Order
<1>2. Ledger(SetQuantity(o, p))
  BY <1>1 DEF SetQuantity, BadQuantity, Ledger, Snapshot
<1>3. Ledger(SetPrice(o, p))
  BY <1>1 DEF SetPrice, Ledger, Snapshot
<1>4. Ledger(SetRest(o, p))
  BY <1>1 DEF SetRest, Ledger, Snapshot
<1> QED
  BY <1>2, <1>3, <1>4

LEMMA ModifyLedger ==
  ASSUME TypeOK, SuspendedAreUnfilled, NEW r \in Requests, ModifyBody(r), Ledger(order[req[r].id])
  PROVE  Ledger(order'[req[r].id])
<1> DEFINE id == req[r].id
           o == order[id]
<1>1. id \in Ids /\ o \in Order /\ o.status \in {"OPEN", "CANCELLED"}
  BY ModifyWrites DEF SuspendedAreUnfilled
<1>2. order \in [Ids -> Order \cup {None}]
  BY DEF TypeOK
<1> DEFINE o1(p) == SetQuantity(o, p)
           o2(p) == SetPrice(o1(p), p)
<1>3. ASSUME NEW p \in Modifications, ~BadQuantity(p)
      PROVE  /\ o1(p) \in Order /\ o1(p).status \in {"OPEN", "CANCELLED"} /\ Ledger(o1(p))
             /\ p.price # Malformed =>
                  o2(p) \in Order /\ o2(p).status \in {"OPEN", "CANCELLED"} /\ Ledger(o2(p))
  <2>1. o1(p) \in Order /\ o1(p).status = o.status /\ Ledger(o1(p))
    BY <1>1, <1>3, SettersType, SettersLedger
  <2> HIDE DEF o1
  <2> QED
    BY <1>1, <1>3, <2>1, SettersType, SettersLedger
<1>4. ASSUME NEW p \in Modifications, ModifyMalformed(id, p)
      PROVE  Ledger(order'[id])
  <2>1. \/ UNCHANGED order
        \/ ~BadQuantity(p) /\ order'[id] = o1(p)
        \/ ~BadQuantity(p) /\ p.price # Malformed /\ order'[id] = o2(p)
    BY <1>1, <1>2, <1>4 DEF ModifyMalformed
  <2> HIDE DEF o1, o2
  <2> QED
    BY <1>3, <2>1
<1>5. ASSUME NEW p \in Modifications, ModifyApplied(id, p)
      PROVE  Ledger(order'[id])
  <2>1. /\ ~BadQuantity(p) /\ p.price # Malformed /\ p.trigger_price # Malformed
        /\ order'[id] = SetRest(o2(p), p)
    BY <1>1, <1>2, <1>5 DEF ModifyApplied
  <2>2. o2(p) \in Order /\ o2(p).status \in {"OPEN", "CANCELLED"} /\ Ledger(o2(p))
    BY <1>3, <2>1
  <2> HIDE DEF o2
  <2> QED
    BY <2>1, <2>2, SettersLedger
<1> QED
  BY <1>4, <1>5 DEF ModifyBody

LEMMA QuantitiesStep ==
  ASSUME Inv, QuantitiesMatchStatus, [Next]_vars
  PROVE  QuantitiesMatchStatus'
<1> USE DEF Inv
<1>1. order \in [Ids -> Order \cup {None}] /\ orderSeq \in Nat
  BY DEF TypeOK
<1>2. SUFFICES ASSUME NEW i \in 1..orderSeq'
               PROVE  Ledger(order'[i])
  BY DEF QuantitiesMatchStatus, Ledger
<1>3. CASE Quiet \/ Reset
  BY <1>3 DEF Quiet, Reset, QuantitiesMatchStatus
<1>4. ASSUME NEW r \in Requests, ModifyBody(r)
      PROVE  Ledger(order'[i])
  <2> DEFINE id == req[r].id
  <2>1. PICK o \in Order : order' = [order EXCEPT ![id] = o]
    BY <1>4, ModifyWrites
  <2>2. id \in Ids /\ id \in 1..orderSeq /\ UNCHANGED orderSeq
    BY <1>4, ModifyWrites DEF TypeOK
  <2>3. Ledger(order'[id])
    BY <1>4, <2>2, ModifyLedger DEF QuantitiesMatchStatus
  <2> QED
    BY <1>1, <2>1, <2>2, <2>3 DEF QuantitiesMatchStatus
<1>5. ASSUME NEW id \in Ids, CancelOrder(id)
      PROVE  Ledger(order'[i])
  <2>1. /\ order[id] \in Order /\ order[id].status = "OPEN" /\ UNCHANGED orderSeq
        /\ order' = [order EXCEPT ![id] = Cancelled(order[id])] /\ id \in orders
    BY <1>5, CancelWrites
  <2>2. Ledger(order[id])
    BY <2>1 DEF QuantitiesMatchStatus, TypeOK
  <2>3. Ledger(Cancelled(order[id]))
    <3>1. order[id] \in Snapshot
      BY <2>1 DEF Order
    <3> QED
      BY <2>1, <2>2, <3>1 DEF Cancelled, Ledger, Snapshot, Quantity
  <2> QED
    BY <1>1, <2>1, <2>3 DEF QuantitiesMatchStatus
<1>6. ASSUME NEW p \in Placements, NEW ltp \in Ltps, PlaceRecorded(p, ltp)
      PROVE  Ledger(order'[i])
  <2> DEFINE id == orderSeq + 1
  <2>1. PICK o \in Order : Added(id, o) /\ Ledger(o)
    BY <1>6, PlaceWrites
  <2> QED
    BY <1>1, <2>1 DEF Added, QuantitiesMatchStatus
<1> QED
  BY <1>3, <1>4, <1>5, <1>6, QuietSteps

\* The quantities of every order that was ever issued fit its status, even
\* those of a cancelled order a late modify has written to.
THEOREM QuantitiesAlwaysMatch == Spec => []QuantitiesMatchStatus
<1>1. Init => QuantitiesMatchStatus
  BY DEF Init, QuantitiesMatchStatus
<1>2. Inv /\ QuantitiesMatchStatus /\ [Next]_vars => QuantitiesMatchStatus'
  BY QuantitiesStep
<1> QED
  BY <1>1, <1>2, InvAlways, PTL DEF Spec

-----------------------------------------------------------------------------
(* Filled and rejected orders never change.                                *)

LEMMA FinalStep ==
  ASSUME Inv, [Next]_vars, NEW i \in 1..orderSeq, order[i].status \in {"COMPLETE", "REJECTED"}
  PROVE  order'[i] = order[i]
<1> USE DEF Inv
<1>1. order \in [Ids -> Order \cup {None}] /\ orderSeq \in Nat /\ i \in Ids
  BY OrdersAssumption DEF TypeOK, Ids
<1>2. CASE Quiet \/ Reset
  BY <1>2 DEF Quiet, Reset
<1>3. ASSUME NEW r \in Requests, ModifyBody(r)
      PROVE  order'[i] = order[i]
  <2>1. order[req[r].id].status \in {"OPEN", "CANCELLED"}
    BY <1>3, ModifyWrites DEF SuspendedAreUnfilled
  <2>2. req[r].id # i
    BY <2>1
  <2> QED
    BY <1>1, <1>3, <2>2, ModifyWrites
<1>4. ASSUME NEW id \in Ids, CancelOrder(id)
      PROVE  order'[i] = order[i]
  BY <1>1, <1>4, CancelWrites
<1>5. ASSUME NEW p \in Placements, NEW ltp \in Ltps, PlaceRecorded(p, ltp)
      PROVE  order'[i] = order[i]
  <2>1. i # orderSeq + 1
    BY <1>1
  <2> QED
    BY <1>1, <1>5, <2>1, PlaceWrites DEF Added
<1> QED
  BY <1>2, <1>3, <1>4, <1>5, QuietSteps

\* An order is filled or rejected when it is placed or never.
LEMMA FinalFromBirth ==
  ASSUME Inv, [Next]_vars, NEW i \in 1..orderSeq, order'[i].status \in {"COMPLETE", "REJECTED"}
  PROVE  order[i].status \in {"COMPLETE", "REJECTED"}
<1> USE DEF Inv
<1>1. order \in [Ids -> Order \cup {None}] /\ orderSeq \in Nat /\ i \in Ids
  BY OrdersAssumption DEF TypeOK, Ids
<1>2. CASE Quiet \/ Reset
  BY <1>2 DEF Quiet, Reset
<1>3. ASSUME NEW r \in Requests, ModifyBody(r)
      PROVE  order'[i].status = order[i].status
  <2>1. PICK o \in Order : o.status = order[req[r].id].status
                           /\ order' = [order EXCEPT ![req[r].id] = o]
    BY <1>3, ModifyWrites
  <2> QED
    BY <1>1, <2>1
<1>4. ASSUME NEW id \in Ids, CancelOrder(id)
      PROVE  order'[i] = order[i]
  <2>1. /\ Cancelled(order[id]).status = "CANCELLED"
        /\ order' = [order EXCEPT ![id] = Cancelled(order[id])]
    BY <1>4, CancelWrites
  <2>2. id # i
    BY <1>1, <2>1
  <2> QED
    BY <1>1, <2>1, <2>2
<1>5. ASSUME NEW p \in Placements, NEW ltp \in Ltps, PlaceRecorded(p, ltp)
      PROVE  order'[i] = order[i]
  <2>1. i # orderSeq + 1
    BY <1>1
  <2> QED
    BY <1>1, <1>5, <2>1, PlaceWrites DEF Added
<1> QED
  BY <1>2, <1>3, <1>4, <1>5, QuietSteps

\* No handler writes to an order once it is filled or rejected, not even one
\* that checked its status before the body it awaited arrived.
THEOREM FilledAndRejectedStay == Spec => FilledAndRejectedAreFinal
<1>1. Inv /\ [Next]_vars =>
        [\A i \in 1..orderSeq :
           order[i].status \in {"COMPLETE", "REJECTED"} => order'[i] = order[i]]_vars
  BY FinalStep
<1> QED
  BY <1>1, InvAlways, PTL DEF Spec, FilledAndRejectedAreFinal

-----------------------------------------------------------------------------
(* The list and the history drift apart in one way only.                   *)

LEMMA DriftStep ==
  ASSUME TypeOK, HistoryStatusAgrees, [Next]_vars, NEW i \in Ids, Agrees(i), ~Refused
  PROVE  Agrees(i)'
<1>1. /\ order \in [Ids -> Order \cup {None}] /\ history \in [Ids -> Seq(Snapshot)]
      /\ orderSeq \in Nat /\ orders \subseteq 1..orderSeq
  BY DEF TypeOK
<1>2. CASE Quiet
  BY <1>2 DEF Quiet, Agrees, LastSnapshot
<1>3. CASE Reset
  BY <1>3 DEF Reset, Agrees
<1>4. ASSUME NEW r \in Requests, ModifyBody(r)
      PROVE  Agrees(i)'
  <2> DEFINE id == req[r].id
  <2>1. id \in Ids /\ UNCHANGED orders /\ \E o \in Order : order' = [order EXCEPT ![id] = o]
    BY <1>4, ModifyWrites
  <2>2. CASE UNCHANGED history /\ history[id] = <<>>
    <3>1. id \notin orders
      BY <2>1, <2>2 DEF HistoryStatusAgrees
    <3>2. i \in orders => order'[i] = order[i] /\ history'[i] = history[i]
      BY <1>1, <2>1, <2>2, <3>1
    <3> QED
      BY <2>1, <3>2 DEF Agrees, LastSnapshot
  <2>3. ASSUME NEW s \in Order, s.status = order[id].status, history[id] # <<>>,
               order' = [order EXCEPT ![id] = s],
               history' = [history EXCEPT ![id] = @ \o Modified(s)]
        PROVE  Agrees(i)'
    <3>1. CASE i = id
      <4>1. id \in orders /\ Tells(history[id], order[id].status)
        BY <2>1, <2>3 DEF HistoryStatusAgrees, Tells, LastSnapshot
      <4>2. history'[id] = history[id] \o Modified(s) /\ order'[id] = s
        BY <1>1, <2>1, <2>3
      <4>3. history[id] \in Seq(Snapshot)
        BY <1>1, <2>1
      <4> QED
        BY <2>3, <3>1, <4>1, <4>2, <4>3, ModifiedTells DEF Agrees, LastSnapshot
    <3>2. CASE i # id
      BY <1>1, <2>1, <2>3, <3>2 DEF Agrees, LastSnapshot
    <3> QED
      BY <3>1, <3>2
  <2> QED
    BY <1>4, <2>2, <2>3, ModifyRecords
<1>5. ASSUME NEW id \in Ids, CancelOrder(id)
      PROVE  Agrees(i)'
  <2>1. /\ id \in orders /\ order[id] \in Order
        /\ order' = [order EXCEPT ![id] = Cancelled(order[id])] /\ UNCHANGED orders
    BY <1>5, CancelWrites
  <2>2. history' = [history EXCEPT ![id] = Append(@, Cancelled(order[id]))]
    BY <1>5 DEF CancelOrder
  <2>3. CASE i = id
    <3>1. Tells(history[id], order[id].status) /\ history[id] \in Seq(Snapshot)
      BY <1>1, <2>1 DEF HistoryStatusAgrees, Tells, LastSnapshot
    <3>2. LET h == Append(history[id], Cancelled(order[id]))
          IN  h[Len(h)] = Cancelled(order[id])
      BY <2>1, <3>1, CancelledTells
    <3>3. history'[i] = Append(history[id], Cancelled(order[id]))
          /\ order'[i] = Cancelled(order[id])
      BY <1>1, <2>1, <2>2, <2>3
    <3> QED
      BY <3>2, <3>3 DEF Agrees, LastSnapshot
  <2>4. CASE i # id
    BY <1>1, <2>1, <2>2, <2>4 DEF Agrees, LastSnapshot
  <2> QED
    BY <2>3, <2>4
<1>6. ASSUME NEW p \in Placements, NEW ltp \in Ltps, PlaceRecorded(p, ltp)
      PROVE  Agrees(i)'
  <2> DEFINE id == orderSeq + 1
  <2>1. PICK o \in Order : Added(id, o) /\ history' = [history EXCEPT ![id] = BuildHistory(o)]
    BY <1>6, PlaceWrites
  <2>2. CASE i = id
    <3>1. order'[i] = o /\ history'[i] = BuildHistory(o)
      BY <1>1, <2>1, <2>2 DEF Added
    <3> QED
      BY <3>1, BuiltHistoryTells DEF Agrees, LastSnapshot
  <2>3. CASE i # id
    <3>1. order'[i] = order[i] /\ history'[i] = history[i] /\ (i \in orders' <=> i \in orders)
      BY <1>1, <2>1, <2>3 DEF Added
    <3> QED
      BY <3>1 DEF Agrees, LastSnapshot
  <2> QED
    BY <2>2, <2>3
<1> QED
  BY <1>2, <1>3, <1>4, <1>5, <1>6, QuietSteps

\* The list and the history of an order part only at a modify that is refused
\* with some of its fields applied; whatever races it loses, and whatever is
\* cancelled or reset meanwhile, an accepted modify records what it wrote.
THEOREM DriftsOnlyByFailedModify == Spec => DriftOnlyByFailedModify
<1>1. TypeOK /\ HistoryStatusAgrees /\ [Next]_vars =>
        [\A i \in Ids :
           Agrees(i) /\ ~Agrees(i)' =>
             response' = [endpoint |-> "orders.modify", outcome |-> "InputException"]]_vars
  BY DriftStep DEF Refused
<1> QED
  BY <1>1, TypeCorrect, HistoryAlwaysAgrees, PTL DEF Spec, DriftOnlyByFailedModify

-----------------------------------------------------------------------------
(* The table implements the life of an order.                              *)

\* An id that was issued is not unused, whatever became of its order.
LEMMA Phases ==
  ASSUME TypeOK, NEW i \in Ids
  PROVE  PhaseOf(i) = "unused" <=> i > orderSeq
<1>1. i \in orders => i <= orderSeq /\ order[i] \in Order
  BY OrdersAssumption DEF TypeOK
<1>2. i \in orders => order[i].status # "unused"
  BY <1>1 DEF Order, OrderStates
<1> QED
  BY <1>2 DEF PhaseOf

\* A step that changes no phase and no trade is a stutter.
LEMMA Stutter ==
  ASSUME \A i \in Ids : PhaseOf(i)' = PhaseOf(i), UNCHANGED trades
  PROVE  UNCHANGED Lifecycle!vars
<1>1. [i \in Ids |-> PhaseOf(i)]' = [i \in Ids |-> PhaseOf(i)]
  BY DEF Ids
<1>2. {i \in Ids : trades[i] # <<>>}' = {i \in Ids : trades[i] # <<>>}
  BY DEF Ids
<1> QED
  BY <1>1, <1>2 DEF Lifecycle!vars

LEMMA LifecycleInit ==
  ASSUME Init
  PROVE  Lifecycle!Init
<1>1. \A i \in Ids : PhaseOf(i) = "unused"
  BY OrdersAssumption DEF Init, PhaseOf, Ids
<1>2. {i \in Ids : trades[i] # <<>>} = {}
  BY DEF Init
<1> QED
  BY <1>1, <1>2 DEF Lifecycle!Init, Lifecycle!Ids, Ids

LEMMA LifecycleStep ==
  ASSUME Inv, [Next]_vars
  PROVE  [Lifecycle!Next]_(Lifecycle!vars)
<1> USE DEF Inv
<1>1. /\ order \in [Ids -> Order \cup {None}] /\ orderSeq \in Nat
      /\ orders \subseteq 1..orderSeq /\ trades \in [Ids -> Seq(Trade)]
  BY DEF TypeOK
<1>2. CASE Quiet
  BY <1>2, Stutter DEF Quiet, PhaseOf
<1>3. CASE Reset
  <2>1. \A i \in Ids : PhaseOf(i)' = IF PhaseOf(i) = "unused" THEN "unused" ELSE "cleared"
    BY <1>1, <1>3, Phases DEF Reset, PhaseOf
  <2>2. {i \in Ids : trades'[i] # <<>>} = {}
    BY <1>3 DEF Reset
  <2>3. Lifecycle!Reset
    BY <2>1, <2>2 DEF Lifecycle!Reset, Lifecycle!Ids, Ids
  <2> QED
    BY <2>3 DEF Lifecycle!Next
<1>4. ASSUME NEW r \in Requests, ModifyBody(r)
      PROVE  UNCHANGED Lifecycle!vars
  <2>1. PICK o \in Order : /\ o.status = order[req[r].id].status
                           /\ order' = [order EXCEPT ![req[r].id] = o]
    BY <1>4, ModifyWrites
  <2>2. UNCHANGED <<orders, trades, orderSeq>>
    BY <1>4, ModifyWrites
  <2>3. \A i \in Ids : order'[i].status = order[i].status
    BY <1>1, <2>1
  <2> QED
    BY <2>2, <2>3, Stutter DEF PhaseOf
<1>5. ASSUME NEW id \in Ids, CancelOrder(id)
      PROVE  Lifecycle!Next
  <2>1. /\ id \in orders /\ order[id].status = "OPEN"
        /\ Cancelled(order[id]).status = "CANCELLED"
        /\ order' = [order EXCEPT ![id] = Cancelled(order[id])]
        /\ UNCHANGED <<orders, trades, orderSeq>>
    BY <1>5, CancelWrites
  <2>2. ~(id > orderSeq)
    BY <1>1, <2>1
  <2>3. PhaseOf(id) = "OPEN" /\ PhaseOf(id)' = "CANCELLED"
    BY <1>1, <2>1, <2>2 DEF PhaseOf
  <2>4. \A i \in Ids : i # id => PhaseOf(i)' = PhaseOf(i)
    BY <1>1, <2>1 DEF PhaseOf
  <2>5. Lifecycle!Cancel(id)
    BY <2>1, <2>3, <2>4 DEF Lifecycle!Cancel, Lifecycle!Ids, Ids
  <2> QED
    BY <2>5 DEF Lifecycle!Next, Lifecycle!Ids, Ids
<1>6. ASSUME NEW p \in Placements, NEW ltp \in Ltps, PlaceRecorded(p, ltp)
      PROVE  Lifecycle!Next
  <2>1. PICK o \in Order : Added(orderSeq + 1, o)
    BY <1>6, PlaceWrites
  <2>2. PICK id \in Ids : id = orderSeq + 1
    BY <2>1 DEF Added
  <2>3. /\ orderSeq' = id /\ orders' = orders \cup {id}
        /\ order' = [order EXCEPT ![id] = o] /\ o.status \in OrderStates
    BY <2>1, <2>2 DEF Added
  <2>4. PhaseOf(id) = "unused" /\ PhaseOf(id)' = o.status
    <3>1. id > orderSeq /\ ~(id > orderSeq') /\ id \in orders' /\ order'[id] = o
      BY <1>1, <2>2, <2>3
    <3> QED
      BY <3>1 DEF PhaseOf
  <2>5. ASSUME NEW i \in Ids, i # id
        PROVE  PhaseOf(i)' = PhaseOf(i)
    <3>1. (i > orderSeq' <=> i > orderSeq) /\ (i \in orders' <=> i \in orders)
          /\ order'[i] = order[i]
      BY <1>1, <2>2, <2>3, <2>5 DEF Ids
    <3> QED
      BY <3>1 DEF PhaseOf
  <2>6. \A i \in Ids : i < id => PhaseOf(i) # "unused"
    BY <1>1, <2>2, Phases DEF Ids
  <2>7. {i \in Ids : trades'[i] # <<>>} =
          IF o.status = "COMPLETE" THEN {i \in Ids : trades[i] # <<>>} \cup {id}
                                   ELSE {i \in Ids : trades[i] # <<>>}
    <3>1. CASE o.status = "COMPLETE"
      <4>1. trades' = [trades EXCEPT ![id] = <<BuildTrade(id, o)>>]
        BY <2>1, <2>2, <3>1 DEF Added
      <4>2. <<BuildTrade(id, o)>> # <<>>
        BY TradeOfOrder
      <4> QED
        BY <1>1, <3>1, <4>1, <4>2
    <3>2. CASE o.status # "COMPLETE"
      BY <2>1, <3>2 DEF Added
    <3> QED
      BY <3>1, <3>2
  <2>8. [i \in Ids |-> PhaseOf(i)]' = [[i \in Ids |-> PhaseOf(i)] EXCEPT ![id] = o.status]
    BY <2>4, <2>5 DEF Ids
  <2>9. Lifecycle!Place(id, o.status)
    BY <2>4, <2>6, <2>7, <2>8 DEF Lifecycle!Place, Lifecycle!Ids, Ids
  <2> QED
    BY <2>3, <2>9 DEF Lifecycle!Next, Lifecycle!PlacedAs, OrderStates, Lifecycle!Ids, Ids
<1> QED
  BY <1>2, <1>3, <1>4, <1>5, <1>6, QuietSteps

\* Every id the table hands out lives the life OrderLifecycle gives it: issued
\* in sequence, changed only from OPEN to CANCELLED, never issued again.
THEOREM LifecycleImplemented == Spec => ImplementsLifecycle
<1>1. Init => Lifecycle!Init
  BY LifecycleInit
<1>2. Inv /\ [Next]_vars => [Lifecycle!Next]_(Lifecycle!vars)
  BY LifecycleStep
<1> QED
  BY <1>1, <1>2, InvAlways, PTL DEF Spec, ImplementsLifecycle, Lifecycle!Spec
=============================================================================
