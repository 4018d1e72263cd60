------------------------ MODULE OrderUpdates_proofs ------------------------
(***************************************************************************)
(* Proofs about the broadcast of order updates: the table under it is the  *)
(* one Orders is about; a frame of a filled or rejected order is right     *)
(* however long it is on its way; a client that stays is sent the state of *)
(* every order; and with one update delay the last frame it gets about an  *)
(* order is the one that is true.                                          *)
(***************************************************************************)
EXTENDS OrderUpdates, Orders_proofs, Lemmas

\* An arrangement of a finite set has each of its elements, once.
LEMMA Arranged ==
  ASSUME NEW S, SE!IsFiniteSet(S), NEW s \in SE!SetToSeqs(S)
  PROVE  s \in Seq(S) /\ SE!IsInjective(s) /\ S \subseteq SE!ToSet(s)
<1>1. IsFiniteSet(S)
  BY Zenon DEF SE!IsFiniteSet, IsFiniteSet
<1>2. /\ s \in [1..Cardinality(S) -> S]
      /\ \A i, j \in 1..Cardinality(S) : i # j => s[i] # s[j]
  BY Zenon DEF SE!SetToSeqs, SE!Cardinality, Cardinality, SE!IsFiniteSet, IsFiniteSet
<1>3. s \in Injection(1..Cardinality(S), S)
  BY <1>2 DEF Injection, IsInjective
<1>4. Cardinality(S) \in Nat
  BY <1>1, FS_CardinalityType
<1>5. Cardinality(1..Cardinality(S)) = Cardinality(S)
  BY <1>4, FS_Interval
<1>6. s \in Surjection(1..Cardinality(S), S)
  BY <1>1, <1>3, <1>5, FS_Injection
<1>7. s \in Seq(S)
  BY <1>2, <1>4, SeqDef
<1> QED
  BY <1>2, <1>6, <1>7 DEF Surjection, SE!IsInjective, SE!ToSet

\* What is left of a sequence from its m-th element on.
LEMMA RestFrom ==
  ASSUME NEW S, NEW s \in Seq(S), NEW m \in 1..Len(s) + 1
  PROVE  /\ SubSeq(s, m, Len(s)) \in Seq(S)
         /\ Len(SubSeq(s, m, Len(s))) = (Len(s) - m) + 1
         /\ \A k \in 1..(Len(s) - m) + 1 : SubSeq(s, m, Len(s))[k] = s[(m + k) - 1]
<1> DEFINE len == Len(s)
           r == SubSeq(s, m, len)
<1>1. len \in Nat /\ \A k \in 1..len : s[k] \in S
  BY LenProperties, ElementOfSeq
<1>2. m \in Int /\ len \in Int /\ m >= 1 /\ m <= len + 1
  BY <1>1
<1> HIDE DEF len
<1>3. \A i \in m..len : s[i] \in S
  BY <1>1, <1>2
<1>4. /\ r \in Seq(S) /\ Len(r) = IF m <= len THEN len - m + 1 ELSE 0
      /\ \A i \in 1..len - m + 1 : r[i] = s[m + i - 1]
  BY <1>2, <1>3, SubSeqProperties, SMTT(30)
<1> HIDE DEF r
<1>5. Len(r) = (len - m) + 1
  BY <1>2, <1>4
<1> QED
  BY <1>4, <1>5 DEF r, len

\* Removing an element: the others keep their order.
LEMMA RemovedAt ==
  ASSUME NEW S, NEW s \in Seq(S), NEW n \in DOMAIN s
  PROVE  /\ SE!RemoveAt(s, n) \in Seq(S)
         /\ DOMAIN SE!RemoveAt(s, n) = 1..Len(s) - 1
         /\ \A k \in 1..Len(s) - 1 : SE!RemoveAt(s, n)[k] = IF k < n THEN s[k] ELSE s[k + 1]
<1> DEFINE a == SubSeq(s, 1, n - 1)
           b == SubSeq(s, n + 1, Len(s))
<1>1. n \in 1..Len(s) /\ Len(s) \in Nat /\ \A k \in 1..Len(s) : s[k] \in S
  BY LenProperties, ElementOfSeq
<1>2. /\ a \in Seq(S) /\ Len(a) = n - 1
      /\ \A k \in 1..n - 1 : a[k] = s[k]
  <2>1. \A k \in 1..n - 1 : s[k] \in S
    BY <1>1
  <2>2. n - 1 \in Int /\ (n - 1) - 1 + 1 = n - 1
    BY <1>1
  <2>3. /\ a \in Seq(S)
        /\ Len(a) = IF 1 <= n - 1 THEN (n - 1) - 1 + 1 ELSE 0
        /\ \A k \in 1..(n - 1) - 1 + 1 : a[k] = s[1 + k - 1]
    BY <2>1, <2>2, SubSeqProperties
  <2> QED
    BY <1>1, <2>3
<1>3. /\ b \in Seq(S) /\ Len(b) = Len(s) - n
      /\ \A k \in 1..Len(s) - n : b[k] = s[n + k]
  <2>1. \A k \in n + 1..Len(s) : s[k] \in S
    BY <1>1
  <2>2. /\ b \in Seq(S)
        /\ Len(b) = IF n + 1 <= Len(s) THEN Len(s) - (n + 1) + 1 ELSE 0
        /\ \A k \in 1..Len(s) - (n + 1) + 1 : b[k] = s[(n + 1) + k - 1]
    BY <1>1, <2>1, SubSeqProperties
  <2> QED
    BY <1>1, <2>2
<1> HIDE DEF a, b
<1>4. /\ a \o b \in Seq(S) /\ Len(a \o b) = Len(s) - 1
      /\ \A k \in 1..Len(s) - 1 : (a \o b)[k] = IF k <= Len(a) THEN a[k] ELSE b[k - Len(a)]
  <2>1. /\ a \o b \in Seq(S) /\ Len(a \o b) = Len(a) + Len(b)
        /\ \A k \in 1..Len(a) + Len(b) :
             (a \o b)[k] = IF k <= Len(a) THEN a[k] ELSE b[k - Len(a)]
    BY <1>2, <1>3, ConcatProperties
  <2>2. Len(a) + Len(b) = Len(s) - 1
    BY <1>1, <1>2, <1>3
  <2> QED
    BY <2>1, <2>2
<1>5. SE!RemoveAt(s, n) = a \o b
  BY DEF SE!RemoveAt, a, b
<1>6. \A k \in 1..Len(s) - 1 : (a \o b)[k] = IF k < n THEN s[k] ELSE s[k + 1]
  <2> TAKE k \in 1..Len(s) - 1
  <2>1. CASE k < n
    BY <1>1, <1>2, <1>4, <2>1
  <2>2. CASE ~(k < n)
    <3>1. k - Len(a) \in 1..Len(s) - n /\ n + (k - Len(a)) = k + 1 /\ ~(k <= Len(a))
      BY <1>1, <1>2, <2>2
    <3>2. b[k - Len(a)] = s[k + 1]
      BY <1>3, <3>1
    <3> QED
      BY <1>1, <1>4, <2>2, <3>1, <3>2
  <2> QED
    BY <1>1, <2>1, <2>2
<1> QED
  BY <1>4, <1>5, <1>6, LenProperties

-----------------------------------------------------------------------------
(* The table of orders.                                                    *)

\* Whatever the tasks and the clients do, the handlers run as in Orders.
LEMMA UpdatesStep == [UpdatesNext]_allVars => [Next]_vars
BY DEF UpdatesNext, allVars, Next, Emission, StartUpdate, WakeUpdate, Resume, Join, Close,
       Deregister

\* Everything that holds of the order table of Orders holds under the broadcast.
THEOREM TableUndisturbed == UpdatesSpec => Spec
<1>1. UpdatesInit => Init
  BY DEF UpdatesInit
<1> QED
  BY <1>1, UpdatesStep, PTL DEF UpdatesSpec, Spec

LEMMA InvUnderUpdates == UpdatesSpec => []Inv
BY TableUndisturbed, InvAlways, PTL

\* Frames that may still be on their way: of an issued order and, if it was
\* filled or rejected, in its final state.
Good ==
  {f \in FrameType :
     /\ f.id \in 1..orderSeq
     /\ order[f.id].status \in {"COMPLETE", "REJECTED"} => f.snap = order[f.id]}

LEMMA IdsOnlyGrow ==
  ASSUME Inv, [Next]_vars
  PROVE  orderSeq \in Nat /\ orderSeq' \in Nat /\ orderSeq <= orderSeq'
<1>1. orderSeq \in Nat /\ TypeOK
  BY OrdersAssumption DEF Inv, TypeOK
<1>2. CASE Quiet \/ Reset
  BY <1>1, <1>2 DEF Quiet, Reset
<1>3. ASSUME NEW r \in Requests, ModifyBody(r)
      PROVE  orderSeq' = orderSeq
  BY <1>1, <1>3, ModifyWrites
<1>4. ASSUME NEW id \in Ids, CancelOrder(id)
      PROVE  orderSeq' = orderSeq
  BY <1>1, <1>4, CancelWrites
<1>5. ASSUME NEW p \in Placements, NEW ltp \in Ltps, PlaceRecorded(p, ltp)
      PROVE  orderSeq' = orderSeq + 1
  BY <1>1, <1>5, PlaceWrites DEF Added
<1> QED
  BY <1>1, <1>2, <1>3, <1>4, <1>5, QuietSteps

\* What is good stays good, whatever the handlers do meanwhile.
LEMMA GoodStays ==
  ASSUME Inv, [Next]_vars
  PROVE  Good \subseteq Good'
<1> SUFFICES ASSUME NEW f \in Good
             PROVE  f \in Good'
  OBVIOUS
<1>1. f \in FrameType /\ f.id \in 1..orderSeq
      /\ (order[f.id].status \in {"COMPLETE", "REJECTED"} => f.snap = order[f.id])
  BY DEF Good
<1>2. f.id \in 1..orderSeq'
  BY <1>1, IdsOnlyGrow
<1>3. order'[f.id].status \in {"COMPLETE", "REJECTED"} => f.snap = order'[f.id]
  BY <1>1, FinalFromBirth, FinalStep
<1> QED
  BY <1>1, <1>2, <1>3 DEF Good

\* A task copies a good frame.
LEMMA FrameIsGood ==
  ASSUME TypeOK, scheduled # <<>>
  PROVE  /\ Frame(Head(scheduled)) \in Good /\ Head(scheduled).delay \in Delays
<1> DEFINE task == Head(scheduled)
<1>1. task \in [id: Ids, delay: Delays] /\ task = scheduled[1] /\ 1 \in DOMAIN scheduled
  <2>1. scheduled \in Seq([id: Ids, delay: Delays])
    BY DEF TypeOK
  <2>2. task \in [id: Ids, delay: Delays]
    BY <2>1, HeadTailProperties
  <2>3. task = scheduled[1]
    BY <2>1
  <2>4. 1 \in DOMAIN scheduled
    BY <2>1, EmptySeq, LenProperties
  <2> QED
    BY <2>2, <2>3, <2>4
<1>2. task.id \in 1..orderSeq /\ task.id \in Ids /\ task.delay \in Delays
  BY <1>1 DEF TypeOK
<1> HIDE DEF task
<1>3. order[task.id] \in Order
  BY <1>2, OrdersAssumption DEF TypeOK
<1> QED
  BY <1>2, <1>3 DEF Frame, Good, FrameType, task

-----------------------------------------------------------------------------
(* The queues.                                                             *)

\* Sending a frame keeps every queue and inbox a sequence of good frames.
LEMMA SendOnKeeps ==
  ASSUME NEW G, NEW f \in G, NEW to \in Seq(Clients),
         NEW queues \in [Clients -> Seq([frame: G, rest: Seq(Clients)])],
         inbox \in [Clients -> Seq(G)], SendOn(f, to, queues)
  PROVE  /\ waiters' \in [Clients -> Seq([frame: G, rest: Seq(Clients)])]
         /\ inbox' \in [Clients -> Seq(G)]
<1> DEFINE open == {n \in DOMAIN to : socket[to[n]] = "open"}
<1>1. CASE open = {}
  BY <1>1 DEF SendOn
<1>2. CASE open # {}
  <2> DEFINE n == CHOOSE n \in open : \A m \in open : n <= m
             task == [frame |-> f, rest |-> SubSeq(to, n + 1, Len(to))]
  <2>1. open \subseteq 1..Len(to) /\ Len(to) \in Nat /\ \A k \in 1..Len(to) : to[k] \in Clients
    BY LenProperties, ElementOfSeq
  <2>2. \E k \in open : \A m \in open : k <= m
    <3>1. open \subseteq Nat
      BY <2>1
    <3> HIDE DEF open
    <3> QED
      BY <1>2, <3>1, LeastOf
  <2>3. n \in open
    BY <2>2
  <2>4. /\ waiters' = [queues EXCEPT ![to[n]] = Append(@, task)]
        /\ inbox' = [inbox EXCEPT ![to[n]] = Append(@, f)]
    BY <1>2 DEF SendOn
  <2> HIDE DEF n, open
  <2>5. n \in 1..Len(to) /\ to[n] \in Clients
    BY <2>1, <2>3
  <2>6. SubSeq(to, n + 1, Len(to)) \in Seq(Clients)
    BY <2>1, <2>5, SubSeqProperties
  <2>7. task \in [frame: G, rest: Seq(Clients)]
    BY <2>6
  <2> HIDE DEF task
  <2>8. /\ Append(queues[to[n]], task) \in Seq([frame: G, rest: Seq(Clients)])
        /\ Append(inbox[to[n]], f) \in Seq(G)
    BY <2>5, <2>7, AppendProperties
  <2> QED
    BY <2>4, <2>5, <2>8
<1> QED
  BY <1>1, <1>2

Queues ==
  /\ sleeping \in Seq([frame: Good, delay: Delays])
  /\ waiters \in [Clients -> Seq([frame: Good, rest: Seq(Clients)])]
  /\ inbox \in [Clients -> Seq(Good)]

LEMMA QueuesMonotonic ==
  ASSUME NEW G, NEW H, G \subseteq H
  PROVE  /\ Seq([frame: G, delay: Delays]) \subseteq Seq([frame: H, delay: Delays])
         /\ Seq([frame: G, rest: Seq(Clients)]) \subseteq Seq([frame: H, rest: Seq(Clients)])
         /\ Seq(G) \subseteq Seq(H)
<1>1. /\ [frame: G, delay: Delays] \subseteq [frame: H, delay: Delays]
      /\ [frame: G, rest: Seq(Clients)] \subseteq [frame: H, rest: Seq(Clients)]
  OBVIOUS
<1> QED
  BY <1>1, SeqMonotonic

\* The registered connections.
Sockets ==
  /\ ws_clients \in Seq(Clients) /\ SE!IsInjective(ws_clients)
  /\ socket \in [Clients -> {"off", "open", "dead"}]
  /\ \A c \in Clients : socket[c] = "open" => c \in SE!ToSet(ws_clients)
  /\ \A c \in SE!ToSet(ws_clients) : socket[c] # "off"

LEMMA SocketsStep ==
  ASSUME Sockets, [UpdatesNext]_allVars
  PROVE  Sockets'
<1> SUFFICES ASSUME ~UNCHANGED <<ws_clients, socket>>
             PROVE  Sockets'
  BY DEF Sockets
<1>1. DOMAIN ws_clients = 1..Len(ws_clients) /\ Len(ws_clients) \in Nat
  BY LenProperties DEF Sockets
<1>2. ASSUME NEW c \in Clients, Join(c)
      PROVE  Sockets'
  <2>1. socket[c] = "off" /\ socket' = [socket EXCEPT ![c] = "open"]
        /\ ws_clients' = Append(ws_clients, c)
    BY <1>2 DEF Join
  <2>2. /\ ws_clients' \in Seq(Clients) /\ Len(ws_clients') = Len(ws_clients) + 1
        /\ \A k \in 1..Len(ws_clients) : ws_clients'[k] = ws_clients[k]
        /\ ws_clients'[Len(ws_clients) + 1] = c
    BY <2>1, AppendProperties DEF Sockets
  <2>3. DOMAIN ws_clients' = 1..Len(ws_clients) + 1
    BY <2>2, LenProperties
  <2>4. \A k \in DOMAIN ws_clients : ws_clients[k] # c
    BY <2>1 DEF Sockets, SE!ToSet
  <2>5. SE!IsInjective(ws_clients')
    BY <1>1, <2>2, <2>3, <2>4 DEF Sockets, SE!IsInjective
  <2>6. SE!ToSet(ws_clients') = SE!ToSet(ws_clients) \cup {c}
    <3>1. \A k \in 1..Len(ws_clients) + 1 :
            k \in 1..Len(ws_clients) \/ k = Len(ws_clients) + 1
      BY <1>1
    <3> QED
      BY <1>1, <2>2, <2>3, <3>1 DEF SE!ToSet
  <2> QED
    BY <2>1, <2>2, <2>5, <2>6 DEF Sockets
<1>3. ASSUME NEW c \in Clients, Close(c)
      PROVE  Sockets'
  BY <1>3 DEF Close, Sockets
<1>4. ASSUME NEW c \in Clients, Deregister(c)
      PROVE  Sockets'
  <2>1. PICK n \in DOMAIN ws_clients :
          ws_clients[n] = c /\ ws_clients' = SE!RemoveAt(ws_clients, n)
    BY <1>4 DEF Deregister
  <2>2. socket[c] = "dead" /\ socket' = socket
    BY <1>4 DEF Deregister
  <2>3. /\ ws_clients' \in Seq(Clients) /\ DOMAIN ws_clients' = 1..Len(ws_clients) - 1
        /\ \A k \in 1..Len(ws_clients) - 1 :
             ws_clients'[k] = IF k < n THEN ws_clients[k] ELSE ws_clients[k + 1]
    BY <2>1, RemovedAt DEF Sockets
  <2>4. SE!IsInjective(ws_clients')
    <3> SUFFICES ASSUME NEW j \in DOMAIN ws_clients', NEW k \in DOMAIN ws_clients',
                        ws_clients'[j] = ws_clients'[k]
                 PROVE  j = k
      BY DEF SE!IsInjective
    <3> DEFINE at(i) == IF i < n THEN i ELSE i + 1
    <3>1. at(j) \in DOMAIN ws_clients /\ at(k) \in DOMAIN ws_clients
      BY <1>1, <2>3
    <3>2. ws_clients[at(j)] = ws_clients[at(k)]
      BY <2>3
    <3>3. at(j) = at(k)
      BY <3>1, <3>2 DEF Sockets, SE!IsInjective
    <3> QED
      BY <1>1, <2>1, <2>3, <3>3
  <2>5. SE!ToSet(ws_clients') \subseteq SE!ToSet(ws_clients)
    <3> SUFFICES ASSUME NEW k \in 1..Len(ws_clients) - 1
                 PROVE  ws_clients'[k] \in SE!ToSet(ws_clients)
      BY <2>3 DEF SE!ToSet
    <3>1. k \in DOMAIN ws_clients /\ k + 1 \in DOMAIN ws_clients
      BY <1>1
    <3> QED
      BY <2>3, <3>1 DEF SE!ToSet
  <2>6. SE!ToSet(ws_clients) \ {c} \subseteq SE!ToSet(ws_clients')
    <3> SUFFICES ASSUME NEW k \in DOMAIN ws_clients, ws_clients[k] # c
                 PROVE  ws_clients[k] \in SE!ToSet(ws_clients')
      BY DEF SE!ToSet
    <3>1. k # n
      BY <2>1
    <3>2. CASE k < n
      <4>1. k \in DOMAIN ws_clients' /\ ws_clients'[k] = ws_clients[k]
        BY <1>1, <2>1, <2>3, <3>2
      <4> QED
        BY <4>1 DEF SE!ToSet
    <3>3. CASE k > n
      <4>1. /\ k - 1 \in DOMAIN ws_clients' /\ ~(k - 1 < n) /\ (k - 1) + 1 = k
        BY <1>1, <2>1, <2>3, <3>3
      <4>2. ws_clients'[k - 1] = ws_clients[k]
        BY <2>3, <4>1
      <4> QED
        BY <4>1, <4>2 DEF SE!ToSet
    <3> QED
      BY <1>1, <2>1, <3>1, <3>2, <3>3
  <2> QED
    BY <2>2, <2>3, <2>4, <2>5, <2>6 DEF Sockets
<1>5. UpdatesNext => \E c \in Clients : Join(c) \/ Close(c) \/ Deregister(c)
  BY DEF UpdatesNext, updateVars, Emission, StartUpdate, WakeUpdate, Resume
<1> QED
  BY <1>2, <1>3, <1>4, <1>5 DEF allVars, updateVars

LEMMA QueuesStep ==
  ASSUME Inv, Sockets, Queues, [UpdatesNext]_allVars
  PROVE  Queues'
<1>1. [Next]_vars
  BY UpdatesStep
<1>2. Good \subseteq Good'
  BY <1>1, GoodStays
<1>3. SUFFICES /\ sleeping' \in Seq([frame: Good, delay: Delays])
               /\ waiters' \in [Clients -> Seq([frame: Good, rest: Seq(Clients)])]
               /\ inbox' \in [Clients -> Seq(Good)]
  BY <1>2, QueuesMonotonic DEF Queues
<1> USE DEF Queues
<1>4. CASE UNCHANGED <<sleeping, waiters, inbox>>
  BY <1>4
<1>5. CASE StartUpdate
  <2> DEFINE task == Head(scheduled)
  <2>1. Frame(task) \in Good /\ task.delay \in Delays
    BY <1>5, FrameIsGood DEF StartUpdate, TakeUpdate, Inv
  <2>2. \/ Broadcast(Frame(task)) /\ UNCHANGED sleeping
        \/ /\ sleeping' = Append(sleeping, [frame |-> Frame(task), delay |-> task.delay])
           /\ UNCHANGED <<waiters, inbox>>
    BY <1>5 DEF StartUpdate
  <2>3. [frame |-> Frame(task), delay |-> task.delay] \in [frame: Good, delay: Delays]
    BY <2>1
  <2> HIDE DEF task
  <2>4. CASE Broadcast(Frame(task)) /\ UNCHANGED sleeping
    BY <2>1, <2>4, SendOnKeeps DEF Broadcast, Sockets
  <2>5. CASE /\ sleeping' = Append(sleeping, [frame |-> Frame(task), delay |-> task.delay])
             /\ UNCHANGED <<waiters, inbox>>
    BY <2>3, <2>5, AppendProperties
  <2> QED
    BY <2>2, <2>4, <2>5
<1>6. ASSUME NEW n \in DOMAIN sleeping, WakeUpdate(n)
      PROVE  /\ sleeping' \in Seq([frame: Good, delay: Delays])
             /\ waiters' \in [Clients -> Seq([frame: Good, rest: Seq(Clients)])]
             /\ inbox' \in [Clients -> Seq(Good)]
  <2>1. sleeping[n].frame \in Good
    <3>1. sleeping[n] \in [frame: Good, delay: Delays]
      BY ElementOfSeq, LenProperties
    <3> QED
      BY <3>1
  <2>2. Broadcast(sleeping[n].frame) /\ sleeping' = SE!RemoveAt(sleeping, n)
    BY <1>6 DEF WakeUpdate
  <2>3. sleeping' \in Seq([frame: Good, delay: Delays])
    BY <2>2, RemovedAt
  <2> QED
    BY <2>1, <2>2, <2>3, SendOnKeeps DEF Broadcast, Sockets
<1>7. ASSUME NEW c \in Clients, Resume(c)
      PROVE  /\ sleeping' \in Seq([frame: Good, delay: Delays])
             /\ waiters' \in [Clients -> Seq([frame: Good, rest: Seq(Clients)])]
             /\ inbox' \in [Clients -> Seq(Good)]
  <2> DEFINE task == Head(waiters[c])
             queues == [waiters EXCEPT ![c] = Tail(@)]
  <2>1. /\ waiters[c] # <<>> /\ SendOn(task.frame, task.rest, queues)
        /\ sleeping' = sleeping
    BY <1>7 DEF Resume
  <2>2. waiters[c] \in Seq([frame: Good, rest: Seq(Clients)])
    OBVIOUS
  <2>3. /\ task \in [frame: Good, rest: Seq(Clients)]
        /\ Tail(waiters[c]) \in Seq([frame: Good, rest: Seq(Clients)])
    BY <2>1, <2>2, HeadTailProperties
  <2> HIDE DEF task
  <2>4. queues \in [Clients -> Seq([frame: Good, rest: Seq(Clients)])]
    BY <2>3
  <2> HIDE DEF queues
  <2>5. task.frame \in Good /\ task.rest \in Seq(Clients)
    BY <2>3
  <2> QED
    BY <2>1, <2>4, <2>5, SendOnKeeps
<1>8. UpdatesNext => \/ UNCHANGED <<sleeping, waiters, inbox>>
                     \/ StartUpdate
                     \/ \E n \in DOMAIN sleeping : WakeUpdate(n)
                     \/ \E c \in Clients : Resume(c)
  BY DEF UpdatesNext, updateVars, Emission, Join, Close, Deregister
<1> QED
  BY <1>4, <1>5, <1>6, <1>7, <1>8 DEF allVars, updateVars

LEMMA UpdatesAlways == UpdatesSpec => [](Inv /\ Sockets /\ Queues)
<1>1. ASSUME UpdatesInit
      PROVE  Sockets /\ Queues
  <2>1. ws_clients \in Seq(Early) /\ SE!IsInjective(ws_clients) /\ Early \subseteq SE!ToSet(ws_clients)
    BY <1>1, UpdatesAssumption, Arranged DEF UpdatesInit
  <2>2. ws_clients \in Seq(Clients) /\ SE!ToSet(ws_clients) \subseteq Early
    <3>1. \A n \in DOMAIN ws_clients : ws_clients[n] \in Early
      BY <2>1, ElementOfSeq, LenProperties
    <3> QED
      BY <2>1, <3>1, UpdatesAssumption, SeqMonotonic DEF SE!ToSet
  <2>3. /\ <<>> \in Seq([frame: Good, delay: Delays])
        /\ <<>> \in Seq([frame: Good, rest: Seq(Clients)]) /\ <<>> \in Seq(Good)
    BY EmptySeq
  <2> QED
    BY <1>1, <2>1, <2>2, <2>3, UpdatesAssumption DEF UpdatesInit, Sockets, Queues
<1>2. Inv /\ (Sockets /\ Queues) /\ [UpdatesNext]_allVars => (Sockets /\ Queues)'
  BY SocketsStep, QueuesStep
<1> QED
  BY <1>1, <1>2, InvUnderUpdates, PTL DEF UpdatesSpec

\* The queues hold frames of issued orders, each connection is registered once,
\* and an open one always is.
THEOREM UpdatesTypeCorrect == UpdatesSpec => []UpdatesTypeOK
<1>1. ASSUME Sockets, Queues
      PROVE  UpdatesTypeOK
  <2>1. Good \subseteq FrameType
    BY DEF Good
  <2> QED
    BY <1>1, <2>1, QueuesMonotonic DEF Sockets, Queues, UpdatesTypeOK
<1> QED
  BY <1>1, UpdatesAlways, PTL

\* However long tasks sleep and sends are held up, every frame about an order
\* that was filled or rejected shows its final state.
THEOREM FilledAlwaysAnnounced == UpdatesSpec => []FilledIsAnnouncedOnly
<1>1. ASSUME Queues
      PROVE  FilledIsAnnouncedOnly
  <2> SUFFICES ASSUME NEW c \in Clients, NEW i \in 1..orderSeq,
                      order[i].status \in {"COMPLETE", "REJECTED"},
                      NEW n \in DOMAIN inbox[c], inbox[c][n].id = i
               PROVE  inbox[c][n].snap = order[i]
    BY DEF FilledIsAnnouncedOnly
  <2>1. inbox[c] \in Seq(Good)
    BY <1>1 DEF Queues
  <2>2. inbox[c][n] \in Good
    BY <2>1, ElementOfSeq, LenProperties
  <2> QED
    BY <2>2 DEF Good
<1> QED
  BY <1>1, UpdatesAlways, PTL

-----------------------------------------------------------------------------
(* What is announced.                                                      *)

\* A task of the order has been created and has not copied it yet.
Waits(i) == \E n \in DOMAIN scheduled : scheduled[n].id = i

\* What clients are told of the order is still true.
Unmoved(i) ==
  /\ i \in orders /\ order'[i].status = order[i].status
  /\ WholeModifications => order'[i] = order[i]

\* A scheduled task waits for its order, and no waiting task is lost.
LEMMA Scheduling ==
  ASSUME TypeOK, NEW id \in Ids, ScheduleUpdate(id)
  PROVE  Waits(id)' /\ \A i : Waits(i) => Waits(i)'
<1> DEFINE task == [id |-> id, delay |-> updateDelay]
           S == [id: Ids, delay: Delays]
<1>1. task \in S /\ scheduled \in Seq(S) /\ scheduled' = Append(scheduled, task) /\ task.id = id
  BY DEF TypeOK, ScheduleUpdate
<1> HIDE DEF task, S
<1>2. /\ scheduled' \in Seq(S) /\ Len(scheduled') = Len(scheduled) + 1
      /\ \A k \in 1..Len(scheduled) : scheduled'[k] = scheduled[k]
      /\ scheduled'[Len(scheduled) + 1] = task
  BY <1>1, AppendProperties
<1>3. /\ DOMAIN scheduled = 1..Len(scheduled) /\ Len(scheduled) \in Nat
      /\ DOMAIN scheduled' = 1..Len(scheduled) + 1
  BY <1>1, <1>2, LenProperties
<1> QED
  BY <1>1, <1>2, <1>3 DEF Waits

\* A handler that changes an order of the table creates a task, unless it is a
\* modify that is refused half way.
LEMMA ChangesAreAnnounced ==
  ASSUME Inv, HistoryStatusAgrees, Handlers, NEW i \in orders'
  PROVE  (Waits(i) => Waits(i)') /\ (Waits(i)' \/ Unmoved(i))
<1> USE DEF Inv
<1>1. /\ order \in [Ids -> Order \cup {None}] /\ orders \subseteq Ids
      /\ orderSeq \in 0..MaxOrders
  BY OrdersAssumption DEF TypeOK, Ids
<1>2. ASSUME NEW id \in Ids, ScheduleUpdate(id), order' = [order EXCEPT ![id] = order'[id]],
             orders' \subseteq orders \cup {id}
      PROVE  (Waits(i) => Waits(i)') /\ (Waits(i)' \/ Unmoved(i))
  <2>1. Waits(id)' /\ (Waits(i) => Waits(i)')
    BY <1>2, Scheduling
  <2>2. i # id => Unmoved(i)
    BY <1>1, <1>2 DEF Unmoved
  <2> QED
    BY <2>1, <2>2
<1>3. ASSUME UNCHANGED scheduled, Unmoved(i)
      PROVE  (Waits(i) => Waits(i)') /\ (Waits(i)' \/ Unmoved(i))
  BY <1>3 DEF Waits
<1>4. ASSUME NEW r \in Requests, ModifyBody(r)
      PROVE  (Waits(i) => Waits(i)') /\ (Waits(i)' \/ Unmoved(i))
  <2> DEFINE id == req[r].id
  <2>1. /\ id \in Ids /\ UNCHANGED orders
        /\ \E o \in Order : o.status = order[id].status /\ order' = [order EXCEPT ![id] = o]
    BY <1>4, ModifyWrites
  <2>2. PICK o \in Order : o.status = order[id].status /\ order' = [order EXCEPT ![id] = o]
    BY <2>1
  <2>3. PICK p \in Modifications : ModifyMalformed(id, p) \/ ModifyApplied(id, p)
    BY <1>4 DEF ModifyBody
  <2> HIDE DEF id
  <2>4. order'[id] = o /\ \A j \in Ids : j # id => order'[j] = order[j]
    BY <1>1, <2>1, <2>2
  <2>5. order' = [order EXCEPT ![id] = order'[id]]
    BY <2>2, <2>4
  <2>6. i \in Ids /\ i \in orders /\ order'[i].status = order[i].status
    BY <1>1, <2>1, <2>2, <2>4
  <2>7. CASE ModifyMalformed(id, p)
    <3>1. UNCHANGED scheduled /\ (WholeModifications => UNCHANGED order)
      BY <2>7 DEF ModifyMalformed, WholeModifications
    <3> QED
      BY <1>3, <2>6, <3>1 DEF Unmoved
  <2>8. CASE ModifyApplied(id, p) /\ history[id] # <<>>
    BY <1>2, <2>1, <2>5, <2>8 DEF ModifyApplied
  <2>9. CASE ModifyApplied(id, p) /\ history[id] = <<>>
    <3>1. id \notin orders
      BY <2>1, <2>9 DEF HistoryStatusAgrees
    <3>2. UNCHANGED scheduled
      BY <2>9 DEF ModifyApplied
    <3> QED
      BY <1>3, <2>4, <2>6, <3>1, <3>2 DEF Unmoved
  <2> QED
    BY <2>3, <2>7, <2>8, <2>9
<1>5. ASSUME NEW id \in Ids, CancelOrder(id)
      PROVE  (Waits(i) => Waits(i)') /\ (Waits(i)' \/ Unmoved(i))
  <2>1. order' = [order EXCEPT ![id] = Cancelled(order[id])] /\ UNCHANGED orders
    BY <1>5, CancelWrites
  <2>2. order' = [order EXCEPT ![id] = order'[id]]
    BY <1>1, <2>1
  <2>3. ScheduleUpdate(id)
    BY <1>5 DEF CancelOrder
  <2> QED
    BY <1>2, <2>1, <2>2, <2>3
<1>6. ASSUME NEW p \in Placements, NEW ltp \in Ltps, PlaceRecorded(p, ltp)
      PROVE  (Waits(i) => Waits(i)') /\ (Waits(i)' \/ Unmoved(i))
  <2>1. PICK o \in Order : Added(orderSeq + 1, o)
    BY <1>6, PlaceWrites
  <2>2. PICK id : id = orderSeq + 1
    OBVIOUS
  <2>3. id \in Ids /\ order' = [order EXCEPT ![id] = o] /\ orders' = orders \cup {id}
    BY <2>1, <2>2 DEF Added
  <2>4. order' = [order EXCEPT ![id] = order'[id]]
    BY <1>1, <2>3
  <2>5. ScheduleUpdate(id)
    BY <1>6, <2>2 DEF PlaceRecorded
  <2> QED
    BY <1>2, <2>3, <2>4, <2>5
<1>7. CASE Reset
  BY <1>7 DEF Reset
<1>8. CASE Quiet /\ UNCHANGED scheduled
  BY <1>3, <1>8 DEF Quiet, Unmoved
<1>9. [Next]_vars
  BY DEF Next
<1>10. \/ UNCHANGED scheduled
       \/ \E r \in Requests : ModifyBody(r)
       \/ \E id \in Ids : CancelOrder(id)
       \/ \E r \in Requests, p \in Placements, ltp \in Ltps :  PlaceRecorded(p, ltp)
  BY DEF Handlers, OrderRequest, ImmediateRequest, Control, PlaceBegin, PlaceBody, PlaceRefused,
         PlaceFails, PlaceUnlisted, ModifyBegin, BodyLost, InjectedError, ListRead, ModifyRefused,
         CancelRefused, OrderRead, Reset, SetLatency, ForceReject, SetOrderState, SetError,
         ControlRefused
<1> QED
  BY <1>4, <1>5, <1>6, <1>7, <1>8, <1>9, <1>10, QuietSteps

-----------------------------------------------------------------------------
(* What is on its way.                                                     *)

\* A sequence with one more at its end, and one without its first.
LEMMA Appended ==
  ASSUME NEW S, NEW s \in Seq(S), NEW e \in S
  PROVE  /\ Append(s, e) \in Seq(S) /\ Len(s) \in Nat /\ Len(Append(s, e)) = Len(s) + 1
         /\ DOMAIN s = 1..Len(s) /\ DOMAIN Append(s, e) = 1..Len(s) + 1
         /\ \A k \in 1..Len(s) : Append(s, e)[k] = s[k]
         /\ Append(s, e)[Len(s) + 1] = e
BY AppendProperties, LenProperties

LEMMA Tailed ==
  ASSUME NEW S, NEW s \in Seq(S), s # <<>>
  PROVE  /\ Head(s) = s[1] /\ Head(s) \in S /\ Tail(s) \in Seq(S)
         /\ Len(s) \in Nat /\ Len(s) >= 1 /\ DOMAIN s = 1..Len(s)
         /\ Len(Tail(s)) = Len(s) - 1 /\ DOMAIN Tail(s) = 1..Len(s) - 1
         /\ \A k \in 1..Len(s) - 1 : Tail(s)[k] = s[k + 1]
<1>1. Len(s) \in Nat /\ Len(s) # 0 /\ DOMAIN s = 1..Len(s)
  BY LenProperties, EmptySeq
<1>2. Head(s) = s[1] /\ Head(s) \in S
  BY HeadTailProperties
<1>3. /\ Tail(s) \in Seq(S) /\ Len(Tail(s)) = Len(s) - 1
      /\ \A k \in 1..Len(Tail(s)) : Tail(s)[k] = s[k + 1]
  BY HeadTailProperties
<1>4. DOMAIN Tail(s) = 1..Len(s) - 1
  BY <1>3, LenProperties
<1> QED
  BY <1>1, <1>2, <1>3, <1>4

\* One of the frames F is in the inbox of c; a task that will still come to c
\* waits with one.
Holds(box, c, F) == \E n \in DOMAIN box[c] : box[c][n] \in F
Carries(queues, c, F) ==
  \E d \in Clients : \E n \in DOMAIN queues[d] :
    queues[d][n].frame \in F /\ c \in SE!ToSet(queues[d][n].rest)

\* A broadcast loses nothing that is on its way, and its frame reaches, now or
\* later, every open connection it has before it.
LEMMA SendOnDelivers ==
  ASSUME NEW G, NEW f \in G, NEW to \in Seq(Clients),
         NEW queues \in [Clients -> Seq([frame: G, rest: Seq(Clients)])],
         inbox \in [Clients -> Seq(G)], SendOn(f, to, queues), NEW F
  PROVE  \A c \in Clients :
           /\ Holds(inbox, c, F) => Holds(inbox', c, F)
           /\ Carries(queues, c, F) => Carries(waiters', c, F)
           /\ f \in F /\ c \in SE!ToSet(to) /\ socket[c] = "open" =>
                Holds(inbox', c, F) \/ Carries(waiters', c, F)
<1> DEFINE open == {n \in DOMAIN to : socket[to[n]] = "open"}
<1>1. CASE open = {}
  <2>1. waiters' = queues /\ inbox' = inbox
    BY <1>1 DEF SendOn
  <2>2. \A c \in SE!ToSet(to) : socket[c] # "open"
    BY <1>1 DEF SE!ToSet
  <2> QED
    BY <2>1, <2>2
<1>2. CASE open # {}
  <2> DEFINE n == CHOOSE n \in open : \A m \in open : n <= m
             task == [frame |-> f, rest |-> SubSeq(to, n + 1, Len(to))]
             T == [frame: G, rest: Seq(Clients)]
  <2>1. /\ open \subseteq 1..Len(to) /\ Len(to) \in Nat /\ DOMAIN to = 1..Len(to)
        /\ \A k \in 1..Len(to) : to[k] \in Clients
    BY LenProperties, ElementOfSeq
  <2>2. \E k \in open : \A m \in open : k <= m
    <3>1. open \subseteq Nat
      BY <2>1
    <3> HIDE DEF open
    <3> QED
      BY <1>2, <3>1, LeastOf
  <2>3. n \in open /\ \A m \in open : n <= m
    BY <2>2
  <2>4. PICK d : d = to[n]
    OBVIOUS
  <2>5. /\ waiters' = [queues EXCEPT ![d] = Append(queues[d], task)]
        /\ inbox' = [inbox EXCEPT ![d] = Append(inbox[d], f)]
    BY <1>2, <2>4 DEF SendOn
  <2> HIDE DEF n
  <2>6. n \in 1..Len(to) /\ d \in Clients
    BY <2>1, <2>3, <2>4
  <2>7. /\ task.rest \in Seq(Clients) /\ Len(task.rest) = Len(to) - n
        /\ \A k \in 1..Len(to) - n : task.rest[k] = to[n + k]
    <3> DEFINE r == SubSeq(to, n + 1, Len(to))
    <3>1. \A k \in n + 1..Len(to) : to[k] \in Clients
      BY <2>1, <2>6
    <3>2. /\ r \in Seq(Clients)
          /\ Len(r) = IF n + 1 <= Len(to) THEN Len(to) - (n + 1) + 1 ELSE 0
          /\ \A k \in 1..Len(to) - (n + 1) + 1 : r[k] = to[(n + 1) + k - 1]
      BY <2>1, <2>6, <3>1, SubSeqProperties
    <3> HIDE DEF r
    <3>3. Len(to) - (n + 1) + 1 = Len(to) - n /\ \A k \in 1..Len(to) - n : (n + 1) + k - 1 = n + k
      BY <2>1, <2>6
    <3>4. Len(r) = Len(to) - n
      <4>1. Len(to) \in Nat /\ n \in Nat /\ n <= Len(to)
        BY <2>1, <2>6
      <4>2. n + 1 <= Len(to) \/ Len(to) - n = 0
        BY <4>1
      <4> QED
        BY <3>2, <3>3, <4>1, <4>2
    <3> QED
      BY <3>2, <3>3, <3>4 DEF r
  <2>8. \A m \in n + 1..Len(to) : to[m] \in SE!ToSet(task.rest)
    <3> TAKE m \in n + 1..Len(to)
    <3>1. m - n \in 1..Len(to) - n /\ n + (m - n) = m
      <4>1. \A L, k, i \in Nat : i \in k + 1..L => i - k \in 1..L - k /\ k + (i - k) = i
        OBVIOUS
      <4>2. Len(to) \in Nat /\ n \in Nat /\ m \in Nat
        BY <2>1, <2>6
      <4> QED
        BY <4>1, <4>2
    <3>2. m - n \in DOMAIN task.rest /\ task.rest[m - n] = to[m]
      <4>1. DOMAIN task.rest = 1..Len(to) - n
        BY <2>7, LenProperties
      <4> QED
        BY <2>7, <3>1, <4>1
    <3> QED
      BY <3>2 DEF SE!ToSet
  <2>9. task \in T /\ task.frame = f
    BY <2>7
  <2> HIDE DEF task, T
  <2>10. queues[d] \in Seq(T) /\ inbox[d] \in Seq(G)
    BY <2>6 DEF T
  <2>11. /\ DOMAIN queues[d] \subseteq DOMAIN waiters'[d]
         /\ \A k \in DOMAIN queues[d] : waiters'[d][k] = queues[d][k]
         /\ \E k \in DOMAIN waiters'[d] : waiters'[d][k] = task
    <3>1. PICK q, r : q = queues[d] /\ r = Append(q, task)
      OBVIOUS
    <3>2. /\ DOMAIN r = 1..Len(q) + 1 /\ DOMAIN q = 1..Len(q) /\ Len(q) \in Nat
          /\ \A k \in 1..Len(q) : r[k] = q[k]
          /\ r[Len(q) + 1] = task
      BY <2>9, <2>10, <3>1, Appended
    <3>3. waiters'[d] = r
      BY <2>5, <2>6, <3>1
    <3>4. DOMAIN q \subseteq DOMAIN r
      BY <3>2
    <3>5. \A k \in DOMAIN q : r[k] = q[k]
      BY <3>2
    <3>6. Len(q) + 1 \in DOMAIN r
      BY <3>2
    <3> QED
      BY <3>1, <3>2, <3>3, <3>4, <3>5, <3>6, Zenon
  <2>12. /\ DOMAIN inbox[d] \subseteq DOMAIN inbox'[d]
         /\ \A k \in DOMAIN inbox[d] : inbox'[d][k] = inbox[d][k]
         /\ \E k \in DOMAIN inbox'[d] : inbox'[d][k] = f
    <3>1. PICK q, r : q = inbox[d] /\ r = Append(q, f)
      OBVIOUS
    <3>2. /\ DOMAIN r = 1..Len(q) + 1 /\ DOMAIN q = 1..Len(q) /\ Len(q) \in Nat
          /\ \A k \in 1..Len(q) : r[k] = q[k]
          /\ r[Len(q) + 1] = f
      BY <2>10, <3>1, Appended
    <3>3. inbox'[d] = r
      BY <2>5, <2>6, <3>1
    <3> QED
      BY <3>1, <3>2, <3>3
  <2>13. \A c \in Clients \ {d} : waiters'[c] = queues[c] /\ inbox'[c] = inbox[c]
    BY <2>5
  <2>14. ASSUME NEW c \in Clients, f \in F, c \in SE!ToSet(to), socket[c] = "open"
         PROVE  Holds(inbox', c, F) \/ Carries(waiters', c, F)
    <3>1. PICK m \in 1..Len(to) : c = to[m]
      BY <2>1, <2>14 DEF SE!ToSet
    <3>2. n <= m
      BY <2>1, <2>3, <2>14, <3>1
    <3>3. CASE m = n
      BY <2>4, <2>12, <2>14, <3>1, <3>3 DEF Holds
    <3>4. CASE m # n
      <4>1. m \in n + 1..Len(to)
        BY <2>1, <2>6, <3>2, <3>4
      <4>2. c \in SE!ToSet(task.rest)
        BY <2>8, <3>1, <4>1
      <4> QED
        BY <2>6, <2>9, <2>11, <2>14, <4>2 DEF Carries
    <3> QED
      BY <3>3, <3>4
  <2>15. ASSUME NEW c \in Clients, Holds(inbox, c, F)
         PROVE  Holds(inbox', c, F)
    BY <2>12, <2>13, <2>15 DEF Holds
  <2>16. ASSUME NEW c \in Clients, Carries(queues, c, F)
         PROVE  Carries(waiters', c, F)
    <3>1. PICK e \in Clients : \E k \in DOMAIN queues[e] :
            queues[e][k].frame \in F /\ c \in SE!ToSet(queues[e][k].rest)
      BY <2>16 DEF Carries
    <3>2. PICK k \in DOMAIN queues[e] :
            queues[e][k].frame \in F /\ c \in SE!ToSet(queues[e][k].rest)
      BY <3>1
    <3>3. k \in DOMAIN waiters'[e] /\ waiters'[e][k] = queues[e][k]
      BY <2>11, <2>13, <3>1, <3>2
    <3> QED
      BY <3>1, <3>2, <3>3 DEF Carries
  <2> QED
    BY <2>14, <2>15, <2>16
<1> QED
  BY <1>1, <1>2

-----------------------------------------------------------------------------
(* Every client is told.                                                   *)

\* The frames that show order i as it is.
Showing(i) == {f \in FrameType : f.id = i /\ Shows(f, i)}

\* c has been sent the state of order i, or will be.
Told(c, i) ==
  \/ Waits(i)
  \/ \E n \in DOMAIN sleeping : sleeping[n].frame \in Showing(i)
  \/ Carries(waiters, c, Showing(i))
  \/ Holds(inbox, c, Showing(i))

Telling ==
  \A c \in Early : socket[c] # "off" /\ \A i \in orders : socket[c] = "open" => Told(c, i)

\* What a task copies when it starts is the state of the order.
LEMMA FrameShows ==
  ASSUME TypeOK, scheduled # <<>>
  PROVE  /\ Frame(Head(scheduled)) \in Showing(Head(scheduled).id)
         /\ \A i : Waits(i) => i = Head(scheduled).id \/ \E n \in DOMAIN Tail(scheduled) : Tail(scheduled)[n].id = i
<1>1. Frame(Head(scheduled)) \in FrameType
  BY FrameIsGood DEF Good
<1>2. PICK f : f = Frame(Head(scheduled))
  OBVIOUS
<1>3. f.id = Head(scheduled).id /\ f.snap = order[Head(scheduled).id]
  BY <1>2 DEF Frame
<1>4. f \in Showing(Head(scheduled).id)
  BY <1>1, <1>2, <1>3 DEF Showing, Shows
<1>5. /\ Head(scheduled) = scheduled[1]
      /\ Len(scheduled) \in Nat /\ Len(scheduled) >= 1 /\ DOMAIN scheduled = 1..Len(scheduled)
      /\ DOMAIN Tail(scheduled) = 1..Len(scheduled) - 1
      /\ \A k \in 1..Len(scheduled) - 1 : Tail(scheduled)[k] = scheduled[k + 1]
  BY Tailed DEF TypeOK
<1>6. ASSUME NEW i, Waits(i), i # Head(scheduled).id
      PROVE  \E n \in DOMAIN Tail(scheduled) : Tail(scheduled)[n].id = i
  <2>1. PICK n \in 1..Len(scheduled) : scheduled[n].id = i
    BY <1>5, <1>6 DEF Waits
  <2>2. n # 1
    BY <1>5, <1>6, <2>1
  <2>3. n - 1 \in 1..Len(scheduled) - 1 /\ (n - 1) + 1 = n
    BY <1>5, <2>2
  <2>4. Tail(scheduled)[n - 1] = scheduled[n]
    BY <1>5, <2>3
  <2> QED
    BY <1>5, <2>1, <2>3, <2>4
<1> QED
  BY <1>2, <1>4, <1>6

\* Every step of the broadcast keeps what clients have been told, or a task that
\* will tell them.
LEMMA TellingStep ==
  ASSUME Inv, HistoryStatusAgrees, UpdatesTypeOK, Telling, [UpdatesNext]_allVars
  PROVE  Telling'
<1> DEFINE T == [frame: FrameType, rest: Seq(Clients)]
           D == [frame: FrameType, delay: Delays]
<1>1. /\ waiters \in [Clients -> Seq(T)] /\ inbox \in [Clients -> Seq(FrameType)]
      /\ sleeping \in Seq(D) /\ ws_clients \in Seq(Clients)
      /\ \A c \in Clients : socket[c] = "open" => c \in SE!ToSet(ws_clients)
      /\ socket \in [Clients -> {"off", "open", "dead"}]
      /\ TypeOK /\ Early \subseteq Clients
  BY UpdatesAssumption DEF UpdatesTypeOK, Inv
<1>2. \A i : UNCHANGED order => Showing(i)' = Showing(i)
  BY DEF Showing, Shows, FrameType
<1>3. CASE Handlers /\ UNCHANGED updateVars
  <2> SUFFICES ASSUME NEW c \in Early, NEW i \in orders', socket[c] = "open"
               PROVE  Told(c, i)'
    BY <1>3 DEF Telling, updateVars
  <2>1. (Waits(i) => Waits(i)') /\ (Waits(i)' \/ Unmoved(i))
    BY <1>3, ChangesAreAnnounced
  <2>2. CASE Waits(i)'
    BY <2>2 DEF Told
  <2>3. CASE ~Waits(i)' /\ Unmoved(i)
    <3>1. Showing(i) \subseteq Showing(i)'
      BY <2>3 DEF Unmoved, Showing, Shows, FrameType, WholeModifications
    <3>2. i \in orders /\ ~Waits(i)
      BY <2>1, <2>3 DEF Unmoved
    <3>3. Told(c, i)
      BY <3>2 DEF Telling
    <3>4. \/ \E n \in DOMAIN sleeping : sleeping[n].frame \in Showing(i)
          \/ Carries(waiters, c, Showing(i)) \/ Holds(inbox, c, Showing(i))
      BY <3>2, <3>3 DEF Told
    <3>5. UNCHANGED <<sleeping, waiters, inbox>>
      BY <1>3 DEF updateVars
    <3> HIDE DEF Showing
    <3>6. CASE \E n \in DOMAIN sleeping : sleeping[n].frame \in Showing(i)
      BY <3>1, <3>5, <3>6 DEF Told
    <3>7. CASE Carries(waiters, c, Showing(i))
      <4>1. Carries(waiters', c, Showing(i)')
        BY <3>1, <3>5, <3>7 DEF Carries
      <4> QED
        BY <4>1 DEF Told
    <3>8. CASE Holds(inbox, c, Showing(i))
      <4>1. Holds(inbox', c, Showing(i)')
        BY <3>1, <3>5, <3>8 DEF Holds
      <4> QED
        BY <4>1 DEF Told
    <3> QED
      BY <3>4, <3>6, <3>7, <3>8
  <2> QED
    BY <2>1, <2>2, <2>3
<1>4. ASSUME StartUpdate
      PROVE  Telling'
  <2>1. PICK task, f : task = Head(scheduled) /\ f = Frame(task)
    OBVIOUS
  <2>2. /\ scheduled # <<>> /\ scheduled' = Tail(scheduled)
        /\ UNCHANGED <<order, orders, socket, ws_clients>>
        /\ \/ Broadcast(f) /\ UNCHANGED sleeping
           \/ sleeping' = Append(sleeping, [frame |-> f, delay |-> task.delay])
              /\ UNCHANGED <<waiters, inbox>>
    BY <1>4, <2>1 DEF StartUpdate, TakeUpdate, table
  <2>3. /\ f \in Showing(task.id) /\ f \in FrameType /\ task.delay \in Delays
        /\ \A i : Waits(i) => i = task.id \/ Waits(i)'
    <3>1. Frame(Head(scheduled)) \in Good /\ Head(scheduled).delay \in Delays
      BY <1>1, <2>2, FrameIsGood
    <3>2. f \in FrameType /\ task.delay \in Delays
      BY <2>1, <3>1 DEF Good
    <3>3. f \in Showing(task.id) /\ \A i : Waits(i) => i = task.id \/ \E n \in DOMAIN Tail(scheduled) : Tail(scheduled)[n].id = i
      BY <1>1, <2>1, <2>2, FrameShows
    <3> QED
      BY <2>2, <3>2, <3>3 DEF Waits
  <2> SUFFICES ASSUME NEW c \in Early, NEW i \in orders, socket[c] = "open"
               PROVE  Told(c, i)'
    BY <2>2 DEF Telling
  <2>4. Told(c, i) /\ c \in Clients /\ c \in SE!ToSet(ws_clients)
    BY <1>1 DEF Telling
  <2>5. PICK F : F = Showing(i)
    OBVIOUS
  <2>6. Showing(i)' = F
    BY <1>2, <2>2, <2>5
  <2>7. CASE Broadcast(f) /\ UNCHANGED sleeping
    <3>1. /\ Holds(inbox, c, F) => Holds(inbox', c, F)
          /\ Carries(waiters, c, F) => Carries(waiters', c, F)
          /\ f \in F => Holds(inbox', c, F) \/ Carries(waiters', c, F)
      BY <1>1, <2>3, <2>4, <2>7, SendOnDelivers DEF Broadcast
    <3>2. \/ f \in F \/ Waits(i)'
          \/ \E n \in DOMAIN sleeping : sleeping[n].frame \in F
          \/ Carries(waiters, c, F) \/ Holds(inbox, c, F)
      BY <2>3, <2>4, <2>5 DEF Told
    <3>3. \/ Waits(i)'
          \/ \E n \in DOMAIN sleeping' : sleeping'[n].frame \in F
          \/ Carries(waiters', c, F) \/ Holds(inbox', c, F)
      BY <2>7, <3>1, <3>2
    <3> QED
      BY <2>6, <3>3 DEF Told
  <2>8. CASE sleeping' = Append(sleeping, [frame |-> f, delay |-> task.delay])
              /\ UNCHANGED <<waiters, inbox>>
    <3>1. PICK e, s : e = [frame |-> f, delay |-> task.delay] /\ s = Append(sleeping, e)
      OBVIOUS
    <3>2. e \in D /\ e.frame = f
      BY <2>3, <3>1
    <3>3. /\ DOMAIN sleeping = 1..Len(sleeping) /\ Len(sleeping) \in Nat
          /\ DOMAIN s = 1..Len(sleeping) + 1
          /\ \A k \in 1..Len(sleeping) : s[k] = sleeping[k]
          /\ s[Len(sleeping) + 1] = e
      <4> HIDE DEF D
      <4> QED
        BY <1>1, <3>1, <3>2, Appended
    <3>4. sleeping' = s
      BY <2>8, <3>1
    <3>5. (\E n \in DOMAIN sleeping : sleeping[n].frame \in F) => \E n \in DOMAIN s : s[n].frame \in F
      BY <3>3
    <3>6. f \in F => \E n \in DOMAIN s : s[n].frame \in F
      BY <3>2, <3>3
    <3>7. \/ f \in F \/ Waits(i)'
          \/ \E n \in DOMAIN sleeping : sleeping[n].frame \in F
          \/ Carries(waiters, c, F) \/ Holds(inbox, c, F)
      BY <2>3, <2>4, <2>5 DEF Told
    <3>8. \/ Waits(i)'
          \/ \E n \in DOMAIN sleeping' : sleeping'[n].frame \in F
          \/ Carries(waiters', c, F) \/ Holds(inbox', c, F)
      BY <2>8, <3>4, <3>5, <3>6, <3>7
    <3> QED
      BY <2>6, <3>8 DEF Told
  <2> QED
    BY <2>2, <2>7, <2>8
<1>5. ASSUME NEW n \in DOMAIN sleeping, WakeUpdate(n)
      PROVE  Telling'
  <2>1. /\ Broadcast(sleeping[n].frame) /\ sleeping' = SE!RemoveAt(sleeping, n)
        /\ UNCHANGED <<order, orders, scheduled, socket, ws_clients>>
    BY <1>5 DEF WakeUpdate, vars, table
  <2>2. /\ DOMAIN sleeping' = 1..Len(sleeping) - 1
        /\ \A k \in 1..Len(sleeping) - 1 : sleeping'[k] = IF k < n THEN sleeping[k] ELSE sleeping[k + 1]
        /\ Len(sleeping) \in Nat /\ DOMAIN sleeping = 1..Len(sleeping) /\ n \in 1..Len(sleeping)
    <3> HIDE DEF D
    <3> QED
      BY <1>1, <2>1, RemovedAt, LenProperties
  <2>3. \A m \in DOMAIN sleeping : m # n => \E k \in DOMAIN sleeping' : sleeping'[k] = sleeping[m]
    <3> SUFFICES ASSUME NEW m \in 1..Len(sleeping), m # n
                 PROVE  \E k \in 1..Len(sleeping) - 1 : sleeping'[k] = sleeping[m]
      BY <2>2
    <3>1. CASE m < n
      <4>1. m \in 1..Len(sleeping) - 1
        BY <2>2, <3>1
      <4> QED
        BY <2>2, <3>1, <4>1
    <3>2. CASE m > n
      <4>1. m - 1 \in 1..Len(sleeping) - 1 /\ ~(m - 1 < n) /\ (m - 1) + 1 = m
        BY <2>2, <3>2
      <4>2. sleeping'[m - 1] = sleeping[m]
        BY <2>2, <4>1
      <4> QED
        BY <4>1, <4>2
    <3> QED
      BY <2>2, <3>1, <3>2
  <2>4. PICK f : f = sleeping[n].frame
    OBVIOUS
  <2>5. f \in FrameType
    <3>1. sleeping[n] \in D
      <4> HIDE DEF D
      <4> QED
        BY <1>1, <2>2, ElementOfSeq
    <3> QED
      BY <2>4, <3>1
  <2> SUFFICES ASSUME NEW c \in Early, NEW i \in orders, socket[c] = "open"
               PROVE  Told(c, i)'
    BY <2>1 DEF Telling
  <2>6. Told(c, i) /\ c \in Clients /\ c \in SE!ToSet(ws_clients)
    BY <1>1 DEF Telling
  <2>7. PICK F : F = Showing(i)
    OBVIOUS
  <2>8. Showing(i)' = F
    BY <1>2, <2>1, <2>7
  <2>9. /\ Holds(inbox, c, F) => Holds(inbox', c, F)
        /\ Carries(waiters, c, F) => Carries(waiters', c, F)
        /\ f \in F => Holds(inbox', c, F) \/ Carries(waiters', c, F)
    BY <1>1, <2>1, <2>4, <2>5, <2>6, SendOnDelivers DEF Broadcast
  <2>10. \/ Waits(i)
         \/ \E m \in DOMAIN sleeping : sleeping[m].frame \in F
         \/ Carries(waiters, c, F) \/ Holds(inbox, c, F)
    BY <2>6, <2>7 DEF Told
  <2>11. Waits(i) => Waits(i)'
    BY <2>1 DEF Waits
  <2>12. (\E m \in DOMAIN sleeping : sleeping[m].frame \in F) =>
           f \in F \/ \E m \in DOMAIN sleeping' : sleeping'[m].frame \in F
    BY <2>3, <2>4
  <2>13. \/ Waits(i)'
         \/ \E m \in DOMAIN sleeping' : sleeping'[m].frame \in F
         \/ Carries(waiters', c, F) \/ Holds(inbox', c, F)
    BY <2>9, <2>10, <2>11, <2>12
  <2> QED
    BY <2>8, <2>13 DEF Told
<1>6. ASSUME NEW d \in Clients, Resume(d)
      PROVE  Telling'
  <2>1. PICK task, queues : task = Head(waiters[d]) /\ queues = [waiters EXCEPT ![d] = Tail(waiters[d])]
    OBVIOUS
  <2>2. /\ waiters[d] # <<>> /\ SendOn(task.frame, task.rest, queues)
        /\ UNCHANGED <<order, orders, scheduled, sleeping, ws_clients, socket>>
    BY <1>6, <2>1 DEF Resume, vars, table
  <2>3. PICK q, r : q = waiters[d] /\ r = Tail(waiters[d])
    OBVIOUS
  <2>4. /\ task = q[1] /\ task \in T /\ r \in Seq(T)
        /\ Len(q) \in Nat /\ DOMAIN q = 1..Len(q) /\ DOMAIN r = 1..Len(q) - 1
        /\ \A k \in 1..Len(q) - 1 : r[k] = q[k + 1]
    <3>1. q \in Seq(T)
      BY <1>1, <2>3
    <3> HIDE DEF T
    <3> QED
      BY <2>1, <2>2, <2>3, <3>1, Tailed
  <2>5. queues \in [Clients -> Seq(T)] /\ queues[d] = r /\ \A e \in Clients \ {d} : queues[e] = waiters[e]
    <3> HIDE DEF T
    <3> QED
      BY <1>1, <2>1, <2>3, <2>4
  <2>6. task.frame \in FrameType /\ task.rest \in Seq(Clients)
    BY <2>4
  <2> SUFFICES ASSUME NEW c \in Early, NEW i \in orders, socket[c] = "open"
               PROVE  Told(c, i)'
    BY <2>2 DEF Telling
  <2>7. Told(c, i) /\ c \in Clients
    BY <1>1 DEF Telling
  <2>8. PICK F : F = Showing(i)
    OBVIOUS
  <2>9. Showing(i)' = F
    BY <1>2, <2>2, <2>8
  <2>10. /\ Holds(inbox, c, F) => Holds(inbox', c, F)
         /\ Carries(queues, c, F) => Carries(waiters', c, F)
         /\ task.frame \in F /\ c \in SE!ToSet(task.rest) => Holds(inbox', c, F) \/ Carries(waiters', c, F)
    BY <1>1, <2>2, <2>5, <2>6, <2>7, SendOnDelivers
  <2>11. ASSUME Carries(waiters, c, F)
         PROVE  Carries(queues, c, F) \/ (task.frame \in F /\ c \in SE!ToSet(task.rest))
    <3>1. PICK e \in Clients : \E k \in DOMAIN waiters[e] :
            waiters[e][k].frame \in F /\ c \in SE!ToSet(waiters[e][k].rest)
      BY <2>11 DEF Carries
    <3>2. PICK k \in DOMAIN waiters[e] :
            waiters[e][k].frame \in F /\ c \in SE!ToSet(waiters[e][k].rest)
      BY <3>1
    <3>3. CASE e # d
      BY <2>5, <3>1, <3>2, <3>3 DEF Carries
    <3>4. CASE e = d /\ k = 1
      BY <2>3, <2>4, <3>2, <3>4
    <3>5. CASE e = d /\ k # 1
      <4>1. k - 1 \in 1..Len(q) - 1 /\ (k - 1) + 1 = k
        BY <2>3, <2>4, <3>2, <3>5
      <4>2. k - 1 \in DOMAIN queues[d] /\ queues[d][k - 1] = waiters[d][k]
        BY <2>3, <2>4, <2>5, <4>1
      <4> QED
        BY <3>2, <3>5, <4>2 DEF Carries
    <3> QED
      BY <3>3, <3>4, <3>5
  <2>12. \/ Waits(i)
         \/ \E m \in DOMAIN sleeping : sleeping[m].frame \in F
         \/ Carries(waiters, c, F) \/ Holds(inbox, c, F)
    BY <2>7, <2>8 DEF Told
  <2>13. Waits(i) => Waits(i)'
    BY <2>2 DEF Waits
  <2>14. \/ Waits(i)'
         \/ \E m \in DOMAIN sleeping' : sleeping'[m].frame \in F
         \/ Carries(waiters', c, F) \/ Holds(inbox', c, F)
    BY <2>2, <2>10, <2>11, <2>12, <2>13
  <2> QED
    BY <2>9, <2>14 DEF Told
<1>7. CASE \/ UNCHANGED allVars
           \/ \E c \in Clients : Join(c) \/ Close(c) \/ Deregister(c)
  <2>1. UNCHANGED <<order, orders, scheduled, sleeping, waiters, inbox>>
    BY <1>7 DEF allVars, vars, table, updateVars, Join, Close, Deregister
  <2>2. \A c \in Early : socket'[c] # "off" /\ (socket'[c] = "open" => socket[c] = "open")
    BY <1>1, <1>7 DEF allVars, updateVars, Join, Close, Deregister, Telling
  <2>3. \A c, i : Told(c, i) => Told(c, i)'
    BY <1>2, <2>1 DEF Told, Waits
  <2> QED
    BY <2>1, <2>2, <2>3 DEF Telling
<1> QED
  BY <1>3, <1>4, <1>5, <1>6, <1>7 DEF UpdatesNext, Emission

\* What has been sent, or will be, is always the state of the order.
LEMMA TellingAlways == UpdatesSpec => []Telling
<1>1. UpdatesInit => Telling
  BY UpdatesAssumption DEF UpdatesInit, Init, Telling
<1>2. Inv /\ HistoryStatusAgrees /\ UpdatesTypeOK /\ Telling /\ [UpdatesNext]_allVars => Telling'
  BY TellingStep
<1>3. UpdatesSpec => []HistoryStatusAgrees
  BY TableUndisturbed, HistoryAlwaysAgrees, PTL
<1> QED
  BY <1>1, <1>2, <1>3, InvUnderUpdates, UpdatesTypeCorrect, PTL DEF UpdatesSpec

\* Whatever sockets fail and whatever the delays are set to, a client that was
\* connected all along has been sent the state of every order, once nothing is
\* on its way.
THEOREM CurrentAlwaysSent == UpdatesSpec => []CurrentStateIsSent
<1>1. Telling => CurrentStateIsSent
  <2> SUFFICES ASSUME Telling, Quiescent, NEW c \in Early, NEW i \in orders, socket[c] = "open"
               PROVE  \E n \in About(c, i) : Shows(inbox[c][n], i)
    BY DEF CurrentStateIsSent
  <2>1. Told(c, i) /\ c \in Clients
    BY UpdatesAssumption DEF Telling
  <2>2. scheduled = <<>> /\ sleeping = <<>> /\ \A d \in Clients : waiters[d] = <<>>
    BY DEF Quiescent
  <2>3. Holds(inbox, c, Showing(i))
    BY <2>1, <2>2 DEF Told, Waits, Carries
  <2> QED
    BY <2>3 DEF Holds, Showing, About
<1> QED
  BY <1>1, TellingAlways, PTL

-----------------------------------------------------------------------------
(* The order of frames, with one delay and no failing socket.              *)

\* A task that is held up at a connection.
Tasks == [frame: FrameType, rest: Seq(Clients)]

\* The places of the registered connections, and what comes after one of them.
Places == 1..Len(ws_clients)
Follow(to, p) ==
  /\ to \in Seq(Clients) /\ p + Len(to) <= Len(ws_clients)
  /\ \A j \in 1..Len(to) : to[j] = ws_clients[p + j]

\* Connections are open once they are registered, a task that waits for one
\* has those after it before it, and a task that sleeps has a delay.
Routed ==
  /\ \A c \in Clients : socket[c] # "dead"
  /\ \A c \in SE!ToSet(ws_clients) : socket[c] = "open"
  /\ \A c \in Clients \ SE!ToSet(ws_clients) : waiters[c] = <<>> /\ inbox[c] = <<>>
  /\ \A p \in Places : \A k \in DOMAIN waiters[ws_clients[p]] :
       Follow(waiters[ws_clients[p]][k].rest, p)
  /\ \A n \in DOMAIN sleeping : sleeping[n].delay > 0

\* The last of a queue is the new one.
Ends(new, old, e) ==
  /\ DOMAIN old = 1..Len(old) /\ Len(old) \in Nat /\ DOMAIN new = 1..Len(old) + 1
  /\ \A k \in 1..Len(old) : new[k] = old[k]
  /\ new[Len(old) + 1] = e

\* Frame f has gone to the connection after place p, with n more to follow.
Passed(w, p, f, n) ==
  /\ \A q \in Places \ {p + 1} : /\ waiters'[ws_clients[q]] = w[ws_clients[q]]
                                 /\ inbox'[ws_clients[q]] = inbox[ws_clients[q]]
  /\ Ends(inbox'[ws_clients[p + 1]], inbox[ws_clients[p + 1]], f)
  /\ \E t \in Tasks : /\ t.frame = f /\ Len(t.rest) = n - 1 /\ Follow(t.rest, p + 1)
                      /\ Ends(waiters'[ws_clients[p + 1]], w[ws_clients[p + 1]], t)

\* Every place is that of one registered connection.
LEMMA Registered ==
  ASSUME UpdatesTypeOK
  PROVE  /\ Len(ws_clients) \in Nat /\ DOMAIN ws_clients = Places
         /\ \A p \in Places : ws_clients[p] \in Clients /\ ws_clients[p] \in SE!ToSet(ws_clients)
         /\ \A p, q \in Places : ws_clients[p] = ws_clients[q] => p = q
         /\ \A c \in SE!ToSet(ws_clients) : \E p \in Places : c = ws_clients[p]
<1>1. Len(ws_clients) \in Nat /\ DOMAIN ws_clients = Places
  BY LenProperties DEF UpdatesTypeOK, Places
<1>2. \A p \in Places : ws_clients[p] \in Clients
  BY ElementOfSeq DEF UpdatesTypeOK, Places
<1> QED
  BY <1>1, <1>2 DEF UpdatesTypeOK, SE!IsInjective, SE!ToSet

\* A frame is sent to the next connection, and then waits there.
LEMMA SendOnPasses ==
  ASSUME UpdatesTypeOK, Routed, NEW p \in Nat, NEW to, Follow(to, p), NEW f \in FrameType,
         NEW w \in [Clients -> Seq(Tasks)], SendOn(f, to, w)
  PROVE  /\ Len(to) \in Nat /\ waiters' \in [Clients -> Seq(Tasks)]
         /\ Len(to) = 0 => waiters' = w /\ inbox' = inbox
         /\ Len(to) > 0 => p + 1 \in Places /\ Passed(w, p, f, Len(to))
         /\ \A c \in Clients \ SE!ToSet(ws_clients) : waiters'[c] = w[c] /\ inbox'[c] = inbox[c]
<1> DEFINE open == {n \in DOMAIN to : socket[to[n]] = "open"}
           d == to[1]
           t == [frame |-> f, rest |-> SubSeq(to, 2, Len(to))]
<1>1. Len(to) \in Nat /\ DOMAIN to = 1..Len(to) /\ to \in Seq(Clients)
  BY LenProperties DEF Follow
<1>2. \A k \in 1..Len(to) : to[k] \in Clients /\ p + k \in Places /\ to[k] = ws_clients[p + k]
  <2>1. \A k \in 1..Len(to) : p + k \in Places
    BY <1>1, Registered DEF Follow, Places
  <2> QED
    BY <2>1, Registered DEF Follow
<1>3. open = 1..Len(to)
  BY <1>1, <1>2, Registered DEF Routed
<1>4. CASE Len(to) = 0
  <2>1. open = {}
    BY <1>3, <1>4
  <2>2. waiters' = w /\ inbox' = inbox
    BY <2>1 DEF SendOn
  <2> QED
    BY <1>1, <1>4, <2>2
<1>5. CASE Len(to) > 0
  <2>1. open # {} /\ 1 \in 1..Len(to)
    BY <1>1, <1>3, <1>5
  <2> DEFINE n == CHOOSE n \in open : \A m \in open : n <= m
  <2>2. n = 1
    BY <1>1, <1>3, <1>5
  <2>3. waiters' = [w EXCEPT ![d] = Append(w[d], t)] /\ inbox' = [inbox EXCEPT ![d] = Append(inbox[d], f)]
    <3>1. /\ waiters' = [w EXCEPT ![to[n]] = Append(@, [frame |-> f, rest |-> SubSeq(to, n + 1, Len(to))])]
          /\ inbox' = [inbox EXCEPT ![to[n]] = Append(@, f)]
      BY <2>1 DEF SendOn
    <3> HIDE DEF n
    <3> QED
      BY <2>2, <3>1
  <2>4. d \in Clients /\ p + 1 \in Places /\ d = ws_clients[p + 1]
    BY <1>2, <2>1
  <2>5. /\ t.rest \in Seq(Clients) /\ Len(t.rest) = Len(to) - 1
        /\ \A k \in 1..Len(to) - 1 : t.rest[k] = to[k + 1]
    <3> DEFINE r == SubSeq(to, 2, Len(to))
    <3>1. 2 \in 1..Len(to) + 1
      BY <1>1, <1>5
    <3>2. /\ r \in Seq(Clients) /\ Len(r) = (Len(to) - 2) + 1
          /\ \A k \in 1..(Len(to) - 2) + 1 : r[k] = to[(2 + k) - 1]
      BY <1>1, <3>1, RestFrom, Zenon
    <3> HIDE DEF r
    <3>3. (Len(to) - 2) + 1 = Len(to) - 1 /\ \A k \in 1..Len(to) - 1 : (2 + k) - 1 = k + 1
      BY <1>1
    <3> QED
      BY <3>2, <3>3 DEF r
  <2>6. Follow(t.rest, p + 1)
    <3>1. (p + 1) + (Len(to) - 1) = p + Len(to)
      BY <1>1
    <3>2. \A j \in 1..Len(to) - 1 : j + 1 \in 1..Len(to) /\ p + (j + 1) = (p + 1) + j
      BY <1>1
    <3> QED
      BY <1>2, <2>5, <3>1, <3>2 DEF Follow
  <2>7. t \in Tasks /\ t.frame = f
    BY <2>5 DEF Tasks
  <2> HIDE DEF t, d
  <2>8. w[d] \in Seq(Tasks) /\ inbox[d] \in Seq(FrameType)
    BY <2>4 DEF UpdatesTypeOK
  <2>9. Ends(Append(w[d], t), w[d], t) /\ Ends(Append(inbox[d], f), inbox[d], f)
        /\ Append(w[d], t) \in Seq(Tasks)
    BY <2>7, <2>8, Appended DEF Ends
  <2>10. waiters'[d] = Append(w[d], t) /\ inbox'[d] = Append(inbox[d], f)
    BY <2>3, <2>4 DEF UpdatesTypeOK
  <2>11. \A c \in Clients : c # d => waiters'[c] = w[c] /\ inbox'[c] = inbox[c]
    BY <2>3 DEF UpdatesTypeOK
  <2>12. Ends(waiters'[d], w[d], t) /\ Ends(inbox'[d], inbox[d], f)
    BY <2>9, <2>10
  <2>13. \A q \in Places : q # p + 1 => ws_clients[q] # d /\ ws_clients[q] \in Clients
    BY <2>4, Registered
  <2>14. Passed(w, p, f, Len(to))
    BY <2>4, <2>5, <2>6, <2>7, <2>11, <2>12, <2>13 DEF Passed
  <2>15. waiters' \in [Clients -> Seq(Tasks)]
    BY <2>3, <2>4, <2>9
  <2>16. d \in SE!ToSet(ws_clients)
    BY <2>4, Registered
  <2> QED
    BY <1>1, <1>5, <2>4, <2>11, <2>14, <2>15, <2>16
<1> QED
  BY <1>1, <1>4, <1>5

\* The k-th task at place p will come to the connection at place r.
Comes(w, p, k, r) ==
  k \in DOMAIN w[ws_clients[p]] /\ p < r /\ r <= p + Len(w[ws_clients[p]][k].rest)
\* The frame a task carries, and which of two tasks is behind the other.
FrameAt(w, p, k) == w[ws_clients[p]][k].frame
Behind(q, l, p, k) == q < p \/ (q = p /\ l > k)

\* A task that comes to r with a frame of A that is not one of F is followed
\* there by one with a frame of F.
QueueRight(w, r, A, F) ==
  \A p \in Places, k \in Nat :
    Comes(w, p, k, r) /\ FrameAt(w, p, k) \in A \ F =>
      \E q \in Places, l \in Nat : Comes(w, q, l, r) /\ FrameAt(w, q, l) \in F /\ Behind(q, l, p, k)

\* So is one that has come.
Follows(w, box, r, F, n) ==
  \/ \E q \in Places, l \in Nat : Comes(w, q, l, r) /\ FrameAt(w, q, l) \in F
  \/ \E m \in DOMAIN box[ws_clients[r]] : m > n /\ box[ws_clients[r]][m] \in F
InboxRight(w, box, r, A, F) ==
  \A n \in DOMAIN box[ws_clients[r]] :
    box[ws_clients[r]][n] \in A \ F => Follows(w, box, r, F, n)

LineRight(w, box, r, A, F) == QueueRight(w, r, A, F) /\ InboxRight(w, box, r, A, F)

\* A frame of F, and one of no concern, may be broadcast at any time.
LEMMA BroadcastInLine ==
  ASSUME UpdatesTypeOK, Routed, NEW A, NEW F, NEW f \in FrameType, f \in A => f \in F,
         Broadcast(f), NEW r \in Places, f \in F \/ LineRight(waiters, inbox, r, A, F)
  PROVE  LineRight(waiters', inbox', r, A, F)
<1> DEFINE N == Len(ws_clients)
           d == ws_clients[1]
           K == Len(waiters[d])
           M == Len(inbox[d])
<1>1. N \in Nat /\ r \in 1..N /\ Places = 1..N /\ 1 \in Places
  BY Registered DEF Places
<1>2. Follow(ws_clients, 0)
  <2>1. \A j \in 1..N : 0 + j = j
    OBVIOUS
  <2> QED
    BY <1>1, <2>1 DEF Follow, UpdatesTypeOK
<1>3. waiters \in [Clients -> Seq(Tasks)]
  BY DEF UpdatesTypeOK, Tasks
<1>4. Passed(waiters, 0, f, N)
  BY <1>1, <1>2, <1>3, SendOnPasses DEF Broadcast
<1>5. /\ \A q \in Places : q # 1 => waiters'[ws_clients[q]] = waiters[ws_clients[q]]
                                    /\ inbox'[ws_clients[q]] = inbox[ws_clients[q]]
      /\ Ends(inbox'[d], inbox[d], f)
  BY <1>4 DEF Passed
<1>6. PICK t \in Tasks : t.frame = f /\ Len(t.rest) = N - 1 /\ Ends(waiters'[d], waiters[d], t)
  BY <1>4 DEF Passed
<1>7. /\ K \in Nat /\ DOMAIN waiters[d] = 1..K /\ DOMAIN waiters'[d] = 1..K + 1
      /\ \A k \in 1..K : waiters'[d][k] = waiters[d][k]
      /\ waiters'[d][K + 1] = t
  BY <1>6 DEF Ends
<1>8. /\ M \in Nat /\ DOMAIN inbox[d] = 1..M /\ DOMAIN inbox'[d] = 1..M + 1
      /\ \A k \in 1..M : inbox'[d][k] = inbox[d][k]
      /\ inbox'[d][M + 1] = f
  BY <1>5 DEF Ends
<1> HIDE DEF d, K, M, N
\* Old tasks stay where they were.
<1>9. \A p \in Places, k \in Nat :
        Comes(waiters, p, k, r) => Comes(waiters', p, k, r) /\ FrameAt(waiters', p, k) = FrameAt(waiters, p, k)
  <2> TAKE p \in Places, k \in Nat
  <2>1. CASE p # 1
    BY <1>5, <2>1 DEF Comes, FrameAt
  <2>2. CASE p = 1
    <3> SUFFICES ASSUME Comes(waiters, p, k, r)
                 PROVE  Comes(waiters', p, k, r) /\ FrameAt(waiters', p, k) = FrameAt(waiters, p, k)
      OBVIOUS
    <3>1. ws_clients[p] = d /\ k \in 1..K
      BY <1>7, <2>2 DEF Comes, d
    <3>2. k \in DOMAIN waiters'[d] /\ waiters'[d][k] = waiters[d][k]
      BY <1>7, <3>1
    <3> QED
      BY <3>1, <3>2 DEF Comes, FrameAt
  <2> QED
    BY <2>1, <2>2
<1>10. \A p \in Places, k \in Nat :
         Comes(waiters', p, k, r) =>
           \/ p = 1 /\ k = K + 1 /\ FrameAt(waiters', p, k) = f
           \/ /\ Comes(waiters, p, k, r) /\ FrameAt(waiters', p, k) = FrameAt(waiters, p, k)
              /\ (p = 1 => k <= K)
  <2> TAKE p \in Places, k \in Nat
  <2>1. CASE p # 1
    BY <1>5, <2>1 DEF Comes, FrameAt
  <2>2. CASE p = 1
    <3>1. Comes(waiters', p, k, r) => k \in 1..K + 1
      BY <1>7, <2>2 DEF Comes, d
    <3>2. CASE k = K + 1
      BY <1>6, <1>7, <2>2, <3>2 DEF FrameAt, d
    <3>3. CASE k \in 1..K
      BY <1>7, <2>2, <3>3 DEF Comes, FrameAt, d
    <3> QED
      BY <1>7, <3>1, <3>2, <3>3
  <2> QED
    BY <2>1, <2>2
<1>11. r # 1 => Comes(waiters', 1, K + 1, r) /\ FrameAt(waiters', 1, K + 1) = f
  BY <1>1, <1>6, <1>7 DEF Comes, FrameAt, d
<1>12. \A p \in Places : p >= 1
  BY <1>1
<1>13. QueueRight(waiters', r, A, F)
  <2> SUFFICES ASSUME NEW p \in Places, NEW k \in Nat,
                      Comes(waiters', p, k, r), FrameAt(waiters', p, k) \in A \ F
               PROVE  \E q \in Places, l \in Nat :
                        /\ Comes(waiters', q, l, r) /\ FrameAt(waiters', q, l) \in F
                        /\ Behind(q, l, p, k)
    BY DEF QueueRight
  <2>1. /\ Comes(waiters, p, k, r) /\ FrameAt(waiters, p, k) \in A \ F
        /\ (p = 1 => k <= K)
    BY <1>10
  <2>2. CASE f \in F
    <3>1. r # 1
      BY <1>1, <1>12, <2>1 DEF Comes
    <3>2. Behind(1, K + 1, p, k)
      BY <1>1, <1>7, <1>12, <2>1 DEF Behind
    <3>3. K + 1 \in Nat
      BY <1>7
    <3> QED
      BY <1>1, <1>11, <2>2, <3>1, <3>2, <3>3
  <2>3. CASE LineRight(waiters, inbox, r, A, F)
    <3>1. PICK q \in Places, l \in Nat :
            Comes(waiters, q, l, r) /\ FrameAt(waiters, q, l) \in F /\ Behind(q, l, p, k)
      BY <2>1, <2>3 DEF LineRight, QueueRight
    <3> QED
      BY <1>9, <3>1
  <2> QED
    BY <2>2, <2>3
<1>14. InboxRight(waiters', inbox', r, A, F)
  <2> DEFINE c == ws_clients[r]
  <2> SUFFICES ASSUME NEW n \in DOMAIN inbox'[c], inbox'[c][n] \in A \ F
               PROVE  Follows(waiters', inbox', r, F, n)
    BY DEF InboxRight
  <2>1. CASE r # 1 /\ f \in F
    BY <1>1, <1>7, <1>11, <2>1 DEF Follows
  <2>2. CASE r = 1 /\ f \in F
    <3>1. c = d
      BY <2>2 DEF d
    <3>2. n \in 1..M + 1 /\ n # M + 1
      BY <1>8, <2>2, <3>1
    <3>3. M + 1 \in DOMAIN inbox'[c] /\ M + 1 > n /\ inbox'[c][M + 1] \in F
      BY <1>8, <2>2, <3>1, <3>2
    <3> QED
      BY <3>3 DEF Follows
  <2>3. CASE f \notin F /\ LineRight(waiters, inbox, r, A, F)
    <3>1. n \in DOMAIN inbox[c] /\ inbox[c][n] = inbox'[c][n]
      <4>1. CASE r = 1
        <5>1. c = d
          BY <4>1 DEF d
        <5>2. n \in 1..M + 1 /\ n # M + 1
          BY <1>8, <2>3, <5>1
        <5>3. n \in 1..M
          BY <1>8, <5>2
        <5> QED
          BY <1>8, <5>1, <5>3
      <4>2. CASE r # 1
        BY <1>5, <4>2
      <4> QED
        BY <4>1, <4>2
    <3>2. Follows(waiters, inbox, r, F, n)
      BY <2>3, <3>1 DEF LineRight, InboxRight
    <3>3. CASE \E q \in Places, l \in Nat : Comes(waiters, q, l, r) /\ FrameAt(waiters, q, l) \in F
      BY <1>9, <3>3 DEF Follows
    <3>4. ASSUME NEW m \in DOMAIN inbox[c], m > n, inbox[c][m] \in F
          PROVE  Follows(waiters', inbox', r, F, n)
      <4>1. m \in DOMAIN inbox'[c] /\ inbox'[c][m] = inbox[c][m]
        BY <1>5, <1>8, <3>4 DEF d
      <4> QED
        BY <3>4, <4>1 DEF Follows
    <3> QED
      BY <3>2, <3>3, <3>4 DEF Follows
  <2> QED
    BY <2>1, <2>2, <2>3
<1> QED
  BY <1>13, <1>14 DEF LineRight

\* A task that goes on stays in its place in the line to every connection.
LEMMA ResumeInLine ==
  ASSUME UpdatesTypeOK, Routed, NEW c \in Clients, Resume(c), NEW A, NEW F,
         NEW r \in Places, LineRight(waiters, inbox, r, A, F)
  PROVE  LineRight(waiters', inbox', r, A, F)
<1>1. Len(ws_clients) \in Nat /\ Places = 1..Len(ws_clients)
  BY Registered DEF Places
<1>2. waiters \in [Clients -> Seq(Tasks)]
  BY DEF UpdatesTypeOK, Tasks
<1>3. PICK x, w, old : /\ x = Head(waiters[c]) /\ old = waiters[c]
                       /\ w = [waiters EXCEPT ![c] = Tail(old)]
  OBVIOUS
<1>4. old # <<>> /\ SendOn(x.frame, x.rest, w)
  BY <1>3 DEF Resume
<1>5. PICK o \in Places : c = ws_clients[o]
  BY <1>3, <1>4, Registered DEF Routed
<1>6. /\ x = old[1] /\ x \in Tasks /\ Tail(old) \in Seq(Tasks)
      /\ Len(old) \in Nat /\ Len(old) >= 1 /\ DOMAIN old = 1..Len(old)
      /\ DOMAIN Tail(old) = 1..Len(old) - 1
      /\ \A k \in 1..Len(old) - 1 : Tail(old)[k] = old[k + 1]
  <2>1. old \in Seq(Tasks)
    BY <1>2, <1>3
  <2> QED
    BY <1>3, <1>4, <2>1, Tailed
<1>7. /\ w \in [Clients -> Seq(Tasks)] /\ w[c] = Tail(old)
      /\ \A d \in Clients : d # c => w[d] = waiters[d]
  BY <1>2, <1>3, <1>6
<1> DEFINE L == Len(x.rest)
           e == ws_clients[o + 1]
           K == Len(waiters[e])
           M == Len(inbox[e])
<1>8. Follow(x.rest, o) /\ x.frame \in FrameType /\ o \in Nat
  <2>1. 1 \in DOMAIN waiters[ws_clients[o]] /\ x = waiters[ws_clients[o]][1]
    BY <1>3, <1>5, <1>6
  <2>2. Follow(x.rest, o)
    BY <2>1 DEF Routed
  <2> QED
    BY <1>1, <1>6, <2>2 DEF Tasks
<1>9. /\ L \in Nat
      /\ L = 0 => waiters' = w /\ inbox' = inbox
      /\ L > 0 => o + 1 \in Places /\ Passed(w, o, x.frame, L)
  BY <1>4, <1>7, <1>8, SendOnPasses
<1>10. o + L <= Len(ws_clients)
  BY <1>8 DEF Follow
<1> HIDE DEF L, e, K, M
<1>11. \A p \in Places : p # o /\ (p = o + 1 => L = 0) =>
         waiters'[ws_clients[p]] = waiters[ws_clients[p]] /\ inbox'[ws_clients[p]] = inbox[ws_clients[p]]
  <2> TAKE p \in Places
  <2> HAVE p # o /\ (p = o + 1 => L = 0)
  <2>1. ws_clients[p] # c /\ ws_clients[p] \in Clients
    BY <1>5, Registered
  <2>2. w[ws_clients[p]] = waiters[ws_clients[p]]
    BY <1>7, <2>1
  <2>3. waiters'[ws_clients[p]] = w[ws_clients[p]] /\ inbox'[ws_clients[p]] = inbox[ws_clients[p]]
    BY <1>9 DEF Passed
  <2> QED
    BY <2>2, <2>3
<1>12. waiters'[c] = Tail(old) /\ inbox'[c] = inbox[c]
  <2>1. o # o + 1
    BY <1>8
  <2> QED
    BY <1>5, <1>7, <1>9, <2>1 DEF Passed
<1>13. ASSUME L > 0
       PROVE  /\ o + 1 \in Places /\ K \in Nat /\ M \in Nat
              /\ DOMAIN waiters[e] = 1..K /\ DOMAIN waiters'[e] = 1..K + 1
              /\ \A k \in 1..K : waiters'[e][k] = waiters[e][k]
              /\ waiters'[e][K + 1].frame = x.frame /\ Len(waiters'[e][K + 1].rest) = L - 1
              /\ DOMAIN inbox[e] = 1..M /\ DOMAIN inbox'[e] = 1..M + 1
              /\ \A k \in 1..M : inbox'[e][k] = inbox[e][k]
              /\ inbox'[e][M + 1] = x.frame
  <2>1. PICK t \in Tasks : /\ t.frame = x.frame /\ Len(t.rest) = L - 1
                           /\ Ends(waiters'[e], w[e], t)
    BY <1>9, <1>13 DEF Passed, e
  <2>2. Ends(inbox'[e], inbox[e], x.frame)
    BY <1>9, <1>13 DEF Passed, e
  <2>3. w[e] = waiters[e]
    <3>1. o + 1 \in Places /\ o # o + 1
      BY <1>8, <1>9, <1>13
    <3>2. e # c /\ e \in Clients
      BY <1>5, <3>1, Registered DEF e
    <3> QED
      BY <1>7, <3>2
  <2> QED
    BY <1>9, <1>13, <2>1, <2>2, <2>3 DEF Ends, K, M
\* Where a task was, and where it is now.
<1> DEFINE Moved(p, k, q, l) ==
      \/ q = o /\ p = o /\ k = l + 1
      \/ q = o + 1 /\ l = K + 1 /\ p = o /\ k = 1 /\ L > 0
      \/ q # o /\ p = q /\ k = l /\ (q = o + 1 /\ L > 0 => l <= K)
<1>14. ASSUME NEW q \in Places, NEW l \in Nat, Comes(waiters', q, l, r)
       PROVE  \E p \in Places, k \in Nat :
                /\ Comes(waiters, p, k, r) /\ FrameAt(waiters, p, k) = FrameAt(waiters', q, l)
                /\ Moved(p, k, q, l)
  <2>1. CASE q = o
    <3>1. ws_clients[q] = c /\ l \in 1..Len(old) - 1
      BY <1>5, <1>6, <1>12, <1>14, <2>1 DEF Comes
    <3>2. l + 1 \in DOMAIN waiters[c] /\ waiters'[c][l] = waiters[c][l + 1] /\ l + 1 \in Nat
      BY <1>3, <1>6, <1>12, <3>1
    <3>3. Comes(waiters, q, l + 1, r) /\ FrameAt(waiters, q, l + 1) = FrameAt(waiters', q, l)
      BY <1>14, <3>1, <3>2 DEF Comes, FrameAt
    <3> QED
      BY <2>1, <3>2, <3>3
  <2>2. CASE q = o + 1 /\ L > 0
    <3>1. ws_clients[q] = e /\ l \in 1..K + 1
      BY <1>13, <1>14, <2>2 DEF Comes, e
    <3>2. CASE l \in 1..K
      <4>1. l \in DOMAIN waiters[e] /\ waiters'[e][l] = waiters[e][l]
        BY <1>13, <2>2, <3>2
      <4>2. Comes(waiters, q, l, r) /\ FrameAt(waiters, q, l) = FrameAt(waiters', q, l)
        BY <1>14, <3>1, <4>1 DEF Comes, FrameAt
      <4>3. Moved(q, l, q, l)
        BY <1>8, <2>2, <3>2
      <4> QED
        BY <4>2, <4>3
    <3>3. CASE l = K + 1
      <4>1. q < r /\ r <= q + (L - 1)
        BY <1>13, <1>14, <2>2, <3>1, <3>3 DEF Comes
      <4>2. o < r /\ r <= o + L
        BY <1>1, <1>8, <1>9, <2>2, <4>1
      <4>3. Comes(waiters, o, 1, r)
        BY <1>3, <1>5, <1>6, <4>2 DEF Comes, L
      <4>4. FrameAt(waiters, o, 1) = FrameAt(waiters', q, l)
        BY <1>3, <1>5, <1>6, <1>13, <2>2, <3>1, <3>3 DEF FrameAt
      <4>5. Moved(o, 1, q, l)
        BY <2>2, <3>3
      <4> QED
        BY <4>3, <4>4, <4>5
    <3> QED
      BY <1>13, <2>2, <3>1, <3>2, <3>3
  <2>3. CASE q # o /\ (q = o + 1 => L = 0)
    <3>1. Comes(waiters, q, l, r) /\ FrameAt(waiters, q, l) = FrameAt(waiters', q, l)
      BY <1>11, <1>14, <2>3 DEF Comes, FrameAt
    <3>2. Moved(q, l, q, l)
      BY <2>3
    <3> QED
      BY <3>1, <3>2
  <2> QED
    BY <1>9, <2>1, <2>2, <2>3
<1>15. ASSUME NEW p \in Places, NEW k \in Nat, Comes(waiters, p, k, r),
              r = o + 1 => ~(p = o /\ k = 1)
       PROVE  \E q \in Places, l \in Nat :
                /\ Comes(waiters', q, l, r) /\ FrameAt(waiters, p, k) = FrameAt(waiters', q, l)
                /\ Moved(p, k, q, l)
  <2>1. CASE p = o /\ k # 1
    <3>1. ws_clients[p] = c /\ k \in 1..Len(old)
      BY <1>3, <1>5, <1>6, <1>15, <2>1 DEF Comes
    <3>2. k - 1 \in 1..Len(old) - 1 /\ (k - 1) + 1 = k /\ k - 1 \in Nat
      BY <1>6, <2>1, <3>1
    <3>3. k - 1 \in DOMAIN waiters'[c] /\ waiters'[c][k - 1] = waiters[c][k]
      BY <1>3, <1>6, <1>12, <3>2
    <3>4. Comes(waiters', p, k - 1, r) /\ FrameAt(waiters, p, k) = FrameAt(waiters', p, k - 1)
      BY <1>15, <3>1, <3>3 DEF Comes, FrameAt
    <3> QED
      BY <2>1, <3>2, <3>4
  <2>2. CASE p = o /\ k = 1
    <3>1. o < r /\ r <= o + L /\ r # o + 1
      BY <1>3, <1>5, <1>6, <1>15, <2>2 DEF Comes, L
    <3>2. L > 0 /\ o + 1 < r /\ r <= (o + 1) + (L - 1)
      BY <1>1, <1>8, <1>9, <3>1
    <3>3. /\ o + 1 \in Places /\ K + 1 \in DOMAIN waiters'[e] /\ K + 1 \in Nat
          /\ waiters'[e][K + 1].frame = x.frame /\ Len(waiters'[e][K + 1].rest) = L - 1
      BY <1>13, <3>2
    <3>4. Comes(waiters', o + 1, K + 1, r)
      BY <3>2, <3>3 DEF Comes, e
    <3>5. FrameAt(waiters, p, k) = FrameAt(waiters', o + 1, K + 1)
      BY <1>3, <1>5, <1>6, <2>2, <3>3 DEF FrameAt, e
    <3>6. Moved(p, k, o + 1, K + 1)
      BY <2>2, <3>2
    <3> QED
      BY <3>3, <3>4, <3>5, <3>6
  <2>3. CASE p = o + 1 /\ L > 0
    <3>1. ws_clients[p] = e /\ k \in 1..K
      BY <1>13, <1>15, <2>3 DEF Comes, e
    <3>2. k \in DOMAIN waiters'[e] /\ waiters'[e][k] = waiters[e][k]
      BY <1>13, <2>3, <3>1
    <3>3. Comes(waiters', p, k, r) /\ FrameAt(waiters, p, k) = FrameAt(waiters', p, k)
      BY <1>15, <3>1, <3>2 DEF Comes, FrameAt
    <3>4. Moved(p, k, p, k)
      BY <1>8, <2>3, <3>1
    <3> QED
      BY <3>3, <3>4
  <2>4. CASE p # o /\ (p = o + 1 => L = 0)
    <3>1. Comes(waiters', p, k, r) /\ FrameAt(waiters, p, k) = FrameAt(waiters', p, k)
      BY <1>11, <1>15, <2>4 DEF Comes, FrameAt
    <3>2. Moved(p, k, p, k)
      BY <2>4
    <3> QED
      BY <3>1, <3>2
  <2> QED
    BY <1>9, <2>1, <2>2, <2>3, <2>4
<1>16. ASSUME NEW p \in Places, NEW k \in Nat, NEW q \in Places, NEW l \in Nat, Moved(p, k, q, l),
              NEW i \in Places, NEW m \in Nat, NEW j \in Places, NEW n \in Nat, Moved(i, m, j, n),
              Behind(i, m, p, k)
       PROVE  Behind(j, n, q, l)
  <2>1. L > 0 => K \in Nat
    BY <1>13
  <2>2. o \in Nat /\ p \in Nat /\ q \in Nat /\ i \in Nat /\ j \in Nat
    BY <1>1
  <2> QED
    BY <1>9, <1>16, <2>1, <2>2 DEF Behind
<1> HIDE DEF Moved
<1>17. ASSUME NEW q \in Places, NEW l \in Nat, Comes(waiters', q, l, r),
              FrameAt(waiters', q, l) \in A \ F
       PROVE  \E j \in Places, n \in Nat :
                Comes(waiters', j, n, r) /\ FrameAt(waiters', j, n) \in F /\ Behind(j, n, q, l)
  <2>1. PICK p \in Places, k \in Nat :
          /\ Comes(waiters, p, k, r) /\ FrameAt(waiters, p, k) = FrameAt(waiters', q, l)
          /\ Moved(p, k, q, l)
    BY <1>14, <1>17
  <2>2. PICK i \in Places, m \in Nat :
          Comes(waiters, i, m, r) /\ FrameAt(waiters, i, m) \in F /\ Behind(i, m, p, k)
    BY <1>17, <2>1 DEF LineRight, QueueRight
  <2>3. ASSUME r = o + 1, i = o, m = 1 PROVE FALSE
    <3>1. q < r /\ p < r
      BY <1>17, <2>1 DEF Comes
    <3>2. p = o /\ k < 1
      BY <1>1, <1>8, <2>2, <2>3, <3>1 DEF Behind
    <3>3. k \in DOMAIN old
      BY <1>3, <1>5, <2>1, <3>2 DEF Comes
    <3> QED
      BY <1>6, <3>2, <3>3
  <2>4. PICK j \in Places, n \in Nat :
          /\ Comes(waiters', j, n, r) /\ FrameAt(waiters, i, m) = FrameAt(waiters', j, n)
          /\ Moved(i, m, j, n)
    BY <1>15, <2>2, <2>3
  <2>5. Behind(j, n, q, l)
    BY <1>16, <2>1, <2>2, <2>4
  <2> QED
    BY <2>2, <2>4, <2>5
<1>18. QueueRight(waiters', r, A, F)
  BY <1>17 DEF QueueRight
\* What still comes, unless it is the frame that has just come.
<1>19. ASSUME NEW p \in Places, NEW k \in Nat, Comes(waiters, p, k, r), FrameAt(waiters, p, k) \in F,
              r = o + 1 => ~(p = o /\ k = 1), NEW n
       PROVE  Follows(waiters', inbox', r, F, n)
  BY <1>15, <1>19 DEF Follows
<1>20. ASSUME NEW n \in DOMAIN inbox'[ws_clients[r]], inbox'[ws_clients[r]][n] \in A \ F
       PROVE  Follows(waiters', inbox', r, F, n)
  <2>1. CASE r = o + 1 /\ L > 0
    <3>1. ws_clients[r] = e /\ n \in 1..M + 1
      BY <1>13, <1>20, <2>1 DEF e
    <3>2. CASE n = M + 1
      <4>1. Comes(waiters, o, 1, r)
        <5>1. o < r /\ r <= o + L
          BY <1>8, <1>9, <2>1
        <5> QED
          BY <1>3, <1>5, <1>6, <5>1 DEF Comes, L
      <4>2. FrameAt(waiters, o, 1) \in A \ F
        BY <1>3, <1>5, <1>6, <1>13, <1>20, <2>1, <3>1, <3>2 DEF FrameAt
      <4>3. PICK p \in Places, k \in Nat :
              Comes(waiters, p, k, r) /\ FrameAt(waiters, p, k) \in F /\ Behind(p, k, o, 1)
        BY <1>5, <4>1, <4>2 DEF LineRight, QueueRight
      <4>4. ~(p = o /\ k = 1)
        BY <1>8, <4>3 DEF Behind
      <4> QED
        BY <1>19, <4>3, <4>4
    <3>3. CASE n \in 1..M
      <4>1. n \in DOMAIN inbox[ws_clients[r]] /\ inbox[ws_clients[r]][n] \in A \ F
        BY <1>13, <1>20, <2>1, <3>1, <3>3
      <4>2. Follows(waiters, inbox, r, F, n)
        BY <4>1 DEF LineRight, InboxRight
      <4>3. ASSUME NEW m \in DOMAIN inbox[ws_clients[r]], m > n, inbox[ws_clients[r]][m] \in F
            PROVE  Follows(waiters', inbox', r, F, n)
        <5>1. m \in DOMAIN inbox'[e] /\ inbox'[e][m] = inbox[e][m]
          BY <1>13, <2>1, <3>1, <4>3
        <5> QED
          BY <3>1, <4>3, <5>1 DEF Follows
      <4>4. ASSUME NEW p \in Places, NEW k \in Nat,
                   Comes(waiters, p, k, r), FrameAt(waiters, p, k) \in F
            PROVE  Follows(waiters', inbox', r, F, n)
        <5>1. CASE p = o /\ k = 1
          <6>1. inbox'[e][M + 1] \in F
            BY <1>3, <1>5, <1>6, <1>13, <2>1, <4>4, <5>1 DEF FrameAt
          <6>2. M + 1 \in DOMAIN inbox'[e] /\ M + 1 > n
            BY <1>13, <2>1, <3>3
          <6> QED
            BY <3>1, <6>1, <6>2 DEF Follows
        <5>2. CASE ~(p = o /\ k = 1)
          BY <1>19, <4>4, <5>2
        <5> QED
          BY <5>1, <5>2
      <4> QED
        BY <4>2, <4>3, <4>4 DEF Follows
    <3> QED
      BY <1>13, <2>1, <3>1, <3>2, <3>3
  <2>2. CASE ~(r = o + 1 /\ L > 0)
    <3>1. inbox'[ws_clients[r]] = inbox[ws_clients[r]]
      <4>1. CASE r = o
        BY <1>5, <1>12, <4>1
      <4>2. CASE r # o
        <5>1. r = o + 1 => L = 0
          BY <1>9, <2>2
        <5> QED
          BY <1>11, <4>2, <5>1
      <4> QED
        BY <4>1, <4>2
    <3>2. Follows(waiters, inbox, r, F, n)
      BY <1>20, <3>1 DEF LineRight, InboxRight
    <3>3. ASSUME NEW p \in Places, NEW k \in Nat, Comes(waiters, p, k, r),
                 FrameAt(waiters, p, k) \in F
          PROVE  Follows(waiters', inbox', r, F, n)
      <4>1. r = o + 1 => ~(p = o /\ k = 1)
        <5> SUFFICES ASSUME r = o + 1, p = o, k = 1
                     PROVE  FALSE
          OBVIOUS
        <5>1. r <= o + L
          BY <1>3, <1>5, <1>6, <3>3 DEF Comes, L
        <5> QED
          BY <1>8, <1>9, <2>2, <5>1
      <4> QED
        BY <1>19, <3>3, <4>1
    <3> QED
      BY <3>1, <3>2, <3>3 DEF Follows
  <2> QED
    BY <2>1, <2>2
<1> QED
  BY <1>18, <1>20 DEF LineRight, InboxRight

\* Queues in which every task has the connections after its place before it.
Threaded(w, box) ==
  /\ \A c \in Clients \ SE!ToSet(ws_clients) : w[c] = <<>> /\ box[c] = <<>>
  /\ \A p \in Places : \A k \in DOMAIN w[ws_clients[p]] : Follow(w[ws_clients[p]][k].rest, p)

\* A frame that is sent on keeps every task on its way.
LEMMA SendOnThreads ==
  ASSUME UpdatesTypeOK, Routed, NEW o \in Nat, NEW to, Follow(to, o), NEW f \in FrameType,
         NEW w \in [Clients -> Seq(Tasks)], Threaded(w, inbox), SendOn(f, to, w)
  PROVE  Threaded(waiters', inbox')
<1>1. /\ Len(to) \in Nat
      /\ Len(to) = 0 => waiters' = w /\ inbox' = inbox
      /\ Len(to) > 0 => o + 1 \in Places /\ Passed(w, o, f, Len(to))
      /\ \A c \in Clients \ SE!ToSet(ws_clients) : waiters'[c] = w[c] /\ inbox'[c] = inbox[c]
  BY SendOnPasses
<1>2. CASE Len(to) = 0
  BY <1>1, <1>2
<1>3. CASE Len(to) > 0
  <2>1. PICK t \in Tasks : Follow(t.rest, o + 1) /\ Ends(waiters'[ws_clients[o + 1]], w[ws_clients[o + 1]], t)
    BY <1>1, <1>3 DEF Passed
  <2>2. ASSUME NEW p \in Places, NEW k \in DOMAIN waiters'[ws_clients[p]]
        PROVE  Follow(waiters'[ws_clients[p]][k].rest, p)
    <3>1. CASE p # o + 1
      <4>1. waiters'[ws_clients[p]] = w[ws_clients[p]]
        BY <1>1, <1>3, <3>1 DEF Passed
      <4> QED
        BY <2>2, <4>1 DEF Threaded
    <3>2. CASE p = o + 1
      <4>1. PICK K \in Nat : K = Len(w[ws_clients[p]])
        BY <2>1, <3>2 DEF Ends
      <4>2. /\ k \in 1..K + 1 /\ DOMAIN w[ws_clients[p]] = 1..K
            /\ \A j \in 1..K : waiters'[ws_clients[p]][j] = w[ws_clients[p]][j]
            /\ waiters'[ws_clients[p]][K + 1] = t
        BY <2>1, <2>2, <3>2, <4>1 DEF Ends
      <4>3. CASE k = K + 1
        BY <2>1, <3>2, <4>2, <4>3
      <4>4. CASE k \in 1..K
        BY <4>2, <4>4 DEF Threaded
      <4> QED
        BY <4>1, <4>2, <4>3, <4>4
    <3> QED
      BY <3>1, <3>2
  <2> QED
    BY <1>1, <2>2 DEF Threaded
<1> QED
  BY <1>1, <1>2, <1>3

\* So does one that is broadcast.
LEMMA BroadcastThreads ==
  ASSUME UpdatesTypeOK, Routed, NEW f \in FrameType, Broadcast(f)
  PROVE  Threaded(waiters', inbox')
<1>1. Follow(ws_clients, 0)
  <2>1. \A j \in 1..Len(ws_clients) : 0 + j = j
    OBVIOUS
  <2>2. Len(ws_clients) \in Nat
    BY Registered
  <2> QED
    BY <2>1, <2>2 DEF Follow, UpdatesTypeOK
<1>2. waiters \in [Clients -> Seq(Tasks)] /\ Threaded(waiters, inbox)
  BY DEF UpdatesTypeOK, Tasks, Routed, Threaded
<1> QED
  BY <1>1, <1>2, SendOnThreads DEF Broadcast

\* So does a task whose send is done.
LEMMA ResumeThreads ==
  ASSUME UpdatesTypeOK, Routed, NEW c \in Clients, Resume(c)
  PROVE  Threaded(waiters', inbox')
<1>1. PICK x, w, old : /\ x = Head(waiters[c]) /\ old = waiters[c]
                       /\ w = [waiters EXCEPT ![c] = Tail(old)]
  OBVIOUS
<1>2. old # <<>> /\ SendOn(x.frame, x.rest, w)
  BY <1>1 DEF Resume
<1>3. PICK o \in Places : c = ws_clients[o]
  BY <1>1, <1>2, Registered DEF Routed
<1>4. waiters \in [Clients -> Seq(Tasks)] /\ old \in Seq(Tasks)
  BY <1>1 DEF UpdatesTypeOK, Tasks
<1>5. /\ x = old[1] /\ x \in Tasks /\ Tail(old) \in Seq(Tasks)
      /\ Len(old) \in Nat /\ Len(old) >= 1 /\ DOMAIN old = 1..Len(old)
      /\ DOMAIN Tail(old) = 1..Len(old) - 1
      /\ \A k \in 1..Len(old) - 1 : Tail(old)[k] = old[k + 1]
  BY <1>1, <1>2, <1>4, Tailed
<1>6. /\ w \in [Clients -> Seq(Tasks)] /\ w[c] = Tail(old)
      /\ \A d \in Clients : d # c => w[d] = waiters[d]
  BY <1>1, <1>4, <1>5
<1>7. Follow(x.rest, o) /\ x.frame \in FrameType /\ o \in Nat
  <2>1. 1 \in DOMAIN waiters[ws_clients[o]] /\ x = waiters[ws_clients[o]][1]
    BY <1>1, <1>3, <1>5
  <2>2. Follow(x.rest, o)
    BY <2>1 DEF Routed
  <2>3. o \in Nat
    BY Registered DEF Places
  <2> QED
    BY <1>5, <2>2, <2>3 DEF Tasks
<1>8. Threaded(w, inbox)
  <2>1. ASSUME NEW p \in Places, NEW k \in DOMAIN w[ws_clients[p]]
        PROVE  Follow(w[ws_clients[p]][k].rest, p)
    <3>1. CASE ws_clients[p] = c
      <4>1. k \in 1..Len(old) - 1 /\ k + 1 \in 1..Len(old)
        BY <1>5, <1>6, <2>1, <3>1
      <4>2. k + 1 \in DOMAIN waiters[ws_clients[p]] /\ w[ws_clients[p]][k] = waiters[ws_clients[p]][k + 1]
        BY <1>1, <1>5, <1>6, <3>1, <4>1
      <4> QED
        BY <4>2 DEF Routed
    <3>2. CASE ws_clients[p] # c
      <4>1. w[ws_clients[p]] = waiters[ws_clients[p]]
        BY <1>6, <3>2, Registered
      <4> QED
        BY <2>1, <4>1 DEF Routed
    <3> QED
      BY <3>1, <3>2
  <2>2. c \in SE!ToSet(ws_clients)
    BY <1>3, Registered
  <2>3. \A d \in Clients \ SE!ToSet(ws_clients) : w[d] = <<>> /\ inbox[d] = <<>>
    BY <1>6, <2>2 DEF Routed
  <2> QED
    BY <2>1, <2>3 DEF Threaded
<1> QED
  BY <1>2, <1>6, <1>7, <1>8, SendOnThreads

\* Where no client leaves, tasks stay on their way.
LEMMA RoutedStep ==
  ASSUME Leavers = {}, UpdatesTypeOK, Routed, TypeOK, [UpdatesNext]_allVars
  PROVE  Routed'
<1> DEFINE D == [frame: FrameType, delay: Delays]
<1>1. ASSUME UNCHANGED <<socket, ws_clients>>, Threaded(waiters', inbox'),
             \A n \in DOMAIN sleeping' : sleeping'[n].delay > 0
      PROVE  Routed'
  <2>1. Follow(<<>>, 0)' = Follow(<<>>, 0) /\ Places' = Places
    BY <1>1 DEF Follow, Places
  <2>2. \A to, p : Follow(to, p) => (p + Len(to) <= Len(ws_clients') /\ to \in Seq(Clients)
                                     /\ \A j \in 1..Len(to) : to[j] = ws_clients'[p + j])
    BY <1>1 DEF Follow
  <2> QED
    BY <1>1, <2>1, <2>2 DEF Routed, Threaded, Follow
<1>2. Threaded(waiters, inbox)
  BY DEF Routed, Threaded
<1>3. sleeping \in Seq(D) /\ DOMAIN sleeping = 1..Len(sleeping) /\ Len(sleeping) \in Nat
      /\ \A n \in DOMAIN sleeping : sleeping[n] \in D
  <2>1. sleeping \in Seq(D)
    BY DEF UpdatesTypeOK
  <2> HIDE DEF D
  <2> QED
    BY <2>1, LenProperties, ElementOfSeq
<1>4. ASSUME StartUpdate
      PROVE  Routed'
  <2>1. PICK task, f : task = Head(scheduled) /\ f = Frame(task)
    OBVIOUS
  <2>2. /\ scheduled # <<>> /\ UNCHANGED <<socket, ws_clients>>
        /\ \/ Broadcast(f) /\ UNCHANGED sleeping
           \/ /\ task.delay > 0
              /\ sleeping' = Append(sleeping, [frame |-> f, delay |-> task.delay])
              /\ UNCHANGED <<waiters, inbox>>
    BY <1>4, <2>1 DEF StartUpdate, TakeUpdate
  <2>3. f \in FrameType /\ task.delay \in Delays
    <3>1. Frame(Head(scheduled)) \in Good /\ Head(scheduled).delay \in Delays
      BY <2>2, FrameIsGood
    <3> QED
      BY <2>1, <3>1 DEF Good
  <2>4. CASE Broadcast(f) /\ UNCHANGED sleeping
    BY <1>1, <2>2, <2>3, <2>4, BroadcastThreads DEF Routed
  <2>5. CASE /\ task.delay > 0 /\ sleeping' = Append(sleeping, [frame |-> f, delay |-> task.delay])
             /\ UNCHANGED <<waiters, inbox>>
    <3>1. PICK e, s : e = [frame |-> f, delay |-> task.delay] /\ s = Append(sleeping, e)
      OBVIOUS
    <3>2. e \in D /\ e.delay > 0
      BY <2>3, <2>5, <3>1
    <3>3. /\ DOMAIN s = 1..Len(sleeping) + 1
          /\ \A k \in 1..Len(sleeping) : s[k] = sleeping[k]
          /\ s[Len(sleeping) + 1] = e
      <4> HIDE DEF D
      <4> QED
        BY <1>3, <3>1, <3>2, Appended
    <3>4. ASSUME NEW n \in 1..Len(sleeping) + 1 PROVE s[n].delay > 0
      <4>1. n \in 1..Len(sleeping) \/ n = Len(sleeping) + 1
        BY <1>3
      <4> QED
        BY <1>3, <3>2, <3>3, <4>1 DEF Routed
    <3>5. \A n \in DOMAIN sleeping' : sleeping'[n].delay > 0
      BY <2>5, <3>1, <3>3, <3>4
    <3> QED
      BY <1>1, <1>2, <2>2, <2>5, <3>5
  <2> QED
    BY <2>2, <2>4, <2>5
<1>5. ASSUME NEW n \in DOMAIN sleeping, WakeUpdate(n)
      PROVE  Routed'
  <2>1. PICK f : f = sleeping[n].frame
    OBVIOUS
  <2>2. /\ Broadcast(f) /\ sleeping' = SE!RemoveAt(sleeping, n)
        /\ UNCHANGED <<socket, ws_clients>>
    BY <1>5, <2>1 DEF WakeUpdate
  <2>3. f \in FrameType
    BY <1>3, <2>1
  <2>4. /\ DOMAIN sleeping' = 1..Len(sleeping) - 1
        /\ \A k \in 1..Len(sleeping) - 1 : sleeping'[k] = IF k < n THEN sleeping[k] ELSE sleeping[k + 1]
    <3> HIDE DEF D
    <3> QED
      BY <1>3, <2>2, RemovedAt
  <2>5. ASSUME NEW k \in DOMAIN sleeping' PROVE sleeping'[k].delay > 0
    <3>1. k \in DOMAIN sleeping /\ k + 1 \in DOMAIN sleeping
      BY <1>3, <2>4
    <3> QED
      BY <2>4, <3>1 DEF Routed
  <2> QED
    BY <1>1, <2>2, <2>3, <2>5, BroadcastThreads
<1>6. ASSUME NEW c \in Clients, Resume(c)
      PROVE  Routed'
  <2>1. UNCHANGED <<sleeping, socket, ws_clients>>
    BY <1>6 DEF Resume
  <2> QED
    BY <1>1, <1>6, <2>1, ResumeThreads DEF Routed
<1>7. ASSUME NEW c \in Clients, Join(c)
      PROVE  Routed'
  <2>1. /\ socket[c] = "off" /\ socket' = [socket EXCEPT ![c] = "open"]
        /\ ws_clients' = Append(ws_clients, c) /\ UNCHANGED <<sleeping, waiters, inbox>>
    BY <1>7 DEF Join
  <2>2. /\ DOMAIN ws_clients = Places /\ Len(ws_clients) \in Nat
        /\ ws_clients' \in Seq(Clients) /\ Len(ws_clients') = Len(ws_clients) + 1
        /\ DOMAIN ws_clients' = 1..Len(ws_clients) + 1
        /\ \A k \in 1..Len(ws_clients) : ws_clients'[k] = ws_clients[k]
        /\ ws_clients'[Len(ws_clients) + 1] = c
    <3>1. PICK s : s = Append(ws_clients, c)
      OBVIOUS
    <3>2. ws_clients \in Seq(Clients) /\ DOMAIN ws_clients = Places /\ Len(ws_clients) \in Nat
      BY Registered DEF UpdatesTypeOK
    <3>3. /\ s \in Seq(Clients) /\ Len(s) = Len(ws_clients) + 1 /\ DOMAIN s = 1..Len(ws_clients) + 1
          /\ \A k \in 1..Len(ws_clients) : s[k] = ws_clients[k]
          /\ s[Len(ws_clients) + 1] = c
      BY <3>1, <3>2, Appended
    <3> QED
      BY <2>1, <3>1, <3>2, <3>3
  <2>3. SE!ToSet(ws_clients') = SE!ToSet(ws_clients) \cup {c}
    <3>1. \A k \in 1..Len(ws_clients) + 1 : k \in 1..Len(ws_clients) \/ k = Len(ws_clients) + 1
      BY <2>2
    <3> QED
      BY <2>2, <3>1 DEF SE!ToSet, Places
  <2>4. /\ waiters[c] = <<>>
    <3>1. c \notin SE!ToSet(ws_clients)
      BY <2>1 DEF Routed
    <3> QED
      BY <3>1 DEF Routed
  <2>5. ASSUME NEW p \in Places', NEW k \in DOMAIN waiters'[ws_clients'[p]]
        PROVE  Follow(waiters[ws_clients[p]][k].rest, p)'
    <3>1. p \in 1..Len(ws_clients) /\ ws_clients'[p] = ws_clients[p]
      <4>1. p # Len(ws_clients) + 1
        BY <2>1, <2>2, <2>4, <2>5
      <4>2. p \in 1..Len(ws_clients) + 1
        BY <2>2 DEF Places
      <4>3. p \in 1..Len(ws_clients)
        BY <2>2, <4>1, <4>2
      <4> QED
        BY <2>2, <4>3
    <3>2. PICK to : to = waiters[ws_clients[p]][k].rest
      OBVIOUS
    <3>3. Follow(to, p)
      BY <2>1, <2>5, <3>1, <3>2 DEF Routed, Places
    <3>4. Len(to) \in Nat
      BY <3>3, LenProperties DEF Follow
    <3>5. p + Len(to) <= Len(ws_clients) + 1 /\ \A j \in 1..Len(to) : p + j \in 1..Len(ws_clients)
      BY <2>2, <3>1, <3>3, <3>4 DEF Follow
    <3>6. to \in Seq(Clients) /\ p + Len(to) <= Len(ws_clients')
          /\ \A j \in 1..Len(to) : to[j] = ws_clients'[p + j]
      BY <2>2, <3>3, <3>5 DEF Follow
    <3> QED
      BY <2>1, <3>1, <3>2, <3>6 DEF Follow
  <2>6. /\ \A d \in Clients : socket'[d] # "dead"
        /\ \A d \in SE!ToSet(ws_clients') : socket'[d] = "open"
    <3>1. \A d \in Clients : socket'[d] = IF d = c THEN "open" ELSE socket[d]
      BY <2>1 DEF UpdatesTypeOK
    <3>2. SE!ToSet(ws_clients) \subseteq Clients
      BY Registered
    <3> QED
      BY <2>3, <3>1, <3>2 DEF Routed
  <2>7. \A d \in Clients \ SE!ToSet(ws_clients') : waiters'[d] = <<>> /\ inbox'[d] = <<>>
    BY <2>1, <2>3 DEF Routed
  <2>8. \A n \in DOMAIN sleeping' : sleeping'[n].delay > 0
    BY <2>1 DEF Routed
  <2>9. \A p \in Places' : \A k \in DOMAIN waiters'[ws_clients'[p]] :
          Follow(waiters[ws_clients[p]][k].rest, p)'
    BY <2>5
  <2> QED
    BY <2>6, <2>7, <2>8, <2>9 DEF Routed
<1>8. ASSUME NEW c \in Clients, Close(c) \/ Deregister(c)
      PROVE  Routed'
  BY <1>8 DEF Close, Deregister, Routed
<1>9. CASE UNCHANGED updateVars
  BY <1>1, <1>2, <1>9 DEF updateVars, Routed
<1> QED
  BY <1>4, <1>5, <1>6, <1>7, <1>8, <1>9 DEF UpdatesNext, Emission, allVars

\* The frames about order i, whether or not they are still true.
FramesAbout(i) == {f \in FrameType : f.id = i}

\* A task that sleeps with a frame that is no longer true is followed by one
\* whose frame is.
AwakesRight(A, F) ==
  \A n \in DOMAIN sleeping :
    sleeping[n].frame \in A \ F => \E m \in DOMAIN sleeping : m > n /\ sleeping[m].frame \in F
Sleeps(F) == \E n \in DOMAIN sleeping : sleeping[n].frame \in F

\* Wherever the newest frames about order i are, the last is true of it.
InLine(i) ==
  /\ AwakesRight(FramesAbout(i), Showing(i))
  /\ \/ Sleeps(Showing(i))
     \/ \A r \in Places : LineRight(waiters, inbox, r, FramesAbout(i), Showing(i))

\* An order of the table waits for its task, or its frames are in line.
InOrder == \A i \in orders : Waits(i) \/ InLine(i)

\* The update delay is never set to another value.
DelaysAgree == \A d, e \in Delays : d = e

\* A handler either leaves an order as it was told or creates a task for it.
LEMMA InOrderHandlers ==
  ASSUME Inv, HistoryStatusAgrees, InOrder, Handlers, UNCHANGED updateVars
  PROVE  InOrder'
<1> SUFFICES ASSUME NEW i \in orders', ~Waits(i)'
             PROVE  InLine(i)'
  BY DEF InOrder
<1>1. Unmoved(i) /\ ~Waits(i)
  BY ChangesAreAnnounced
<1>2. InLine(i)
  BY <1>1 DEF Unmoved, InOrder
<1>3. FramesAbout(i)' = FramesAbout(i) /\ Showing(i)' = Showing(i)
  BY <1>1 DEF Unmoved, FramesAbout, Showing, Shows, FrameType, WholeModifications
<1>4. ASSUME NEW r \in Places
      PROVE  LineRight(waiters, inbox, r, FramesAbout(i), Showing(i))'
               = LineRight(waiters, inbox, r, FramesAbout(i), Showing(i))
  BY <1>3 DEF updateVars, LineRight, QueueRight, InboxRight, Follows, Comes, FrameAt, Places
<1>5. Places' = Places
  BY DEF updateVars, Places
<1>6. (AwakesRight(FramesAbout(i), Showing(i)))' /\ (Sleeps(Showing(i))' = Sleeps(Showing(i)))
  BY <1>2, <1>3 DEF InLine, updateVars, AwakesRight, Sleeps
<1> QED
  BY <1>2, <1>4, <1>5, <1>6 DEF InLine

\* The line after a step of a task.
LEMMA InLineAfter ==
  ASSUME UNCHANGED <<order, ws_clients>>, NEW i,
         \A n \in DOMAIN sleeping' :
           sleeping'[n].frame \in FramesAbout(i) \ Showing(i) =>
             \E m \in DOMAIN sleeping' : m > n /\ sleeping'[m].frame \in Showing(i),
         \/ \E n \in DOMAIN sleeping' : sleeping'[n].frame \in Showing(i)
         \/ \A r \in Places : LineRight(waiters', inbox', r, FramesAbout(i), Showing(i))
  PROVE  InLine(i)'
<1>1. FramesAbout(i)' = FramesAbout(i) /\ Showing(i)' = Showing(i) /\ Places' = Places
  BY DEF FramesAbout, Showing, Shows, FrameType, Places
<1>2. AwakesRight(FramesAbout(i), Showing(i))'
  BY <1>1 DEF AwakesRight
<1>3. CASE \E n \in DOMAIN sleeping' : sleeping'[n].frame \in Showing(i)
  <2>1. Sleeps(Showing(i))'
    BY <1>1, <1>3 DEF Sleeps
  <2> QED
    BY <1>2, <2>1 DEF InLine
<1>4. CASE \A r \in Places : LineRight(waiters', inbox', r, FramesAbout(i), Showing(i))
  <2>1. ASSUME NEW r \in Places
        PROVE  LineRight(waiters, inbox, r, FramesAbout(i), Showing(i))'
    <3>1. LineRight(waiters', inbox', r, FramesAbout(i), Showing(i))
      BY <1>4
    <3> QED
      BY <1>1, <3>1 DEF LineRight, QueueRight, InboxRight, Follows, Comes, FrameAt, Places
  <2> QED
    BY <1>1, <1>2, <2>1 DEF InLine
<1> QED
  BY <1>3, <1>4

\* A task that starts copies the order as it is, behind every frame about it.
LEMMA InOrderStart ==
  ASSUME DelaysAgree, TypeOK, UpdatesTypeOK, Routed, InOrder, StartUpdate
  PROVE  InOrder'
<1>1. PICK task, f : task = Head(scheduled) /\ f = Frame(task)
  OBVIOUS
<1>2. /\ scheduled # <<>> /\ scheduled' = Tail(scheduled)
      /\ UNCHANGED <<order, orders, socket, ws_clients>>
      /\ \/ task.delay = 0 /\ Broadcast(f) /\ UNCHANGED sleeping
         \/ /\ sleeping' = Append(sleeping, [frame |-> f, delay |-> task.delay])
            /\ UNCHANGED <<waiters, inbox>>
  BY <1>1 DEF StartUpdate, TakeUpdate, table
<1>3. /\ f \in Showing(task.id) /\ f \in FrameType /\ f.id = task.id /\ task.delay \in Delays
      /\ \A i : Waits(i) => i = task.id \/ Waits(i)'
  <2>1. Frame(Head(scheduled)) \in Good /\ Head(scheduled).delay \in Delays
    BY <1>2, FrameIsGood
  <2>2. f \in FrameType /\ task.delay \in Delays
    BY <1>1, <2>1 DEF Good
  <2>3. f \in Showing(task.id)
        /\ \A i : Waits(i) => i = task.id \/ \E n \in DOMAIN Tail(scheduled) : Tail(scheduled)[n].id = i
    BY <1>1, <1>2, FrameShows
  <2> QED
    BY <1>2, <2>2, <2>3 DEF Waits, Showing
<1> SUFFICES ASSUME NEW i \in orders, ~Waits(i)'
             PROVE  InLine(i)'
  BY <1>2 DEF InOrder
<1>4. PICK A, F : A = FramesAbout(i) /\ F = Showing(i)
  OBVIOUS
<1>5. f \in F \/ (f \notin A /\ InLine(i))
  <2>1. CASE i = task.id
    BY <1>3, <1>4, <2>1
  <2>2. CASE i # task.id
    BY <1>3, <1>4, <2>2 DEF FramesAbout, InOrder
  <2> QED
    BY <2>1, <2>2
<1>6. CASE task.delay = 0 /\ Broadcast(f) /\ UNCHANGED sleeping
  <2>1. sleeping = <<>>
    <3>1. sleeping \in Seq([frame: FrameType, delay: Delays])
      BY DEF UpdatesTypeOK
    <3>2. ASSUME NEW n \in DOMAIN sleeping PROVE FALSE
      <4>1. sleeping[n] \in [frame: FrameType, delay: Delays]
        BY <3>1, <3>2, LenProperties, ElementOfSeq
      <4>2. sleeping[n].delay \in Delays /\ sleeping[n].delay > 0
        BY <4>1 DEF Routed
      <4> QED
        BY <1>3, <1>6, <4>2 DEF DelaysAgree
    <3>3. DOMAIN sleeping = 1..Len(sleeping) /\ Len(sleeping) \in Nat
      BY <3>1, LenProperties
    <3>4. Len(sleeping) = 0
      <4>1. Len(sleeping) > 0 => 1 \in DOMAIN sleeping
        BY <3>3
      <4> QED
        BY <3>2, <3>3, <4>1
    <3> QED
      BY <3>1, <3>4, EmptySeq
  <2>2. DOMAIN sleeping = {}
    BY <2>1
  <2>3. ASSUME NEW r \in Places
        PROVE  LineRight(waiters', inbox', r, A, F)
    <3>1. f \in F \/ LineRight(waiters, inbox, r, A, F)
      BY <1>4, <1>5, <2>2, <2>3 DEF InLine, Sleeps
    <3>2. f \in A => f \in F
      BY <1>5
    <3> QED
      BY <1>3, <1>6, <2>3, <3>1, <3>2, BroadcastInLine
  <2> QED
    BY <1>2, <1>4, <1>6, <2>2, <2>3, InLineAfter
<1>7. CASE sleeping' = Append(sleeping, [frame |-> f, delay |-> task.delay])
           /\ UNCHANGED <<waiters, inbox>>
  <2>1. PICK e, s, N : /\ e = [frame |-> f, delay |-> task.delay] /\ s = Append(sleeping, e)
                       /\ N = Len(sleeping)
    OBVIOUS
  <2>2. e.frame = f /\ sleeping' = s
    BY <1>7, <2>1
  <2>3. /\ N \in Nat /\ DOMAIN sleeping = 1..N /\ DOMAIN s = 1..N + 1
        /\ \A k \in 1..N : s[k] = sleeping[k]
        /\ s[N + 1] = e
    <3>1. sleeping \in Seq([frame: FrameType, delay: Delays]) /\ e \in [frame: FrameType, delay: Delays]
      BY <1>3, <2>1 DEF UpdatesTypeOK
    <3> QED
      BY <2>1, <3>1, Appended
  <2>4. ASSUME NEW n \in DOMAIN s, s[n].frame \in A \ F
        PROVE  \E m \in DOMAIN s : m > n /\ s[m].frame \in F
    <3>1. n \in 1..N
      <4>1. n # N + 1
        BY <1>5, <2>2, <2>3, <2>4
      <4> QED
        BY <2>3, <2>4, <4>1
    <3>2. CASE f \in F
      <4>1. N + 1 \in DOMAIN s /\ N + 1 > n /\ s[N + 1].frame \in F
        BY <2>2, <2>3, <3>1, <3>2
      <4> QED
        BY <4>1
    <3>3. CASE InLine(i)
      <4>1. AwakesRight(A, F)
        BY <1>4, <3>3 DEF InLine
      <4>2. n \in DOMAIN sleeping /\ sleeping[n].frame \in A \ F
        BY <2>3, <2>4, <3>1
      <4>3. PICK m \in DOMAIN sleeping : m > n /\ sleeping[m].frame \in F
        BY <4>1, <4>2 DEF AwakesRight
      <4>4. m \in DOMAIN s /\ s[m].frame \in F
        BY <2>3, <4>3
      <4> QED
        BY <4>3, <4>4
    <3> QED
      BY <1>5, <3>2, <3>3
  <2>5. \/ \E n \in DOMAIN s : s[n].frame \in F
        \/ \A r \in Places : LineRight(waiters', inbox', r, A, F)
    <3>1. CASE f \in F
      <4>1. N + 1 \in DOMAIN s /\ s[N + 1].frame \in F
        BY <2>2, <2>3, <3>1
      <4> QED
        BY <4>1
    <3>2. CASE Sleeps(F)
      <4>1. PICK n \in DOMAIN sleeping : sleeping[n].frame \in F
        BY <3>2 DEF Sleeps
      <4>2. n \in DOMAIN s /\ s[n].frame \in F
        BY <2>3, <4>1
      <4> QED
        BY <4>2
    <3>3. CASE \A r \in Places : LineRight(waiters, inbox, r, A, F)
      BY <1>7, <3>3
    <3> QED
      BY <1>4, <1>5, <3>1, <3>2, <3>3 DEF InLine
  <2>6. \A n \in DOMAIN sleeping' :
          sleeping'[n].frame \in A \ F =>
            \E m \in DOMAIN sleeping' : m > n /\ sleeping'[m].frame \in F
    BY <2>2, <2>4
  <2>7. \/ \E n \in DOMAIN sleeping' : sleeping'[n].frame \in F
        \/ \A r \in Places : LineRight(waiters', inbox', r, A, F)
    BY <2>2, <2>5
  <2> QED
    BY <1>2, <1>4, <2>6, <2>7, InLineAfter
<1> QED
  BY <1>2, <1>6, <1>7

\* With one delay the task that wakes is the one that has slept longest.
LEMMA InOrderWake ==
  ASSUME DelaysAgree, UpdatesTypeOK, Routed, InOrder, NEW n \in DOMAIN sleeping, WakeUpdate(n)
  PROVE  InOrder'
<1> DEFINE D == [frame: FrameType, delay: Delays]
<1>1. PICK f, N : f = sleeping[1].frame /\ N = Len(sleeping)
  OBVIOUS
<1>2. /\ sleeping \in Seq(D) /\ N \in Nat /\ DOMAIN sleeping = 1..N
      /\ \A k \in 1..N : sleeping[k] \in D
  <2>1. sleeping \in Seq(D)
    BY DEF UpdatesTypeOK
  <2> HIDE DEF D
  <2> QED
    BY <1>1, <2>1, LenProperties, ElementOfSeq
<1>3. n = 1
  <2> SUFFICES ASSUME n # 1
               PROVE  FALSE
    OBVIOUS
  <2>1. n \in 1..N /\ 1 \in 1..(n - 1) /\ 1 \in 1..N
    BY <1>2
  <2>2. sleeping[1].delay > sleeping[n].delay
    BY <2>1 DEF WakeUpdate, Due
  <2>3. sleeping[1].delay \in Delays /\ sleeping[n].delay \in Delays
    BY <1>2, <2>1
  <2>4. sleeping[1].delay = sleeping[n].delay /\ sleeping[n].delay \in Nat
    BY <2>3, OrdersAssumption DEF DelaysAgree
  <2> QED
    BY <2>2, <2>4
<1>4. /\ Broadcast(f) /\ sleeping' = SE!RemoveAt(sleeping, 1)
      /\ UNCHANGED <<order, orders, scheduled, socket, ws_clients>>
  BY <1>1, <1>3 DEF WakeUpdate, vars, table
<1>5. 1 \in 1..N /\ f \in FrameType
  BY <1>1, <1>2, <1>3
<1>6. DOMAIN sleeping' = 1..N - 1 /\ \A k \in 1..N - 1 : sleeping'[k] = sleeping[k + 1]
  <2>1. /\ DOMAIN sleeping' = 1..N - 1
        /\ \A k \in 1..N - 1 : sleeping'[k] = IF k < 1 THEN sleeping[k] ELSE sleeping[k + 1]
    <3> HIDE DEF D
    <3> QED
      BY <1>1, <1>2, <1>4, <1>5, RemovedAt
  <2> QED
    BY <1>2, <2>1
<1> SUFFICES ASSUME NEW i \in orders, ~Waits(i)'
             PROVE  InLine(i)'
  BY <1>4 DEF InOrder
<1>7. PICK A, F : A = FramesAbout(i) /\ F = Showing(i)
  OBVIOUS
<1>8. InLine(i)
  BY <1>4 DEF InOrder, Waits
<1>9. AwakesRight(A, F)
  BY <1>7, <1>8 DEF InLine
\* Where those that sleep on are now.
<1>10. ASSUME NEW m \in DOMAIN sleeping, m # 1
       PROVE  m - 1 \in DOMAIN sleeping' /\ sleeping'[m - 1] = sleeping[m]
  <2>1. m - 1 \in 1..N - 1 /\ (m - 1) + 1 = m
    BY <1>2, <1>10
  <2> QED
    BY <1>6, <2>1
<1>11. ASSUME NEW k \in DOMAIN sleeping', sleeping'[k].frame \in A \ F
       PROVE  \E m \in DOMAIN sleeping' : m > k /\ sleeping'[m].frame \in F
  <2>1. k \in 1..N - 1 /\ k + 1 \in DOMAIN sleeping /\ sleeping[k + 1].frame \in A \ F
    BY <1>2, <1>6, <1>11
  <2>2. PICK m \in DOMAIN sleeping : m > k + 1 /\ sleeping[m].frame \in F
    BY <1>9, <2>1 DEF AwakesRight
  <2>3. m # 1 /\ m - 1 > k
    BY <1>2, <2>1, <2>2
  <2> QED
    BY <1>10, <2>2, <2>3
<1>12. ASSUME ~\E k \in DOMAIN sleeping' : sleeping'[k].frame \in F, NEW r \in Places
       PROVE  LineRight(waiters', inbox', r, A, F)
  <2>1. \A m \in DOMAIN sleeping : m # 1 => sleeping[m].frame \notin F
    BY <1>10, <1>12
  <2>2. f \in A => f \in F
    <3> SUFFICES ASSUME f \in A \ F
                 PROVE  FALSE
      OBVIOUS
    <3>1. PICK m \in DOMAIN sleeping : m > 1 /\ sleeping[m].frame \in F
      BY <1>1, <1>2, <1>5, <1>9 DEF AwakesRight
    <3> QED
      BY <2>1, <3>1
  <2>3. f \in F \/ LineRight(waiters, inbox, r, A, F)
    <3> SUFFICES ASSUME f \notin F
                 PROVE  LineRight(waiters, inbox, r, A, F)
      OBVIOUS
    <3>1. ~Sleeps(F)
      BY <1>1, <2>1 DEF Sleeps
    <3> QED
      BY <1>7, <1>8, <1>12, <3>1 DEF InLine
  <2> QED
    BY <1>4, <1>5, <1>12, <2>2, <2>3, BroadcastInLine
<1> QED
  BY <1>4, <1>7, <1>11, <1>12, InLineAfter

\* A task that goes on does not overtake another.
LEMMA InOrderResume ==
  ASSUME UpdatesTypeOK, Routed, InOrder, NEW c \in Clients, Resume(c)
  PROVE  InOrder'
<1>1. UNCHANGED <<order, orders, scheduled, sleeping, ws_clients>>
  BY DEF Resume, vars, table
<1> SUFFICES ASSUME NEW i \in orders, ~Waits(i)'
             PROVE  InLine(i)'
  BY <1>1 DEF InOrder
<1>2. InLine(i)
  BY <1>1 DEF InOrder, Waits
<1>3. \A n \in DOMAIN sleeping' :
        sleeping'[n].frame \in FramesAbout(i) \ Showing(i) =>
          \E m \in DOMAIN sleeping' : m > n /\ sleeping'[m].frame \in Showing(i)
  BY <1>1, <1>2 DEF InLine, AwakesRight
<1>4. CASE Sleeps(Showing(i))
  BY <1>1, <1>3, <1>4, InLineAfter DEF Sleeps
<1>5. CASE \A r \in Places : LineRight(waiters, inbox, r, FramesAbout(i), Showing(i))
  <2>1. \A r \in Places : LineRight(waiters', inbox', r, FramesAbout(i), Showing(i))
    BY <1>5, ResumeInLine
  <2> QED
    BY <1>1, <1>3, <2>1, InLineAfter
<1> QED
  BY <1>2, <1>4, <1>5 DEF InLine

\* A client that joins has been sent nothing, and takes the last place.
LEMMA InOrderJoin ==
  ASSUME UpdatesTypeOK, Routed, InOrder, NEW c \in Clients, Join(c)
  PROVE  InOrder'
<1>1. /\ UNCHANGED <<order, orders, scheduled, sleeping, waiters, inbox>>
      /\ socket[c] = "off" /\ ws_clients' = Append(ws_clients, c)
  BY DEF Join, vars, table
<1>2. c \notin SE!ToSet(ws_clients) /\ waiters[c] = <<>> /\ inbox[c] = <<>>
  <2>1. c \notin SE!ToSet(ws_clients)
    BY <1>1 DEF Routed
  <2> QED
    BY <2>1 DEF Routed
<1>3. PICK N : N = Len(ws_clients)
  OBVIOUS
<1>4. /\ N \in Nat /\ Places = 1..N /\ Places' = 1..N + 1
      /\ \A p \in 1..N : ws_clients'[p] = ws_clients[p]
      /\ ws_clients'[N + 1] = c
  <2>1. PICK s : s = Append(ws_clients, c)
    OBVIOUS
  <2>2. N \in Nat /\ Len(s) = N + 1 /\ (\A k \in 1..N : s[k] = ws_clients[k]) /\ s[N + 1] = c
    BY <1>3, <2>1, Appended DEF UpdatesTypeOK
  <2> QED
    BY <1>1, <1>3, <2>1, <2>2 DEF Places
<1> SUFFICES ASSUME NEW i \in orders, ~Waits(i)'
             PROVE  InLine(i)'
  BY <1>1 DEF InOrder
<1>5. InLine(i)
  BY <1>1 DEF InOrder, Waits
<1>6. FramesAbout(i)' = FramesAbout(i) /\ Showing(i)' = Showing(i)
  BY <1>1 DEF FramesAbout, Showing, Shows, FrameType
<1>7. PICK A, F : A = FramesAbout(i) /\ F = Showing(i)
  OBVIOUS
<1>8. AwakesRight(A, F)' /\ (Sleeps(F) => Sleeps(F)')
  BY <1>1, <1>5, <1>7 DEF InLine, AwakesRight, Sleeps
<1>9. AwakesRight(FramesAbout(i), Showing(i))' /\ (Sleeps(Showing(i)) => Sleeps(Showing(i))')
  BY <1>6, <1>7, <1>8 DEF AwakesRight, Sleeps
<1>10. CASE Sleeps(Showing(i))
  BY <1>9, <1>10 DEF InLine
<1>11. CASE \A r \in Places : LineRight(waiters, inbox, r, A, F)
  \* What comes to a place is what came to it before.
  <2>1. ASSUME NEW p \in Places', NEW k \in Nat, NEW r \in Places'
        PROVE  /\ Comes(waiters, p, k, r)' => p \in Places /\ r \in Places /\ Comes(waiters, p, k, r)
               /\ p \in Places => FrameAt(waiters, p, k)' = FrameAt(waiters, p, k)
               /\ p \in Places /\ Comes(waiters, p, k, r) => Comes(waiters, p, k, r)'
    <3>1. CASE p = N + 1
      <4>1. waiters'[ws_clients'[p]] = <<>>
        BY <1>1, <1>2, <1>4, <3>1
      <4>2. p \notin Places
        BY <1>4, <3>1
      <4> QED
        BY <4>1, <4>2 DEF Comes
    <3>2. CASE p # N + 1
      <4>1. p \in Places /\ ws_clients'[p] = ws_clients[p]
        BY <1>4, <3>2
      <4>2. Comes(waiters, p, k, r)' = Comes(waiters, p, k, r) /\ FrameAt(waiters, p, k)' = FrameAt(waiters, p, k)
        BY <1>1, <4>1 DEF Comes, FrameAt
      <4>3. Comes(waiters, p, k, r) => r \in Places
        <5> SUFFICES ASSUME Comes(waiters, p, k, r)
                     PROVE  r \in Places
          OBVIOUS
        <5>1. Follow(waiters[ws_clients[p]][k].rest, p)
          BY <4>1 DEF Routed, Comes
        <5>2. r <= N
          <6>1. PICK L \in Nat : L = Len(waiters[ws_clients[p]][k].rest)
            BY <5>1, LenProperties DEF Follow
          <6>2. p + L <= N /\ r <= p + L
            BY <1>3, <5>1, <6>1 DEF Follow, Comes
          <6> QED
            BY <1>4, <4>1, <6>1, <6>2
        <5> QED
          BY <1>4, <5>2
      <4> QED
        BY <4>1, <4>2, <4>3
    <3> QED
      BY <3>1, <3>2
  <2>2. ASSUME NEW r \in Places'
        PROVE  LineRight(waiters, inbox, r, A, F)'
    <3>1. ASSUME NEW p \in Places', NEW k \in Nat, Comes(waiters, p, k, r)', FrameAt(waiters, p, k)' \in A \ F
          PROVE  \E q \in Places', l \in Nat :
                   Comes(waiters, q, l, r)' /\ FrameAt(waiters, q, l)' \in F /\ Behind(q, l, p, k)
      <4>1. p \in Places /\ r \in Places /\ Comes(waiters, p, k, r) /\ FrameAt(waiters, p, k) \in A \ F
        BY <2>1, <2>2, <3>1
      <4>2. PICK q \in Places, l \in Nat :
              Comes(waiters, q, l, r) /\ FrameAt(waiters, q, l) \in F /\ Behind(q, l, p, k)
        BY <1>11, <4>1 DEF LineRight, QueueRight
      <4>3. q \in Places'
        BY <1>4, <4>2
      <4> QED
        BY <2>1, <2>2, <4>2, <4>3
    <3>2. ASSUME NEW n \in DOMAIN inbox'[ws_clients'[r]], inbox'[ws_clients'[r]][n] \in A \ F
          PROVE  Follows(waiters, inbox, r, F, n)'
      <4>1. r \in Places /\ ws_clients'[r] = ws_clients[r]
        <5>1. r # N + 1
          <6>1. SUFFICES ASSUME r = N + 1
                         PROVE  FALSE
            OBVIOUS
          <6>2. inbox'[ws_clients'[r]] = <<>>
            BY <1>1, <1>2, <1>4, <6>1
          <6>3. DOMAIN inbox'[ws_clients'[r]] = 1..0
            BY <6>2
          <6> QED
            BY <3>2, <6>3
        <5> QED
          BY <1>4, <2>2, <5>1
      <4>2. Follows(waiters, inbox, r, F, n)
        BY <1>1, <1>11, <3>2, <4>1 DEF LineRight, InboxRight
      <4>3. ASSUME NEW q \in Places, NEW l \in Nat, Comes(waiters, q, l, r), FrameAt(waiters, q, l) \in F
            PROVE  Follows(waiters, inbox, r, F, n)'
        <5>1. q \in Places'
          BY <1>4, <4>3
        <5>2. Comes(waiters, q, l, r)' /\ FrameAt(waiters, q, l)' \in F
          BY <2>1, <2>2, <4>3, <5>1
        <5> QED
          BY <5>1, <5>2 DEF Follows
      <4>4. ASSUME NEW m \in DOMAIN inbox[ws_clients[r]], m > n, inbox[ws_clients[r]][m] \in F
            PROVE  Follows(waiters, inbox, r, F, n)'
        BY <1>1, <4>1, <4>4 DEF Follows
      <4> QED
        BY <4>2, <4>3, <4>4 DEF Follows
    <3>3. QueueRight(waiters, r, A, F)'
      BY <3>1 DEF QueueRight, Behind
    <3>4. InboxRight(waiters, inbox, r, A, F)'
      BY <3>2 DEF InboxRight
    <3> QED
      BY <3>3, <3>4 DEF LineRight
  <2>3. ASSUME NEW r \in Places'
        PROVE  LineRight(waiters, inbox, r, FramesAbout(i), Showing(i))'
    <3>1. LineRight(waiters, inbox, r, A, F)'
      BY <2>2, <2>3
    <3> QED
      BY <1>6, <1>7, <3>1 DEF LineRight, QueueRight, InboxRight, Follows, Comes, FrameAt, Places
  <2> QED
    BY <1>9, <2>3 DEF InLine
<1> QED
  BY <1>5, <1>7, <1>10, <1>11 DEF InLine

\* Every step keeps the frames about every order in line.
LEMMA InOrderStep ==
  ASSUME DelaysAgree, Leavers = {}, Inv, HistoryStatusAgrees, UpdatesTypeOK, Routed, InOrder,
         [UpdatesNext]_allVars
  PROVE  InOrder'
<1>1. CASE UNCHANGED allVars
  <2>1. \A i : Waits(i)' = Waits(i) /\ InLine(i)' = InLine(i)
    BY <1>1 DEF allVars, vars, table, updateVars, Waits, InLine, AwakesRight, Sleeps, FramesAbout,
                Showing, Shows, Places, LineRight, QueueRight, InboxRight, Follows, Comes, FrameAt
  <2> QED
    BY <1>1, <2>1 DEF InOrder, allVars, vars, table
<1>2. ASSUME NEW c \in Clients, Close(c) \/ Deregister(c)
      PROVE  FALSE
  BY <1>2 DEF Close, Deregister, Routed
<1>3. TypeOK
  BY DEF Inv
<1> QED
  BY <1>1, <1>2, <1>3, InOrderHandlers, InOrderStart, InOrderWake, InOrderResume, InOrderJoin
  DEF UpdatesNext, Emission

\* With one update delay and no socket that fails, a client that applies the
\* frames about an order as they come ends up with the order as it is, however
\* many clients there are and whenever they connect.
THEOREM LastFrameAlwaysCurrent ==
  ASSUME DelaysAgree, Leavers = {}
  PROVE  UpdatesSpec => []LastFrameIsCurrent
<1>1. UpdatesInit => Routed /\ InOrder
  <2> SUFFICES ASSUME UpdatesInit
               PROVE  Routed /\ InOrder
    OBVIOUS
  <2>1. /\ orders = {} /\ sleeping = <<>>
        /\ waiters = [c \in Clients |-> <<>>] /\ inbox = [c \in Clients |-> <<>>]
        /\ socket = [c \in Clients |-> IF c \in Early THEN "open" ELSE "off"]
        /\ ws_clients \in SE!SetToSeqs(Early)
    BY DEF UpdatesInit, Init
  <2>2. ws_clients \in Seq(Early)
    BY <2>1, UpdatesAssumption, Arranged
  <2>3. \A p \in DOMAIN ws_clients : ws_clients[p] \in Early
    BY <2>2, ElementOfSeq, LenProperties
  <2>4. DOMAIN ws_clients = Places
    BY <2>2, LenProperties DEF Places
  <2>5. /\ \A c \in Clients : socket[c] # "dead" /\ waiters[c] = <<>> /\ inbox[c] = <<>>
        /\ \A c \in SE!ToSet(ws_clients) : socket[c] = "open"
        /\ \A p \in Places : waiters[ws_clients[p]] = <<>>
    BY <2>1, <2>3, <2>4, UpdatesAssumption DEF SE!ToSet
  <2>6. \A p \in Places : DOMAIN waiters[ws_clients[p]] = {}
    BY <2>5
  <2>7. DOMAIN sleeping = {}
    BY <2>1
  <2> QED
    BY <2>1, <2>5, <2>6, <2>7 DEF Routed, InOrder
<1>2. /\ Inv /\ HistoryStatusAgrees /\ UpdatesTypeOK /\ (Routed /\ InOrder) /\ [UpdatesNext]_allVars
      => (Routed /\ InOrder)'
  BY RoutedStep, InOrderStep DEF Inv
<1>3. UpdatesSpec => []HistoryStatusAgrees
  BY TableUndisturbed, HistoryAlwaysAgrees, PTL
<1>4. UpdatesTypeOK /\ Routed /\ InOrder /\ Telling => LastFrameIsCurrent
  <2> SUFFICES ASSUME UpdatesTypeOK, Routed, InOrder, Telling, Quiescent,
                      NEW c \in Clients, NEW i \in orders
               PROVE  /\ c \in Early => About(c, i) # {}
                      /\ \A n \in About(c, i) :
                           (\A m \in About(c, i) : m <= n) => Shows(inbox[c][n], i)
    BY DEF LastFrameIsCurrent
  <2>1. scheduled = <<>> /\ sleeping = <<>> /\ \A d \in Clients : waiters[d] = <<>>
    BY DEF Quiescent
  <2>2. ASSUME c \in Early
        PROVE  About(c, i) # {}
    <3>1. Told(c, i)
      BY <2>2 DEF Telling, Routed, UpdatesTypeOK
    <3>2. Holds(inbox, c, Showing(i))
      BY <2>1, <3>1 DEF Told, Waits, Carries
    <3> QED
      BY <3>2 DEF Holds, Showing, About
  <2>3. ASSUME NEW n \in About(c, i), \A m \in About(c, i) : m <= n, ~Shows(inbox[c][n], i)
        PROVE  FALSE
    <3>1. n \in DOMAIN inbox[c] /\ inbox[c][n].id = i
      BY <2>3 DEF About
    <3>2. PICK r \in Places : c = ws_clients[r]
      <4>1. c \in SE!ToSet(ws_clients)
        BY <3>1 DEF Routed
      <4> QED
        BY <4>1, Registered
    <3>3. inbox[c] \in Seq(FrameType)
      BY DEF UpdatesTypeOK
    <3>4. inbox[c][n] \in FramesAbout(i) \ Showing(i)
      <4>1. inbox[c][n] \in FrameType
        BY <3>1, <3>3, ElementOfSeq, LenProperties
      <4> QED
        BY <2>3, <3>1, <4>1 DEF FramesAbout, Showing
    <3>5. ~Waits(i) /\ ~Sleeps(Showing(i))
      BY <2>1 DEF Waits, Sleeps
    <3>6. Follows(waiters, inbox, r, Showing(i), n)
      BY <3>1, <3>2, <3>4, <3>5 DEF InOrder, InLine, LineRight, InboxRight
    <3>7. \A q \in Places, l \in Nat : ~Comes(waiters, q, l, r)
      BY <2>1, Registered DEF Comes
    <3>8. PICK m \in DOMAIN inbox[c] : m > n /\ inbox[c][m] \in Showing(i)
      BY <3>2, <3>6, <3>7 DEF Follows
    <3>9. m \in About(c, i) /\ m \in Nat /\ n \in Nat
      <4>1. DOMAIN inbox[c] = 1..Len(inbox[c]) /\ Len(inbox[c]) \in Nat
        BY <3>3, LenProperties
      <4> QED
        BY <3>1, <3>8, <4>1 DEF About, Showing
    <3> QED
      BY <2>3, <3>8, <3>9
  <2> QED
    BY <2>2, <2>3
<1>5. UpdatesSpec => []Telling
  BY TellingAlways
<1> QED
  BY <1>1, <1>2, <1>3, <1>4, <1>5, InvUnderUpdates, UpdatesTypeCorrect, PTL DEF UpdatesSpec
=============================================================================
