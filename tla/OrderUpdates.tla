---------------------------- MODULE OrderUpdates ----------------------------
(***************************************************************************)
(* The order table of Orders together with the update frames it causes     *)
(* (ws/order_updates.py) and the connections that receive them             *)
(* (ws_clients of state.py, as ws/ticker.py keeps it).                     *)
(*                                                                         *)
(* A handler only creates a task.  When the loop first runs the task it    *)
(* copies the order object, then sleeps for the delay it was created with, *)
(* then sends the frame to the connections registered at that time, one    *)
(* after the other, and may be suspended at each of them until that        *)
(* connection's buffer drains.                                             *)
(***************************************************************************)
EXTENDS Orders

SE == INSTANCE SequencesExt

CONSTANTS
  Clients,          \* WebSocket connections
  Early,            \* those connected before the first order
  Leavers           \* those whose socket may fail or be closed

ASSUME UpdatesAssumption ==
  Early \subseteq Clients /\ SE!IsFiniteSet(Early) /\ Leavers \subseteq Clients

VARIABLES
  sleeping,         \* started tasks in their delay, in the order they started
  ws_clients,       \* the registered connections
  socket,           \* client -> "off", "open" or "dead"
  waiters,          \* client -> tasks waiting for its buffer to drain
  inbox             \* client -> the frames sent to it, oldest first

updateVars == <<sleeping, ws_clients, socket, waiters, inbox>>
allVars == <<vars, updateVars>>

UpdatesInit ==
  /\ Init
  /\ sleeping = <<>>
  /\ ws_clients \in SE!SetToSeqs(Early)
  /\ socket = [c \in Clients |-> IF c \in Early THEN "open" ELSE "off"]
  /\ waiters = [c \in Clients |-> <<>>]
  /\ inbox = [c \in Clients |-> <<>>]

-----------------------------------------------------------------------------
(* broadcast_text                                                          *)

\* Mutant of SendOn: a send that raises ends the broadcast.
SendOnUntilFailure(f, to, queues) ==
  IF to = <<>> \/ socket[Head(to)] # "open"
  THEN /\ waiters' = queues
       /\ UNCHANGED inbox
  ELSE /\ waiters' = [queues EXCEPT ![Head(to)] =
                        Append(@, [frame |-> f, rest |-> Tail(to)])]
       /\ inbox' = [inbox EXCEPT ![Head(to)] = Append(@, f)]

\* Mutant of SendOn: a connection that is still draining is passed over.
SendOnUnlessSlow(f, to, queues) ==
  LET ready == {n \in DOMAIN to : socket[to[n]] = "open" /\ queues[to[n]] = <<>>} IN
  IF ready = {} THEN /\ waiters' = queues
                     /\ UNCHANGED inbox
  ELSE LET n == CHOOSE n \in ready : \A m \in ready : n <= m
           task == [frame |-> f, rest |-> SubSeq(to, n + 1, Len(to))]
       IN /\ waiters' = [queues EXCEPT ![to[n]] = Append(@, task)]
          /\ inbox' = [inbox EXCEPT ![to[n]] = Append(@, f)]

\* Send frame f to the first open connection of to, then wait for that
\* connection; a send to a dead one raises and is skipped.
SendOn(f, to, queues) ==
  LET open == {n \in DOMAIN to : socket[to[n]] = "open"} IN
  IF open = {} THEN /\ waiters' = queues
                    /\ UNCHANGED inbox
  ELSE LET n == CHOOSE n \in open : \A m \in open : n <= m
           task == [frame |-> f, rest |-> SubSeq(to, n + 1, Len(to))]
       IN /\ waiters' = [queues EXCEPT ![to[n]] = Append(@, task)]
          /\ inbox' = [inbox EXCEPT ![to[n]] = Append(@, f)]

Broadcast(f) == SendOn(f, ws_clients, waiters)

\* The oldest task waiting for c goes on: the buffer drained, or the send raised.
Resume(c) ==
  /\ waiters[c] # <<>>
  /\ LET task == Head(waiters[c]) IN
     SendOn(task.frame, task.rest, [waiters EXCEPT ![c] = Tail(@)])
  /\ UNCHANGED <<vars, sleeping, ws_clients, socket>>

-----------------------------------------------------------------------------
(* emit_order_update                                                       *)

\* Mutant of Frame: the receipt of the order is announced.
FrameOfReceipt(task) == [id |-> task.id, snap |-> BuildHistory(order[task.id])[1]]

\* The order's state when its task starts.
Frame(task) == [id |-> task.id, snap |-> order[task.id]]

StartUpdate ==
  /\ TakeUpdate
  /\ LET task == Head(scheduled) IN
     \/ /\ task.delay = 0
        /\ Broadcast(Frame(task))
        /\ UNCHANGED sleeping
     \/ /\ task.delay > 0
        /\ sleeping' = Append(sleeping, [frame |-> Frame(task), delay |-> task.delay])
        /\ UNCHANGED <<waiters, inbox>>
  /\ UNCHANGED <<ws_clients, socket>>

\* A task started before this one with no longer a delay wakes before it.
Due(n) == \A m \in 1..(n - 1) : sleeping[m].delay > sleeping[n].delay

WakeUpdate(n) ==
  /\ n \in DOMAIN sleeping
  /\ Due(n)
  /\ Broadcast(sleeping[n].frame)
  /\ sleeping' = SE!RemoveAt(sleeping, n)
  /\ UNCHANGED <<vars, ws_clients, socket>>

-----------------------------------------------------------------------------
(* The connections.                                                        *)

Join(c) ==
  /\ socket[c] = "off"
  /\ socket' = [socket EXCEPT ![c] = "open"]
  /\ ws_clients' = Append(ws_clients, c)
  /\ UNCHANGED <<vars, sleeping, waiters, inbox>>

\* Mutant of Close: the connection may be registered again.
CloseReusable(c) ==
  /\ c \in Leavers
  /\ socket[c] = "open"
  /\ socket' = [socket EXCEPT ![c] = "off"]
  /\ UNCHANGED <<vars, sleeping, ws_clients, waiters, inbox>>

\* The peer or the network closes the socket, or /_control/disconnect does.
Close(c) ==
  /\ c \in Leavers
  /\ socket[c] = "open"
  /\ socket' = [socket EXCEPT ![c] = "dead"]
  /\ UNCHANGED <<vars, sleeping, ws_clients, waiters, inbox>>

\* The connection's own cleanup, once its reader or pusher has failed.
Deregister(c) ==
  /\ socket[c] = "dead"
  /\ \E n \in DOMAIN ws_clients :
       ws_clients[n] = c /\ ws_clients' = SE!RemoveAt(ws_clients, n)
  /\ UNCHANGED <<vars, sleeping, socket, waiters, inbox>>

Emission == StartUpdate \/ (\E n \in DOMAIN sleeping : WakeUpdate(n))

UpdatesNext ==
  \/ Handlers /\ UNCHANGED updateVars
  \/ Emission
  \/ \E c \in Clients : Resume(c) \/ Join(c) \/ Close(c) \/ Deregister(c)

UpdatesSpec == UpdatesInit /\ [][UpdatesNext]_allVars

\* The loop runs every task it holds; a timer fires; and a send ends, since
\* the server closes a connection that stops answering its pings.
UpdatesFairness ==
  /\ WF_allVars(StartUpdate)
  /\ WF_allVars(\E n \in DOMAIN sleeping : WakeUpdate(n))
  /\ \A c \in Clients : WF_allVars(Resume(c))

FairUpdatesSpec == UpdatesSpec /\ UpdatesFairness

-----------------------------------------------------------------------------
(* Types.                                                                  *)

FrameType == [id: Ids, snap: Order]

\* The queues hold frames of issued orders, connections are registered once,
\* and only an open or failed socket can be.
UpdatesTypeOK ==
  /\ sleeping \in Seq([frame: FrameType, delay: Delays])
  /\ ws_clients \in Seq(Clients) /\ SE!IsInjective(ws_clients)
  /\ socket \in [Clients -> {"off", "open", "dead"}]
  /\ \A c \in Clients : socket[c] = "open" => c \in SE!ToSet(ws_clients)
  /\ \A c \in SE!ToSet(ws_clients) : socket[c] # "off"
  /\ waiters \in [Clients -> Seq([frame: FrameType, rest: Seq(Clients)])]
  /\ inbox \in [Clients -> Seq(FrameType)]

-----------------------------------------------------------------------------
(* Properties.                                                             *)

\* Every task that was created has run to its end.
Quiescent ==
  scheduled = <<>> /\ sleeping = <<>> /\ \A c \in Clients : waiters[c] = <<>>

\* The frames about order i in the inbox of c, by their places in it.
About(c, i) == {n \in DOMAIN inbox[c] : inbox[c][n].id = i}

\* A modify refused half way changes the table and announces nothing.
WholeModifications ==
  \A p \in Modifications : p.price # Malformed /\ p.trigger_price # Malformed

Shows(f, i) ==
  /\ f.snap.status = order[i].status
  /\ WholeModifications => f.snap = order[i]

\* With one update delay and no failing socket, a client that applies frames
\* in the order they come ends up showing the order table: once nothing is
\* in flight, the last frame about an order is its current state, for every
\* client that was sent any; and a client connected all along was sent one.
LastFrameIsCurrent ==
  Quiescent =>
    \A c \in Clients, i \in orders :
      /\ c \in Early => About(c, i) # {}
      /\ \A n \in About(c, i) : (\A m \in About(c, i) : m <= n) => Shows(inbox[c][n], i)

\* Whatever the delays are set to while tasks sleep, and whichever sockets
\* fail, every client connected all along has been sent the current state of
\* every order of the table once nothing is in flight, if not as the last frame.
CurrentStateIsSent ==
  Quiescent =>
    \A c \in Early, i \in orders : socket[c] = "open" =>
      \E n \in About(c, i) : Shows(inbox[c][n], i)

\* The object a task copies late is still the order that was placed: however
\* long tasks and sends are held up, a filled or rejected order is announced
\* with its own final state and no other, also when a reset dropped it.
FilledIsAnnouncedOnly ==
  \A c \in Clients, i \in 1..orderSeq :
    order[i].status \in {"COMPLETE", "REJECTED"} =>
      \A n \in DOMAIN inbox[c] : inbox[c][n].id = i => inbox[c][n].snap = order[i]

\* A cancelled order is announced as such to every client that stays.
CancelIsAnnounced ==
  \A c \in Early \ Leavers, i \in Ids :
    (i <= orderSeq /\ order[i].status = "CANCELLED") ~>
      (\E n \in About(c, i) : inbox[c][n].snap.status = "CANCELLED")
=============================================================================
