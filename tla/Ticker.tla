------------------------------- MODULE Ticker -------------------------------
(***************************************************************************)
(* One ticker connection (ws/ticker.py): the endpoint that accepts or      *)
(* refuses it, the reader that applies its requests, the pusher that       *)
(* streams frames or heartbeats, and run, which ends both when either      *)
(* ends.  They are tasks of one event loop: each is atomic between awaits, *)
(* and `pusher' says at which await the pusher is.                         *)
(***************************************************************************)
EXTENDS Integers, Sequences

CONSTANTS
  Known, Unknown,   \* tokens of the instrument master, and others
  Messages,         \* requests the client may send
  Heartbeat,        \* the 1-byte frame
  None,             \* a token that is not subscribed
  Malformed         \* a list entry int() refuses, or an unhashable mode

Tokens == Known \cup Unknown
VALID_MODES == {"ltp", "quote", "full"}
DEFAULT_MODE == "quote"

\* A request: its action (other for anything _apply ignores), its mode and
\* its list of tokens.
ASSUME TickerAssumption ==
  /\ None \notin VALID_MODES
  /\ Malformed \notin Tokens
  /\ \A m \in Messages :
       /\ m.a \in {"subscribe", "unsubscribe", "mode", "other"}
       /\ m.v \in Seq(Tokens \cup {Malformed})

VARIABLES
  socket,           \* "connecting", "open", "closed"
  run,              \* "none", "waiting" for a task to end, "cleanup", "done"
  registered,       \* in AppState.ws_clients
  reader,           \* "none", "receiving", "ended"
  pusher,           \* "none", or the await it is at, or "ended"
  subs,             \* token -> its mode, or None
  changed,          \* the event _changed
  frame,            \* token -> mode for the packets built and not yet sent
  sent,             \* the last thing sent to the client
  sendParity,       \* flips with everything sent
  outdated          \* frames sent since the last request that disagree with it

vars == <<socket, run, registered, reader, pusher, subs, changed, frame, sent,
          sendParity, outdated>>

NoPackets == [t \in Known |-> None]

Init ==
  /\ socket = "connecting" /\ run = "none" /\ registered = FALSE
  /\ reader = "none" /\ pusher = "none"
  /\ subs = [t \in Tokens |-> None]
  /\ changed = FALSE
  /\ frame = NoPackets
  /\ sent = None /\ sendParity = 0 /\ outdated = 0

-----------------------------------------------------------------------------
(* ticker_endpoint and run                                                 *)

\* check_ws_auth fails: closed before it is accepted.
Refuse ==
  /\ socket = "connecting"
  /\ socket' = "closed" /\ run' = "done"
  /\ UNCHANGED <<registered, reader, pusher, subs, changed, frame, sent, sendParity, outdated>>

Accept ==
  /\ socket = "connecting"
  /\ socket' = "open" /\ run' = "waiting" /\ registered' = TRUE
  /\ reader' = "receiving" /\ pusher' = "created"
  /\ UNCHANGED <<subs, changed, frame, sent, sendParity, outdated>>

\* The peer, the network, or /_control/disconnect.
Close ==
  /\ socket = "open"
  /\ socket' = "closed"
  /\ UNCHANGED <<run, registered, reader, pusher, subs, changed, frame, sent, sendParity, outdated>>

\* Mutant of CancelTasks: run waits for both tasks.
CancelTasksLate ==
  /\ run = "waiting"
  /\ reader = "ended" /\ pusher = "ended"
  /\ run' = "cleanup"
  /\ UNCHANGED <<socket, registered, reader, pusher, subs, changed, frame, sent,
                 sendParity, outdated>>

\* The first task to end has the other cancelled.
CancelTasks ==
  /\ run = "waiting"
  /\ reader = "ended" \/ pusher = "ended"
  /\ run' = "cleanup" /\ reader' = "ended" /\ pusher' = "ended"
  /\ changed' = IF pusher = "idle" THEN FALSE ELSE changed
  /\ UNCHANGED <<socket, registered, subs, frame, sent, sendParity, outdated>>

Deregister ==
  /\ run = "cleanup"
  /\ run' = "done" /\ registered' = FALSE
  /\ socket' = "closed"
  /\ UNCHANGED <<reader, pusher, subs, changed, frame, sent, sendParity, outdated>>

-----------------------------------------------------------------------------
(* The reader: _apply takes the tokens one by one up to the first that     *)
(* int() refuses, which ends the task before it sets _changed.             *)

Listed(m) == {m.v[n] : n \in {k \in DOMAIN m.v : \A j \in 1..k : m.v[j] # Malformed}}

BadToken(m) == \E n \in DOMAIN m.v : m.v[n] = Malformed

Fails(m) ==
  CASE m.a = "other" -> FALSE
    [] m.a = "mode" -> \/ m.mode = Malformed
                       \/ m.mode \in VALID_MODES /\ BadToken(m)
    [] OTHER -> BadToken(m)

\* Mutant of Applied: the mode is stored as it comes.
AppliedUnchecked(m) ==
  [t \in Tokens |->
     IF t \notin Listed(m) THEN subs[t]
     ELSE CASE m.a = "subscribe"   -> IF subs[t] = None THEN DEFAULT_MODE ELSE subs[t]
            [] m.a = "unsubscribe" -> None
            [] m.a = "mode"        -> m.mode
            [] OTHER               -> subs[t]]

Applied(m) ==
  [t \in Tokens |->
     IF t \notin Listed(m) THEN subs[t]
     ELSE CASE m.a = "subscribe"   -> IF subs[t] = None THEN DEFAULT_MODE ELSE subs[t]
            [] m.a = "unsubscribe" -> None
            [] m.a = "mode"        -> IF m.mode \in VALID_MODES THEN m.mode ELSE subs[t]
            [] OTHER               -> subs[t]]

\* Mutant of Signals: a mode request, which may subscribe, does not signal.
SignalsLess(m) == m.a \in {"subscribe", "unsubscribe"} /\ ~Fails(m)
Signals(m) == m.a # "other" /\ ~Fails(m)

Receive(m) ==
  /\ reader = "receiving" /\ socket = "open"
  /\ subs' = Applied(m)
  /\ changed' = (changed \/ Signals(m))
  /\ reader' = IF Fails(m) THEN "ended" ELSE reader
  /\ outdated' = 0
  /\ UNCHANGED <<socket, run, registered, pusher, frame, sent, sendParity>>

\* receive_text raises WebSocketDisconnect.
ReaderEnds ==
  /\ reader = "receiving" /\ socket = "closed"
  /\ reader' = "ended"
  /\ UNCHANGED <<socket, run, registered, pusher, subs, changed, frame, sent, sendParity, outdated>>

-----------------------------------------------------------------------------
(* The pusher                                                              *)

Subscribed == {t \in Tokens : subs[t] # None}

\* _build_frame: the packets of the subscribed tokens the master knows.
Packets == [t \in Known |-> subs[t]]

\* Write f and wait for the buffer to drain at await pc.
Send(f, pc) ==
  IF socket = "open"
  THEN pusher' = pc /\ sent' = f /\ sendParity' = 1 - sendParity
  ELSE pusher' = "ended" /\ UNCHANGED <<sent, sendParity>>

SendFrame(f) ==
  /\ Send(f, "frame")
  /\ outdated' = IF socket = "open" /\ f # Packets THEN outdated + 1 ELSE outdated

\* The body of the pusher's loop, up to its first await.
LoopTop ==
  \/ /\ Subscribed = {}
     /\ Send(Heartbeat, "heartbeat")
     /\ UNCHANGED <<frame, outdated>>
  \/ /\ Subscribed # {} /\ Packets = NoPackets
     /\ pusher' = "tick"
     /\ UNCHANGED <<frame, sent, sendParity, outdated>>
  \/ /\ Packets # NoPackets             \* ws_push_delay_ms > 0
     /\ pusher' = "delay" /\ frame' = Packets
     /\ UNCHANGED <<sent, sendParity, outdated>>
  \/ /\ Packets # NoPackets             \* ws_push_delay_ms = 0
     /\ SendFrame(Packets)
     /\ UNCHANGED frame

PusherStarts ==
  /\ pusher = "created"
  /\ LoopTop
  /\ UNCHANGED <<socket, run, registered, reader, subs, changed>>

DelayOver ==
  /\ pusher = "delay"
  /\ SendFrame(frame)
  /\ frame' = NoPackets
  /\ UNCHANGED <<socket, run, registered, reader, subs, changed>>

\* Mutant of FrameDrained: the frame is built once and sent at every tick.
FrameDrainedCached ==
  /\ pusher = "frame" /\ socket = "open"
  /\ pusher' = "delay" /\ frame' = sent
  /\ UNCHANGED <<socket, run, registered, reader, subs, changed, sent, sendParity, outdated>>

\* A send drains ...
FrameDrained ==
  /\ pusher = "frame" /\ socket = "open"
  /\ pusher' = "tick"
  /\ UNCHANGED <<socket, run, registered, reader, subs, changed, frame, sent, sendParity, outdated>>

\* Mutant of HeartbeatDrained: the event is cleared before the wait.
HeartbeatDrainedClears ==
  /\ pusher = "heartbeat" /\ socket = "open"
  /\ pusher' = "idle" /\ changed' = FALSE
  /\ UNCHANGED <<socket, run, registered, reader, subs, frame, sent, sendParity, outdated>>

HeartbeatDrained ==
  /\ pusher = "heartbeat" /\ socket = "open"
  /\ pusher' = "idle"
  /\ UNCHANGED <<socket, run, registered, reader, subs, changed, frame, sent, sendParity, outdated>>

\* ... or raises, the socket being gone.
PusherEnds ==
  /\ pusher \in {"frame", "heartbeat"} /\ socket = "closed"
  /\ pusher' = "ended"
  /\ UNCHANGED <<socket, run, registered, reader, subs, changed, frame, sent, sendParity, outdated>>

TickOver ==
  /\ pusher = "tick"
  /\ LoopTop
  /\ UNCHANGED <<socket, run, registered, reader, subs, changed>>

\* _idle_wait ends with the event set, or with the heartbeat interval over; it
\* clears the event either way and the loop looks at subs again.
IdleEnds ==
  /\ pusher = "idle"
  /\ changed' = FALSE
  /\ LoopTop
  /\ UNCHANGED <<socket, run, registered, reader, subs>>

Woken == changed /\ IdleEnds
IdleTimeout == ~changed /\ IdleEnds

Pusher ==
  \/ PusherStarts \/ DelayOver \/ FrameDrained \/ HeartbeatDrained \/ PusherEnds
  \/ TickOver \/ Woken

Next ==
  \/ Refuse \/ Accept \/ Close \/ CancelTasks \/ Deregister
  \/ \E m \in Messages : Receive(m)
  \/ ReaderEnds
  \/ Pusher \/ IdleTimeout

Spec == Init /\ [][Next]_vars

\* Tasks that can run do; timers fire, sends end.  The end of the heartbeat
\* interval is kept apart: only what needs it assumes it.
TaskFairness == WF_vars(CancelTasks) /\ WF_vars(Deregister) /\ WF_vars(ReaderEnds) /\ WF_vars(Pusher)

TickerSpec == Spec /\ TaskFairness
HeartbeatSpec == TickerSpec /\ WF_vars(IdleTimeout)

-----------------------------------------------------------------------------
(* Properties.                                                             *)

FrameType == [Known -> VALID_MODES \cup {None}]

\* Modes are valid, an accepted connection has both tasks, a built frame is
\* never empty while it is held back, and nothing else is sent than frames
\* and heartbeats.
TypeOK ==
  /\ socket \in {"connecting", "open", "closed"}
  /\ run \in {"none", "waiting", "cleanup", "done"}
  /\ registered \in BOOLEAN /\ (registered <=> run \in {"waiting", "cleanup"})
  /\ reader \in {"none", "receiving", "ended"}
  /\ pusher \in {"none", "created", "delay", "frame", "tick", "heartbeat", "idle", "ended"}
  /\ (run = "none" <=> reader = "none") \/ run = "done"
  /\ subs \in [Tokens -> VALID_MODES \cup {None}]
  /\ changed \in BOOLEAN
  /\ frame \in FrameType
  /\ sent \in FrameType \cup {None, Heartbeat}
  /\ sendParity \in {0, 1} /\ outdated \in Nat

\* A pusher idling on its heartbeat interval while something is subscribed
\* has its event set: a subscription that arrived while the heartbeat was
\* being sent, or in the step that ended the last wait, is not slept through.
NoLostWakeup ==
  pusher = "idle" /\ reader = "receiving" /\ Subscribed # {} => changed

\* A frame is built before its push delay and sent after it, so one frame may
\* still show the subscriptions and modes before the last request; no second.
AtMostOneOutdatedFrame == outdated <= 1

Live == socket = "open" /\ reader = "receiving"

\* A token of the master that stays subscribed is streamed for as long as the
\* connection is up, without the heartbeat interval ever having to end.
SubscriptionIsStreamed ==
  \A t \in Known :
    <>[](Live /\ subs[t] # None)
      => []<><<sendParity' # sendParity /\ pusher' = "frame" /\ sent'[t] = subs[t]>>_vars

\* A connection whose socket closed or whose reader died on a request leaves
\* ws_clients, wherever its pusher was.
EndedIsDeregistered ==
  (run = "waiting" /\ (socket = "closed" \/ reader = "ended")) ~> ~registered

\* ticker.py:5: the pusher streams a frame every tick or a heartbeat when
\* idle, so an open connection never falls silent.
NeverSilent ==
  <>[]Live => []<><<sendParity' # sendParity>>_vars
=============================================================================
