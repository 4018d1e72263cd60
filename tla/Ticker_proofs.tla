--------------------------- MODULE Ticker_proofs ---------------------------
(***************************************************************************)
(* Proofs about Ticker, for any tokens and any requests.                   *)
(***************************************************************************)
EXTENDS Ticker, TLAPS

\* A connection has been accepted or refused exactly when its endpoint ran.
Connected == socket = "connecting" <=> run = "none"

\* From the look at subs that chose the heartbeat to the end of the wait, a
\* subscription the reader applied has set the event.
SignalPending ==
  pusher \in {"heartbeat", "idle"} /\ reader = "receiving" /\ Subscribed # {} => changed

\* A frame held back in the push delay was current after the last request, or
\* no outdated frame has been sent since.
HeldBack ==
  /\ outdated \in {0, 1}
  /\ pusher = "delay" /\ frame # Packets => outdated = 0

IInv == TypeOK /\ Connected /\ SignalPending /\ HeldBack

-----------------------------------------------------------------------------

LEMMA FrameTypes ==
  ASSUME TypeOK
  PROVE  Packets \in FrameType /\ NoPackets \in FrameType
<1>1. /\ subs \in [Tokens -> VALID_MODES \cup {None}]
      /\ \A t \in Known : t \in Tokens
  BY DEF TypeOK, Tokens
<1> QED
  BY <1>1 DEF Packets, NoPackets, FrameType

\* A request keeps modes valid, and changes nothing unless it is one of three.
LEMMA AppliedType ==
  ASSUME TypeOK, NEW m \in Messages
  PROVE  /\ Applied(m) \in [Tokens -> VALID_MODES \cup {None}]
         /\ m.a = "other" => Applied(m) = subs
<1>1. subs \in [Tokens -> VALID_MODES \cup {None}]
  BY DEF TypeOK
<1>2. DEFAULT_MODE \in VALID_MODES
  BY DEF DEFAULT_MODE, VALID_MODES
<1>3. ASSUME NEW t \in Tokens
      PROVE  /\ Applied(m)[t] \in VALID_MODES \cup {None}
             /\ m.a = "other" => Applied(m)[t] = subs[t]
  <2>1. m.a \in {"subscribe", "unsubscribe", "mode", "other"}
    BY TickerAssumption
  <2> QED
    BY <1>1, <1>2, <2>1 DEF Applied
<1>4. Applied(m) = [t \in Tokens |-> Applied(m)[t]]
  BY DEF Applied
<1> QED
  BY <1>1, <1>3, <1>4

-----------------------------------------------------------------------------
(* One step: the type invariant.                                           *)

\* What the pusher's loop body, a send and the end of a wait may write.
LEMMA PusherType ==
  ASSUME TypeOK, Pusher \/ IdleTimeout
  PROVE  /\ pusher' \in {"none", "created", "delay", "frame", "tick", "heartbeat", "idle", "ended"}
         /\ changed' \in BOOLEAN /\ frame' \in FrameType
         /\ sent' \in FrameType \cup {None, Heartbeat}
         /\ sendParity' \in {0, 1} /\ outdated' \in Nat
         /\ UNCHANGED <<socket, run, registered, reader, subs>>
<1> USE DEF TypeOK
<1>1. Packets \in FrameType /\ NoPackets \in FrameType
  BY FrameTypes
<1>2. ASSUME NEW f \in FrameType \cup {Heartbeat}, NEW pc \in {"frame", "heartbeat"}, Send(f, pc)
      PROVE  /\ pusher' \in {"frame", "heartbeat", "ended"}
             /\ sent' \in FrameType \cup {None, Heartbeat} /\ sendParity' \in {0, 1}
  BY <1>2 DEF Send
<1>3. ASSUME NEW f \in FrameType, SendFrame(f)
      PROVE  /\ pusher' \in {"frame", "heartbeat", "ended"}
             /\ sent' \in FrameType \cup {None, Heartbeat} /\ sendParity' \in {0, 1}
             /\ outdated' \in Nat
  BY <1>2, <1>3 DEF SendFrame
<1>4. ASSUME LoopTop
      PROVE  /\ pusher' \in {"delay", "frame", "tick", "heartbeat", "ended"}
             /\ frame' \in FrameType /\ sent' \in FrameType \cup {None, Heartbeat}
             /\ sendParity' \in {0, 1} /\ outdated' \in Nat
  BY <1>1, <1>2, <1>3, <1>4 DEF LoopTop
<1>5. CASE PusherStarts \/ TickOver
  BY <1>4, <1>5 DEF PusherStarts, TickOver
<1>6. CASE Woken \/ IdleTimeout
  BY <1>4, <1>6 DEF Woken, IdleTimeout, IdleEnds
<1>7. CASE DelayOver
  BY <1>1, <1>3, <1>7 DEF DelayOver
<1>8. CASE FrameDrained \/ HeartbeatDrained \/ PusherEnds
  BY <1>8 DEF FrameDrained, HeartbeatDrained, PusherEnds
<1> QED
  BY <1>5, <1>6, <1>7, <1>8 DEF Pusher

LEMMA TypeStep ==
  ASSUME TypeOK, Connected, [Next]_vars
  PROVE  TypeOK' /\ Connected'
<1>1. CASE Refuse
  <2>1. run = "none" /\ registered = FALSE
    BY <1>1 DEF Refuse, TypeOK, Connected
  <2> QED
    BY <1>1, <2>1 DEF Refuse, TypeOK, Connected
<1>2. CASE Accept
  BY <1>2 DEF Accept, TypeOK, Connected
<1>3. CASE Close
  BY <1>3 DEF Close, TypeOK, Connected
<1>4. CASE CancelTasks
  <2>1. run = "waiting" /\ run' = "cleanup" /\ registered = TRUE /\ registered' = TRUE
    BY <1>4 DEF CancelTasks, TypeOK
  <2>2. changed' \in BOOLEAN
    BY <1>4 DEF CancelTasks, TypeOK
  <2>3. reader' = "ended" /\ pusher' = "ended"
    BY <1>4 DEF CancelTasks
  <2>4. UNCHANGED <<socket, subs, frame, sent, sendParity, outdated>>
    BY <1>4 DEF CancelTasks
  <2> QED
    BY <2>1, <2>2, <2>3, <2>4 DEF TypeOK, Connected
<1>5. CASE Deregister
  BY <1>5 DEF Deregister, TypeOK, Connected
<1>6. ASSUME NEW m \in Messages, Receive(m)
      PROVE  TypeOK' /\ Connected'
  <2>1. subs' \in [Tokens -> VALID_MODES \cup {None}]
    BY <1>6, AppliedType DEF Receive
  <2>2. changed' \in BOOLEAN
    BY <1>6 DEF Receive
  <2>3. reader = "receiving" /\ reader' \in {"receiving", "ended"}
    BY <1>6 DEF Receive
  <2> QED
    BY <1>6, <2>1, <2>2, <2>3 DEF Receive, TypeOK, Connected
<1>7. CASE ReaderEnds
  BY <1>7 DEF ReaderEnds, TypeOK, Connected
<1>8. CASE Pusher \/ IdleTimeout
  BY <1>8, PusherType DEF TypeOK, Connected
<1>9. CASE UNCHANGED vars
  BY <1>9 DEF vars, TypeOK, Connected
<1> QED
  BY <1>1, <1>2, <1>3, <1>4, <1>5, <1>6, <1>7, <1>8, <1>9 DEF Next

-----------------------------------------------------------------------------
(* One step: the wakeup.                                                   *)

LEMMA SignalStep ==
  ASSUME IInv, [Next]_vars
  PROVE  SignalPending'
<1> USE DEF IInv
<1>1. CASE Refuse \/ Close \/ Deregister \/ UNCHANGED vars
  BY <1>1 DEF Refuse, Close, Deregister, vars, SignalPending, Subscribed
<1>2. CASE Accept
  BY <1>2 DEF Accept, SignalPending
<1>3. CASE CancelTasks \/ ReaderEnds
  BY <1>3 DEF CancelTasks, ReaderEnds, SignalPending
<1>4. ASSUME NEW m \in Messages, Receive(m)
      PROVE  SignalPending'
  <2>1. CASE m.a = "other"
    <3>1. subs' = subs /\ reader = "receiving" /\ (changed => changed') /\ pusher' = pusher
      BY <1>4, <2>1, AppliedType DEF Receive
    <3> QED
      BY <3>1 DEF SignalPending, Subscribed
  <2>2. CASE m.a # "other"
    BY <1>4, <2>2 DEF Receive, Signals, SignalPending
  <2> QED
    BY <2>1, <2>2
<1>5. ASSUME LoopTop, UNCHANGED <<reader, subs>>
      PROVE  SignalPending'
  BY <1>5 DEF LoopTop, Send, SendFrame, SignalPending, Subscribed
<1>6. CASE PusherStarts \/ TickOver \/ Woken \/ IdleTimeout
  BY <1>5, <1>6 DEF PusherStarts, TickOver, Woken, IdleTimeout, IdleEnds
<1>7. CASE DelayOver \/ FrameDrained \/ PusherEnds
  BY <1>7 DEF DelayOver, SendFrame, Send, FrameDrained, PusherEnds, SignalPending
<1>8. CASE HeartbeatDrained
  BY <1>8 DEF HeartbeatDrained, SignalPending, Subscribed
<1> QED
  BY <1>1, <1>2, <1>3, <1>4, <1>6, <1>7, <1>8 DEF Next, Pusher

-----------------------------------------------------------------------------
(* One step: outdated frames.                                              *)

LEMMA HeldBackStep ==
  ASSUME IInv, [Next]_vars
  PROVE  HeldBack'
<1> USE DEF IInv
<1>1. CASE Refuse \/ Close \/ Deregister \/ ReaderEnds \/ UNCHANGED vars
  BY <1>1 DEF Refuse, Close, Deregister, ReaderEnds, vars, HeldBack, Packets
<1>2. CASE Accept \/ CancelTasks
  BY <1>2 DEF Accept, CancelTasks, HeldBack
<1>3. ASSUME NEW m \in Messages, Receive(m)
      PROVE  HeldBack'
  BY <1>3 DEF Receive, HeldBack
<1>4. ASSUME LoopTop, UNCHANGED subs
      PROVE  HeldBack'
  BY <1>4 DEF LoopTop, Send, SendFrame, HeldBack, Packets
<1>5. CASE PusherStarts \/ TickOver \/ Woken \/ IdleTimeout
  BY <1>4, <1>5 DEF PusherStarts, TickOver, Woken, IdleTimeout, IdleEnds
<1>6. CASE DelayOver
  BY <1>6 DEF DelayOver, SendFrame, Send, HeldBack
<1>7. CASE FrameDrained \/ HeartbeatDrained \/ PusherEnds
  BY <1>7 DEF FrameDrained, HeartbeatDrained, PusherEnds, HeldBack
<1> QED
  BY <1>1, <1>2, <1>3, <1>5, <1>6, <1>7 DEF Next, Pusher

-----------------------------------------------------------------------------

LEMMA InvAlways == Spec => []IInv
<1>1. Init => IInv
  <2>1. ASSUME Init
        PROVE  TypeOK
    <3>1. NoPackets \in FrameType
      BY DEF NoPackets, FrameType
    <3>2. subs \in [Tokens -> VALID_MODES \cup {None}]
      BY <2>1 DEF Init
    <3>3. /\ socket = "connecting" /\ run = "none" /\ registered = FALSE /\ reader = "none"
          /\ pusher = "none" /\ changed = FALSE /\ frame = NoPackets
          /\ sent = None /\ sendParity = 0 /\ outdated = 0
      BY <2>1 DEF Init
    <3> QED
      BY <3>1, <3>2, <3>3 DEF TypeOK
  <2>2. Init => Connected /\ SignalPending /\ HeldBack
    BY DEF Init, Connected, SignalPending, HeldBack
  <2> QED
    BY <2>1, <2>2 DEF IInv
<1>2. IInv /\ [Next]_vars => IInv'
  BY TypeStep, SignalStep, HeldBackStep DEF IInv
<1> QED
  BY <1>1, <1>2, PTL DEF Spec

\* Modes stay valid and a connection is registered exactly while run has it.
THEOREM TypeCorrect == Spec => []TypeOK
BY InvAlways, PTL DEF IInv

\* No subscription is slept through: an idle pusher has its event set.
THEOREM NothingSleptThrough == Spec => []NoLostWakeup
<1>1. IInv => NoLostWakeup
  BY DEF IInv, SignalPending, NoLostWakeup
<1> QED
  BY <1>1, InvAlways, PTL

\* At most one frame sent after a request still shows what was before it.
THEOREM OneOutdatedFrame == Spec => []AtMostOneOutdatedFrame
<1>1. IInv => AtMostOneOutdatedFrame
  BY DEF IInv, HeldBack, AtMostOneOutdatedFrame
<1> QED
  BY <1>1, InvAlways, PTL
=============================================================================
