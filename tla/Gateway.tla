------------------------------ MODULE Gateway ------------------------------
(***************************************************************************)
(* What every REST request passes on its way to a handler -- the latency   *)
(* (latency.py), authentication (auth.py) and the forced errors            *)
(* (rest/envelopes.py), in this order -- and the control plane that        *)
(* changes all of it under the requests that sleep (control.py).           *)
(*                                                                         *)
(* Names, keys and tokens are sequences of characters as far as anything   *)
(* looks into them.  An injection's count is in halves, so that a fraction *)
(* is a number too; Text is a count that is no number.                     *)
(***************************************************************************)
EXTENDS Integers, Sequences

CONSTANTS
  Endpoints,        \* the keys of the routes that are called
  Slots,            \* requests in flight
  Calls,            \* [endpoint, known]: known is FALSE if the handler refuses the path
  Headers,          \* authorization headers requests carry
  LatencyBodies,    \* bodies of POST /_control/latency: sequences of <<field, value>>
  ErrorBodies,      \* bodies of POST /_control/error
  Auths,            \* values of config.auth
  Latencies,        \* values of config.latency at startup
  Sockets,          \* WebSocket connections; each connects once
  Chars,            \* the characters of names and headers
  Names,            \* keys and tokens clients use
  Params,           \* socket -> its api_key and access_token parameters
  Text,             \* a value that is not a number
  Forever,          \* the budget of an injection that is never used up
  None

\* The keys under which the routes ask for a forced error.
Keys == {"orders.place", "orders.modify", "orders.cancel", "orders.list",
         "orders.history", "orders.order_trades", "trades.list",
         "quote", "quote.ohlc", "quote.ltp", "instruments",
         "user.profile", "user.margins", "portfolio.positions", "portfolio.holdings"}

\* The smallest value each latency field may have.
Minimum ==
  [rest_ms |-> 0, rest_jitter_ms |-> 0, ws_tick_interval_ms |-> 1, ws_push_delay_ms |-> 0,
   order_update_delay_ms |-> 0, heartbeat_interval_ms |-> 1]
Fields == DOMAIN Minimum
Valid(f, v) == v \in Int /\ v >= Minimum[f]

Elements(s) == {s[k] : k \in DOMAIN s}
Credentials == [api_key: Names, access_token: Names]

ASSUME GatewayAssumption ==
  /\ Text \notin Int /\ None \notin Int /\ Forever \notin Int
  /\ Text # None /\ Forever \notin {Text, None}
  /\ ":" \in Chars /\ Names \subseteq Seq(Chars) /\ Params \in [Sockets -> Credentials]
  /\ Endpoints \subseteq Keys
  /\ \A c \in Calls : c.endpoint \in Endpoints /\ c.known \in BOOLEAN
  /\ \A h \in Headers : h # None => h.scheme \in STRING /\ h.rest \in Seq(Chars)
  /\ None \notin [api_key: Seq(Chars), access_token: Seq(Chars)]
  /\ None \notin [scheme: {"token"}, rest: Seq(Chars)]
  /\ None \notin [key: Names \cup {None}, targets: Seq(Sockets), done: Nat]
  /\ LatencyBodies \subseteq Seq(STRING \X (Int \cup {Text}))
  /\ \A body \in LatencyBodies : \A j, k \in DOMAIN body : body[j][1] = body[k][1] => j = k
  /\ \A b \in ErrorBodies :
       /\ b.endpoint \in Endpoints \cup {None} /\ b.clear \in BOOLEAN
       /\ b.error_type \in BOOLEAN /\ b.count \in Int \cup {Text}
  \* _check_fixed of config.py: fixed credentials are not empty.
  /\ \A a \in Auths : /\ a.mode \in {"accept_any", "fixed"}
                      /\ a.mode = "fixed" => a.api_key # <<>> /\ a.access_token # <<>>
  /\ \A l \in Latencies : DOMAIN l = Fields /\ \A f \in Fields : Valid(f, l[f])

VARIABLES
  auth, latency,    \* config.auth, config.latency
  injections,       \* endpoint -> count of the pending injection, None if none is
  req,              \* slot -> the request in its delay, or None
  answer,           \* the last answer: to which endpoint or plane, with what outcome
  ws_clients, socket, disconnect  \* see the control plane

config == <<auth, latency>>
wsVars == <<ws_clients, socket, disconnect>>
vars == <<config, injections, req, answer, wsVars>>

Answer(to, outcome) == answer' = [to |-> to, outcome |-> outcome]

Init ==
  /\ auth \in Auths
  /\ latency \in Latencies
  /\ injections = [e \in Endpoints |-> None]
  /\ req = [r \in Slots |-> None]
  /\ answer = [to |-> "none", outcome |-> "none"]
  /\ ws_clients = <<>>
  /\ socket = [s \in Sockets |-> "new"]
  /\ disconnect = None

-----------------------------------------------------------------------------
(* Who is asking.                                                          *)

\* Mutant of Colon: a pair is split at its last colon.
LastColon(s) == CHOOSE k \in DOMAIN s : s[k] = ":" /\ \A j \in k + 1..Len(s) : s[j] # ":"
Colon(s) == CHOOSE k \in DOMAIN s : s[k] = ":" /\ \A j \in 1..k - 1 : s[j] # ":"
KeyPart(s) == SubSeq(s, 1, Colon(s) - 1)
TokenPart(s) == SubSeq(s, Colon(s) + 1, Len(s))

\* The header of a client with these credentials.
HeaderOf(p) == [scheme |-> "token", rest |-> p.api_key \o <<":">> \o p.access_token]

\* parse_rest_auth: the credentials, or None if the header is refused.
ParseRestAuth(h) ==
  IF /\ h # None
     /\ h.scheme = "token" /\ ":" \in Elements(h.rest)
     /\ KeyPart(h.rest) # <<>> /\ TokenPart(h.rest) # <<>>
  THEN [api_key |-> KeyPart(h.rest), access_token |-> TokenPart(h.rest)]
  ELSE None

Permitted(creds) ==
  auth.mode = "fixed" => creds.api_key = auth.api_key /\ creds.access_token = auth.access_token

\* authenticate
Authenticated(h) == ParseRestAuth(h) # None /\ Permitted(ParseRestAuth(h))

CheckWsAuth(p) == p.api_key # <<>> /\ p.access_token # <<>> /\ Permitted(p)

\* _api_key of rest/ratelimit.py: whom the rate limiter counts a request for.
LimiterKey(h) ==
  IF h # None /\ h.scheme = "token" /\ ":" \in Elements(h.rest)
  THEN SubSeq(h.rest, 1, Colon(h.rest) - 1) ELSE "anonymous"

-----------------------------------------------------------------------------
(* A request.                                                              *)

\* Mutant of Spent: the last call ends an injection, whatever its count.
SpentAtMostOne(n) == IF n <= 2 THEN None ELSE n - 2
Spent(n) == IF n = 2 THEN None ELSE IF n > 0 THEN n - 2 ELSE n

\* maybe_inject, then the handler.
MaybeInject(call) ==
  LET n == injections[call.endpoint] IN
  \/ /\ n \in {None, 0}
     /\ Answer(call.endpoint, IF call.known THEN "success" ELSE "InputException")
     /\ UNCHANGED injections
  \/ /\ n \in Int \ {0}
     /\ injections' = [injections EXCEPT ![call.endpoint] = Spent(@)]
     /\ Answer(call.endpoint, "injected")
  \/ /\ n = Text                    \* TypeError
     /\ Answer(call.endpoint, "unhandled")
     /\ UNCHANGED injections

Served(call, h) ==
  \/ Authenticated(h) /\ MaybeInject(call)
  \/ /\ ~Authenticated(h)
     /\ Answer(call.endpoint, "TokenException")
     /\ UNCHANGED injections

RestDelay == latency.rest_ms + latency.rest_jitter_ms

\* rest_latency_dependency reads the latency as the request arrives; without
\* any, the request runs through to its answer.
Arrive(r, call, h) ==
  /\ req[r] = None
  /\ \/ RestDelay = 0 /\ Served(call, h) /\ UNCHANGED req
     \/ /\ RestDelay > 0
        /\ req' = [req EXCEPT ![r] = [call |-> call, header |-> h]]
        /\ UNCHANGED <<injections, answer>>
  /\ UNCHANGED <<config, wsVars>>

\* Jitter and other requests decide which request wakes first.
Wake(r) ==
  /\ req[r] # None
  /\ Served(req[r].call, req[r].header)
  /\ req' = [req EXCEPT ![r] = None]
  /\ UNCHANGED <<config, wsVars>>

-----------------------------------------------------------------------------
(* The control plane.                                                      *)

ControlRefused ==
  /\ Answer("control", "InputException")
  /\ UNCHANGED <<config, injections, req, wsVars>>

\* How many fields of a body are assigned: those before its first bad value.
Accepted(body) ==
  CHOOSE n \in 0..Len(body) :
    /\ \A k \in 1..n : Valid(body[k][1], body[k][2])
    /\ n = Len(body) \/ ~Valid(body[n + 1][1], body[n + 1][2])

\* The latency after the first n assignments of a body.
After(body, n) ==
  [f \in Fields |-> IF \E k \in 1..n : body[k][1] = f
                    THEN body[CHOOSE k \in 1..n : body[k][1] = f][2] ELSE latency[f]]

\* Mutants of Assigned: assignments are not validated; the last is forgotten.
AssignedAll(body) == After(body, Len(body))
AssignedButLast(body) == After(body, Accepted(body) - 1)

Assigned(body) == After(body, Accepted(body))

Known(body) == \A k \in DOMAIN body : body[k][1] \in Fields

SetLatency(body) ==
  /\ Known(body)
  /\ latency' = Assigned(body)
  /\ Answer("control", IF Accepted(body) = Len(body) THEN "success" ELSE "InputException")
  /\ UNCHANGED <<auth, injections, req, wsVars>>

SetLatencyUnknown(body) == ~Known(body) /\ ControlRefused

SetError(b) ==
  \/ (b.endpoint = None \/ ~(b.clear \/ b.error_type)) /\ ControlRefused
  \/ /\ b.endpoint # None /\ (b.clear \/ b.error_type)
     /\ injections' = [injections EXCEPT ![b.endpoint] = IF b.clear THEN None ELSE b.count]
     /\ Answer("control", "success")
     /\ UNCHANGED <<config, req, wsVars>>

\* AppState.reset, as far as it concerns requests that have yet to be handled.
Reset ==
  /\ injections' = [e \in Endpoints |-> None]
  /\ Answer("control", "success")
  /\ UNCHANGED <<config, req, wsVars>>

-----------------------------------------------------------------------------
(* WebSocket clients and POST /_control/disconnect.  ws_clients are the    *)
(* registered connections, socket the state of each; disconnect is the     *)
(* request that is closing its targets, one await after the other.         *)

Connect(s) ==
  /\ socket[s] = "new"
  /\ IF CheckWsAuth(Params[s])
     THEN /\ socket' = [socket EXCEPT ![s] = "open"]
          /\ ws_clients' = Append(ws_clients, s)
          /\ UNCHANGED answer
     ELSE /\ socket' = [socket EXCEPT ![s] = "closed"]
          /\ Answer("ws", "1008")
          /\ UNCHANGED ws_clients
  /\ UNCHANGED <<config, injections, req, disconnect>>

\* The peer closes.
SocketEnds(s) ==
  /\ socket[s] = "open"
  /\ socket' = [socket EXCEPT ![s] = "closed"]
  /\ UNCHANGED <<config, injections, req, answer, ws_clients, disconnect>>

\* Mutant of Deregister: the longest connected is removed.
DeregisterFirst(s) ==
  /\ socket[s] = "closed" /\ s \in Elements(ws_clients)
  /\ ws_clients' = Tail(ws_clients)
  /\ UNCHANGED <<config, injections, req, answer, socket, disconnect>>

\* The end of TickerConnection.run, some time after its socket closed.
Deregister(s) ==
  /\ socket[s] = "closed"
  /\ \E k \in DOMAIN ws_clients :
       /\ ws_clients[k] = s /\ \A j \in 1..k - 1 : ws_clients[j] # s
       /\ ws_clients' = SubSeq(ws_clients, 1, k - 1) \o SubSeq(ws_clients, k + 1, Len(ws_clients))
  /\ UNCHANGED <<config, injections, req, answer, socket, disconnect>>

\* The connections of a key, or all of them, in the order they are registered.
OfKey(s, key) == key = None \/ Params[s].api_key = key
TargetsOf(key) ==
  LET among[n \in 0..Len(ws_clients)] ==
        IF n = 0 THEN <<>>
        ELSE IF OfKey(ws_clients[n], key) THEN Append(among[n - 1], ws_clients[n])
        ELSE among[n - 1]
  IN among[Len(ws_clients)]

Disconnect(key) ==
  /\ disconnect = None
  /\ disconnect' = [key |-> key, targets |-> TargetsOf(key), done |-> 0]
  /\ UNCHANGED <<config, injections, req, answer, ws_clients, socket>>

\* Mutant of Targets: the loop is over the live list.
LiveTargets == TargetsOf(disconnect.key)
Targets == disconnect.targets

CloseNext ==
  /\ disconnect # None
  /\ disconnect.done < Len(Targets)
  /\ socket' = [socket EXCEPT ![Targets[disconnect.done + 1]] = "closed"]
  /\ disconnect' = [disconnect EXCEPT !.done = @ + 1]
  /\ UNCHANGED <<config, injections, req, answer, ws_clients>>

DisconnectEnds ==
  /\ disconnect # None
  /\ disconnect.done >= Len(Targets)
  /\ disconnect' = None
  /\ Answer("control", "success")
  /\ UNCHANGED <<config, injections, req, ws_clients, socket>>

Requests ==
  \/ \E r \in Slots : Wake(r) \/ \E call \in Calls, h \in Headers : Arrive(r, call, h)

Control ==
  \/ \E body \in LatencyBodies : SetLatency(body) \/ SetLatencyUnknown(body)
  \/ \E b \in ErrorBodies : SetError(b)
  \/ Reset
  \/ \E key \in {Params[s].api_key : s \in Sockets} \cup {None} : Disconnect(key)
  \/ CloseNext \/ DisconnectEnds

Next ==
  \/ Requests \/ Control
  \/ \E s \in Sockets : Connect(s) \/ SocketEnds(s) \/ Deregister(s)

Spec == Init /\ [][Next]_vars

-----------------------------------------------------------------------------
(* Properties.                                                             *)

Outcomes == {"none", "success", "injected", "unhandled", "InputException", "TokenException", "1008"}

\* A request in its delay is one that was sent; registered connections have
\* been accepted and are registered once; a disconnect closes what it found.
TypeOK ==
  /\ auth \in Auths
  /\ DOMAIN latency = Fields /\ \A f \in Fields : latency[f] \in Int \cup {Text}
  /\ injections \in [Endpoints -> Int \cup {None, Text}]
  /\ req \in [Slots -> [call: Calls, header: Headers] \cup {None}]
  /\ answer \in [to: Endpoints \cup {"none", "control", "ws"}, outcome: Outcomes]
  /\ socket \in [Sockets -> {"new", "open", "closed"}]
  /\ ws_clients \in Seq(Sockets)
  /\ \A s \in Sockets :
       /\ socket[s] = "open" => s \in Elements(ws_clients)
       /\ s \in Elements(ws_clients) => socket[s] # "new"
  /\ \A j, k \in DOMAIN ws_clients : ws_clients[j] = ws_clients[k] => j = k
  /\ disconnect # None => disconnect.targets \in Seq(Sockets) /\ disconnect.done \in Nat

\* Whatever sequence of latency bodies, good, bad or half good, is sent: every
\* latency keeps a value the loops of the pushers can sleep for.
LatencyStaysValid == \A f \in Fields : Valid(f, latency[f])

\* set_latency answers success only if all of the body is in effect.  A refusal
\* (control.py:67) does not mean that nothing is: the fields before the first
\* bad one are, and only they.
LatencyAnswerIsHonest ==
  [][\A body \in LatencyBodies : answer'.to = "control" /\ SetLatency(body) =>
       LET set == {k \in DOMAIN body : latency'[body[k][1]] = body[k][2]}
           bad == {k \in DOMAIN body : ~Valid(body[k][1], body[k][2])}
       IN /\ answer'.outcome = "success" <=> bad = {}
          /\ bad = {} => set = DOMAIN body
          /\ \A k \in DOMAIN body : (\A b \in bad : k < b) => k \in set
          /\ \A f \in Fields : latency'[f] # latency[f] =>
               \E k \in set : body[k][1] = f /\ \A b \in bad : k < b]_vars

\* Forced errors are an ErrorBudget: of a whole count n exactly the next n
\* authenticated calls fail, a negative or a fractional one fails every call
\* until it is cleared, text fails them unhandled -- whichever requests of the
\* endpoint sleep meanwhile, and whenever budgets are set, cleared or reset.
BudgetOf(n) ==
  CASE n \in {None, 0} -> 0
    [] n = Text -> Text
    [] OTHER -> IF n > 0 /\ n % 2 = 0 THEN n \div 2 ELSE Forever

Refused ==
  \/ answer.outcome \in {"TokenException", "1008"}
  \/ answer.to = "control" /\ answer.outcome = "InputException"

Observed ==
  [to |-> answer.to,
   outcome |-> IF Refused THEN "refused"
               ELSE IF answer.outcome \in {"success", "InputException"} THEN "handled"
               ELSE answer.outcome]

Budget == INSTANCE ErrorBudget
            WITH left <- [e \in Endpoints |-> BudgetOf(injections[e])], answer <- Observed,
                 Broken <- Text

ImplementsErrorBudget == Budget!Spec

\* Three places read credentials on their own.  REST and WebSocket admit the
\* same clients, unless a key has a colon, and the rate limiter counts a request
\* that is admitted for the key it is admitted as.
DoorsAgree ==
  /\ \A p \in Credentials :
       ":" \notin Elements(p.api_key) => (Authenticated(HeaderOf(p)) <=> CheckWsAuth(p))
  /\ \A h \in Headers : Authenticated(h) => LimiterKey(h) = ParseRestAuth(h).api_key

\* A disconnect drops the connections that were registered for its key as it
\* began, all of them before it answers, and no other, while these and others
\* come and go between its awaits.
DisconnectDropsItsTargets ==
  [][disconnect # None =>
       /\ disconnect' = None =>
            \A k \in DOMAIN disconnect.targets : socket[disconnect.targets[k]] = "closed"
       /\ \A s \in Sockets : disconnect' # disconnect /\ socket'[s] # socket[s] =>
            disconnect.key \in {None, Params[s].api_key}]_vars
=============================================================================
