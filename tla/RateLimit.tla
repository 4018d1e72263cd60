----------------------------- MODULE RateLimit -----------------------------
(***************************************************************************)
(* The rate-limiting middleware (rest/ratelimit.py): a fixed window per    *)
(* second, kept per (api_key, endpoint class) and started over only when   *)
(* the key is next used.  dispatch has no await between its read of        *)
(* _windows and its write, so a request is one action.                     *)
(***************************************************************************)
EXTENDS Integers

CONSTANTS
  ApiKeys,          \* keys of well-formed authorization headers
  LIMITS,           \* class -> requests per second
  Enabled,          \* config.rate_limit.enabled
  None,
  MaxTime,          \* bound: seconds that may pass
  MaxRequests       \* bound: requests of one key in one second

Classes == {"quote", "order_place", "other"}
Methods == {"GET", "POST", "PUT", "DELETE"}
\* What dispatch and _endpoint_class tell apart of a path: "/", a prefix, or neither.
Paths == {"health", "_control", "quote", "orders/", "elsewhere"}
\* The key of an authorization header: a header without "token key:..." has none.
Headers == ApiKeys \cup {None}

Keys == (ApiKeys \cup {"anonymous"}) \X Classes

ASSUME RateLimitAssumption ==
  /\ LIMITS \in [Classes -> Nat]
  /\ Enabled \in BOOLEAN
  /\ None \notin ApiKeys /\ None \notin [second: Nat, count: Nat]
  /\ MaxTime \in Nat /\ MaxRequests \in Nat

VARIABLES
  clock,            \* int(time.time())
  windows,          \* _windows; None = no entry
  answer            \* key and outcome of the last request

vars == <<clock, windows, answer>>

Window == [second: Nat, count: Nat]

Init ==
  /\ clock = 0
  /\ windows = [k \in Keys |-> None]
  /\ answer = [key |-> None, outcome |-> "none"]

EndpointClass(method, path) ==
  IF path = "quote" THEN "quote"
  ELSE IF method = "POST" /\ path = "orders/" THEN "order_place" ELSE "other"

ApiKey(header) == IF header = None THEN "anonymous" ELSE header

\* Mutant of Current: the window of the last second is kept.
CurrentKept(k) == IF windows[k] = None THEN [second |-> clock, count |-> 0] ELSE windows[k]

\* Mutant of Current: the time is rounded up to the next second.
CurrentRoundedUp(k) ==
  IF windows[k] = None \/ windows[k].second # clock + 1
  THEN [second |-> clock + 1, count |-> 0]
  ELSE windows[k]

\* The window of k at this second.
Current(k) ==
  IF windows[k] = None \/ windows[k].second # clock
  THEN [second |-> clock, count |-> 0]
  ELSE windows[k]

Pass(path) ==
  /\ path \in {"health", "_control"} \/ ~Enabled
  /\ answer' = [key |-> None, outcome |-> "served"]
  /\ UNCHANGED <<clock, windows>>

Allowance(k) == LIMITS[k[2]]
Outcome(k, count) == IF count > Allowance(k) THEN "429" ELSE "served"

Count(k) ==
  LET w == [Current(k) EXCEPT !.count = @ + 1] IN
  /\ w.count <= MaxRequests
  /\ windows' = [windows EXCEPT ![k] = w]
  /\ answer' = [key |-> k, outcome |-> Outcome(k, w.count)]
  /\ UNCHANGED clock

Limited(method, path, header) ==
  /\ path \notin {"health", "_control"} /\ Enabled
  /\ Count(<<ApiKey(header), EndpointClass(method, path)>>)

Dispatch(method, path, header) == Pass(path) \/ Limited(method, path, header)

\* The clock moves on; it is assumed not to be set back.
Tick ==
  /\ clock < MaxTime
  /\ clock' = clock + 1
  /\ UNCHANGED <<windows, answer>>

Next ==
  \/ \E method \in Methods, path \in Paths, header \in Headers : Dispatch(method, path, header)
  \/ Tick

Spec == Init /\ [][Next]_vars

-----------------------------------------------------------------------------
(* Properties.                                                             *)

\* Windows are dated now or earlier and have counted at least one request.
TypeOK ==
  /\ clock \in 0..MaxTime
  /\ windows \in [Keys -> Window \cup {None}]
  /\ \A k \in Keys : windows[k] # None => windows[k].second <= clock /\ windows[k].count > 0
  /\ answer \in [key: Keys \cup {None}, outcome: {"none", "served", "429"}]

\* The requests of k that were served in this second.
Served(k) == IF Current(k).count > Allowance(k) THEN Allowance(k) ELSE Current(k).count

Abstract == INSTANCE Throttle WITH served <- [k \in Keys |-> Served(k)]

\* Windows that are started over only when used, and go on counting refused
\* requests, serve and refuse exactly as counters cleared at every second.
ImplementsThrottle == Abstract!Spec
=============================================================================
