-------------------------- MODULE RateLimit_proofs --------------------------
(***************************************************************************)
(* Proofs about RateLimit, for any keys, limits and bounds.                *)
(***************************************************************************)
EXTENDS RateLimit, TLAPS

\* The window of a key at this second is one that could have been stored now.
LEMMA CurrentType ==
  ASSUME TypeOK, NEW k \in Keys
  PROVE  Current(k) \in Window /\ Current(k).second = clock
<1>1. windows[k] \in Window \cup {None} /\ clock \in Nat
  BY RateLimitAssumption DEF TypeOK
<1> QED
  BY <1>1 DEF Current, Window

LEMMA AllowanceType ==
  ASSUME NEW k \in Keys
  PROVE  Allowance(k) \in Nat
BY RateLimitAssumption DEF Allowance, Keys

\* What a counted request leaves in the window of its key.
LEMMA CountWrites ==
  ASSUME TypeOK, NEW k \in Keys, Count(k)
  PROVE  LET w == [second |-> clock, count |-> Current(k).count + 1] IN
         /\ w \in Window /\ w.count > 0
         /\ windows' = [windows EXCEPT ![k] = w]
         /\ answer' = [key |-> k, outcome |-> Outcome(k, w.count)]
         /\ UNCHANGED clock
<1> DEFINE w == [second |-> clock, count |-> Current(k).count + 1]
<1>1. Current(k) \in Window /\ Current(k).second = clock
  BY CurrentType
<1>2. [Current(k) EXCEPT !.count = @ + 1] = w /\ w \in Window /\ w.count > 0
  BY <1>1 DEF Window
<1>3. windows' = [windows EXCEPT ![k] = w]
  BY <1>2 DEF Count
<1>4. answer' = [key |-> k, outcome |-> Outcome(k, w.count)] /\ UNCHANGED clock
  BY <1>2 DEF Count
<1> QED
  BY <1>2, <1>3, <1>4

\* A request either passes or is counted for some key.
LEMMA NextKinds ==
  ASSUME Next
  PROVE  (\E path \in Paths : Pass(path)) \/ (\E k \in Keys : Count(k)) \/ Tick
<1>1. ASSUME NEW method \in Methods, NEW path \in Paths, NEW header \in Headers,
             Limited(method, path, header)
      PROVE  \E k \in Keys : Count(k)
  <2>1. <<ApiKey(header), EndpointClass(method, path)>> \in Keys
    BY DEF ApiKey, EndpointClass, Keys, Headers, Classes
  <2> QED
    BY <1>1, <2>1 DEF Limited
<1> QED
  BY <1>1 DEF Next, Dispatch

LEMMA TypeStep ==
  ASSUME TypeOK, [Next]_vars
  PROVE  TypeOK'
<1>1. ASSUME NEW path \in Paths, Pass(path)
      PROVE  TypeOK'
  BY <1>1 DEF Pass, TypeOK
<1>2. ASSUME NEW k \in Keys, Count(k)
      PROVE  TypeOK'
  <2> DEFINE w == [second |-> clock, count |-> Current(k).count + 1]
  <2>1. /\ w \in Window /\ w.count > 0
        /\ windows' = [windows EXCEPT ![k] = w]
        /\ answer' = [key |-> k, outcome |-> Outcome(k, w.count)]
        /\ UNCHANGED clock
    BY <1>2, CountWrites
  <2>2. windows' \in [Keys -> Window \cup {None}]
    BY <2>1 DEF TypeOK
  <2>3. ASSUME NEW j \in Keys, windows'[j] # None
        PROVE  windows'[j].second <= clock /\ windows'[j].count > 0
    <3>1. clock \in Nat /\ w.second = clock
      BY RateLimitAssumption DEF TypeOK
    <3> HIDE DEF w
    <3> QED
      BY <2>1, <2>3, <3>1 DEF TypeOK
  <2>4. answer' \in [key: Keys \cup {None}, outcome: {"none", "served", "429"}]
    BY <2>1 DEF Outcome
  <2> QED
    BY <2>1, <2>2, <2>3, <2>4 DEF TypeOK
<1>3. CASE Tick
  <2>1. clock \in Nat /\ clock' = clock + 1 /\ clock' \in 0..MaxTime /\ UNCHANGED <<windows, answer>>
    BY <1>3, RateLimitAssumption DEF Tick, TypeOK
  <2>2. ASSUME NEW k \in Keys, windows[k] # None
        PROVE  windows[k].second <= clock + 1
    <3>1. windows[k].second \in Nat /\ windows[k].second <= clock
      BY <2>2 DEF TypeOK, Window
    <3> QED
      BY <2>1, <3>1
  <2> QED
    BY <2>1, <2>2 DEF TypeOK
<1>4. CASE UNCHANGED vars
  BY <1>4 DEF vars, TypeOK
<1> QED
  BY <1>1, <1>2, <1>3, <1>4, NextKinds

\* Windows are well formed and never dated ahead of the clock.
THEOREM TypeCorrect == Spec => []TypeOK
<1>1. Init => TypeOK
  BY RateLimitAssumption DEF Init, TypeOK
<1>2. TypeOK /\ [Next]_vars => TypeOK'
  BY TypeStep
<1> QED
  BY <1>1, <1>2, PTL DEF Spec

-----------------------------------------------------------------------------
(* Lazily restarted windows implement counters cleared at every second.    *)

\* A key without a window of this second has been served nothing in it.
LEMMA FreshServed ==
  ASSUME NEW k \in Keys, windows[k] = None \/ windows[k].second # clock
  PROVE  Served(k) = 0
<1>1. Current(k).count = 0
  BY DEF Current
<1>2. ~(0 > Allowance(k))
  BY AllowanceType
<1> QED
  BY <1>1, <1>2 DEF Served

LEMMA ThrottleStep ==
  ASSUME TypeOK, [Next]_vars
  PROVE  [Abstract!Next]_<<clock, [k \in Keys |-> Served(k)], answer>>
<1>1. ASSUME UNCHANGED <<clock, windows>>
      PROVE  [k \in Keys |-> Served(k)]' = [k \in Keys |-> Served(k)]
  BY <1>1 DEF Served, Current
<1>2. ASSUME NEW path \in Paths, Pass(path)
      PROVE  Abstract!Next
  BY <1>1, <1>2 DEF Pass, Abstract!Next, Abstract!Exempt
<1>3. ASSUME NEW k \in Keys, Count(k)
      PROVE  Abstract!Next
  <2> DEFINE w == [second |-> clock, count |-> Current(k).count + 1]
  <2>1. /\ w \in Window /\ windows' = [windows EXCEPT ![k] = w] /\ UNCHANGED clock
        /\ answer' = [key |-> k, outcome |-> Outcome(k, w.count)]
    BY <1>3, CountWrites
  <2>2. w # None /\ windows'[k] = w /\ w.second = clock
    BY <2>1, RateLimitAssumption DEF TypeOK, Window
  <2>3. Current(k)' = w
    BY <2>1, <2>2 DEF Current
  <2>4. Current(k).count \in Nat /\ w.count = Current(k).count + 1 /\ Allowance(k) \in Nat
    BY CurrentType, AllowanceType DEF Window
  <2>5. ASSUME NEW j \in Keys, j # k
        PROVE  Served(j)' = Served(j)
    <3>1. windows'[j] = windows[j]
      BY <2>1, <2>5 DEF TypeOK
    <3> QED
      BY <2>1, <3>1 DEF Served, Current, Allowance
  <2>6. Served(k)' = IF w.count > Allowance(k) THEN Allowance(k) ELSE w.count
    BY <2>3 DEF Served, Allowance
  <2> HIDE DEF w
  <2>7. CASE w.count > Allowance(k)
    <3>1. Served(k) = Allowance(k) /\ Served(k)' = Allowance(k)
      BY <2>4, <2>6, <2>7 DEF Served
    <3>2. [j \in Keys |-> Served(j)]' = [j \in Keys |-> Served(j)]
      BY <2>5, <3>1
    <3>3. Abstract!Refuse(k)
      BY <2>1, <2>7, <3>1, <3>2 DEF Abstract!Refuse, Outcome
    <3> QED
      BY <3>3 DEF Abstract!Next
  <2>8. CASE ~(w.count > Allowance(k))
    <3>1. Served(k) < Allowance(k) /\ Served(k)' = Served(k) + 1
      BY <2>4, <2>6, <2>8 DEF Served
    <3>2. [j \in Keys |-> Served(j)]' = [[j \in Keys |-> Served(j)] EXCEPT ![k] = @ + 1]
      BY <2>5, <3>1
    <3>3. Abstract!Serve(k)
      BY <2>1, <2>8, <3>1, <3>2 DEF Abstract!Serve, Outcome
    <3> QED
      BY <3>3 DEF Abstract!Next
  <2> QED
    BY <2>7, <2>8
<1>4. CASE Tick
  <2>1. clock \in Nat /\ clock' = clock + 1 /\ UNCHANGED <<windows, answer>>
    BY <1>4, RateLimitAssumption DEF Tick, TypeOK
  <2>2. ASSUME NEW k \in Keys
        PROVE  Served(k)' = 0
    <3>1. windows[k] = None \/ (windows[k].second \in Nat /\ windows[k].second <= clock)
      BY DEF TypeOK, Window
    <3>2. windows'[k] = None \/ windows'[k].second # clock'
      BY <2>1, <3>1
    <3>3. Current(k)'.count = 0
      BY <3>2 DEF Current
    <3>4. ~(0 > Allowance(k))
      BY AllowanceType
    <3> QED
      BY <3>3, <3>4 DEF Served, Allowance
  <2>3. [k \in Keys |-> Served(k)]' = [k \in Keys |-> 0]
    BY <2>2
  <2> QED
    BY <2>1, <2>3 DEF Abstract!Next, Abstract!NewSecond
<1>5. CASE UNCHANGED vars
  BY <1>1, <1>5 DEF vars
<1> QED
  BY <1>2, <1>3, <1>4, <1>5, NextKinds

\* The middleware serves and refuses exactly as Throttle, for any limits.
THEOREM ThrottleImplemented == Spec => ImplementsThrottle
<1>1. Init => Abstract!Init
  BY FreshServed DEF Init, Abstract!Init
<1>2. TypeOK /\ [Next]_vars => [Abstract!Next]_<<clock, [k \in Keys |-> Served(k)], answer>>
  BY ThrottleStep
<1> QED
  BY <1>1, <1>2, TypeCorrect, PTL DEF Spec, ImplementsThrottle, Abstract!Spec
=============================================================================
