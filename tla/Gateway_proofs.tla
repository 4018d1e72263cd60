--------------------------- MODULE Gateway_proofs ---------------------------
(***************************************************************************)
(* Proofs about what every request passes, for any clients, bodies and     *)
(* counts: latencies, credentials and the budget of forced errors; and     *)
(* about the connections a disconnect drops.                               *)
(***************************************************************************)
EXTENDS Gateway, SequenceTheorems, Lemmas

-----------------------------------------------------------------------------
(* POST /_control/latency.                                                 *)

\* The assignments that take place: all good, and the next one, if any, is bad.
LEMMA AcceptedIsPrefix ==
  ASSUME NEW body \in LatencyBodies
  PROVE  /\ Len(body) \in Nat /\ DOMAIN body = 1..Len(body)
         /\ Accepted(body) \in 0..Len(body)
         /\ \A k \in 1..Accepted(body) : Valid(body[k][1], body[k][2])
         /\ \/ Accepted(body) = Len(body)
            \/ ~Valid(body[Accepted(body) + 1][1], body[Accepted(body) + 1][2])
<1> DEFINE Good(k) == Valid(body[k][1], body[k][2])
           bad == {k \in 1..Len(body) : ~Good(k)}
<1>1. Len(body) \in Nat /\ DOMAIN body = 1..Len(body)
  BY GatewayAssumption, LenProperties
<1> HIDE DEF Good
<1>2. \E n \in 0..Len(body) :
        (\A k \in 1..n : Good(k)) /\ (n = Len(body) \/ ~Good(n + 1))
  <2>1. CASE bad = {}
    <3>1. \A k \in 1..Len(body) : Good(k)
      BY <2>1
    <3>2. Len(body) \in 0..Len(body)
      BY <1>1
    <3> WITNESS Len(body) \in 0..Len(body)
    <3> QED
      BY <3>1
  <2>2. CASE bad # {}
    <3>1. bad \subseteq Nat
      BY <1>1
    <3>2. PICK m \in bad : \A j \in bad : m <= j
      <4> HIDE DEF bad
      <4> QED
        BY <2>2, <3>1, LeastOf
    <3>3. m \in 1..Len(body) /\ ~Good(m)
      OBVIOUS
    <3>4. \A k \in 1..m - 1 : Good(k)
      BY <1>1, <3>2, <3>3
    <3>5. m - 1 \in 0..Len(body) /\ (m - 1) + 1 = m
      BY <1>1, <3>3
    <3> QED
      BY <3>3, <3>4, <3>5
  <2> QED
    BY <2>1, <2>2
<1>3. Accepted(body) = CHOOSE n \in 0..Len(body) :
                         (\A k \in 1..n : Good(k)) /\ (n = Len(body) \/ ~Good(n + 1))
  BY DEF Accepted, Good
<1>4. /\ Accepted(body) \in 0..Len(body)
      /\ \A k \in 1..Accepted(body) : Good(k)
      /\ Accepted(body) = Len(body) \/ ~Good(Accepted(body) + 1)
  BY <1>2, <1>3
<1> QED
  BY <1>1, <1>4 DEF Good

\* What each assignment leaves behind.
LEMMA AssignedFields ==
  ASSUME NEW body \in LatencyBodies
  PROVE  /\ DOMAIN Assigned(body) = Fields
         /\ \A k \in 1..Accepted(body) : body[k][1] \in Fields =>
              Assigned(body)[body[k][1]] = body[k][2]
         /\ \A f \in Fields :
              \/ Assigned(body)[f] = latency[f]
              \/ \E k \in 1..Accepted(body) : body[k][1] = f
<1> DEFINE n == Accepted(body)
<1>1. 1..n \subseteq DOMAIN body
  BY AcceptedIsPrefix
<1>2. \A j, k \in DOMAIN body : body[j][1] = body[k][1] => j = k
  BY GatewayAssumption
<1> HIDE DEF n
<1>3. Assigned(body) =
        [f \in Fields |-> IF \E k \in 1..n : body[k][1] = f
                          THEN body[CHOOSE k \in 1..n : body[k][1] = f][2] ELSE latency[f]]
  BY DEF Assigned, After, n
<1>4. ASSUME NEW k \in 1..n, body[k][1] \in Fields
      PROVE  Assigned(body)[body[k][1]] = body[k][2]
  <2> DEFINE j == CHOOSE j \in 1..n : body[j][1] = body[k][1]
  <2>1. j \in 1..n /\ body[j][1] = body[k][1]
    OBVIOUS
  <2>2. j = k
    BY <1>1, <1>2, <2>1
  <2>3. Assigned(body)[body[k][1]] = body[j][2]
    BY <1>3, <1>4
  <2> QED
    BY <2>2, <2>3
<1>5. ASSUME NEW f \in Fields, Assigned(body)[f] # latency[f]
      PROVE  \E k \in 1..n : body[k][1] = f
  BY <1>3, <1>5
<1> QED
  BY <1>3, <1>4, <1>5 DEF n

LatencyKept == DOMAIN latency = Fields /\ LatencyStaysValid

LEMMA LatencyStep ==
  ASSUME LatencyKept, [Next]_vars
  PROVE  LatencyKept'
<1>1. ASSUME NEW body \in LatencyBodies, SetLatency(body)
      PROVE  LatencyKept'
  <2>1. latency' = Assigned(body)
    BY <1>1 DEF SetLatency
  <2>2. ASSUME NEW f \in Fields
        PROVE  Valid(f, Assigned(body)[f])
    <3>1. CASE Assigned(body)[f] = latency[f]
      BY <3>1 DEF LatencyKept, LatencyStaysValid
    <3>2. ASSUME NEW k \in 1..Accepted(body), body[k][1] = f
          PROVE  Valid(f, Assigned(body)[f])
      BY <3>2, AssignedFields, AcceptedIsPrefix
    <3> QED
      BY <3>1, <3>2, AssignedFields
  <2> QED
    BY <2>1, <2>2, AssignedFields DEF LatencyKept, LatencyStaysValid
<1>2. Next => UNCHANGED latency \/ \E body \in LatencyBodies : SetLatency(body)
  BY DEF Next, Requests, Control, Wake, Arrive, SetLatencyUnknown, ControlRefused, SetError, Reset,
         Disconnect, CloseNext, DisconnectEnds, Connect, SocketEnds, Deregister, config
<1>3. CASE UNCHANGED latency
  BY <1>3 DEF LatencyKept, LatencyStaysValid
<1> QED
  BY <1>1, <1>2, <1>3 DEF vars, config

\* No sequence of bodies, however many are refused half way, leaves a latency
\* no pusher could sleep for.
THEOREM LatencyAlwaysValid == Spec => []LatencyStaysValid
<1>1. Init => LatencyKept
  BY GatewayAssumption DEF Init, LatencyKept, LatencyStaysValid
<1>2. LatencyKept /\ [Next]_vars => LatencyKept'
  BY LatencyStep
<1>3. LatencyKept => LatencyStaysValid
  BY DEF LatencyKept
<1> QED
  BY <1>1, <1>2, <1>3, PTL DEF Spec

\* Success is answered if and only if all of the body is in effect; after a
\* refusal the assignments before the first bad one are, and no other field has
\* changed.
THEOREM LatencyAnswersAreHonest == Spec => LatencyAnswerIsHonest
<1>1. ASSUME NEW body \in LatencyBodies, SetLatency(body)
      PROVE  LET set == {k \in DOMAIN body : latency'[body[k][1]] = body[k][2]}
                 bad == {k \in DOMAIN body : ~Valid(body[k][1], body[k][2])}
             IN /\ answer'.outcome = "success" <=> bad = {}
                /\ bad = {} => set = DOMAIN body
                /\ \A k \in DOMAIN body : (\A b \in bad : k < b) => k \in set
                /\ \A f \in Fields : latency'[f] # latency[f] =>
                     \E k \in set : body[k][1] = f /\ \A b \in bad : k < b
  <2> DEFINE set == {k \in DOMAIN body : latency'[body[k][1]] = body[k][2]}
             bad == {k \in DOMAIN body : ~Valid(body[k][1], body[k][2])}
             n == Accepted(body)
  <2>1. /\ Len(body) \in Nat /\ DOMAIN body = 1..Len(body)
        /\ n \in 0..Len(body)
        /\ \A k \in 1..n : k \notin bad
        /\ n = Len(body) \/ n + 1 \in bad
    <3>1. ASSUME n # Len(body)
          PROVE  n + 1 \in DOMAIN body
      BY <3>1, AcceptedIsPrefix
    <3> QED
      BY <3>1, AcceptedIsPrefix
  <2>2. /\ \A k \in 1..n : k \in set
        /\ \A f \in Fields : latency'[f] # latency[f] => \E k \in 1..n : body[k][1] = f
    <3>1. latency' = Assigned(body) /\ \A k \in DOMAIN body : body[k][1] \in Fields
      BY <1>1 DEF SetLatency, Known
    <3>2. 1..n \subseteq DOMAIN body
      BY <2>1
    <3> HIDE DEF n
    <3>3. /\ \A k \in 1..n : body[k][1] \in Fields => Assigned(body)[body[k][1]] = body[k][2]
          /\ \A f \in Fields : \/ Assigned(body)[f] = latency[f]
                               \/ \E k \in 1..n : body[k][1] = f
      BY AssignedFields DEF n
    <3> QED
      BY <3>1, <3>2, <3>3
  <2>3. answer'.outcome = "success" <=> n = Len(body)
    BY <1>1 DEF SetLatency, Answer
  <2> HIDE DEF set, bad, n
  <2>4. bad \subseteq 1..Len(body)
    BY <2>1 DEF bad
  <2>5. bad = {} <=> n = Len(body)
    BY <2>1, <2>4
  <2>6. ASSUME NEW k \in 1..n, NEW b \in bad
        PROVE  k < b
    <3>1. b \in 1..Len(body) /\ b \notin 1..n
      BY <2>1, <2>4
    <3>2. Len(body) \in Nat /\ n \in 0..Len(body)
      BY <2>1
    <3> HIDE DEF bad
    <3> QED
      BY <3>1, <3>2
  <2>7. ASSUME NEW k \in DOMAIN body, \A b \in bad : k < b
        PROVE  k \in 1..n
    <3>1. CASE n = Len(body)
      BY <2>1, <3>1
    <3>2. CASE n + 1 \in bad
      <4>1. k < n + 1 /\ k \in 1..Len(body)
        BY <2>1, <2>7, <3>2
      <4>2. Len(body) \in Nat /\ n \in 0..Len(body)
        BY <2>1
      <4> QED
        BY <4>1, <4>2
    <3> QED
      BY <2>1, <3>1, <3>2
  <2>8. set \subseteq DOMAIN body
    BY DEF set
  <2>9. bad = {} => set = DOMAIN body
    BY <2>1, <2>2, <2>5, <2>8
  <2>10. \A f \in Fields : latency'[f] # latency[f] =>
           \E k \in set : body[k][1] = f /\ \A b \in bad : k < b
    BY <2>2, <2>6
  <2>11. \A k \in DOMAIN body : (\A b \in bad : k < b) => k \in set
    BY <2>2, <2>7
  <2> QED
    BY <2>3, <2>5, <2>9, <2>10, <2>11 DEF set, bad
<1>2. [Next]_vars =>
        [\A body \in LatencyBodies : answer'.to = "control" /\ SetLatency(body) =>
           LET set == {k \in DOMAIN body : latency'[body[k][1]] = body[k][2]}
               bad == {k \in DOMAIN body : ~Valid(body[k][1], body[k][2])}
           IN /\ answer'.outcome = "success" <=> bad = {}
              /\ bad = {} => set = DOMAIN body
              /\ \A k \in DOMAIN body : (\A b \in bad : k < b) => k \in set
              /\ \A f \in Fields : latency'[f] # latency[f] =>
                   \E k \in set : body[k][1] = f /\ \A b \in bad : k < b]_vars
  BY <1>1
<1> QED
  BY <1>2, PTL DEF Spec, LatencyAnswerIsHonest

-----------------------------------------------------------------------------
(* Credentials.                                                            *)

\* What is left of a sequence after its first k + 1 elements.
LEMMA RestOf ==
  ASSUME NEW C, NEW s \in Seq(C), NEW k \in Nat, NEW l \in Nat, Len(s) = k + 1 + l
  PROVE  LET u == SubSeq(s, k + 2, Len(s))
         IN u \in Seq(C) /\ Len(u) = l /\ \A i \in 1..l : u[i] = s[k + 1 + i]
<1> DEFINE m == k + 2
           n == Len(s)
           u == SubSeq(s, m, n)
<1>1. m \in Int /\ n \in Int /\ \A i \in m..n : s[i] \in C
  BY ElementOfSeq
<1>2. /\ u \in Seq(C) /\ Len(u) = (IF m <= n THEN n - m + 1 ELSE 0)
      /\ \A i \in 1..n - m + 1 : u[i] = s[m + i - 1]
  <2> HIDE DEF m, n
  <2> QED
    BY <1>1, SubSeqProperties
<1>3. n - m + 1 = l /\ \A i \in 1..l : m + i - 1 = k + 1 + i
  OBVIOUS
<1>4. Len(u) = l
  <2> HIDE DEF u
  <2> QED
    BY <1>1, <1>2
<1> HIDE DEF u
<1>5. \A i \in 1..l : u[i] = s[k + 1 + i]
  BY <1>2, <1>3
<1> QED
  BY <1>2, <1>4, <1>5 DEF u

\* The header of a client is split where the client joined it, if its key has
\* no colon.
LEMMA HeaderSplits ==
  ASSUME NEW k \in Seq(Chars), NEW t \in Seq(Chars), ":" \notin Elements(k)
  PROVE  LET s == k \o <<":">> \o t
         IN /\ s \in Seq(Chars) /\ ":" \in Elements(s)
            /\ KeyPart(s) = k /\ TokenPart(s) = t
<1> DEFINE colon == <<":">>
           s == (k \o colon) \o t
<1>1. colon \in Seq(Chars) /\ Len(colon) = 1 /\ colon[1] = ":"
  <2>1. ":" \in Chars
    BY GatewayAssumption
  <2> QED
    BY <2>1
<1> HIDE DEF colon
<1>2. /\ k \o colon \in Seq(Chars) /\ Len(k \o colon) = Len(k) + 1
      /\ \A i \in 1..Len(k) + 1 :
           (k \o colon)[i] = IF i <= Len(k) THEN k[i] ELSE colon[i - Len(k)]
  <2>1. /\ k \o colon \in Seq(Chars) /\ Len(k \o colon) = Len(k) + Len(colon)
        /\ \A i \in 1..Len(k) + Len(colon) :
             (k \o colon)[i] = IF i <= Len(k) THEN k[i] ELSE colon[i - Len(k)]
    BY <1>1, ConcatProperties, Zenon
  <2> QED
    BY <1>1, <2>1
<1>3. Len(k) \in Nat /\ Len(t) \in Nat /\ DOMAIN k = 1..Len(k)
  BY LenProperties
<1>4. /\ s \in Seq(Chars) /\ Len(s) = Len(k) + 1 + Len(t)
      /\ \A i \in 1..Len(s) :
           s[i] = IF i <= Len(k) + 1 THEN (k \o colon)[i] ELSE t[i - (Len(k) + 1)]
  <2> DEFINE kc == k \o colon
  <2>1. kc \in Seq(Chars) /\ Len(kc) = Len(k) + 1
    BY <1>2
  <2> HIDE DEF kc
  <2>2. /\ kc \o t \in Seq(Chars) /\ Len(kc \o t) = Len(kc) + Len(t)
        /\ \A i \in 1..Len(kc) + Len(t) :
             (kc \o t)[i] = IF i <= Len(kc) THEN kc[i] ELSE t[i - Len(kc)]
    BY <2>1, ConcatProperties
  <2> QED
    BY <2>1, <2>2 DEF kc
<1>5. DOMAIN s = 1..Len(s)
  BY <1>4, LenProperties
<1> HIDE DEF s
<1>6. s[Len(k) + 1] = ":"
  <2>1. Len(k) + 1 \in 1..Len(s) /\ Len(k) + 1 - Len(k) = 1 /\ ~(Len(k) + 1 <= Len(k))
    BY <1>3, <1>4
  <2> QED
    BY <1>1, <1>2, <1>3, <1>4, <2>1
<1>7. \A i \in 1..Len(k) : i \in 1..Len(s) /\ s[i] = k[i] /\ s[i] # ":"
  <2>1. \A i \in 1..Len(k) : i \in 1..Len(s) /\ i \in 1..Len(k) + 1
    BY <1>3, <1>4
  <2>2. \A i \in 1..Len(k) : k[i] # ":"
    BY <1>3 DEF Elements
  <2>3. \A i \in 1..Len(k) : i <= Len(k) /\ i <= Len(k) + 1
    BY <1>3
  <2> QED
    BY <1>2, <1>4, <2>1, <2>2, <2>3
<1>8. Colon(s) = Len(k) + 1
  <2>1. /\ Len(k) + 1 \in DOMAIN s
        /\ \A j \in 1..(Len(k) + 1) - 1 : s[j] # ":"
    BY <1>3, <1>4, <1>5, <1>7
  <2>2. \A i \in DOMAIN s : s[i] = ":" /\ (\A j \in 1..i - 1 : s[j] # ":") => i = Len(k) + 1
    BY <1>3, <1>4, <1>5, <1>6, <1>7
  <2> QED
    BY <1>6, <2>1, <2>2 DEF Colon
<1>9. KeyPart(s) = k
  <2>1. KeyPart(s) = SubSeq(s, 1, Len(k))
    BY <1>3, <1>8 DEF KeyPart
  <2>2. /\ SubSeq(s, 1, Len(k)) \in Seq(Chars) /\ Len(SubSeq(s, 1, Len(k))) = Len(k)
        /\ \A i \in 1..Len(k) : SubSeq(s, 1, Len(k))[i] = s[i]
    BY <1>3, <1>4, SubSeqProperties
  <2> QED
    BY <1>7, <2>1, <2>2, SeqEqual
<1>10. TokenPart(s) = t
  <2> DEFINE u == SubSeq(s, Len(k) + 2, Len(s))
  <2>1. TokenPart(s) = u
    BY <1>3, <1>8 DEF TokenPart
  <2>2. /\ u \in Seq(Chars) /\ Len(u) = Len(t)
        /\ \A i \in 1..Len(t) : u[i] = s[Len(k) + 1 + i]
    BY <1>3, <1>4, RestOf
  <2>3. ASSUME NEW i \in 1..Len(t)
        PROVE  s[Len(k) + 1 + i] = t[i]
    <3> DEFINE j == Len(k) + 1 + i
    <3>1. j \in 1..Len(s) /\ ~(j <= Len(k) + 1) /\ j - (Len(k) + 1) = i
      BY <1>3, <1>4
    <3> HIDE DEF j
    <3>2. s[j] = t[i]
      BY <1>4, <3>1
    <3> QED
      BY <3>2 DEF j
  <2> QED
    BY <2>1, <2>2, <2>3, SeqEqual
<1>11. ":" \in Elements(s)
  <2>1. Len(k) + 1 \in DOMAIN s
    BY <1>3, <1>4, <1>5
  <2> QED
    BY <1>6, <2>1 DEF Elements
<1>12. s = k \o <<":">> \o t
  BY DEF s, colon
<1> QED
  BY <1>4, <1>9, <1>10, <1>11, <1>12

\* REST and WebSocket admit the same clients, and the rate limiter counts a
\* request for the key it is admitted as, whatever keys, tokens and headers
\* there are.
THEOREM DoorsAlwaysAgree == Spec => []DoorsAgree
<1>1. ASSUME NEW p \in Credentials, ":" \notin Elements(p.api_key)
      PROVE  Authenticated(HeaderOf(p)) <=> CheckWsAuth(p)
  <2> DEFINE k == p.api_key
             t == p.access_token
             s == k \o <<":">> \o t
             h == HeaderOf(p)
             creds == [api_key |-> k, access_token |-> t]
  <2>1. k \in Seq(Chars) /\ t \in Seq(Chars) /\ p = creds
    BY GatewayAssumption DEF Credentials
  <2>2. s \in Seq(Chars) /\ ":" \in Elements(s) /\ KeyPart(s) = k /\ TokenPart(s) = t
    BY <1>1, <2>1, HeaderSplits
  <2>3. h = [scheme |-> "token", rest |-> s]
    BY DEF HeaderOf
  <2> HIDE DEF s
  <2>4. h # None
    <3>2. [scheme |-> "token", rest |-> s] \in [scheme: {"token"}, rest: Seq(Chars)]
      BY <2>2
    <3> QED
      BY <2>3, <3>2, GatewayAssumption
  <2>5. h.scheme = "token" /\ h.rest = s
    BY <2>3
  <2> HIDE DEF h
  <2>6. ParseRestAuth(h) = IF k # <<>> /\ t # <<>> THEN creds ELSE None
    BY <2>2, <2>4, <2>5 DEF ParseRestAuth
  <2>7. creds # None
    BY <2>1, GatewayAssumption
  <2>8. Permitted(p) = Permitted(creds)
    BY <2>1
  <2> HIDE DEF k, t, creds
  <2>9. Authenticated(h) <=> k # <<>> /\ t # <<>> /\ Permitted(creds)
    BY <2>6, <2>7 DEF Authenticated
  <2>10. CheckWsAuth(p) <=> k # <<>> /\ t # <<>> /\ Permitted(p)
    BY DEF CheckWsAuth, k, t
  <2> QED
    BY <2>8, <2>9, <2>10 DEF h
<1>2. ASSUME NEW h \in Headers, Authenticated(h)
      PROVE  LimiterKey(h) = ParseRestAuth(h).api_key
  <2>1. /\ h # None /\ h.scheme = "token" /\ ":" \in Elements(h.rest)
        /\ ParseRestAuth(h) =
             [api_key |-> KeyPart(h.rest), access_token |-> TokenPart(h.rest)]
    BY <1>2 DEF Authenticated, ParseRestAuth
  <2>2. ParseRestAuth(h).api_key = KeyPart(h.rest)
    BY <2>1
  <2>3. LimiterKey(h) = KeyPart(h.rest)
    BY <2>1, Zenon DEF LimiterKey, KeyPart
  <2> QED
    BY <2>2, <2>3
<1>3. DoorsAgree
  BY <1>1, <1>2 DEF DoorsAgree
<1> QED
  BY <1>3, PTL

-----------------------------------------------------------------------------
(* Forced errors.                                                          *)

Counts == Int \cup {None, Text}

\* What is injected and asked for, as far as the budgets depend on it.
Tallied ==
  /\ injections \in [Endpoints -> Counts]
  /\ req \in [Slots -> [call: Calls, header: Headers] \cup {None}]

\* The budget a count stands for: none, or one that can be spent.
LEMMA BudgetsOfCounts ==
  ASSUME NEW n \in Counts
  PROVE  /\ BudgetOf(n) \in Nat \cup {Forever, Text}
         /\ BudgetOf(n) = 0 <=> n \in {None, 0}
         /\ BudgetOf(n) = Text <=> n = Text
<1>1. /\ Text \notin Int /\ None \notin Int /\ Forever \notin Int
      /\ Text # None /\ Forever \notin {Text, None}
  BY GatewayAssumption
<1>2. CASE n \in {None, 0}
  BY <1>1, <1>2 DEF BudgetOf
<1>3. CASE n = Text
  BY <1>1, <1>3 DEF BudgetOf
<1>4. CASE n \in Int \ {0}
  <2>1. BudgetOf(n) = IF n > 0 /\ n % 2 = 0 THEN n \div 2 ELSE Forever
    BY <1>1, <1>4 DEF BudgetOf
  <2>2. n > 0 /\ n % 2 = 0 => n \div 2 \in Nat \ {0}
    BY <1>4
  <2> QED
    BY <1>1, <1>4, <2>1, <2>2
<1> QED
  BY <1>2, <1>3, <1>4 DEF Counts

\* A call that fails spends one of the budget, if it is one of whole calls.
LEMMA SpendingOne ==
  ASSUME NEW n \in Int \ {0}
  PROVE  /\ Spent(n) \in Counts
         /\ BudgetOf(Spent(n)) =
              IF BudgetOf(n) \in {Forever, Text} THEN BudgetOf(n) ELSE BudgetOf(n) - 1
<1>1. /\ Text \notin Int /\ None \notin Int /\ Forever \notin Int
      /\ Text # None /\ Forever \notin {Text, None}
  BY GatewayAssumption
<1>2. \A m \in Int \ {0} :
        BudgetOf(m) = IF m > 0 /\ m % 2 = 0 THEN m \div 2 ELSE Forever
  BY <1>1 DEF BudgetOf
<1>3. Spent(n) \in Counts
  BY DEF Spent, Counts
<1>4. CASE n = 2
  <2>1. BudgetOf(n) = 1
    BY <1>2, <1>4
  <2>2. BudgetOf(Spent(n)) = 0
    BY <1>4, BudgetsOfCounts DEF Spent, Counts
  <2> QED
    BY <1>1, <1>3, <2>1, <2>2
<1>5. CASE n > 2 /\ n % 2 = 0
  <2>1. Spent(n) = n - 2 /\ n - 2 \in Int \ {0} /\ n - 2 > 0
    BY <1>5 DEF Spent
  <2>2. (n - 2) % 2 = 0 /\ (n - 2) \div 2 = (n \div 2) - 1 /\ n \div 2 \in Int
    BY <1>5
  <2>3. BudgetOf(n) = n \div 2 /\ BudgetOf(Spent(n)) = (n - 2) \div 2
    BY <1>2, <1>5, <2>1, <2>2
  <2> QED
    BY <1>1, <1>3, <2>2, <2>3
<1>6. CASE n % 2 # 0 \/ n < 0
  <2>1. /\ Spent(n) \in Int \ {0}
        /\ ~(Spent(n) > 0 /\ Spent(n) % 2 = 0) /\ ~(n > 0 /\ n % 2 = 0)
    BY <1>6 DEF Spent
  <2>2. BudgetOf(n) = Forever /\ BudgetOf(Spent(n)) = Forever
    BY <1>2, <2>1
  <2> QED
    BY <1>3, <2>2
<1> QED
  BY <1>4, <1>5, <1>6

\* What the budgets see of an answer.
LEMMA SeenAnswer ==
  ASSUME NEW x, NEW y, Answer(x, y)
  PROVE  Observed' =
           [to |-> x,
            outcome |->
              IF y \in {"TokenException", "1008"} \/ (x = "control" /\ y = "InputException")
              THEN "refused"
              ELSE IF y \in {"success", "InputException"} THEN "handled" ELSE y]
<1>1. answer' = [to |-> x, outcome |-> y]
  BY DEF Answer
<1>2. answer'.to = x /\ answer'.outcome = y
  BY <1>1
<1> QED
  BY <1>2 DEF Observed, Refused

Left == [e \in Endpoints |-> BudgetOf(injections[e])]

\* Only the counts and the answers matter to the budgets.
LEMMA BudgetsUnmoved ==
  ASSUME UNCHANGED injections
  PROVE  Left' = Left
BY DEF Left

LEMMA AnswerStutters ==
  ASSUME UNCHANGED <<injections, answer>>
  PROVE  UNCHANGED Budget!vars
BY DEF Budget!vars, Observed, Refused

\* An answer of the control plane that leaves the counts alone.
LEMMA ControlMaps ==
  ASSUME Tallied, UNCHANGED injections,
         Answer("control", "success") \/ Answer("control", "InputException")
  PROVE  Budget!Next
<1>1. Left' = Left
  BY BudgetsUnmoved
<1>2. CASE Answer("control", "InputException")
  <2>1. Observed' = [to |-> "control", outcome |-> "refused"]
    BY <1>2, SeenAnswer
  <2>2. Budget!Refuse
    BY <1>1, <2>1 DEF Budget!Refuse, Left
  <2> QED
    BY <2>2 DEF Budget!Next
<1>3. CASE Answer("control", "success")
  <2>1. Observed' = [to |-> "control", outcome |-> "handled"]
    BY <1>3, SeenAnswer
  <2>2. Left \in [Endpoints -> Nat \cup {Forever, Text}]
    BY BudgetsOfCounts DEF Left, Tallied
  <2>3. \/ \E e \in Endpoints : \A d \in Endpoints \ {e} : Left'[d] = Left[d]
        \/ Left' = [e \in Endpoints |-> 0]
    <3>1. CASE Endpoints = {}
      BY <3>1 DEF Left
    <3>2. CASE Endpoints # {}
      BY <1>1, <3>2
    <3> QED
      BY <3>1, <3>2
  <2>4. Budget!Set
    BY <1>1, <2>1, <2>2, <2>3 DEF Budget!Set, Budget!Budgets, Left
  <2> QED
    BY <2>4 DEF Budget!Next
<1> QED
  BY <1>2, <1>3

\* A call that reaches the injections, or is turned away before.
LEMMA ServedMaps ==
  ASSUME Tallied, NEW call \in Calls, NEW h, Served(call, h)
  PROVE  Budget!Next /\ injections' \in [Endpoints -> Counts]
<1> DEFINE e == call.endpoint
           n == injections[e]
<1>1. /\ e \in Endpoints /\ n \in Counts /\ call.known \in BOOLEAN
      /\ e # "control" /\ e # "ws"
  BY GatewayAssumption DEF Tallied, Keys
<1> HIDE DEF e
<1>2. CASE Answer(e, "TokenException") /\ UNCHANGED injections
  <2>1. Observed' = [to |-> e, outcome |-> "refused"]
    BY <1>2, SeenAnswer
  <2>2. Budget!Refuse
    BY <1>1, <1>2, <2>1, BudgetsUnmoved DEF Budget!Refuse, Left
  <2> QED
    BY <1>2, <2>2 DEF Budget!Next, Tallied
<1>3. CASE /\ n \in {None, 0} /\ UNCHANGED injections
           /\ Answer(e, "success") \/ Answer(e, "InputException")
  <2>1. Observed' = [to |-> e, outcome |-> "handled"]
    BY <1>1, <1>3, SeenAnswer
  <2>2. Left[e] = 0
    BY <1>1, <1>3, BudgetsOfCounts DEF Left
  <2>3. Budget!Handle(e)
    BY <1>3, <2>1, <2>2, BudgetsUnmoved DEF Budget!Handle, Left
  <2> QED
    BY <1>1, <1>3, <2>3 DEF Budget!Next, Tallied
<1>4. CASE n = Text /\ UNCHANGED injections /\ Answer(e, "unhandled")
  <2>1. Observed' = [to |-> e, outcome |-> "unhandled"]
    BY <1>1, <1>4, SeenAnswer
  <2>2. Left[e] = Text /\ Left[e] # 0
    BY <1>1, <1>4, BudgetsOfCounts, GatewayAssumption DEF Left
  <2>3. Left' = [Left EXCEPT ![e] = IF @ \in {Forever, Text} THEN @ ELSE @ - 1]
    BY <1>1, <1>4, <2>2, BudgetsUnmoved DEF Left
  <2>4. Budget!Fail(e)
    BY <2>1, <2>2, <2>3 DEF Budget!Fail, Left
  <2> QED
    BY <1>1, <1>4, <2>4 DEF Budget!Next, Tallied
<1>5. CASE /\ n \in Int \ {0} /\ Answer(e, "injected")
           /\ injections' = [injections EXCEPT ![e] = Spent(@)]
  <2>1. Observed' = [to |-> e, outcome |-> "injected"]
    BY <1>1, <1>5, SeenAnswer
  <2>2. Left[e] = BudgetOf(n) /\ Left[e] # 0 /\ Left[e] # Text
    BY <1>1, <1>5, BudgetsOfCounts, GatewayAssumption DEF Left
  <2>3. injections' \in [Endpoints -> Counts]
    BY <1>1, <1>5, SpendingOne DEF Tallied
  <2>4. ASSUME NEW d \in Endpoints
        PROVE  BudgetOf(injections'[d]) =
                 IF d = e THEN IF Left[e] \in {Forever, Text} THEN Left[e] ELSE Left[e] - 1
                 ELSE Left[d]
    <3>1. CASE d = e
      <4>1. injections'[d] = Spent(n)
        BY <1>1, <1>5, <3>1 DEF Tallied
      <4> QED
        BY <1>5, <2>2, <3>1, <4>1, SpendingOne
    <3>2. CASE d # e
      BY <1>1, <1>5, <3>2 DEF Tallied, Left
    <3> QED
      BY <3>1, <3>2
  <2>5. Left' = [Left EXCEPT ![e] = IF @ \in {Forever, Text} THEN @ ELSE @ - 1]
    <3>1. Left' = [d \in Endpoints |-> BudgetOf(injections'[d])]
      BY DEF Left, BudgetOf
    <3>2. DOMAIN Left = Endpoints
      BY DEF Left
    <3> HIDE DEF Left
    <3> QED
      BY <1>1, <2>4, <3>1, <3>2
  <2>6. Budget!Fail(e)
    BY <2>1, <2>2, <2>5 DEF Budget!Fail, Left
  <2> QED
    BY <1>1, <2>3, <2>6 DEF Budget!Next
<1> QED
  BY <1>1, <1>2, <1>3, <1>4, <1>5 DEF Served, MaybeInject, e

\* A forced error that is set or cleared, or all of them gone.
LEMMA SettingMaps ==
  ASSUME Tallied, injections' \in [Endpoints -> Counts], Answer("control", "success"),
         \/ \E e \in Endpoints : \A d \in Endpoints \ {e} : injections'[d] = injections[d]
         \/ injections' = [e \in Endpoints |-> None]
  PROVE  Budget!Next
<1>1. Observed' = [to |-> "control", outcome |-> "handled"]
  BY SeenAnswer
<1>2. Left' = [e \in Endpoints |-> BudgetOf(injections'[e])]
  BY DEF Left, BudgetOf
<1>3. Left' \in [Endpoints -> Nat \cup {Forever, Text}]
  BY <1>2, BudgetsOfCounts
<1>4. \/ \E e \in Endpoints : \A d \in Endpoints \ {e} : Left'[d] = Left[d]
      \/ Left' = [e \in Endpoints |-> 0]
  <2>1. BudgetOf(None) = 0
    BY BudgetsOfCounts DEF Counts
  <2>2. ASSUME injections' = [e \in Endpoints |-> None]
        PROVE  Left' = [e \in Endpoints |-> 0]
    BY <1>2, <2>1, <2>2
  <2>3. ASSUME NEW e \in Endpoints, \A d \in Endpoints \ {e} : injections'[d] = injections[d]
        PROVE  \A d \in Endpoints \ {e} : Left'[d] = Left[d]
    BY <1>2, <2>3 DEF Left
  <2> QED
    BY <2>2, <2>3
<1>5. Budget!Set
  BY <1>1, <1>3, <1>4 DEF Budget!Set, Budget!Budgets, Left
<1> QED
  BY <1>5 DEF Budget!Next

LEMMA BudgetStep ==
  ASSUME Tallied, [Next]_vars
  PROVE  Tallied' /\ [Budget!Next]_Budget!vars
<1>1. ASSUME NEW r \in Slots, Wake(r)
      PROVE  Tallied' /\ Budget!Next
  <2>1. /\ req[r] # None /\ Served(req[r].call, req[r].header)
        /\ req' = [req EXCEPT ![r] = None]
    BY <1>1 DEF Wake
  <2>2. req[r].call \in Calls
    BY <2>1 DEF Tallied
  <2>3. PICK call \in Calls : call = req[r].call
    BY <2>2
  <2>4. PICK h : h = req[r].header
    OBVIOUS
  <2>5. Served(call, h)
    BY <2>1, <2>3, <2>4
  <2>6. Budget!Next /\ injections' \in [Endpoints -> Counts]
    BY <2>5, ServedMaps
  <2> QED
    BY <2>1, <2>6 DEF Tallied
<1>2. ASSUME NEW r \in Slots, NEW call \in Calls, NEW h \in Headers, Arrive(r, call, h)
      PROVE  Tallied' /\ [Budget!Next]_Budget!vars
  <2>1. CASE Served(call, h) /\ UNCHANGED req
    BY <2>1, ServedMaps DEF Tallied
  <2>2. CASE /\ req' = [req EXCEPT ![r] = [call |-> call, header |-> h]]
             /\ UNCHANGED <<injections, answer>>
    BY <2>2, AnswerStutters DEF Tallied
  <2> QED
    BY <1>2, <2>1, <2>2 DEF Arrive
<1>3. ASSUME NEW body \in LatencyBodies, SetLatency(body) \/ SetLatencyUnknown(body)
      PROVE  Tallied' /\ Budget!Next
  <2>1. /\ UNCHANGED <<injections, req>>
        /\ Answer("control", "success") \/ Answer("control", "InputException")
    BY <1>3 DEF SetLatency, SetLatencyUnknown, ControlRefused
  <2> QED
    BY <2>1, ControlMaps DEF Tallied
<1>4. ASSUME NEW b \in ErrorBodies, SetError(b)
      PROVE  Tallied' /\ Budget!Next
  <2>1. CASE ControlRefused
    BY <2>1, ControlMaps DEF ControlRefused, Tallied
  <2>2. CASE /\ b.endpoint # None /\ Answer("control", "success") /\ UNCHANGED req
             /\ injections' = [injections EXCEPT ![b.endpoint] = IF b.clear THEN None ELSE b.count]
    <3>1. b.endpoint \in Endpoints /\ (IF b.clear THEN None ELSE b.count) \in Counts
      BY <2>2, GatewayAssumption DEF Counts
    <3>2. /\ injections' \in [Endpoints -> Counts]
          /\ \A d \in Endpoints \ {b.endpoint} : injections'[d] = injections[d]
      BY <2>2, <3>1 DEF Tallied
    <3> QED
      BY <2>2, <3>1, <3>2, SettingMaps DEF Tallied
  <2> QED
    BY <1>4, <2>1, <2>2 DEF SetError
<1>5. ASSUME Reset
      PROVE  Tallied' /\ Budget!Next
  <2>1. /\ injections' = [e \in Endpoints |-> None] /\ UNCHANGED req
        /\ Answer("control", "success")
    BY <1>5 DEF Reset
  <2>2. injections' \in [Endpoints -> Counts]
    BY <2>1 DEF Counts
  <2> QED
    BY <2>1, <2>2, SettingMaps DEF Tallied
<1>6. ASSUME DisconnectEnds
      PROVE  Tallied' /\ Budget!Next
  BY <1>6, ControlMaps DEF DisconnectEnds, Tallied
<1>7. ASSUME NEW s \in Sockets, Connect(s)
      PROVE  Tallied' /\ [Budget!Next]_Budget!vars
  <2>1. UNCHANGED <<injections, req>> /\ (UNCHANGED answer \/ Answer("ws", "1008"))
    BY <1>7 DEF Connect
  <2>2. CASE UNCHANGED answer
    BY <2>1, <2>2, AnswerStutters DEF Tallied
  <2>3. CASE Answer("ws", "1008")
    <3>1. Observed' = [to |-> "ws", outcome |-> "refused"]
      BY <2>3, SeenAnswer
    <3>2. Budget!Refuse
      BY <2>1, <3>1, BudgetsUnmoved DEF Budget!Refuse, Left
    <3> QED
      BY <2>1, <3>2 DEF Budget!Next, Tallied
  <2> QED
    BY <2>1, <2>2, <2>3
<1>8. CASE UNCHANGED <<injections, req, answer>>
  BY <1>8, AnswerStutters DEF Tallied
<1>9. ASSUME NEW key, Disconnect(key)
      PROVE  UNCHANGED <<injections, req, answer>>
  BY <1>9 DEF Disconnect
<1>10. ASSUME CloseNext \/ \E s \in Sockets : SocketEnds(s) \/ Deregister(s)
       PROVE  UNCHANGED <<injections, req, answer>>
  BY <1>10 DEF CloseNext, SocketEnds, Deregister
<1> QED
  BY <1>1, <1>2, <1>3, <1>4, <1>5, <1>6, <1>7, <1>8, <1>9, <1>10 DEF Next, Requests, Control, vars

\* Forced errors are spent as budgets are, of whatever counts, whichever calls
\* sleep while they are set, cleared or reset.
THEOREM ErrorBudgetImplemented == Spec => ImplementsErrorBudget
<1>1. Init => Tallied /\ Budget!Init
  <2> SUFFICES ASSUME Init
               PROVE  Tallied /\ Budget!Init
    OBVIOUS
  <2>1. Tallied
    BY DEF Init, Tallied, Counts
  <2>2. BudgetOf(None) = 0
    BY BudgetsOfCounts DEF Counts
  <2>3. \A e \in Endpoints : injections[e] = None
    BY DEF Init
  <2>4. [e \in Endpoints |-> BudgetOf(injections[e])] = [e \in Endpoints |-> 0]
    BY <2>2, <2>3
  <2>5. Observed = [to |-> "none", outcome |-> "none"]
    BY DEF Init, Observed, Refused
  <2> QED
    BY <2>1, <2>4, <2>5 DEF Budget!Init
<1>2. Tallied /\ [Next]_vars => Tallied' /\ [Budget!Next]_Budget!vars
  BY BudgetStep
<1> QED
  BY <1>1, <1>2, PTL DEF Spec, ImplementsErrorBudget, Budget!Spec

-----------------------------------------------------------------------------
(* WebSocket clients and the disconnect that drops them.                   *)

\* Someone of the key.
Chosen(t, key) == t \in Seq(Sockets) /\ \A k \in 1..Len(t) : OfKey(t[k], key)

\* The targets are registered connections of the key.
LEMMA TargetsAreOfKey ==
  ASSUME ws_clients \in Seq(Sockets), NEW key
  PROVE  Chosen(TargetsOf(key), key)
<1> DEFINE N == Len(ws_clients)
           V == Seq(Sockets)
           Add(n, t) == IF OfKey(ws_clients[n], key) THEN Append(t, ws_clients[n]) ELSE t
           g == [p \in (1..N) \X V |-> Add(p[1], p[2])]
           Runs(f) == f = [n \in 0..N |-> IF n = 0 THEN <<>>
                                          ELSE IF OfKey(ws_clients[n], key)
                                          THEN Append(f[n - 1], ws_clients[n])
                                          ELSE f[n - 1]]
           among == CHOOSE f : Runs(f)
<1>1. N \in Nat /\ <<>> \in V
  BY LenProperties, EmptySeq
<1>2. \A n \in 1..N : ws_clients[n] \in Sockets
  BY <1>1, ElementOfSeq
<1>3. g \in [(1..N) \X V -> V]
  <2>1. ASSUME NEW n \in 1..N, NEW t \in V PROVE Add(n, t) \in V
    BY <1>2, AppendProperties
  <2> HIDE DEF Add, V
  <2> QED
    BY <2>1
<1>4. \A n \in 1..N, t \in V : g[<<n, t>>] = Add(n, t)
  <2> HIDE DEF Add, V
  <2> QED
    OBVIOUS
<1> HIDE DEF V, g
<1>5. PICK f \in [0..N -> V] : Recursive(f, N, <<>>, g)
  <2> HIDE DEF N
  <2> QED
    BY <1>1, <1>3, RecursionExists
<1>6. ASSUME NEW n \in 0..N, n # 0 PROVE g[<<n, f[n - 1]>>] = Add(n, f[n - 1])
  BY <1>1, <1>4, <1>5, <1>6
<1>7. Runs(f)
  BY <1>5, <1>6 DEF Recursive
<1>8. Runs(among)
  BY <1>7
<1>9. TargetsOf(key) = among[N]
  BY DEF TargetsOf
<1> HIDE DEF among
<1> DEFINE T == {n \in Nat : n <= N => Chosen(among[n], key)}
<1>10. 0 \in T
  <2>1. among[0] = <<>>
    BY <1>1, <1>8
  <2> QED
    BY <2>1, EmptySeq DEF Chosen
<1>11. ASSUME NEW n \in Nat, n \in T PROVE n + 1 \in T
  <2>1. SUFFICES ASSUME n + 1 <= N PROVE Chosen(among[n + 1], key)
    OBVIOUS
  <2> DEFINE t == among[n]
             s == ws_clients[n + 1]
  <2>2. Chosen(t, key) /\ n + 1 \in 0..N /\ n + 1 # 0 /\ (n + 1) - 1 = n /\ n + 1 \in 1..N
    BY <1>1, <1>11, <2>1
  <2>3. among[n + 1] = IF OfKey(s, key) THEN Append(t, s) ELSE t
    BY <1>8, <2>2
  <2>4. s \in Sockets
    BY <1>2, <2>2
  <2> HIDE DEF t, s
  <2>5. CASE OfKey(s, key)
    <3>1. /\ Append(t, s) \in Seq(Sockets) /\ Len(Append(t, s)) = Len(t) + 1
          /\ \A k \in 1..Len(t) : Append(t, s)[k] = t[k] /\ Append(t, s)[Len(t) + 1] = s
      BY <2>2, <2>4, AppendProperties DEF Chosen
    <3>2. Append(t, s)[Len(t) + 1] = s
      BY <2>2, <2>4, AppendProperties DEF Chosen
    <3> DEFINE u == Append(t, s)
    <3> HIDE DEF u
    <3>3. \A k \in 1..Len(t) + 1 : OfKey(u[k], key)
      <4>1. Len(t) \in Nat
        BY <2>2, LenProperties DEF Chosen
      <4> QED
        BY <2>2, <2>5, <3>1, <3>2, <4>1 DEF Chosen, u
    <3> QED
      BY <2>3, <2>5, <3>1, <3>3 DEF Chosen, u
  <2>6. CASE ~OfKey(s, key)
    BY <2>2, <2>3, <2>6
  <2> QED
    BY <2>5, <2>6
<1>12. Nat \subseteq T
  <2> HIDE DEF T
  <2> QED
    BY <1>10, <1>11, NumbersInductive
<1> QED
  BY <1>1, <1>9, <1>12

\* Registered once each; closed or open, never new.
Registered ==
  /\ socket \in [Sockets -> {"new", "open", "closed"}]
  /\ ws_clients \in Seq(Sockets)
  /\ \A s \in Sockets : /\ socket[s] = "open" => s \in Elements(ws_clients)
                        /\ s \in Elements(ws_clients) => socket[s] # "new"
  /\ \A j, k \in DOMAIN ws_clients : ws_clients[j] = ws_clients[k] => j = k

\* The disconnect in progress: what is closed so far, and whom it may close.
Dropping ==
  disconnect # None =>
    /\ Chosen(disconnect.targets, disconnect.key)
    /\ disconnect \in [key: Names \cup {None}, targets: Seq(Sockets), done: Nat]
    /\ disconnect.done <= Len(disconnect.targets)
    /\ \A k \in 1..disconnect.done : socket[disconnect.targets[k]] = "closed"

\* A connection that is accepted is registered as the last.
LEMMA RegisteredConnect ==
  ASSUME Registered, NEW s \in Sockets, Connect(s)
  PROVE  Registered'
<1>1. socket[s] = "new" /\ s \notin Elements(ws_clients)
  BY DEF Connect, Registered
<1>2. CASE ~CheckWsAuth(Params[s])
  BY <1>1, <1>2 DEF Connect, Registered
<1>3. CASE CheckWsAuth(Params[s])
  <2> DEFINE n == Len(ws_clients)
             new == Append(ws_clients, s)
  <2>1. socket' = [socket EXCEPT ![s] = "open"] /\ ws_clients' = new
    BY <1>3 DEF Connect
  <2>2. n \in Nat /\ DOMAIN ws_clients = 1..n
    BY LenProperties DEF Registered
  <2>3. new \in Seq(Sockets) /\ Len(new) = n + 1
    BY AppendProperties DEF Registered
  <2>4. (\A k \in 1..n : new[k] = ws_clients[k]) /\ new[n + 1] = s
    BY AppendProperties DEF Registered
  <2> HIDE DEF n, new
  <2>5. DOMAIN new = 1..n + 1
    BY <2>3, LenProperties
  <2>6. \A t : t \in Elements(new) <=> t \in Elements(ws_clients) \/ t = s
    BY <2>2, <2>4, <2>5 DEF Elements
  <2>7. \A j, k \in 1..n + 1 : new[j] = new[k] => j = k
    <3>1. \A j \in 1..n : new[j] # s
      BY <1>1, <2>2, <2>4 DEF Elements
    <3>2. \A j \in 1..n + 1 : j \in 1..n \/ j = n + 1
      BY <2>2
    <3>3. \A j, k \in 1..n : new[j] = new[k] => j = k
      BY <2>2, <2>4 DEF Registered
    <3> QED
      BY <2>4, <3>1, <3>2, <3>3
  <2>8. \A t \in Sockets : socket'[t] = IF t = s THEN "open" ELSE socket[t]
    BY <2>1 DEF Registered
  <2>9. /\ socket' \in [Sockets -> {"new", "open", "closed"}]
        /\ \A t \in Sockets : /\ socket'[t] = "open" => t \in Elements(new)
                              /\ t \in Elements(new) => socket'[t] # "new"
    BY <2>1, <2>6, <2>8 DEF Registered
  <2>10. ws_clients' \in Seq(Sockets) /\ DOMAIN ws_clients' = 1..n + 1
    BY <2>1, <2>3, <2>5
  <2>11. Elements(ws_clients)' = Elements(new)
    BY <2>1 DEF Elements
  <2> QED
    BY <2>1, <2>7, <2>9, <2>10, <2>11 DEF Registered
<1> QED
  BY <1>2, <1>3

\* One that is deregistered leaves the others, each at most one place earlier.
LEMMA RegisteredLeave ==
  ASSUME Registered, NEW s \in Sockets, Deregister(s)
  PROVE  Registered'
<1> DEFINE n == Len(ws_clients)
<1>1. PICK k \in DOMAIN ws_clients :
        /\ ws_clients[k] = s
        /\ ws_clients' = SubSeq(ws_clients, 1, k - 1) \o SubSeq(ws_clients, k + 1, n)
  BY DEF Deregister
<1>2. n \in Nat /\ DOMAIN ws_clients = 1..n /\ k \in 1..n /\ ws_clients \in Seq(Sockets)
  BY LenProperties DEF Registered
<1> HIDE DEF n
<1>3. \A i \in 1..n : ws_clients[i] \in Sockets
  BY <1>2, ElementOfSeq DEF n
<1> DEFINE a == SubSeq(ws_clients, 1, k - 1)
           b == SubSeq(ws_clients, k + 1, n)
           new == a \o b
<1>4. a \in Seq(Sockets) /\ Len(a) = k - 1 /\ \A i \in 1..k - 1 : a[i] = ws_clients[i]
  <2>1. k - 1 \in Int /\ (1 <= k - 1 \/ k - 1 = 0) /\ \A i \in 1..k - 1 : ws_clients[i] \in Sockets
    BY <1>2, <1>3
  <2> QED
    BY <1>2, <2>1, SubSeqProperties
<1>5. b \in Seq(Sockets) /\ Len(b) = n - k /\ \A i \in 1..n - k : b[i] = ws_clients[k + i]
  <2>1. k + 1 \in Int /\ n \in Int /\ k + 1 <= n + 1
    BY <1>2
  <2>2. \A i \in k + 1..n : ws_clients[i] \in Sockets
    BY <1>2, <1>3
  <2>3. /\ b \in Seq(Sockets)
        /\ Len(b) = IF k + 1 <= n THEN n - (k + 1) + 1 ELSE 0
        /\ \A i \in 1..n - (k + 1) + 1 : b[i] = ws_clients[(k + 1) + i - 1]
    BY <1>2, <2>1, <2>2, SubSeqProperties
  <2> HIDE DEF b
  <2>4. Len(b) = n - k /\ n - (k + 1) + 1 = n - k
    BY <1>2, <2>3
  <2>5. \A i \in 1..n - k : (k + 1) + i - 1 = k + i
    BY <1>2
  <2> QED
    BY <2>3, <2>4, <2>5
<1> HIDE DEF a, b
<1>6. /\ new \in Seq(Sockets) /\ Len(new) = (k - 1) + (n - k)
      /\ \A i \in 1..(k - 1) + (n - k) : new[i] = IF i <= k - 1 THEN a[i] ELSE b[i - (k - 1)]
  <2>1. /\ a \o b \in Seq(Sockets) /\ Len(a \o b) = Len(a) + Len(b)
        /\ \A i \in 1..Len(a) + Len(b) : (a \o b)[i] = IF i <= Len(a) THEN a[i] ELSE b[i - Len(a)]
    BY <1>4, <1>5, ConcatProperties
  <2> HIDE DEF new
  <2> QED
    BY <1>4, <1>5, <2>1 DEF new
<1>7. ws_clients' = new
  BY <1>1 DEF a, b
<1> HIDE DEF new
<1> DEFINE Old(i) == IF i <= k - 1 THEN i ELSE i + 1
<1>8. Len(new) = n - 1 /\ \A i \in 1..n - 1 : new[i] = ws_clients[Old(i)]
  <2>1. (k - 1) + (n - k) = n - 1
    BY <1>2
  <2>2. ASSUME NEW i \in 1..n - 1 PROVE new[i] = ws_clients[Old(i)]
    <3>1. CASE i <= k - 1
      BY <1>2, <1>4, <1>6, <2>1, <3>1
    <3>2. CASE ~(i <= k - 1)
      <4>1. i - (k - 1) \in 1..n - k /\ k + (i - (k - 1)) = i + 1
        BY <1>2, <3>2
      <4> QED
        BY <1>5, <1>6, <2>1, <3>2, <4>1
    <3> QED
      BY <3>1, <3>2
  <2> QED
    BY <1>6, <2>1, <2>2
<1>9. DOMAIN new = 1..n - 1
  BY <1>6, <1>8, LenProperties
<1>10. /\ \A i \in 1..n - 1 : Old(i) \in 1..n /\ Old(i) # k
       /\ \A i, j \in 1..n - 1 : Old(i) = Old(j) => i = j
       /\ \A j \in 1..n : j # k => \E i \in 1..n - 1 : Old(i) = j
  <2>1. /\ \A i \in 1..n - 1 : Old(i) \in 1..n /\ Old(i) # k
        /\ \A i, j \in 1..n - 1 : Old(i) = Old(j) => i = j
    BY <1>2
  <2>2. ASSUME NEW j \in 1..n, j # k PROVE \E i \in 1..n - 1 : Old(i) = j
    <3>1. CASE j < k
      <4>1. j \in 1..n - 1 /\ Old(j) = j
        BY <1>2, <3>1
      <4> QED
        BY <4>1
    <3>2. CASE j > k
      <4>1. j - 1 \in 1..n - 1 /\ Old(j - 1) = j
        BY <1>2, <3>2
      <4> QED
        BY <4>1
    <3> QED
      BY <1>2, <2>2, <3>1, <3>2
  <2> QED
    BY <2>1, <2>2
<1> HIDE DEF Old
<1>11. \A t : t \in Elements(new) <=> t \in Elements(ws_clients) /\ t # s
  <2>1. \A j \in 1..n : ws_clients[j] = s => j = k
    BY <1>1, <1>2 DEF Registered
  <2>2. ASSUME NEW t, t \in Elements(new) PROVE t \in Elements(ws_clients) /\ t # s
    <3>1. PICK i \in 1..n - 1 : t = new[i]
      BY <1>9, <2>2 DEF Elements
    <3>2. Old(i) \in 1..n /\ Old(i) # k /\ t = ws_clients[Old(i)]
      BY <1>8, <1>10, <3>1
    <3> QED
      BY <1>2, <2>1, <3>2 DEF Elements
  <2>3. ASSUME NEW t, t \in Elements(ws_clients), t # s PROVE t \in Elements(new)
    <3>1. PICK j \in 1..n : t = ws_clients[j]
      BY <1>2, <2>3 DEF Elements
    <3>2. j # k
      BY <1>1, <2>3, <3>1
    <3>3. PICK i \in 1..n - 1 : Old(i) = j
      BY <1>10, <3>2
    <3>4. t = new[i]
      BY <1>8, <3>1, <3>3
    <3> QED
      BY <1>9, <3>4 DEF Elements
  <2> QED
    BY <2>2, <2>3
<1>12. \A i, j \in 1..n - 1 : new[i] = new[j] => i = j
  <2>1. \A i, j \in 1..n : ws_clients[i] = ws_clients[j] => i = j
    BY <1>2 DEF Registered
  <2> QED
    BY <1>8, <1>10, <2>1
<1>13. socket' = socket /\ socket[s] = "closed" /\ Elements(ws_clients)' = Elements(new)
  BY <1>7 DEF Deregister, Elements
<1>14. DOMAIN ws_clients' = 1..n - 1 /\ ws_clients' \in Seq(Sockets)
  BY <1>6, <1>7, <1>9
<1> QED
  BY <1>7, <1>11, <1>12, <1>13, <1>14 DEF Registered

\* Nothing else changes who is registered; a disconnect closes connections only.
LEMMA RegisteredStep ==
  ASSUME Registered, Dropping, [Next]_vars
  PROVE  Registered'
<1>1. ASSUME NEW s \in Sockets, socket[s] # "new", UNCHANGED ws_clients,
             socket' = [socket EXCEPT ![s] = "closed"]
      PROVE  Registered'
  <2>1. \A t \in Sockets : socket'[t] = IF t = s THEN "closed" ELSE socket[t]
    BY <1>1 DEF Registered
  <2>2. socket' \in [Sockets -> {"new", "open", "closed"}]
    BY <1>1 DEF Registered
  <2>3. Elements(ws_clients)' = Elements(ws_clients)
    BY <1>1 DEF Elements
  <2> QED
    BY <1>1, <2>1, <2>2, <2>3 DEF Registered
<1>2. ASSUME NEW s \in Sockets, SocketEnds(s)
      PROVE  Registered'
  BY <1>1, <1>2 DEF SocketEnds
<1>3. ASSUME CloseNext
      PROVE  Registered'
  <2> DEFINE s == disconnect.targets[disconnect.done + 1]
  <2>1. /\ disconnect # None /\ disconnect.done < Len(disconnect.targets)
        /\ socket' = [socket EXCEPT ![s] = "closed"] /\ UNCHANGED ws_clients
    BY <1>3 DEF CloseNext, Targets
  <2>2. s \in Sockets
    <3>1. disconnect.targets \in Seq(Sockets) /\ disconnect.done \in Nat
      BY <2>1 DEF Dropping
    <3>2. disconnect.done + 1 \in 1..Len(disconnect.targets)
      BY <2>1, <3>1, LenProperties
    <3> QED
      BY <3>1, <3>2, ElementOfSeq
  <2> HIDE DEF s
  <2>3. \A t \in Sockets : socket'[t] = IF t = s THEN "closed" ELSE socket[t]
    BY <2>1 DEF Registered
  <2>4. socket' \in [Sockets -> {"new", "open", "closed"}]
    BY <2>1 DEF Registered
  <2>5. Elements(ws_clients)' = Elements(ws_clients)
    BY <2>1 DEF Elements
  <2> QED
    BY <2>1, <2>3, <2>4, <2>5 DEF Registered
<1>4. CASE UNCHANGED <<ws_clients, socket>>
  <2>1. Elements(ws_clients)' = Elements(ws_clients)
    BY <1>4 DEF Elements
  <2> QED
    BY <1>4, <2>1 DEF Registered
<1>5. Next => \/ \E s \in Sockets : Connect(s) \/ SocketEnds(s) \/ Deregister(s)
              \/ CloseNext
              \/ UNCHANGED <<ws_clients, socket>>
  BY DEF Next, Requests, Control, Wake, Arrive, SetLatency, SetLatencyUnknown, ControlRefused,
         SetError, Reset, Disconnect, DisconnectEnds, wsVars
<1> QED
  BY <1>2, <1>3, <1>4, <1>5, RegisteredConnect, RegisteredLeave DEF vars, wsVars

\* A closed connection is never opened again.
LEMMA ClosedForGood ==
  ASSUME Registered, [Next]_vars, NEW s \in Sockets, socket[s] = "closed"
  PROVE  socket'[s] = "closed"
<1>1. ASSUME NEW t, NEW v, socket' = [socket EXCEPT ![t] = v], v = "closed" \/ socket[t] = "new"
      PROVE  socket'[s] = "closed"
  BY <1>1 DEF Registered
<1>2. Next => \/ \E t \in Sockets : Connect(t) \/ SocketEnds(t)
              \/ CloseNext
              \/ UNCHANGED socket
  BY DEF Next, Requests, Control, Wake, Arrive, SetLatency, SetLatencyUnknown, ControlRefused,
         SetError, Reset, Disconnect, DisconnectEnds, Deregister, wsVars
<1>3. ASSUME NEW t \in Sockets, Connect(t) PROVE socket'[s] = "closed"
  BY <1>1, <1>3 DEF Connect
<1>4. ASSUME NEW t \in Sockets, SocketEnds(t) PROVE socket'[s] = "closed"
  BY <1>1, <1>4 DEF SocketEnds
<1>5. CASE CloseNext
  BY <1>1, <1>5 DEF CloseNext
<1> QED
  BY <1>2, <1>3, <1>4, <1>5 DEF vars, wsVars

\* Each await of a disconnect closes the next of its targets.
LEMMA DroppingStep ==
  ASSUME Registered, Dropping, [Next]_vars
  PROVE  Dropping'
<1>1. ASSUME NEW key \in {Params[s].api_key : s \in Sockets} \cup {None}, Disconnect(key)
      PROVE  Dropping'
  <2>1. key \in Names \cup {None}
    BY <1>1, GatewayAssumption DEF Credentials
  <2> DEFINE d == [key |-> key, targets |-> TargetsOf(key), done |-> 0]
  <2>2. Chosen(TargetsOf(key), key)
    BY TargetsAreOfKey DEF Registered
  <2>3. disconnect' = d
    BY <1>1 DEF Disconnect
  <2>4. /\ d \in [key: Names \cup {None}, targets: Seq(Sockets), done: Nat]
        /\ d.targets = TargetsOf(key) /\ d.key = key /\ d.done = 0
    BY <2>1, <2>2 DEF Chosen
  <2>5. Len(d.targets) >= 0
    BY <2>2, <2>4, LenProperties DEF Chosen
  <2> HIDE DEF d
  <2> QED
    BY <2>2, <2>3, <2>4, <2>5 DEF Dropping, Chosen, OfKey
<1>2. ASSUME CloseNext
      PROVE  Dropping'
  <2>1. PICK d : d = disconnect
    OBVIOUS
  <2>2. /\ d # None /\ d.done < Len(d.targets)
        /\ socket' = [socket EXCEPT ![d.targets[d.done + 1]] = "closed"]
        /\ disconnect' = [d EXCEPT !.done = d.done + 1]
    BY <1>2, <2>1 DEF CloseNext, Targets
  <2>3. /\ Chosen(d.targets, d.key) /\ d.done <= Len(d.targets)
        /\ d \in [key: Names \cup {None}, targets: Seq(Sockets), done: Nat]
        /\ \A k \in 1..d.done : socket[d.targets[k]] = "closed"
    BY <2>1, <2>2 DEF Dropping
  <2>4. PICK e : e = [d EXCEPT !.done = d.done + 1]
    OBVIOUS
  <2>5. /\ e \in [key: Names \cup {None}, targets: Seq(Sockets), done: Nat]
        /\ e.key = d.key /\ e.targets = d.targets /\ e.done = d.done + 1
    BY <2>3, <2>4
  <2>6. d.done \in Nat /\ d.targets \in Seq(Sockets) /\ Len(d.targets) \in Nat
    BY <2>3, LenProperties
  <2>7. \A k \in 1..Len(d.targets) : d.targets[k] \in Sockets
    BY <2>6, ElementOfSeq
  <2>8. ASSUME NEW k \in 1..d.done + 1 PROVE socket'[d.targets[k]] = "closed"
    <3>1. CASE k = d.done + 1
      BY <2>2, <2>6, <2>7, <3>1 DEF Registered
    <3>2. CASE k # d.done + 1
      <4>1. k \in 1..d.done /\ k \in 1..Len(d.targets)
        BY <2>2, <2>6, <3>2
      <4> QED
        BY <2>3, <2>7, <4>1, ClosedForGood
    <3> QED
      BY <3>1, <3>2
  <2>9. d.done + 1 <= Len(d.targets)
    BY <2>2, <2>6
  <2>10. disconnect' = e
    BY <2>2, <2>4
  <2> QED
    BY <2>3, <2>5, <2>8, <2>9, <2>10 DEF Dropping, Chosen, OfKey
<1>3. CASE UNCHANGED disconnect
  <2> SUFFICES ASSUME disconnect # None PROVE Dropping'
    BY <1>3 DEF Dropping
  <2>1. PICK d : d = disconnect
    OBVIOUS
  <2>2. /\ Chosen(d.targets, d.key) /\ d.done <= Len(d.targets)
        /\ d \in [key: Names \cup {None}, targets: Seq(Sockets), done: Nat]
        /\ \A k \in 1..d.done : socket[d.targets[k]] = "closed"
    BY <2>1 DEF Dropping
  <2>3. \A k \in 1..d.done : d.targets[k] \in Sockets
    <3>1. d.targets \in Seq(Sockets) /\ d.done \in Nat
      BY <2>2
    <3>2. \A k \in 1..d.done : k \in 1..Len(d.targets)
      BY <2>2, <3>1, LenProperties
    <3> QED
      BY <3>1, <3>2, ElementOfSeq
  <2>4. \A k \in 1..d.done : socket'[d.targets[k]] = "closed"
    BY <2>2, <2>3, ClosedForGood
  <2>5. disconnect' = d
    BY <1>3, <2>1
  <2> QED
    BY <2>2, <2>4, <2>5 DEF Dropping, Chosen, OfKey
<1>4. CASE DisconnectEnds
  BY <1>4 DEF DisconnectEnds, Dropping
<1>5. Next => \/ \E key \in {Params[s].api_key : s \in Sockets} \cup {None} : Disconnect(key)
              \/ CloseNext \/ DisconnectEnds
              \/ UNCHANGED disconnect
  BY DEF Next, Requests, Control, Wake, Arrive, SetLatency, SetLatencyUnknown, ControlRefused,
         SetError, Reset, Connect, SocketEnds, Deregister, wsVars
<1> QED
  BY <1>1, <1>2, <1>3, <1>4, <1>5 DEF vars, wsVars

LEMMA Beginning ==
  ASSUME Init
  PROVE  Registered /\ Dropping
<1>1. ws_clients = <<>> /\ socket = [s \in Sockets |-> "new"] /\ disconnect = None
  BY DEF Init
<1>2. <<>> \in Seq(Sockets) /\ DOMAIN <<>> = {}
  BY EmptySeq
<1>3. Elements(ws_clients) = {}
  BY <1>1, <1>2 DEF Elements
<1> QED
  BY <1>1, <1>2, <1>3 DEF Registered, Dropping

-----------------------------------------------------------------------------
(* Types.                                                                  *)

AuthKept == auth \in Auths
Answers == [to: Endpoints \cup {"none", "control", "ws"}, outcome: Outcomes]

LEMMA ServedAnswers ==
  ASSUME NEW call \in Calls, NEW h, Served(call, h)
  PROVE  answer' \in Answers
<1>1. call.endpoint \in Endpoints
  BY GatewayAssumption
<1>2. PICK outcome \in Outcomes : Answer(call.endpoint, outcome)
  BY DEF Served, MaybeInject, Outcomes
<1> QED
  BY <1>1, <1>2 DEF Answer, Answers

LEMMA AnswerStep ==
  ASSUME answer \in Answers, Tallied, [Next]_vars
  PROVE  answer' \in Answers
<1>1. ASSUME NEW r \in Slots, Wake(r)
      PROVE  answer' \in Answers
  <2>1. req[r].call \in Calls /\ Served(req[r].call, req[r].header)
    BY <1>1 DEF Wake, Tallied
  <2>2. PICK call \in Calls, h \in {req[r].header} : call = req[r].call /\ h = req[r].header
    BY <2>1
  <2>3. Served(call, h)
    BY <2>1, <2>2
  <2> QED
    BY <2>3, ServedAnswers
<1>2. ASSUME NEW r \in Slots, NEW call \in Calls, NEW h \in Headers, Arrive(r, call, h)
      PROVE  answer' \in Answers
  BY <1>2, ServedAnswers DEF Arrive
<1>3. ASSUME NEW to \in {"control", "ws"}, NEW outcome \in Outcomes, Answer(to, outcome)
      PROVE  answer' \in Answers
  BY <1>3 DEF Answer, Answers
<1>4. ASSUME Control \/ \E s \in Sockets : Connect(s) \/ SocketEnds(s) \/ Deregister(s)
      PROVE  \/ UNCHANGED answer
             \/ \E to \in {"control", "ws"}, outcome \in Outcomes : Answer(to, outcome)
  BY <1>4 DEF Control, SetLatency, SetLatencyUnknown, ControlRefused, SetError, Reset, Disconnect,
              CloseNext, DisconnectEnds, Connect, SocketEnds, Deregister, Outcomes
<1> QED
  BY <1>1, <1>2, <1>3, <1>4 DEF Next, Requests, vars

Inv == AuthKept /\ LatencyKept /\ Tallied /\ answer \in Answers /\ Registered /\ Dropping

LEMMA InvariantKept == Spec => []Inv
<1>1. Init => Inv
  <2> SUFFICES ASSUME Init PROVE Inv
    OBVIOUS
  <2>1. AuthKept /\ LatencyKept
    BY GatewayAssumption DEF Init, AuthKept, LatencyKept, LatencyStaysValid
  <2>2. Tallied
    BY DEF Init, Tallied, Counts
  <2>3. answer \in Answers
    BY DEF Init, Answers, Outcomes
  <2> QED
    BY <2>1, <2>2, <2>3, Beginning DEF Inv
<1>2. Inv /\ [Next]_vars => Inv'
  <2> SUFFICES ASSUME Inv, [Next]_vars PROVE Inv'
    OBVIOUS
  <2>1. AuthKept'
    BY DEF Inv, AuthKept, Next, Requests, Control, Wake, Arrive, SetLatency, SetLatencyUnknown,
           ControlRefused, SetError, Reset, Disconnect, CloseNext, DisconnectEnds, Connect,
           SocketEnds, Deregister, config, vars
  <2>2. LatencyKept' /\ Tallied'
    BY LatencyStep, BudgetStep DEF Inv
  <2>3. (answer \in Answers)'
    BY AnswerStep DEF Inv
  <2>4. Registered' /\ Dropping'
    BY RegisteredStep, DroppingStep DEF Inv
  <2> QED
    BY <2>1, <2>2, <2>3, <2>4 DEF Inv
<1> QED
  BY <1>1, <1>2, PTL DEF Spec

\* Every variable keeps its type, a connection that is open is registered and
\* one that is registered has been accepted, and is registered once.
THEOREM TypesAlwaysHold == Spec => []TypeOK
<1>1. Inv => TypeOK
  <2> SUFFICES ASSUME Inv PROVE TypeOK
    OBVIOUS
  <2>1. DOMAIN latency = Fields /\ \A f \in Fields : latency[f] \in Int \cup {Text}
    BY DEF Inv, LatencyKept, LatencyStaysValid, Valid
  <2>2. injections \in [Endpoints -> Int \cup {None, Text}]
    BY DEF Inv, Tallied, Counts
  <2>3. disconnect # None => disconnect.targets \in Seq(Sockets) /\ disconnect.done \in Nat
    BY DEF Inv, Dropping
  <2> QED
    BY <2>1, <2>2, <2>3 DEF Inv, AuthKept, Tallied, Answers, Registered, TypeOK
<1> QED
  BY <1>1, InvariantKept, PTL

\* A disconnect closes what was registered for its key as it began, all of it
\* before it answers and nothing else, however many connections of whatever
\* keys come and go meanwhile.
THEOREM DisconnectAlwaysDropsItsTargets == Spec => DisconnectDropsItsTargets
<1> DEFINE Step ==
      disconnect # None =>
        /\ disconnect' = None =>
             \A k \in DOMAIN disconnect.targets : socket[disconnect.targets[k]] = "closed"
        /\ \A s \in Sockets : disconnect' # disconnect /\ socket'[s] # socket[s] =>
             disconnect.key \in {None, Params[s].api_key}
<1>1. Inv /\ [Next]_vars => [Step]_vars
  <2> SUFFICES ASSUME Inv, Next, disconnect # None PROVE Step
    BY DEF vars
  <2>1. PICK d : d = disconnect
    OBVIOUS
  <2>2. /\ Chosen(d.targets, d.key) /\ d.targets \in Seq(Sockets) /\ d.done \in Nat
        /\ d.done <= Len(d.targets) /\ \A k \in 1..d.done : socket[d.targets[k]] = "closed"
    BY <2>1 DEF Inv, Dropping
  <2>3. Len(d.targets) \in Nat /\ DOMAIN d.targets = 1..Len(d.targets)
    BY <2>2, LenProperties
  <2>4. \/ CloseNext \/ DisconnectEnds \/ UNCHANGED disconnect
    BY DEF Next, Requests, Control, Wake, Arrive, SetLatency, SetLatencyUnknown, ControlRefused,
           SetError, Reset, Disconnect, Connect, SocketEnds, Deregister, wsVars
  <2>5. CASE CloseNext
    <3>1. PICK e : e = [d EXCEPT !.done = d.done + 1]
      OBVIOUS
    <3>2. /\ d.done < Len(d.targets) /\ disconnect' = e
          /\ socket' = [socket EXCEPT ![d.targets[d.done + 1]] = "closed"]
      BY <2>1, <2>5, <3>1 DEF CloseNext, Targets
    <3>3. e # None
      <4>1. d \in [key: Names \cup {None}, targets: Seq(Sockets), done: Nat]
        BY <2>1 DEF Inv, Dropping
      <4>2. e \in [key: Names \cup {None}, targets: Seq(Sockets), done: Nat]
        BY <3>1, <4>1
      <4> QED
        BY <4>2, GatewayAssumption
    <3>4. ASSUME NEW s \in Sockets, socket'[s] # socket[s]
          PROVE  d.key \in {None, Params[s].api_key}
      <4>1. s = d.targets[d.done + 1]
        BY <3>2, <3>4 DEF Inv, Registered
      <4>2. d.done + 1 \in 1..Len(d.targets)
        BY <2>2, <2>3, <3>2
      <4> QED
        BY <2>2, <4>1, <4>2 DEF Chosen, OfKey
    <3> QED
      BY <2>1, <3>2, <3>3, <3>4
  <2>6. CASE DisconnectEnds
    <3>1. d.done >= Len(d.targets) /\ UNCHANGED socket
      BY <2>1, <2>6 DEF DisconnectEnds, Targets
    <3>2. \A k \in DOMAIN d.targets : k \in 1..d.done
      BY <2>2, <2>3, <3>1
    <3> QED
      BY <2>1, <2>2, <3>1, <3>2
  <2>7. CASE UNCHANGED disconnect
    BY <2>7
  <2> QED
    BY <2>4, <2>5, <2>6, <2>7
<1> QED
  BY <1>1, InvariantKept, PTL DEF Spec, DisconnectDropsItsTargets
=============================================================================
