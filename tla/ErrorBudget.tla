---------------------------- MODULE ErrorBudget ----------------------------
(***************************************************************************)
(* What error injection promises a test: each endpoint has a budget of     *)
(* calls that fail, of whole calls or without end, spent only by calls     *)
(* that do fail.  A call of an endpoint without a budget is handled.       *)
(***************************************************************************)
EXTENDS Integers

CONSTANTS Endpoints, Forever, Broken

VARIABLES
  left,             \* endpoint -> calls still to fail
  answer            \* the endpoint called last, and what came of it

vars == <<left, answer>>

Budgets == Nat \cup {Forever, Broken}

Init ==
  /\ left = [e \in Endpoints |-> 0]
  /\ answer = [to |-> "none", outcome |-> "none"]

\* The harness sets budgets, of one endpoint or of all.
Set ==
  /\ left' \in [Endpoints -> Budgets]
  /\ \/ \E e \in Endpoints : \A d \in Endpoints \ {e} : left'[d] = left[d]
     \/ left' = [e \in Endpoints |-> 0]
  /\ answer' = [to |-> "control", outcome |-> "handled"]

\* A call that fails: forced to, or because the budget is none that can be spent.
Fail(e) ==
  /\ left[e] # 0
  /\ left' = [left EXCEPT ![e] = IF @ \in {Forever, Broken} THEN @ ELSE @ - 1]
  /\ answer' = [to |-> e, outcome |-> IF left[e] = Broken THEN "unhandled" ELSE "injected"]

Handle(e) ==
  /\ left[e] = 0
  /\ answer' = [to |-> e, outcome |-> "handled"]
  /\ UNCHANGED left

\* A request that is turned away before it counts as a call.
Refuse ==
  /\ answer' \in [to: Endpoints \cup {"control", "ws"}, outcome: {"refused"}]
  /\ UNCHANGED left

Next ==
  \/ Set \/ Refuse
  \/ \E e \in Endpoints : Fail(e) \/ Handle(e)

Spec == Init /\ [][Next]_vars
=============================================================================
