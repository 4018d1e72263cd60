------------------------------ MODULE Throttle ------------------------------
(***************************************************************************)
(* What the rate limiter promises: within each second of the clock a key   *)
(* is served up to its limit and refused from there on, keys do not share  *)
(* their allowance, and every key starts afresh at each new second.        *)
(***************************************************************************)
EXTENDS Integers

CONSTANTS Keys, Allowance(_), None

VARIABLES
  clock,            \* the second it is
  served,           \* key -> requests served in the current second
  answer            \* key and outcome of the last request

Init ==
  /\ clock = 0
  /\ served = [k \in Keys |-> 0]
  /\ answer = [key |-> None, outcome |-> "none"]

Serve(k) ==
  /\ served[k] < Allowance(k)
  /\ served' = [served EXCEPT ![k] = @ + 1]
  /\ answer' = [key |-> k, outcome |-> "served"]
  /\ UNCHANGED clock

Refuse(k) ==
  /\ served[k] = Allowance(k)
  /\ answer' = [key |-> k, outcome |-> "429"]
  /\ UNCHANGED <<clock, served>>

\* Paths the limiter does not look at.
Exempt ==
  /\ answer' = [key |-> None, outcome |-> "served"]
  /\ UNCHANGED <<clock, served>>

NewSecond ==
  /\ clock' = clock + 1
  /\ served' = [k \in Keys |-> 0]
  /\ UNCHANGED answer

Next == (\E k \in Keys : Serve(k) \/ Refuse(k)) \/ Exempt \/ NewSecond

Spec == Init /\ [][Next]_<<clock, served, answer>>
=============================================================================
