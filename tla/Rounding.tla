------------------------------ MODULE Rounding ------------------------------
(***************************************************************************)
(* Python's round(), on a fraction of integers.                            *)
(***************************************************************************)
EXTENDS Integers

\* To the nearest integer, a tie to the even one; m is positive.
RoundHalfEven(n, m) ==
  LET q == n \div m
      r == n % m
  IN IF 2 * r < m \/ (2 * r = m /\ q % 2 = 0) THEN q ELSE q + 1

Magnitude(n) == IF n < 0 THEN -n ELSE n
=============================================================================
