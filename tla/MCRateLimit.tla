---------------------------- MODULE MCRateLimit ----------------------------
(***************************************************************************)
(* A small instance of RateLimit for TLC: the limits 1, 10 and 10 of the   *)
(* source scaled down to one request, so that two keys of every class and  *)
(* a change of second fit.                                                 *)
(***************************************************************************)
EXTENDS RateLimit

MCApiKeys == {"k"}
MCLimits == [c \in Classes |-> 1]

\* No action reads the last answer.
WithoutAnswer == <<clock, windows>>
=============================================================================
