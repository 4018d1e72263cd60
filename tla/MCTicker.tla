------------------------------ MODULE MCTicker ------------------------------
(***************************************************************************)
(* A small instance of Ticker for TLC: two listed tokens and one that is   *)
(* not, and a request of every kind.                                       *)
(***************************************************************************)
EXTENDS Ticker

MCKnown == {"INFY", "NIFTY"}
MCUnknown == {"gone"}

Request(a, mode, v) == [a |-> a, mode |-> mode, v |-> v]

MCMessages ==
  {Request("subscribe", None, <<"INFY">>),
   Request("subscribe", None, <<"gone", "NIFTY">>),
   Request("subscribe", None, <<"gone", Malformed, "INFY">>),
   Request("unsubscribe", None, <<"INFY">>),
   Request("unsubscribe", None, <<"NIFTY">>),
   Request("mode", "full", <<"INFY">>),
   Request("mode", "deep", <<"INFY">>),
   Request("mode", Malformed, <<"INFY">>),
   Request("other", None, <<>>)}
=============================================================================
