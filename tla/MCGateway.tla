----------------------------- MODULE MCGateway -----------------------------
(***************************************************************************)
(* A small instance of Gateway for TLC.  The two calls of user.margins     *)
(* share the key errors are forced on.                                     *)
(***************************************************************************)
EXTENDS Gateway, TLC

CONSTANTS r1, r2, s1, s2

MCSlots == {r1, r2}
MCCalls ==
  {[endpoint |-> "user.margins", known |-> TRUE], [endpoint |-> "user.margins", known |-> FALSE]}

MCNames == {<<>>, <<"a">>, <<"b", ":", "a">>}
MCAuths ==
  {[mode |-> "accept_any"],
   [mode |-> "fixed", api_key |-> <<"a">>, access_token |-> <<"b", ":", "a">>]}
MCSockets == {s1, s2}
MCParams ==
  [s \in MCSockets |->
     IF s = s2 THEN [api_key |-> <<"b", ":", "a">>, access_token |-> <<"a">>]
     ELSE [api_key |-> <<"a">>, access_token |-> <<"b", ":", "a">>]]
\* A header of the right credentials, and one that names another scheme.
MCHeaders == {HeaderOf(MCParams[s1]), [HeaderOf(MCParams[s1]) EXCEPT !.scheme = "Bearer"]}

MCLatencies == {[f \in Fields |-> Minimum[f]]}
\* Bodies with a bad value in the middle and at the end, a good one, and one that
\* names an unknown field.
MCLatencyBodies ==
  {<<<<"rest_ms", 2>>, <<"heartbeat_interval_ms", 0>>, <<"rest_jitter_ms", 3>>>>,
   <<<<"ws_tick_interval_ms", 1>>, <<"rest_ms", Text>>>>,
   <<<<"rest_jitter_ms", 0>>, <<"rest_ms", 0>>>>,
   <<<<"rest_ms", 3>>, <<"rest", 1>>>>}

ErrorBody(e, clear, type, count) ==
  [endpoint |-> e, clear |-> clear, error_type |-> type, count |-> count]
MCErrorBodies ==
  {ErrorBody("user.margins", FALSE, TRUE, n) : n \in {-1, 0, 1, 4, Text}}
    \cup {ErrorBody("user.margins", TRUE, FALSE, 2), ErrorBody("user.margins", FALSE, FALSE, 2),
          ErrorBody(None, FALSE, TRUE, 2)}

\* No action reads the last answer.
WithoutAnswer == <<config, injections, req, wsVars>>
Symmetry == Permutations(MCSlots)
=============================================================================
