-------------------------- MODULE MCGatewaySession --------------------------
(* Small instances of GatewaySession.  Three calls share one digest (a      *)
(* request and its retries) and a fourth has its own.                       *)
EXTENDS GatewaySession

CONSTANTS c1, c2, c3, c4, k1, k2

MCCalls    == {c1, c2, c3, c4}
MCKeys     == {k1, k2}
MCKeyOf    == [c \in MCCalls |-> IF c = c4 THEN k2 ELSE k1]
LiveCalls  == {c1, c2, c3}
LiveKeyOf  == [c \in LiveCalls |-> k1]
MCStreamed == {k1}
NoStreams  == {}

NoCeiling     == [l \in LimitNames |-> Unlimited]
CallCeiling   == [NoCeiling EXCEPT !["max_model_calls"] = 2]
TokenCeiling  == [NoCeiling EXCEPT !["max_input_tokens"] = 2, !["max_total_tokens"] = 3,
                                   !["max_output_tokens"] = 2]
BothCeilings  == [TokenCeiling EXCEPT !["max_model_calls"] = 3]

NoCounts  == {0}
OneOrTwo  == {1, 2}
=============================================================================
