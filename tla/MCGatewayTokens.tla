-------------------------- MODULE MCGatewayTokens --------------------------
EXTENDS GatewayTokens

CONSTANTS a, b

(* One caller that makes four calls, or two that share three.              *)
SomeRosters == {[k \in Callers |-> IF k = a THEN 4 ELSE 0],
                [k \in Callers |-> IF k = a THEN 2 ELSE 1]}
=============================================================================
