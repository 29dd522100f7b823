------------------------------- MODULE MCAgentRun -------------------------------
(* AgentRun for TLC: a run whose provider answers with up to two tool calls, and *)
(* one that ends without a call of the provider, between whose start and end the *)
(* other's come in any order.                                                    *)
EXTENDS AgentRun

CONSTANTS r1, r2

OneRound == [r \in Run |-> IF r = r1 THEN 1 ELSE 0]
OneWorks == [r \in Run |-> IF r = r1 THEN 2 ELSE 0]
===============================================================================
