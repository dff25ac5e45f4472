----------------------------- MODULE MCAgentRun -----------------------------
(* Two requests to one session, for TLC: one may call tools, one only answers. *)
EXTENDS AgentRun, TLC

CONSTANTS r1, r2

OneSession == [r \in Run |-> 1]
ToolsThenPlain == [r \in Run |-> IF r = r1 THEN 3 ELSE 1]
PlainRuns == [r \in Run |-> 1]
=============================================================================
