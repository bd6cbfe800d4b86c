---------------------------- MODULE MCAgentSession -----------------------------
(* Instances of AgentSession for TLC: a1 asks a model, a2 waits, a3 needs no model and   *)
(* has another registration.                                                             *)
EXTENDS AgentSession

CONSTANTS a1, a2, a3, a4

TwoRoles == [a \in Attempts |-> IF a = a3 THEN "reg_review" ELSE "reg_build"]
================================================================================
