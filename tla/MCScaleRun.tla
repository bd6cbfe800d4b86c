------------------------------ MODULE MCScaleRun -------------------------------
(* Instances of ScaleRun for TLC: lane 3 repeats a target and the queue refuses the last; two requests, one with a tool. *)
EXTENDS ScaleRun

CONSTANTS p1, q1, q2

Files == <<"a", "b", "a", "c">>
OneProject == [q \in Requests |-> p1]
OneTool == [q \in Requests |-> IF q = q1 THEN 1 ELSE 0]
Supply == [r \in Resources |-> IF r = "provider" THEN 2 ELSE 1]
================================================================================
