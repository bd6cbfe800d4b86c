--------------------------- MODULE MCMissionRuntime ----------------------------
(* Instances of SelfDevelopment, with its mission runtime and planner, for TLC. *)
EXTENDS SelfDevelopment

AllWirings == [broker : BOOLEAN, fixture : BOOLEAN, loopback : BOOLEAN]
SomeGoals == [long : {FALSE}, scale : BOOLEAN, quality : BOOLEAN, tests : BOOLEAN,
              pyproject : {TRUE}, dogfood : BOOLEAN, files : {0, 1, 2, 6}]
SomeCaps == {1, 3, 4, 5, 32}
================================================================================
