------------------------------ MODULE MCKnowledge ------------------------------
(* Instances of Knowledge for TLC: an observation and a summary of one project. *)
EXTENDS Knowledge

CONSTANTS fact, digest, p1, l1

Open == {{l1}}
OneProject == [i \in Items |-> p1]
Classes == [i \in Items |-> IF i = fact THEN "observation" ELSE "summary"]
================================================================================
