----------------------------- MODULE MCWorkerFleet -----------------------------
(* Instances of WorkerFleet for TLC: t2 needs an ability not every registration has. *)
EXTENDS WorkerFleet

CONSTANTS w1, w2, k1, k2, t1, t2, p1, n1

Wants == [t \in Tasks |-> IF t = t2 THEN {"code"} ELSE {}]
Enrolments == {[generation |-> 1, able |-> {"code"}, project |-> p1],
               [generation |-> 2, able |-> {}, project |-> Nobody]}
Ours == {[tenant |-> n1, local |-> TRUE, trust |-> 1]}
Asked == {[local |-> TRUE, trust |-> 1]}
Alike == Permutations(Workers) \cup Permutations(Tokens)
================================================================================
