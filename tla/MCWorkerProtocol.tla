--------------------------- MODULE MCWorkerProtocol ----------------------------
(* Instances of WorkerProtocol for TLC. *)
EXTENDS WorkerProtocol, TLC

CONSTANTS p1, m1, t1

OneProjectOf == [m \in Missions |-> p1]
OneMissionOf == [t \in Tasks |-> m1]
NoDependencies == [t \in Tasks |-> {}]
NeedEverything == [t \in Tasks |-> Caps]
SameRank == [t \in Tasks |-> 1]

Interchangeable == Permutations(Workers) \cup Permutations(Leases) \cup Permutations(Results)
================================================================================
