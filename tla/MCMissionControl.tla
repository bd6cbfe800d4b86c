--------------------------- MODULE MCMissionControl ----------------------------
(* Instances of MissionControl for TLC. *)
EXTENDS MissionControl, TLC

CONSTANTS k1, k2, m1, t1, t2, t3, a1, a2, east, west, l1, u1

\* t1 stands alone; t2 and t3 wait for each other, so whichever comes second closes a cycle.
SpecOf(t, o, d, p) == [id |-> t, objective |-> o, deps |-> d, scopes |-> {"repo"},
                       familiar |-> TRUE, priority |-> p]
S1 == SpecOf(t1, "o1", {}, 1)
S2 == SpecOf(t2, "o2", {t3}, 2)
S3 == SpecOf(t3, "o3", {t2}, 3)
AllSpecs == {S1, S2, S3}
Proposed == {[op |-> "spawn", specs |-> {S1}], [op |-> "spawn", specs |-> {S2}],
             [op |-> "split", specs |-> {S3}], [op |-> "revise_dependency", specs |-> {S3}],
             [op |-> "stop", specs |-> {}]}
Alike == Permutations(Schedulers)
Wide == {[inference |-> i, worker |-> 2] : i \in {1, 4}}
================================================================================
