--------------------------- MODULE MCEffectGateway ---------------------------
(* The instance of EffectGateway for TLC: an API call and a browser submission that *)
(* share a grant of one use, and a file write that needs none.                      *)
EXTENDS EffectGateway, TLC

CONSTANTS k1, k2, k3

OneOfEach == [k \in Keys |-> CASE k = k1 -> "api" [] k = k2 -> "browser" [] k = k3 -> "local"]
FirstTwo == [a \in Approvals |-> {k1, k2}]
OneShot == [a \in Approvals |-> 1]

Interchangeable == Permutations(Procs)
================================================================================
