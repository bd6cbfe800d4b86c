---------------------------- MODULE MCModelEvidence -----------------------------
(* Instances of ModelEvidence for TLC: a local runtime with two models, a payment-gated  *)
(* provider, and benchmarks with a case in two of the router's four families.            *)
EXTENDS ModelEvidence

TwoModels == <<"gemma3", "qwen3">>
FourRoles == <<"inspect", "implement", "verify", "review">>
RouterFamilies == [r \in Range(FourRoles) |->
    CASE r = "inspect" -> 1 [] r = "implement" -> 2 [] r = "verify" -> 3 [] r = "review" -> 4]
GemmaIsFaster == [m \in Range(TwoModels) |-> IF m = "gemma3" THEN 1 ELSE 2]
Unverified == [p \in Providers |-> "existing_unverified"]
================================================================================
