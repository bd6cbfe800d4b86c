----------------------------- MODULE MCQuotaBroker -----------------------------
(* Instances of QuotaBroker for TLC. *)
EXTENDS QuotaBroker, TLC

CONSTANTS c1, c2, c3, r1, r2, control, tokens

\* Local loopback routes: qualified, free of charge.
AllFree == [r \in Routes |->
    [deprecated |-> FALSE, availability |-> "available", eligibility |-> "prototype",
     private |-> TRUE, billing |-> "none", free |-> TRUE, qualified |-> TRUE]]
MissionThenPlanning == [c \in Calls |-> IF c = c1 THEN "mission" ELSE "planning"]
One == [c \in Calls |-> 1]

\* control counts requests, tokens counts tokens, two for a call: one call of each
\* purpose fits control above its floor, one call at a time fits tokens.
Dimensions == [b \in Buckets |-> IF b = tokens THEN "total_tokens" ELSE "requests"]
Order == [b \in Buckets |-> IF b = tokens THEN 1 ELSE 2]
AllBuckets == [r \in Routes |-> Buckets]
Limits == [b \in Buckets |-> IF b = tokens THEN 3 ELSE 2]
================================================================================
