------------------------------ MODULE MCProductApi -----------------------------
(* Instances of ProductApi for TLC: one mission and one approval of p1, an actor of each project. *)
EXTENDS ProductApi

CONSTANTS u1, u2, p1, p2

OfFirst == [m \in Missions |-> p1]
ApprovalsOfFirst == [a \in Approvals |-> p1]
OneEach == [u \in Actors |-> IF u = u1 THEN {p1} ELSE {p2}]
================================================================================
