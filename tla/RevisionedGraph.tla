---------------------------- MODULE RevisionedGraph ----------------------------
(***************************************************************************)
(* What a mission's task graph promises its planners: optimistic            *)
(* concurrency.  A draft is applied only to the graph its author saw, tasks *)
(* are added and never disappear, and every applied draft raises the        *)
(* revision, so of the drafts made at one revision at most one is applied.  *)
(***************************************************************************)
EXTENDS Naturals

CONSTANTS Graphs, Nodes

VARIABLES revision,  \* 0 before the graph exists
          nodes,     \* tasks of a graph
          drafts     \* what planners proposed, with the revision and the tasks they saw

vars == <<revision, nodes, drafts>>

Init ==
    /\ revision = [g \in Graphs |-> 0]
    /\ nodes = [g \in Graphs |-> {}]
    /\ drafts = {}

Open(g) ==
    /\ revision[g] = 0
    /\ revision' = [revision EXCEPT ![g] = 1]
    /\ UNCHANGED <<nodes, drafts>>

Draft(g) ==
    /\ revision[g] > 0
    /\ drafts' = drafts \cup {[of |-> g, based |-> revision[g], seen |-> nodes[g]]}
    /\ UNCHANGED <<revision, nodes>>

Apply(d, new) ==
    /\ d.based = revision[d.of]
    /\ d.seen = nodes[d.of]
    /\ nodes' = [nodes EXCEPT ![d.of] = @ \cup new]
    /\ revision' = [revision EXCEPT ![d.of] = @ + 1]
    /\ UNCHANGED drafts

Next ==
    \/ \E g \in Graphs : Open(g) \/ Draft(g)
    \/ \E d \in drafts, new \in SUBSET Nodes : Apply(d, new)

Spec == Init /\ [][Next]_vars
================================================================================
