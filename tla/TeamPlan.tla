-------------------------------- MODULE TeamPlan --------------------------------
(***************************************************************************)
(* The dynamic team planner (src/swarm/mission/teams.py): an estimate of    *)
(* the goal's complexity, a team under a cap of agents, and the task graph  *)
(* of the team.  Pure functions; a task is its place in the list of tasks.  *)
(***************************************************************************)
EXTENDS Naturals, Sequences

\* What the estimate reads: flags of the goal and of the repository, and how many files
\* the goal names.
GoalSignals ==
    [long : BOOLEAN, scale : BOOLEAN, quality : BOOLEAN, tests : BOOLEAN, pyproject : BOOLEAN,
     dogfood : BOOLEAN, files : 0..7]

AtMost(a, b) == IF a < b THEN a ELSE b
AtLeast(a, b) == IF a < b THEN b ELSE a
Points(flag, n) == IF flag THEN n ELSE 0

EstimateComplexity(s) ==
    LET score == 2 + Points(s.long, 1) + Points(s.scale, 2) + Points(s.quality, 1)
                   + Points(s.tests, 1) + Points(s.pyproject, 1) + AtMost(3, s.files)
    IN AtMost(10, IF s.dogfood THEN AtLeast(score, 3) ELSE score)

AgentCount(team) == team.supervisor + team.specialist + team.worker + team.reviewer

\* A team that forgets to shrink.
FormDynamicTeamUncapped(s, maxAgents) ==
    [supervisor |-> 1, specialist |-> AtMost(2, s.files),
     worker |-> AtLeast(1, EstimateComplexity(s) \div 2), reviewer |-> 1]

\* Workers by complexity, specialists for large goals and named files, one supervisor and one
\* reviewer; over the cap, workers go first (one stays) and then specialists.
FormDynamicTeam(s, maxAgents) ==
    LET complexity == EstimateComplexity(s)
        byScore == IF complexity >= 5 THEN 1 ELSE 0
        specialists == IF s.files = 0 THEN byScore
                       ELSE AtMost(2, AtLeast(byScore, AtLeast(1, s.files \div 3)))
        workers == AtMost(AtLeast(1, complexity \div 2), AtLeast(1, maxAgents \div 2))
        over == AtLeast(2 + specialists + workers, maxAgents) - maxAgents
        leaving == AtMost(over, workers - 1)
    IN [supervisor |-> 1, specialist |-> specialists - AtMost(over - leaving, specialists),
        worker |-> workers - leaving, reviewer |-> 1]

\* Inspection, supervisor, specialists, workers, reviewers and the verification, in this order;
\* nothing waits for the supervisor.
PlanDynamicTaskGraph(team) ==
    LET firstSpecialist == 2 + team.supervisor
        firstWorker == firstSpecialist + team.specialist
        firstReviewer == firstWorker + team.worker
        verify == firstReviewer + team.reviewer
    IN [i \in 1..verify |->
          IF i = 1 THEN [family |-> "inspect", deps |-> {}]
          ELSE IF i < firstSpecialist THEN [family |-> "supervise", deps |-> {1}]
          ELSE IF i < firstWorker THEN [family |-> "specialize", deps |-> {1}]
          ELSE IF i < firstReviewer
               THEN [family |-> "implement", deps |-> {1} \cup (firstSpecialist..(firstWorker - 1))]
          ELSE IF i < verify THEN [family |-> "review", deps |-> firstWorker..(firstReviewer - 1)]
          ELSE [family |-> "verify", deps |-> firstReviewer..(verify - 1)]]

\* max_graph_nodes of a software mission.
MaxGraphNodes == 16

\* What the graph must be for the controller to admit it and for its verification to come
\* after the work: dependencies point back, and each implementation is behind a review.
Admissible(graph) ==
    /\ Len(graph) <= MaxGraphNodes
    /\ \A i \in DOMAIN graph : \A d \in graph[i].deps : d < i
    /\ graph[Len(graph)].family = "verify"
    /\ \A i \in DOMAIN graph : graph[i].family = "implement" =>
         \E r \in graph[Len(graph)].deps : graph[r].family = "review" /\ i \in graph[r].deps
================================================================================
