----------------------------- MODULE MissionControl ----------------------------
(***************************************************************************)
(* The mission controller (src/swarm/controller): graph proposals and their *)
(* validation, the adaptive scheduler, verification receipts and mission    *)
(* completion, composed with the site authority the scheduler asks before a *)
(* dispatch.                                                                *)
(*                                                                         *)
(* The controller's coroutines never suspend, so each is one step; what     *)
(* interleaves are the planners, workers and operators that call them with  *)
(* what they saw earlier.  A spec's objective stands for its objective,     *)
(* family and parent, which the duplicate check compares together.          *)
(***************************************************************************)
EXTENDS SiteAuthority, FiniteSets

CONSTANTS Missions, Tasks, Attempts,
          Specs,           \* task specs planners propose
          Drafts,          \* what planners propose: an operation and its specs
          Schedulers,      \* scheduler objects that ask one authority service
          MissionScopes,   \* data_scope_ids of the missions
          MaxGraphNodes,
          Slots,           \* pairs of inference_slots and worker_slots
          ControlReserve, CooldownTicks, MaxConcurrency, MinSlots,  \* SchedulerConfig
          Home,            \* site of the schedulers
          MaxProposals,    \* bound: proposals submitted
          MaxOverloads     \* bound: overloads noted

GraphOperation == {"spawn", "split", "merge", "challenge", "reassign", "revise_dependency", "stop"}

ASSUME ControlAssumption ==
    /\ \A s, t \in Specs : s.id = t.id => s = t   \* ids are generated with the spec
    /\ \A s \in Specs : s.id \in Tasks /\ s.deps \subseteq Tasks
    /\ \A s, t \in Specs : s.priority = t.priority => s = t   \* created_at breaks ties
    /\ Drafts \subseteq [op : GraphOperation, specs : SUBSET Specs]
    /\ Home \in Sites
    /\ Slots \subseteq [inference : Nat, worker : Nat] /\ ControlReserve \in Nat /\ MinSlots \in Nat
    /\ CooldownTicks \in Nat /\ MaxConcurrency \in Nat /\ MaxOverloads \in Nat

VARIABLES mission,    \* status and revision of a mission
          tasks,      \* the task map of a mission: spec and status of each task
          proposals,  \* proposals received, none is ever removed
          attempts,   \* registered attempts: their task and whether they hold a receipt
          sched,      \* cooldown, draining and the epoch a scheduler was built with
          slots,      \* inference_slots and worker_slots
          picked,     \* history: the tasks choose_ready_work returned, with the epoch
          withdrawn,  \* missions the API cancelled (cancelled_missions)
          overloads   \* history: overloads noted

controlVars == <<mission, tasks, proposals, attempts, sched, slots, picked, withdrawn, overloads>>
vars == <<siteVars, controlVars>>

MissionStatus == {"none", "planning", "running", "completed", "cancelled"}
TaskStatus == {"ready", "accepted", "cancelled"}
GraphProposal == [mission : Missions, based : Nat, op : GraphOperation,
                  specs : SUBSET Specs, seen : SUBSET Tasks]
Task == [spec : Specs, status : TaskStatus]
TaskMap == UNION {[D -> Task] : D \in SUBSET Tasks}

TypeOK ==
    /\ SiteTypeOK
    /\ mission \in [Missions -> [status : MissionStatus, revision : Nat]]
    /\ tasks \in [Missions -> TaskMap]
    /\ \A m \in Missions : \A t \in DOMAIN tasks[m] : tasks[m][t].spec.id = t
    /\ proposals \subseteq GraphProposal
    /\ attempts \in [Attempts -> [task : Tasks \cup {"none"}, verified : BOOLEAN]]
    /\ sched \in [Schedulers -> [cooldown : 0..CooldownTicks, draining : BOOLEAN, epoch : 1..MaxEpoch]]
    /\ slots \in Slots
    /\ picked \subseteq [mission : Missions, task : Tasks, epoch : Nat]
    /\ withdrawn \subseteq Missions
    /\ overloads \in 0..MaxOverloads

Init ==
    /\ SiteInit
    /\ mission = [m \in Missions |-> [status |-> "none", revision |-> 0]]
    /\ tasks = [m \in Missions |-> <<>>]
    /\ proposals = {}
    /\ attempts = [a \in Attempts |-> [task |-> "none", verified |-> FALSE]]
    /\ sched = [k \in Schedulers |-> [cooldown |-> 0, draining |-> FALSE, epoch |-> 1]]
    /\ slots \in Slots
    /\ picked = {}
    /\ withdrawn = {}
    /\ overloads = 0

Status(m, t) == tasks[m][t].status
Accepted(m, t) == t \in DOMAIN tasks[m] /\ Status(m, t) = "accepted"
Verified(t) == \E a \in Attempts : attempts[a].task = t /\ attempts[a].verified

--------------------------------------------------------------------------------
(* Graph revisions: controller/graph.py and the commit. *)

\* A projection that sees the new specs only.
ProjectedNew(m, new) == [t \in {s.id : s \in new} |-> (CHOOSE s \in new : s.id = t).deps]

\* Dependencies of a task map extended by new specs, and whether they hold a cycle: a set
\* of nodes each of which depends on another of the set.  Missing nodes depend on nothing.
Projected(m, new) == [t \in DOMAIN tasks[m] \cup {s.id : s \in new} |->
    IF \E s \in new : s.id = t THEN (CHOOSE s \in new : s.id = t).deps ELSE tasks[m][t].spec.deps]

WouldCycle(g) == \E C \in SUBSET DOMAIN g : C # {} /\ \A n \in C : g[n] \cap C # {}

InScope(m, s) ==
    /\ \A d \in s.deps \cap DOMAIN tasks[m] :
          s.scopes = {} \/ tasks[m][d].spec.scopes = {} \/ s.scopes \cap tasks[m][d].spec.scopes # {}
    /\ MissionScopes = {} \/ s.scopes \subseteq MissionScopes \/ s.scopes \cap MissionScopes # {}

Duplicate(m, s) == \E t \in DOMAIN tasks[m] :
    tasks[m][t].spec.objective = s.objective /\ Status(m, t) # "cancelled"

Spawns(p) == p.op \in {"spawn", "split"}

\* A stop is accepted before any other check.
ValidateProposal(p) ==
    LET m == p.mission IN
    /\ p.based = mission[m].revision
    /\ p.op # "stop" =>
         /\ \A s \in p.specs : InScope(m, s)
         /\ Spawns(p) =>
              /\ \A s \in p.specs : ~Duplicate(m, s)
              /\ Cardinality(DOMAIN Projected(m, p.specs)) <= MaxGraphNodes
         /\ Spawns(p) \/ p.op = "revise_dependency" => ~WouldCycle(Projected(m, p.specs))

SubmitMission(m) ==
    /\ mission[m].status = "none"
    /\ mission' = [mission EXCEPT ![m] = [status |-> "planning", revision |-> 1]]
    /\ UNCHANGED <<siteVars, tasks, proposals, attempts, sched, slots, picked, withdrawn, overloads>>

\* A planner proposes against the revision and the graph it sees.
ProposeGraphChange(m, d) ==
    /\ mission[m].status # "none"
    /\ Cardinality(proposals) < MaxProposals
    /\ proposals' = proposals \cup {[mission |-> m, based |-> mission[m].revision, op |-> d.op,
                                     specs |-> d.specs, seen |-> DOMAIN tasks[m]]}
    /\ UNCHANGED <<siteVars, mission, tasks, attempts, sched, slots, picked, withdrawn, overloads>>

\* Commits that leave the status, or the revision, as it was.
RaisedKeepsStatus(r) == [r EXCEPT !.revision = @ + 1]
RaisedKeepsRevision(r) == [r EXCEPT !.status = "running"]

\* Every accepted operation but a stop raises the revision and sets the mission running,
\* whatever its status was; only spawn and split change the task map.
Raised(r) == [status |-> "running", revision |-> r.revision + 1]

\* The specs become ready tasks, over those that have their ids.
Spawned(m, new) == [t \in DOMAIN tasks[m] \cup {s.id : s \in new} |->
    IF \E s \in new : s.id = t
    THEN [spec |-> CHOOSE s \in new : s.id = t, status |-> "ready"] ELSE tasks[m][t]]

CommitValidatedRevision(p) ==
    LET m == p.mission IN
    /\ ValidateProposal(p)
    /\ tasks' = IF Spawns(p) THEN [tasks EXCEPT ![m] = Spawned(m, p.specs)] ELSE tasks
    /\ mission' = [mission EXCEPT ![m] = IF p.op = "stop" THEN [@ EXCEPT !.status = "cancelled"]
                                         ELSE Raised(@)]
    /\ UNCHANGED <<siteVars, proposals, attempts, sched, slots, picked, withdrawn, overloads>>

--------------------------------------------------------------------------------
(* Scheduling: choose_ready_work asks the scheduler, which ticks, checks the epoch and  *)
(* picks ready tasks by priority within the slots.                                     *)

Ready(m) == {t \in DOMAIN tasks[m] :
    Status(m, t) = "ready" /\ \A d \in tasks[m][t].spec.deps : Accepted(m, d)}

Lesser(a, b) == IF a <= b THEN a ELSE b
Greater(a, b) == IF a >= b THEN a ELSE b

Ticked(k) == [sched[k] EXCEPT !.cooldown = IF @ > 0 THEN @ - 1 ELSE 0]

Usable(cooldown) ==
    LET all == Lesser(Lesser(slots.inference, slots.worker), MaxConcurrency)
        cooled == IF cooldown > 0 THEN Greater(MinSlots, all \div 2) ELSE all
        pressed == IF slots.inference <= MinSlots THEN Lesser(cooled, MinSlots) ELSE cooled
    IN  Greater(0, pressed - ControlReserve)

\* The first tasks in priority order that some profile qualifies for; aging shifts every
\* priority by the same tick and so leaves the order alone.
Selected(m, n) ==
    LET known == {t \in Ready(m) : tasks[m][t].spec.familiar}
        before(t) == {u \in known : tasks[m][u].spec.priority < tasks[m][t].spec.priority}
    IN  {t \in known : Cardinality(before(t)) < n}

ChooseReadyWork(m, k) ==
    /\ mission[m].status # "none"
    /\ sched' = [sched EXCEPT ![k] = Ticked(k)]
    /\ picked' = picked \cup
         IF RequireEpoch(Home, sched[k].epoch) /\ ~sched[k].draining
         THEN {[mission |-> m, task |-> t, epoch |-> sched[k].epoch] :
                 t \in Selected(m, Usable(Ticked(k).cooldown))}
         ELSE {}
    /\ UNCHANGED <<siteVars, mission, tasks, proposals, attempts, slots, withdrawn, overloads>>

NoteInferenceExhaustion(k) ==
    /\ overloads < MaxOverloads
    /\ overloads' = overloads + 1
    /\ sched' = [sched EXCEPT ![k].cooldown = CooldownTicks]
    /\ UNCHANGED <<siteVars, mission, tasks, proposals, attempts, slots, picked, withdrawn>>

Drain(k, b) ==
    /\ sched' = [sched EXCEPT ![k].draining = b]
    /\ UNCHANGED <<siteVars, mission, tasks, proposals, attempts, slots, picked, withdrawn, overloads>>

ExpandCapacity(s) ==
    /\ slots' = s
    /\ UNCHANGED <<siteVars, mission, tasks, proposals, attempts, sched, picked, withdrawn, overloads>>

\* A scheduler built after a restore binds the epoch of its site.
NewScheduler(k) ==
    /\ sched' = [sched EXCEPT ![k] = [cooldown |-> 0, draining |-> FALSE, epoch |-> site[Home].epoch]]
    /\ UNCHANGED <<siteVars, mission, tasks, proposals, attempts, slots, picked, withdrawn, overloads>>

--------------------------------------------------------------------------------
(* Verification and completion. *)

\* A worker registers its attempt at a task that was picked for it.
RegisterAttempt(a, d) ==
    /\ attempts[a].task = "none"
    /\ attempts' = [attempts EXCEPT ![a].task = d.task]
    /\ UNCHANGED <<siteVars, mission, tasks, proposals, sched, slots, picked, withdrawn, overloads>>

\* A receipt for an unregistered attempt changes no task; one for a registered attempt
\* accepts its task in every mission that has it, whatever its status was.
RecordVerification(a) ==
    /\ attempts[a].task # "none"
    /\ attempts' = [attempts EXCEPT ![a].verified = TRUE]
    /\ tasks' = [m \in Missions |->
         IF attempts[a].task \in DOMAIN tasks[m]
         THEN [tasks[m] EXCEPT ![attempts[a].task].status = "accepted"] ELSE tasks[m]]
    /\ UNCHANGED <<siteVars, mission, proposals, sched, slots, picked, withdrawn, overloads>>

Finished(m) ==
    /\ DOMAIN tasks[m] # {}
    /\ \A t \in DOMAIN tasks[m] : \/ Status(m, t) = "cancelled"
                                  \/ Status(m, t) = "accepted" /\ Verified(t)

TryComplete(m) ==
    /\ Finished(m)
    /\ mission' = [mission EXCEPT ![m].status = "completed"]
    /\ UNCHANGED <<siteVars, tasks, proposals, attempts, sched, slots, picked, withdrawn, overloads>>

\* The product API cancels a mission and every task of its map, once: a mission it
\* cancelled before is returned as it is (api/store.py).
CancelMission(m) ==
    /\ mission[m].status # "none" /\ m \notin withdrawn
    /\ withdrawn' = withdrawn \cup {m}
    /\ mission' = [mission EXCEPT ![m].status = "cancelled"]
    /\ tasks' = [tasks EXCEPT ![m] = [t \in DOMAIN @ |-> [@[t] EXCEPT !.status = "cancelled"]]]
    /\ UNCHANGED <<siteVars, proposals, attempts, sched, slots, picked, overloads>>

--------------------------------------------------------------------------------
ControlNext ==
    \/ \E m \in Missions :
         \/ SubmitMission(m) \/ TryComplete(m) \/ CancelMission(m)
         \/ \E d \in Drafts : ProposeGraphChange(m, d)
    \/ \E p \in proposals : CommitValidatedRevision(p)
    \/ \E a \in Attempts : RecordVerification(a) \/ \E d \in picked : RegisterAttempt(a, d)
    \/ \E k \in Schedulers :
         \/ NoteInferenceExhaustion(k) \/ NewScheduler(k)
         \/ \E b \in BOOLEAN : Drain(k, b)
         \/ \E m \in Missions : ChooseReadyWork(m, k)
    \/ \E s \in Slots : ExpandCapacity(s)

Next ==
    \/ ControlNext
    \/ SiteNext /\ UNCHANGED controlVars

Spec == Init /\ [][Next]_vars

--------------------------------------------------------------------------------
(* No mission ever holds a circular wait: each commit is checked against the tasks  *)
(* that are there by then, dependencies on tasks not yet spawned included.         *)
GraphAcyclic == \A m \in Missions : ~WouldCycle([t \in DOMAIN tasks[m] |-> tasks[m][t].spec.deps])

(* A completed mission has nothing open: every task is cancelled or accepted on a   *)
(* verified attempt, and a revision committed later sets the mission running again. *)
CompletedMeansVerified == \A m \in Missions : mission[m].status = "completed" => Finished(m)

(* A scheduler built before a restore dispatches nothing once one of the new epoch  *)
(* has: the epochs of dispatches never go back.                                    *)
EpochsDispatchInOrder ==
    [][\A d \in picked' \ picked, e \in picked : e.epoch <= d.epoch]_vars

(* The controller keeps the optimistic concurrency of RevisionedGraph: a proposal   *)
(* commits only onto the task set its author saw.                                  *)
Planned == INSTANCE RevisionedGraph WITH
    Graphs <- Missions, Nodes <- Tasks,
    revision <- [m \in Missions |-> mission[m].revision],
    nodes <- [m \in Missions |-> DOMAIN tasks[m]],
    drafts <- {[of |-> p.mission, based |-> p.based, seen |-> p.seen] : p \in proposals}
RevisionsAreOptimistic == Planned!Spec
================================================================================
