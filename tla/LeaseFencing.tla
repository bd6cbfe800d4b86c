----------------------------- MODULE LeaseFencing -----------------------------
(***************************************************************************)
(* The durable task-lease protocol: src/swarm/db/lease_fencing.py behind    *)
(* src/swarm/workers/service.py, with the graph-revision commit of          *)
(* src/swarm/db/repositories.py.                                            *)
(*                                                                         *)
(* The state is the PostgreSQL rows.  Sessions run at READ COMMITTED with   *)
(* autoflush off: a handler reads rows, some of them FOR UPDATE, decides,   *)
(* and writes the columns it changed when it flushes and commits.  Where a  *)
(* handler decides from a row it did not lock, the handler is two actions,  *)
(* a read and a commit, with its transaction in flight in between; the rows *)
(* it did lock stay locked for that time.  A handler that decides only from *)
(* rows it locks, or whose unlocked reads no concurrent write can make      *)
(* stale in a way the protocol tells apart, is one action.                  *)
(*                                                                         *)
(* An attempt and its lease are inserted together by _bind_claim, one to    *)
(* one, so they share an identifier here.                                   *)
(***************************************************************************)
EXTENDS Integers, FiniteSets

CONSTANTS Workers,      \* worker ids
          Projects,     \* project ids
          Caps,         \* capability and privacy-class names
          Missions, Tasks,
          Leases,       \* ids of leases, and of the attempts they belong to
          Results,      \* result ids
          NoResult,     \* accepted_result_id is NULL
          ProjectOf,    \* project of a mission and of its tasks
          MissionOf,    \* mission of a task
          DependsOn,    \* dependency_ids of a task
          Needs,        \* capabilities (and "local" privacy) a task requires
          Rank,         \* place of a task in (priority, created_at, id) order
          SpecStatuses  \* statuses a graph proposal may give a task

CONSTANTS LeaseSeconds, \* default_lease_seconds
          Extensions,   \* extend_seconds a renewal may ask for
          Horizon,      \* renewable_horizon_seconds
          MaxClock, MaxGeneration, MaxCancel, MaxRevision, \* bounds on counters
          MaxInFlight   \* bound on transactions in flight

\* The six runnable mission statuses are one here; the attempt statuses succeeded and
\* failed are written by no handler.
RunnableMission == {"running"}
ActiveLeaseStates == {"active", "renewed"}
LeaseStates == {"none", "active", "renewed", "expired", "released", "cancelled"}
TerminalTask == {"accepted", "rejected", "failed", "cancelled", "superseded"}
DependencyDone == {"accepted", "completed"}
TaskStatuses == {"proposed", "ready", "leased"} \cup TerminalTask \cup DependencyDone
AttemptStatuses == {"none", "leased", "expired", "cancelled", "accepted"}
TerminalAttempt == AttemptStatuses \ {"none", "leased"}
WorkerStatuses == {"absent", "online", "draining", "offline", "quarantined"}

ASSUME RowAssumption ==
    /\ ProjectOf \in [Missions -> Projects]
    /\ MissionOf \in [Tasks -> Missions]
    /\ DependsOn \in [Tasks -> SUBSET Tasks]
    /\ Needs \in [Tasks -> SUBSET Caps]
    /\ Rank \in [Tasks -> Nat]
    /\ SpecStatuses \subseteq TaskStatuses \ {"leased"}
    /\ NoResult \notin Results
    /\ Workers # {} /\ Projects # {} /\ Tasks # {} /\ Leases # {}

ASSUME WindowAssumption ==
    /\ LeaseSeconds \in Nat \ {0}
    /\ Horizon \in Nat \ {0}
    /\ Extensions \subseteq Nat \ {0}

VARIABLES
    clock,     \* the server clock
    worker,    \* worker_leases rows
    mission,   \* missions rows
    task,      \* tasks rows
    lease,     \* task_leases rows
    attempt,   \* task_attempts rows
    result,    \* worker_results rows
    outbox,    \* stable_workflow_id of every outbox row
    claims,    \* claim transactions in flight
    renewals,  \* renew transactions in flight
    sweeps,    \* expire_leases transactions in flight
    accepts,   \* results whose accept transaction is in flight
    revokes,   \* revoke_mission_work / cancel_mission transactions in flight
    graphs     \* commit_graph_revision transactions in flight

rows == <<clock, worker, mission, task, lease, attempt, result, outbox>>
txs == <<claims, renewals, sweeps, accepts, revokes, graphs>>
vars == <<rows, txs>>

WorkerRow == [status : WorkerStatuses, revoked : BOOLEAN, generation : Nat,
              project : Projects, caps : SUBSET Caps]
MissionRow == [status : {"running", "cancelled"}, revision : Nat, cancellation : Nat]
TaskRow == [status : TaskStatuses, revision : Nat]
LeaseRow == [state : LeaseStates, worker : Workers, task : Tasks, generation : Nat,
             revision : Nat, cancellation : Nat, expires : Nat, renewable : Nat]
AttemptRow == [status : AttemptStatuses, accepted : Results \cup {NoResult}]
ResultRow == [state : {"none", "submitted", "accepted", "rejected"},
              lease : Leases, passed : BOOLEAN]
OutboxId == ({"claimed"} \X Leases) \cup ({"submitted", "accepted"} \X Results)
            \cup ({"bumped"} \X Missions \X Nat) \cup ({"lease-cancel"} \X Leases \X Nat)

ClaimTx == [worker : Workers, generation : Nat, task : Tasks, locks : SUBSET Tasks,
            revision : Nat, cancellation : Nat, clock : Nat]
RenewTx == [lease : Leases, state : LeaseStates, was : Nat, expires : Nat]
SweepTx == [leases : SUBSET Leases, tasks : [Tasks -> TaskRow],
            missions : [Missions -> MissionRow]]
RevokeTx == [mission : Missions, leases : SUBSET Leases, terminal : BOOLEAN,
             requeue : BOOLEAN, clock : Nat]
GraphTx == [mission : Missions, based : Nat, seen : [Tasks -> TaskStatuses],
            spec : [Tasks -> SpecStatuses \cup {"unstated"}]]

(* Every row and every transaction in flight has the shape the code gives it. *)
TypeOK ==
    /\ clock \in Nat
    /\ worker \in [Workers -> WorkerRow]
    /\ mission \in [Missions -> MissionRow]
    /\ task \in [Tasks -> TaskRow]
    /\ lease \in [Leases -> LeaseRow]
    /\ attempt \in [Leases -> AttemptRow]
    /\ result \in [Results -> ResultRow]
    /\ outbox \subseteq OutboxId
    /\ claims \subseteq ClaimTx
    /\ renewals \subseteq RenewTx
    /\ sweeps \subseteq SweepTx
    /\ accepts \subseteq Results
    /\ revokes \subseteq RevokeTx
    /\ graphs \subseteq GraphTx

--------------------------------------------------------------------------------
(* Row locks.  A claim holds the candidate tasks it scanned, an accept its lease, *)
(* attempt and task, a sweep the leases it expires, a revocation its mission.     *)

TaskLockedByAcceptOnly(t) == \E r \in accepts : lease[result[r].lease].task = t
TaskLocked(t) == \/ \E c \in claims : t \in c.locks
                 \/ \E r \in accepts : lease[result[r].lease].task = t
LeaseLocked(l) == \/ \E r \in accepts : result[r].lease = l
                  \/ \E s \in sweeps : l \in s.leases
MissionLocked(m) == \E v \in revokes : v.mission = m

(* Bound: how many transactions overlap. *)
Room == Cardinality(claims) + Cardinality(renewals) + Cardinality(sweeps)
          + Cardinality(accepts) + Cardinality(revokes) + Cardinality(graphs) < MaxInFlight

LeaseMission(l) == MissionOf[lease[l].task]
Active(l) == lease[l].state \in ActiveLeaseStates
ActiveOn(t) == {l \in Leases : Active(l) /\ lease[l].task = t}

(* A membership token names one (worker, generation): every enrolment and every   *)
(* rotation issues a new token and raises the generation, revocation clears it.   *)
(* A request is authenticated exactly when it carries the current generation of a *)
(* worker that is not revoked.                                                    *)
Authenticated(w) == /\ worker[w].status \notin {"absent", "quarantined"}
                    /\ ~worker[w].revoked
Claimable(w) == worker[w].status = "online" /\ ~worker[w].revoked

Init ==
    /\ clock = 0
    /\ worker = [w \in Workers |->
                    [status |-> "absent", revoked |-> FALSE, generation |-> 0,
                     project |-> CHOOSE p \in Projects : TRUE, caps |-> {}]]
    /\ mission = [m \in Missions |-> [status |-> "running", revision |-> 1, cancellation |-> 0]]
    /\ task = [t \in Tasks |-> [status |-> "ready", revision |-> 1]]
    /\ lease = [l \in Leases |->
                    [state |-> "none", worker |-> CHOOSE w \in Workers : TRUE,
                     task |-> CHOOSE t \in Tasks : TRUE, generation |-> 0, revision |-> 0,
                     cancellation |-> 0, expires |-> 0, renewable |-> 0]]
    /\ attempt = [l \in Leases |-> [status |-> "none", accepted |-> NoResult]]
    /\ result = [r \in Results |->
                    [state |-> "none", lease |-> CHOOSE l \in Leases : TRUE, passed |-> FALSE]]
    /\ outbox = {}
    /\ claims = {} /\ renewals = {} /\ sweeps = {}
    /\ accepts = {} /\ revokes = {} /\ graphs = {}

Tick == /\ clock < MaxClock
        /\ clock' = clock + 1
        /\ UNCHANGED <<worker, mission, task, lease, attempt, result, outbox, txs>>

--------------------------------------------------------------------------------
(* Worker registration rows.                                                      *)

WorkerWrite == UNCHANGED <<clock, mission, task, lease, attempt, result, outbox, txs>>

(* enroll -> upsert_registration: revoked_at is not among the columns it writes. *)
Enroll(w, p, caps) ==
    /\ worker[w].generation < MaxGeneration
    /\ worker' = [worker EXCEPT ![w] = [status |-> "online", revoked |-> @.revoked,
                     generation |-> @.generation + 1, project |-> p, caps |-> caps]]
    /\ WorkerWrite

RotateMembershipToken(w) ==
    /\ worker[w].status # "absent" /\ ~worker[w].revoked
    /\ worker[w].generation < MaxGeneration
    /\ worker' = [worker EXCEPT ![w].generation = @ + 1]
    /\ WorkerWrite

RevokeWorker(w) ==
    /\ worker[w].status # "absent"
    /\ worker[w].generation < MaxGeneration
    /\ worker' = [worker EXCEPT ![w].revoked = TRUE, ![w].status = "quarantined",
                                ![w].generation = @ + 1]
    /\ WorkerWrite

RequestDrain(w) ==
    /\ Authenticated(w)
    /\ worker' = [worker EXCEPT ![w].status = "draining"]
    /\ WorkerWrite

(* DurableWorkerService.drain: straight to offline when no lease is active. *)
Drain(w) ==
    /\ Authenticated(w)
    /\ worker' = [worker EXCEPT ![w].status =
            IF \E l \in Leases : Active(l) /\ lease[l].worker = w THEN "draining" ELSE "offline"]
    /\ WorkerWrite

(* The worker_state a heartbeat reports moves the row only along these edges. *)
HeartbeatEdges == {<<"online", "draining">>, <<"draining", "offline">>, <<"offline", "online">>}

Heartbeat(w, status) ==
    /\ Authenticated(w)
    /\ <<worker[w].status, status>> \in HeartbeatEdges
    /\ worker' = [worker EXCEPT ![w].status = status]
    /\ WorkerWrite

AdvertiseCapabilities(w, caps) ==
    /\ worker[w].status # "absent" /\ ~worker[w].revoked
    /\ caps \subseteq worker[w].caps
    /\ worker' = [worker EXCEPT ![w].caps = caps]
    /\ WorkerWrite

--------------------------------------------------------------------------------
(* claim_eligible_attempt.                                                        *)

DependenciesSatisfiedAnyRevision(t) == \A d \in DependsOn[t] : task[d].status \in DependencyDone
DependenciesSatisfied(t) ==
    \A d \in DependsOn[t] : /\ MissionOf[d] = MissionOf[t]
                            /\ task[d].revision = task[t].revision
                            /\ task[d].status \in DependencyDone

ClaimableMission(t, m) == m.status \in RunnableMission /\ task[t].revision = m.revision

EligibleFor(w, t) ==
    /\ Needs[t] \subseteq worker[w].caps
    /\ ActiveOn(t) = {}
    /\ DependenciesSatisfied(t)
    /\ ClaimableMission(t, mission[MissionOf[t]])

(* SELECT ... FOR UPDATE SKIP LOCKED over the ready tasks of the worker's project, *)
(* first eligible one in rank order; worker and mission are read without a lock.   *)
ClaimScan(w) ==
    LET candidates == {t \in Tasks : /\ task[t].status = "ready"
                                     /\ ProjectOf[MissionOf[t]] = worker[w].project
                                     /\ ~TaskLocked(t)}
        eligible == {t \in candidates : EligibleFor(w, t)}
    IN  /\ Claimable(w)
        /\ Room
        /\ \A c \in claims : c.worker # w
        /\ \E t \in eligible :
              /\ \A u \in eligible : Rank[t] <= Rank[u]
              /\ claims' = claims \cup
                    {[worker |-> w, generation |-> worker[w].generation, task |-> t,
                      locks |-> candidates, revision |-> task[t].revision,
                      cancellation |-> mission[MissionOf[t]].cancellation, clock |-> clock]}
        /\ UNCHANGED <<rows, renewals, sweeps, accepts, revokes, graphs>>

Earlier(a, b) == IF a <= b THEN a ELSE b

(* _bind_claim: attempt, lease, task status and outbox row in one commit. *)
ClaimCommit(c, l) ==
    /\ c \in claims
    /\ lease[l].state = "none"
    /\ lease' = [lease EXCEPT ![l] =
            [state |-> "active", worker |-> c.worker, task |-> c.task,
             generation |-> c.generation, revision |-> c.revision,
             cancellation |-> c.cancellation,
             expires |-> Earlier(c.clock + LeaseSeconds, c.clock + Horizon),
             renewable |-> c.clock + Horizon]]
    /\ attempt' = [attempt EXCEPT ![l].status = "leased"]
    /\ task' = [task EXCEPT ![c.task].status = "leased"]
    /\ outbox' = outbox \cup {<<"claimed", l>>}
    /\ claims' = claims \ {c}
    /\ UNCHANGED <<clock, worker, mission, result, renewals, sweeps, accepts, revokes, graphs>>

--------------------------------------------------------------------------------
(* renew_lease: no row is locked between the checks and the UPDATE.               *)

CurrentAuthority(l) ==
    LET t == lease[l].task  m == mission[LeaseMission(l)]
    IN  /\ task[t].status \notin TerminalTask
        /\ task[t].revision = lease[l].revision
        /\ attempt[l].status \notin TerminalAttempt
        /\ attempt[l].accepted = NoResult
        /\ ClaimableMission(t, m)
        /\ lease[l].cancellation = m.cancellation

RenewRead(l, extend) ==
    LET w == lease[l].worker
        capped == Earlier(clock + extend, lease[l].renewable)
    IN  /\ Active(l)
        /\ Claimable(w)
        /\ worker[w].project = ProjectOf[LeaseMission(l)]
        /\ worker[w].generation = lease[l].generation
        /\ clock < lease[l].expires
        /\ CurrentAuthority(l)
        /\ clock < lease[l].renewable
        /\ lease[l].expires < lease[l].renewable
        /\ Room
        /\ renewals' = renewals \cup
              {[lease |-> l, state |-> lease[l].state, was |-> lease[l].expires,
                expires |-> IF capped < lease[l].expires THEN lease[l].expires ELSE capped]}
        /\ UNCHANGED <<rows, claims, sweeps, accepts, revokes, graphs>>

(* The flush writes the columns whose value changed in the session. *)
RenewCommit(n) ==
    /\ n \in renewals
    /\ ~LeaseLocked(n.lease)
    /\ lease' = [lease EXCEPT
            ![n.lease].state = IF n.state = "active" THEN "renewed" ELSE @,
            ![n.lease].expires = IF n.expires # n.was THEN n.expires ELSE @]
    /\ renewals' = renewals \ {n}
    /\ UNCHANGED <<clock, worker, mission, task, attempt, result, outbox,
                   claims, sweeps, accepts, revokes, graphs>>

--------------------------------------------------------------------------------
(* expire_leases: the due leases are locked with SKIP LOCKED, task and mission    *)
(* are read without a lock.                                                       *)

SweepScan(ps) ==
    LET due == {l \in Leases : /\ Active(l)
                               /\ lease[l].expires <= clock
                               /\ ProjectOf[LeaseMission(l)] \in ps
                               /\ ~LeaseLocked(l)}
    IN  /\ due # {}
        /\ Room
        /\ sweeps' = sweeps \cup {[leases |-> due, tasks |-> task, missions |-> mission]}
        /\ UNCHANGED <<rows, claims, renewals, accepts, revokes, graphs>>

ExpireTaskStatusLeavesStale(l, seen, m) ==
    IF seen.revision # m.revision \/ lease[l].cancellation # m.cancellation THEN seen.status ELSE "ready"
ExpireTaskStatus(l, seen, m) ==
    CASE m.status \notin RunnableMission -> "cancelled"
      [] /\ m.status \in RunnableMission
         /\ \/ seen.revision # m.revision
            \/ lease[l].revision # m.revision
            \/ lease[l].cancellation # m.cancellation -> "superseded"
      [] OTHER -> "ready"

(* Two leases of one task share the session's task object: only the first in      *)
(* expires_at order still finds it leased.                                        *)
FirstOfTask(l, S) == \A k \in S : lease[k].task = lease[l].task => lease[l].expires <= lease[k].expires

(* The mission is read at some moment of the transaction: the view is the one at   *)
(* the scan or the one at the flush.                                              *)
SweepCommit(s, view) ==
    LET requeued == {t \in Tasks : /\ s.tasks[t].status = "leased"
                                   /\ \E l \in s.leases : lease[l].task = t}
    IN  /\ s \in sweeps
        /\ \A t \in requeued : ~TaskLocked(t)
        /\ \E head \in [requeued -> s.leases] :
              /\ \A t \in requeued : lease[head[t]].task = t /\ FirstOfTask(head[t], s.leases)
              /\ task' = [t \in Tasks |->
                    IF t \in requeued
                    THEN [task[t] EXCEPT !.status =
                            ExpireTaskStatus(head[t], s.tasks[t], view[MissionOf[t]])]
                    ELSE task[t]]
        /\ lease' = [l \in Leases |->
              IF l \in s.leases THEN [lease[l] EXCEPT !.state = "expired"] ELSE lease[l]]
        /\ attempt' = [l \in Leases |->
              IF l \in s.leases /\ attempt[l].status = "leased"
              THEN [attempt[l] EXCEPT !.status = "expired"] ELSE attempt[l]]
        /\ sweeps' = sweeps \ {s}
        /\ UNCHANGED <<clock, worker, mission, result, outbox,
                       claims, renewals, accepts, revokes, graphs>>

--------------------------------------------------------------------------------
(* submit_result and accept_result.                                               *)

(* The lease need not be current: late results are kept, as submitted rows. *)
SubmitResult(l, r, passed) ==
    /\ result[r].state = "none"
    /\ lease[l].state # "none"
    /\ Authenticated(lease[l].worker)
    /\ worker[lease[l].worker].project = ProjectOf[LeaseMission(l)]
    /\ ~LeaseLocked(l)
    /\ result' = [result EXCEPT ![r] = [state |-> "submitted", lease |-> l, passed |-> passed]]
    /\ outbox' = outbox \cup {<<"submitted", r>>}
    /\ UNCHANGED <<clock, worker, mission, task, lease, attempt, txs>>

WorkerFence(l) ==
    LET w == worker[lease[l].worker]
    IN  /\ ~w.revoked
        /\ w.generation = lease[l].generation
        /\ w.project = ProjectOf[LeaseMission(l)]

MissionFenceIgnoresCancellation(l) == mission[LeaseMission(l)].status \in RunnableMission
                                      /\ lease[l].revision = mission[LeaseMission(l)].revision
MissionFence(l) ==
    LET m == mission[LeaseMission(l)]
    IN  /\ m.status \in RunnableMission
        /\ lease[l].revision = m.revision
        /\ lease[l].cancellation = m.cancellation

OneAcceptedFenceTrustsLease(r, l) == Active(l)
OneAcceptedFence(r, l) ==
    /\ attempt[l].accepted \in {NoResult, r}
    /\ \A q \in Results \ {r} : ~(result[q].state = "accepted" /\ result[q].lease = l)

AcceptFence(r) ==
    LET l == result[r].lease  t == task[lease[l].task]
    IN  /\ WorkerFence(l)
        /\ Active(l)
        /\ clock < lease[l].expires
        /\ attempt[l].status \notin TerminalAttempt \ {"accepted"}
        /\ t.status \notin TerminalTask \ {"accepted"}
        /\ t.revision = lease[l].revision
        /\ MissionFence(l)
        /\ result[r].passed
        /\ OneAcceptedFence(r, l)

AcceptLockableResultOnly(r) == result[r].state = "submitted" /\ r \notin accepts
(* The rows accept_result locks, in the order result, lease, attempt, task. *)
AcceptLockable(r) == /\ result[r].state = "submitted"
                     /\ r \notin accepts
                     /\ ~LeaseLocked(result[r].lease)
                     /\ ~TaskLocked(lease[result[r].lease].task)

AcceptRead(r) ==
    /\ AcceptLockable(r)
    /\ AcceptFence(r)
    /\ Room
    /\ accepts' = accepts \cup {r}
    /\ UNCHANGED <<rows, claims, renewals, sweeps, revokes, graphs>>

AcceptCommit(r) ==
    LET l == result[r].lease  t == lease[l].task
    IN  /\ r \in accepts
        /\ result' = [result EXCEPT ![r].state = "accepted"]
        /\ attempt' = [attempt EXCEPT ![l] = [status |-> "accepted", accepted |-> r]]
        /\ lease' = [lease EXCEPT ![l].state = IF @ \in ActiveLeaseStates THEN "released" ELSE @]
        /\ task' = [task EXCEPT ![t].status = IF @ \in TerminalTask THEN @ ELSE "accepted"]
        /\ outbox' = outbox \cup {<<"accepted", r>>}
        /\ accepts' = accepts \ {r}
        /\ UNCHANGED <<clock, worker, mission, claims, renewals, sweeps, revokes, graphs>>

(* A refused result is marked rejected; the mark is durable when the caller        *)
(* commits after the error, and lost (the row stays submitted) when it rolls back. *)
AcceptReject(r) ==
    /\ AcceptLockable(r)
    /\ ~AcceptFence(r)
    /\ result' = [result EXCEPT ![r].state = "rejected"]
    /\ UNCHANGED <<clock, worker, mission, task, lease, attempt, outbox, txs>>

--------------------------------------------------------------------------------
(* Cancellation.                                                                  *)

AfterCancel(requeue) == IF requeue THEN "ready" ELSE "cancelled"

(* What cancel_active_lease writes for the leases S: the lease as the session      *)
(* loaded it, the attempt and the task as they are under their row locks.          *)
CancelWrites(S, requeue, now) ==
    /\ \A l \in S : /\ ~LeaseLocked(l)
                    /\ ~TaskLocked(lease[l].task)
                    /\ <<"lease-cancel", l, now>> \notin outbox
    /\ lease' = [l \in Leases |->
          IF l \in S THEN [lease[l] EXCEPT !.state = "cancelled"] ELSE lease[l]]
    /\ attempt' = [l \in Leases |->
          IF /\ l \in S /\ attempt[l].accepted = NoResult
             /\ attempt[l].status \notin TerminalAttempt
          THEN [attempt[l] EXCEPT !.status = "cancelled"] ELSE attempt[l]]
    /\ task' = [t \in Tasks |->
          IF (\E l \in S : lease[l].task = t) /\ task[t].status = "leased"
          THEN [task[t] EXCEPT !.status = AfterCancel(requeue)] ELSE task[t]]

CancelEvents(S, now) == {<<"lease-cancel", l, now>> : l \in S}

CancelActiveLease(l, requeue) ==
    /\ Active(l)
    /\ CancelWrites({l}, requeue, clock)
    /\ outbox' = outbox \cup CancelEvents({l}, clock)
    /\ UNCHANGED <<clock, worker, mission, result, txs>>

(* revoke_mission_work locks the mission and lists its active leases; cancel_mission *)
(* (terminal) is the same transaction with the status written at the end.            *)
RevokeScan(m, notify, terminal, requeue) ==
    /\ ~MissionLocked(m)
    /\ mission[m].cancellation < MaxCancel
    /\ Room
    /\ terminal => notify /\ ~requeue
    /\ requeue => notify
    /\ revokes' = revokes \cup
          {[mission |-> m, terminal |-> terminal, requeue |-> requeue, clock |-> clock,
            leases |-> {l \in Leases : notify /\ Active(l) /\ LeaseMission(l) = m}]}
    /\ UNCHANGED <<rows, claims, renewals, sweeps, accepts, graphs>>

RevokeCommit(v) ==
    /\ v \in revokes
    /\ CancelWrites(v.leases, v.requeue, v.clock)
    /\ mission' = [mission EXCEPT ![v.mission].cancellation = @ + 1,
                      ![v.mission].status = IF v.terminal THEN "cancelled" ELSE @]
    /\ outbox' = outbox \cup CancelEvents(v.leases, v.clock)
                    \cup {<<"bumped", v.mission, mission[v.mission].cancellation + 1>>}
    /\ revokes' = revokes \ {v}
    /\ UNCHANGED <<clock, worker, result, claims, renewals, sweeps, accepts, graphs>>

--------------------------------------------------------------------------------
(* commit_graph_revision: mission and tasks are read without a lock; the unique    *)
(* (mission, revision) row lets one proposal per revision commit, and the flush    *)
(* writes a task's status only where the proposal differs from what was read.      *)

GraphRead(m, spec) ==
    /\ Room
    /\ mission[m].revision < MaxRevision
    /\ \A g \in graphs : g.mission # m
    /\ \A t \in Tasks : MissionOf[t] # m => spec[t] = "unstated"
    /\ graphs' = graphs \cup {[mission |-> m, based |-> mission[m].revision, spec |-> spec,
                               seen |-> [t \in Tasks |-> task[t].status]]}
    /\ UNCHANGED <<rows, claims, renewals, sweeps, accepts, revokes>>

GraphCommit(g) ==
    /\ g \in graphs
    /\ mission[g.mission].revision = g.based
    /\ ~MissionLocked(g.mission)
    /\ \A t \in Tasks : g.spec[t] # "unstated" => ~TaskLocked(t)
    /\ mission' = [mission EXCEPT ![g.mission].revision = g.based + 1]
    /\ task' = [t \in Tasks |->
          IF g.spec[t] = "unstated" THEN task[t]
          ELSE [revision |-> g.based + 1,
                status |-> IF g.spec[t] = g.seen[t] THEN task[t].status ELSE g.spec[t]]]
    /\ graphs' = graphs \ {g}
    /\ UNCHANGED <<clock, worker, lease, attempt, result, outbox,
                   claims, renewals, sweeps, accepts, revokes>>

--------------------------------------------------------------------------------
(* A transaction in flight may end without effect: crash, deadlock, constraint.    *)
Abort ==
    /\ \/ \E c \in claims : claims' = claims \ {c} /\ UNCHANGED <<renewals, sweeps, accepts, revokes, graphs>>
       \/ \E n \in renewals : renewals' = renewals \ {n} /\ UNCHANGED <<claims, sweeps, accepts, revokes, graphs>>
       \/ \E s \in sweeps : sweeps' = sweeps \ {s} /\ UNCHANGED <<claims, renewals, accepts, revokes, graphs>>
       \/ \E r \in accepts : accepts' = accepts \ {r} /\ UNCHANGED <<claims, renewals, sweeps, revokes, graphs>>
       \/ \E v \in revokes : revokes' = revokes \ {v} /\ UNCHANGED <<claims, renewals, sweeps, accepts, graphs>>
       \/ \E g \in graphs : graphs' = graphs \ {g} /\ UNCHANGED <<claims, renewals, sweeps, accepts, revokes>>
    /\ UNCHANGED rows

WorkerNext ==
    \E w \in Workers :
        \/ \E p \in Projects, caps \in SUBSET Caps : Enroll(w, p, caps)
        \/ RotateMembershipToken(w)
        \/ RevokeWorker(w)
        \/ RequestDrain(w)
        \/ Drain(w)
        \/ \E status \in WorkerStatuses : Heartbeat(w, status)
        \/ \E caps \in SUBSET Caps : AdvertiseCapabilities(w, caps)
        \/ ClaimScan(w)

LeaseNext ==
    \/ \E c \in claims, l \in Leases : ClaimCommit(c, l)
    \/ \E l \in Leases, extend \in Extensions : RenewRead(l, extend)
    \/ \E n \in renewals : RenewCommit(n)
    \/ \E ps \in {Projects} \cup {{p} : p \in Projects} : SweepScan(ps)
    \/ \E s \in sweeps : \E view \in {s.missions, mission} : SweepCommit(s, view)
    \/ \E l \in Leases, requeue \in BOOLEAN : CancelActiveLease(l, requeue)

ResultNext ==
    \/ \E l \in Leases, r \in Results, passed \in BOOLEAN : SubmitResult(l, r, passed)
    \/ \E r \in Results : AcceptRead(r) \/ AcceptReject(r)
    \/ \E r \in accepts : AcceptCommit(r)

MissionNext ==
    \/ \E m \in Missions, notify, terminal, requeue \in BOOLEAN :
           RevokeScan(m, notify, terminal, requeue)
    \/ \E v \in revokes : RevokeCommit(v)
    \/ \E m \in Missions, spec \in [Tasks -> SpecStatuses \cup {"unstated"}] : GraphRead(m, spec)
    \/ \E g \in graphs : GraphCommit(g)

Next == Tick \/ WorkerNext \/ LeaseNext \/ ResultNext \/ MissionNext \/ Abort

Spec == Init /\ [][Next]_vars

--------------------------------------------------------------------------------
(* Safety.                                                                        *)

(* _has_active_lease under the task's row lock, against every interleaving with    *)
(* renewals that resurrect a lease: at most one attempt of a task is in state      *)
(* leased, so at most one worker's result can pass the accept fence.               *)
OneLeasedAttemptPerTask ==
    \A k, l \in Leases :
        attempt[k].status = "leased" /\ attempt[l].status = "leased"
        /\ lease[k].task = lease[l].task => k = l

(* expire_leases, cancel_active_lease and accept_result close an attempt in the    *)
(* commit that closes its lease: an attempt still leased has a lease the sweep     *)
(* can find.                                                                       *)
LeasedAttemptHasActiveLease ==
    \A l \in Leases : attempt[l].status = "leased" => Active(l)

(* A task marked leased has an active lease, so some expiry, cancellation or       *)
(* acceptance will still move it: no interleaving strands a task.                  *)
LeasedTaskHasActiveLease ==
    \A t \in Tasks : task[t].status = "leased" => ActiveOn(t) # {}

(* accept_result: an attempt has at most one accepted result, it is the one        *)
(* accepted_result_id names, and the attempt is then accepted.                     *)
AcceptedResultIsTheAttempts ==
    /\ \A r \in Results : result[r].state = "accepted" =>
            attempt[result[r].lease] = [status |-> "accepted", accepted |-> r]
    /\ \A l \in Leases : attempt[l].accepted # NoResult =>
            /\ result[attempt[l].accepted].state = "accepted"
            /\ result[attempt[l].accepted].lease = l

(* _dependencies_satisfied, read without locks, against graph commits, claims,      *)
(* cancellations and accepts: a task is worked on at its mission's revision only   *)
(* once its dependencies are done at that revision, and while it is nothing takes  *)
(* one of them back but the commit of an expiry sweep that read it leased.         *)
WorkedOn(t) ==
    \/ \E c \in claims : c.task = t /\ c.revision = mission[MissionOf[t]].revision
    \/ \E l \in Leases : /\ attempt[l].status = "leased" /\ lease[l].task = t
                          /\ lease[l].revision = mission[MissionOf[t]].revision

WorkKeepsDependencies ==
    [][\A t \in Tasks : WorkedOn(t)' => \A d \in DependsOn[t] :
          /\ task'[d].revision = mission'[MissionOf[t]].revision
          /\ \/ task'[d].status \in DependencyDone
             \/ WorkedOn(t) /\ task[d].status \notin DependencyDone
             \/ \E s \in sweeps \ sweeps' : s.tasks[d].status = "leased"]_vars

(* _renewal_expires_at and _bind_claim: no claim and no renewal, however late it   *)
(* commits, leaves a lease beyond its renewable_until.                             *)
WithinHorizon ==
    \A l \in Leases : lease[l].state # "none" => lease[l].expires <= lease[l].renewable

(* An attempt row exists exactly when its lease row does, and names an accepted    *)
(* result exactly when its status is accepted.                                     *)
AttemptMatchesLease ==
    \A l \in Leases : /\ attempt[l].status = "none" <=> lease[l].state = "none"
                      /\ attempt[l].status = "accepted" <=> attempt[l].accepted # NoResult

(* A transaction in flight writes only to leases that were inserted before.        *)
InFlightLeasesExist ==
    /\ \A n \in renewals : lease[n.lease].state # "none"
    /\ \A s \in sweeps : \A l \in s.leases : lease[l].state # "none"
    /\ \A v \in revokes : \A l \in v.leases : lease[l].state # "none"

(* A claim in flight holds its task's row lock alone, and until it commits no      *)
(* attempt of the task is leased.                                                  *)
ClaimExclusive ==
    \A c \in claims :
        /\ c.task \in c.locks
        /\ \A d \in claims : c # d => c.locks \cap d.locks = {}
        /\ \A l \in Leases : attempt[l].status = "leased" => lease[l].task # c.task

(* An accept in flight holds its lease's row lock alone, over a leased attempt.    *)
AcceptExclusive ==
    \A r \in accepts :
        /\ result[r].state = "submitted"
        /\ attempt[result[r].lease].status = "leased"
        /\ \A q \in accepts : result[q].lease = result[r].lease => q = r
        /\ \A s \in sweeps : result[r].lease \notin s.leases

(* The inductive invariant behind the four properties above. *)
LeaseInv ==
    /\ AttemptMatchesLease
    /\ InFlightLeasesExist
    /\ ClaimExclusive
    /\ AcceptExclusive
    /\ LeasedAttemptHasActiveLease
    /\ OneLeasedAttemptPerTask
    /\ AcceptedResultIsTheAttempts

(* A renewal in flight, too, was capped by the lease's renewable_until.            *)
HorizonInv ==
    /\ WithinHorizon
    /\ \A n \in renewals : n.expires <= lease[n.lease].renewable

(* The stamps a lease, or a claim in flight, carries are never ahead of the        *)
(* worker's generation and the mission's revision and cancellation generation.     *)
StampsNotAhead ==
    /\ \A l \in Leases : lease[l].state # "none" =>
          /\ lease[l].generation <= worker[lease[l].worker].generation
          /\ lease[l].revision <= mission[LeaseMission(l)].revision
          /\ lease[l].cancellation <= mission[LeaseMission(l)].cancellation
    /\ \A c \in claims :
          /\ c.generation <= worker[c.worker].generation
          /\ c.revision <= mission[MissionOf[c.task]].revision
          /\ c.cancellation <= mission[MissionOf[c.task]].cancellation

(* The lease can no longer be accepted: a stamp is stale or the attempt is closed,  *)
(* and no accept transaction read it before that.                                  *)
Fenced(l) ==
    /\ lease[l].state # "none"
    /\ attempt[l].status # "accepted"
    /\ \A r \in accepts : result[r].lease # l
    /\ \/ worker[lease[l].worker].revoked
       \/ worker[lease[l].worker].generation # lease[l].generation
       \/ mission[LeaseMission(l)].status \notin RunnableMission
       \/ mission[LeaseMission(l)].cancellation # lease[l].cancellation
       \/ mission[LeaseMission(l)].revision # lease[l].revision
       \/ attempt[l].status \in TerminalAttempt

(* Revocation, re-enrolment, cancellation, a new graph revision or expiry fence    *)
(* the results of a lease for good: no later step (a re-enrolment, a late renewal, *)
(* a re-claim) makes them acceptable again.                                        *)
FencedForever == [][\A l \in Leases : Fenced(l) => Fenced(l)']_vars

(* Once decided a result keeps its disposition, and a closed attempt its status:   *)
(* a replayed accept, a stale revocation or a late sweep changes neither.          *)
DispositionsFinal ==
    [][/\ \A r \in Results : result[r].state \in {"accepted", "rejected"} => result'[r] = result[r]
       /\ \A l \in Leases : attempt[l].status \in TerminalAttempt => attempt'[l] = attempt[l]]_vars
================================================================================
