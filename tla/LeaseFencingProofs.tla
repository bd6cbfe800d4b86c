-------------------------- MODULE LeaseFencingProofs --------------------------
(* Proofs about LeaseFencing for every number of workers, tasks, leases and      *)
(* results, every lease window and every bound.                                  *)
EXTENDS WorkerProtocol, TLAPS

(* The empty tables and an empty set of transactions have their types. *)
LEMMA TypeInit == Init => TypeOK
  <1> SUFFICES ASSUME Init PROVE TypeOK
    OBVIOUS
  <1> USE DEF Init
  <1>1. clock \in Nat /\ outbox \subseteq OutboxId
    OBVIOUS
  <1>2. worker \in [Workers -> WorkerRow]
    BY RowAssumption DEF WorkerRow, WorkerStatuses
  <1>3. mission \in [Missions -> MissionRow]
    BY DEF MissionRow
  <1>4. task \in [Tasks -> TaskRow]
    BY DEF TaskRow, TaskStatuses
  <1>5. lease \in [Leases -> LeaseRow]
    BY RowAssumption DEF LeaseRow, LeaseStates
  <1>6. attempt \in [Leases -> AttemptRow]
    BY DEF AttemptRow, AttemptStatuses
  <1>7. result \in [Results -> ResultRow]
    BY RowAssumption DEF ResultRow
  <1>8. QED
    BY <1>1, <1>2, <1>3, <1>4, <1>5, <1>6, <1>7 DEF TypeOK

(* Every operation on worker rows (enrolment, rotation, heartbeat, drain) keeps the types. *)
LEMMA TypeWorker ==
    ASSUME TypeOK, NEW w \in Workers,
           \/ \E p \in Projects, caps \in SUBSET Caps : Enroll(w, p, caps)
           \/ RotateMembershipToken(w)
           \/ RevokeWorker(w)
           \/ RequestDrain(w)
           \/ Drain(w)
           \/ \E status \in WorkerStatuses : Heartbeat(w, status)
           \/ \E caps \in SUBSET Caps : AdvertiseCapabilities(w, caps)
    PROVE  TypeOK' /\ WorkerWrite
  <1>1. WorkerWrite
    BY DEF Enroll, RotateMembershipToken, RevokeWorker, RequestDrain, Drain, Heartbeat,
           AdvertiseCapabilities
  <1>2. worker' \in [Workers -> WorkerRow]
    <2> USE DEF TypeOK, WorkerRow, WorkerStatuses
    <2>1. ASSUME NEW p \in Projects, NEW caps \in SUBSET Caps, Enroll(w, p, caps)
          PROVE  worker' \in [Workers -> WorkerRow]
      BY <2>1 DEF Enroll
    <2>2. CASE RotateMembershipToken(w)
      BY <2>2 DEF RotateMembershipToken
    <2>3. CASE RevokeWorker(w)
      BY <2>3 DEF RevokeWorker
    <2>4. CASE RequestDrain(w)
      BY <2>4 DEF RequestDrain
    <2>5. CASE Drain(w)
      BY <2>5 DEF Drain
    <2>6. ASSUME NEW status \in WorkerStatuses, Heartbeat(w, status)
          PROVE  worker' \in [Workers -> WorkerRow]
      BY <2>6 DEF Heartbeat
    <2>7. ASSUME NEW caps \in SUBSET Caps, AdvertiseCapabilities(w, caps)
          PROVE  worker' \in [Workers -> WorkerRow]
      BY <2>7 DEF AdvertiseCapabilities
    <2>8. QED
      BY <2>1, <2>2, <2>3, <2>4, <2>5, <2>6, <2>7
  <1>3. QED
    BY <1>1, <1>2 DEF TypeOK, WorkerWrite, txs

(* The outbox ids a cancellation writes are ids of leases. *)
LEMMA CancelEventIds ==
    ASSUME NEW S \in SUBSET Leases, NEW now \in Nat
    PROVE  CancelEvents(S, now) \subseteq OutboxId
  BY DEF CancelEvents, OutboxId

(* Cancelling a set of leases keeps the types of lease, attempt and task rows. *)
LEMMA TypeCancel ==
    ASSUME TypeOK, NEW S, NEW requeue, NEW now, CancelWrites(S, requeue, now)
    PROVE  /\ lease' \in [Leases -> LeaseRow]
           /\ attempt' \in [Leases -> AttemptRow]
           /\ task' \in [Tasks -> TaskRow]
  <1>1. lease' \in [Leases -> LeaseRow]
    BY DEF TypeOK, CancelWrites, LeaseRow, LeaseStates
  <1>2. attempt' \in [Leases -> AttemptRow]
    BY DEF TypeOK, CancelWrites, AttemptRow, AttemptStatuses
  <1>3. task' \in [Tasks -> TaskRow]
    BY DEF TypeOK, CancelWrites, AfterCancel, TaskRow, TaskStatuses, TerminalTask
  <1>4. QED
    BY <1>1, <1>2, <1>3

(* Every step keeps every row and every transaction in flight well typed. *)
LEMMA TypeStep == TypeOK /\ [Next]_vars => TypeOK'
  <1> SUFFICES ASSUME TypeOK, [Next]_vars PROVE TypeOK'
    OBVIOUS
  <1>1. CASE Tick
    BY <1>1 DEF TypeOK, Tick, txs
  <1>2. CASE WorkerNext
    <2>1. ASSUME NEW w \in Workers, ClaimScan(w) PROVE TypeOK'
      <3>1. PICK t \in Tasks, locks \in SUBSET Tasks :
             claims' = claims \cup
                    {[worker |-> w, generation |-> worker[w].generation, task |-> t,
                      locks |-> locks, revision |-> task[t].revision,
                      cancellation |-> mission[MissionOf[t]].cancellation, clock |-> clock]}
        BY <2>1 DEF ClaimScan
      <3>2. claims' \subseteq ClaimTx
        BY <3>1, RowAssumption DEF TypeOK, ClaimTx, WorkerRow, TaskRow, MissionRow
      <3>3. QED
        BY <2>1, <3>2 DEF TypeOK, ClaimScan, rows
    <2>2. QED
      BY <1>2, <2>1, TypeWorker DEF WorkerNext
  <1>3. ASSUME NEW c \in claims, NEW l \in Leases, ClaimCommit(c, l) PROVE TypeOK'
    <2>1. c \in ClaimTx
      BY DEF TypeOK
    <2>2. lease' \in [Leases -> LeaseRow]
      BY <1>3, <2>1, WindowAssumption DEF TypeOK, ClaimCommit, ClaimTx, LeaseRow, LeaseStates, Earlier
    <2>3. attempt' \in [Leases -> AttemptRow]
      BY <1>3 DEF TypeOK, ClaimCommit, AttemptRow, AttemptStatuses
    <2>4. task' \in [Tasks -> TaskRow]
      BY <1>3, <2>1 DEF TypeOK, ClaimCommit, ClaimTx, TaskRow, TaskStatuses
    <2>5. outbox' \subseteq OutboxId
      BY <1>3 DEF TypeOK, ClaimCommit, OutboxId
    <2>6. QED
      BY <1>3, <2>2, <2>3, <2>4, <2>5 DEF TypeOK, ClaimCommit
  <1>4. ASSUME NEW l \in Leases, NEW extend \in Extensions, RenewRead(l, extend) PROVE TypeOK'
    <2>1. lease[l].expires \in Nat /\ Earlier(clock + extend, lease[l].renewable) \in Nat
      BY WindowAssumption DEF TypeOK, LeaseRow, Earlier
    <2>2. renewals' \subseteq RenewTx
      BY <1>4, <2>1 DEF TypeOK, RenewRead, RenewTx, LeaseRow
    <2>3. QED
      BY <1>4, <2>2 DEF TypeOK, RenewRead, rows
  <1>5. ASSUME NEW n \in renewals, RenewCommit(n) PROVE TypeOK'
    <2>1. n \in RenewTx
      BY DEF TypeOK
    <2>2. lease' \in [Leases -> LeaseRow]
      BY <1>5, <2>1 DEF TypeOK, RenewCommit, RenewTx, LeaseRow, LeaseStates
    <2>3. QED
      BY <1>5, <2>2 DEF TypeOK, RenewCommit
  <1>6. ASSUME NEW ps, SweepScan(ps) PROVE TypeOK'
    <2>1. sweeps' \subseteq SweepTx
      BY <1>6 DEF TypeOK, SweepScan, SweepTx
    <2>2. QED
      BY <1>6, <2>1 DEF TypeOK, SweepScan, rows
  <1>7. ASSUME NEW s \in sweeps, NEW view, SweepCommit(s, view) PROVE TypeOK'
    <2>1. lease' \in [Leases -> LeaseRow]
      BY <1>7 DEF TypeOK, SweepCommit, LeaseRow, LeaseStates
    <2>2. attempt' \in [Leases -> AttemptRow]
      BY <1>7 DEF TypeOK, SweepCommit, AttemptRow, AttemptStatuses
    <2>3. \A l, seen, m : ExpireTaskStatus(l, seen, m) \in {"cancelled", "superseded", "ready"}
      BY DEF ExpireTaskStatus
    <2>4. \A t \in Tasks : \/ task'[t] = task[t]
                          \/ \E st \in {"cancelled", "superseded", "ready"} :
                                 task'[t] = [task[t] EXCEPT !.status = st]
      BY <1>7, <2>3 DEF SweepCommit
    <2>5. task' = [t \in Tasks |-> task'[t]]
      BY <1>7 DEF SweepCommit
    <2>6. \A t \in Tasks : task'[t] \in TaskRow
      BY <2>4 DEF TypeOK, TaskRow, TaskStatuses, TerminalTask
    <2>7. task' \in [Tasks -> TaskRow]
      BY <2>5, <2>6
    <2>8. QED
      BY <1>7, <2>1, <2>2, <2>7 DEF TypeOK, SweepCommit
  <1>8. ASSUME NEW l \in Leases, NEW requeue \in BOOLEAN, CancelActiveLease(l, requeue) PROVE TypeOK'
    <2>1. clock \in Nat /\ {l} \subseteq Leases
      BY DEF TypeOK
    <2>2. CancelWrites({l}, requeue, clock)
      BY <1>8 DEF CancelActiveLease
    <2>3. outbox' \subseteq OutboxId
      BY <1>8, <2>1, CancelEventIds DEF TypeOK, CancelActiveLease
    <2>4. QED
      BY <1>8, <2>2, <2>3, TypeCancel DEF TypeOK, CancelActiveLease, txs
  <1>9. ASSUME NEW l \in Leases, NEW r \in Results, NEW passed \in BOOLEAN, SubmitResult(l, r, passed)
        PROVE  TypeOK'
    <2>1. result' \in [Results -> ResultRow]
      BY <1>9 DEF TypeOK, SubmitResult, ResultRow
    <2>2. outbox' \subseteq OutboxId
      BY <1>9 DEF TypeOK, SubmitResult, OutboxId
    <2>3. QED
      BY <1>9, <2>1, <2>2 DEF TypeOK, SubmitResult, txs
  <1>10. ASSUME NEW r \in Results, AcceptRead(r) PROVE TypeOK'
    BY <1>10 DEF TypeOK, AcceptRead, rows
  <1>11. ASSUME NEW r \in Results, AcceptReject(r) PROVE TypeOK'
    <2>1. result' \in [Results -> ResultRow]
      BY <1>11 DEF TypeOK, AcceptReject, ResultRow
    <2>2. QED
      BY <1>11, <2>1 DEF TypeOK, AcceptReject, txs
  <1>12. ASSUME NEW r \in accepts, AcceptCommit(r) PROVE TypeOK'
    <2>1. r \in Results
      BY DEF TypeOK
    <2>2. result' \in [Results -> ResultRow]
      BY <1>12, <2>1 DEF TypeOK, AcceptCommit, ResultRow
    <2>3. attempt' \in [Leases -> AttemptRow]
      BY <1>12, <2>1 DEF TypeOK, AcceptCommit, AttemptRow, AttemptStatuses, ResultRow
    <2>4. lease' \in [Leases -> LeaseRow]
      BY <1>12, <2>1 DEF TypeOK, AcceptCommit, LeaseRow, LeaseStates, ResultRow
    <2>5. task' \in [Tasks -> TaskRow]
      <3>1. PICK t \in Tasks : task' = [task EXCEPT ![t].status =
                                         IF @ \in TerminalTask THEN @ ELSE "accepted"]
        BY <1>12, <2>1 DEF TypeOK, AcceptCommit, LeaseRow, ResultRow
      <3>2. QED
        BY <3>1 DEF TypeOK, TaskRow, TaskStatuses, TerminalTask
    <2>6. outbox' \subseteq OutboxId
      BY <1>12, <2>1 DEF TypeOK, AcceptCommit, OutboxId
    <2>7. QED
      BY <1>12, <2>2, <2>3, <2>4, <2>5, <2>6 DEF TypeOK, AcceptCommit
  <1>13. ASSUME NEW m \in Missions, NEW notify \in BOOLEAN, NEW terminal \in BOOLEAN,
                NEW requeue \in BOOLEAN, RevokeScan(m, notify, terminal, requeue)
         PROVE  TypeOK'
    <2>1. revokes' \subseteq RevokeTx
      BY <1>13 DEF TypeOK, RevokeScan, RevokeTx
    <2>2. QED
      BY <1>13, <2>1 DEF TypeOK, RevokeScan, rows
  <1>14. ASSUME NEW v \in revokes, RevokeCommit(v) PROVE TypeOK'
    <2>1. v \in RevokeTx
      BY DEF TypeOK
    <2>2. CancelWrites(v.leases, v.requeue, v.clock)
      BY <1>14 DEF RevokeCommit
    <2>3. mission' \in [Missions -> MissionRow]
      BY <1>14, <2>1 DEF TypeOK, RevokeCommit, RevokeTx, MissionRow
    <2>4. CancelEvents(v.leases, v.clock) \subseteq OutboxId
      BY <2>1, CancelEventIds DEF RevokeTx
    <2>5. <<"bumped", v.mission, mission[v.mission].cancellation + 1>> \in OutboxId
      BY <2>1 DEF TypeOK, RevokeTx, MissionRow, OutboxId
    <2>6. outbox' \subseteq OutboxId
      BY <1>14, <2>4, <2>5 DEF TypeOK, RevokeCommit
    <2>7. QED
      BY <1>14, <2>2, <2>3, <2>6, TypeCancel DEF TypeOK, RevokeCommit
  <1>15. ASSUME NEW m \in Missions, NEW spec \in [Tasks -> SpecStatuses \cup {"unstated"}],
                GraphRead(m, spec)
         PROVE  TypeOK'
    <2>1. [t \in Tasks |-> task[t].status] \in [Tasks -> TaskStatuses]
      BY DEF TypeOK, TaskRow
    <2>2. graphs' \subseteq GraphTx
      BY <1>15, <2>1 DEF TypeOK, GraphRead, GraphTx, MissionRow
    <2>3. QED
      BY <1>15, <2>2 DEF TypeOK, GraphRead, rows
  <1>16. ASSUME NEW g \in graphs, GraphCommit(g) PROVE TypeOK'
    <2>1. g \in GraphTx
      BY DEF TypeOK
    <2>2. mission' \in [Missions -> MissionRow]
      BY <1>16, <2>1 DEF TypeOK, GraphCommit, GraphTx, MissionRow
    <2>3. task' \in [Tasks -> TaskRow]
      BY <1>16, <2>1, RowAssumption DEF TypeOK, GraphCommit, GraphTx, TaskRow
    <2>4. QED
      BY <1>16, <2>2, <2>3 DEF TypeOK, GraphCommit
  <1>17. CASE Abort
    BY <1>17 DEF TypeOK, Abort, rows
  <1>18. CASE UNCHANGED vars
    BY <1>18 DEF TypeOK, vars, rows, txs
  <1>19. QED
    BY <1>1, <1>2, <1>3, <1>4, <1>5, <1>6, <1>7, <1>8, <1>9, <1>10, <1>11, <1>12, <1>13, <1>14,
       <1>15, <1>16, <1>17, <1>18 DEF Next, LeaseNext, ResultNext, MissionNext

(* The rows of every reachable state are well typed. *)
THEOREM TypeCorrect == Spec => []TypeOK
  BY TypeInit, TypeStep, PTL DEF Spec

--------------------------------------------------------------------------------
(* No row is leased before the first claim. *)
LEMMA LeaseInvInit == Init => LeaseInv
  BY RowAssumption DEF Init, LeaseInv, AttemptMatchesLease, InFlightLeasesExist, ClaimExclusive,
     AcceptExclusive, LeasedAttemptHasActiveLease, OneLeasedAttemptPerTask,
     AcceptedResultIsTheAttempts

(* LeaseInv reads nothing of workers, missions, task statuses, clock and outbox. *)
LEMMA LeaseInvFrame ==
    ASSUME LeaseInv, UNCHANGED <<lease, attempt, result, claims, renewals, sweeps, accepts, revokes>>
    PROVE  LeaseInv'
  BY DEF LeaseInv, AttemptMatchesLease, InFlightLeasesExist, ClaimExclusive,
     AcceptExclusive, LeasedAttemptHasActiveLease, OneLeasedAttemptPerTask,
     AcceptedResultIsTheAttempts, Active

(* Locking the candidates of a claim: a task is locked by one transaction only. *)
LEMMA LeaseInvClaimScan ==
    ASSUME TypeOK, LeaseInv, NEW w \in Workers, ClaimScan(w)
    PROVE  LeaseInv'
  <1>1. UNCHANGED <<lease, attempt, result, renewals, sweeps, accepts, revokes>>
    BY DEF ClaimScan, rows
  <1>2. PICK c : /\ claims' = claims \cup {c}
                 /\ c.task \in c.locks
                 /\ \A t \in c.locks : ~TaskLocked(t)
                 /\ ActiveOn(c.task) = {}
    <2> DEFINE candidates == {t \in Tasks : /\ task[t].status = "ready"
                                            /\ ProjectOf[MissionOf[t]] = worker[w].project
                                            /\ ~TaskLocked(t)}
               Tx(t) == [worker |-> w, generation |-> worker[w].generation, task |-> t,
                         locks |-> candidates, revision |-> task[t].revision,
                         cancellation |-> mission[MissionOf[t]].cancellation, clock |-> clock]
    <2>1. PICK t \in candidates : EligibleFor(w, t) /\ claims' = claims \cup {Tx(t)}
      BY DEF ClaimScan
    <2>2. Tx(t).task = t /\ Tx(t).locks = candidates
      OBVIOUS
    <2>3. ActiveOn(t) = {}
      BY <2>1 DEF EligibleFor
    <2>4. QED
      BY <2>1, <2>2, <2>3
  <1>3. ClaimExclusive'
    <2>1. \A d \in claims : c.locks \cap d.locks = {}
      BY <1>2 DEF TaskLocked
    <2>2. \A l \in Leases : attempt[l].status = "leased" => lease[l].task # c.task
      BY <1>2 DEF ActiveOn, LeaseInv, LeasedAttemptHasActiveLease
    <2>3. QED
      BY <1>1, <1>2, <2>1, <2>2 DEF LeaseInv, ClaimExclusive
  <1>4. QED
    BY <1>1, <1>3 DEF LeaseInv, AttemptMatchesLease, InFlightLeasesExist, AcceptExclusive,
       LeasedAttemptHasActiveLease, OneLeasedAttemptPerTask, AcceptedResultIsTheAttempts, Active

(* A claim's commit makes its attempt the only leased attempt of the task. *)
LEMMA LeaseInvClaimCommit ==
    ASSUME TypeOK, LeaseInv, NEW c \in claims, NEW l \in Leases, ClaimCommit(c, l)
    PROVE  LeaseInv'
  <1> USE DEF LeaseInv
  <1>1. /\ attempt[l].status = "none" /\ lease[l].state = "none"
        /\ claims' = claims \ {c}
        /\ UNCHANGED <<result, renewals, sweeps, accepts, revokes>>
    BY DEF ClaimCommit, AttemptMatchesLease
  <1>2. /\ \A k \in Leases \ {l} : attempt'[k] = attempt[k] /\ lease'[k] = lease[k]
        /\ attempt'[l].status = "leased" /\ attempt'[l].accepted = attempt[l].accepted
        /\ lease'[l].state = "active" /\ lease'[l].task = c.task
    BY <1>1 DEF TypeOK, ClaimCommit, ClaimTx, AttemptRow, AttemptStatuses, LeaseRow
  <1>3. AttemptMatchesLease'
    BY <1>1, <1>2 DEF AttemptMatchesLease
  <1>4. InFlightLeasesExist'
    BY <1>1, <1>2 DEF InFlightLeasesExist, TypeOK, RenewTx, SweepTx, RevokeTx
  <1>5. ClaimExclusive'
    BY <1>1, <1>2 DEF ClaimExclusive
  <1>6. AcceptExclusive'
    BY <1>1, <1>2 DEF AcceptExclusive, TypeOK, ResultRow
  <1>7. LeasedAttemptHasActiveLease'
    BY <1>1, <1>2 DEF LeasedAttemptHasActiveLease, Active, ActiveLeaseStates
  <1>8. OneLeasedAttemptPerTask'
    BY <1>1, <1>2 DEF OneLeasedAttemptPerTask, ClaimExclusive
  <1>9. AcceptedResultIsTheAttempts'
    BY <1>1, <1>2 DEF AcceptedResultIsTheAttempts, AttemptMatchesLease, TypeOK, ResultRow
  <1>10. QED
    BY <1>3, <1>4, <1>5, <1>6, <1>7, <1>8, <1>9

(* Renewal moves an expiry and nothing the invariant reads. *)
LEMMA LeaseInvRenew ==
    ASSUME TypeOK, LeaseInv,
           \/ \E l \in Leases, extend \in Extensions : RenewRead(l, extend)
           \/ \E n \in renewals : RenewCommit(n)
    PROVE  LeaseInv'
  <1> USE DEF LeaseInv
  <1>1. ASSUME NEW l \in Leases, NEW extend \in Extensions, RenewRead(l, extend) PROVE LeaseInv'
    <2>1. UNCHANGED <<lease, attempt, result, claims, sweeps, accepts, revokes>>
      BY <1>1 DEF RenewRead, rows
    <2>2. \A n \in renewals' : n \in renewals \/ n.lease = l
      BY <1>1 DEF RenewRead
    <2>3. lease[l].state # "none"
      BY <1>1 DEF RenewRead, Active, ActiveLeaseStates
    <2>4. InFlightLeasesExist'
      BY <2>1, <2>2, <2>3 DEF InFlightLeasesExist
    <2>5. QED
      BY <2>1, <2>4 DEF AttemptMatchesLease, ClaimExclusive, AcceptExclusive,
         LeasedAttemptHasActiveLease, OneLeasedAttemptPerTask, AcceptedResultIsTheAttempts, Active
  <1>2. ASSUME NEW n \in renewals, RenewCommit(n) PROVE LeaseInv'
    <2>1. /\ renewals' \subseteq renewals
          /\ UNCHANGED <<attempt, result, claims, sweeps, accepts, revokes>>
      BY <1>2 DEF RenewCommit
    <2>2. n.lease \in Leases /\ lease[n.lease].state # "none"
      BY DEF TypeOK, RenewTx, InFlightLeasesExist
    <2>3. \A l \in Leases : /\ lease'[l].task = lease[l].task
                            /\ lease'[l].state \in {lease[l].state, "renewed"}
                            /\ lease[l].state = "none" <=> lease'[l].state = "none"
      BY <1>2, <2>2 DEF RenewCommit, TypeOK, LeaseRow, LeaseStates
    <2>4. AttemptMatchesLease'
      BY <2>1, <2>3 DEF AttemptMatchesLease
    <2>5. InFlightLeasesExist'
      BY <2>1, <2>3 DEF InFlightLeasesExist, TypeOK, RenewTx, SweepTx, RevokeTx
    <2>6. LeasedAttemptHasActiveLease'
      BY <2>1, <2>3 DEF LeasedAttemptHasActiveLease, Active, ActiveLeaseStates
    <2>7. ClaimExclusive' /\ OneLeasedAttemptPerTask'
      BY <2>1, <2>3 DEF ClaimExclusive, OneLeasedAttemptPerTask
    <2>8. QED
      BY <2>1, <2>4, <2>5, <2>6, <2>7 DEF AcceptExclusive, AcceptedResultIsTheAttempts
  <1>3. QED
    BY <1>1, <1>2

(* The expiry sweep locks active leases that no other transaction holds. *)
LEMMA LeaseInvSweepScan ==
    ASSUME TypeOK, LeaseInv, NEW ps, SweepScan(ps)
    PROVE  LeaseInv'
  <1> USE DEF LeaseInv
  <1>1. UNCHANGED <<lease, attempt, result, claims, renewals, accepts, revokes>>
    BY DEF SweepScan, rows
  <1>2. \A s \in sweeps' : s \in sweeps \/ \A l \in s.leases : l \in Leases /\ Active(l) /\ ~LeaseLocked(l)
    BY DEF SweepScan
  <1>3. InFlightLeasesExist'
    BY <1>1, <1>2 DEF InFlightLeasesExist, Active, ActiveLeaseStates
  <1>4. AcceptExclusive'
    BY <1>1, <1>2 DEF AcceptExclusive, LeaseLocked
  <1>5. QED
    BY <1>1, <1>3, <1>4 DEF AttemptMatchesLease, ClaimExclusive, LeasedAttemptHasActiveLease,
       OneLeasedAttemptPerTask, AcceptedResultIsTheAttempts, Active

(* Closing a set of leases that no accept holds, each with its attempt. *)
LEMMA LeaseInvClose ==
    ASSUME TypeOK, LeaseInv, NEW S \in SUBSET Leases,
           \A l \in S : lease[l].state # "none",
           \A l \in S : \A r \in accepts : result[r].lease # l,
           \A l \in Leases : /\ lease'[l].task = lease[l].task
                             /\ attempt'[l].accepted = attempt[l].accepted
                             /\ l \notin S => lease'[l] = lease[l] /\ attempt'[l] = attempt[l]
                             /\ l \in S => /\ lease'[l].state # "none"
                                           /\ attempt'[l].status # "leased"
                                           /\ attempt[l].status # "leased" => attempt'[l] = attempt[l]
                                           /\ attempt'[l].status \in {attempt[l].status, "expired", "cancelled"},
           UNCHANGED <<result, claims, renewals, accepts>>,
           sweeps' \subseteq sweeps, revokes' \subseteq revokes
    PROVE  LeaseInv'
  <1> USE DEF LeaseInv
  <1>1. AttemptMatchesLease'
    BY DEF AttemptMatchesLease
  <1>2. InFlightLeasesExist'
    BY DEF InFlightLeasesExist, TypeOK, RenewTx, SweepTx, RevokeTx
  <1>3. ClaimExclusive'
    BY DEF ClaimExclusive
  <1>4. AcceptExclusive'
    BY DEF AcceptExclusive, TypeOK, ResultRow
  <1>5. LeasedAttemptHasActiveLease'
    BY DEF LeasedAttemptHasActiveLease, Active
  <1>6. OneLeasedAttemptPerTask'
    BY DEF OneLeasedAttemptPerTask
  <1>7. AcceptedResultIsTheAttempts'
    BY DEF AcceptedResultIsTheAttempts, TypeOK, ResultRow
  <1>8. QED
    BY <1>1, <1>2, <1>3, <1>4, <1>5, <1>6, <1>7

(* Expiring leases ends their attempts, so none stays leased behind an expired lease. *)
LEMMA LeaseInvSweepCommit ==
    ASSUME TypeOK, LeaseInv, NEW s \in sweeps, NEW view, SweepCommit(s, view)
    PROVE  LeaseInv'
  <1>1. s.leases \in SUBSET Leases
    BY DEF TypeOK, SweepTx
  <1>2. /\ \A l \in s.leases : lease[l].state # "none"
        /\ \A l \in s.leases : \A r \in accepts : result[r].lease # l
    BY DEF LeaseInv, InFlightLeasesExist, AcceptExclusive
  <1>3. \A l \in Leases :
           /\ l \in s.leases => lease'[l] = [lease[l] EXCEPT !.state = "expired"]
           /\ l \notin s.leases => lease'[l] = lease[l] /\ attempt'[l] = attempt[l]
           /\ attempt[l].status # "leased" => attempt'[l] = attempt[l]
           /\ l \in s.leases /\ attempt[l].status = "leased" =>
                   attempt'[l] = [attempt[l] EXCEPT !.status = "expired"]
    BY DEF SweepCommit
  <1>4. \A l \in Leases : lease[l] \in LeaseRow /\ attempt[l] \in AttemptRow
    BY DEF TypeOK
  <1>5. \A l \in Leases : /\ lease'[l].task = lease[l].task
                          /\ attempt'[l].accepted = attempt[l].accepted
                          /\ l \in s.leases => /\ lease'[l].state # "none"
                                               /\ attempt'[l].status # "leased"
                                               /\ attempt'[l].status \in {attempt[l].status, "expired", "cancelled"}
    BY <1>3, <1>4 DEF LeaseRow, AttemptRow
  <1>6. /\ UNCHANGED <<result, claims, renewals, accepts>>
        /\ sweeps' \subseteq sweeps /\ revokes' \subseteq revokes
    BY DEF SweepCommit
  <1>7. QED
    BY <1>1, <1>2, <1>3, <1>5, <1>6, LeaseInvClose

(* Cancelling an active lease ends its attempt with it. *)
LEMMA LeaseInvCancel ==
    ASSUME TypeOK, LeaseInv, NEW S \in SUBSET Leases, NEW requeue, NEW now,
           \A l \in S : lease[l].state # "none", CancelWrites(S, requeue, now),
           UNCHANGED <<result, claims, renewals, sweeps, accepts>>, revokes' \subseteq revokes
    PROVE  LeaseInv'
  <1>1. \A l \in S : \A r \in accepts : result[r].lease # l
    BY DEF CancelWrites, LeaseLocked
  <1>2. \A l \in Leases :
           /\ l \in S => lease'[l] = [lease[l] EXCEPT !.state = "cancelled"]
           /\ l \notin S => lease'[l] = lease[l] /\ attempt'[l] = attempt[l]
           /\ \/ attempt'[l] = attempt[l]
              \/ attempt'[l] = [attempt[l] EXCEPT !.status = "cancelled"]
           /\ attempt[l].status \in TerminalAttempt => attempt'[l] = attempt[l]
           /\ l \in S /\ attempt[l].accepted = NoResult /\ attempt[l].status \notin TerminalAttempt =>
                   attempt'[l] = [attempt[l] EXCEPT !.status = "cancelled"]
    BY DEF CancelWrites
  <1>3. \A l \in Leases : lease[l] \in LeaseRow /\ attempt[l] \in AttemptRow
    BY DEF TypeOK
  <1>4. \A l \in S : attempt[l].status \notin TerminalAttempt =>
                       attempt[l].accepted = NoResult /\ attempt[l].status = "leased"
    BY <1>3 DEF LeaseInv, AttemptMatchesLease, TerminalAttempt, AttemptRow, AttemptStatuses
  <1>5. \A l \in S : /\ attempt[l].status = "leased" =>
                            attempt'[l] = [attempt[l] EXCEPT !.status = "cancelled"]
                     /\ attempt[l].status # "leased" => attempt'[l] = attempt[l]
    <2>1. "leased" \notin TerminalAttempt
      BY DEF TerminalAttempt
    <2>2. QED
      BY <1>2, <1>4, <2>1
  <1>6. \A l \in Leases : /\ lease'[l].task = lease[l].task
                          /\ attempt'[l].accepted = attempt[l].accepted
                          /\ l \in S => /\ lease'[l].state # "none"
                                        /\ attempt'[l].status # "leased"
                                        /\ attempt'[l].status \in {attempt[l].status, "expired", "cancelled"}
    <2>1. ASSUME NEW l \in Leases
          PROVE  lease'[l].task = lease[l].task /\ (l \in S => lease'[l].state # "none")
      BY <1>2, <1>3 DEF LeaseRow
    <2>2. ASSUME NEW l \in S
          PROVE  /\ attempt'[l].accepted = attempt[l].accepted
                 /\ attempt'[l].status # "leased"
                 /\ attempt'[l].status \in {attempt[l].status, "expired", "cancelled"}
      BY <1>3, <1>5 DEF AttemptRow
    <2>3. QED
      BY <1>2, <2>1, <2>2
  <1>7. sweeps' \subseteq sweeps
    OBVIOUS
  <1>8. QED
    BY <1>1, <1>2, <1>5, <1>6, <1>7, LeaseInvClose

(* Acceptance and rejection: an attempt gets one accepted result, its own. *)
LEMMA LeaseInvAccept ==
    ASSUME TypeOK, LeaseInv, NEW r \in Results,
           AcceptRead(r) \/ AcceptReject(r) \/ (r \in accepts /\ AcceptCommit(r))
    PROVE  LeaseInv'
  <1> USE DEF LeaseInv
  <1> DEFINE k == result[r].lease
  <1>0. k \in Leases /\ result[r] \in ResultRow
    BY DEF TypeOK, ResultRow
  <1>1. CASE AcceptRead(r)
    <2>1. UNCHANGED <<lease, attempt, result, claims, renewals, sweeps, revokes>>
          /\ accepts' = accepts \cup {r}
      BY <1>1 DEF AcceptRead, rows
    <2>2. result[r].state = "submitted" /\ ~LeaseLocked(k) /\ Active(k)
      BY <1>1 DEF AcceptRead, AcceptLockable, AcceptFence
    <2>3. attempt[k].accepted = NoResult
      BY <1>0, <1>1, <2>2 DEF AcceptRead, AcceptFence, OneAcceptedFence, AcceptedResultIsTheAttempts,
         TypeOK, AttemptRow
    <2>4. attempt[k].status = "leased"
      <3>1. attempt[k].status \notin {"none", "accepted"}
        BY <1>0, <2>2, <2>3 DEF AttemptMatchesLease, Active, ActiveLeaseStates
      <3>2. attempt[k].status \notin TerminalAttempt \ {"accepted"}
        BY <1>1 DEF AcceptRead, AcceptFence
      <3>3. attempt[k].status \in AttemptStatuses
        BY <1>0 DEF TypeOK, AttemptRow
      <3>4. QED
        BY <3>1, <3>2, <3>3 DEF TerminalAttempt, AttemptStatuses
    <2>5. AcceptExclusive'
      BY <2>1, <2>2, <2>4 DEF AcceptExclusive, LeaseLocked
    <2>6. QED
      BY <2>1, <2>5 DEF AttemptMatchesLease, InFlightLeasesExist, ClaimExclusive,
         LeasedAttemptHasActiveLease, OneLeasedAttemptPerTask, AcceptedResultIsTheAttempts, Active
  <1>2. CASE AcceptReject(r)
    <2>1. /\ UNCHANGED <<lease, attempt, claims, renewals, sweeps, accepts, revokes>>
          /\ result[r].state = "submitted" /\ r \notin accepts
          /\ \A q \in Results \ {r} : result'[q] = result[q]
          /\ result'[r].state = "rejected"
      BY <1>2, <1>0 DEF AcceptReject, AcceptLockable, txs, TypeOK, ResultRow
    <2>2. AcceptExclusive'
      BY <2>1 DEF AcceptExclusive, TypeOK
    <2>3. AcceptedResultIsTheAttempts'
      BY <2>1 DEF AcceptedResultIsTheAttempts, TypeOK, AttemptRow
    <2>4. QED
      BY <2>1, <2>2, <2>3 DEF AttemptMatchesLease, InFlightLeasesExist, ClaimExclusive,
         LeasedAttemptHasActiveLease, OneLeasedAttemptPerTask, Active
  <1>3. CASE r \in accepts /\ AcceptCommit(r)
    <2>1. /\ UNCHANGED <<claims, renewals, sweeps, revokes>>
          /\ accepts' = accepts \ {r}
          /\ \A q \in Results \ {r} : result'[q] = result[q]
          /\ result'[r].state = "accepted" /\ result'[r].lease = k
      BY <1>3, <1>0 DEF AcceptCommit, TypeOK, ResultRow
    <2>2. /\ \A l \in Leases \ {k} : attempt'[l] = attempt[l] /\ lease'[l] = lease[l]
          /\ attempt'[k] = [status |-> "accepted", accepted |-> r]
          /\ lease'[k].task = lease[k].task
          /\ lease[k].state # "none" => lease'[k].state # "none"
      BY <1>3, <1>0 DEF AcceptCommit, TypeOK, LeaseRow, ActiveLeaseStates
    <2>3. /\ attempt[k].status = "leased" /\ attempt[k].accepted = NoResult
          /\ lease[k].state # "none"
      BY <1>0, <1>3 DEF AcceptExclusive, AttemptMatchesLease
    <2>4. AttemptMatchesLease'
      BY <2>2, <2>3, RowAssumption DEF AttemptMatchesLease
    <2>5. InFlightLeasesExist'
      BY <2>1, <2>2, <2>3 DEF InFlightLeasesExist, TypeOK, RenewTx, SweepTx, RevokeTx
    <2>6. ClaimExclusive'
      BY <2>1, <2>2 DEF ClaimExclusive
    <2>7. AcceptExclusive'
      BY <1>3, <2>1, <2>2 DEF AcceptExclusive, TypeOK, ResultRow
    <2>8. LeasedAttemptHasActiveLease'
      BY <2>2 DEF LeasedAttemptHasActiveLease, Active
    <2>9. OneLeasedAttemptPerTask'
      BY <2>2 DEF OneLeasedAttemptPerTask
    <2>10. AcceptedResultIsTheAttempts'
      <3>1. \A q \in Results : result[q].state = "accepted" => result[q].lease # k
        <4>1. ASSUME NEW q \in Results, result[q].state = "accepted", result[q].lease = k PROVE FALSE
          <5>1. attempt[k] = [status |-> "accepted", accepted |-> q]
            BY <4>1 DEF AcceptedResultIsTheAttempts
          <5>2. QED
            BY <2>3, <5>1
        <4>2. QED
          BY <4>1
      <3>2. \A q \in Results : result'[q].state = "accepted" =>
                attempt'[result'[q].lease] = [status |-> "accepted", accepted |-> q]
        BY <2>1, <2>2, <3>1 DEF AcceptedResultIsTheAttempts, TypeOK, ResultRow
      <3>3. \A l \in Leases : attempt'[l].accepted # NoResult =>
                /\ result'[attempt'[l].accepted].state = "accepted"
                /\ result'[attempt'[l].accepted].lease = l
        <4>1. ASSUME NEW l \in Leases \ {k}, attempt[l].accepted # NoResult
              PROVE  attempt[l].accepted \in Results \ {r}
          BY <1>3, <4>1 DEF AcceptedResultIsTheAttempts, AcceptExclusive, TypeOK, AttemptRow
        <4>2. attempt'[k].accepted = r
          BY <2>2
        <4>3. QED
          BY <2>1, <2>2, <4>1, <4>2 DEF AcceptedResultIsTheAttempts
      <3>4. QED
        BY <3>2, <3>3 DEF AcceptedResultIsTheAttempts
    <2>11. QED
      BY <2>4, <2>5, <2>6, <2>7, <2>8, <2>9, <2>10
  <1>4. QED
    BY <1>1, <1>2, <1>3

(* A submission adds a result row and leaves leases and attempts alone. *)
LEMMA LeaseInvSubmit ==
    ASSUME TypeOK, LeaseInv, NEW l \in Leases, NEW r \in Results, NEW passed, SubmitResult(l, r, passed)
    PROVE  LeaseInv'
  <1> USE DEF LeaseInv
  <1>1. /\ UNCHANGED <<lease, attempt, claims, renewals, sweeps, accepts, revokes>>
        /\ result[r].state = "none"
        /\ \A q \in Results \ {r} : result'[q] = result[q]
        /\ result'[r].state = "submitted"
    BY DEF SubmitResult, txs, TypeOK
  <1>2. AcceptExclusive'
    BY <1>1 DEF AcceptExclusive, TypeOK
  <1>3. AcceptedResultIsTheAttempts'
    BY <1>1 DEF AcceptedResultIsTheAttempts, TypeOK, AttemptRow
  <1>4. QED
    BY <1>1, <1>2, <1>3 DEF AttemptMatchesLease, InFlightLeasesExist, ClaimExclusive,
       LeasedAttemptHasActiveLease, OneLeasedAttemptPerTask, Active

(* Revoking a mission's work cancels the leases read under the mission's lock. *)
LEMMA LeaseInvRevoke ==
    ASSUME TypeOK, LeaseInv,
           \/ \E m \in Missions, notify, terminal, requeue \in BOOLEAN :
                  RevokeScan(m, notify, terminal, requeue)
           \/ \E v \in revokes : RevokeCommit(v)
    PROVE  LeaseInv'
  <1>1. ASSUME NEW m \in Missions, NEW notify, NEW terminal, NEW requeue,
               RevokeScan(m, notify, terminal, requeue)
        PROVE  LeaseInv'
    <2>1. UNCHANGED <<lease, attempt, result, claims, renewals, sweeps, accepts>>
      BY <1>1 DEF RevokeScan, rows
    <2>2. \A v \in revokes' : v \in revokes \/ \A l \in v.leases : l \in Leases /\ Active(l)
      BY <1>1 DEF RevokeScan
    <2>3. InFlightLeasesExist'
      BY <2>1, <2>2 DEF LeaseInv, InFlightLeasesExist, Active, ActiveLeaseStates
    <2>4. QED
      BY <2>1, <2>3 DEF LeaseInv, AttemptMatchesLease, ClaimExclusive, AcceptExclusive,
         LeasedAttemptHasActiveLease, OneLeasedAttemptPerTask, AcceptedResultIsTheAttempts, Active
  <1>2. ASSUME NEW v \in revokes, RevokeCommit(v) PROVE LeaseInv'
    <2>1. v.leases \in SUBSET Leases /\ \A l \in v.leases : lease[l].state # "none"
      BY DEF TypeOK, RevokeTx, LeaseInv, InFlightLeasesExist
    <2>2. /\ CancelWrites(v.leases, v.requeue, v.clock)
          /\ UNCHANGED <<result, claims, renewals, sweeps, accepts>> /\ revokes' \subseteq revokes
      BY <1>2 DEF RevokeCommit
    <2>3. QED
      BY <2>1, <2>2, LeaseInvCancel
  <1>3. QED
    BY <1>1, <1>2

(* A rolled back transaction releases its locks and writes nothing. *)
LEMMA LeaseInvAbort ==
    ASSUME LeaseInv, Abort
    PROVE  LeaseInv'
  <1> USE DEF LeaseInv
  <1>1. UNCHANGED <<lease, attempt, result>>
    BY DEF Abort, rows
  <1>2. /\ claims' \subseteq claims /\ renewals' \subseteq renewals /\ sweeps' \subseteq sweeps
        /\ accepts' \subseteq accepts /\ revokes' \subseteq revokes
    BY DEF Abort
  <1>3. InFlightLeasesExist' /\ ClaimExclusive' /\ AcceptExclusive'
    BY <1>1, <1>2 DEF InFlightLeasesExist, ClaimExclusive, AcceptExclusive
  <1>4. QED
    BY <1>1, <1>3 DEF AttemptMatchesLease, LeasedAttemptHasActiveLease, OneLeasedAttemptPerTask,
       AcceptedResultIsTheAttempts, Active

(* Every step of every handler preserves the inductive invariant. *)
LEMMA LeaseInvStep == TypeOK /\ LeaseInv /\ [Next]_vars => LeaseInv'
  <1> SUFFICES ASSUME TypeOK, LeaseInv, [Next]_vars PROVE LeaseInv'
    OBVIOUS
  <1>1. CASE Tick \/ UNCHANGED vars
    BY <1>1, LeaseInvFrame DEF Tick, vars, rows, txs
  <1>2. CASE WorkerNext
    <2>1. ASSUME NEW w \in Workers, WorkerWrite PROVE LeaseInv'
      BY <2>1, LeaseInvFrame DEF WorkerWrite, txs
    <2>2. QED
      BY <1>2, <2>1, TypeWorker, LeaseInvClaimScan DEF WorkerNext
  <1>3. CASE LeaseNext
    <2>1. ASSUME NEW l \in Leases, NEW requeue \in BOOLEAN, CancelActiveLease(l, requeue)
          PROVE  LeaseInv'
      <3>1. {l} \in SUBSET Leases /\ \A k \in {l} : lease[k].state # "none"
        BY <2>1 DEF CancelActiveLease, Active, ActiveLeaseStates
      <3>2. /\ CancelWrites({l}, requeue, clock)
            /\ UNCHANGED <<result, claims, renewals, sweeps, accepts>> /\ revokes' \subseteq revokes
        BY <2>1 DEF CancelActiveLease, txs
      <3>3. QED
        BY <3>1, <3>2, LeaseInvCancel
    <2>2. QED
      BY <1>3, <2>1, LeaseInvClaimCommit, LeaseInvRenew, LeaseInvSweepScan, LeaseInvSweepCommit
         DEF LeaseNext
  <1>4. CASE ResultNext
    BY <1>4, LeaseInvSubmit, LeaseInvAccept DEF ResultNext, TypeOK
  <1>5. CASE MissionNext
    <2>1. ASSUME NEW m \in Missions, NEW spec, GraphRead(m, spec) PROVE LeaseInv'
      BY <2>1, LeaseInvFrame DEF GraphRead, rows
    <2>2. ASSUME NEW g \in graphs, GraphCommit(g) PROVE LeaseInv'
      BY <2>2, LeaseInvFrame DEF GraphCommit
    <2>3. QED
      BY <1>5, <2>1, <2>2, LeaseInvRevoke DEF MissionNext
  <1>6. CASE Abort
    BY <1>6, LeaseInvAbort
  <1>7. QED
    BY <1>1, <1>2, <1>3, <1>4, <1>5, <1>6 DEF Next

(* The inductive invariant holds in every reachable state. *)
LEMMA LeaseInvAlways == Spec => []LeaseInv
  <1>1. Init => TypeOK /\ LeaseInv
    BY TypeInit, LeaseInvInit
  <1>2. (TypeOK /\ LeaseInv) /\ [Next]_vars => (TypeOK /\ LeaseInv)'
    BY TypeStep, LeaseInvStep
  <1>3. QED
    BY <1>1, <1>2, PTL DEF Spec

(* However claims, renewals, sweeps, accepts and revocations interleave, a task   *)
(* has at most one attempt whose result the accept fence can let through.         *)
THEOREM AtMostOneLeasedAttempt == Spec => []OneLeasedAttemptPerTask
  <1>1. LeaseInv => OneLeasedAttemptPerTask
    BY DEF LeaseInv
  <1>2. QED
    BY <1>1, LeaseInvAlways, PTL

(* accept_result accepts at most one result per attempt, the one the attempt names. *)
THEOREM OneAcceptedResultPerAttempt == Spec => []AcceptedResultIsTheAttempts
  <1>1. LeaseInv => AcceptedResultIsTheAttempts
    BY DEF LeaseInv
  <1>2. QED
    BY <1>1, LeaseInvAlways, PTL

--------------------------------------------------------------------------------
(* What no step undoes: an inserted lease keeps its stamps and its horizon,        *)
(* revocation is permanent and the counters of authority only grow.                *)
StampsFixed ==
    \A l \in Leases : lease[l].state # "none" =>
        /\ lease'[l].state # "none"
        /\ lease'[l].worker = lease[l].worker
        /\ lease'[l].task = lease[l].task
        /\ lease'[l].generation = lease[l].generation
        /\ lease'[l].revision = lease[l].revision
        /\ lease'[l].cancellation = lease[l].cancellation
        /\ lease'[l].renewable = lease[l].renewable

AuthorityGrows ==
    /\ \A w \in Workers : /\ worker[w].revoked => worker'[w].revoked
                          /\ worker[w].generation <= worker'[w].generation
    /\ \A m \in Missions : /\ mission[m].status = "cancelled" => mission'[m].status = "cancelled"
                           /\ mission[m].revision <= mission'[m].revision
                           /\ mission[m].cancellation <= mission'[m].cancellation

(* The authority stamps of a lease are written once, by the claim. *)
LEMMA StampsFixedStep == TypeOK /\ LeaseInv /\ [Next]_vars => StampsFixed
  <1> SUFFICES ASSUME TypeOK, LeaseInv, [Next]_vars PROVE StampsFixed
    OBVIOUS
  <1> USE DEF StampsFixed
  <1>1. CASE UNCHANGED lease
    BY <1>1
  <1>2. ASSUME NEW c \in claims, NEW l \in Leases, ClaimCommit(c, l) PROVE StampsFixed
    BY <1>2 DEF ClaimCommit, TypeOK
  <1>3. ASSUME NEW n \in renewals, RenewCommit(n) PROVE StampsFixed
    BY <1>3 DEF RenewCommit, TypeOK, LeaseRow
  <1>4. ASSUME NEW s \in sweeps, NEW view, SweepCommit(s, view) PROVE StampsFixed
    BY <1>4 DEF SweepCommit, TypeOK, LeaseRow
  <1>5. ASSUME NEW S, NEW requeue, NEW now, CancelWrites(S, requeue, now) PROVE StampsFixed
    BY <1>5 DEF CancelWrites, TypeOK, LeaseRow
  <1>6. ASSUME NEW r \in accepts, AcceptCommit(r) PROVE StampsFixed
    BY <1>6 DEF AcceptCommit, TypeOK, LeaseRow
  <1>7. CASE WorkerNext
    <2>1. UNCHANGED lease
      BY <1>7, TypeWorker DEF WorkerNext, WorkerWrite, ClaimScan, rows
    <2>2. QED
      BY <1>1, <2>1
  <1>8. CASE LeaseNext
    <2>1. ASSUME NEW l \in Leases, NEW extend \in Extensions, RenewRead(l, extend) PROVE StampsFixed
      BY <1>1, <2>1 DEF RenewRead, rows
    <2>2. ASSUME NEW ps, SweepScan(ps) PROVE StampsFixed
      BY <1>1, <2>2 DEF SweepScan, rows
    <2>3. ASSUME NEW l \in Leases, NEW requeue, CancelActiveLease(l, requeue) PROVE StampsFixed
      BY <1>5, <2>3 DEF CancelActiveLease
    <2>4. QED
      BY <1>2, <1>3, <1>4, <1>8, <2>1, <2>2, <2>3 DEF LeaseNext
  <1>9. CASE ResultNext
    <2>1. ASSUME NEW l, NEW r, NEW passed, SubmitResult(l, r, passed) PROVE StampsFixed
      BY <1>1, <2>1 DEF SubmitResult
    <2>2. ASSUME NEW r, AcceptRead(r) \/ AcceptReject(r) PROVE StampsFixed
      BY <1>1, <2>2 DEF AcceptRead, AcceptReject, rows
    <2>3. QED
      BY <1>6, <1>9, <2>1, <2>2 DEF ResultNext
  <1>10. CASE MissionNext
    <2>1. ASSUME NEW m, NEW notify, NEW terminal, NEW requeue, RevokeScan(m, notify, terminal, requeue)
          PROVE  StampsFixed
      BY <1>1, <2>1 DEF RevokeScan, rows
    <2>2. ASSUME NEW v \in revokes, RevokeCommit(v) PROVE StampsFixed
      BY <1>5, <2>2 DEF RevokeCommit
    <2>3. ASSUME NEW m, NEW spec, GraphRead(m, spec) PROVE StampsFixed
      BY <1>1, <2>3 DEF GraphRead, rows
    <2>4. ASSUME NEW g \in graphs, GraphCommit(g) PROVE StampsFixed
      BY <1>1, <2>4 DEF GraphCommit
    <2>5. QED
      BY <1>10, <2>1, <2>2, <2>3, <2>4 DEF MissionNext
  <1>11. CASE Tick \/ Abort \/ UNCHANGED vars
    BY <1>1, <1>11 DEF Tick, Abort, vars, rows
  <1>12. QED
    BY <1>7, <1>8, <1>9, <1>10, <1>11 DEF Next

(* Revocations, cancelled missions, generations and revisions never go back. *)
LEMMA AuthorityGrowsStep == TypeOK /\ [Next]_vars => AuthorityGrows
  <1> SUFFICES ASSUME TypeOK, [Next]_vars PROVE AuthorityGrows
    OBVIOUS
  <1> USE DEF AuthorityGrows
  <1>1. CASE UNCHANGED <<worker, mission>>
    BY <1>1 DEF TypeOK, WorkerRow, MissionRow
  <1>2. CASE WorkerNext
    <2>1. UNCHANGED mission
      BY <1>2, TypeWorker DEF WorkerNext, WorkerWrite, ClaimScan, rows
    <2>2. \A w \in Workers : /\ worker[w].revoked => worker'[w].revoked
                             /\ worker[w].generation <= worker'[w].generation
      <3> USE DEF TypeOK, WorkerRow
      <3>1. ASSUME NEW v \in Workers, NEW p, NEW caps, Enroll(v, p, caps), NEW w \in Workers
            PROVE  /\ worker[w].revoked => worker'[w].revoked
                   /\ worker[w].generation <= worker'[w].generation
        BY <3>1 DEF Enroll
      <3>2. ASSUME NEW v \in Workers, RotateMembershipToken(v) \/ RevokeWorker(v), NEW w \in Workers
            PROVE  /\ worker[w].revoked => worker'[w].revoked
                   /\ worker[w].generation <= worker'[w].generation
        BY <3>2 DEF RotateMembershipToken, RevokeWorker
      <3>3. ASSUME NEW v \in Workers, NEW w \in Workers, RequestDrain(v) \/ Drain(v)
            PROVE  worker'[w].revoked = worker[w].revoked /\ worker'[w].generation = worker[w].generation
        BY <3>3 DEF RequestDrain, Drain
      <3>4. ASSUME NEW v \in Workers, NEW w \in Workers, NEW status, Heartbeat(v, status)
            PROVE  worker'[w].revoked = worker[w].revoked /\ worker'[w].generation = worker[w].generation
        BY <3>4 DEF Heartbeat
      <3>5. ASSUME NEW v \in Workers, NEW w \in Workers, NEW caps, AdvertiseCapabilities(v, caps)
            PROVE  worker'[w].revoked = worker[w].revoked /\ worker'[w].generation = worker[w].generation
        BY <3>5 DEF AdvertiseCapabilities
      <3>6. ASSUME NEW v \in Workers, ClaimScan(v) PROVE UNCHANGED worker
        BY <3>6 DEF ClaimScan, rows
      <3>7. QED
        BY <1>2, <3>1, <3>2, <3>3, <3>4, <3>5, <3>6 DEF WorkerNext
    <2>3. QED
      BY <2>1, <2>2 DEF TypeOK, MissionRow
  <1>3. CASE LeaseNext \/ ResultNext \/ Tick \/ Abort \/ UNCHANGED vars
    <2>1. UNCHANGED <<worker, mission>>
      BY <1>3 DEF LeaseNext, ResultNext, Tick, Abort, vars, ClaimCommit, RenewRead, RenewCommit,
         SweepScan, SweepCommit, CancelActiveLease, SubmitResult, AcceptRead, AcceptReject,
         AcceptCommit, rows
    <2>2. QED
      BY <1>1, <2>1
  <1>4. CASE MissionNext
    <2>1. UNCHANGED worker
      BY <1>4 DEF MissionNext, RevokeScan, RevokeCommit, GraphRead, GraphCommit, rows
    <2>2. ASSUME NEW v \in revokes, RevokeCommit(v) PROVE AuthorityGrows
      BY <2>1, <2>2 DEF RevokeCommit, TypeOK, WorkerRow, MissionRow
    <2>3. ASSUME NEW g \in graphs, GraphCommit(g) PROVE AuthorityGrows
      BY <2>1, <2>3 DEF GraphCommit, TypeOK, WorkerRow, MissionRow
    <2>4. ASSUME NEW m, NEW notify, NEW terminal, NEW requeue, RevokeScan(m, notify, terminal, requeue)
          PROVE  AuthorityGrows
      BY <1>1, <2>4 DEF RevokeScan, rows
    <2>5. ASSUME NEW m, NEW spec, GraphRead(m, spec) PROVE AuthorityGrows
      BY <1>1, <2>5 DEF GraphRead, rows
    <2>6. QED
      BY <1>4, <2>2, <2>3, <2>4, <2>5 DEF MissionNext
  <1>5. QED
    BY <1>2, <1>3, <1>4 DEF Next

--------------------------------------------------------------------------------
(* Only a claim's commit inserts a lease, and only a claim's scan adds a claim.   *)
Insertions ==
    /\ \A l \in Leases : lease[l].state = "none" /\ lease'[l].state # "none" =>
          \E c \in claims : ClaimCommit(c, l)
    /\ \A c \in claims' \ claims : \E w \in Workers : ClaimScan(w)

(* Every handler but the claim leaves the set of inserted leases and of claims in  *)
(* flight alone, or removes from the latter.                                       *)
LEMMA InsertionsStep == TypeOK /\ LeaseInv /\ [Next]_vars => Insertions
  <1> SUFFICES ASSUME TypeOK, LeaseInv, [Next]_vars PROVE Insertions
    OBVIOUS
  <1> USE DEF Insertions
  <1>1. CASE UNCHANGED <<lease, claims>>
    BY <1>1
  <1>2. ASSUME NEW c \in claims, NEW l \in Leases, ClaimCommit(c, l) PROVE Insertions
    <2>1. claims' \subseteq claims
      BY <1>2 DEF ClaimCommit
    <2>2. \A k \in Leases : k # l => lease'[k] = lease[k]
      BY <1>2 DEF ClaimCommit, TypeOK
    <2>3. QED
      BY <1>2, <2>1, <2>2
  <1>3. ASSUME NEW n \in renewals, RenewCommit(n) PROVE Insertions
    BY <1>3 DEF RenewCommit, TypeOK, LeaseRow, LeaseInv, InFlightLeasesExist
  <1>4. ASSUME NEW s \in sweeps, NEW view, SweepCommit(s, view) PROVE Insertions
    BY <1>4 DEF SweepCommit, TypeOK, LeaseRow, LeaseInv, InFlightLeasesExist
  <1>5. ASSUME NEW S, NEW requeue, NEW now, CancelWrites(S, requeue, now), UNCHANGED claims,
               \A l \in Leases : l \in S => lease[l].state # "none"
        PROVE  Insertions
    BY <1>5 DEF CancelWrites, TypeOK, LeaseRow
  <1>6. ASSUME NEW r \in accepts, AcceptCommit(r) PROVE Insertions
    BY <1>6 DEF AcceptCommit, TypeOK, LeaseRow, ActiveLeaseStates
  <1>7. CASE WorkerNext
    <2>1. CASE \E w \in Workers : ClaimScan(w)
      BY <2>1 DEF ClaimScan, rows
    <2>2. CASE UNCHANGED <<lease, claims>>
      BY <1>1, <2>2
    <2>3. QED
      BY <1>7, <2>1, <2>2 DEF WorkerNext, Enroll, RotateMembershipToken, RevokeWorker, RequestDrain,
         Drain, Heartbeat, AdvertiseCapabilities, WorkerWrite, txs
  <1>8. CASE LeaseNext
    <2>1. ASSUME NEW l \in Leases, NEW extend \in Extensions, RenewRead(l, extend) PROVE Insertions
      BY <1>1, <2>1 DEF RenewRead, rows
    <2>2. ASSUME NEW ps, SweepScan(ps) PROVE Insertions
      BY <1>1, <2>2 DEF SweepScan, rows
    <2>3. ASSUME NEW l \in Leases, NEW requeue, CancelActiveLease(l, requeue) PROVE Insertions
      BY <1>5, <2>3 DEF CancelActiveLease, Active, ActiveLeaseStates, txs
    <2>4. QED
      BY <1>2, <1>3, <1>4, <1>8, <2>1, <2>2, <2>3 DEF LeaseNext
  <1>9. CASE ResultNext
    <2>1. ASSUME NEW l, NEW r, NEW passed, SubmitResult(l, r, passed) PROVE Insertions
      BY <1>1, <2>1 DEF SubmitResult, txs
    <2>2. ASSUME NEW r, AcceptRead(r) \/ AcceptReject(r) PROVE Insertions
      BY <1>1, <2>2 DEF AcceptRead, AcceptReject, rows, txs
    <2>3. QED
      BY <1>6, <1>9, <2>1, <2>2 DEF ResultNext
  <1>10. CASE MissionNext
    <2>1. ASSUME NEW m, NEW notify, NEW terminal, NEW requeue, RevokeScan(m, notify, terminal, requeue)
          PROVE  Insertions
      BY <1>1, <2>1 DEF RevokeScan, rows
    <2>2. ASSUME NEW v \in revokes, RevokeCommit(v) PROVE Insertions
      BY <1>5, <2>2 DEF RevokeCommit, LeaseInv, InFlightLeasesExist
    <2>3. ASSUME NEW m, NEW spec, GraphRead(m, spec) PROVE Insertions
      BY <1>1, <2>3 DEF GraphRead, rows
    <2>4. ASSUME NEW g \in graphs, GraphCommit(g) PROVE Insertions
      BY <1>1, <2>4 DEF GraphCommit
    <2>5. QED
      BY <1>10, <2>1, <2>2, <2>3, <2>4 DEF MissionNext
  <1>11. CASE Tick \/ UNCHANGED vars
    BY <1>1, <1>11 DEF Tick, vars, rows, txs
  <1>12. CASE Abort
    BY <1>12 DEF Abort, rows
  <1>13. QED
    BY <1>7, <1>8, <1>9, <1>10, <1>11, <1>12 DEF Next

(* The stamps of a lease are taken from the rows as they are at the claim, and the *)
(* rows' counters only grow afterwards.                                            *)
LEMMA StampsStep ==
    TypeOK /\ TypeOK' /\ LeaseInv /\ StampsNotAhead /\ [Next]_vars => StampsNotAhead'
  <1> SUFFICES ASSUME TypeOK, TypeOK', LeaseInv, StampsNotAhead, [Next]_vars PROVE StampsNotAhead'
    OBVIOUS
  <1>1. StampsFixed /\ AuthorityGrows /\ Insertions
    BY StampsFixedStep, AuthorityGrowsStep, InsertionsStep
  <1>2. ASSUME NEW c \in claims'
        PROVE  /\ c.generation <= worker'[c.worker].generation
               /\ c.revision <= mission'[MissionOf[c.task]].revision
               /\ c.cancellation <= mission'[MissionOf[c.task]].cancellation
    <2>1. c \in ClaimTx /\ MissionOf[c.task] \in Missions
      BY <1>2, RowAssumption DEF TypeOK, ClaimTx
    <2>2. CASE c \in claims
      BY <1>1, <2>1, <2>2 DEF StampsNotAhead, AuthorityGrows, TypeOK, WorkerRow, MissionRow, ClaimTx
    <2>3. CASE c \notin claims
      <3>1. PICK w \in Workers : ClaimScan(w)
        BY <1>1, <1>2, <2>3 DEF Insertions
      <3>2. UNCHANGED <<worker, mission>>
        BY <3>1 DEF ClaimScan, rows
      <3>3. /\ c.generation = worker[c.worker].generation
            /\ c.revision = task[c.task].revision
            /\ c.cancellation = mission[MissionOf[c.task]].cancellation
            /\ EligibleFor(w, c.task)
        BY <1>2, <2>3, <3>1 DEF ClaimScan
      <3>4. c.revision = mission[MissionOf[c.task]].revision
        BY <3>3 DEF EligibleFor, ClaimableMission
      <3>5. QED
        BY <2>1, <3>2, <3>3, <3>4 DEF TypeOK, WorkerRow, MissionRow, ClaimTx
    <2>4. QED
      BY <2>2, <2>3
  <1>3. ASSUME NEW l \in Leases, lease'[l].state # "none"
        PROVE  /\ lease'[l].generation <= worker'[lease'[l].worker].generation
               /\ lease'[l].revision <= mission'[LeaseMission(l)'].revision
               /\ lease'[l].cancellation <= mission'[LeaseMission(l)'].cancellation
    <2>1. lease[l] \in LeaseRow /\ MissionOf[lease[l].task] \in Missions
      BY RowAssumption DEF TypeOK, LeaseRow
    <2>2. CASE lease[l].state # "none"
      <3>1. /\ lease'[l].worker = lease[l].worker /\ lease'[l].task = lease[l].task
            /\ lease'[l].generation = lease[l].generation
            /\ lease'[l].revision = lease[l].revision
            /\ lease'[l].cancellation = lease[l].cancellation
        BY <1>1, <2>2 DEF StampsFixed
      <3>2. /\ lease[l].generation <= worker[lease[l].worker].generation
            /\ lease[l].revision <= mission[LeaseMission(l)].revision
            /\ lease[l].cancellation <= mission[LeaseMission(l)].cancellation
        BY <2>2 DEF StampsNotAhead
      <3>3. QED
        BY <1>1, <2>1, <3>1, <3>2 DEF AuthorityGrows, LeaseMission, TypeOK, WorkerRow, MissionRow, LeaseRow
    <2>3. CASE lease[l].state = "none"
      <3>1. PICK c \in claims : ClaimCommit(c, l)
        BY <1>1, <1>3, <2>3 DEF Insertions
      <3>2. /\ lease'[l].worker = c.worker /\ lease'[l].task = c.task
            /\ lease'[l].generation = c.generation
            /\ lease'[l].revision = c.revision
            /\ lease'[l].cancellation = c.cancellation
            /\ UNCHANGED <<worker, mission>>
        BY <3>1 DEF ClaimCommit, TypeOK
      <3>3. QED
        BY <3>2 DEF StampsNotAhead, LeaseMission
    <2>4. QED
      BY <2>2, <2>3
  <1>4. QED
    BY <1>2, <1>3 DEF StampsNotAhead

--------------------------------------------------------------------------------
(* What a step may do to the attempts and to the accepts in flight: a closed       *)
(* attempt keeps its row, an attempt is accepted only by an accept in flight, an   *)
(* accept enters only through the fence and keeps the lease it is for, and a       *)
(* decided result keeps its row.                                                   *)
AttemptSteps ==
    /\ \A l \in Leases : attempt[l].status \in TerminalAttempt => attempt'[l] = attempt[l]
    /\ \A l \in Leases : attempt[l].status # "accepted" /\ attempt'[l].status = "accepted" =>
          \E r \in accepts : result[r].lease = l
    /\ \A r \in accepts' : \/ r \in accepts
                           \/ AcceptFence(r)
    /\ \A r \in accepts' : result'[r].lease = result[r].lease
    /\ \A r \in Results : result[r].state \in {"accepted", "rejected"} => result'[r] = result[r]

(* Every handler respects AttemptSteps.                                            *)
LEMMA AttemptStepsStep == TypeOK /\ LeaseInv /\ [Next]_vars => AttemptSteps
  <1> SUFFICES ASSUME TypeOK, LeaseInv, [Next]_vars PROVE AttemptSteps
    OBVIOUS
  <1> USE DEF AttemptSteps
  <1>1. CASE UNCHANGED <<attempt, result, accepts>>
    BY <1>1
  <1>2. ASSUME NEW c \in claims, NEW l \in Leases, ClaimCommit(c, l) PROVE AttemptSteps
    <2>1. attempt[l].status = "none"
      BY <1>2 DEF ClaimCommit, LeaseInv, AttemptMatchesLease
    <2>2. QED
      BY <1>2, <2>1 DEF ClaimCommit, TypeOK, AttemptRow, TerminalAttempt, AttemptStatuses
  <1>3. ASSUME NEW s \in sweeps, NEW view, SweepCommit(s, view) PROVE AttemptSteps
    BY <1>3 DEF SweepCommit, TypeOK, AttemptRow, TerminalAttempt
  <1>4. ASSUME NEW S, NEW requeue, NEW now, CancelWrites(S, requeue, now), UNCHANGED <<result, accepts>>
        PROVE  AttemptSteps
    BY <1>4 DEF CancelWrites, TypeOK, AttemptRow
  <1>5. ASSUME NEW r \in accepts, AcceptCommit(r) PROVE AttemptSteps
    <2> DEFINE k == result[r].lease
    <2>1. r \in Results /\ k \in Leases /\ attempt[k].status = "leased"
      BY <1>5 DEF TypeOK, ResultRow, LeaseInv, AcceptExclusive
    <2>2. \A l \in Leases : l # k => attempt'[l] = attempt[l]
      BY <1>5 DEF AcceptCommit, TypeOK
    <2>3. \A q \in Results : result'[q].lease = result[q].lease
      BY <1>5 DEF AcceptCommit, TypeOK, ResultRow
    <2>4. accepts' \subseteq accepts
      BY <1>5 DEF AcceptCommit
    <2>5. \A l \in Leases : attempt[l].status \in TerminalAttempt => l # k
      BY <2>1 DEF TerminalAttempt
    <2>6. \A q \in Results : result[q].state \in {"accepted", "rejected"} => result'[q] = result[q]
      BY <1>5 DEF AcceptCommit, TypeOK, LeaseInv, AcceptExclusive
    <2>7. QED
      BY <1>5, <2>1, <2>2, <2>3, <2>4, <2>5, <2>6 DEF TypeOK
  <1>6. ASSUME NEW l \in Leases, NEW r \in Results, NEW passed, SubmitResult(l, r, passed)
        PROVE  AttemptSteps
    <2>1. r \notin accepts
      BY <1>6 DEF SubmitResult, LeaseInv, AcceptExclusive
    <2>2. QED
      BY <1>6, <2>1 DEF SubmitResult, TypeOK, txs
  <1>7. ASSUME NEW r \in Results, AcceptRead(r) PROVE AttemptSteps
    BY <1>7 DEF AcceptRead, rows
  <1>8. ASSUME NEW r \in Results, AcceptReject(r) PROVE AttemptSteps
    BY <1>8 DEF AcceptReject, AcceptLockable, TypeOK, ResultRow, txs
  <1>9. CASE WorkerNext
    <2>1. UNCHANGED <<attempt, result, accepts>>
      BY <1>9 DEF WorkerNext, Enroll, RotateMembershipToken, RevokeWorker, RequestDrain,
         Drain, Heartbeat, AdvertiseCapabilities, WorkerWrite, ClaimScan, rows, txs
    <2>2. QED
      BY <1>1, <2>1
  <1>10. CASE LeaseNext
    <2>1. ASSUME NEW l, NEW extend, RenewRead(l, extend) PROVE AttemptSteps
      BY <1>1, <2>1 DEF RenewRead, rows
    <2>2. ASSUME NEW n, RenewCommit(n) PROVE AttemptSteps
      BY <1>1, <2>2 DEF RenewCommit
    <2>3. ASSUME NEW ps, SweepScan(ps) PROVE AttemptSteps
      BY <1>1, <2>3 DEF SweepScan, rows
    <2>4. ASSUME NEW l, NEW requeue, CancelActiveLease(l, requeue) PROVE AttemptSteps
      BY <1>4, <2>4 DEF CancelActiveLease, txs
    <2>5. QED
      BY <1>2, <1>3, <1>10, <2>1, <2>2, <2>3, <2>4 DEF LeaseNext
  <1>11. CASE ResultNext
    BY <1>5, <1>6, <1>7, <1>8, <1>11 DEF ResultNext
  <1>12. CASE MissionNext
    <2>1. ASSUME NEW m, NEW notify, NEW terminal, NEW requeue, RevokeScan(m, notify, terminal, requeue)
          PROVE  AttemptSteps
      BY <1>1, <2>1 DEF RevokeScan, rows
    <2>2. ASSUME NEW v \in revokes, RevokeCommit(v) PROVE AttemptSteps
      BY <1>4, <2>2 DEF RevokeCommit
    <2>3. ASSUME NEW m, NEW spec, GraphRead(m, spec) PROVE AttemptSteps
      BY <1>1, <2>3 DEF GraphRead, rows
    <2>4. ASSUME NEW g \in graphs, GraphCommit(g) PROVE AttemptSteps
      BY <1>1, <2>4 DEF GraphCommit
    <2>5. QED
      BY <1>12, <2>1, <2>2, <2>3, <2>4 DEF MissionNext
  <1>13. CASE Tick \/ UNCHANGED vars
    BY <1>1, <1>13 DEF Tick, vars, rows, txs
  <1>14. CASE Abort
    BY <1>14 DEF Abort, rows
  <1>15. QED
    BY <1>9, <1>10, <1>11, <1>12, <1>13, <1>14 DEF Next

(* A fenced lease stays fenced: what fenced it cannot be undone, no accept passes  *)
(* the fence, and none was in flight.                                              *)
LEMMA FencedStep ==
    ASSUME TypeOK, TypeOK', LeaseInv, StampsNotAhead, [Next]_vars, NEW l \in Leases, Fenced(l)
    PROVE  Fenced(l)'
  <1> DEFINE w == lease[l].worker
             m == LeaseMission(l)
  <1>1. StampsFixed /\ AuthorityGrows /\ AttemptSteps
    BY StampsFixedStep, AuthorityGrowsStep, AttemptStepsStep
  <1>2. w \in Workers /\ m \in Missions
    BY RowAssumption DEF TypeOK, LeaseRow, LeaseMission
  <1>3. /\ lease'[l].state # "none"
        /\ lease'[l].worker = w
        /\ LeaseMission(l)' = m
        /\ lease'[l].generation = lease[l].generation
        /\ lease'[l].revision = lease[l].revision
        /\ lease'[l].cancellation = lease[l].cancellation
    BY <1>1 DEF StampsFixed, Fenced, LeaseMission
  <1>4. attempt'[l].status # "accepted"
    BY <1>1 DEF AttemptSteps, Fenced
  <1>5. ASSUME NEW r \in accepts' PROVE result'[r].lease # l
    <2>1. CASE r \in accepts
      BY <1>1, <1>5, <2>1 DEF AttemptSteps, Fenced
    <2>2. CASE AcceptFence(r)
      <3>1. SUFFICES ASSUME result[r].lease = l PROVE FALSE
        BY <1>1, <1>5 DEF AttemptSteps
      <3>2. /\ ~worker[w].revoked
            /\ worker[w].generation = lease[l].generation
            /\ mission[m].status \in RunnableMission
            /\ lease[l].revision = mission[m].revision
            /\ lease[l].cancellation = mission[m].cancellation
            /\ attempt[l].status \notin TerminalAttempt \ {"accepted"}
        BY <2>2, <3>1 DEF AcceptFence, WorkerFence, MissionFence
      <3>3. QED
        BY <3>2 DEF Fenced
    <2>3. QED
      BY <1>1, <1>5, <2>1, <2>2 DEF AttemptSteps
  <1>6. /\ lease[l].generation <= worker[w].generation
        /\ lease[l].revision <= mission[m].revision
        /\ lease[l].cancellation <= mission[m].cancellation
    BY DEF StampsNotAhead, Fenced
  <1>7. \/ worker'[w].revoked
        \/ worker'[w].generation # lease[l].generation
        \/ mission'[m].status \notin RunnableMission
        \/ mission'[m].cancellation # lease[l].cancellation
        \/ mission'[m].revision # lease[l].revision
        \/ attempt'[l].status \in TerminalAttempt
    <2>1. CASE worker[w].revoked
      BY <1>1, <1>2, <2>1 DEF AuthorityGrows
    <2>2. CASE worker[w].generation # lease[l].generation
      <3>1. worker[w].generation \in Nat /\ worker'[w].generation \in Nat /\ lease[l].generation \in Nat
        BY <1>2 DEF TypeOK, WorkerRow, LeaseRow
      <3>2. worker[w].generation <= worker'[w].generation
        BY <1>1, <1>2 DEF AuthorityGrows
      <3>3. worker'[w].generation # lease[l].generation
        BY <1>6, <2>2, <3>1, <3>2
      <3>4. QED
        BY <3>3
    <2>3. CASE mission[m].status \notin RunnableMission
      <3>1. mission[m].status = "cancelled"
        BY <1>2, <2>3 DEF TypeOK, MissionRow, RunnableMission
      <3>2. mission'[m].status = "cancelled"
        BY <1>1, <1>2, <3>1 DEF AuthorityGrows
      <3>3. QED
        BY <3>2 DEF RunnableMission
    <2>4. CASE mission[m].cancellation # lease[l].cancellation
      <3>1. mission[m].cancellation \in Nat /\ mission'[m].cancellation \in Nat /\ lease[l].cancellation \in Nat
        BY <1>2 DEF TypeOK, MissionRow, LeaseRow
      <3>2. mission[m].cancellation <= mission'[m].cancellation
        BY <1>1, <1>2 DEF AuthorityGrows
      <3>3. mission'[m].cancellation # lease[l].cancellation
        BY <1>6, <2>4, <3>1, <3>2
      <3>4. QED
        BY <3>3
    <2>5. CASE mission[m].revision # lease[l].revision
      <3>1. mission[m].revision \in Nat /\ mission'[m].revision \in Nat /\ lease[l].revision \in Nat
        BY <1>2 DEF TypeOK, MissionRow, LeaseRow
      <3>2. mission[m].revision <= mission'[m].revision
        BY <1>1, <1>2 DEF AuthorityGrows
      <3>3. mission'[m].revision # lease[l].revision
        BY <1>6, <2>5, <3>1, <3>2
      <3>4. QED
        BY <3>3
    <2>6. CASE attempt[l].status \in TerminalAttempt
      BY <1>1, <2>6 DEF AttemptSteps
    <2>7. QED
      BY <2>1, <2>2, <2>3, <2>4, <2>5, <2>6 DEF Fenced
  <1>8. QED
    BY <1>3, <1>4, <1>5, <1>7 DEF Fenced

(* No lease, and no claim in flight, is ever stamped ahead of the rows.            *)
LEMMA StampsAlways == Spec => []StampsNotAhead
  <1>1. Init => StampsNotAhead
    BY DEF Init, StampsNotAhead
  <1>2. QED
    BY <1>1, StampsStep, TypeCorrect, LeaseInvAlways, PTL DEF Spec

(* Whatever fences a lease (revocation, re-enrolment, token rotation, cancellation, *)
(* a new graph revision, expiry) fences it for good, for any number of workers,    *)
(* tasks and transactions in flight.                                               *)
THEOREM FencingIsPermanent == Spec => FencedForever
  <1>1. TypeOK /\ TypeOK' /\ LeaseInv /\ StampsNotAhead /\ [Next]_vars
        => [\A l \in Leases : Fenced(l) => Fenced(l)']_vars
    BY FencedStep
  <1>2. QED
    BY <1>1, StampsAlways, TypeCorrect, LeaseInvAlways, PTL DEF Spec, FencedForever

(* A decided result and a closed attempt keep their rows, whatever replay, stale   *)
(* revocation or late sweep follows.                                               *)
THEOREM DispositionsAreFinal == Spec => DispositionsFinal
  <1>1. TypeOK /\ LeaseInv /\ [Next]_vars
        => [/\ \A r \in Results : result[r].state \in {"accepted", "rejected"} => result'[r] = result[r]
            /\ \A l \in Leases : attempt[l].status \in TerminalAttempt => attempt'[l] = attempt[l]]_vars
    BY AttemptStepsStep DEF AttemptSteps
  <1>2. QED
    BY <1>1, TypeCorrect, LeaseInvAlways, PTL DEF Spec, DispositionsFinal

--------------------------------------------------------------------------------
(* A claim binds, and a renewal in flight asks for, an expiry within the horizon   *)
(* the lease was given.                                                            *)
LEMMA HorizonStep ==
    TypeOK /\ TypeOK' /\ LeaseInv /\ HorizonInv /\ [Next]_vars => HorizonInv'
  <1> SUFFICES ASSUME TypeOK, TypeOK', LeaseInv, HorizonInv, [Next]_vars PROVE HorizonInv'
    OBVIOUS
  <1>1. StampsFixed
    BY StampsFixedStep
  <1>2. ASSUME \A l \in Leases : lease[l].state = "none" => lease'[l].state = "none",
               \A l \in Leases : lease'[l].expires = lease[l].expires,
               renewals' \subseteq renewals
        PROVE  HorizonInv'
    BY <1>1, <1>2 DEF HorizonInv, WithinHorizon, StampsFixed, TypeOK, RenewTx, LeaseInv, InFlightLeasesExist
  <1>3. CASE UNCHANGED <<lease, renewals>>
    BY <1>2, <1>3
  <1>4. ASSUME NEW c \in claims, NEW l \in Leases, ClaimCommit(c, l) PROVE HorizonInv'
    <2>1. /\ \A k \in Leases : k # l => lease'[k] = lease[k]
          /\ lease'[l].renewable = c.clock + Horizon
          /\ lease'[l].expires = Earlier(c.clock + LeaseSeconds, c.clock + Horizon)
          /\ lease[l].state = "none"
          /\ UNCHANGED renewals
      BY <1>4 DEF ClaimCommit, TypeOK
    <2>2. lease'[l].expires <= lease'[l].renewable
      BY <2>1, WindowAssumption DEF Earlier, TypeOK, ClaimTx
    <2>3. QED
      BY <2>1, <2>2 DEF HorizonInv, WithinHorizon, TypeOK, RenewTx, LeaseInv, InFlightLeasesExist
  <1>5. ASSUME NEW l \in Leases, NEW extend \in Extensions, RenewRead(l, extend) PROVE HorizonInv'
    <2> DEFINE capped == Earlier(clock + extend, lease[l].renewable)
               n == [lease |-> l, state |-> lease[l].state, was |-> lease[l].expires,
                     expires |-> IF capped < lease[l].expires THEN lease[l].expires ELSE capped]
    <2>1. renewals' = renewals \cup {n}
      BY <1>5 DEF RenewRead
    <2>2. lease[l].expires < lease[l].renewable /\ UNCHANGED lease
      BY <1>5 DEF RenewRead, rows
    <2>3. n.expires <= lease[l].renewable
      BY <2>1, <2>2, WindowAssumption DEF Earlier, TypeOK, LeaseRow
    <2>4. QED
      BY <2>1, <2>2, <2>3 DEF HorizonInv, WithinHorizon
  <1>6. ASSUME NEW n \in renewals, RenewCommit(n) PROVE HorizonInv'
    <2>1. n.lease \in Leases /\ n.expires <= lease[n.lease].renewable
      BY <1>6 DEF HorizonInv, TypeOK, RenewTx
    <2>2. \A k \in Leases : k # n.lease => lease'[k] = lease[k]
      BY <1>6 DEF RenewCommit, TypeOK
    <2>3. /\ lease'[n.lease].expires \in {n.expires, lease[n.lease].expires}
          /\ lease'[n.lease].renewable = lease[n.lease].renewable
          /\ lease[n.lease].state # "none"
          /\ renewals' \subseteq renewals
      BY <1>6, <2>1 DEF RenewCommit, TypeOK, LeaseRow, LeaseInv, InFlightLeasesExist
    <2>4. QED
      BY <2>1, <2>2, <2>3 DEF HorizonInv, WithinHorizon, TypeOK, RenewTx
  <1>7. ASSUME NEW s \in sweeps, NEW view, SweepCommit(s, view) PROVE HorizonInv'
    BY <1>2, <1>7 DEF SweepCommit, TypeOK, LeaseRow, LeaseInv, InFlightLeasesExist
  <1>8. ASSUME NEW S, NEW requeue, NEW now, CancelWrites(S, requeue, now), UNCHANGED renewals,
               \A l \in Leases : l \in S => lease[l].state # "none"
        PROVE  HorizonInv'
    BY <1>2, <1>8 DEF CancelWrites, TypeOK, LeaseRow
  <1>9. ASSUME NEW r \in accepts, AcceptCommit(r) PROVE HorizonInv'
    BY <1>2, <1>9 DEF AcceptCommit, TypeOK, LeaseRow, ActiveLeaseStates
  <1>10. CASE WorkerNext
    <2>1. UNCHANGED <<lease, renewals>>
      BY <1>10 DEF WorkerNext, Enroll, RotateMembershipToken, RevokeWorker, RequestDrain,
         Drain, Heartbeat, AdvertiseCapabilities, WorkerWrite, ClaimScan, rows, txs
    <2>2. QED
      BY <1>3, <2>1
  <1>11. CASE LeaseNext
    <2>1. ASSUME NEW ps, SweepScan(ps) PROVE HorizonInv'
      BY <1>3, <2>1 DEF SweepScan, rows
    <2>2. ASSUME NEW l \in Leases, NEW requeue, CancelActiveLease(l, requeue) PROVE HorizonInv'
      BY <1>8, <2>2 DEF CancelActiveLease, Active, ActiveLeaseStates, txs
    <2>3. QED
      BY <1>4, <1>5, <1>6, <1>7, <1>11, <2>1, <2>2 DEF LeaseNext
  <1>12. CASE ResultNext
    <2>1. ASSUME NEW l, NEW r, NEW passed, SubmitResult(l, r, passed) PROVE HorizonInv'
      BY <1>3, <2>1 DEF SubmitResult, txs
    <2>2. ASSUME NEW r, AcceptRead(r) \/ AcceptReject(r) PROVE HorizonInv'
      BY <1>3, <2>2 DEF AcceptRead, AcceptReject, rows, txs
    <2>3. QED
      BY <1>9, <1>12, <2>1, <2>2 DEF ResultNext
  <1>13. CASE MissionNext
    <2>1. ASSUME NEW v \in revokes, RevokeCommit(v) PROVE HorizonInv'
      BY <1>8, <2>1 DEF RevokeCommit, LeaseInv, InFlightLeasesExist
    <2>2. ASSUME NEW m, NEW notify, NEW terminal, NEW requeue, RevokeScan(m, notify, terminal, requeue)
          PROVE  HorizonInv'
      BY <1>3, <2>2 DEF RevokeScan, rows
    <2>3. ASSUME NEW m, NEW spec, GraphRead(m, spec) PROVE HorizonInv'
      BY <1>3, <2>3 DEF GraphRead, rows
    <2>4. ASSUME NEW g \in graphs, GraphCommit(g) PROVE HorizonInv'
      BY <1>3, <2>4 DEF GraphCommit
    <2>5. QED
      BY <1>13, <2>1, <2>2, <2>3, <2>4 DEF MissionNext
  <1>14. CASE Tick \/ UNCHANGED vars
    BY <1>3, <1>14 DEF Tick, vars, rows, txs
  <1>15. CASE Abort
    BY <1>2, <1>15 DEF Abort, rows
  <1>16. QED
    BY <1>10, <1>11, <1>12, <1>13, <1>14, <1>15 DEF Next

(* No claim and no renewal, however late it commits, leaves a lease beyond its     *)
(* renewable_until.                                                                *)
THEOREM LeasesWithinHorizon == Spec => []WithinHorizon
  <1>1. Init => HorizonInv
    BY DEF Init, HorizonInv, WithinHorizon
  <1>2. Spec => []HorizonInv
    BY <1>1, HorizonStep, TypeCorrect, LeaseInvAlways, PTL DEF Spec
  <1>3. HorizonInv => WithinHorizon
    BY DEF HorizonInv
  <1>4. QED
    BY <1>2, <1>3, PTL

--------------------------------------------------------------------------------
(* Tasks marked leased.  That the task's lease is active is not inductive: a sweep  *)
(* writes the tasks it saw leased when it scanned, not those that are leased now.   *)
(* What carries it is that the task has a leased attempt, and that a sweep that     *)
(* will close that attempt saw the task leased as well.                             *)

LeasedTaskHasAttempt ==
    \A t \in Tasks : task[t].status = "leased" =>
        \E l \in Leases : attempt[l].status = "leased" /\ lease[l].task = t

SweepsSawLeased ==
    \A s \in sweeps : \A l \in s.leases :
        attempt[l].status = "leased" /\ task[lease[l].task].status = "leased" =>
            s.tasks[lease[l].task].status = "leased"

LeasedInv == LeasedTaskHasAttempt /\ SweepsSawLeased

LEMMA LeasedInit == Init => LeasedInv
  BY DEF Init, LeasedInv, LeasedTaskHasAttempt, SweepsSawLeased

(* A step that writes no lease, attempt or task and starts no sweep. *)
LEMMA LeasedQuiet ==
    ASSUME LeasedInv, UNCHANGED <<task, lease, attempt>>, sweeps' \subseteq sweeps
    PROVE  LeasedInv'
  BY DEF LeasedInv, LeasedTaskHasAttempt, SweepsSawLeased

LEMMA LeasedClaimCommit ==
    ASSUME TypeOK, LeaseInv, LeasedInv, NEW c \in claims, NEW l \in Leases, ClaimCommit(c, l)
    PROVE  LeasedInv'
  <1>1. /\ \A k \in Leases \ {l} : attempt'[k] = attempt[k] /\ lease'[k] = lease[k]
        /\ attempt'[l].status = "leased" /\ lease'[l].task = c.task
        /\ \A t \in Tasks \ {c.task} : task'[t] = task[t]
        /\ attempt[l].status = "none" /\ lease[l].state = "none" /\ sweeps' = sweeps
    BY DEF TypeOK, ClaimCommit, ClaimTx, AttemptRow, AttemptStatuses, LeaseRow, LeaseInv,
           AttemptMatchesLease
  <1>2. LeasedTaskHasAttempt'
    BY <1>1 DEF LeasedInv, LeasedTaskHasAttempt
  <1>3. ASSUME NEW s \in sweeps, NEW k \in s.leases, attempt'[k].status = "leased",
               task'[lease'[k].task].status = "leased"
        PROVE  s.tasks[lease'[k].task].status = "leased"
    <2>1. k \in Leases /\ k # l
      BY <1>1 DEF TypeOK, SweepTx, LeaseInv, InFlightLeasesExist
    <2>2. lease[k].task # c.task /\ lease[k].task \in Tasks
      BY <1>1, <1>3, <2>1 DEF LeaseInv, ClaimExclusive, TypeOK, LeaseRow
    <2>3. QED
      BY <1>1, <1>3, <2>1, <2>2 DEF LeasedInv, SweepsSawLeased
  <1>4. QED
    BY <1>1, <1>2, <1>3 DEF LeasedInv, SweepsSawLeased

LEMMA LeasedRenewCommit ==
    ASSUME TypeOK, LeasedInv, NEW n \in renewals, RenewCommit(n)
    PROVE  LeasedInv'
  <1>1. /\ UNCHANGED <<task, attempt, sweeps>>
        /\ \A l \in Leases : lease'[l].task = lease[l].task
    BY DEF RenewCommit, TypeOK, LeaseRow
  <1>2. QED
    BY <1>1 DEF LeasedInv, LeasedTaskHasAttempt, SweepsSawLeased, TypeOK, SweepTx

LEMMA LeasedSweepScan ==
    ASSUME TypeOK, LeasedInv, NEW ps, SweepScan(ps)
    PROVE  LeasedInv'
  <1>1. UNCHANGED <<task, lease, attempt>>
    BY DEF SweepScan, rows
  <1>2. \A s \in sweeps' : s \in sweeps \/ s.tasks = task
    BY DEF SweepScan
  <1>3. QED
    BY <1>1, <1>2 DEF LeasedInv, LeasedTaskHasAttempt, SweepsSawLeased

(* A sweep requeues every task whose leased attempt it closes. *)
LEMMA LeasedSweepCommit ==
    ASSUME TypeOK, LeasedInv, NEW s \in sweeps, NEW view, SweepCommit(s, view)
    PROVE  LeasedInv'
  <1>1. s.leases \in SUBSET Leases /\ sweeps' \subseteq sweeps
    BY DEF TypeOK, SweepTx, SweepCommit
  <1>2. \A l \in Leases : /\ lease'[l].task = lease[l].task
                          /\ attempt'[l].status = "leased" <=> attempt[l].status = "leased" /\ l \notin s.leases
    BY DEF SweepCommit, TypeOK, LeaseRow, AttemptRow
  <1>3. \A l, seen, m : ExpireTaskStatus(l, seen, m) # "leased"
    BY DEF ExpireTaskStatus
  <1>4. \A t \in Tasks : \/ task'[t] = task[t]
                         \/ task'[t].status # "leased"
    BY <1>3 DEF SweepCommit, TypeOK, TaskRow
  <1>5. \A t \in Tasks : s.tasks[t].status = "leased" /\ (\E l \in s.leases : lease[l].task = t) =>
                           task'[t].status # "leased"
    BY <1>3 DEF SweepCommit, TypeOK, TaskRow
  <1>6. LeasedTaskHasAttempt'
    <2> SUFFICES ASSUME NEW t \in Tasks, task'[t].status = "leased"
                 PROVE  \E l \in Leases : attempt'[l].status = "leased" /\ lease'[l].task = t
      BY DEF LeasedTaskHasAttempt
    <2>1. task[t].status = "leased"
      BY <1>4
    <2>2. PICK l \in Leases : attempt[l].status = "leased" /\ lease[l].task = t
      BY <2>1 DEF LeasedInv, LeasedTaskHasAttempt
    <2>3. l \notin s.leases
      BY <1>5, <2>1, <2>2 DEF LeasedInv, SweepsSawLeased
    <2>4. QED
      BY <1>2, <2>2, <2>3
  <1>7. SweepsSawLeased'
    <2> SUFFICES ASSUME NEW q \in sweeps', NEW l \in q.leases, attempt'[l].status = "leased",
                        task'[lease'[l].task].status = "leased"
                 PROVE  q.tasks[lease'[l].task].status = "leased"
      BY DEF SweepsSawLeased
    <2>1. q \in sweeps /\ l \in Leases /\ lease[l].task \in Tasks /\ lease'[l].task = lease[l].task
      BY <1>1, <1>2 DEF TypeOK, SweepTx, LeaseRow
    <2>2. attempt[l].status = "leased" /\ task[lease[l].task].status = "leased"
      BY <1>2, <1>4, <2>1
    <2>3. QED
      BY <2>1, <2>2 DEF LeasedInv, SweepsSawLeased
  <1>8. QED
    BY <1>6, <1>7 DEF LeasedInv

(* A cancellation takes every task whose attempt it closes out of leased. *)
LEMMA LeasedCancel ==
    ASSUME TypeOK, LeasedInv, NEW S, NEW requeue, NEW now, CancelWrites(S, requeue, now),
           sweeps' = sweeps
    PROVE  LeasedInv'
  <1>1. \A l \in Leases : /\ lease'[l].task = lease[l].task
                          /\ l \notin S => attempt'[l] = attempt[l]
                          /\ attempt'[l].status = "leased" => attempt[l].status = "leased"
    BY DEF CancelWrites, TypeOK, LeaseRow, AttemptRow
  <1>2. \A t \in Tasks : /\ task'[t] = task[t] \/ task'[t].status # "leased"
                         /\ task'[t].status = "leased" => \A l \in S : lease[l].task # t
    BY DEF CancelWrites, AfterCancel, TypeOK, TaskRow
  <1>3. LeasedTaskHasAttempt'
    <2> SUFFICES ASSUME NEW t \in Tasks, task'[t].status = "leased"
                 PROVE  \E l \in Leases : attempt'[l].status = "leased" /\ lease'[l].task = t
      BY DEF LeasedTaskHasAttempt
    <2>1. PICK l \in Leases : attempt[l].status = "leased" /\ lease[l].task = t
      BY <1>2 DEF LeasedInv, LeasedTaskHasAttempt
    <2>2. QED
      BY <1>1, <1>2, <2>1
  <1>4. SweepsSawLeased'
    <2> SUFFICES ASSUME NEW q \in sweeps, NEW l \in q.leases, attempt'[l].status = "leased",
                        task'[lease'[l].task].status = "leased"
                 PROVE  q.tasks[lease'[l].task].status = "leased"
      BY DEF SweepsSawLeased
    <2>1. l \in Leases /\ lease[l].task \in Tasks /\ lease'[l].task = lease[l].task
      BY <1>1 DEF TypeOK, SweepTx, LeaseRow
    <2>2. attempt[l].status = "leased" /\ task[lease[l].task].status = "leased"
      BY <1>1, <1>2, <2>1
    <2>3. QED
      BY <2>1, <2>2 DEF LeasedInv, SweepsSawLeased
  <1>5. QED
    BY <1>3, <1>4 DEF LeasedInv

(* An accept takes its task out of leased, and closes the task's one leased attempt. *)
LEMMA LeasedAcceptCommit ==
    ASSUME TypeOK, LeasedInv, NEW r \in accepts, AcceptCommit(r)
    PROVE  LeasedInv'
  <1> DEFINE a == result[r].lease
  <1>1. a \in Leases /\ lease[a].task \in Tasks
    BY DEF TypeOK, ResultRow, LeaseRow
  <1>2. /\ \A l \in Leases : lease'[l].task = lease[l].task /\ (l # a => attempt'[l] = attempt[l])
        /\ attempt'[a].status = "accepted" /\ sweeps' = sweeps
    BY <1>1 DEF AcceptCommit, TypeOK, LeaseRow
  <1>3. /\ \A t \in Tasks : t # lease[a].task => task'[t] = task[t]
        /\ task'[lease[a].task].status # "leased"
    BY <1>1 DEF AcceptCommit, TypeOK, TaskRow, TerminalTask
  <1> HIDE DEF a
  <1>4. LeasedTaskHasAttempt'
    BY <1>1, <1>2, <1>3 DEF LeasedInv, LeasedTaskHasAttempt
  <1>5. SweepsSawLeased'
    BY <1>1, <1>2, <1>3 DEF LeasedInv, SweepsSawLeased, TypeOK, SweepTx, LeaseRow
  <1>6. QED
    BY <1>4, <1>5 DEF LeasedInv

(* A graph revision makes no task leased: no proposal may say so. *)
LEMMA LeasedGraphCommit ==
    ASSUME TypeOK, LeasedInv, NEW g \in graphs, GraphCommit(g)
    PROVE  LeasedInv'
  <1>1. UNCHANGED <<lease, attempt, sweeps>> /\ g \in GraphTx
    BY DEF GraphCommit, TypeOK
  <1>2. \A t \in Tasks : task'[t].status = "leased" => task[t].status = "leased"
    BY <1>1, RowAssumption DEF GraphCommit, GraphTx, TypeOK, TaskRow
  <1>3. QED
    BY <1>1, <1>2 DEF LeasedInv, LeasedTaskHasAttempt, SweepsSawLeased, TypeOK, SweepTx, LeaseRow

LEMMA LeasedStep == TypeOK /\ LeaseInv /\ LeasedInv /\ [Next]_vars => LeasedInv'
  <1> SUFFICES ASSUME TypeOK, LeaseInv, LeasedInv, [Next]_vars PROVE LeasedInv'
    OBVIOUS
  <1>1. CASE WorkerNext
    <2>1. UNCHANGED <<task, lease, attempt, sweeps>>
      BY <1>1, TypeWorker DEF WorkerNext, WorkerWrite, ClaimScan, rows, txs
    <2>2. QED
      BY <2>1, LeasedQuiet
  <1>2. CASE LeaseNext
    <2>1. ASSUME NEW l \in Leases, NEW extend \in Extensions, RenewRead(l, extend) PROVE LeasedInv'
      BY <2>1, LeasedQuiet DEF RenewRead, rows
    <2>2. ASSUME NEW l \in Leases, NEW requeue, CancelActiveLease(l, requeue) PROVE LeasedInv'
      BY <2>2, LeasedCancel DEF CancelActiveLease, txs
    <2>3. QED
      BY <1>2, <2>1, <2>2, LeasedClaimCommit, LeasedRenewCommit, LeasedSweepScan, LeasedSweepCommit
      DEF LeaseNext
  <1>3. CASE ResultNext
    <2>1. ASSUME NEW l, NEW r, NEW passed, SubmitResult(l, r, passed) PROVE LeasedInv'
      BY <2>1, LeasedQuiet DEF SubmitResult, txs
    <2>2. ASSUME NEW r, AcceptRead(r) \/ AcceptReject(r) PROVE LeasedInv'
      BY <2>2, LeasedQuiet DEF AcceptRead, AcceptReject, rows, txs
    <2>3. QED
      BY <1>3, <2>1, <2>2, LeasedAcceptCommit DEF ResultNext
  <1>4. CASE MissionNext
    <2>1. ASSUME NEW m, NEW notify, NEW terminal, NEW requeue, RevokeScan(m, notify, terminal, requeue)
          PROVE  LeasedInv'
      BY <2>1, LeasedQuiet DEF RevokeScan, rows
    <2>2. ASSUME NEW v \in revokes, RevokeCommit(v) PROVE LeasedInv'
      BY <2>2, LeasedCancel DEF RevokeCommit
    <2>3. ASSUME NEW m, NEW spec, GraphRead(m, spec) PROVE LeasedInv'
      BY <2>3, LeasedQuiet DEF GraphRead, rows
    <2>4. QED
      BY <1>4, <2>1, <2>2, <2>3, LeasedGraphCommit DEF MissionNext
  <1>5. CASE Tick \/ Abort \/ UNCHANGED vars
    <2>1. UNCHANGED <<task, lease, attempt>> /\ sweeps' \subseteq sweeps
      BY <1>5 DEF Tick, Abort, vars, rows, txs
    <2>2. QED
      BY <2>1, LeasedQuiet
  <1>6. QED
    BY <1>1, <1>2, <1>3, <1>4, <1>5 DEF Next

(* expire_leases, cancel_active_lease, accept_result and claim_eligible_attempt: no    *)
(* interleaving leaves a task leased that no lease, and so no expiry, would move.      *)
THEOREM NoTaskIsStranded == Spec => []LeasedTaskHasActiveLease
  <1>1. Init => TypeOK /\ LeaseInv /\ LeasedInv
    BY TypeInit, LeaseInvInit, LeasedInit
  <1>2. (TypeOK /\ LeaseInv /\ LeasedInv) /\ [Next]_vars => (TypeOK /\ LeaseInv /\ LeasedInv)'
    BY TypeStep, LeaseInvStep, LeasedStep
  <1>3. LeaseInv /\ LeasedInv => LeasedTaskHasActiveLease
    BY DEF LeaseInv, LeasedAttemptHasActiveLease, LeasedInv, LeasedTaskHasAttempt,
           LeasedTaskHasActiveLease, ActiveOn
  <1>4. QED
    BY <1>1, <1>2, <1>3, PTL DEF Spec
--------------------------------------------------------------------------------
(* The dependencies of work under way.  A claim holds ready tasks only, so its       *)
(* commit never overwrites a finished one; a graph commit writes its own mission     *)
(* only, and makes every lease and claim of that mission stale.                      *)

LockedIsReady == \A c \in claims : \A t \in c.locks : task[t].status = "ready"

AcceptsOutsideClaims ==
    \A r \in accepts, c \in claims : lease[result[r].lease].task \notin c.locks

GraphsOfOneMission ==
    \A g \in graphs, t \in Tasks : MissionOf[t] # g.mission => g.spec[t] = "unstated"

DependenciesOfRevision(t, n) ==
    \A d \in DependsOn[t] : MissionOf[d] = MissionOf[t] /\ task[d].revision = n

StampsSawDependencies ==
    /\ \A c \in claims : c.revision = mission[MissionOf[c.task]].revision =>
          DependenciesOfRevision(c.task, c.revision)
    /\ \A l \in Leases :
          lease[l].state # "none" /\ lease[l].revision = mission[LeaseMission(l)].revision =>
          DependenciesOfRevision(lease[l].task, lease[l].revision)

LockInv == LockedIsReady /\ AcceptsOutsideClaims
DependencyInv == LockInv /\ GraphsOfOneMission /\ StampsSawDependencies

LEMMA DependencyInit == Init => DependencyInv
  BY DEF Init, DependencyInv, LockInv, LockedIsReady, AcceptsOutsideClaims, GraphsOfOneMission,
     StampsSawDependencies

(* A step that writes no task a claim holds and starts neither a claim nor an accept. *)
LEMMA LocksQuiet ==
    ASSUME TypeOK, LockInv,
           \A t \in Tasks : (\E c \in claims' : t \in c.locks) => task'[t] = task[t],
           \A r \in accepts' : /\ result'[r].lease = result[r].lease
                               /\ lease'[result[r].lease].task = lease[result[r].lease].task,
           claims' \subseteq claims, accepts' \subseteq accepts
    PROVE  LockInv'
  <1>1. LockedIsReady'
    BY DEF LockInv, LockedIsReady, TypeOK, ClaimTx
  <1>2. AcceptsOutsideClaims'
    BY DEF LockInv, AcceptsOutsideClaims
  <1>3. QED
    BY <1>1, <1>2 DEF LockInv

LEMMA LocksClaimScan ==
    ASSUME TypeOK, LockInv, NEW w \in Workers, ClaimScan(w)
    PROVE  LockInv'
  <1>1. UNCHANGED <<task, lease, result, accepts>>
    BY DEF ClaimScan, rows
  <1>2. \A c \in claims' : c \in claims \/ \A t \in c.locks : task[t].status = "ready" /\ ~TaskLocked(t)
    BY DEF ClaimScan
  <1>3. LockedIsReady'
    BY <1>1, <1>2 DEF LockInv, LockedIsReady
  <1>4. AcceptsOutsideClaims'
    BY <1>1, <1>2 DEF LockInv, AcceptsOutsideClaims, TaskLocked
  <1>5. QED
    BY <1>3, <1>4 DEF LockInv

LEMMA LocksClaimCommit ==
    ASSUME TypeOK, LeaseInv, LockInv, NEW c \in claims, NEW l \in Leases, ClaimCommit(c, l)
    PROVE  LockInv'
  <1>1. /\ claims' = claims \ {c} /\ UNCHANGED <<accepts, result>>
        /\ \A t \in Tasks \ {c.task} : task'[t] = task[t]
        /\ \A k \in Leases \ {l} : lease'[k] = lease[k]
        /\ attempt[l].status = "none"
    BY DEF ClaimCommit, TypeOK, LeaseInv, AttemptMatchesLease
  <1>2. \A d \in claims' : c.task \notin d.locks
    BY <1>1 DEF LeaseInv, ClaimExclusive
  <1>3. \A r \in accepts : result[r].lease \in Leases \ {l}
    BY <1>1 DEF LeaseInv, AcceptExclusive, TypeOK, ResultRow
  <1>4. QED
    BY <1>1, <1>2, <1>3, LocksQuiet

LEMMA LocksAccept ==
    ASSUME TypeOK, LockInv, NEW r \in Results, AcceptRead(r)
    PROVE  LockInv'
  <1>1. UNCHANGED <<task, lease, result, claims>> /\ accepts' = accepts \cup {r}
    BY DEF AcceptRead, rows
  <1>2. \A c \in claims : lease[result[r].lease].task \notin c.locks
    BY DEF AcceptRead, AcceptLockable, TaskLocked
  <1>3. QED
    BY <1>1, <1>2 DEF LockInv, LockedIsReady, AcceptsOutsideClaims

LEMMA LocksStep == TypeOK /\ LeaseInv /\ LockInv /\ [Next]_vars => LockInv'
  <1> SUFFICES ASSUME TypeOK, LeaseInv, LockInv, [Next]_vars PROVE LockInv'
    OBVIOUS
  <1>0. \A r \in accepts : result[r].lease \in Leases /\ result[r].state = "submitted"
    BY DEF TypeOK, ResultRow, LeaseInv, AcceptExclusive
  <1>1. ASSUME UNCHANGED <<task, lease, result>>, claims' \subseteq claims, accepts' \subseteq accepts
        PROVE  LockInv'
    BY <1>1, LocksQuiet
  <1>2. ASSUME NEW n \in renewals, RenewCommit(n) PROVE LockInv'
    <2>1. UNCHANGED <<task, result, claims, accepts>> /\ \A l \in Leases : lease'[l].task = lease[l].task
      BY <1>2 DEF RenewCommit, TypeOK, LeaseRow
    <2>2. QED
      BY <1>0, <2>1, LocksQuiet
  <1>3. ASSUME NEW s \in sweeps, NEW view, SweepCommit(s, view) PROVE LockInv'
    <2>1. UNCHANGED <<result, claims, accepts>> /\ \A l \in Leases : lease'[l].task = lease[l].task
      BY <1>3 DEF SweepCommit, TypeOK, LeaseRow
    <2>2. \A t \in Tasks : TaskLocked(t) => task'[t] = task[t]
      BY <1>3 DEF SweepCommit
    <2>3. QED
      BY <1>0, <2>1, <2>2, LocksQuiet DEF TaskLocked
  <1>4. ASSUME NEW S, NEW requeue, NEW now, CancelWrites(S, requeue, now),
               UNCHANGED <<result, claims, accepts>>
        PROVE  LockInv'
    <2>1. \A l \in Leases : lease'[l].task = lease[l].task
      BY <1>4 DEF CancelWrites, TypeOK, LeaseRow
    <2>2. \A t \in Tasks : TaskLocked(t) => task'[t] = task[t]
      BY <1>4 DEF CancelWrites
    <2>3. QED
      BY <1>0, <1>4, <2>1, <2>2, LocksQuiet DEF TaskLocked
  <1>5. ASSUME NEW r \in accepts, AcceptCommit(r) PROVE LockInv'
    <2>1. /\ claims' = claims /\ accepts' \subseteq accepts
          /\ \A l \in Leases : lease'[l].task = lease[l].task
          /\ \A t \in Tasks : t # lease[result[r].lease].task => task'[t] = task[t]
      BY <1>5 DEF AcceptCommit, TypeOK, LeaseRow
    <2>2. \A q \in accepts' : q # r /\ result'[q] = result[q]
      BY <1>5 DEF AcceptCommit, TypeOK
    <2>3. \A c \in claims : lease[result[r].lease].task \notin c.locks
      BY DEF LockInv, AcceptsOutsideClaims
    <2>4. QED
      BY <1>0, <2>1, <2>2, <2>3, LocksQuiet
  <1>6. ASSUME NEW g \in graphs, GraphCommit(g) PROVE LockInv'
    <2>1. UNCHANGED <<lease, result, claims, accepts>>
      BY <1>6 DEF GraphCommit
    <2>2. \A t \in Tasks : TaskLocked(t) => task'[t] = task[t]
      BY <1>6 DEF GraphCommit
    <2>3. QED
      BY <2>1, <2>2, LocksQuiet DEF TaskLocked
  <1>7. CASE WorkerNext
    <2>1. ASSUME NEW w \in Workers, ClaimScan(w) PROVE LockInv'
      BY <2>1, LocksClaimScan
    <2>2. CASE UNCHANGED <<task, lease, result, claims, accepts>>
      BY <1>1, <2>2
    <2>3. QED
      BY <1>7, <2>1, <2>2 DEF WorkerNext, Enroll, RotateMembershipToken, RevokeWorker, RequestDrain,
         Drain, Heartbeat, AdvertiseCapabilities, WorkerWrite, txs
  <1>8. CASE LeaseNext
    <2>1. ASSUME NEW l \in Leases, NEW extend \in Extensions, RenewRead(l, extend) PROVE LockInv'
      BY <1>1, <2>1 DEF RenewRead, rows
    <2>2. ASSUME NEW ps, SweepScan(ps) PROVE LockInv'
      BY <1>1, <2>2 DEF SweepScan, rows
    <2>3. ASSUME NEW l \in Leases, NEW requeue, CancelActiveLease(l, requeue) PROVE LockInv'
      BY <1>4, <2>3 DEF CancelActiveLease, txs
    <2>4. QED
      BY <1>2, <1>3, <1>8, <2>1, <2>2, <2>3, LocksClaimCommit DEF LeaseNext
  <1>9. CASE ResultNext
    <2>1. ASSUME NEW l, NEW r, NEW passed, SubmitResult(l, r, passed) PROVE LockInv'
      <3>1. UNCHANGED <<task, lease, claims, accepts>> /\ result[r].state = "none"
            /\ \A q \in Results : q # r => result'[q] = result[q]
        BY <2>1 DEF SubmitResult, txs, TypeOK
      <3>2. \A q \in accepts : result'[q] = result[q]
        BY <1>0, <3>1 DEF TypeOK
      <3>3. QED
        BY <3>1, <3>2, LocksQuiet
    <2>2. ASSUME NEW r \in Results, AcceptReject(r) PROVE LockInv'
      <3>1. /\ UNCHANGED <<task, lease, claims, accepts>>
            /\ \A q \in Results : result'[q].lease = result[q].lease
        BY <2>2 DEF AcceptReject, txs, TypeOK, ResultRow
      <3>2. QED
        BY <3>1, LocksQuiet DEF TypeOK
    <2>3. QED
      BY <1>5, <1>9, <2>1, <2>2, LocksAccept DEF ResultNext
  <1>10. CASE MissionNext
    <2>1. ASSUME NEW m, NEW notify, NEW terminal, NEW requeue, RevokeScan(m, notify, terminal, requeue)
          PROVE  LockInv'
      BY <1>1, <2>1 DEF RevokeScan, rows
    <2>2. ASSUME NEW v \in revokes, RevokeCommit(v) PROVE LockInv'
      BY <1>4, <2>2 DEF RevokeCommit
    <2>3. ASSUME NEW m, NEW spec, GraphRead(m, spec) PROVE LockInv'
      BY <1>1, <2>3 DEF GraphRead, rows
    <2>4. QED
      BY <1>6, <1>10, <2>1, <2>2, <2>3 DEF MissionNext
  <1>11. CASE Tick \/ Abort \/ UNCHANGED vars
    <2>1. UNCHANGED <<task, lease, result>> /\ claims' \subseteq claims /\ accepts' \subseteq accepts
      BY <1>11 DEF Tick, Abort, vars, rows, txs
    <2>2. QED
      BY <1>1, <2>1
  <1>12. QED
    BY <1>7, <1>8, <1>9, <1>10, <1>11 DEF Next

(* Only a graph commit moves revisions, and a graph transaction is of one mission. *)
LEMMA RevisionsStep ==
    ASSUME TypeOK, [Next]_vars
    PROVE  \/ \E g \in graphs : GraphCommit(g)
           \/ /\ \A t \in Tasks : task'[t].revision = task[t].revision
              /\ \A m \in Missions : mission'[m].revision = mission[m].revision
  <1> DEFINE Still == /\ \A t \in Tasks : task'[t].revision = task[t].revision
                      /\ \A m \in Missions : mission'[m].revision = mission[m].revision
  <1>1. CASE WorkerNext
    <2>1. UNCHANGED <<task, mission>>
      BY <1>1, TypeWorker DEF WorkerNext, WorkerWrite, ClaimScan, rows
    <2>2. QED
      BY <2>1
  <1>2. ASSUME NEW S, NEW requeue, NEW now, CancelWrites(S, requeue, now)
        PROVE  \A t \in Tasks : task'[t].revision = task[t].revision
    BY <1>2 DEF CancelWrites, TypeOK, TaskRow
  <1>3. CASE LeaseNext
    <2>1. UNCHANGED mission
      BY <1>3 DEF LeaseNext, ClaimCommit, RenewRead, RenewCommit, SweepScan, SweepCommit,
         CancelActiveLease, rows
    <2>2. ASSUME NEW c \in claims, NEW l \in Leases, ClaimCommit(c, l)
          PROVE  \A t \in Tasks : task'[t].revision = task[t].revision
      BY <2>2 DEF ClaimCommit, TypeOK, TaskRow
    <2>3. ASSUME NEW s \in sweeps, NEW view, SweepCommit(s, view)
          PROVE  \A t \in Tasks : task'[t].revision = task[t].revision
      BY <2>3 DEF SweepCommit, TypeOK, TaskRow
    <2>4. ASSUME NEW l \in Leases, NEW requeue, CancelActiveLease(l, requeue)
          PROVE  \A t \in Tasks : task'[t].revision = task[t].revision
      BY <1>2, <2>4 DEF CancelActiveLease
    <2>5. QED
      BY <1>3, <2>1, <2>2, <2>3, <2>4 DEF LeaseNext, RenewRead, RenewCommit, SweepScan, rows
  <1>4. CASE ResultNext
    <2>1. UNCHANGED mission
      BY <1>4 DEF ResultNext, SubmitResult, AcceptRead, AcceptReject, AcceptCommit, rows
    <2>2. ASSUME NEW r \in accepts, AcceptCommit(r)
          PROVE  \A t \in Tasks : task'[t].revision = task[t].revision
      BY <2>2 DEF AcceptCommit, TypeOK, TaskRow
    <2>3. QED
      BY <1>4, <2>1, <2>2 DEF ResultNext, SubmitResult, AcceptRead, AcceptReject, rows
  <1>5. ASSUME NEW v \in revokes, RevokeCommit(v) PROVE Still
    <2>1. \A m \in Missions : mission'[m].revision = mission[m].revision
      BY <1>5 DEF RevokeCommit, TypeOK, MissionRow
    <2>2. QED
      BY <1>2, <1>5, <2>1 DEF RevokeCommit
  <1>6. CASE MissionNext
    BY <1>5, <1>6 DEF MissionNext, RevokeScan, GraphRead, rows
  <1>7. CASE Tick \/ Abort \/ UNCHANGED vars
    BY <1>7 DEF Tick, Abort, vars, rows
  <1>8. QED
    BY <1>1, <1>3, <1>4, <1>6, <1>7 DEF Next

LEMMA GraphsStep == TypeOK /\ GraphsOfOneMission /\ [Next]_vars => GraphsOfOneMission'
  <1> SUFFICES ASSUME TypeOK, GraphsOfOneMission, [Next]_vars PROVE GraphsOfOneMission'
    OBVIOUS
  <1>1. ASSUME graphs' \subseteq graphs PROVE GraphsOfOneMission'
    BY <1>1 DEF GraphsOfOneMission
  <1>2. ASSUME NEW m, NEW spec, GraphRead(m, spec) PROVE GraphsOfOneMission'
    BY <1>2 DEF GraphRead, GraphsOfOneMission
  <1>3. CASE WorkerNext
    BY <1>1, <1>3, TypeWorker DEF WorkerNext, WorkerWrite, ClaimScan, txs
  <1>4. CASE LeaseNext
    BY <1>1, <1>4 DEF LeaseNext, ClaimCommit, RenewRead, RenewCommit, SweepScan, SweepCommit,
       CancelActiveLease, txs
  <1>5. CASE ResultNext
    BY <1>1, <1>5 DEF ResultNext, SubmitResult, AcceptRead, AcceptReject, AcceptCommit, txs
  <1>6. CASE MissionNext
    BY <1>1, <1>2, <1>6 DEF MissionNext, RevokeScan, RevokeCommit, GraphCommit
  <1>7. CASE Tick \/ Abort \/ UNCHANGED vars
    BY <1>1, <1>7 DEF Tick, Abort, vars, txs
  <1>8. QED
    BY <1>3, <1>4, <1>5, <1>6, <1>7 DEF Next

(* What a graph commit does to the tasks of other missions, and to its own mission. *)
LEMMA GraphCommitMoves ==
    ASSUME TypeOK, GraphsOfOneMission, NEW g \in graphs, GraphCommit(g)
    PROVE  /\ g.mission \in Missions
           /\ mission'[g.mission].revision = mission[g.mission].revision + 1
           /\ \A m \in Missions : m # g.mission => mission'[m] = mission[m]
           /\ \A t \in Tasks : MissionOf[t] # g.mission => task'[t] = task[t]
           /\ UNCHANGED <<lease, attempt, claims, sweeps>>
  <1>1. g \in GraphTx
    BY DEF TypeOK
  <1>2. QED
    BY <1>1 DEF GraphCommit, GraphTx, GraphsOfOneMission, TypeOK, MissionRow

LEMMA StampsSawStep ==
    ASSUME TypeOK, LeaseInv, StampsNotAhead, GraphsOfOneMission, StampsSawDependencies, [Next]_vars
    PROVE  StampsSawDependencies'
  <1>0. /\ \A c \in claims : c.task \in Tasks /\ c.revision \in Nat /\ MissionOf[c.task] \in Missions
        /\ \A l \in Leases : lease[l].task \in Tasks /\ lease[l].revision \in Nat /\ LeaseMission(l) \in Missions
        /\ \A t \in Tasks : DependsOn[t] \subseteq Tasks /\ MissionOf[t] \in Missions
        /\ \A m \in Missions : mission[m].revision \in Nat
    BY RowAssumption DEF TypeOK, ClaimTx, LeaseRow, LeaseMission, MissionRow
  <1>1. ASSUME NEW g \in graphs, GraphCommit(g) PROVE StampsSawDependencies'
    <2>1. /\ g.mission \in Missions
          /\ mission'[g.mission].revision = mission[g.mission].revision + 1
          /\ \A m \in Missions : m # g.mission => mission'[m] = mission[m]
          /\ \A t \in Tasks : MissionOf[t] # g.mission => task'[t] = task[t]
          /\ UNCHANGED <<lease, claims>>
      BY <1>1, GraphCommitMoves
    <2>2. ASSUME NEW t \in Tasks, NEW n \in Nat, n <= mission[MissionOf[t]].revision,
                 n = mission'[MissionOf[t]].revision,
                 n = mission[MissionOf[t]].revision => DependenciesOfRevision(t, n)
          PROVE  DependenciesOfRevision(t, n)'
      <3>1. MissionOf[t] # g.mission
        BY <1>0, <2>1, <2>2
      <3>2. DependenciesOfRevision(t, n)
        BY <1>0, <2>1, <2>2, <3>1
      <3>3. QED
        BY <1>0, <2>1, <3>1, <3>2 DEF DependenciesOfRevision
    <2>3. ASSUME NEW c \in claims', c.revision = mission'[MissionOf[c.task]].revision
          PROVE  DependenciesOfRevision(c.task, c.revision)'
      <3>1. PICK t \in Tasks, n \in Nat : t = c.task /\ n = c.revision
        BY <1>0, <2>1
      <3>2. n <= mission[MissionOf[t]].revision
        BY <2>1, <3>1 DEF StampsNotAhead
      <3>3. n = mission[MissionOf[t]].revision => DependenciesOfRevision(t, n)
        BY <2>1, <3>1 DEF StampsSawDependencies
      <3>4. DependenciesOfRevision(t, n)'
        BY <2>2, <2>3, <3>1, <3>2, <3>3
      <3>5. QED
        BY <3>1, <3>4 DEF DependenciesOfRevision
    <2>4. ASSUME NEW l \in Leases, lease'[l].state # "none",
                 lease'[l].revision = mission'[MissionOf[lease'[l].task]].revision
          PROVE  \A d \in DependsOn[lease'[l].task] :
                    MissionOf[d] = MissionOf[lease'[l].task] /\ task'[d].revision = lease'[l].revision
      <3>1. PICK t \in Tasks, n \in Nat : t = lease[l].task /\ n = lease[l].revision
        BY <1>0
      <3>2. n <= mission[MissionOf[t]].revision
        BY <2>1, <2>4, <3>1 DEF StampsNotAhead, LeaseMission
      <3>3. n = mission[MissionOf[t]].revision => DependenciesOfRevision(t, n)
        BY <2>1, <2>4, <3>1 DEF StampsSawDependencies, LeaseMission
      <3>4. DependenciesOfRevision(t, n)'
        BY <2>1, <2>2, <2>4, <3>1, <3>2, <3>3
      <3>5. QED
        BY <2>1, <3>1, <3>4 DEF DependenciesOfRevision
    <2>5. QED
      BY <2>3, <2>4 DEF StampsSawDependencies, LeaseMission, DependenciesOfRevision
  <1>2. ASSUME \A t \in Tasks : task'[t].revision = task[t].revision,
               \A m \in Missions : mission'[m].revision = mission[m].revision
        PROVE  StampsSawDependencies'
    <2>1. StampsFixed /\ Insertions
      BY StampsFixedStep, InsertionsStep
    <2>2. ASSUME NEW t \in Tasks, NEW n, DependenciesOfRevision(t, n)
          PROVE  \A d \in DependsOn[t] : MissionOf[d] = MissionOf[t] /\ task'[d].revision = n
      BY <1>0, <1>2, <2>2 DEF DependenciesOfRevision
    <2>3. ASSUME NEW c \in claims', c.revision = mission'[MissionOf[c.task]].revision
          PROVE  \A d \in DependsOn[c.task] : MissionOf[d] = MissionOf[c.task] /\ task'[d].revision = c.revision
      <3>1. CASE c \in claims
        BY <1>0, <1>2, <2>2, <2>3, <3>1 DEF StampsSawDependencies
      <3>2. CASE c \notin claims
        <4>1. PICK w \in Workers : ClaimScan(w)
          BY <2>1, <2>3, <3>2 DEF Insertions
        <4>2. c.task \in Tasks /\ c.revision = task[c.task].revision /\ EligibleFor(w, c.task)
          BY <2>3, <3>2, <4>1 DEF ClaimScan
        <4>3. DependenciesOfRevision(c.task, c.revision)
          BY <4>2 DEF EligibleFor, DependenciesSatisfied, DependenciesOfRevision
        <4>4. QED
          BY <2>2, <4>2, <4>3
      <3>3. QED
        BY <3>1, <3>2
    <2>4. ASSUME NEW l \in Leases, lease'[l].state # "none",
                 lease'[l].revision = mission'[MissionOf[lease'[l].task]].revision
          PROVE  \A d \in DependsOn[lease'[l].task] :
                    MissionOf[d] = MissionOf[lease'[l].task] /\ task'[d].revision = lease'[l].revision
      <3>1. CASE lease[l].state # "none"
        <4>1. lease'[l].task = lease[l].task /\ lease'[l].revision = lease[l].revision
          BY <2>1, <3>1 DEF StampsFixed
        <4>2. DependenciesOfRevision(lease[l].task, lease[l].revision)
          BY <1>0, <1>2, <2>4, <3>1, <4>1 DEF StampsSawDependencies, LeaseMission
        <4>3. QED
          BY <1>0, <2>2, <4>1, <4>2
      <3>2. CASE lease[l].state = "none"
        <4>1. PICK c \in claims : ClaimCommit(c, l)
          BY <2>1, <2>4, <3>2 DEF Insertions
        <4>2. lease'[l].task = c.task /\ lease'[l].revision = c.revision
          BY <4>1 DEF ClaimCommit, TypeOK
        <4>3. DependenciesOfRevision(c.task, c.revision)
          BY <1>0, <1>2, <2>4, <4>2 DEF StampsSawDependencies
        <4>4. QED
          BY <1>0, <2>2, <4>2, <4>3
      <3>3. QED
        BY <3>1, <3>2
    <2>5. QED
      BY <2>3, <2>4 DEF StampsSawDependencies, LeaseMission, DependenciesOfRevision
  <1>3. QED
    BY <1>1, <1>2, RevisionsStep

(* Who takes a finished task back. *)
LEMMA DoneTaken ==
    ASSUME TypeOK, LeaseInv, LockInv, [Next]_vars, NEW d \in Tasks,
           task[d].status \in DependencyDone, task'[d].status \notin DependencyDone
    PROVE  \/ \E s \in sweeps \ sweeps' : s.tasks[d].status = "leased"
           \/ \E g \in graphs : GraphCommit(g)
  <1>0. task'[d] # task[d]
    OBVIOUS
  <1>1. ASSUME NEW c \in claims, NEW l \in Leases, ClaimCommit(c, l) PROVE FALSE
    <2>1. d # c.task => task'[d] = task[d]
      BY <1>1 DEF ClaimCommit, TypeOK
    <2>2. task[c.task].status = "ready"
      BY DEF LeaseInv, ClaimExclusive, LockInv, LockedIsReady
    <2>3. QED
      BY <1>0, <2>1, <2>2 DEF DependencyDone
  <1>2. ASSUME NEW s \in sweeps, NEW view, SweepCommit(s, view)
        PROVE  s \in sweeps \ sweeps' /\ s.tasks[d].status = "leased"
    BY <1>0, <1>2 DEF SweepCommit
  <1>3. ASSUME NEW S, NEW requeue, NEW now, CancelWrites(S, requeue, now) PROVE FALSE
    BY <1>0, <1>3 DEF CancelWrites, DependencyDone
  <1>4. ASSUME NEW r \in accepts, AcceptCommit(r) PROVE FALSE
    BY <1>0, <1>4 DEF AcceptCommit, TypeOK, TaskRow, DependencyDone
  <1>5. ~WorkerNext
    BY <1>0, TypeWorker DEF WorkerNext, WorkerWrite, ClaimScan, rows
  <1>6. ~ResultNext
    BY <1>0, <1>4 DEF ResultNext, SubmitResult, AcceptRead, AcceptReject, rows
  <1>7. CASE LeaseNext
    BY <1>0, <1>1, <1>2, <1>3, <1>7 DEF LeaseNext, RenewRead, RenewCommit, SweepScan,
       CancelActiveLease, rows
  <1>8. CASE MissionNext
    BY <1>0, <1>3, <1>8 DEF MissionNext, RevokeScan, RevokeCommit, GraphRead, rows
  <1>9. ~(Tick \/ Abort \/ UNCHANGED vars)
    BY <1>0 DEF Tick, Abort, vars, rows
  <1>10. QED
    BY <1>5, <1>6, <1>7, <1>8, <1>9 DEF Next

(* All of it holds together. *)
LEMMA DependencyAlways == Spec => [](TypeOK /\ LeaseInv /\ StampsNotAhead /\ DependencyInv)
  <1> DEFINE Inv == TypeOK /\ LeaseInv /\ StampsNotAhead /\ DependencyInv
  <1>1. Init => DependencyInv
    BY DependencyInit
  <1>2. Inv /\ [Next]_vars => DependencyInv'
    BY LocksStep, GraphsStep, StampsSawStep DEF DependencyInv
  <1>3. QED
    BY <1>1, <1>2, TypeCorrect, LeaseInvAlways, StampsAlways, PTL DEF Spec

(* Work at the current revision was under way before the step, or a claim has just   *)
(* started it with every dependency done: stamps never run ahead of their mission.   *)
LEMMA WorkBegins ==
    ASSUME TypeOK, TypeOK', LeaseInv, LeaseInv', StampsNotAhead, [Next]_vars,
           NEW t \in Tasks, WorkedOn(t)', ~WorkedOn(t)
    PROVE  /\ UNCHANGED task
           /\ \A d \in DependsOn[t] : task[d].status \in DependencyDone
  <1>0. /\ MissionOf[t] \in Missions
        /\ mission[MissionOf[t]].revision \in Nat /\ mission'[MissionOf[t]].revision \in Nat
        /\ mission[MissionOf[t]].revision <= mission'[MissionOf[t]].revision
    BY RowAssumption, AuthorityGrowsStep DEF AuthorityGrows, TypeOK, MissionRow
  <1>1. ASSUME NEW c \in claims, c.task = t, c.revision = mission'[MissionOf[t]].revision
        PROVE  FALSE
    <2>1. c.revision <= mission[MissionOf[t]].revision
      BY <1>1 DEF StampsNotAhead
    <2>2. c.revision = mission[MissionOf[t]].revision
      BY <1>0, <1>1, <2>1
    <2>3. QED
      BY <1>1, <2>2 DEF WorkedOn
  <1>2. ASSUME NEW l \in Leases, attempt'[l].status = "leased", lease'[l].task = t,
               lease'[l].revision = mission'[MissionOf[t]].revision
        PROVE  FALSE
    <2>1. lease'[l].state # "none"
      BY <1>2 DEF LeaseInv, AttemptMatchesLease
    <2>2. CASE lease[l].state = "none"
      <3>1. PICK c \in claims : ClaimCommit(c, l)
        BY <2>1, <2>2, InsertionsStep DEF Insertions
      <3>2. lease'[l].task = c.task /\ lease'[l].revision = c.revision
        BY <3>1 DEF ClaimCommit, TypeOK
      <3>3. QED
        BY <1>1, <1>2, <3>2
    <2>3. CASE lease[l].state # "none"
      <3>1. lease[l].task = t /\ lease[l].revision = lease'[l].revision
        BY <1>2, <2>3, StampsFixedStep DEF StampsFixed
      <3>2. lease[l].revision <= mission[MissionOf[t]].revision
        BY <2>3, <3>1 DEF StampsNotAhead, LeaseMission
      <3>3. lease[l].revision = mission[MissionOf[t]].revision
        BY <1>0, <1>2, <3>1, <3>2
      <3>4. attempt[l].status \in AttemptStatuses \ {"none"}
        BY <2>3 DEF LeaseInv, AttemptMatchesLease, TypeOK, AttemptRow
      <3>5. attempt[l].status = "leased"
        BY <1>2, <3>4, AttemptStepsStep DEF AttemptSteps, TerminalAttempt
      <3>6. QED
        BY <3>1, <3>3, <3>5 DEF WorkedOn
    <2>4. QED
      BY <2>2, <2>3
  <1>3. PICK c \in claims' : c.task = t /\ c.revision = mission'[MissionOf[t]].revision
    BY <1>2 DEF WorkedOn
  <1>4. PICK w \in Workers : ClaimScan(w)
    BY <1>1, <1>3, InsertionsStep DEF Insertions
  <1>5. EligibleFor(w, t)
    BY <1>1, <1>3, <1>4 DEF ClaimScan
  <1>6. QED
    BY <1>4, <1>5 DEF ClaimScan, rows, EligibleFor, DependenciesSatisfied

(* _dependencies_satisfied against graph commits, claims, cancellations and accepts:   *)
(* work at the current revision starts on finished dependencies of that revision, and  *)
(* only a sweep that read one of them leased takes it back while the work lasts.       *)
THEOREM DependenciesAreKept == Spec => WorkKeepsDependencies
  <1> DEFINE Kept == \A t \in Tasks : WorkedOn(t)' => \A d \in DependsOn[t] :
                       /\ task'[d].revision = mission'[MissionOf[t]].revision
                       /\ \/ task'[d].status \in DependencyDone
                          \/ WorkedOn(t) /\ task[d].status \notin DependencyDone
                          \/ \E s \in sweeps \ sweeps' : s.tasks[d].status = "leased"
             Inv == TypeOK /\ LeaseInv /\ StampsNotAhead /\ DependencyInv
  <1>1. Inv /\ Inv' /\ [Next]_vars => [Kept]_vars
    <2> SUFFICES ASSUME Inv, Inv', Next, NEW t \in Tasks, WorkedOn(t)', NEW d \in DependsOn[t]
                 PROVE  /\ task'[d].revision = mission'[MissionOf[t]].revision
                        /\ \/ task'[d].status \in DependencyDone
                           \/ WorkedOn(t) /\ task[d].status \notin DependencyDone
                           \/ \E s \in sweeps \ sweeps' : s.tasks[d].status = "leased"
      OBVIOUS
    <2>1. d \in Tasks /\ MissionOf[d] \in Missions
      BY RowAssumption
    <2>2. MissionOf[d] = MissionOf[t] /\ task'[d].revision = mission'[MissionOf[t]].revision
      <3>1. CASE \E c \in claims' : c.task = t /\ c.revision = mission'[MissionOf[t]].revision
        BY <3>1 DEF DependencyInv, StampsSawDependencies, DependenciesOfRevision
      <3>2. ASSUME NEW l \in Leases, attempt'[l].status = "leased", lease'[l].task = t,
                   lease'[l].revision = mission'[MissionOf[t]].revision
            PROVE  MissionOf[d] = MissionOf[t] /\ task'[d].revision = mission'[MissionOf[t]].revision
        <4>1. lease'[l].state # "none"
          BY <3>2 DEF LeaseInv, AttemptMatchesLease
        <4>2. QED
          BY <3>2, <4>1 DEF DependencyInv, StampsSawDependencies, LeaseMission, DependenciesOfRevision
      <3>3. QED
        BY <3>1, <3>2 DEF WorkedOn
    <2>3. WorkedOn(t) \/ (UNCHANGED task /\ task[d].status \in DependencyDone)
      BY WorkBegins
    <2>4. ASSUME NEW g \in graphs, GraphCommit(g), task'[d] # task[d] PROVE FALSE
      <3>1. /\ mission'[g.mission].revision = mission[g.mission].revision + 1
            /\ MissionOf[t] = g.mission /\ UNCHANGED <<lease, claims, attempt>>
        BY <2>1, <2>2, <2>4, GraphCommitMoves DEF DependencyInv
      <3>2. mission[g.mission].revision \in Nat
        BY <2>1, <2>2, <3>1 DEF TypeOK, MissionRow
      <3>3. ASSUME NEW c \in claims, c.task = t, c.revision = mission'[MissionOf[t]].revision PROVE FALSE
        BY <3>1, <3>2, <3>3 DEF StampsNotAhead
      <3>4. ASSUME NEW l \in Leases, attempt[l].status = "leased", lease[l].task = t,
                   lease[l].revision = mission'[MissionOf[t]].revision
            PROVE  FALSE
        <4>1. lease[l].state # "none"
          BY <3>4 DEF LeaseInv, AttemptMatchesLease
        <4>2. lease[l].revision <= mission[g.mission].revision
          BY <3>1, <3>4, <4>1 DEF StampsNotAhead, LeaseMission
        <4>3. QED
          BY <3>1, <3>2, <3>4, <4>2
      <3>5. QED
        BY <3>1, <3>3, <3>4 DEF WorkedOn
    <2>5. QED
      BY <2>1, <2>2, <2>3, <2>4, DoneTaken DEF DependencyInv
  <1>2. QED
    BY <1>1, DependencyAlways, PTL DEF Spec, WorkKeepsDependencies

--------------------------------------------------------------------------------
(* The worker clients.  Every step of the protocol is a step of the rows, or leaves *)
(* them alone, so what was proved of the rows holds under the protocol.            *)

(* A client's request reaches the rows as one of the handlers LeaseFencing has.    *)
LEMMA ProtocolIsRows == [ProtocolNext]_protocolVars => [Next]_vars
  <1> SUFFICES ASSUME ProtocolNext PROVE [Next]_vars
    BY DEF protocolVars
  <1>1. CASE Next /\ UNCHANGED clients
    BY <1>1
  <1>2. ASSUME NEW w \in Workers, NEW p \in Projects, NEW caps \in SUBSET Caps,
               ClientEnroll(w, p, caps)
        PROVE  Next
    BY <1>2 DEF ClientEnroll, Next, WorkerNext
  <1>3. ASSUME NEW w \in Workers, ClientHeartbeat(w) PROVE [Next]_vars
    BY <1>3 DEF ClientHeartbeat, RowsStay, Next, WorkerNext
  <1>4. ASSUME NEW w \in Workers, ClientDrain(w) PROVE Next
    BY <1>4 DEF ClientDrain, Next, WorkerNext
  <1>5. ASSUME NEW w \in Workers, ClientReconnect(w) \/ ClientRestart(w) PROVE UNCHANGED vars
    BY <1>5 DEF ClientReconnect, ClientRestart, RowsStay
  <1>6. ASSUME NEW w \in Workers, NEW caps \in SUBSET Caps, ClientAdvertise(w, caps) PROVE Next
    BY <1>6 DEF ClientAdvertise, Next, WorkerNext
  <1>7. ASSUME NEW w \in Workers, NEW l \in Leases, ClientCancelLease(w, l) PROVE Next
    BY <1>7 DEF ClientCancelLease, Next, LeaseNext
  <1>8. ASSUME NEW w \in Workers, NEW l \in Leases, NEW extend \in Extensions,
               ClientRenew(w, l, extend)
        PROVE  Next
    BY <1>8 DEF ClientRenew, Next, LeaseNext
  <1>9. ASSUME NEW w \in Workers, NEW l \in Leases, NEW r \in Results, NEW passed \in BOOLEAN,
               ClientSubmitResult(w, l, r, passed)
        PROVE  Next
    BY <1>9 DEF ClientSubmitResult, Next, ResultNext
  <1>10. ASSUME NEW c \in claims, NEW l \in Leases, ClientClaim(c, l) PROVE Next
    BY <1>10 DEF ClientClaim, Next, LeaseNext
  <1>11. QED
    BY <1>1, <1>2, <1>3, <1>4, <1>5, <1>6, <1>7, <1>8, <1>9, <1>10 DEF ProtocolNext, ClientNext

(* So the invariants of the rows are the protocol's too. *)
RowInv == TypeOK /\ LeaseInv /\ StampsNotAhead

LEMMA RowsAlways == ProtocolSpec => []RowInv
  <1>1. ProtocolInit => RowInv
    <2>1. Init => StampsNotAhead
      BY DEF Init, StampsNotAhead
    <2>2. QED
      BY <2>1, TypeInit, LeaseInvInit DEF ProtocolInit, RowInv
  <1>2. RowInv /\ [ProtocolNext]_protocolVars => RowInv'
    BY ProtocolIsRows, TypeStep, LeaseInvStep, StampsStep DEF RowInv
  <1>3. QED
    BY <1>1, <1>2, PTL DEF ProtocolSpec

(* What a client believes of its leases, as far as the rows can outrun it: they were *)
(* its worker's, at generations no newer than its credentials.                     *)
ClientKnows(w) ==
    /\ clients[w].generation <= worker[w].generation
    /\ \A l \in clients[w].leases :
          /\ lease[l].state # "none" /\ lease[l].worker = w
          /\ lease[l].generation <= clients[w].generation

ClientInv == clients \in [Workers -> Client] /\ \A w \in Workers : ClientKnows(w)

(* A client that keeps its generation and gains no lease knows nothing wrong,      *)
(* whatever the rows do: they only move on.                                        *)
LEMMA ClientForgets ==
    ASSUME RowInv, RowInv', ClientInv, [Next]_vars, NEW w \in Workers,
           clients'[w].generation = clients[w].generation,
           clients'[w].leases \subseteq clients[w].leases
    PROVE  ClientKnows(w)'
  <1>1. StampsFixed /\ AuthorityGrows
    BY StampsFixedStep, AuthorityGrowsStep DEF RowInv
  <1>2. clients[w].generation \in Nat /\ worker[w].generation \in Nat /\ worker'[w].generation \in Nat
        /\ clients[w].leases \subseteq Leases
    BY DEF RowInv, ClientInv, Client, TypeOK, WorkerRow
  <1>3. clients'[w].generation <= worker'[w].generation
    BY <1>1, <1>2 DEF AuthorityGrows, ClientInv, ClientKnows
  <1>4. ASSUME NEW l \in clients'[w].leases
        PROVE  /\ lease'[l].state # "none" /\ lease'[l].worker = w
               /\ lease'[l].generation <= clients'[w].generation
    BY <1>1, <1>2, <1>4 DEF StampsFixed, ClientInv, ClientKnows
  <1>5. QED
    BY <1>3, <1>4 DEF ClientKnows

(* An answer that lists the active leases of the rows gives a client with current  *)
(* credentials leases of its worker, stamped no later than now.                    *)
LEMMA ClientLearns ==
    ASSUME RowInv, ClientInv, NEW w \in Workers, Current(w),
           lease' = lease, worker'[w].generation = worker[w].generation,
           Believes(w, ActiveLeaseIds(w))
    PROVE  ClientKnows(w)'
  <1>1. /\ clients'[w].generation = clients[w].generation
        /\ clients'[w].leases = ActiveLeaseIds(w)
    BY DEF Believes, ClientInv, Client
  <1>2. clients[w].generation = worker[w].generation /\ worker[w].generation \in Nat
    BY DEF Current, RowInv, TypeOK, WorkerRow
  <1>3. ASSUME NEW l \in ActiveLeaseIds(w)
        PROVE  /\ lease[l].state # "none" /\ lease[l].worker = w
               /\ lease[l].generation <= worker[w].generation
    BY <1>3 DEF ActiveLeaseIds, Active, ActiveLeaseStates, RowInv, StampsNotAhead
  <1>4. QED
    BY <1>1, <1>2, <1>3 DEF ClientKnows

(* Every request, answered or not, leaves what the clients believe sound.          *)
LEMMA ClientStep ==
    RowInv /\ RowInv' /\ ClientInv /\ [ProtocolNext]_protocolVars => ClientInv'
  <1> SUFFICES ASSUME RowInv, RowInv', ClientInv, [ProtocolNext]_protocolVars PROVE ClientInv'
    OBVIOUS
  <1>0. [Next]_vars
    BY ProtocolIsRows
  <1>1. CASE UNCHANGED clients
    <2>1. \A w \in Workers : ClientKnows(w)'
      BY <1>0, <1>1, ClientForgets
    <2>2. QED
      BY <1>1, <2>1 DEF ClientInv
  <1>2. ASSUME NEW w \in Workers, NEW S \in SUBSET Leases, Believes(w, S), ClientKnows(w)'
        PROVE  ClientInv'
    <2>1. clients' \in [Workers -> Client]
      BY <1>2 DEF Believes, ClientInv, Client
    <2>2. ASSUME NEW v \in Workers, v # w PROVE ClientKnows(v)'
      <3>1. clients'[v] = clients[v]
        BY <1>2, <2>2 DEF Believes, ClientInv
      <3>2. QED
        BY <1>0, <3>1, ClientForgets
    <2>3. QED
      BY <1>2, <2>1, <2>2 DEF ClientInv
  <1>3. ASSUME NEW w \in Workers, NEW S \in SUBSET clients[w].leases, Believes(w, S)
        PROVE  ClientInv'
    <2>1. /\ clients'[w].generation = clients[w].generation /\ clients'[w].leases = S
          /\ S \in SUBSET Leases
      BY <1>3 DEF Believes, ClientInv, Client
    <2>2. ClientKnows(w)'
      BY <1>0, <2>1, ClientForgets
    <2>3. QED
      BY <1>2, <1>3, <2>1, <2>2
  <1>4. ASSUME NEW w \in Workers, NEW p \in Projects, NEW caps \in SUBSET Caps,
               ClientEnroll(w, p, caps)
        PROVE  ClientInv'
    <2>1. /\ lease' = lease /\ worker'[w].generation = worker[w].generation + 1
          /\ worker[w].generation \in Nat
      BY <1>4 DEF ClientEnroll, Enroll, WorkerWrite, RowInv, TypeOK, WorkerRow
    <2>2. /\ clients' \in [Workers -> Client]
          /\ clients'[w].generation = worker[w].generation + 1
          /\ clients'[w].leases = clients[w].leases
          /\ \A v \in Workers : v # w => clients'[v] = clients[v]
      BY <1>4, <2>1 DEF ClientEnroll, ClientInv, Client
    <2>3. clients[w].generation \in Nat /\ clients[w].leases \subseteq Leases
      BY DEF ClientInv, Client
    <2>4. \A l \in Leases : lease[l].generation \in Nat
      BY DEF RowInv, TypeOK, LeaseRow
    <2>5. ClientKnows(w)'
      BY <2>1, <2>2, <2>3, <2>4 DEF ClientInv, ClientKnows
    <2>6. ASSUME NEW v \in Workers, v # w PROVE ClientKnows(v)'
      BY <1>0, <2>2, <2>6, ClientForgets
    <2>7. QED
      BY <2>2, <2>5, <2>6 DEF ClientInv
  <1>5. \A w \in Workers : ActiveLeaseIds(w) \in SUBSET Leases
    BY DEF ActiveLeaseIds
  <1>6. ASSUME NEW w \in Workers, ClientHeartbeat(w) PROVE ClientInv'
    <2>1. lease' = lease /\ worker'[w].generation = worker[w].generation
      BY <1>6 DEF ClientHeartbeat, Heartbeat, WorkerWrite, RowsStay, vars, rows, RowInv, TypeOK, WorkerRow
    <2>2. QED
      BY <1>2, <1>5, <1>6, <2>1, ClientLearns DEF ClientHeartbeat
  <1>7. ASSUME NEW w \in Workers, ClientDrain(w) PROVE ClientInv'
    <2>1. lease' = lease /\ worker'[w].generation = worker[w].generation
      BY <1>7 DEF ClientDrain, Drain, WorkerWrite, RowInv, TypeOK, WorkerRow
    <2>2. QED
      BY <1>2, <1>5, <1>7, <2>1, ClientLearns DEF ClientDrain
  <1>8. ASSUME NEW w \in Workers, ClientReconnect(w) PROVE ClientInv'
    <2>1. lease' = lease /\ worker'[w].generation = worker[w].generation
      BY <1>8 DEF ClientReconnect, RowsStay, vars, rows
    <2>2. QED
      BY <1>2, <1>5, <1>8, <2>1, ClientLearns DEF ClientReconnect
  <1>9. ASSUME NEW w \in Workers, ClientRestart(w) PROVE ClientInv'
    BY <1>3, <1>9 DEF ClientRestart
  <1>10. ASSUME NEW w \in Workers, NEW l \in Leases, ClientCancelLease(w, l) PROVE ClientInv'
    BY <1>3, <1>10 DEF ClientCancelLease
  <1>11. ASSUME NEW c \in claims, NEW l \in Leases, ClientClaim(c, l) PROVE ClientInv'
    <2>1. c \in ClaimTx
      BY <1>11 DEF RowInv, TypeOK
    <2> DEFINE w == c.worker
               S == clients[w].leases \cup {l}
    <2>2. w \in Workers /\ c.generation \in Nat
      BY <2>1 DEF ClaimTx
    <2>3. S \in SUBSET Leases /\ clients[w].generation \in Nat
      BY <2>2 DEF ClientInv, Client
    <2>4. /\ worker' = worker /\ lease'[l].state = "active"
          /\ lease'[l].worker = w /\ lease'[l].generation = c.generation
          /\ \A k \in Leases : k # l => lease'[k] = lease[k]
      BY <1>11 DEF ClientClaim, ClaimCommit, RowInv, TypeOK
    <2>5. clients'[w].leases = S /\ clients'[w].generation = clients[w].generation
      BY <1>11, <2>2 DEF ClientClaim, Believes, ClientInv, Client
    <2>6. c.generation = worker[w].generation /\ clients[w].generation = worker[w].generation
      BY <1>11 DEF ClientClaim, Current
    <2>7. ASSUME NEW k \in S
          PROVE  /\ lease'[k].state # "none" /\ lease'[k].worker = w
                 /\ lease'[k].generation <= clients'[w].generation
      <3>1. CASE k = l
        BY <2>2, <2>4, <2>5, <2>6, <3>1
      <3>2. CASE k # l
        BY <2>2, <2>3, <2>4, <2>5, <2>7, <3>2 DEF ClientInv, ClientKnows
      <3>3. QED
        BY <3>1, <3>2
    <2>8. ClientKnows(w)'
      BY <2>2, <2>3, <2>4, <2>5, <2>6, <2>7 DEF ClientKnows
    <2>9. Believes(w, S)
      BY <1>11 DEF ClientClaim
    <2>10. QED
      BY <1>2, <2>2, <2>3, <2>8, <2>9
  <1>12. CASE ClientNext
    <2>1. ASSUME NEW w \in Workers, NEW caps \in SUBSET Caps, ClientAdvertise(w, caps)
          PROVE  UNCHANGED clients
      BY <2>1 DEF ClientAdvertise
    <2>2. ASSUME NEW w \in Workers, NEW l \in Leases, NEW extend \in Extensions,
                 ClientRenew(w, l, extend)
          PROVE  UNCHANGED clients
      BY <2>2 DEF ClientRenew
    <2>3. ASSUME NEW w \in Workers, NEW l \in Leases, NEW r \in Results, NEW passed \in BOOLEAN,
                 ClientSubmitResult(w, l, r, passed)
          PROVE  UNCHANGED clients
      BY <2>3 DEF ClientSubmitResult
    <2>4. QED
      BY <1>1, <1>4, <1>6, <1>7, <1>8, <1>9, <1>10, <1>11, <1>12, <2>1, <2>2, <2>3 DEF ClientNext
  <1>13. QED
    BY <1>1, <1>12 DEF ProtocolNext, protocolVars

(* However many answers are lost, a client whose credentials were replaced holds   *)
(* no lease whose result accept_result would still take.                           *)
THEOREM ReplacedClientsAreFenced == ProtocolSpec => []ReplacedClientHoldsNothing
  <1>1. ProtocolInit => ClientInv
    BY DEF ProtocolInit, Init, ClientInv, ClientKnows, Client
  <1>2. RowInv /\ ClientInv => ReplacedClientHoldsNothing
    <2> SUFFICES ASSUME RowInv, ClientInv, NEW w \in Workers
                 PROVE  /\ clients[w].generation <= worker[w].generation
                        /\ \A l \in clients[w].leases :
                              /\ lease[l].state # "none" /\ lease[l].worker = w
                              /\ lease[l].generation <= clients[w].generation
                              /\ clients[w].generation < worker[w].generation => ~WorkerFence(l)
      BY DEF ReplacedClientHoldsNothing
    <2>1. clients[w].generation \in Nat /\ worker[w].generation \in Nat
          /\ clients[w].leases \subseteq Leases
      BY DEF RowInv, ClientInv, Client, TypeOK, WorkerRow
    <2>2. ASSUME NEW l \in clients[w].leases, clients[w].generation < worker[w].generation
          PROVE  ~WorkerFence(l)
      <3>1. lease[l].worker = w /\ lease[l].generation <= clients[w].generation
            /\ lease[l].generation \in Nat
        BY <2>1, <2>2 DEF ClientInv, ClientKnows, RowInv, TypeOK, LeaseRow
      <3>2. worker[w].generation # lease[l].generation
        BY <2>1, <2>2, <3>1
      <3>3. QED
        BY <3>1, <3>2 DEF WorkerFence
    <2>3. QED
      BY <2>2 DEF ClientInv, ClientKnows
  <1>3. QED
    BY <1>1, <1>2, ClientStep, RowsAlways, PTL DEF ProtocolSpec
================================================================================
