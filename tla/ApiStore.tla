-------------------------------- MODULE ApiStore -------------------------------
(***************************************************************************)
(* The store behind the product API (src/swarm/api: store, events): the     *)
(* missions of the controller and their record files, cancellation, the     *)
(* event log with its cursors, idempotency entries and approvals.           *)
(*                                                                         *)
(* The files outlive the process, everything else is in memory.  A request  *)
(* writes a record file twice or more, in place: a crash leaves one of the  *)
(* contents written or a torn file.  What a mission's files and requests    *)
(* say beyond its contract is whether checks are required and how the last  *)
(* review decided.  Tasks are MissionControl's, workers are WorkerFleet's.  *)
(***************************************************************************)
EXTENDS Naturals, SequencesExt, Order

CONSTANTS Missions, Approvals, Projects,
          MissionProject, ApprovalProject,  \* project of a mission, of an approval
          Settings,                         \* settings of a project that a patch changes
          MaxRevision, MaxGeneration,       \* bounds: reviews and cancellations of a contract
          MaxEvents                         \* bound: events published in one process

ASSUME StoreAssumption ==
    /\ MissionProject \in [Missions -> Projects] /\ ApprovalProject \in [Approvals -> Projects]
    /\ MaxRevision \in Nat \ {0} /\ MaxGeneration \in Nat /\ MaxEvents \in Nat

VARIABLES missions,   \* controller.missions: none or the contract of a mission
          files,      \* the record file of a mission: none, torn or a record
          cancelled,  \* cancelled_missions
          approvals,  \* none, open, or closed: expired or revoked
          configs,    \* the file of a project: none or the settings changed since its creation
          log         \* events, in order

storeVars == <<missions, files, cancelled, approvals, configs, log>>

MissionStatus == {"planning", "completed", "failed", "cancelled"}
Contract == [status : MissionStatus, revision : 1..MaxRevision, generation : 0..MaxGeneration,
             receipt : BOOLEAN]
Record == [contract : Contract, checks : BOOLEAN, review : {"none", "accepted", "rejected"}]
None == [none |-> TRUE]
Torn == [torn |-> TRUE]
\* n stands for what the dedupe key of an event adds to its type and subject.
EventTypes == {"created", "accepted", "rejected", "cancelled", "requested", "resolved", "joined", "project"}
EventEnvelope == [type : EventTypes, of : Missions \cup Approvals \cup Projects, n : Nat,
                  project : Projects]

StoreTypeOK ==
    /\ missions \in [Missions -> Contract \cup {None}]
    /\ files \in [Missions -> Record \cup {None, Torn}]
    /\ cancelled \subseteq Missions
    /\ approvals \in [Approvals -> {"none", "open", "closed"}]
    /\ configs \in [Projects -> [changed : SUBSET Settings] \cup {None}]
    /\ log \in Seq(EventEnvelope) /\ Len(log) <= MaxEvents

StoreInit ==
    /\ missions = [m \in Missions |-> None]
    /\ files = [m \in Missions |-> None]
    /\ cancelled = {}
    /\ approvals = [a \in Approvals |-> "none"]
    /\ configs = [p \in Projects |-> None]
    /\ log = <<>>

--------------------------------------------------------------------------------
(* Events: an event whose dedupe key is in the log is not appended again.  Ids made for *)
(* the event (receipts, approvals, workers) are new, so such a key never is.            *)

Publish(e) ==
    /\ Len(log) < MaxEvents
    /\ log' = IF e \in Range(log) THEN log ELSE Append(log, e)

Fresh == Len(log) + 1
MissionEvent(type, m, n) == [type |-> type, of |-> m, n |-> n, project |-> MissionProject[m]]

\* list_after: the first events of a project behind the cursor's; an id that is not in the
\* log counts from the start.
Unknown == MaxEvents + 1
ListAfter(p, after, limit) ==
    LET start == IF after \in DOMAIN log THEN after ELSE 0
        mine == Ascending({i \in DOMAIN log : i > start /\ log[i].project = p})
    IN  SubSeq(mine, 1, IF Len(mine) < limit THEN Len(mine) ELSE limit)

\* A cursor at the end of the log, whatever the page held.
CursorAtEnd(page, after) == Len(log)

Cursor(page, after) == IF page = <<>> THEN after ELSE Last(page)

--------------------------------------------------------------------------------
(* Missions.  Operators on a mission give its next contract and the file contents the   *)
(* request writes, in order.                                                            *)

Readable(m) == files[m] \in Record

\* get_mission: from memory, else from the contract in the file.
Found(m) == missions[m] # None \/ Readable(m)
GetMission(m) == IF missions[m] # None THEN missions[m] ELSE files[m].contract

\* _persist_mission_record keeps what the file says beside the contract.
PersistMissionRecord(m, c) ==
    IF Readable(m) THEN [files[m] EXCEPT !.contract = c]
    ELSE [contract |-> c, checks |-> FALSE, review |-> "none"]

\* create_mission resets the contract; an unsupported family fails at once and its
\* validation replaces the review.
Created(supported) == [status |-> IF supported THEN "planning" ELSE "failed", revision |-> 1,
                       generation |-> 0, receipt |-> FALSE]
CreateWrites(m, supported, checks) ==
    LET first == PersistMissionRecord(m, Created(supported))
    IN  <<first, [first EXCEPT !.checks = @ \/ checks, !.review = IF supported THEN @ ELSE "none"]>>

\* review_attempt: nothing is accepted without checks; the request's replace the plan's.
ReviewAttemptOf(m, good, own) == good /\ (own \/ files[m].checks)

\* A rejection that keeps the receipt of an earlier acceptance.
ReviewedKeepsReceipt(c, accept) ==
    [c EXCEPT !.status = IF accept THEN "completed" ELSE "failed", !.receipt = @ \/ accept,
              !.revision = @ + 1]

\* review_mission_attempt looks at no status: a cancelled or completed mission is decided anew.
Reviewed(c, accept) ==
    [c EXCEPT !.status = IF accept THEN "completed" ELSE "failed", !.receipt = accept,
              !.revision = @ + 1]
ReviewWrites(m, c, accept) ==
    LET first == PersistMissionRecord(m, c)
    IN  <<first, [first EXCEPT !.review = IF accept THEN "accepted" ELSE "rejected"]>>

Cancelled(c) == [c EXCEPT !.status = "cancelled", !.generation = @ + 1]

\* The request is answered: the last content is in the file.
Stores(m, c, writes) ==
    /\ missions' = [missions EXCEPT ![m] = c]
    /\ files' = [files EXCEPT ![m] = Last(writes)]

\* The process dies on the way: one of the contents, or part of one, is in the file.
Leaves(m, writes) == \E w \in Range(writes) \cup {Torn} : files' = [files EXCEPT ![m] = w]

Forget ==
    /\ missions' = [m \in Missions |-> None]
    /\ cancelled' = {} /\ log' = <<>>
    /\ approvals' = [a \in Approvals |-> "none"]

AssertNotCancelled(m) == m \notin cancelled

--------------------------------------------------------------------------------
(* Approvals, in memory only. *)

CreateApproval(a) ==
    /\ approvals[a] = "none"
    /\ approvals' = [approvals EXCEPT ![a] = "open"]
    /\ Publish([type |-> "requested", of |-> a, n |-> 0, project |-> ApprovalProject[a]])
    /\ UNCHANGED <<missions, files, cancelled, configs>>

ApprovalExpires(a) ==
    /\ approvals[a] = "open"
    /\ approvals' = [approvals EXCEPT ![a] = "closed"]
    /\ UNCHANGED <<missions, files, cancelled, configs, log>>

\* A rejection revokes; an acceptance leaves the approval open.
Resolve(a, accept) ==
    /\ approvals[a] = "open"
    /\ approvals' = [approvals EXCEPT ![a] = IF accept THEN @ ELSE "closed"]
    /\ Publish([type |-> "resolved", of |-> a, n |-> IF accept THEN 1 ELSE 0,
                project |-> ApprovalProject[a]])
    /\ UNCHANGED <<missions, files, cancelled, configs>>

EnrollWorker(p) ==
    /\ Publish([type |-> "joined", of |-> p, n |-> Fresh, project |-> p])
    /\ UNCHANGED <<missions, files, cancelled, approvals, configs>>

--------------------------------------------------------------------------------
(* Project settings, on disk. *)

\* A project that exists is created over: what was changed in it is lost.
CreateConfig(p) ==
    /\ configs' = [configs EXCEPT ![p] = [changed |-> {}]]
    /\ Publish([type |-> "project", of |-> p, n |-> 0, project |-> p])
    /\ UNCHANGED <<missions, files, cancelled, approvals>>

UpdateConfig(p, s) ==
    /\ configs[p] # None
    /\ configs' = [configs EXCEPT ![p].changed = @ \cup {s}]
    /\ UNCHANGED <<missions, files, cancelled, approvals, log>>
================================================================================
