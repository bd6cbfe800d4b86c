----------------------------- MODULE MissionRuntime ----------------------------
(***************************************************************************)
(* The local mission runtime (src/swarm/mission) and the recovery of its    *)
(* records (src/swarm/memory): the four tasks of a software mission in an   *)
(* isolated worktree, repair rounds, the acceptance, the explicit apply,    *)
(* and the operator's interrupt and resume of the stored record.            *)
(*                                                                         *)
(* One process runs the mission and holds its record in memory; the file is *)
(* written when the mission starts and when it ends.  An operator is        *)
(* another process that loads the file and saves it later.  Contents of a   *)
(* file are a version: what implement wrote last.                           *)
(***************************************************************************)
EXTENDS Naturals, Sequences

CONSTANTS MaxRepairRounds,
          Wirings     \* how the worker is set up: MissionRuntime always wires a broker

ASSUME RuntimeAssumption ==
    /\ MaxRepairRounds \in Nat
    /\ Wirings \subseteq [broker : BOOLEAN, fixture : BOOLEAN, loopback : BOOLEAN]

VARIABLES pc,        \* where the run is
          round,
          prior,     \* last result of each task
          roundOk,
          target,    \* whether the inspection found a file to edit
          worktree,  \* "none", "present", "removed", or "leaked" when no one holds its handle
          tree,      \* version of the edited file in the worktree, 0 for that of HEAD
          verified,  \* history: versions the verification commands passed on
          cleared,   \* history: versions whose diff the review found clean
          record,    \* the run's record in memory
          disk,      \* the stored record, <<>> before the first save
          desk,      \* what an operator loaded and will save, <<>> for nothing
          primary,   \* version of the file in the primary checkout
          report,    \* the record as the reports tell it, <<>> before they are written
          wiring

runVars == <<pc, round, prior, roundOk, target, worktree, tree, verified, cleared, record, report, wiring>>
vars == <<runVars, disk, desk, primary>>

Families == {"inspect", "implement", "verify", "review"}
Ended == {"ended", "raised", "crashed"}
MissionRecord ==
    [status : {"running", "completed", "failed", "interrupted"},
     rows : [Families -> {"ready", "accepted", "failed"}], accepted : BOOLEAN, pending : BOOLEAN]
Trees == 0..(MaxRepairRounds + 1)

TypeOK ==
    /\ pc \in Families \cup Ended \cup {"planning", "round", "reporting", "saving", "cleanup"}
    /\ round \in 0..MaxRepairRounds
    /\ prior \in [Families -> {"none", "ok", "failed"}]
    /\ {roundOk, target} \subseteq BOOLEAN /\ wiring \in Wirings
    /\ worktree \in {"none", "present", "removed", "leaked"}
    /\ tree \in Trees /\ primary \in Trees
    /\ verified \subseteq Trees /\ cleared \subseteq Trees
    /\ record \in MissionRecord
    /\ {disk, desk, report} \subseteq Seq(MissionRecord)

NewRecord == [status |-> "running", rows |-> [f \in Families |-> "ready"],
              accepted |-> FALSE, pending |-> FALSE]

Init ==
    /\ pc = "planning"
    /\ round = 0
    /\ prior = [f \in Families |-> "none"]
    /\ roundOk = TRUE
    /\ target = FALSE
    /\ worktree = "none"
    /\ tree = 0 /\ primary = 0
    /\ verified = {} /\ cleared = {}
    /\ record = NewRecord
    /\ disk = <<>> /\ desk = <<>> /\ report = <<>>
    /\ wiring \in Wirings

Stored == disk # <<>>
Save(r) == disk' = <<r>>

--------------------------------------------------------------------------------
(* The run: submit, plan and commit, then the tasks in the planner's order. *)

StartMission ==
    /\ pc = "planning"
    /\ pc' = "inspect"
    /\ Save(NewRecord)
    /\ UNCHANGED <<round, prior, roundOk, target, worktree, tree, verified, cleared, record, desk,
                   primary, report, wiring>>

PlanTaskGraph == [inspect |-> "implement", implement |-> "verify", verify |-> "review",
                  review |-> "round"]

\* run_task: one handler per family; verify and review assert the worktree of implement.
RunTask(f) == pc = f /\ (f \in {"verify", "review"} => worktree = "present")

\* The loop's bookkeeping of a result; only a failed verify or review ends the round early.
TaskFinished(f, ok) ==
    /\ prior' = [prior EXCEPT ![f] = IF ok THEN "ok" ELSE "failed"]
    /\ record' = [record EXCEPT !.rows[f] = IF ok THEN "accepted" ELSE "failed"]
    /\ roundOk' = (roundOk /\ ok)
    /\ pc' = IF ~ok /\ f \in {"verify", "review"} THEN "round" ELSE PlanTaskGraph[f]
    /\ UNCHANGED <<round, wiring, report, disk, desk, primary>>

\* _inspect: candidates give implement its target; a repository without a cost ledger
\* passes the inspection without any.
Inspect(found, hint) ==
    /\ RunTask("inspect")
    /\ target' = found
    /\ TaskFinished("inspect", found \/ hint)
    /\ UNCHANGED <<worktree, tree, verified, cleared>>

\* _chat: with a broker it starts an event loop, which the run's own loop forbids.
ChatRaises == wiring.broker

\* What a model may answer: nothing usable, a new file, the file as it stands, that of HEAD.
Replies == {"none", "fresh", "same", "head"}

\* local_chat: an endpoint that is not this machine is never asked; errors are a failed answer.
LocalChat(reply) == IF wiring.loopback THEN reply ELSE "none"

\* create_worktree is a checkout of HEAD; a second call reuses the handle.
CreateWorktree == worktree' = "present"

\* _resolve_target_rel: the fixture names its own file; else the first candidate of the inspection.
ResolveTargetRel == wiring.fixture \/ target

\* _implement: without a target, or with an answer that holds no file, the task fails and the
\* file stays as it is; a written file counts when it differs from HEAD or from what it was.
Implement(reply) ==
    /\ RunTask("implement")
    /\ ~(ResolveTargetRel /\ ChatRaises)
    /\ CreateWorktree
    /\ LET answer == IF ResolveTargetRel THEN LocalChat(reply) ELSE "none"
           patched == CASE answer = "fresh" -> round + 1
                        [] answer = "head" -> 0
                        [] OTHER -> tree
       IN /\ tree' = patched
          /\ TaskFinished("implement", answer # "none" /\ (patched # 0 \/ patched # tree))
    /\ UNCHANGED <<target, verified, cleared>>

\* Every command passed, of none as well.
AllCommandsPass(ran, pass) == ran => pass

\* _verify: the commands run on the worktree as it is; without any the task fails.
CommandsPass(ran, pass) == ran /\ pass

Verify(ran, pass) ==
    /\ RunTask("verify")
    /\ verified' = IF ran /\ pass THEN verified \cup {tree} ELSE verified
    /\ TaskFinished("verify", CommandsPass(ran, pass))
    /\ UNCHANGED <<target, worktree, tree, cleared>>

\* _review with review_attempt: all three checks must hold; only then is the model asked,
\* for a note that decides nothing.
ReviewAttempt(clean) == clean /\ prior["verify"] = "ok" /\ prior["implement"] = "ok"

Review(clean) ==
    /\ RunTask("review")
    /\ ~(ReviewAttempt(clean) /\ ChatRaises)
    /\ cleared' = IF clean THEN cleared \cup {tree} ELSE cleared
    /\ TaskFinished("review", ReviewAttempt(clean))
    /\ UNCHANGED <<target, worktree, tree, verified>>

\* The end of a round: accept, or reset the rows and repair while rounds are left.
Accepts == roundOk /\ prior["review"] = "ok"

EndRound ==
    /\ pc = "round"
    /\ IF Accepts
       THEN /\ record' = [record EXCEPT !.accepted = TRUE]
            /\ pc' = "reporting"
            /\ UNCHANGED <<round, roundOk>>
       ELSE /\ record' = [record EXCEPT !.rows = [f \in Families |-> IF f = "inspect" THEN @[f] ELSE "ready"]]
            /\ IF round < MaxRepairRounds
               THEN round' = round + 1 /\ roundOk' = TRUE /\ pc' = "implement"
               ELSE pc' = "reporting" /\ UNCHANGED <<round, roundOk>>
    /\ UNCHANGED <<prior, target, worktree, tree, verified, cleared, disk, desk, primary, report, wiring>>

\* write_reports comes before the save: a crash in between leaves a report of an end that the
\* stored record does not know.
WriteReports ==
    /\ pc = "reporting"
    /\ record' = [record EXCEPT !.status = IF record.accepted THEN "completed" ELSE "failed",
                                !.pending = record.accepted /\ worktree = "present"]
    /\ report' = <<record'>>
    /\ pc' = "saving"
    /\ UNCHANGED <<round, prior, roundOk, target, worktree, tree, verified, cleared, disk, desk, primary, wiring>>

\* The final save writes the record the run holds, whatever the file says by now.
SaveResult ==
    /\ pc = "saving"
    /\ Save(record)
    /\ pc' = "cleanup"
    /\ UNCHANGED <<round, prior, roundOk, target, worktree, tree, verified, cleared, record, desk, primary,
                   report, wiring>>

\* A cleanup that is skipped once the mission is accepted.
RemoveUnlessAccepted ==
    worktree' = IF worktree = "present" /\ ~record.accepted THEN "removed" ELSE worktree

RemoveWorktree == worktree' = IF worktree = "present" THEN "removed" ELSE worktree

Cleanup ==
    /\ pc = "cleanup"
    /\ RemoveWorktree
    /\ pc' = "ended"
    /\ UNCHANGED <<round, prior, roundOk, target, tree, verified, cleared, record, disk, desk, primary, report, wiring>>

\* An exception of a task leaves the run through its finally clause and saves nothing: a
\* command times out, git fails, the broker's event loop is refused.  The handle of a worktree
\* reaches the run with implement's result, so one made by a task that raises is not removed.
RunRaises ==
    /\ pc \in Families \cup {"reporting", "saving"}
    /\ \/ RemoveWorktree
       \/ pc = "implement" /\ worktree = "none" /\ worktree' = "leaked"
    /\ pc' = "raised"
    /\ UNCHANGED <<round, prior, roundOk, target, tree, verified, cleared, record, disk, desk, primary,
                   report, wiring>>

Crash ==
    /\ pc \notin Ended
    /\ pc' = "crashed"
    /\ UNCHANGED <<round, prior, roundOk, target, worktree, tree, verified, cleared, record, disk, desk,
                   primary, report, wiring>>

--------------------------------------------------------------------------------
(* The operator: interrupt and resume of the stored record, and the explicit apply. *)

InterruptMission == [disk[1] EXCEPT !.status = "interrupted"]

\* build_recovery_plan: finished and accepted is left alone; what is not accepted is made
\* ready again.
BuildRecoveryPlan(r) ==
    IF r.status \in {"completed", "failed"} /\ r.accepted THEN "noop_already_complete"
    ELSE IF \E f \in Families : r.rows[f] # "accepted" THEN "resume"
    ELSE "manual_review"

ResumeMission ==
    [disk[1] EXCEPT !.status = "running",
                    !.rows = [f \in Families |-> IF @[f] = "accepted" THEN @[f] ELSE "ready"]]

LoadInterrupt ==
    /\ Stored /\ desk = <<>>
    /\ desk' = <<InterruptMission>>
    /\ UNCHANGED <<runVars, disk, primary>>

LoadResume ==
    /\ Stored /\ desk = <<>>
    /\ BuildRecoveryPlan(disk[1]) # "noop_already_complete"
    /\ desk' = <<ResumeMission>>
    /\ UNCHANGED <<runVars, disk, primary>>

SaveDesk ==
    /\ desk # <<>>
    /\ Save(desk[1])
    /\ desk' = <<>>
    /\ UNCHANGED <<runVars, primary>>

\* apply_worktree_changes copies what the worktree still has of a record that waits for it.
ApplyWorktreeChanges ==
    /\ Stored /\ disk[1].pending
    /\ worktree = "present"
    /\ primary' = tree
    /\ UNCHANGED <<runVars, disk, desk>>

--------------------------------------------------------------------------------
Progress ==
    \/ StartMission \/ EndRound \/ WriteReports \/ SaveResult \/ Cleanup
    \/ \E b, c \in BOOLEAN : Inspect(b, c) \/ Verify(b, c)
    \/ \E b \in BOOLEAN : Review(b)
    \/ \E reply \in Replies : Implement(reply)
    \/ RunRaises

Next ==
    \/ Progress \/ Crash
    \/ LoadInterrupt \/ LoadResume \/ SaveDesk \/ ApplyWorktreeChanges

\* The run is one thread; its commands and calls have timeouts, and git is taken to return.
Spec == Init /\ [][Next]_vars /\ WF_vars(Progress)
================================================================================
