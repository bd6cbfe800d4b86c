----------------------------- MODULE ProductProofs ------------------------------
(* Theorems about the product as its user meets it.                                     *)
(* The local mission runtime and the campaign around it: what counts as accepted was    *)
(* verified and reviewed, and a dynamic plan stays under its cap.                       *)
(* The product API: what it told of a mission survives its process, and a key is        *)
(* executed once.                                                                       *)
EXTENDS SelfDevelopment, ProductApi, OrderProofs, FiniteSetTheorems, TLAPS

--------------------------------------------------------------------------------
(* Types of the run.                                                              *)

LEMMA RunTypeInit == Init => TypeOK
  <1> SUFFICES ASSUME Init PROVE TypeOK
    OBVIOUS
  <1>1. NewRecord \in MissionRecord
    BY DEF NewRecord, MissionRecord
  <1>2. 0 \in Trees /\ 0 \in 0..MaxRepairRounds
    BY RuntimeAssumption DEF Trees
  <1>3. <<>> \in Seq(MissionRecord)
    OBVIOUS
  <1>4. prior \in [Families -> {"none", "ok", "failed"}]
    BY DEF Init
  <1>5. {roundOk, target} \subseteq BOOLEAN
    BY DEF Init
  <1>6. QED
    BY <1>1, <1>2, <1>3, <1>4, <1>5 DEF Init, TypeOK

(* The loop's bookkeeping of a result keeps the types of what it writes. *)
LEMMA TaskFinishedTypes ==
    ASSUME TypeOK, NEW f \in Families, NEW ok \in BOOLEAN, TaskFinished(f, ok)
    PROVE  /\ pc' \in Families \cup {"round"}
           /\ prior' \in [Families -> {"none", "ok", "failed"}]
           /\ record' \in MissionRecord /\ record'.accepted = record.accepted
           /\ record'.pending = record.pending
           /\ roundOk' \in BOOLEAN /\ (roundOk' => roundOk /\ ok)
  <1>1. pc' \in Families \cup {"round"}
    BY DEF TaskFinished, PlanTaskGraph, Families
  <1>2. prior' \in [Families -> {"none", "ok", "failed"}]
    BY DEF TaskFinished, TypeOK
  <1>3. /\ record' \in MissionRecord /\ record'.accepted = record.accepted
        /\ record'.pending = record.pending
    BY DEF TaskFinished, TypeOK, MissionRecord
  <1>4. roundOk' \in BOOLEAN /\ (roundOk' => roundOk /\ ok)
    BY DEF TaskFinished, TypeOK
  <1>5. QED
    BY <1>1, <1>2, <1>3, <1>4

LEMMA RunTypeStep == TypeOK /\ [Next]_vars => TypeOK'
  <1> SUFFICES ASSUME TypeOK, [Next]_vars PROVE TypeOK'
    OBVIOUS
  <1> USE RuntimeAssumption
  <1>1. CASE UNCHANGED vars
    BY <1>1 DEF vars, runVars, TypeOK
  <1>2. CASE StartMission
    BY <1>2 DEF StartMission, Save, NewRecord, MissionRecord, TypeOK, Families
  <1>3. CASE EndRound
    <2>1. record' \in MissionRecord
      <3>1. CASE record' = [record EXCEPT !.accepted = TRUE]
        BY <3>1 DEF TypeOK, MissionRecord
      <3>2. CASE record' = [record EXCEPT !.rows = [f \in Families |->
                                IF f = "inspect" THEN @[f] ELSE "ready"]]
        BY <3>2 DEF TypeOK, MissionRecord
      <3>3. QED
        BY <1>3, <3>1, <3>2 DEF EndRound
    <2>2. round' \in 0..MaxRepairRounds /\ pc' \in {"reporting", "implement"}
      <3>1. round' = round \/ (round < MaxRepairRounds /\ round' = round + 1)
        BY <1>3 DEF EndRound
      <3>2. QED
        BY <1>3, <3>1 DEF EndRound, TypeOK
    <2>4. {roundOk', target'} \subseteq BOOLEAN
      BY <1>3 DEF EndRound, TypeOK
    <2>3. QED
      BY <1>3, <2>1, <2>2, <2>4 DEF EndRound, TypeOK, Families
  <1>4. CASE WriteReports
    <2>1. record' \in MissionRecord
      <3>1. (record.accepted /\ worktree = "present") \in BOOLEAN
        OBVIOUS
      <3>2. record' \in MissionRecord
        BY <1>4, <3>1 DEF WriteReports, TypeOK, MissionRecord
      <3>3. QED
        BY <3>2
    <2>2. QED
      BY <1>4, <2>1 DEF WriteReports, TypeOK
  <1>5. CASE SaveResult
    BY <1>5 DEF SaveResult, Save, TypeOK
  <1>6. CASE Cleanup \/ RunRaises \/ Crash
    BY <1>6 DEF Cleanup, RunRaises, Crash, RemoveWorktree, TypeOK, Ended
  <1>7. ASSUME NEW found \in BOOLEAN, NEW hint \in BOOLEAN, Inspect(found, hint) PROVE TypeOK'
    <2>1. (found \/ hint) \in BOOLEAN /\ "inspect" \in Families
      BY DEF Families
    <2>2. TaskFinished("inspect", found \/ hint) /\ target' = found
      BY <1>7 DEF Inspect
    <2>3. /\ pc' \in Families \cup {"round"}
          /\ prior' \in [Families -> {"none", "ok", "failed"}]
          /\ record' \in MissionRecord /\ roundOk' \in BOOLEAN
      BY <2>1, <2>2, TaskFinishedTypes
    <2>4. {roundOk', target'} \subseteq BOOLEAN
      BY <2>2, <2>3
    <2>5. UNCHANGED <<round, worktree, tree, verified, cleared, wiring, report, disk, desk, primary>>
      BY <1>7 DEF Inspect, TaskFinished
    <2>6. QED
      BY <2>3, <2>4, <2>5 DEF TypeOK
  <1>8. ASSUME NEW reply \in Replies, Implement(reply) PROVE TypeOK'
    <2>1. PICK answer, patched :
             /\ patched \in {round + 1, 0, tree} /\ tree' = patched
             /\ TaskFinished("implement", answer # "none" /\ (patched # 0 \/ patched # tree))
      BY <1>8 DEF Implement
    <2>2. (answer # "none" /\ (patched # 0 \/ patched # tree)) \in BOOLEAN /\ "implement" \in Families
      BY DEF Families
    <2>3. tree' \in Trees
      BY <2>1 DEF TypeOK, Trees
    <2>4. /\ pc' \in Families \cup {"round"}
          /\ prior' \in [Families -> {"none", "ok", "failed"}]
          /\ record' \in MissionRecord /\ roundOk' \in BOOLEAN
      BY <2>1, <2>2, TaskFinishedTypes
    <2>5. /\ worktree' = "present"
          /\ UNCHANGED <<round, target, verified, cleared, wiring, report, disk, desk, primary>>
      BY <1>8, <2>1 DEF Implement, CreateWorktree, TaskFinished
    <2>6. {roundOk', target'} \subseteq BOOLEAN
      BY <2>4, <2>5 DEF TypeOK
    <2>7. QED
      BY <2>3, <2>4, <2>5, <2>6 DEF TypeOK
  <1>9. ASSUME NEW any \in BOOLEAN, NEW pass \in BOOLEAN, Verify(any, pass) PROVE TypeOK'
    <2>1. CommandsPass(any, pass) \in BOOLEAN /\ "verify" \in Families
      BY DEF CommandsPass, Families
    <2>2. QED
      BY <1>9, <2>1, TaskFinishedTypes DEF Verify, TaskFinished, TypeOK
  <1>10. ASSUME NEW clean \in BOOLEAN, Review(clean) PROVE TypeOK'
    <2>1. ReviewAttempt(clean) \in BOOLEAN /\ "review" \in Families
      BY DEF ReviewAttempt, Families
    <2>2. QED
      BY <1>10, <2>1, TaskFinishedTypes DEF Review, TaskFinished, TypeOK
  <1>11. CASE LoadInterrupt
    <2>1. disk[1] \in MissionRecord
      BY <1>11 DEF LoadInterrupt, Stored, TypeOK
    <2>2. InterruptMission \in MissionRecord
      BY <2>1 DEF InterruptMission, MissionRecord
    <2>3. QED
      BY <1>11, <2>2 DEF LoadInterrupt, TypeOK, runVars
  <1>12. CASE LoadResume
    <2>1. disk[1] \in MissionRecord
      BY <1>12 DEF LoadResume, Stored, TypeOK
    <2>2. ResumeMission \in MissionRecord
      BY <2>1 DEF ResumeMission, MissionRecord
    <2>3. QED
      BY <1>12, <2>2 DEF LoadResume, TypeOK, runVars
  <1>13. CASE SaveDesk
    BY <1>13 DEF SaveDesk, Save, TypeOK, runVars
  <1>14. CASE ApplyWorktreeChanges
    BY <1>14 DEF ApplyWorktreeChanges, TypeOK, runVars
  <1>15. QED
    BY <1>1, <1>2, <1>3, <1>4, <1>5, <1>6, <1>7, <1>8, <1>9, <1>10, <1>11, <1>12, <1>13, <1>14
       DEF Next, Progress

--------------------------------------------------------------------------------
(* What the run knows of its tree.                                                *)

Sound == verified \cap cleared

(* roundOk stands for this round alone: at the review it means that this tree was   *)
(* verified, at the end of the round that it was verified and found clean.         *)
RoundIsOfThisTree ==
    /\ pc = "review" /\ roundOk => tree \in verified
    /\ pc = "round" /\ roundOk => tree \in Sound

(* Acceptance comes after the last write of the tree. *)
AcceptedIsSound ==
    /\ record.accepted => pc \in {"reporting", "saving", "cleanup"} \cup Ended /\ tree \in Sound
    /\ record.pending => record.accepted

(* A record on disk, on the operator's desk or in a report is accepted, or waits to be *)
(* applied, only when the run's own record is accepted.                            *)
CopyOf(s) == s # <<>> => /\ s[1].accepted => record.accepted
                         /\ s[1].pending => s[1].accepted
CopiesAreHonest == CopyOf(disk) /\ CopyOf(desk) /\ CopyOf(report)

RunInv == RoundIsOfThisTree /\ AcceptedIsSound /\ CopiesAreHonest

(* What every step of the run and of the operator leaves standing. *)
Stands ==
    /\ verified \subseteq verified' /\ cleared \subseteq cleared'
    /\ record.accepted => record'.accepted /\ tree' = tree
    /\ primary' # primary => primary' \in Sound

LEMMA RunInvInit == Init => RunInv
  BY DEF Init, RunInv, RoundIsOfThisTree, AcceptedIsSound, CopiesAreHonest, CopyOf, NewRecord

(* A task's result: the round stays sound when its task was, the record keeps its acceptance. *)
LEMMA RunInvTask ==
    ASSUME TypeOK, RunInv, NEW f \in Families, NEW ok \in BOOLEAN, pc = f, TaskFinished(f, ok),
           verified \subseteq verified', cleared \subseteq cleared',
           f = "verify" /\ ok => tree' \in verified',
           f = "review" /\ ok => tree' = tree /\ tree' \in cleared'
    PROVE  RunInv' /\ Stands
  <1>1. /\ record'.accepted = record.accepted /\ record'.pending = record.pending
        /\ roundOk' => roundOk /\ ok
    BY TaskFinishedTypes
  <1>2. ~record.accepted /\ ~record.pending
    BY DEF RunInv, AcceptedIsSound, Families, Ended
  <1>3. UNCHANGED <<disk, desk, report, primary>>
    BY DEF TaskFinished
  <1>4. /\ pc' = "review" => f = "verify"
        /\ pc' = "round" /\ ok => f = "review"
    BY DEF TaskFinished, PlanTaskGraph, Families
  <1>5. RoundIsOfThisTree'
    <2>1. ASSUME pc' = "review", roundOk' PROVE tree' \in verified'
      BY <1>1, <1>4, <2>1
    <2>2. ASSUME pc' = "round", roundOk' PROVE tree' \in verified' \cap cleared'
      <3>1. f = "review" /\ roundOk /\ ok
        BY <1>1, <1>4, <2>2
      <3>2. tree \in verified
        BY <3>1 DEF RunInv, RoundIsOfThisTree
      <3>3. QED
        BY <3>1, <3>2
    <2>3. QED
      BY <2>1, <2>2 DEF RoundIsOfThisTree, Sound
  <1>6. CopiesAreHonest'
    BY <1>1, <1>3 DEF RunInv, CopiesAreHonest, CopyOf
  <1>7. AcceptedIsSound'
    BY <1>1, <1>2 DEF AcceptedIsSound
  <1>8. QED
    BY <1>2, <1>3, <1>5, <1>6, <1>7 DEF RunInv, Stands

LEMMA RunInvStep == TypeOK /\ RunInv /\ [Next]_vars => RunInv' /\ Stands
  <1> SUFFICES ASSUME TypeOK, RunInv, [Next]_vars PROVE RunInv' /\ Stands
    OBVIOUS
  <1> USE DEF Stands, Sound
  <1>1. CASE UNCHANGED vars
    BY <1>1 DEF vars, runVars, RunInv, RoundIsOfThisTree, AcceptedIsSound, CopiesAreHonest, CopyOf
  <1>2. CASE StartMission
    <2>1. ~NewRecord.accepted /\ ~NewRecord.pending
      BY DEF NewRecord
    <2>2. disk' = <<NewRecord>> /\ disk'[1] = NewRecord
      BY <1>2 DEF StartMission, Save
    <2>3. UNCHANGED <<roundOk, tree, verified, cleared, record, desk, report, primary>> /\ pc' = "inspect"
          /\ pc = "planning"
      BY <1>2 DEF StartMission
    <2>4. QED
      BY <2>1, <2>2, <2>3 DEF RunInv, RoundIsOfThisTree, AcceptedIsSound, CopiesAreHonest, CopyOf, Ended
  <1>3. CASE EndRound
    <2>1. UNCHANGED <<tree, verified, cleared, disk, desk, report, primary>> /\ pc = "round"
          /\ pc' \in {"reporting", "implement"}
      BY <1>3 DEF EndRound
    <2>2. ~record.accepted /\ ~record.pending
      BY <2>1 DEF RunInv, AcceptedIsSound, Ended
    <2>3. CASE Accepts
      <3>1. record'.accepted /\ record'.pending = record.pending /\ pc' = "reporting"
        BY <1>3, <2>3 DEF EndRound, TypeOK, MissionRecord
      <3>2. tree \in Sound
        BY <2>1, <2>3 DEF Accepts, RunInv, RoundIsOfThisTree
      <3>3. QED
        BY <2>1, <2>2, <3>1, <3>2
           DEF RunInv, RoundIsOfThisTree, AcceptedIsSound, CopiesAreHonest, CopyOf
    <2>4. CASE ~Accepts
      <3>1. record'.accepted = record.accepted /\ record'.pending = record.pending
        BY <1>3, <2>4 DEF EndRound, TypeOK, MissionRecord
      <3>2. QED
        BY <2>1, <2>2, <3>1 DEF RunInv, RoundIsOfThisTree, AcceptedIsSound, CopiesAreHonest, CopyOf
    <2>5. QED
      BY <2>3, <2>4
  <1>4. CASE WriteReports
    <2>1. /\ UNCHANGED <<tree, verified, cleared, disk, desk, primary>>
          /\ pc = "reporting" /\ pc' = "saving"
          /\ report' = <<record'>> /\ report'[1] = record'
      BY <1>4 DEF WriteReports
    <2>2. record'.accepted = record.accepted /\ (record'.pending => record.accepted)
      BY <1>4, Zenon DEF WriteReports, TypeOK, MissionRecord
    <2>3. QED
      BY <2>1, <2>2 DEF RunInv, RoundIsOfThisTree, AcceptedIsSound, CopiesAreHonest, CopyOf
  <1>5. CASE SaveResult
    <2>1. /\ UNCHANGED <<tree, verified, cleared, record, report, desk, primary>>
          /\ pc = "saving" /\ pc' = "cleanup"
          /\ disk' = <<record>> /\ disk'[1] = record
      BY <1>5 DEF SaveResult, Save
    <2>2. QED
      BY <2>1 DEF RunInv, RoundIsOfThisTree, AcceptedIsSound, CopiesAreHonest, CopyOf
  <1>6. CASE Cleanup \/ RunRaises \/ Crash
    <2>1. /\ UNCHANGED <<tree, verified, cleared, record, disk, desk, report, primary>>
          /\ pc' \in Ended
      BY <1>6 DEF Cleanup, RunRaises, Crash, Ended
    <2>2. QED
      BY <2>1 DEF RunInv, RoundIsOfThisTree, AcceptedIsSound, CopiesAreHonest, CopyOf, Ended
  <1>7. ASSUME NEW found \in BOOLEAN, NEW hint \in BOOLEAN, Inspect(found, hint)
        PROVE  RunInv' /\ Stands
    <2>1. /\ (found \/ hint) \in BOOLEAN /\ "inspect" \in Families /\ pc = "inspect"
          /\ TaskFinished("inspect", found \/ hint) /\ UNCHANGED <<verified, cleared>>
      BY <1>7 DEF Inspect, RunTask, Families
    <2>2. QED
      BY <2>1, RunInvTask
  <1>8. ASSUME NEW reply \in Replies, Implement(reply) PROVE RunInv' /\ Stands
    <2>1. PICK ok \in BOOLEAN : TaskFinished("implement", ok)
      BY <1>8 DEF Implement
    <2>2. "implement" \in Families /\ pc = "implement" /\ UNCHANGED <<verified, cleared>>
      BY <1>8 DEF Implement, RunTask, Families
    <2>3. QED
      BY <2>1, <2>2, RunInvTask
  <1>9. ASSUME NEW any \in BOOLEAN, NEW pass \in BOOLEAN, Verify(any, pass) PROVE RunInv' /\ Stands
    <2>1. CommandsPass(any, pass) \in BOOLEAN /\ "verify" \in Families /\ pc = "verify"
          /\ TaskFinished("verify", CommandsPass(any, pass)) /\ UNCHANGED <<tree, cleared>>
      BY <1>9 DEF Verify, RunTask, Families, CommandsPass
    <2>2. verified \subseteq verified' /\ (CommandsPass(any, pass) => tree \in verified')
      BY <1>9 DEF Verify, CommandsPass
    <2>3. QED
      BY <2>1, <2>2, RunInvTask
  <1>10. ASSUME NEW clean \in BOOLEAN, Review(clean) PROVE RunInv' /\ Stands
    <2>1. ReviewAttempt(clean) \in BOOLEAN /\ "review" \in Families /\ pc = "review"
          /\ TaskFinished("review", ReviewAttempt(clean)) /\ UNCHANGED <<tree, verified>>
      BY <1>10 DEF Review, RunTask, Families, ReviewAttempt
    <2>2. cleared \subseteq cleared' /\ (ReviewAttempt(clean) => tree \in cleared')
      BY <1>10 DEF Review, ReviewAttempt
    <2>3. QED
      BY <2>1, <2>2, RunInvTask
  <1>11. CASE LoadInterrupt \/ LoadResume
    <2>1. disk[1] \in MissionRecord /\ disk # <<>>
      BY <1>11 DEF LoadInterrupt, LoadResume, Stored, TypeOK
    <2>2. /\ UNCHANGED runVars /\ UNCHANGED <<disk, primary>>
          /\ desk' = <<InterruptMission>> \/ desk' = <<ResumeMission>>
      BY <1>11 DEF LoadInterrupt, LoadResume
    <2>3. /\ InterruptMission.accepted = disk[1].accepted /\ InterruptMission.pending = disk[1].pending
          /\ ResumeMission.accepted = disk[1].accepted /\ ResumeMission.pending = disk[1].pending
      BY <2>1 DEF InterruptMission, ResumeMission, MissionRecord
    <2>4. desk'[1] \in {InterruptMission, ResumeMission}
      BY <2>2
    <2>5. QED
      BY <2>1, <2>2, <2>3, <2>4
         DEF runVars, RunInv, RoundIsOfThisTree, AcceptedIsSound, CopiesAreHonest, CopyOf
  <1>12. CASE SaveDesk
    <2>1. UNCHANGED runVars /\ UNCHANGED primary /\ desk # <<>> /\ desk' = <<>> /\ disk' = <<desk[1]>>
          /\ disk'[1] = desk[1]
      BY <1>12 DEF SaveDesk, Save
    <2>2. QED
      BY <2>1 DEF runVars, RunInv, RoundIsOfThisTree, AcceptedIsSound, CopiesAreHonest, CopyOf
  <1>13. CASE ApplyWorktreeChanges
    <2>1. UNCHANGED runVars /\ UNCHANGED <<disk, desk>> /\ disk # <<>> /\ disk[1].pending
          /\ primary' = tree
      BY <1>13 DEF ApplyWorktreeChanges, Stored
    <2>2. tree \in Sound
      BY <2>1 DEF RunInv, CopiesAreHonest, CopyOf, AcceptedIsSound
    <2>3. QED
      BY <2>1, <2>2 DEF runVars, RunInv, RoundIsOfThisTree, AcceptedIsSound, CopiesAreHonest, CopyOf
  <1>14. QED
    BY <1>1, <1>2, <1>3, <1>4, <1>5, <1>6, <1>7, <1>8, <1>9, <1>10, <1>11, <1>12, <1>13
       DEF Next, Progress

--------------------------------------------------------------------------------
(* The campaign around the run.                                                   *)

(* What is remembered, or still to be, claims no acceptance the run's record lacks. *)
Line == [kind : {"durable_fact", "outcome", "model_obs", "transient_context", "decision"},
         status : {"running", "completed", "failed", "interrupted"}, accepted : BOOLEAN]
Honest(s) == /\ s \in Seq(Line)
             /\ \A i \in DOMAIN s : s[i].accepted => record.accepted

CampaignInv ==
    /\ Honest(memory) /\ Honest(unwritten)
    /\ liveReport # <<>> /\ liveReport[1].accepted => record.accepted
    /\ checkout = "applied" => primary \in Sound
    /\ \A p \in patches : p.tested /\ Variants[p.change].changed = {"sample"}

LEMMA CampaignInvInit == CampaignInit => CampaignInv
  BY DEF CampaignInit, CampaignInv, Honest

(* Lines of a record that is a copy of the run's are honest. *)
LEMMA RememberIsHonest ==
    ASSUME NEW r \in MissionRecord, r.accepted => record.accepted
    PROVE  Honest(RememberMission(r))
  <1> DEFINE L == {l \in Line : l.accepted => record.accepted}
  <1>1. \A k \in {"durable_fact", "outcome", "model_obs", "transient_context", "decision"} :
           MemoryRecord(k, r) \in L
    BY DEF MemoryRecord, MissionRecord, Line
  <1>4. L \subseteq Line /\ \A l \in L : l.accepted => record.accepted
    OBVIOUS
  <1> HIDE DEF L
  <1>2. RememberMission(r) \in Seq(L)
    <2>1. <<MemoryRecord("durable_fact", r), MemoryRecord("outcome", r)>> \in Seq(L)
      BY <1>1
    <2>2. (IF prior["implement"] # "none" THEN <<MemoryRecord("model_obs", r)>> ELSE <<>>) \in Seq(L)
      <3>1. <<>> \in Seq(L) /\ <<MemoryRecord("model_obs", r)>> \in Seq(L)
        BY <1>1
      <3>2. QED
        BY <3>1
    <2>3. <<MemoryRecord("transient_context", r)>> \in Seq(L)
      BY <1>1
    <2>4. QED
      BY <2>1, <2>2, <2>3 DEF RememberMission
  <1>5. \A i \in DOMAIN RememberMission(r) : RememberMission(r)[i] \in L
    BY <1>2
  <1>6. RememberMission(r) \in Seq(Line)
    BY <1>2, <1>4, <1>5
  <1>7. QED
    BY <1>4, <1>5, <1>6 DEF Honest

(* What a step of the run leaves standing keeps the campaign's claims. *)
LEMMA CampaignInvMission ==
    ASSUME CampaignInv, Stands,
           checkout' = IF primary' # primary THEN "applied" ELSE checkout,
           UNCHANGED <<memory, unwritten, liveReport, patches>>
    PROVE  CampaignInv'
  <1>1. (checkout = "applied" => primary \in Sound)'
    BY DEF Stands, CampaignInv, Sound
  <1>2. Honest(memory)' /\ Honest(unwritten)'
    BY DEF Stands, CampaignInv, Honest
  <1>3. QED
    BY <1>1, <1>2 DEF Stands, CampaignInv

(* A command that ends without a run leaves the run as it was: nothing accepted. *)
LEMMA SideCommand ==
    ASSUME TypeOK, RunInv, pc = "planning", pc' = "ended",
           UNCHANGED <<round, prior, roundOk, target, worktree, tree, verified, cleared, record, desk,
                       primary, report, wiring>>,
           disk' = disk \/ disk' = <<SeededRecord>>
    PROVE  TypeOK' /\ RunInv' /\ Stands
  <1>1. SeededRecord \in MissionRecord /\ ~SeededRecord.accepted /\ ~SeededRecord.pending
    BY DEF SeededRecord, NewRecord, MissionRecord, Families
  <1>2. TypeOK'
    <2>1. {disk', desk', report'} \subseteq Seq(MissionRecord)
      <3>1. <<SeededRecord>> \in Seq(MissionRecord)
        BY <1>1
      <3>2. disk \in Seq(MissionRecord) /\ desk \in Seq(MissionRecord) /\ report \in Seq(MissionRecord)
        BY DEF TypeOK
      <3>3. QED
        BY <3>1, <3>2
    <2>2. QED
      BY <2>1 DEF TypeOK, Ended
  <1>3. RunInv'
    BY <1>1 DEF RunInv, RoundIsOfThisTree, AcceptedIsSound, CopiesAreHonest, CopyOf, Ended, Sound
  <1>4. Stands
    BY DEF Stands
  <1>5. QED
    BY <1>2, <1>3, <1>4

(* Every step of the mission, the operator, the campaign and the other commands. *)
LEMMA CampaignStep ==
    TypeOK /\ RunInv /\ CampaignInv /\ [CampaignNext]_allVars => TypeOK' /\ RunInv' /\ CampaignInv'
  <1> SUFFICES ASSUME TypeOK, RunInv, CampaignInv, [CampaignNext]_allVars
               PROVE  TypeOK' /\ RunInv' /\ CampaignInv'
    OBVIOUS
  <1>1. CASE MissionStep
    <2>1. TypeOK' /\ RunInv' /\ Stands
      BY <1>1, RunTypeStep, RunInvStep DEF MissionStep
    <2>2. QED
      BY <1>1, <2>1, CampaignInvMission DEF MissionStep
  <1>2. ASSUME UNCHANGED vars PROVE TypeOK' /\ RunInv' /\ Stands
    BY <1>2, RunTypeStep, RunInvStep
  <1>3. CASE UNCHANGED allVars
    <2>1. UNCHANGED vars /\ UNCHANGED <<memory, unwritten, liveReport, patches, checkout, primary>>
      BY <1>3 DEF allVars, campaignVars, vars
    <2>2. QED
      BY <1>2, <2>1, CampaignInvMission
  <1>4. CASE AppendMemory
    <2>1. UNCHANGED <<record, primary, verified, cleared, checkout, liveReport, patches>>
      BY <1>4 DEF AppendMemory, vars, runVars
    <2>2. Honest(memory)' /\ Honest(unwritten)'
      <3>1. /\ unwritten \in Seq(Line) /\ unwritten # <<>> /\ memory \in Seq(Line)
            /\ memory' = Append(memory, Head(unwritten)) /\ unwritten' = Tail(unwritten)
        BY <1>4 DEF AppendMemory, CampaignInv, Honest
      <3>2. /\ Head(unwritten) \in Line /\ (Head(unwritten).accepted => record.accepted)
            /\ \A i \in DOMAIN memory : memory[i].accepted => record.accepted
        BY <3>1 DEF CampaignInv, Honest
      <3>3. /\ memory' \in Seq(Line)
            /\ \A i \in DOMAIN memory' : memory'[i].accepted => record.accepted
        BY <3>1, <3>2
      <3>4. /\ unwritten' \in Seq(Line)
            /\ \A i \in DOMAIN unwritten' : i + 1 \in DOMAIN unwritten /\ unwritten'[i] = unwritten[i + 1]
        BY <3>1
      <3>5. \A i \in DOMAIN unwritten' : unwritten'[i].accepted => record.accepted
        BY <3>4 DEF CampaignInv, Honest
      <3>6. QED
        BY <2>1, <3>3, <3>4, <3>5 DEF Honest
    <2>3. QED
      BY <1>2, <1>4, <2>1, <2>2 DEF AppendMemory, CampaignInv, Sound
  <1>5. CASE LoseMemory
    <2>1. UNCHANGED <<record, primary, verified, cleared, checkout, liveReport, patches, memory>>
          /\ unwritten' = <<>>
      BY <1>5 DEF LoseMemory, vars, runVars
    <2>2. Honest(memory)' /\ Honest(unwritten)'
      BY <2>1 DEF CampaignInv, Honest
    <2>3. QED
      BY <1>2, <1>5, <2>1, <2>2 DEF LoseMemory, CampaignInv, Sound
  <1>6. CASE RunLiveSelfDevelopment \/ ReportCampaign
    <2>1. /\ UNCHANGED vars
          /\ UNCHANGED <<record, primary, verified, cleared, liveReport, patches, memory, unwritten>>
          /\ checkout' \in {checkout, "broken"}
      BY <1>6 DEF RunLiveSelfDevelopment, ReportCampaign, vars, runVars
    <2>2. Honest(memory)' /\ Honest(unwritten)'
      BY <2>1 DEF CampaignInv, Honest
    <2>3. QED
      BY <1>2, <2>1, <2>2 DEF CampaignInv, Sound
  <1>7. ASSUME NEW passes \in BOOLEAN, TestAndLearn(passes) PROVE TypeOK' /\ RunInv' /\ CampaignInv'
    <2>1. /\ UNCHANGED vars
          /\ UNCHANGED <<record, primary, verified, cleared, patches, memory, checkout>>
          /\ liveReport' = <<[tests |-> RunUnit(passes), accepted |-> record.accepted]>>
          /\ unwritten' = RememberMission(record)
      BY <1>7 DEF TestAndLearn, vars, runVars
    <2>2. liveReport'[1].accepted = record.accepted
      BY <2>1
    <2>3. Honest(RememberMission(record))
      BY RememberIsHonest DEF TypeOK
    <2>4. Honest(memory)' /\ Honest(unwritten)'
      BY <2>1, <2>3 DEF CampaignInv, Honest
    <2>5. QED
      BY <1>2, <2>1, <2>2, <2>4 DEF CampaignInv, Sound
  <1>8. ASSUME NEW name \in DOMAIN Variants, NEW inTime \in BOOLEAN, RunSelfDevelopment(name, inTime)
        PROVE  TypeOK' /\ RunInv' /\ CampaignInv'
    <2>1. TypeOK' /\ RunInv' /\ Stands
      BY <1>8, SideCommand DEF RunSelfDevelopment
    <2>2. ValidateWorkerPatch(Variants[name]) => Variants[name].changed = {"sample"}
      BY DEF ValidateWorkerPatch, Variants
    <2>3. \A p \in patches' : p.tested /\ Variants[p.change].changed = {"sample"}
      <3> DEFINE tested == Variants[name].fixes /\ inTime
      <3>1. CASE tested /\ ValidateWorkerPatch(Variants[name])
        <4>1. patches' = patches \cup {[change |-> name, tested |-> tested]}
          BY <1>8, <3>1 DEF RunSelfDevelopment
        <4>2. [change |-> name, tested |-> tested].tested /\ [change |-> name, tested |-> tested].change = name
          BY <3>1, Zenon
        <4>3. QED
          BY <2>2, <3>1, <4>1, <4>2 DEF CampaignInv
      <3>2. CASE ~(tested /\ ValidateWorkerPatch(Variants[name]))
        BY <1>8, <3>2 DEF RunSelfDevelopment, CampaignInv
      <3>3. QED
        BY <3>1, <3>2
    <2>4. UNCHANGED <<record, primary, verified, cleared, liveReport, memory, unwritten, checkout>>
      BY <1>8 DEF RunSelfDevelopment
    <2>5. Honest(memory)' /\ Honest(unwritten)'
      BY <2>4 DEF CampaignInv, Honest
    <2>6. QED
      BY <2>1, <2>3, <2>4, <2>5 DEF CampaignInv, Sound
  <1>9. CASE SeedProof
    <2>1. TypeOK' /\ RunInv' /\ Stands
      BY <1>9, SideCommand DEF SeedProof, Save
    <2>2. QED
      BY <1>9, <2>1, CampaignInvMission DEF SeedProof
  <1>10. ASSUME NEW goal \in Goals, NEW cap \in AgentCaps, PlanCommand(goal, cap)
         PROVE  TypeOK' /\ RunInv' /\ CampaignInv'
    <2>1. TypeOK' /\ RunInv' /\ Stands
      BY <1>10, SideCommand DEF PlanCommand
    <2>2. QED
      BY <1>10, <2>1, CampaignInvMission DEF PlanCommand
  <1>11. CASE RememberInterrupted
    <2>1. disk[1] \in MissionRecord /\ (disk[1].accepted => record.accepted)
      BY <1>11 DEF RememberInterrupted, Stored, TypeOK, RunInv, CopiesAreHonest, CopyOf
    <2>2. Honest(RememberMission(disk[1]))
      BY <2>1, RememberIsHonest
    <2>3. UNCHANGED <<record, primary, verified, cleared, liveReport, patches, memory, checkout>>
      BY <1>11 DEF RememberInterrupted, vars, runVars
    <2>4. Honest(memory)' /\ Honest(unwritten)'
      BY <1>11, <2>2, <2>3 DEF RememberInterrupted, CampaignInv, Honest
    <2>5. QED
      BY <1>2, <1>11, <2>3, <2>4 DEF RememberInterrupted, CampaignInv, Sound
  <1>12. CASE RememberResume
    <2>1. disk[1] \in MissionRecord /\ (disk[1].accepted => record.accepted)
      BY <1>12 DEF RememberResume, Stored, TypeOK, RunInv, CopiesAreHonest, CopyOf
    <2>2. UNCHANGED <<record, primary, verified, cleared, liveReport, patches, unwritten, checkout>>
          /\ memory' = Append(memory, MemoryRecord("decision", disk[1]))
      BY <1>12 DEF RememberResume, vars, runVars
    <2>3. MemoryRecord("decision", disk[1]) \in Line
      BY <2>1 DEF MemoryRecord, MissionRecord, Line
    <2>4. MemoryRecord("decision", disk[1]).accepted => record.accepted
      BY <2>1 DEF MemoryRecord
    <2>5. Honest(memory)' /\ Honest(unwritten)'
      BY <2>2, <2>3, <2>4 DEF CampaignInv, Honest
    <2>6. QED
      BY <1>2, <1>12, <2>2, <2>5 DEF RememberResume, CampaignInv, Sound
  <1>13. QED
    BY <1>1, <1>3, <1>4, <1>5, <1>6, <1>7, <1>8, <1>9, <1>10, <1>11, <1>12 DEF CampaignNext

(* Types and invariants of the run and of the campaign hold together, for any number of *)
(* repair rounds and any wiring of the worker.                                      *)
THEOREM CampaignInvariant == CampaignSpec => [](TypeOK /\ RunInv /\ CampaignInv)
  <1>1. CampaignInit => TypeOK /\ RunInv /\ CampaignInv
    BY RunTypeInit, RunInvInit, CampaignInvInit DEF CampaignInit
  <1>2. QED
    BY <1>1, CampaignStep, PTL DEF CampaignSpec

(* Whatever says a mission was accepted, and whatever reached the primary checkout, is of *)
(* a version that was verified and found clean: across repair rounds, crashes, raised     *)
(* runs, and an operator who saves what he loaded long ago.                               *)
THEOREM AcceptanceIsOfTheVerified == CampaignSpec => []AcceptedIsWhatWasVerified
  <1>1. TypeOK /\ RunInv /\ CampaignInv => AcceptedIsWhatWasVerified
    BY DEF RunInv, AcceptedIsSound, CopiesAreHonest, CopyOf, CampaignInv, Honest, Sound,
           AcceptedIsWhatWasVerified
  <1>2. QED
    BY <1>1, CampaignInvariant, PTL

--------------------------------------------------------------------------------
(* The dynamic team planner, for every goal and every cap of agents.              *)

(* The complexity of a goal is between two and ten. *)
LEMMA ComplexityBounds ==
    ASSUME NEW s \in GoalSignals
    PROVE  EstimateComplexity(s) \in 2..10
  <1>1. /\ Points(s.long, 1) \in 0..1 /\ Points(s.scale, 2) \in 0..2 /\ Points(s.quality, 1) \in 0..1
        /\ Points(s.tests, 1) \in 0..1 /\ Points(s.pyproject, 1) \in 0..1
    BY DEF Points
  <1>2. AtMost(3, s.files) \in 0..3
    BY DEF AtMost, GoalSignals
  <1>3. QED
    BY <1>1, <1>2 DEF EstimateComplexity, AtMost, AtLeast

(* A team has one supervisor, one reviewer, a worker, and no more agents than its cap, *)
(* or three when the cap is smaller.                                                  *)
LEMMA TeamBounds ==
    ASSUME NEW s \in GoalSignals, NEW cap \in Nat \ {0}
    PROVE  LET t == FormDynamicTeam(s, cap)
           IN  /\ t.supervisor = 1 /\ t.reviewer = 1
               /\ t.specialist \in 0..2 /\ t.worker \in 1..5
               /\ 2 + t.specialist + t.worker <= AtLeast(cap, 3)
  <1> DEFINE complexity == EstimateComplexity(s)
             byScore == IF complexity >= 5 THEN 1 ELSE 0
             specialists == IF s.files = 0 THEN byScore
                            ELSE AtMost(2, AtLeast(byScore, AtLeast(1, s.files \div 3)))
             workers == AtMost(AtLeast(1, complexity \div 2), AtLeast(1, cap \div 2))
             over == AtLeast(2 + specialists + workers, cap) - cap
             leaving == AtMost(over, workers - 1)
             sp == specialists - AtMost(over - leaving, specialists)
             wk == workers - leaving
  <1>1. complexity \in 2..10
    BY ComplexityBounds
  <1> HIDE DEF complexity
  <1>2. specialists \in 0..2
    <2>1. s.files \in 0..7 /\ s.files \div 3 \in 0..2
      BY DEF GoalSignals
    <2>2. QED
      BY <2>1 DEF AtMost, AtLeast
  <1>3. workers \in 1..5
    <2>1. complexity \div 2 \in 1..5
      BY <1>1
    <2>2. cap \div 2 \in Nat
      OBVIOUS
    <2>3. QED
      BY <2>1, <2>2 DEF AtMost, AtLeast
  <1>4. FormDynamicTeam(s, cap) = [supervisor |-> 1, specialist |-> sp, worker |-> wk, reviewer |-> 1]
    BY DEF FormDynamicTeam, complexity
  <1> HIDE DEF specialists, workers
  <1>5. sp \in 0..2 /\ wk \in 1..5 /\ 2 + sp + wk <= AtLeast(cap, 3)
    BY <1>2, <1>3 DEF AtMost, AtLeast
  <1> HIDE DEF sp, wk
  <1>6. QED
    BY <1>4, <1>5

(* The graph of such a team is admissible: at most eleven tasks, edges that point back, *)
(* every implementation behind the review, the verification last.                      *)
LEMMA TeamGraphIsAdmissible ==
    ASSUME NEW t, t.supervisor = 1, t.reviewer = 1, t.specialist \in 0..2, t.worker \in 1..5
    PROVE  Admissible(PlanDynamicTaskGraph(t))
  <1> DEFINE a == 3
             b == a + t.specialist
             c == b + t.worker
             n == c + 1
             g == PlanDynamicTaskGraph(t)
  <1>1. b \in 3..5 /\ c \in (b + 1)..(b + 5) /\ n \in 5..11 /\ n = c + 1
    OBVIOUS
  <1>2. g = [i \in 1..n |->
          IF i = 1 THEN [family |-> "inspect", deps |-> {}]
          ELSE IF i < a THEN [family |-> "supervise", deps |-> {1}]
          ELSE IF i < b THEN [family |-> "specialize", deps |-> {1}]
          ELSE IF i < c THEN [family |-> "implement", deps |-> {1} \cup (a..(b - 1))]
          ELSE IF i < n THEN [family |-> "review", deps |-> b..(c - 1)]
          ELSE [family |-> "verify", deps |-> c..(n - 1)]]
    BY DEF PlanDynamicTaskGraph
  <1> HIDE DEF b, c, n, g
  <1>3. DOMAIN g = 1..n
    BY <1>2
  <1>4. Len(g) = n
    BY <1>1, <1>2
  <1>5. \A i \in 1..n :
           /\ i = 1 => g[i].deps = {}
           /\ i > 1 /\ i < b => g[i].deps = {1} /\ g[i].family # "implement"
           /\ i >= b /\ i < c => g[i].deps = {1} \cup (a..(b - 1))
           /\ i >= c /\ i < n => g[i].family = "review" /\ g[i].deps = b..(c - 1)
           /\ i = n => g[i].family = "verify" /\ g[i].deps = c..(n - 1)
    BY <1>1, <1>2
  <1>6. \A i \in 1..n : g[i].family = "implement" => i >= b /\ i < c
    <2>1. \A i \in 1..n : i = 1 => g[i].family = "inspect"
      BY <1>1, <1>2
    <2>2. QED
      BY <1>1, <1>5, <2>1
  <1>7. \A i \in 1..n : \A d \in g[i].deps : d < i
    BY <1>1, <1>5
  <1>8. ASSUME NEW i \in 1..n, g[i].family = "implement"
        PROVE  \E r \in g[n].deps : g[r].family = "review" /\ i \in g[r].deps
    <2>1. i \in b..(c - 1) /\ c \in 1..n /\ n \in 1..n
      BY <1>1, <1>6, <1>8
    <2>2. c \in g[n].deps
      BY <1>1, <1>5, <2>1
    <2>3. g[c].family = "review" /\ g[c].deps = b..(c - 1)
      BY <1>1, <1>5, <2>1
    <2>4. QED
      BY <2>1, <2>2, <2>3
  <1>9. g[n].family = "verify" /\ n <= 16
    BY <1>1, <1>5
  <1>10. QED
    BY <1>3, <1>4, <1>7, <1>8, <1>9 DEF Admissible, MaxGraphNodes, g

(* A printed plan is one the planner made for a goal and a cap. *)
PlanIsPlanned ==
    team # <<>> => \E goal \in Goals, cap \in AgentCaps :
        LET t == FormDynamicTeam(goal, cap)
        IN  team[1] = [agents |-> AgentCount(t), cap |-> cap, graph |-> PlanDynamicTaskGraph(t)]

(* Whatever goal and cap a plan is asked for, its team keeps the cap and the controller  *)
(* admits its graph.                                                                     *)
THEOREM DynamicPlansHold == CampaignSpec => []DynamicPlanHolds
  <1>1. CampaignInit => PlanIsPlanned
    BY DEF CampaignInit, PlanIsPlanned
  <1>2. PlanIsPlanned /\ [CampaignNext]_allVars => PlanIsPlanned'
    <2> SUFFICES ASSUME PlanIsPlanned, [CampaignNext]_allVars PROVE PlanIsPlanned'
      OBVIOUS
    <2>1. CASE UNCHANGED team
      BY <2>1 DEF PlanIsPlanned
    <2>2. ASSUME NEW goal \in Goals, NEW cap \in AgentCaps, PlanCommand(goal, cap) PROVE PlanIsPlanned'
      <3> DEFINE t == FormDynamicTeam(goal, cap)
      <3>1. team' = <<[agents |-> AgentCount(t), cap |-> cap, graph |-> PlanDynamicTaskGraph(t)]>>
        BY <2>2 DEF PlanCommand
      <3> HIDE DEF t
      <3>2. team'[1] = [agents |-> AgentCount(t), cap |-> cap, graph |-> PlanDynamicTaskGraph(t)]
        BY <3>1
      <3>3. QED
        BY <3>2 DEF PlanIsPlanned, t
    <2>3. QED
      BY <2>1, <2>2
         DEF CampaignNext, MissionStep, AppendMemory, LoseMemory, RunLiveSelfDevelopment, ReportCampaign,
             TestAndLearn, RunSelfDevelopment, SeedProof, RememberInterrupted, RememberResume,
             allVars, campaignVars
  <1>3. PlanIsPlanned => DynamicPlanHolds
    <2> SUFFICES ASSUME PlanIsPlanned, team # <<>>
                 PROVE  team[1].agents <= AtLeast(team[1].cap, 3) /\ Admissible(team[1].graph)
      BY DEF DynamicPlanHolds
    <2>1. PICK goal \in Goals, cap \in AgentCaps :
             team[1] = [agents |-> AgentCount(FormDynamicTeam(goal, cap)), cap |-> cap,
                        graph |-> PlanDynamicTaskGraph(FormDynamicTeam(goal, cap))]
      BY DEF PlanIsPlanned
    <2>2. goal \in GoalSignals /\ cap \in Nat \ {0}
      BY PlannerAssumption
    <2> DEFINE t == FormDynamicTeam(goal, cap)
    <2>3. /\ t.supervisor = 1 /\ t.reviewer = 1 /\ t.specialist \in 0..2 /\ t.worker \in 1..5
          /\ 2 + t.specialist + t.worker <= AtLeast(cap, 3)
      BY <2>2, TeamBounds
    <2>4. /\ team[1].agents = AgentCount(t) /\ team[1].cap = cap
          /\ team[1].graph = PlanDynamicTaskGraph(t)
      BY <2>1
    <2> HIDE DEF t
    <2>5. Admissible(PlanDynamicTaskGraph(t))
      BY <2>3, TeamGraphIsAdmissible
    <2>6. AgentCount(t) = 2 + t.specialist + t.worker
      BY <2>3 DEF AgentCount
    <2>7. QED
      BY <2>3, <2>4, <2>5, <2>6
  <1>4. QED
    BY <1>1, <1>2, <1>3, PTL DEF CampaignSpec

--------------------------------------------------------------------------------
(* The missions and their record files.                                           *)

(* A contract with the receipt its status asks for. *)
WithReceipt(c) == /\ c \in Contract
                  /\ c.status = "completed" => c.receipt
                  /\ c.status \in {"planning", "failed"} => ~c.receipt

(* What a file may hold: nothing, a torn write, or a record of such a contract. *)
SoundFile(f) == f \in {None, Torn} \/ (f \in Record /\ WithReceipt(f.contract))

MissionInv ==
    /\ missions \in [Missions -> Contract \cup {None}]
    /\ files \in [Missions -> Record \cup {None, Torn}]
    /\ \A m \in Missions : /\ SoundFile(files[m])
                           /\ missions[m] # None => Readable(m) /\ files[m].contract = missions[m]

LEMMA NotARecord == None \notin Record /\ Torn \notin Record /\ None \notin Contract
  BY DEF None, Torn, Record, Contract

(* What a request finds is a contract with its receipt. *)
LEMMA FoundContract ==
    ASSUME MissionInv, NEW m \in Missions, Found(m)
    PROVE  WithReceipt(GetMission(m))
  BY NotARecord DEF MissionInv, Found, GetMission, Readable, SoundFile

(* _persist_mission_record writes a record of the contract it is given. *)
LEMMA PersistsTheContract ==
    ASSUME MissionInv, NEW m \in Missions, NEW c \in Contract
    PROVE  /\ PersistMissionRecord(m, c) \in Record
           /\ PersistMissionRecord(m, c).contract = c
  BY DEF PersistMissionRecord, Readable, Record

(* Contents of a request's writes: records of one contract. *)
RecordsOf(c, writes) == \A w \in Range(writes) : w \in Record /\ w.contract = c

LEMMA CreateWritesContract ==
    ASSUME MissionInv, NEW m \in Missions, NEW supported \in BOOLEAN, NEW checks \in BOOLEAN
    PROVE  /\ WithReceipt(Created(supported))
           /\ RecordsOf(Created(supported), CreateWrites(m, supported, checks))
           /\ Last(CreateWrites(m, supported, checks)) \in Range(CreateWrites(m, supported, checks))
  <1> DEFINE c == Created(supported)
             first == PersistMissionRecord(m, c)
             second == [first EXCEPT !.checks = @ \/ checks, !.review = IF supported THEN @ ELSE "none"]
  <1>1. WithReceipt(c)
    BY StoreAssumption DEF WithReceipt, Created, Contract, MissionStatus
  <1>2. first \in Record /\ first.contract = c
    BY <1>1, PersistsTheContract DEF WithReceipt
  <1>3. CreateWrites(m, supported, checks) = <<first, second>>
    BY DEF CreateWrites
  <1> HIDE DEF first, c
  <1>4. second \in Record /\ second.contract = c
    BY <1>2 DEF Record
  <1> HIDE DEF second
  <1>5. Range(<<first, second>>) = {first, second} /\ Last(<<first, second>>) = second
    BY DEF Range, Last
  <1>6. QED
    BY <1>1, <1>2, <1>3, <1>4, <1>5 DEF RecordsOf, c

LEMMA ReviewWritesContract ==
    ASSUME MissionInv, NEW m \in Missions, NEW c \in Contract, NEW accept \in BOOLEAN
    PROVE  /\ RecordsOf(c, ReviewWrites(m, c, accept))
           /\ Last(ReviewWrites(m, c, accept)) \in Range(ReviewWrites(m, c, accept))
  <1> DEFINE first == PersistMissionRecord(m, c)
             second == [first EXCEPT !.review = IF accept THEN "accepted" ELSE "rejected"]
  <1>1. first \in Record /\ first.contract = c
    BY PersistsTheContract
  <1>2. ReviewWrites(m, c, accept) = <<first, second>>
    BY DEF ReviewWrites
  <1> HIDE DEF first
  <1>3. second \in Record /\ second.contract = c
    BY <1>1 DEF Record
  <1> HIDE DEF second
  <1>4. Range(<<first, second>>) = {first, second} /\ Last(<<first, second>>) = second
    BY DEF Range, Last
  <1>5. QED
    BY <1>1, <1>2, <1>3, <1>4 DEF RecordsOf

(* A decided or a cancelled mission has its receipt exactly when it should. *)
LEMMA DecidedContract ==
    ASSUME NEW c \in Contract, WithReceipt(c), NEW accept \in BOOLEAN
    PROVE  /\ c.revision < MaxRevision => WithReceipt(Reviewed(c, accept))
           /\ c.generation < MaxGeneration => WithReceipt(Cancelled(c))
  <1>1. ASSUME c.revision < MaxRevision PROVE WithReceipt(Reviewed(c, accept))
    <2> DEFINE d == Reviewed(c, accept)
    <2>1. c.revision + 1 \in 1..MaxRevision
      BY <1>1, StoreAssumption DEF Contract
    <2>2. (IF accept THEN "completed" ELSE "failed") \in MissionStatus
      BY DEF MissionStatus
    <2>3. d \in Contract
      BY <2>1, <2>2, Zenon DEF Reviewed, Contract
    <2>4. (d.receipt <=> accept) /\ d.status = (IF accept THEN "completed" ELSE "failed")
      BY DEF Reviewed, Contract
    <2>5. QED
      BY <2>3, <2>4 DEF WithReceipt
  <1>2. ASSUME c.generation < MaxGeneration PROVE WithReceipt(Cancelled(c))
    <2>1. c.generation + 1 \in 0..MaxGeneration /\ "cancelled" \in MissionStatus
      BY <1>2, StoreAssumption DEF Contract, MissionStatus
    <2>2. Cancelled(c) \in Contract /\ Cancelled(c).status = "cancelled"
      BY <2>1 DEF Cancelled, Contract
    <2>3. QED
      BY <2>2 DEF WithReceipt
  <1>3. QED
    BY <1>1, <1>2

(* An answered request stores the contract in memory and in the file alike. *)
LEMMA StoresKeeps ==
    ASSUME MissionInv, NEW m \in Missions, NEW c, WithReceipt(c), NEW writes, RecordsOf(c, writes),
           Last(writes) \in Range(writes), Stores(m, c, writes)
    PROVE  MissionInv'
  <1>1. Last(writes) \in Record /\ Last(writes).contract = c /\ c \in Contract
    BY DEF RecordsOf, WithReceipt
  <1>2. QED
    BY <1>1 DEF Stores, MissionInv, SoundFile, Readable

(* A crash leaves the file with one of the writes or torn, and the memory empty. *)
LEMMA LeavesKeeps ==
    ASSUME MissionInv, NEW m \in Missions, NEW c, WithReceipt(c), NEW writes, RecordsOf(c, writes),
           Leaves(m, writes), Restarted
    PROVE  MissionInv'
  <1>1. PICK w \in Range(writes) \cup {Torn} : files' = [files EXCEPT ![m] = w]
    BY DEF Leaves
  <1>2. SoundFile(w) /\ w \in Record \cup {None, Torn}
    BY <1>1 DEF RecordsOf, SoundFile
  <1>3. missions' = [k \in Missions |-> None]
    BY DEF Restarted, Forget
  <1>4. QED
    BY <1>1, <1>2, <1>3 DEF MissionInv

LEMMA MissionInvInit == ApiInit => MissionInv
  BY DEF ApiInit, StoreInit, MissionInv, SoundFile

(* Every request, crash and restart. *)
LEMMA MissionInvStep == MissionInv /\ [ApiNext]_productVars => MissionInv'
  <1> SUFFICES ASSUME MissionInv, [ApiNext]_productVars PROVE MissionInv'
    OBVIOUS
  <1>1. CASE UNCHANGED <<missions, files>>
    BY <1>1 DEF MissionInv, Readable
  <1>2. ASSUME NEW u \in Actors, NEW k \in Keys \cup {NoKey}, NEW m \in Missions, CancelMission(u, k, m)
        PROVE  MissionInv'
    <2>1. CASE m \in cancelled
      BY <1>1, <1>2, <2>1 DEF CancelMission, storeVars
    <2>2. CASE m \notin cancelled
      <3> DEFINE c == Cancelled(GetMission(m))
                 writes == <<PersistMissionRecord(m, c)>>
      <3>1. WithReceipt(GetMission(m)) /\ GetMission(m).generation < MaxGeneration
            /\ Stores(m, c, writes)
        BY <1>2, <2>2, FoundContract DEF CancelMission
      <3>2. WithReceipt(c)
        BY <3>1, DecidedContract DEF WithReceipt
      <3> HIDE DEF c
      <3>3. PersistMissionRecord(m, c) \in Record /\ PersistMissionRecord(m, c).contract = c
        BY <3>2, PersistsTheContract DEF WithReceipt
      <3>4. RecordsOf(c, writes) /\ Last(writes) \in Range(writes)
        BY <3>3 DEF RecordsOf, Range, Last
      <3>5. QED
        BY <3>1, <3>2, <3>4, StoresKeeps
    <2>3. QED
      BY <2>1, <2>2
  <1>3. ASSUME NEW u \in Actors, NEW k \in Keys \cup {NoKey}, NEW m \in Missions,
               NEW b \in BOOLEAN, NEW d \in BOOLEAN, CreateMission(u, k, m, b, d)
        PROVE  MissionInv'
    BY <1>3, CreateWritesContract, StoresKeeps DEF CreateMission
  <1>4. ASSUME NEW m \in Missions, NEW b \in BOOLEAN, NEW d \in BOOLEAN, CreateCrashes(m, b, d)
        PROVE  MissionInv'
    BY <1>4, CreateWritesContract, LeavesKeeps DEF CreateCrashes
  <1>5. ASSUME NEW m \in Missions, NEW good \in BOOLEAN, NEW own \in BOOLEAN,
               Found(m), GetMission(m).revision < MaxRevision
        PROVE  LET accept == ReviewAttemptOf(m, good, own)
                   c == Reviewed(GetMission(m), accept)
               IN  /\ WithReceipt(c) /\ RecordsOf(c, ReviewWrites(m, c, accept))
                   /\ Last(ReviewWrites(m, c, accept)) \in Range(ReviewWrites(m, c, accept))
    <2> DEFINE accept == ReviewAttemptOf(m, good, own)
               c == Reviewed(GetMission(m), accept)
    <2>1. accept \in BOOLEAN
      BY DEF ReviewAttemptOf
    <2> HIDE DEF accept
    <2>2. WithReceipt(GetMission(m)) /\ GetMission(m) \in Contract
      BY <1>5, FoundContract DEF WithReceipt
    <2>3. WithReceipt(c) /\ c \in Contract
      BY <1>5, <2>1, <2>2, DecidedContract DEF WithReceipt
    <2> HIDE DEF c
    <2>4. RecordsOf(c, ReviewWrites(m, c, accept))
          /\ Last(ReviewWrites(m, c, accept)) \in Range(ReviewWrites(m, c, accept))
      BY <2>1, <2>3, ReviewWritesContract
    <2>5. QED
      BY <2>3, <2>4 DEF c, accept
  <1>6. ASSUME NEW u \in Actors, NEW k \in Keys \cup {NoKey}, NEW m \in Missions,
               NEW good \in BOOLEAN, NEW own \in BOOLEAN, ReviewMission(u, k, m, good, own)
        PROVE  MissionInv'
    BY <1>5, <1>6, StoresKeeps DEF ReviewMission
  <1>7. ASSUME NEW m \in Missions, NEW good \in BOOLEAN, NEW own \in BOOLEAN,
               ReviewCrashes(m, good, own)
        PROVE  MissionInv'
    BY <1>5, <1>7, LeavesKeeps DEF ReviewCrashes
  <1>8. ASSUME NEW m \in Missions, CancelCrashes(m) PROVE MissionInv'
    <2> DEFINE c == Cancelled(GetMission(m))
               writes == <<PersistMissionRecord(m, c)>>
    <2>1. WithReceipt(GetMission(m)) /\ GetMission(m).generation < MaxGeneration
          /\ Leaves(m, writes) /\ Restarted
      BY <1>8, FoundContract DEF CancelCrashes
    <2>2. WithReceipt(c)
      BY <2>1, DecidedContract DEF WithReceipt
    <2> HIDE DEF c
    <2>3. PersistMissionRecord(m, c) \in Record /\ PersistMissionRecord(m, c).contract = c
      BY <2>2, PersistsTheContract DEF WithReceipt
    <2>4. RecordsOf(c, writes)
      BY <2>3 DEF RecordsOf, Range
    <2>5. QED
      BY <2>1, <2>2, <2>4, LeavesKeeps
  <1>9. ASSUME NEW m \in Missions, ReadMission(m) PROVE MissionInv'
    <2>1. files[m] \in Record /\ files[m].contract \in Contract
      BY <1>9 DEF ReadMission, Readable, Record
    <2>2. QED
      BY <1>9, <2>1 DEF ReadMission, MissionInv, Readable
  <1>10. ASSUME NEW u \in Actors, NEW m \in Missions, DemoSideEffect(u, m) PROVE MissionInv'
    <2>1. files[m] \in Record /\ files[m].contract = GetMission(m) /\ GetMission(m) \in Contract
      BY <1>10, NotARecord, FoundContract
         DEF DemoSideEffect, Found, GetMission, Readable, MissionInv, WithReceipt
    <2>2. QED
      BY <1>10, <2>1 DEF DemoSideEffect, MissionInv, Readable
  <1>11. CASE Restart
    BY <1>11 DEF Restart, Restarted, Forget, MissionInv, Readable
  <1>12. ASSUME NEW u \in Actors, NEW k \in Keys \cup {NoKey},
                \/ \E op \in {"probe", "evaluate"} : Probe(u, k, op)
                \/ \E p \in Projects : \/ EnrollRequest(u, k, p) \/ CreateProject(u, k, p)
                                       \/ \E s \in Settings : UpdateProject(u, p, s)
                \/ \E a \in Approvals, b \in BOOLEAN : ResolveApproval(u, k, a, b)
         PROVE  UNCHANGED <<missions, files>>
    BY <1>12 DEF Probe, EnrollRequest, EnrollWorker, CreateProject, CreateConfig, UpdateProject,
                 UpdateConfig, ResolveApproval, Resolve, storeVars
  <1>13. CASE ListEvents \/ (\E a \in Approvals : (CreateApproval(a) \/ ApprovalExpires(a)) /\ UNCHANGED apiVars)
    BY <1>1, <1>13 DEF ListEvents, CreateApproval, ApprovalExpires, storeVars
  <1>14. CASE UNCHANGED productVars
    BY <1>1, <1>14 DEF productVars, storeVars
  <1>15. QED
    BY <1>1, <1>2, <1>3, <1>4, <1>6, <1>7, <1>8, <1>9, <1>10, <1>11, <1>12, <1>13, <1>14 DEF ApiNext

(* Whatever is created, reviewed, cancelled or interrupted by a crash in the middle of its *)
(* writes, the memory tells nothing of a mission that its file would not bring back, and   *)
(* no completed mission lacks its receipt.                                                 *)
THEOREM MissionsSurvive == ApiSpec => []RestartKeepsMissions
  <1>1. MissionInv => RestartKeepsMissions
    BY NotARecord DEF MissionInv, SoundFile, WithReceipt, RestartKeepsMissions, Readable
  <1>2. QED
    BY <1>1, MissionInvInit, MissionInvStep, PTL DEF ApiSpec

--------------------------------------------------------------------------------
(* Idempotency keys.                                                              *)

EntriesOf(s) == {e \in idempotency : e.scope = s}

(* A scoped key was never executed and has no entry, or was executed once and has one. *)
KeyInv ==
    /\ ran \in [Scope -> Nat]
    /\ \A s \in Scope : \/ ran[s] = 0 /\ EntriesOf(s) = {}
                        \/ ran[s] = 1 /\ \E e \in idempotency : EntriesOf(s) = {e}

LEMMA KeyInvInit == ApiInit => KeyInv
  BY DEF ApiInit, KeyInv, EntriesOf

(* A request is executed only without an entry, and leaves one. *)
LEMMA KeyInvRequest ==
    ASSUME KeyInv, NEW u, NEW p, NEW op, NEW k, NEW digest, Request(u, p, op, k, digest)
    PROVE  KeyInv'
  <1>1. CASE k = NoKey
    BY <1>1 DEF Request, KeyInv, EntriesOf
  <1>2. CASE k # NoKey
    <2> DEFINE s == ScopeOf(u, p, op, k)
               new == [scope |-> s, digest |-> digest]
    <2>1. /\ ~Recalled(s) /\ idempotency' = idempotency \cup {new}
          /\ ran' = [ran EXCEPT ![s] = @ + 1]
      BY <1>2 DEF Request, StoreIdempotent
    <2>2. new.scope = s
      OBVIOUS
    <2> HIDE DEF s, new
    <2>3. EntriesOf(s) = {} /\ EntriesOf(s)' = {new} /\ new \in idempotency'
      BY <2>1, <2>2 DEF Recalled, EntriesOf
    <2>4. ASSUME NEW x \in Scope, x # s PROVE EntriesOf(x)' = EntriesOf(x) /\ ran'[x] = ran[x]
      BY <2>1, <2>2, <2>4 DEF EntriesOf, KeyInv
    <2>5. ASSUME s \in Scope PROVE ran[s] = 0 /\ ran'[s] = 1
      BY <2>1, <2>3, <2>5 DEF KeyInv
    <2>6. ran' \in [Scope -> Nat]
      <3>1. CASE s \in Scope
        <4>1. ran[s] + 1 \in Nat
          BY <2>5, <3>1
        <4>2. QED
          BY <2>1, <4>1 DEF KeyInv
      <3>2. CASE s \notin Scope
        BY <2>1, <3>2 DEF KeyInv
      <3>3. QED
        BY <3>1, <3>2
    <2>7. ASSUME NEW x \in Scope
          PROVE  \/ ran'[x] = 0 /\ EntriesOf(x)' = {}
                 \/ ran'[x] = 1 /\ \E e \in idempotency' : EntriesOf(x)' = {e}
      <3>1. CASE x = s
        BY <2>3, <2>5, <2>7, <3>1
      <3>2. CASE x # s
        BY <2>1, <2>4, <2>7, <3>2 DEF KeyInv
      <3>3. QED
        BY <3>1, <3>2
    <2>8. QED
      BY <2>6, <2>7 DEF KeyInv
  <1>3. QED
    BY <1>1, <1>2

(* Every step is a request, loses the process and its entries, or touches neither. *)
LEMMA KeyInvStep == KeyInv /\ [ApiNext]_productVars => KeyInv'
  <1> SUFFICES ASSUME KeyInv, [ApiNext]_productVars PROVE KeyInv'
    OBVIOUS
  <1>1. CASE UNCHANGED <<idempotency, ran>>
    BY <1>1 DEF KeyInv, EntriesOf
  <1>2. CASE Restarted
    BY <1>2 DEF Restarted, KeyInv, EntriesOf
  <1>3. ASSUME NEW u \in Actors, NEW k \in Keys \cup {NoKey},
               \/ \E m \in Missions :
                    \/ CancelMission(u, k, m)
                    \/ \E b, c \in BOOLEAN : CreateMission(u, k, m, b, c) \/ ReviewMission(u, k, m, b, c)
               \/ \E op \in {"probe", "evaluate"} : Probe(u, k, op)
               \/ \E p \in Projects : EnrollRequest(u, k, p) \/ CreateProject(u, k, p)
               \/ \E a \in Approvals, b \in BOOLEAN : ResolveApproval(u, k, a, b)
        PROVE  KeyInv'
    BY <1>3, KeyInvRequest
       DEF CancelMission, CreateMission, ReviewMission, Probe, EnrollRequest, CreateProject, ResolveApproval
  <1>4. ASSUME NEW u \in Actors, NEW p \in Projects, NEW s \in Settings, UpdateProject(u, p, s)
        PROVE  UNCHANGED <<idempotency, ran>>
    BY <1>4 DEF UpdateProject, apiVars
  <1>5. ASSUME NEW m \in Missions,
               \/ CancelCrashes(m)
               \/ \E b, c \in BOOLEAN : CreateCrashes(m, b, c) \/ ReviewCrashes(m, b, c)
        PROVE  Restarted
    BY <1>5 DEF CancelCrashes, CreateCrashes, ReviewCrashes
  <1>6. ASSUME NEW m \in Missions, ReadMission(m) \/ \E u \in Actors : DemoSideEffect(u, m)
        PROVE  UNCHANGED <<idempotency, ran>>
    BY <1>6 DEF ReadMission, DemoSideEffect, apiVars
  <1>7. CASE ListEvents \/ (\E a \in Approvals : (CreateApproval(a) \/ ApprovalExpires(a)) /\ UNCHANGED apiVars)
    BY <1>1, <1>7 DEF ListEvents, apiVars
  <1>8. CASE Restart
    BY <1>2, <1>8 DEF Restart
  <1>9. CASE UNCHANGED productVars
    BY <1>1, <1>9 DEF productVars, apiVars
  <1>10. QED
    BY <1>1, <1>2, <1>3, <1>4, <1>5, <1>6, <1>7, <1>8, <1>9 DEF ApiNext

(* Retries of a keyed request never run it twice in the life of a process, whoever sends  *)
(* them and whatever requests come in between.                                            *)
THEOREM KeysRunOnce == ApiSpec => []KeyRunsOnce
  <1>1. KeyInv => KeyRunsOnce
    <2> SUFFICES ASSUME KeyInv, NEW s \in Scope
                 PROVE  ran[s] = Cardinality(EntriesOf(s)) /\ ran[s] <= 1
      BY DEF KeyRunsOnce, EntriesOf
    <2>1. CASE ran[s] = 0 /\ EntriesOf(s) = {}
      <3>1. Cardinality({}) = 0
        BY FS_EmptySet
      <3>2. QED
        BY <2>1, <3>1
    <2>2. ASSUME NEW e \in idempotency, ran[s] = 1, EntriesOf(s) = {e}
          PROVE  ran[s] = Cardinality(EntriesOf(s)) /\ ran[s] <= 1
      <3>1. Cardinality({e}) = 1
        BY FS_Singleton
      <3>2. QED
        BY <2>2, <3>1
    <2>3. QED
      BY <2>1, <2>2 DEF KeyInv
  <1>2. QED
    BY <1>1, KeyInvInit, KeyInvStep, PTL DEF ApiSpec

--------------------------------------------------------------------------------
(* The event log and the client that follows it.                                  *)

Upto == IF cursor = Unknown THEN 0 ELSE cursor
Followed(n) == {i \in 1..n : log[i].project = Watched}

(* The cursor is none, of a process that is gone, or a position of the log; what the   *)
(* client was given are the events up to it.                                          *)
PollInv ==
    /\ log \in Seq(Range(log)) /\ Len(log) <= MaxEvents
    /\ cursor = Unknown \/ cursor \in 0..Len(log)
    /\ seen \in Seq(Nat) /\ IsAscending(seen) /\ Range(seen) = Followed(Upto)

LEMMA PollInvInit == ApiInit => PollInv
  <1> SUFFICES ASSUME ApiInit PROVE PollInv
    OBVIOUS
  <1>1. log = <<>> /\ cursor = 0 /\ seen = <<>>
    BY DEF ApiInit, StoreInit
  <1>2. cursor # Unknown
    BY <1>1, StoreAssumption DEF Unknown
  <1>3. Range(seen) = {} /\ Followed(Upto) = {} /\ IsAscending(seen)
    BY <1>1, <1>2 DEF Range, Followed, Upto, IsAscending
  <1>4. Len(log) = 0 /\ log \in Seq(Range(log)) /\ seen \in Seq(Nat)
    BY <1>1
  <1>5. QED
    BY <1>1, <1>3, <1>4, StoreAssumption DEF PollInv

(* Events are only added behind the others. *)
LEMMA LogGrows ==
    ASSUME PollInv, NEW e, Len(log) < MaxEvents, log' = Append(log, e), UNCHANGED <<cursor, seen>>
    PROVE  PollInv'
  <1> DEFINE S == Range(log) \cup {e}
  <1>1. Len(log) \in Nat /\ log \in [1..Len(log) -> Range(log)]
    BY DEF PollInv
  <1>2. log \in Seq(S)
    BY <1>1
  <1>3. /\ log' \in Seq(S) /\ Len(log') = Len(log) + 1 /\ DOMAIN log' = 1..(Len(log) + 1)
        /\ \A i \in 1..Len(log) : log'[i] = log[i]
    BY <1>1, <1>2
  <1>4. log' \in Seq(Range(log'))
    <2> DEFINE n == Len(log) + 1
    <2>0. PICK f : f = log'
      OBVIOUS
    <2>1. f \in [1..n -> S] /\ n \in Nat
      <3>1. n \in Nat /\ f \in Seq(S) /\ Len(f) = n
        BY <1>1, <1>3, <2>0
      <3> HIDE DEF n, S
      <3>2. f \in [1..Len(f) -> S]
        BY <3>1
      <3>3. QED
        BY <3>1, <3>2
    <2>2. f \in [1..n -> Range(f)]
      BY <2>1 DEF Range
    <2>3. f \in Seq(Range(f))
      BY <2>1, <2>2
    <2>4. QED
      BY <2>0, <2>3
  <1>6. Upto \in 0..Len(log) /\ Upto' = Upto
    BY <1>1 DEF Upto, PollInv, Unknown
  <1>7. Followed(Upto)' = Followed(Upto)
    <2>1. \A i \in 1..Upto : i \in 1..Len(log)
      BY <1>1, <1>6
    <2>2. QED
      BY <1>3, <1>6, <2>1 DEF Followed
  <1>8. cursor' = Unknown \/ cursor' \in 0..Len(log')
    BY <1>1, <1>3 DEF PollInv, Unknown
  <1>9. Len(log') <= MaxEvents
    BY <1>1, <1>3, StoreAssumption
  <1>10. IsAscending(seen)' /\ Range(seen)' = Range(seen)
    BY DEF PollInv, IsAscending, Range
  <1>11. QED
    BY <1>4, <1>7, <1>8, <1>9, <1>10 DEF PollInv

(* A page: the next events of the project behind the cursor, none left out. *)
LEMMA PageFollows ==
    ASSUME PollInv, NEW page, page = ListAfter(Watched, cursor, Limit), page # <<>>
    PROVE  /\ page \in Seq(Nat) /\ Len(page) \in Nat \ {0} /\ IsAscending(page)
           /\ page[Len(page)] \in (Upto + 1)..Len(log)
           /\ Range(page) = Followed(page[Len(page)]) \ Followed(Upto)
           /\ \A j \in 1..Len(page) : page[j] > Upto
  <1> DEFINE K == {i \in DOMAIN log : i > Upto /\ log[i].project = Watched}
             mine == Ascending(K)
             c == Cardinality(K)
             n == IF c < Limit THEN c ELSE Limit
  <1>0. Len(log) \in Nat /\ DOMAIN log = 1..Len(log) /\ Upto \in 0..Len(log)
    BY DEF PollInv, Upto, Unknown
  <1>1. (IF cursor \in DOMAIN log THEN cursor ELSE 0) = Upto
    BY <1>0, StoreAssumption DEF PollInv, Upto, Unknown
  <1>2. mine \in [1..c -> K] /\ Range(mine) = K /\ IsAscending(mine) /\ c \in Nat
    <2>1. K \in SUBSET (1..Len(log))
      BY <1>0
    <2> HIDE DEF K
    <2>2. QED
      BY <1>0, <2>1, AscendingLists
  <1>3. page = SubSeq(mine, 1, IF Len(mine) < Limit THEN Len(mine) ELSE Limit)
    BY <1>1 DEF ListAfter
  <1> HIDE DEF mine, c
  <1>4. \A j \in 1..c : mine[j] \in 1..Len(log) /\ mine[j] > Upto /\ log[mine[j]].project = Watched
    BY <1>0, <1>2
  <1>5. mine \in [1..c -> Nat]
    BY <1>2, <1>4
  <1>6. mine \in Seq(Nat) /\ Len(mine) = c
    BY <1>2, <1>5
  <1>7. n \in 0..c /\ page = SubSeq(mine, 1, n)
    BY <1>2, <1>3, <1>6, ApiAssumption
  <1> HIDE DEF n
  <1>8. /\ page \in Seq(Nat) /\ Len(page) = n /\ DOMAIN page = 1..n
        /\ \A j \in 1..n : page[j] = mine[j] /\ j \in 1..c
    BY <1>2, <1>6, <1>7
  <1>9. n \in Nat \ {0}
    <2>1. n # 0
      BY <1>6, <1>7
    <2>2. QED
      BY <1>2, <1>7, <2>1
  <1>10. IsAscending(page)
    BY <1>2, <1>8 DEF IsAscending
  <1>11. n \in 1..n /\ page[n] = mine[n] /\ page[n] \in 1..Len(log) /\ page[n] > Upto
    BY <1>4, <1>8, <1>9
  <1>12. ASSUME NEW x \in Range(page) PROVE x \in Followed(page[n]) \ Followed(Upto)
    <2>1. PICK j \in 1..n : x = mine[j]
      BY <1>8 DEF Range
    <2>2. x \in 1..Len(log) /\ x > Upto /\ log[x].project = Watched
      BY <1>4, <1>8, <2>1
    <2>3. mine[j] <= mine[n]
      <3>1. CASE j = n
        BY <1>11, <3>1
      <3>2. CASE j # n
        <4>1. j < n /\ j \in 1..c /\ n \in 1..c
          BY <1>8, <1>9, <3>2
        <4>2. mine[j] < mine[n]
          BY <1>2, <4>1 DEF IsAscending
        <4>3. QED
          BY <1>4, <4>1, <4>2
      <3>3. QED
        BY <3>1, <3>2
    <2>4. x \in 1..page[n] /\ x \notin 1..Upto
      BY <1>0, <1>11, <2>1, <2>2, <2>3
    <2>5. QED
      BY <2>2, <2>4 DEF Followed
  <1>13. ASSUME NEW x \in Followed(page[n]) \ Followed(Upto) PROVE x \in Range(page)
    <2>1. x \in 1..page[n] /\ log[x].project = Watched /\ x \notin 1..Upto
      BY <1>13 DEF Followed
    <2>2. x \in 1..Len(log) /\ x > Upto
      BY <1>0, <1>11, <2>1
    <2>3. x \in K
      BY <1>0, <2>1, <2>2
    <2>4. PICK j \in 1..c : mine[j] = x
      BY <1>2, <2>3 DEF Range
    <2>5. j <= n
      <3>1. CASE n < j
        <4>1. mine[n] < mine[j]
          BY <1>2, <1>8, <1>11, <3>1 DEF IsAscending
        <4>2. mine[n] \in Nat /\ x \in Nat /\ x <= mine[n]
          BY <1>11, <2>1
        <4>3. QED
          BY <2>4, <4>1, <4>2
      <3>2. QED
        BY <1>9, <3>1
    <2>6. j \in 1..n
      BY <1>9, <2>5
    <2>7. QED
      BY <1>8, <2>4, <2>6 DEF Range
  <1>14. \A j \in 1..n : page[j] > Upto
    BY <1>4, <1>8
  <1>15. QED
    BY <1>0, <1>8, <1>9, <1>10, <1>11, <1>12, <1>13, <1>14

(* A poll gives the page and moves the cursor to its last event. *)
LEMMA PollKeeps ==
    ASSUME PollInv, ListEvents
    PROVE  PollInv'
  <1> DEFINE page == ListAfter(Watched, cursor, Limit)
             n == Len(page)
             last == page[n]
  <1>1. page # <<>> /\ cursor' = Cursor(page, cursor) /\ seen' = seen \o page /\ log' = log
    BY DEF ListEvents, storeVars
  <1>2. /\ page \in Seq(Nat) /\ n \in Nat \ {0} /\ IsAscending(page) /\ last \in (Upto + 1)..Len(log)
        /\ Range(page) = Followed(last) \ Followed(Upto) /\ \A j \in 1..n : page[j] > Upto
    BY <1>1, PageFollows
  <1>3. cursor' = last
    BY <1>1 DEF Cursor, Last
  <1> HIDE DEF page, last
  <1>4. Len(log) \in Nat /\ Len(log) <= MaxEvents /\ Upto \in 0..Len(log)
    BY DEF PollInv, Upto, Unknown
  <1>5. cursor' \in 0..Len(log) /\ Upto' = last
    <2>1. last \in 0..Len(log) /\ last # MaxEvents + 1
      BY <1>2, <1>4, StoreAssumption
    <2>2. QED
      BY <1>3, <2>1 DEF Upto, Unknown
  <1>6. /\ seen \in Seq(Nat) /\ Len(seen) \in Nat /\ seen' \in Seq(Nat)
        /\ Len(seen') = Len(seen) + n /\ DOMAIN seen' = 1..(Len(seen) + n)
        /\ DOMAIN seen = 1..Len(seen) /\ DOMAIN page = 1..n
        /\ \A j \in 1..Len(seen) : seen'[j] = seen[j]
        /\ \A j \in (Len(seen) + 1)..(Len(seen) + n) : seen'[j] = page[j - Len(seen)]
    BY <1>1, <1>2 DEF PollInv
  <1>7. Range(seen) = Followed(Upto) /\ IsAscending(seen)
    BY DEF PollInv
  <1>8. \A j \in 1..Len(seen) : seen[j] <= Upto
    <2> TAKE j \in 1..Len(seen)
    <2>1. seen[j] \in Followed(Upto)
      BY <1>6, <1>7 DEF Range
    <2>2. QED
      BY <1>4, <2>1 DEF Followed
  <1>9. \A j \in (Len(seen) + 1)..(Len(seen) + n) : j - Len(seen) \in 1..n
    BY <1>2, <1>6
  <1>10. \A j \in 1..(Len(seen) + n) : j \in 1..Len(seen) \/ j \in (Len(seen) + 1)..(Len(seen) + n)
    BY <1>2, <1>6
  <1>11. Range(seen') = Range(seen) \cup Range(page)
    <2>1. ASSUME NEW x \in Range(seen') PROVE x \in Range(seen) \cup Range(page)
      <3>1. PICK j \in 1..(Len(seen) + n) : x = seen'[j]
        BY <1>6 DEF Range
      <3>2. QED
        BY <1>6, <1>9, <1>10, <3>1 DEF Range
    <2>2. ASSUME NEW x \in Range(seen) PROVE x \in Range(seen')
      <3>1. PICK j \in 1..Len(seen) : x = seen[j]
        BY <1>6 DEF Range
      <3>2. j \in DOMAIN seen' /\ seen'[j] = x
        BY <1>2, <1>6, <3>1
      <3>3. QED
        BY <3>2 DEF Range
    <2>3. ASSUME NEW x \in Range(page) PROVE x \in Range(seen')
      <3>1. PICK j \in 1..n : x = page[j]
        BY <1>6 DEF Range
      <3>2. Len(seen) + j \in (Len(seen) + 1)..(Len(seen) + n) /\ (Len(seen) + j) - Len(seen) = j
        BY <1>2, <1>6
      <3>3. seen'[Len(seen) + j] = x /\ Len(seen) + j \in DOMAIN seen'
        <4>1. PICK i \in Nat : i = Len(seen) + j
          BY <1>2, <1>6
        <4>2. i \in (Len(seen) + 1)..(Len(seen) + n) /\ i - Len(seen) = j
          BY <3>2, <4>1
        <4>3. seen'[i] = page[j]
          BY <1>6, <4>2
        <4>4. i \in DOMAIN seen'
          BY <1>6, <4>2
        <4>5. QED
          BY <3>1, <4>1, <4>3, <4>4
      <3>4. QED
        BY <3>3 DEF Range
    <2>4. QED
      BY <2>1, <2>2, <2>3
  <1>12. Followed(Upto) \subseteq Followed(last)
    BY <1>2, <1>4 DEF Followed
  <1>13. Range(seen') = Followed(Upto)'
    <2>1. Range(seen') = Followed(last)
      BY <1>2, <1>7, <1>11, <1>12
    <2>2. Followed(Upto)' = Followed(last)
      BY <1>1, <1>5 DEF Followed
    <2>3. QED
      BY <2>1, <2>2
  <1>14. IsAscending(seen')
    <2> SUFFICES ASSUME NEW j \in 1..(Len(seen) + n), NEW k \in 1..(Len(seen) + n), j < k
                 PROVE  seen'[j] < seen'[k]
      BY <1>6 DEF IsAscending
    <2>1. CASE k \in 1..Len(seen)
      <3>1. j \in 1..Len(seen)
        BY <1>6, <2>1
      <3>2. QED
        BY <1>6, <1>7, <2>1, <3>1 DEF IsAscending
    <2>2. CASE j \in 1..Len(seen) /\ k \in (Len(seen) + 1)..(Len(seen) + n)
      <3>1. seen'[j] = seen[j] /\ seen[j] <= Upto /\ seen[j] \in Nat
        BY <1>6, <1>8, <2>2
      <3>2. PICK i \in 1..n : seen'[k] = page[i]
        BY <1>6, <1>9, <2>2
      <3>3. page[i] > Upto /\ page[i] \in Nat /\ Upto \in Nat
        BY <1>2, <1>4, <1>6, <3>2
      <3>4. QED
        BY <3>1, <3>2, <3>3
    <2>3. CASE j \in (Len(seen) + 1)..(Len(seen) + n) /\ k \in (Len(seen) + 1)..(Len(seen) + n)
      <3>1. /\ seen'[j] = page[j - Len(seen)] /\ seen'[k] = page[k - Len(seen)]
            /\ j - Len(seen) \in 1..n /\ k - Len(seen) \in 1..n
        BY <1>6, <1>9, <2>3
      <3>2. j - Len(seen) < k - Len(seen)
        BY <1>6
      <3>3. QED
        BY <1>2, <1>6, <3>1, <3>2 DEF IsAscending
    <2>4. CASE j \in (Len(seen) + 1)..(Len(seen) + n) /\ k \in 1..Len(seen)
      BY <2>1, <2>4
    <2>5. QED
      BY <1>10, <2>1, <2>2, <2>3, <2>4
  <1>15. log' \in Seq(Range(log')) /\ Len(log') <= MaxEvents
    BY <1>1 DEF PollInv
  <1>16. QED
    BY <1>1, <1>5, <1>6, <1>13, <1>14, <1>15 DEF PollInv

(* Every other step adds to the log, leaves it alone or loses it with the process. *)
LEMMA PollInvStep == PollInv /\ [ApiNext]_productVars => PollInv'
  <1> SUFFICES ASSUME PollInv, [ApiNext]_productVars PROVE PollInv'
    OBVIOUS
  <1>1. ASSUME UNCHANGED <<log, cursor, seen>> PROVE PollInv'
    BY <1>1 DEF PollInv, Followed, Upto, Range, IsAscending
  <1>2. ASSUME NEW e, Publish(e), UNCHANGED <<cursor, seen>> PROVE PollInv'
    BY <1>1, <1>2, LogGrows DEF Publish
  <1>3. CASE Restarted
    <2>1. log' = <<>> /\ seen' = <<>> /\ cursor' \in {0, Unknown}
      BY <1>3 DEF Restarted, Forget
    <2>2. Upto' = 0
      BY <2>1 DEF Upto, Unknown
    <2>3. Followed(Upto)' = {}
      BY <2>2 DEF Followed
    <2>4. Range(seen') = {} /\ IsAscending(seen') /\ seen' \in Seq(Nat)
      BY <2>1 DEF Range, IsAscending
    <2>5. Len(log') = 0 /\ log' \in Seq(Range(log'))
      BY <2>1
    <2>6. QED
      BY <2>1, <2>3, <2>4, <2>5, StoreAssumption DEF PollInv, Unknown
  <1>4. ASSUME NEW u, NEW p, NEW op, NEW k, NEW d, Request(u, p, op, k, d)
        PROVE  UNCHANGED <<cursor, seen>>
    BY <1>4 DEF Request
  <1>5. ASSUME NEW u \in Actors, NEW k \in Keys \cup {NoKey}, NEW m \in Missions,
               \/ CancelMission(u, k, m)
               \/ \E b, c \in BOOLEAN : CreateMission(u, k, m, b, c) \/ ReviewMission(u, k, m, b, c)
        PROVE  PollInv'
    <2>1. UNCHANGED <<cursor, seen>>
      BY <1>4, <1>5 DEF CancelMission, CreateMission, ReviewMission
    <2>2. UNCHANGED log \/ \E e : Publish(e)
      BY <1>5 DEF CancelMission, CreateMission, ReviewMission, storeVars
    <2>3. QED
      BY <1>1, <1>2, <2>1, <2>2
  <1>6. ASSUME NEW u \in Actors, NEW k \in Keys \cup {NoKey},
               \/ \E op \in {"probe", "evaluate"} : Probe(u, k, op)
               \/ \E p \in Projects : EnrollRequest(u, k, p) \/ CreateProject(u, k, p)
               \/ \E a \in Approvals, b \in BOOLEAN : ResolveApproval(u, k, a, b)
        PROVE  PollInv'
    <2>1. UNCHANGED <<cursor, seen>>
      BY <1>4, <1>6 DEF Probe, EnrollRequest, CreateProject, ResolveApproval
    <2>2. UNCHANGED log \/ \E e : Publish(e)
      BY <1>6 DEF Probe, EnrollRequest, EnrollWorker, CreateProject, CreateConfig, ResolveApproval,
                  Resolve, storeVars
    <2>3. QED
      BY <1>1, <1>2, <2>1, <2>2
  <1>7. ASSUME NEW u, NEW p, NEW s, UpdateProject(u, p, s) PROVE PollInv'
    BY <1>1, <1>7 DEF UpdateProject, UpdateConfig, apiVars
  <1>8. ASSUME NEW m \in Missions,
               \/ CancelCrashes(m)
               \/ \E b, c \in BOOLEAN : CreateCrashes(m, b, c) \/ ReviewCrashes(m, b, c)
        PROVE  PollInv'
    BY <1>3, <1>8 DEF CancelCrashes, CreateCrashes, ReviewCrashes
  <1>9. ASSUME NEW m \in Missions, ReadMission(m) \/ \E u \in Actors : DemoSideEffect(u, m)
        PROVE  PollInv'
    BY <1>1, <1>9 DEF ReadMission, DemoSideEffect, apiVars
  <1>10. ASSUME NEW a \in Approvals, CreateApproval(a) \/ ApprovalExpires(a), UNCHANGED apiVars
         PROVE  PollInv'
    BY <1>1, <1>2, <1>10 DEF CreateApproval, ApprovalExpires, apiVars
  <1>11. CASE Restart
    BY <1>3, <1>11 DEF Restart
  <1>12. CASE UNCHANGED productVars
    BY <1>1, <1>12 DEF productVars, storeVars, apiVars
  <1>13. QED
    BY <1>5, <1>6, <1>7, <1>8, <1>9, <1>10, <1>11, <1>12, PollKeeps DEF ApiNext

(* A client that follows its cursor is given every event of its project once and in    *)
(* order, for every page size, also across a restart of the process.                   *)
THEOREM PollIsComplete == ApiSpec => []PollSeesEachEventOnce
  <1>1. PollInv => PollSeesEachEventOnce
    BY DEF PollInv, PollSeesEachEventOnce, Followed, Upto
  <1>2. QED
    BY <1>1, PollInvInit, PollInvStep, PTL DEF ApiSpec
================================================================================
