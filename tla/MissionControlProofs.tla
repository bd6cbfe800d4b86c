-------------------------- MODULE MissionControlProofs -------------------------
(* Proofs about MissionControl for every set of missions, tasks, specs, drafts,   *)
(* schedulers, sites and attempts and every bound.                                *)
EXTENDS MissionControl, TLAPS

--------------------------------------------------------------------------------
(* Facts about the operators. *)

(* Restore, AdvanceEpoch and Fence: the record of a site keeps its type and its     *)
(* epoch never goes back.                                                           *)
LEMMA SiteStep ==
    ASSUME SiteTypeOK, SiteNext \/ UNCHANGED siteVars
    PROVE  /\ SiteTypeOK'
           /\ \A s \in Sites : site[s].epoch \in Nat /\ site'[s].epoch \in Nat
                               /\ site[s].epoch <= site'[s].epoch
  <1> USE SiteAssumption DEF SiteTypeOK, Authority, AuthorityState
  <1>1. CASE UNCHANGED siteVars
    BY <1>1 DEF siteVars
  <1>2. ASSUME NEW s \in Sites, Create(s)
        PROVE  SiteTypeOK' /\ site' = site
    BY <1>2 DEF Create, BackupManifest
  <1>3. ASSUME NEW s \in Sites, Fence(s)
        PROVE  SiteTypeOK' /\ \A x \in Sites : site'[x].epoch = site[x].epoch
    BY <1>3 DEF Fence
  <1>4. ASSUME NEW s \in Sites, AdvanceEpoch(s)
        PROVE  /\ SiteTypeOK'
               /\ \A x \in Sites : site[x].epoch <= site'[x].epoch
    BY <1>4 DEF AdvanceEpoch, Advanced
  <1>5. ASSUME NEW b \in manifests, NEW t \in Sites, Restore(b, t)
        PROVE  /\ SiteTypeOK'
               /\ \A x \in Sites : site[x].epoch <= site'[x].epoch
    <2>1. b \in BackupManifest /\ b.source \in Sites
      BY DEF BackupManifest
    <2>2. /\ site' = RestoredSites(b.source, t)
          /\ site[t].epoch < MaxEpoch
          /\ manifests' = manifests
      BY <1>5 DEF Restore
    <2>3. /\ site' \in [Sites -> Authority]
          /\ \A x \in Sites : site[x].epoch <= site'[x].epoch
      BY <2>1, <2>2 DEF RestoredSites, Advanced
    <2>4. [source |-> t, epoch |-> site'[t].epoch] \in BackupManifest
      BY <2>3 DEF BackupManifest
    <2>5. recovered' \subseteq RecoveryReceipt
      BY <1>5, <2>1, <2>4 DEF Restore, RecoveryReceipt
    <2>6. QED
      BY <2>2, <2>3, <2>5
  <1>6. QED
    BY <1>1, <1>2, <1>3, <1>4, <1>5 DEF SiteNext

--------------------------------------------------------------------------------
(* Types. *)

(* A mission's tasks are a map over some of the task ids. *)
LEMMA MapOf ==
    ASSUME TypeOK, NEW m \in Missions
    PROVE  DOMAIN tasks[m] \in SUBSET Tasks /\ tasks[m] \in [DOMAIN tasks[m] -> Task]
  <1>1. tasks[m] \in TaskMap
    BY DEF TypeOK
  <1>2. PICK D \in SUBSET Tasks : tasks[m] \in [D -> Task]
    BY <1>1, Zenon DEF TaskMap
  <1>3. QED
    BY <1>2

(* spawn and split: the specs of a validated proposal become ready tasks over the    *)
(* map that is there, under their own ids and with the dependencies the cycle check   *)
(* looked at.                                                                         *)
LEMMA SpawnedMap ==
    ASSUME TypeOK, NEW p \in proposals
    PROVE  LET map == Spawned(p.mission, p.specs) IN
           /\ map \in TaskMap
           /\ DOMAIN map = DOMAIN tasks[p.mission] \cup {s.id : s \in p.specs}
           /\ \A t \in DOMAIN map : map[t].spec.id = t
           /\ [t \in DOMAIN map |-> map[t].spec.deps] = Projected(p.mission, p.specs)
           /\ {s.id : s \in p.specs} \subseteq Tasks
  <1> DEFINE m == p.mission
             ids == {s.id : s \in p.specs}
             map == Spawned(m, p.specs)
  <1>1. p.specs \subseteq Specs /\ m \in Missions
    BY DEF TypeOK, GraphProposal
  <1>2. \A t \in ids :
           /\ \E s \in p.specs : s.id = t
           /\ (CHOOSE s \in p.specs : s.id = t) \in Specs
           /\ (CHOOSE s \in p.specs : s.id = t).id = t
           /\ t \in Tasks
    BY <1>1, ControlAssumption
  <1>3. PICK D \in SUBSET Tasks : tasks[m] \in [D -> Task]
    BY <1>1, MapOf
  <1>4. DOMAIN map = D \cup ids /\ DOMAIN tasks[m] = D
    BY <1>3 DEF Spawned
  <1>5. \A t \in D \cup ids : map[t] \in Task /\ map[t].spec.id = t
    BY <1>1, <1>2, <1>3 DEF Spawned, TypeOK, Task, TaskStatus
  <1>6. map \in TaskMap
    <2>1. map \in [D \cup ids -> Task]
      BY <1>3, <1>5 DEF Spawned
    <2>2. D \cup ids \in SUBSET Tasks
      BY <1>2
    <2>3. QED
      BY <2>1, <2>2, Zenon DEF TaskMap
  <1>7. [t \in DOMAIN map |-> map[t].spec.deps] = Projected(m, p.specs)
    BY <1>3, <1>4 DEF Projected, Spawned
  <1>8. QED
    BY <1>2, <1>4, <1>5, <1>6, <1>7

(* The controller starts with no mission, every site active at epoch 1. *)
LEMMA TypeInit == Init => TypeOK
  <1> SUFFICES ASSUME Init PROVE TypeOK
    OBVIOUS
  <1> USE DEF Init
  <1>1. SiteTypeOK
    BY SiteAssumption DEF SiteInit, Bootstrap, SiteTypeOK, Authority, AuthorityState
  <1>2. tasks \in [Missions -> TaskMap] /\ \A m \in Missions : DOMAIN tasks[m] = {}
    <2>1. <<>> \in [{} -> Task]
      OBVIOUS
    <2>2. <<>> \in TaskMap
      BY <2>1, Zenon DEF TaskMap
    <2>3. QED
      BY <2>2
  <1>3. mission \in [Missions -> [status : MissionStatus, revision : Nat]]
    BY DEF MissionStatus
  <1>4. attempts \in [Attempts -> [task : Tasks \cup {"none"}, verified : BOOLEAN]]
    OBVIOUS
  <1>5. sched \in [Schedulers -> [cooldown : 0..CooldownTicks, draining : BOOLEAN, epoch : 1..MaxEpoch]]
    BY ControlAssumption, SiteAssumption
  <1>6. overloads \in 0..MaxOverloads
    BY ControlAssumption
  <1>7. QED
    BY <1>1, <1>2, <1>3, <1>4, <1>5, <1>6 DEF TypeOK

(* submit, propose, commit, try_complete and cancel keep the types. *)
LEMMA TypeMission ==
    ASSUME TypeOK,
           \/ \E m \in Missions : \/ SubmitMission(m) \/ TryComplete(m) \/ CancelMission(m)
                                  \/ \E d \in Drafts : ProposeGraphChange(m, d)
           \/ \E p \in proposals : CommitValidatedRevision(p)
    PROVE  TypeOK'
  <1> USE DEF MissionStatus
  <1>1. ASSUME NEW m \in Missions, SubmitMission(m) PROVE TypeOK'
    BY <1>1 DEF SubmitMission, TypeOK, SiteTypeOK, siteVars
  <1>2. ASSUME NEW m \in Missions, TryComplete(m) PROVE TypeOK'
    BY <1>2 DEF TryComplete, TypeOK, SiteTypeOK, siteVars
  <1>3. ASSUME NEW m \in Missions, CancelMission(m) PROVE TypeOK'
    <2>1. PICK D \in SUBSET Tasks : tasks[m] \in [D -> Task]
      BY MapOf
    <2>2. tasks'[m] \in [D -> Task] /\ \A t \in D : tasks'[m][t].spec = tasks[m][t].spec
      BY <1>3, <2>1 DEF CancelMission, TypeOK, Task, TaskStatus
    <2>3. tasks'[m] \in TaskMap
      BY <2>2, Zenon DEF TaskMap
    <2>4. tasks' \in [Missions -> TaskMap] /\ \A x \in Missions : x # m => tasks'[x] = tasks[x]
      BY <1>3, <2>3 DEF CancelMission, TypeOK
    <2>5. \A x \in Missions : \A t \in DOMAIN tasks'[x] : tasks'[x][t].spec.id = t
      BY <2>1, <2>2, <2>4 DEF TypeOK
    <2>6. QED
      BY <1>3, <2>4, <2>5 DEF CancelMission, TypeOK, SiteTypeOK, siteVars
  <1>4. ASSUME NEW m \in Missions, NEW d \in Drafts, ProposeGraphChange(m, d) PROVE TypeOK'
    <2>1. d.op \in GraphOperation /\ d.specs \in SUBSET Specs
      BY ControlAssumption
    <2>2. DOMAIN tasks[m] \in SUBSET Tasks
      BY MapOf
    <2>3. proposals' \subseteq GraphProposal
      BY <1>4, <2>1, <2>2 DEF ProposeGraphChange, TypeOK, GraphProposal
    <2>4. QED
      BY <1>4, <2>3 DEF ProposeGraphChange, TypeOK, SiteTypeOK, siteVars
  <1>5. ASSUME NEW p \in proposals, CommitValidatedRevision(p) PROVE TypeOK'
    <2>1. p.mission \in Missions
      BY DEF TypeOK, GraphProposal
    <2>2. /\ tasks' \in [Missions -> TaskMap]
          /\ \A m \in Missions : \A t \in DOMAIN tasks'[m] : tasks'[m][t].spec.id = t
      BY <1>5, <2>1, SpawnedMap DEF CommitValidatedRevision, TypeOK
    <2>3. mission' \in [Missions -> [status : MissionStatus, revision : Nat]]
      BY <1>5, <2>1 DEF CommitValidatedRevision, TypeOK, Raised
    <2>4. QED
      BY <1>5, <2>2, <2>3 DEF CommitValidatedRevision, TypeOK, SiteTypeOK, siteVars
  <1>6. QED
    BY <1>1, <1>2, <1>3, <1>4, <1>5

(* The scheduler's operations and the workers' reports keep the types. *)
LEMMA TypeWork ==
    ASSUME TypeOK,
           \/ \E a \in Attempts : RecordVerification(a) \/ \E d \in picked : RegisterAttempt(a, d)
           \/ \E k \in Schedulers :
                \/ NoteInferenceExhaustion(k) \/ NewScheduler(k)
                \/ \E b \in BOOLEAN : Drain(k, b)
                \/ \E m \in Missions : ChooseReadyWork(m, k)
           \/ \E s \in Slots : ExpandCapacity(s)
    PROVE  TypeOK'
  <1>1. ASSUME NEW a \in Attempts, RecordVerification(a) PROVE TypeOK'
    <2>1. ASSUME NEW m \in Missions
          PROVE  tasks'[m] \in TaskMap /\ \A t \in DOMAIN tasks'[m] : tasks'[m][t].spec.id = t
      <3>1. PICK D \in SUBSET Tasks : tasks[m] \in [D -> Task]
        BY MapOf
      <3>2. tasks'[m] \in [D -> Task] /\ \A t \in D : tasks'[m][t].spec = tasks[m][t].spec
        <4>1. CASE attempts[a].task \notin D
          BY <1>1, <3>1, <4>1 DEF RecordVerification
        <4>2. CASE attempts[a].task \in D
          <5>1. tasks'[m] = [tasks[m] EXCEPT ![attempts[a].task].status = "accepted"]
            BY <1>1, <3>1, <4>2 DEF RecordVerification
          <5>2. QED
            BY <3>1, <4>2, <5>1 DEF Task, TaskStatus
        <4>3. QED
          BY <4>1, <4>2
      <3>3. tasks'[m] \in TaskMap
        BY <3>2, Zenon DEF TaskMap
      <3>4. QED
        BY <3>1, <3>2, <3>3 DEF TypeOK
    <2>2. tasks' \in [Missions -> TaskMap]
      BY <1>1, <2>1 DEF RecordVerification
    <2>3. QED
      BY <1>1, <2>1, <2>2 DEF RecordVerification, TypeOK, SiteTypeOK, siteVars
  <1>2. ASSUME NEW a \in Attempts, NEW d \in picked, RegisterAttempt(a, d) PROVE TypeOK'
    BY <1>2 DEF RegisterAttempt, TypeOK, SiteTypeOK, siteVars
  <1>3. ASSUME NEW k \in Schedulers, NoteInferenceExhaustion(k) PROVE TypeOK'
    BY <1>3, ControlAssumption DEF NoteInferenceExhaustion, TypeOK, SiteTypeOK, siteVars
  <1>4. ASSUME NEW k \in Schedulers, NewScheduler(k) PROVE TypeOK'
    BY <1>4, ControlAssumption DEF NewScheduler, TypeOK, SiteTypeOK, Authority, siteVars
  <1>5. ASSUME NEW k \in Schedulers, NEW b \in BOOLEAN, Drain(k, b) PROVE TypeOK'
    BY <1>5 DEF Drain, TypeOK, SiteTypeOK, siteVars
  <1>6. ASSUME NEW k \in Schedulers, NEW m \in Missions, ChooseReadyWork(m, k) PROVE TypeOK'
    <2>1. sched' \in [Schedulers -> [cooldown : 0..CooldownTicks, draining : BOOLEAN, epoch : 1..MaxEpoch]]
      BY <1>6, ControlAssumption DEF ChooseReadyWork, TypeOK, Ticked
    <2>2. DOMAIN tasks[m] \subseteq Tasks
      BY MapOf
    <2>3. \A n : Selected(m, n) \subseteq Tasks
      BY <2>2 DEF Selected, Ready
    <2>4. picked' \subseteq [mission : Missions, task : Tasks, epoch : Nat]
      BY <1>6, <2>3, SiteAssumption DEF ChooseReadyWork, TypeOK
    <2>5. QED
      BY <1>6, <2>1, <2>4 DEF ChooseReadyWork, TypeOK, SiteTypeOK, siteVars
  <1>7. ASSUME NEW s \in Slots, ExpandCapacity(s) PROVE TypeOK'
    BY <1>7 DEF ExpandCapacity, TypeOK, SiteTypeOK, siteVars
  <1>8. QED
    BY <1>1, <1>2, <1>3, <1>4, <1>5, <1>6, <1>7

(* Every call of the controller, the scheduler and the site authority keeps the rows  *)
(* in their shape.                                                                    *)
LEMMA TypeStep == TypeOK /\ [Next]_vars => TypeOK'
  <1> SUFFICES ASSUME TypeOK, [Next]_vars PROVE TypeOK'
    OBVIOUS
  <1>1. CASE UNCHANGED vars
    BY <1>1 DEF vars, siteVars, controlVars, TypeOK, SiteTypeOK
  <1>2. CASE SiteNext /\ UNCHANGED controlVars
    <2>1. SiteTypeOK'
      BY <1>2, SiteStep DEF TypeOK
    <2>2. QED
      BY <1>2, <2>1 DEF controlVars, TypeOK
  <1>3. CASE ControlNext
    BY <1>3, TypeMission, TypeWork DEF ControlNext
  <1>4. QED
    BY <1>1, <1>2, <1>3 DEF Next

(* The controller's rows and the site records have their types in every state.       *)
THEOREM ControlTypes == Spec => []TypeOK
  BY TypeInit, TypeStep, PTL DEF Spec

--------------------------------------------------------------------------------
(* The inductive invariant. *)

(* A mission has revision 0 exactly before it is submitted, and no task then. *)
OpenedHasRevision == \A m \in Missions :
    /\ mission[m].status = "none" <=> mission[m].revision = 0
    /\ mission[m].revision = 0 => DOMAIN tasks[m] = {}

(* A proposal was made at a revision that was reached, and while the mission is still   *)
(* at that revision its task set is the one the planner saw.                            *)
ProposalsSawTheGraph == \A p \in proposals :
    /\ 0 < p.based /\ p.based <= mission[p.mission].revision
    /\ p.based = mission[p.mission].revision => p.seen = DOMAIN tasks[p.mission]

(* Only registered attempts hold a receipt. *)
VerifiedIsRegistered == \A a \in Attempts : attempts[a].verified => attempts[a].task # "none"

(* Nothing was dispatched under an epoch the site has not reached. *)
PickedByNow == \A e \in picked : e.epoch <= site[Home].epoch

ControlInv ==
    /\ OpenedHasRevision
    /\ ProposalsSawTheGraph
    /\ VerifiedIsRegistered
    /\ PickedByNow
    /\ GraphAcyclic
    /\ CompletedMeansVerified

(* Before the first mission there is nothing to violate. *)
LEMMA ControlInit == Init => ControlInv
  <1> SUFFICES ASSUME Init PROVE ControlInv
    OBVIOUS
  <1>1. \A m \in Missions : DOMAIN tasks[m] = {} /\ mission[m] = [status |-> "none", revision |-> 0]
    BY DEF Init
  <1>2. OpenedHasRevision
    BY <1>1 DEF OpenedHasRevision
  <1>3. ProposalsSawTheGraph /\ PickedByNow
    BY DEF Init, ProposalsSawTheGraph, PickedByNow
  <1>4. VerifiedIsRegistered
    BY DEF Init, VerifiedIsRegistered
  <1>5. GraphAcyclic
    BY <1>1 DEF GraphAcyclic, WouldCycle
  <1>6. CompletedMeansVerified
    BY <1>1 DEF CompletedMeansVerified
  <1>7. QED
    BY <1>2, <1>3, <1>4, <1>5, <1>6 DEF ControlInv

(* submit_mission opens an empty graph at revision 1. *)
LEMMA InvSubmit ==
    ASSUME TypeOK, ControlInv, NEW m \in Missions, SubmitMission(m)
    PROVE  ControlInv'
  <1> USE DEF TypeOK, SubmitMission, siteVars
  <1>1. OpenedHasRevision'
    BY DEF ControlInv, OpenedHasRevision
  <1>2. ProposalsSawTheGraph'
    <2> SUFFICES ASSUME NEW p \in proposals
                 PROVE  /\ 0 < p.based /\ p.based <= mission'[p.mission].revision
                        /\ p.based = mission'[p.mission].revision => p.seen = DOMAIN tasks[p.mission]
      BY DEF ProposalsSawTheGraph
    <2>1. p.mission \in Missions /\ p.based \in Nat
      BY DEF GraphProposal
    <2>2. p.mission # m
      BY <2>1 DEF ControlInv, OpenedHasRevision, ProposalsSawTheGraph
    <2>3. QED
      BY <2>1, <2>2 DEF ControlInv, ProposalsSawTheGraph
  <1>3. VerifiedIsRegistered' /\ PickedByNow' /\ GraphAcyclic'
    BY DEF ControlInv, VerifiedIsRegistered, PickedByNow, GraphAcyclic
  <1>4. CompletedMeansVerified'
    BY DEF ControlInv, CompletedMeansVerified, Finished, Status, Verified
  <1>5. QED
    BY <1>1, <1>2, <1>3, <1>4 DEF ControlInv

(* propose_graph_change records the revision and the tasks that are there. *)
LEMMA InvPropose ==
    ASSUME TypeOK, ControlInv, NEW m \in Missions, NEW d \in Drafts, ProposeGraphChange(m, d)
    PROVE  ControlInv'
  <1> USE DEF TypeOK, ProposeGraphChange, siteVars
  <1>1. OpenedHasRevision' /\ VerifiedIsRegistered' /\ PickedByNow' /\ GraphAcyclic'
    BY DEF ControlInv, OpenedHasRevision, VerifiedIsRegistered, PickedByNow, GraphAcyclic
  <1>2. ProposalsSawTheGraph'
    <2>1. 0 < mission[m].revision
      BY DEF ControlInv, OpenedHasRevision
    <2>2. QED
      BY <2>1 DEF ControlInv, ProposalsSawTheGraph
  <1>3. CompletedMeansVerified'
    BY DEF ControlInv, CompletedMeansVerified, Finished, Status, Verified
  <1>4. QED
    BY <1>1, <1>2, <1>3 DEF ControlInv

(* commit_validated_revision: the graph that commits is the one the cycle check saw,  *)
(* and every earlier proposal is at an older revision afterwards.                     *)
LEMMA InvCommit ==
    ASSUME TypeOK, ControlInv, NEW p \in proposals, CommitValidatedRevision(p)
    PROVE  ControlInv'
  <1> DEFINE m == p.mission
  <1>1. m \in Missions /\ p.based \in Nat
    BY DEF TypeOK, GraphProposal
  <1>2. /\ ValidateProposal(p)
        /\ UNCHANGED <<site, proposals, attempts, picked>>
        /\ \A x \in Missions : x # m => mission'[x] = mission[x] /\ tasks'[x] = tasks[x]
        /\ p.op = "stop" => /\ mission'[m] = [mission[m] EXCEPT !.status = "cancelled"]
                            /\ tasks'[m] = tasks[m]
        /\ p.op # "stop" => mission'[m] = [status |-> "running", revision |-> mission[m].revision + 1]
        /\ ~Spawns(p) => tasks'[m] = tasks[m]
        /\ Spawns(p) => tasks'[m] = Spawned(m, p.specs)
    BY <1>1 DEF CommitValidatedRevision, TypeOK, siteVars, Raised, Spawns
  <1>3. mission[m].revision \in Nat /\ 0 < mission[m].revision /\ p.based = mission[m].revision
    BY <1>1, <1>2 DEF TypeOK, ControlInv, ProposalsSawTheGraph, ValidateProposal
  <1>4. OpenedHasRevision'
    <2>1. /\ mission'[m].status # "none"
          /\ mission'[m].revision # 0
      BY <1>1, <1>2, <1>3 DEF TypeOK
    <2>2. QED
      BY <1>2, <2>1 DEF ControlInv, OpenedHasRevision
  <1>5. ProposalsSawTheGraph'
    <2> SUFFICES ASSUME NEW q \in proposals
                 PROVE  /\ 0 < q.based /\ q.based <= mission'[q.mission].revision
                        /\ q.based = mission'[q.mission].revision => q.seen = DOMAIN tasks'[q.mission]
      BY <1>2 DEF ProposalsSawTheGraph
    <2>1. q.mission \in Missions /\ q.based \in Nat
      BY DEF TypeOK, GraphProposal
    <2>2. 0 < q.based /\ q.based <= mission[q.mission].revision
      BY DEF ControlInv, ProposalsSawTheGraph
    <2>3. CASE q.mission # m \/ p.op = "stop"
      BY <1>1, <1>2, <2>1, <2>3 DEF ControlInv, ProposalsSawTheGraph, TypeOK
    <2>4. CASE q.mission = m /\ p.op # "stop"
      BY <1>2, <1>3, <2>1, <2>2, <2>4
    <2>5. QED
      BY <2>3, <2>4
  <1>6. VerifiedIsRegistered' /\ PickedByNow'
    BY <1>2 DEF ControlInv, VerifiedIsRegistered, PickedByNow
  <1>7. GraphAcyclic'
    <2> SUFFICES ASSUME NEW x \in Missions
                 PROVE  ~WouldCycle([t \in DOMAIN tasks'[x] |-> tasks'[x][t].spec.deps])
      BY DEF GraphAcyclic
    <2>1. CASE x # m \/ ~Spawns(p)
      BY <1>2, <2>1 DEF ControlInv, GraphAcyclic
    <2>2. CASE x = m /\ Spawns(p)
      <3>1. ~WouldCycle(Projected(m, p.specs))
        BY <1>2, <2>2 DEF ValidateProposal, Spawns
      <3>2. [t \in DOMAIN tasks'[m] |-> tasks'[m][t].spec.deps] = Projected(m, p.specs)
        BY <1>2, <2>2, SpawnedMap
      <3>3. QED
        BY <2>2, <3>1, <3>2
    <2>3. QED
      BY <2>1, <2>2
  <1>8. CompletedMeansVerified'
    <2>1. mission'[m].status # "completed"
      BY <1>1, <1>2 DEF TypeOK
    <2>2. QED
      BY <1>2, <2>1 DEF ControlInv, CompletedMeansVerified, Finished, Status, Verified
  <1>9. QED
    BY <1>4, <1>5, <1>6, <1>7, <1>8 DEF ControlInv

(* try_complete completes a mission whose tasks are all done. *)
LEMMA InvComplete ==
    ASSUME TypeOK, ControlInv, NEW m \in Missions, TryComplete(m)
    PROVE  ControlInv'
  <1> USE DEF TypeOK, TryComplete, siteVars
  <1>1. mission[m].revision # 0
    BY DEF ControlInv, OpenedHasRevision, Finished
  <1>2. /\ \A x \in Missions : x # m => mission'[x] = mission[x]
        /\ mission'[m].status = "completed"
        /\ \A x \in Missions : mission'[x].revision = mission[x].revision
    OBVIOUS
  <1>3. OpenedHasRevision'
    BY <1>1, <1>2 DEF ControlInv, OpenedHasRevision
  <1>4. ProposalsSawTheGraph'
    BY <1>2 DEF ControlInv, ProposalsSawTheGraph, GraphProposal
  <1>5. VerifiedIsRegistered' /\ PickedByNow' /\ GraphAcyclic'
    BY DEF ControlInv, VerifiedIsRegistered, PickedByNow, GraphAcyclic
  <1>6. CompletedMeansVerified'
    <2>1. \A x \in Missions : Finished(x) => Finished(x)'
      BY DEF Finished, Status, Verified
    <2>2. QED
      BY <1>2, <2>1 DEF ControlInv, CompletedMeansVerified
  <1>7. QED
    BY <1>3, <1>4, <1>5, <1>6 DEF ControlInv

(* cancel_mission keeps the graph and closes its tasks. *)
LEMMA InvCancel ==
    ASSUME TypeOK, ControlInv, NEW m \in Missions, CancelMission(m)
    PROVE  ControlInv'
  <1>1. /\ UNCHANGED <<site, proposals, attempts, picked>>
        /\ \A x \in Missions : x # m => mission'[x] = mission[x] /\ tasks'[x] = tasks[x]
        /\ mission'[m] = [mission[m] EXCEPT !.status = "cancelled"]
        /\ mission[m].status # "none"
        /\ tasks'[m] = [t \in DOMAIN tasks[m] |-> [tasks[m][t] EXCEPT !.status = "cancelled"]]
    BY DEF CancelMission, TypeOK, siteVars
  <1>2. mission'[m].status = "cancelled" /\ mission'[m].revision = mission[m].revision
    BY <1>1 DEF TypeOK
  <1>3. /\ DOMAIN tasks'[m] = DOMAIN tasks[m]
        /\ \A t \in DOMAIN tasks[m] : tasks'[m][t].spec = tasks[m][t].spec
    BY <1>1, MapOf DEF Task
  <1>4. OpenedHasRevision'
    <2> SUFFICES ASSUME NEW x \in Missions
                 PROVE  /\ mission'[x].status = "none" <=> mission'[x].revision = 0
                        /\ mission'[x].revision = 0 => DOMAIN tasks'[x] = {}
      BY DEF OpenedHasRevision
    <2>1. CASE x = m
      BY <1>1, <1>2, <1>3, <2>1 DEF ControlInv, OpenedHasRevision
    <2>2. CASE x # m
      BY <1>1, <2>2 DEF ControlInv, OpenedHasRevision
    <2>3. QED
      BY <2>1, <2>2
  <1>5. ProposalsSawTheGraph'
    BY <1>1, <1>2, <1>3 DEF ControlInv, ProposalsSawTheGraph, TypeOK, GraphProposal
  <1>6. VerifiedIsRegistered' /\ PickedByNow'
    BY <1>1 DEF ControlInv, VerifiedIsRegistered, PickedByNow
  <1>7. GraphAcyclic'
    <2>1. [t \in DOMAIN tasks'[m] |-> tasks'[m][t].spec.deps]
            = [t \in DOMAIN tasks[m] |-> tasks[m][t].spec.deps]
      BY <1>3
    <2>2. QED
      BY <1>1, <2>1 DEF ControlInv, GraphAcyclic
  <1>8. CompletedMeansVerified'
    <2> SUFFICES ASSUME NEW x \in Missions, mission'[x].status = "completed"
                 PROVE  Finished(x)'
      BY DEF CompletedMeansVerified
    <2>1. x # m
      BY <1>2
    <2>2. Finished(x)
      BY <1>1, <2>1 DEF ControlInv, CompletedMeansVerified
    <2>3. QED
      BY <1>1, <2>1, <2>2 DEF Finished, Status, Verified
  <1>9. QED
    BY <1>4, <1>5, <1>6, <1>7, <1>8 DEF ControlInv

(* record_verification: the task that becomes accepted is the verified attempt's, in   *)
(* every mission that has it, so no completed mission loses a receipt.                *)
LEMMA InvVerify ==
    ASSUME TypeOK, ControlInv, NEW a \in Attempts, RecordVerification(a)
    PROVE  ControlInv'
  <1> DEFINE u == attempts[a].task
  <1>1. /\ UNCHANGED <<site, mission, proposals, picked>>
        /\ u # "none"
        /\ attempts' = [attempts EXCEPT ![a].verified = TRUE]
    BY DEF RecordVerification, siteVars
  <1>2. \A x \in Attempts : /\ attempts'[x].task = attempts[x].task
                            /\ attempts'[x].verified <=> attempts[x].verified \/ x = a
    BY <1>1 DEF TypeOK
  <1>3. ASSUME NEW m \in Missions
        PROVE  /\ DOMAIN tasks'[m] = DOMAIN tasks[m]
               /\ \A t \in DOMAIN tasks[m] :
                     /\ tasks'[m][t].spec = tasks[m][t].spec
                     /\ tasks'[m][t].status = IF t = u THEN "accepted" ELSE tasks[m][t].status
    <2>1. tasks[m] \in [DOMAIN tasks[m] -> Task]
      BY MapOf
    <2>2. CASE u \notin DOMAIN tasks[m]
      BY <2>1, <2>2 DEF RecordVerification
    <2>3. CASE u \in DOMAIN tasks[m]
      <3>1. tasks'[m] = [tasks[m] EXCEPT ![u].status = "accepted"]
        BY <2>3 DEF RecordVerification
      <3>2. QED
        BY <2>1, <2>3, <3>1 DEF Task
    <2>4. QED
      BY <2>2, <2>3
  <1>4. OpenedHasRevision'
    BY <1>1, <1>3 DEF ControlInv, OpenedHasRevision
  <1>5. ProposalsSawTheGraph'
    BY <1>1, <1>3 DEF ControlInv, ProposalsSawTheGraph, TypeOK, GraphProposal
  <1>6. VerifiedIsRegistered' /\ PickedByNow'
    BY <1>1, <1>2 DEF ControlInv, VerifiedIsRegistered, PickedByNow
  <1>7. GraphAcyclic'
    <2> SUFFICES ASSUME NEW m \in Missions
                 PROVE  ~WouldCycle([t \in DOMAIN tasks'[m] |-> tasks'[m][t].spec.deps])
      BY DEF GraphAcyclic
    <2>1. [t \in DOMAIN tasks'[m] |-> tasks'[m][t].spec.deps]
            = [t \in DOMAIN tasks[m] |-> tasks[m][t].spec.deps]
      BY <1>3
    <2>2. QED
      BY <2>1 DEF ControlInv, GraphAcyclic
  <1>8. CompletedMeansVerified'
    <2> SUFFICES ASSUME NEW m \in Missions, mission[m].status = "completed"
                 PROVE  Finished(m)'
      BY <1>1 DEF CompletedMeansVerified
    <2>1. Finished(m)
      BY DEF ControlInv, CompletedMeansVerified
    <2>2. \A t : Verified(t) => Verified(t)'
      BY <1>2 DEF Verified
    <2>3. \A t : t = u => Verified(t)'
      BY <1>2 DEF Verified
    <2>4. ASSUME NEW t \in DOMAIN tasks[m]
          PROVE  \/ tasks'[m][t].status = "cancelled"
                 \/ tasks'[m][t].status = "accepted" /\ Verified(t)'
      <3>1. \/ tasks[m][t].status = "cancelled"
            \/ tasks[m][t].status = "accepted" /\ Verified(t)
        BY <2>1 DEF Finished, Status
      <3>2. tasks'[m][t].status = IF t = u THEN "accepted" ELSE tasks[m][t].status
        BY <1>3
      <3>3. QED
        BY <2>2, <2>3, <3>1, <3>2
    <2>5. DOMAIN tasks'[m] = DOMAIN tasks[m]
      BY <1>3
    <2>6. QED
      BY <2>1, <2>4, <2>5 DEF Finished, Status
  <1>9. QED
    BY <1>4, <1>5, <1>6, <1>7, <1>8 DEF ControlInv

(* register_attempt binds an attempt that holds no receipt. *)
LEMMA InvRegister ==
    ASSUME TypeOK, ControlInv, NEW a \in Attempts, NEW d \in picked, RegisterAttempt(a, d)
    PROVE  ControlInv'
  <1> USE DEF TypeOK, RegisterAttempt, siteVars
  <1>1. OpenedHasRevision' /\ ProposalsSawTheGraph' /\ PickedByNow' /\ GraphAcyclic'
    BY DEF ControlInv, OpenedHasRevision, ProposalsSawTheGraph, PickedByNow, GraphAcyclic
  <1>2. /\ ~attempts[a].verified
        /\ \A x \in Attempts : x # a => attempts'[x] = attempts[x]
        /\ attempts'[a].verified = attempts[a].verified
    BY DEF ControlInv, VerifiedIsRegistered
  <1>3. VerifiedIsRegistered'
    BY <1>2 DEF ControlInv, VerifiedIsRegistered
  <1>4. CompletedMeansVerified'
    <2>1. \A t : Verified(t) => Verified(t)'
      BY <1>2 DEF Verified
    <2>2. \A m \in Missions : Finished(m) => Finished(m)'
      BY <2>1 DEF Finished, Status
    <2>3. QED
      BY <2>2 DEF ControlInv, CompletedMeansVerified
  <1>5. QED
    BY <1>1, <1>3, <1>4 DEF ControlInv

(* choose_ready_work dispatches under the epoch its site has. *)
LEMMA InvChoose ==
    ASSUME TypeOK, ControlInv, NEW m \in Missions, NEW k \in Schedulers, ChooseReadyWork(m, k)
    PROVE  /\ ControlInv'
           /\ \A d \in picked' \ picked : d.epoch = site[Home].epoch
  <1>1. \A d \in picked' \ picked : d.epoch = site[Home].epoch
    BY DEF ChooseReadyWork, RequireEpoch
  <1>2. UNCHANGED <<site, mission, tasks, proposals, attempts>>
    BY DEF ChooseReadyWork, siteVars
  <1>3. PickedByNow'
    <2>1. site[Home].epoch \in Nat
      BY ControlAssumption, SiteAssumption DEF TypeOK, SiteTypeOK, Authority
    <2>2. QED
      BY <1>1, <1>2, <2>1 DEF ControlInv, PickedByNow
  <1>4. OpenedHasRevision' /\ ProposalsSawTheGraph' /\ VerifiedIsRegistered' /\ GraphAcyclic'
    BY <1>2 DEF ControlInv, OpenedHasRevision, ProposalsSawTheGraph, VerifiedIsRegistered, GraphAcyclic
  <1>5. CompletedMeansVerified'
    BY <1>2 DEF ControlInv, CompletedMeansVerified, Finished, Status, Verified
  <1>6. QED
    BY <1>1, <1>3, <1>4, <1>5 DEF ControlInv

(* Whatever leaves missions, tasks, proposals, attempts and dispatches alone and moves   *)
(* no epoch back (restores, capacity, cooldowns, drains) keeps the invariant.            *)
LEMMA InvElsewhere ==
    ASSUME TypeOK, ControlInv, SiteNext \/ UNCHANGED siteVars,
           UNCHANGED <<mission, tasks, proposals, attempts, picked>>
    PROVE  ControlInv'
  <1>1. PickedByNow'
    <2>1. /\ site[Home].epoch \in Nat /\ site'[Home].epoch \in Nat
          /\ site[Home].epoch <= site'[Home].epoch
      BY SiteStep, ControlAssumption DEF TypeOK
    <2>2. \A e \in picked : e.epoch \in Nat
      BY DEF TypeOK
    <2>3. QED
      BY <2>1, <2>2 DEF ControlInv, PickedByNow
  <1>2. OpenedHasRevision' /\ ProposalsSawTheGraph' /\ VerifiedIsRegistered' /\ GraphAcyclic'
    BY DEF ControlInv, OpenedHasRevision, ProposalsSawTheGraph, VerifiedIsRegistered, GraphAcyclic
  <1>3. CompletedMeansVerified'
    BY DEF ControlInv, CompletedMeansVerified, Finished, Status, Verified
  <1>4. QED
    BY <1>1, <1>2, <1>3 DEF ControlInv

(* The steps the invariant does not depend on. *)
LEMMA Elsewhere ==
    ASSUME \/ \E k \in Schedulers : \/ NoteInferenceExhaustion(k) \/ NewScheduler(k)
                                    \/ \E b \in BOOLEAN : Drain(k, b)
           \/ \E s \in Slots : ExpandCapacity(s)
           \/ SiteNext /\ UNCHANGED controlVars
           \/ UNCHANGED vars
    PROVE  /\ SiteNext \/ UNCHANGED siteVars
           /\ UNCHANGED <<mission, tasks, proposals, attempts, picked>>
  BY DEF NoteInferenceExhaustion, NewScheduler, Drain, ExpandCapacity, controlVars, vars

LEMMA ControlStep == TypeOK /\ ControlInv /\ [Next]_vars => ControlInv'
  <1> SUFFICES ASSUME TypeOK, ControlInv, [Next]_vars PROVE ControlInv'
    OBVIOUS
  <1>1. CASE UNCHANGED vars \/ (SiteNext /\ UNCHANGED controlVars)
    BY <1>1, Elsewhere, InvElsewhere
  <1>2. ASSUME ControlNext PROVE ControlInv'
    <2>1. CASE \E m \in Missions : \/ SubmitMission(m) \/ TryComplete(m) \/ CancelMission(m)
                                   \/ \E d \in Drafts : ProposeGraphChange(m, d)
      BY <2>1, InvSubmit, InvComplete, InvCancel, InvPropose
    <2>2. CASE \E p \in proposals : CommitValidatedRevision(p)
      BY <2>2, InvCommit
    <2>3. CASE \E a \in Attempts : RecordVerification(a) \/ \E d \in picked : RegisterAttempt(a, d)
      BY <2>3, InvVerify, InvRegister
    <2>4. CASE \E k \in Schedulers, m \in Missions : ChooseReadyWork(m, k)
      BY <2>4, InvChoose
    <2>5. CASE \/ \E k \in Schedulers : \/ NoteInferenceExhaustion(k) \/ NewScheduler(k)
                                        \/ \E b \in BOOLEAN : Drain(k, b)
               \/ \E s \in Slots : ExpandCapacity(s)
      BY <2>5, Elsewhere, InvElsewhere
    <2>6. QED
      BY <1>2, <2>1, <2>2, <2>3, <2>4, <2>5 DEF ControlNext
  <1>3. QED
    BY <1>1, <1>2 DEF Next

(* The inductive invariant holds in every state the controller reaches. *)
THEOREM ControlInvariant == Spec => [](TypeOK /\ ControlInv)
  <1>1. Init => TypeOK /\ ControlInv
    BY TypeInit, ControlInit
  <1>2. TypeOK /\ ControlInv /\ [Next]_vars => (TypeOK /\ ControlInv)'
    BY TypeStep, ControlStep
  <1>3. QED
    BY <1>1, <1>2, PTL DEF Spec

--------------------------------------------------------------------------------
(* What the runs check, for every instance. *)

(* commit_validated_revision never commits a circular wait, whatever was spawned     *)
(* between a proposal and its commit.                                                *)
THEOREM AcyclicGraphs == Spec => []GraphAcyclic
  <1>1. TypeOK /\ ControlInv => GraphAcyclic
    BY DEF ControlInv
  <1>2. QED
    BY <1>1, ControlInvariant, PTL

(* try_complete, and nothing later, leaves a completed mission with every task        *)
(* cancelled or accepted on a verified attempt.                                       *)
THEOREM CompletionIsVerified == Spec => []CompletedMeansVerified
  <1>1. TypeOK /\ ControlInv => CompletedMeansVerified
    BY DEF ControlInv
  <1>2. QED
    BY <1>1, ControlInvariant, PTL

(* require_epoch in choose_ready_work: dispatches never go back to an epoch a restore *)
(* has left.                                                                          *)
THEOREM DispatchEpochsInOrder == Spec => EpochsDispatchInOrder
  <1> DEFINE InOrder == \A d \in picked' \ picked, e \in picked : e.epoch <= d.epoch
  <1>1. TypeOK /\ ControlInv /\ [Next]_vars => [InOrder]_vars
    <2> SUFFICES ASSUME TypeOK, ControlInv, Next PROVE InOrder
      OBVIOUS
    <2>1. ASSUME NEW k \in Schedulers, NEW m \in Missions, ChooseReadyWork(m, k)
          PROVE  InOrder
      BY <2>1, InvChoose DEF ControlInv, PickedByNow
    <2>2. \/ picked' = picked
          \/ \E k \in Schedulers, m \in Missions : ChooseReadyWork(m, k)
      BY DEF Next, ControlNext, SubmitMission, TryComplete, CancelMission, ProposeGraphChange,
             CommitValidatedRevision, RecordVerification, RegisterAttempt,
             NoteInferenceExhaustion, NewScheduler, Drain, ExpandCapacity, controlVars
    <2>3. QED
      BY <2>1, <2>2
  <1>2. QED
    BY <1>1, ControlInvariant, PTL DEF Spec, EpochsDispatchInOrder

--------------------------------------------------------------------------------
(* The refinement. *)

\* The variables of the abstract graph.
revisionBar == [m \in Missions |-> mission[m].revision]
nodesBar == [m \in Missions |-> DOMAIN tasks[m]]
draftsBar == {[of |-> p.mission, based |-> p.based, seen |-> p.seen] : p \in proposals}

(* The empty controller is the empty abstract graph. *)
LEMMA RefinesInit == Init => Planned!Init
  <1> SUFFICES ASSUME Init PROVE Planned!Init
    OBVIOUS
  <1>1. revisionBar = [m \in Missions |-> 0]
    BY DEF Init, revisionBar
  <1>2. nodesBar = [m \in Missions |-> {}]
    BY DEF Init, nodesBar
  <1>3. draftsBar = {}
    BY DEF Init, draftsBar
  <1>4. QED
    BY <1>1, <1>2, <1>3 DEF Planned!Init, revisionBar, nodesBar, draftsBar

(* A step that keeps revisions, task sets and proposals is a stutter of the abstract   *)
(* graph.                                                                              *)
LEMMA Stutters ==
    ASSUME proposals' = proposals,
           \A m \in Missions : /\ mission'[m].revision = mission[m].revision
                               /\ DOMAIN tasks'[m] = DOMAIN tasks[m]
    PROVE  UNCHANGED Planned!vars
  <1>1. revisionBar' = revisionBar /\ nodesBar' = nodesBar /\ draftsBar' = draftsBar
    BY DEF revisionBar, nodesBar, draftsBar
  <1>2. QED
    BY <1>1 DEF Planned!vars, revisionBar, nodesBar, draftsBar

(* submit_mission opens the graph, a proposal is a draft, and a commit that is not a   *)
(* stop applies its draft to the task set its author saw.                              *)
LEMMA RefinesOpen ==
    ASSUME TypeOK, ControlInv, NEW m \in Missions, SubmitMission(m)
    PROVE  Planned!Next
  <1>1. revisionBar[m] = 0
    BY DEF revisionBar, ControlInv, OpenedHasRevision, SubmitMission
  <1>2. revisionBar' = [revisionBar EXCEPT ![m] = 1]
    BY DEF revisionBar, SubmitMission, TypeOK
  <1>3. nodesBar' = nodesBar /\ draftsBar' = draftsBar
    BY DEF nodesBar, draftsBar, SubmitMission
  <1>4. Planned!Open(m)
    BY <1>1, <1>2, <1>3 DEF Planned!Open, revisionBar, nodesBar, draftsBar
  <1>5. QED
    BY <1>4 DEF Planned!Next

LEMMA RefinesDraft ==
    ASSUME TypeOK, ControlInv, NEW m \in Missions, NEW d \in Drafts, ProposeGraphChange(m, d)
    PROVE  Planned!Next
  <1>1. revisionBar[m] > 0
    BY DEF revisionBar, ControlInv, OpenedHasRevision, ProposeGraphChange, TypeOK
  <1>2. draftsBar' = draftsBar \cup {[of |-> m, based |-> revisionBar[m], seen |-> nodesBar[m]]}
    <2> DEFINE q == [mission |-> m, based |-> mission[m].revision, op |-> d.op,
                     specs |-> d.specs, seen |-> DOMAIN tasks[m]]
    <2>1. proposals' = proposals \cup {q}
      BY DEF ProposeGraphChange
    <2>2. draftsBar' = draftsBar \cup {[of |-> q.mission, based |-> q.based, seen |-> q.seen]}
      BY <2>1 DEF draftsBar
    <2>3. q.mission = m /\ q.based = revisionBar[m] /\ q.seen = nodesBar[m]
      BY DEF revisionBar, nodesBar
    <2>4. QED
      BY <2>2, <2>3
  <1>3. revisionBar' = revisionBar /\ nodesBar' = nodesBar
    BY DEF revisionBar, nodesBar, ProposeGraphChange
  <1>4. Planned!Draft(m)
    BY <1>1, <1>2, <1>3 DEF Planned!Draft, revisionBar, nodesBar, draftsBar
  <1>5. QED
    BY <1>4 DEF Planned!Next

LEMMA RefinesApply ==
    ASSUME TypeOK, ControlInv, NEW p \in proposals, CommitValidatedRevision(p)
    PROVE  Planned!Next \/ UNCHANGED Planned!vars
  <1> DEFINE m == p.mission
             new == IF Spawns(p) THEN {s.id : s \in p.specs} ELSE {}
             d == [of |-> m, based |-> p.based, seen |-> p.seen]
  <1>1. m \in Missions
    BY DEF TypeOK, GraphProposal
  <1>2. CASE p.op = "stop"
    <2>1. /\ proposals' = proposals
          /\ \A x \in Missions : /\ mission'[x].revision = mission[x].revision
                                 /\ DOMAIN tasks'[x] = DOMAIN tasks[x]
      BY <1>1, <1>2 DEF CommitValidatedRevision, TypeOK, Spawns
    <2>2. QED
      BY <2>1, Stutters
  <1>3. CASE p.op # "stop"
    <2>1. d \in draftsBar /\ new \in SUBSET Tasks
      BY SpawnedMap DEF draftsBar
    <2>2. d.based = revisionBar[m]
      BY <1>1 DEF CommitValidatedRevision, ValidateProposal, revisionBar
    <2>3. d.seen = nodesBar[m]
      BY <1>1, <2>2 DEF ControlInv, ProposalsSawTheGraph, revisionBar, nodesBar
    <2>4. revisionBar' = [revisionBar EXCEPT ![m] = @ + 1]
      BY <1>1, <1>3 DEF CommitValidatedRevision, Raised, revisionBar, TypeOK
    <2>5. nodesBar' = [nodesBar EXCEPT ![m] = @ \cup new]
      <3>1. \A x \in Missions : DOMAIN tasks'[x] = IF x = m THEN DOMAIN tasks[x] \cup new ELSE DOMAIN tasks[x]
        BY <1>1, SpawnedMap DEF CommitValidatedRevision, TypeOK
      <3>2. QED
        BY <1>1, <3>1 DEF nodesBar
    <2>6. draftsBar' = draftsBar
      BY DEF CommitValidatedRevision, draftsBar
    <2>7. Planned!Apply(d, new)
      BY <2>2, <2>3, <2>4, <2>5, <2>6 DEF Planned!Apply, revisionBar, nodesBar, draftsBar
    <2>8. QED
      BY <2>1, <2>7 DEF Planned!Next, draftsBar
  <1>4. QED
    BY <1>2, <1>3

(* Every step of the controller is a step of the revisioned graph or a stutter. *)
LEMMA RefinesStep == TypeOK /\ ControlInv /\ [Next]_vars => [Planned!Next]_(Planned!vars)
  <1> SUFFICES ASSUME TypeOK, ControlInv, [Next]_vars PROVE Planned!Next \/ UNCHANGED Planned!vars
    OBVIOUS
  <1>1. CASE \E m \in Missions : SubmitMission(m) \/ \E d \in Drafts : ProposeGraphChange(m, d)
    BY <1>1, RefinesOpen, RefinesDraft
  <1>2. CASE \E p \in proposals : CommitValidatedRevision(p)
    BY <1>2, RefinesApply
  <1>3. ASSUME NEW m \in Missions, CancelMission(m) PROVE UNCHANGED Planned!vars
    <2>1. /\ proposals' = proposals
          /\ \A x \in Missions : /\ mission'[x].revision = mission[x].revision
                                 /\ DOMAIN tasks'[x] = DOMAIN tasks[x]
      BY <1>3 DEF CancelMission, TypeOK
    <2>2. QED
      BY <2>1, Stutters
  <1>4. ASSUME NEW m \in Missions, TryComplete(m) PROVE UNCHANGED Planned!vars
    <2>1. /\ proposals' = proposals /\ tasks' = tasks
          /\ \A x \in Missions : mission'[x].revision = mission[x].revision
      BY <1>4 DEF TryComplete, TypeOK
    <2>2. QED
      BY <2>1, Stutters
  <1>5. ASSUME NEW a \in Attempts, RecordVerification(a) PROVE UNCHANGED Planned!vars
    <2>1. /\ proposals' = proposals /\ mission' = mission
          /\ \A x \in Missions : DOMAIN tasks'[x] = DOMAIN tasks[x]
      BY <1>5 DEF RecordVerification, TypeOK
    <2>2. QED
      BY <2>1, Stutters
  <1>6. CASE UNCHANGED <<mission, tasks, proposals>>
    BY <1>6, Stutters
  <1>7. \/ UNCHANGED <<mission, tasks, proposals>>
        \/ \E m \in Missions : \/ SubmitMission(m) \/ TryComplete(m) \/ CancelMission(m)
                               \/ \E d \in Drafts : ProposeGraphChange(m, d)
        \/ \E p \in proposals : CommitValidatedRevision(p)
        \/ \E a \in Attempts : RecordVerification(a)
    BY DEF Next, ControlNext, RegisterAttempt, ChooseReadyWork,
           NoteInferenceExhaustion, NewScheduler, Drain, ExpandCapacity, vars, controlVars
  <1>8. QED
    BY <1>1, <1>2, <1>3, <1>4, <1>5, <1>6, <1>7

(* The controller implements the optimistic concurrency of RevisionedGraph: a proposal   *)
(* commits only onto the task set its author saw, at most one per revision.              *)
THEOREM ControllerIsOptimistic == Spec => RevisionsAreOptimistic
  BY RefinesInit, RefinesStep, ControlInvariant, PTL DEF Spec, RevisionsAreOptimistic, Planned!Spec

================================================================================
