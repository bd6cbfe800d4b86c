----------------------------- MODULE SelfDevelopment ----------------------------
(***************************************************************************)
(* What surrounds a local mission: the live self-development campaign       *)
(* (src/swarm/selfdev/runner.py) that runs one and remembers it, the file   *)
(* of memories (src/swarm/memory/store.py), the interrupt-and-resume proof  *)
(* that seeds a record, and the planning command with its dynamic team.     *)
(***************************************************************************)
EXTENDS MissionRuntime, TeamPlan

CONSTANTS Goals,        \* goal signals a planner is asked about
          AgentCaps     \* --max-agents values

ASSUME PlannerAssumption == Goals \subseteq GoalSignals /\ AgentCaps \subseteq Nat \ {0}

VARIABLES campaign,     \* "none", "live", "learning", "reported", "proof", "mock" or "planned"
          memory,       \* the memory file, appended line by line
          unwritten,    \* records remember_mission has still to append
          liveReport,   \* what the campaign reports, <<>> before its test
          checkout,     \* "head", "broken" or "applied": where the primary's sample comes from
          patches,      \* patch artifacts of mock cycles: the change, and whether its tests passed
          team          \* a printed dynamic plan, <<>> for none

campaignVars == <<campaign, memory, unwritten, liveReport, checkout, patches, team>>
allVars == <<vars, campaignVars>>

CampaignInit ==
    /\ Init
    /\ campaign = "none"
    /\ memory = <<>> /\ unwritten = <<>>
    /\ liveReport = <<>>
    /\ checkout = "head"
    /\ patches = {}
    /\ team = <<>>

--------------------------------------------------------------------------------
(* The memory file. *)

MemoryRecord(kind, r) == [kind |-> kind, status |-> r.status, accepted |-> r.accepted]

\* remember_mission: the goal, the outcome, a line per model assignment and the last events;
\* each is an append of its own.
RememberMission(r) ==
    <<MemoryRecord("durable_fact", r), MemoryRecord("outcome", r)>>
      \o (IF prior["implement"] # "none" THEN <<MemoryRecord("model_obs", r)>> ELSE <<>>)
      \o <<MemoryRecord("transient_context", r)>>

AppendMemory ==
    /\ unwritten # <<>>
    /\ memory' = Append(memory, Head(unwritten))
    /\ unwritten' = Tail(unwritten)
    /\ UNCHANGED <<vars, campaign, liveReport, checkout, patches, team>>

\* The process dies in the middle of the list; what it appended stays.
LoseMemory ==
    /\ unwritten # <<>>
    /\ unwritten' = <<>>
    /\ campaign' = "none"
    /\ UNCHANGED <<vars, memory, liveReport, checkout, patches, team>>

--------------------------------------------------------------------------------
(* The live campaign: an approved issue, the sample made to fail in the primary checkout,   *)
(* the mission, the sample's test, the memory, the report.                                  *)

RunLiveSelfDevelopment ==
    /\ campaign = "none" /\ pc = "planning"
    /\ wiring.fixture
    /\ campaign' = "live"
    /\ checkout' \in {checkout, "broken"}
    /\ UNCHANGED <<vars, memory, unwritten, liveReport, patches, team>>

\* _run_unit runs in the primary checkout, not in the worktree the mission worked in.
RunUnit(passes) ==
    CASE checkout = "applied" -> primary \in verified
      [] checkout = "broken" -> FALSE
      [] checkout = "head" -> passes

TestAndLearn(passes) ==
    /\ campaign = "live" /\ pc = "ended"
    /\ campaign' = "learning"
    /\ liveReport' = <<[tests |-> RunUnit(passes), accepted |-> record.accepted]>>
    /\ unwritten' = RememberMission(record)
    /\ UNCHANGED <<vars, memory, checkout, patches, team>>

ReportCampaign ==
    /\ campaign = "learning" /\ unwritten = <<>>
    /\ campaign' = "reported"
    /\ UNCHANGED <<vars, memory, unwritten, liveReport, checkout, patches, team>>

--------------------------------------------------------------------------------
(* The mock cycle: a change in a temporary copy of the sample, its unit test, the policy,   *)
(* a patch for a human to merge when both are content.                                      *)

\* What the mock worker proposes: which files it leaves changed and which markers its text holds.
Variants ==
    [good      |-> [fixes |-> TRUE,  changed |-> {"sample"},         markers |-> {}],
     failing   |-> [fixes |-> FALSE, changed |-> {"sample"},         markers |-> {}],
     malicious |-> [fixes |-> TRUE,  changed |-> {"sample", ".env"}, markers |-> {"auto_merge"}]]

AllowlistedPaths == {"sample", "sample test"}
ForbiddenPaths == {".env"}

\* Author and reviewer are two fixed roles here.
ValidateWorkerPatch(v) ==
    /\ v.changed \subseteq AllowlistedPaths
    /\ v.changed \cap ForbiddenPaths = {}
    /\ v.markers = {}

\* The test runs in the copy, before the policy, under a timeout; the directory is gone after.
RunSelfDevelopment(name, inTime) ==
    /\ campaign = "none" /\ pc = "planning"
    /\ campaign' = "mock"
    /\ pc' = "ended"
    /\ LET tested == Variants[name].fixes /\ inTime
       IN patches' = IF tested /\ ValidateWorkerPatch(Variants[name])
                     THEN patches \cup {[change |-> name, tested |-> tested]} ELSE patches
    /\ UNCHANGED <<round, prior, roundOk, target, worktree, tree, verified, cleared, record, disk, desk,
                   primary, report, wiring, memory, unwritten, liveReport, checkout, team>>

--------------------------------------------------------------------------------
(* run_interrupt_resume_proof seeds a record whose inspection is accepted, interrupts it,   *)
(* remembers that, and resumes it.                                                          *)

SeededRecord == [NewRecord EXCEPT !.rows["inspect"] = "accepted"]

SeedProof ==
    /\ campaign = "none" /\ pc = "planning"
    /\ campaign' = "proof"
    /\ pc' = "ended"
    /\ Save(SeededRecord)
    /\ UNCHANGED <<round, prior, roundOk, target, worktree, tree, verified, cleared, record, desk,
                   primary, report, wiring, memory, unwritten, liveReport, checkout, patches, team>>

RememberInterrupted ==
    /\ campaign = "proof" /\ Stored /\ disk[1].status = "interrupted"
    /\ unwritten = <<>> /\ memory = <<>>
    /\ unwritten' = RememberMission(disk[1])
    /\ UNCHANGED <<vars, campaign, memory, liveReport, checkout, patches, team>>

\* resume_mission with a memory adds the decision.
RememberResume ==
    /\ campaign = "proof" /\ Stored /\ disk[1].status = "running"
    /\ unwritten = <<>> /\ memory # <<>>
    /\ \A i \in DOMAIN memory : memory[i].kind # "decision"
    /\ memory' = Append(memory, MemoryRecord("decision", disk[1]))
    /\ UNCHANGED <<vars, campaign, unwritten, liveReport, checkout, patches, team>>

--------------------------------------------------------------------------------
\* mission plan --dynamic prints a team and its graph; nothing is submitted.
PlanCommand(goal, cap) ==
    /\ campaign = "none" /\ pc = "planning"
    /\ campaign' = "planned"
    /\ pc' = "ended"
    /\ LET t == FormDynamicTeam(goal, cap)
       IN team' = <<[agents |-> AgentCount(t), cap |-> cap, graph |-> PlanDynamicTaskGraph(t)]>>
    /\ UNCHANGED <<round, prior, roundOk, target, worktree, tree, verified, cleared, record, disk, desk,
                   primary, report, wiring, memory, unwritten, liveReport, checkout, patches>>

MissionStep ==
    /\ Next
    /\ checkout' = IF primary' # primary THEN "applied" ELSE checkout
    /\ UNCHANGED <<campaign, memory, unwritten, liveReport, patches, team>>

RunStep == Progress /\ UNCHANGED campaignVars

CampaignNext ==
    \/ MissionStep
    \/ AppendMemory \/ LoseMemory
    \/ RunLiveSelfDevelopment \/ ReportCampaign
    \/ \E passes \in BOOLEAN : TestAndLearn(passes)
    \/ \E name \in DOMAIN Variants, inTime \in BOOLEAN : RunSelfDevelopment(name, inTime)
    \/ SeedProof \/ RememberInterrupted \/ RememberResume
    \/ \E goal \in Goals, cap \in AgentCaps : PlanCommand(goal, cap)

\* The run is one thread; its commands and calls have timeouts, and git is taken to return.
CampaignSpec ==
    CampaignInit /\ [][CampaignNext]_allVars /\ WF_allVars(RunStep)

--------------------------------------------------------------------------------
(* Whatever says that a mission was accepted - the stored record, its report, a memory, the *)
(* campaign's report - says so of a version that was verified and reviewed, and only such   *)
(* a version reaches the primary checkout or, as a patch, the human who merges: no repair   *)
(* round leaves a pass of an earlier version standing for a later one, and no crash between *)
(* the writes makes one claim alone.                                                        *)
AcceptedIsWhatWasVerified ==
    /\ \A r \in {disk, report, liveReport} : r # <<>> /\ r[1].accepted => tree \in verified \cap cleared
    /\ \A i \in DOMAIN memory : memory[i].accepted => tree \in verified \cap cleared
    /\ checkout = "applied" => primary \in verified \cap cleared
    /\ \A p \in patches : p.tested /\ Variants[p.change].changed = {"sample"}

(* A run ends after bounded repair, and whenever it holds the handle of a worktree that  *)
(* worktree is gone by then, unless the process died.                                    *)
RunEnds == <>(pc \in Ended /\ (worktree = "present" => pc = "crashed"))

(* A dynamic plan stays under its cap of agents, three excepted (supervisor, worker and  *)
(* reviewer cannot be left out), and its graph is one the controller admits, with every   *)
(* implementation behind a review and the verification last.                              *)
DynamicPlanHolds ==
    team # <<>> => /\ team[1].agents <= AtLeast(team[1].cap, 3)
                   /\ Admissible(team[1].graph)
================================================================================
