----------------------------- MODULE ModelEvidence -----------------------------
(***************************************************************************)
(* How a local model earns a role in a mission: canary evidence             *)
(* (onboarding/canary.py), qualification runs (evals/qualify.py), live      *)
(* benchmarks (evals/live_benchmark.py), capability profiles                *)
(* (evals/profiles.py) and the evidence router (evals/evidence_router.py).  *)
(*                                                                         *)
(* Each command is a process of its own; they share the evidence and report *)
(* files and the Ollama runtime, which may stop or lose a model between any *)
(* two steps.  Qualification reads evidence before it probes, and planning  *)
(* probes the provider before it lists the models: each is two steps.       *)
(***************************************************************************)
EXTENDS Onboarding, SequencesExt

CONSTANTS Ollama,        \* the local provider
          Models,        \* sequence: model names in the order of the runtime's list
          Preferred,     \* sequence: PREFERRED_MODELS
          Latency,       \* p50 of a model's answers
          Families,      \* benchmark families with a case
          Roles,         \* sequence: task families of a plan
          TaskToBenchmark,
          DefaultFallback,
          Cases,         \* cases a caller of ProfileStore records
          MinDistinct,   \* provisional_min_distinct
          MaxCommands    \* bound: commands

Simulated == "fake-alpha-v1.0"  \* the model of a mock run, which no runtime lists

ASSUME EvidenceAssumption ==
    /\ Ollama \in Local /\ DefaultFallback \in Range(Preferred)
    /\ Families \subseteq {TaskToBenchmark[r] : r \in Range(Roles)}
    /\ MinDistinct \in Nat /\ MaxCommands \in Nat
    /\ Simulated \notin Range(Models)

VARIABLES installed,   \* models the runtime has
          loopback,    \* OLLAMA_BASE_URL names this host
          evidence,    \* canary evidence file of a route
          vouched,     \* history: <<route, model>> pairs a live canary passed
          cells,       \* cells of the newest qualification run
          report,      \* latest_live_benchmark.json: cells, or NoReport
          results, states, \* a ProfileStore
          plan,        \* latest_mission_route_plan.json
          job,         \* the command between its two steps
          commands     \* history: commands

runtime == <<installed, loopback>>
files == <<evidence, vouched, cells, report, plan>>
store == <<results, states>>
evidenceVars == <<onboardingVars, runtime, files, store, job, commands>>

Names == Range(Models)
Default == "rt_ollama_default"
Remote == "rt_groq_default"
RouteIds == Names \cup {Default, Remote}  \* rt_ollama_<model> is written as the model
Keys == Names \X Families               \* profile_key: route and task family
NoEvidence == [model |-> "none", passed |-> FALSE]
NoReport == {}   \* a report has a cell for every model it ran
NoPlan == [cost |-> "none", available |-> <<>>, models |-> <<>>]
Idle == [kind |-> "idle"]

EvidenceInit ==
    /\ OnboardingInit
    /\ installed \in SUBSET Names /\ loopback = TRUE
    /\ evidence = [r \in RouteIds |-> NoEvidence]
    /\ vouched = {} /\ cells = {} /\ report = NoReport /\ plan = NoPlan
    /\ results = {} /\ states = [k \in Keys |-> "none"]
    /\ job = Idle /\ commands = 0

Command == commands < MaxCommands /\ commands' = commands + 1

\* What the runtime lists: nothing at all when it is down.
ListOllamaModels == IF Ollama \in healthy THEN SelectSeq(Models, LAMBDA m : m \in installed) ELSE <<>>

Shortest(n, limit) == IF n < limit THEN n ELSE limit
UpTo(s, limit) == SubSeq(s, 1, Shortest(Len(s), limit))
Among(s, S) == SelectSeq(s, LAMBDA e : e \in S)

(******************************** Canaries ********************************)

\* The model a live canary asks: the route's own if it is there, else a preferred one, else
\* the first the runtime lists.
CanaryTarget(route) ==
    Head((IF route \in Range(ListOllamaModels) THEN <<route>> ELSE <<>>)
            \o Among(Preferred, Range(ListOllamaModels)) \o ListOllamaModels)

\* _live_local_zero_canary: the outcome is written for the model that was asked and for the
\* route the canary was for.
LiveLocalZeroCanary(route, ok) ==
    LET m == CanaryTarget(route) IN
    /\ evidence' = [r \in RouteIds |-> IF r \in {m, route} THEN [model |-> m, passed |-> ok]
                                     ELSE evidence[r]]
    /\ vouched' = IF ok THEN vouched \cup {<<m, m>>, <<route, m>>} ELSE vouched

\* bounded_canary: a paid, unknown-cost, remote or non-loopback canary is refused and a mock
\* one leaves no evidence.
BoundedCanary(route, mode, billingKnownZero, ok) ==
    /\ mode = "live" /\ billingKnownZero
    /\ route # Remote /\ loopback
    /\ ListOllamaModels # <<>>
    /\ Command
    /\ LiveLocalZeroCanary(route, ok)
    /\ UNCHANGED <<onboardingVars, runtime, cells, report, plan, store, job>>

(****************************** Qualification *****************************)

\* Evidence of a failed canary would be enough.
EligibleOnAnyEvidence(routes) == \A r \in Range(routes) : evidence[r] # NoEvidence

\* _assert_live_routes_eligible: every route needs evidence of a canary that passed.
AssertLiveRoutesEligible(routes) ==
    \A r \in Range(routes) : evidence[r] # NoEvidence /\ evidence[r].passed

QualifyLive(routes) ==
    /\ job = Idle /\ Command
    /\ routes # <<>> /\ AssertLiveRoutesEligible(routes)
    /\ job' = [kind |-> "qualify", routes |-> routes, model |-> evidence[Head(routes)].model]
    /\ UNCHANGED <<onboardingVars, runtime, files, store>>

QualCell(route, state, model) == [route |-> route, state |-> state, model |-> model]

\* _live_probe_latency_ms: one chat with the runtime OLLAMA_BASE_URL names now.
ProbeAnswers(m) == Ollama \in healthy /\ m \in installed

\* The probe asks the model the evidence named; only the first route's cells can become
\* provisional, the others stay untested.
QualifyProbed(answers) ==
    /\ job.kind = "qualify"
    /\ answers => ProbeAnswers(job.model)
    /\ cells' = {QualCell(Head(job.routes), IF answers THEN "provisional" ELSE "untested", job.model)}
                \cup {QualCell(r, "untested", "none") : r \in Range(Tail(job.routes))}
    /\ job' = Idle
    /\ UNCHANGED <<onboardingVars, runtime, evidence, vouched, report, plan, store, commands>>

\* A mock run simulates the first route and leaves the second untested.
QualifyMock(routes, caseCount) ==
    /\ Command /\ routes # <<>>
    /\ cells' = {QualCell(Head(routes), IF caseCount >= 2 THEN "provisional" ELSE "untested", Simulated)}
                \cup {QualCell(r, "untested", "none") : r \in Range(UpTo(Tail(routes), 1))}
    /\ UNCHANGED <<onboardingVars, runtime, evidence, vouched, report, plan, store, job>>

(******************************** Profiles ********************************)

\* A profile is derived from the store's results: one policy failure quarantines it, and
\* repeats of a case are no further evidence.
DeriveState(k, rs) ==
    LET mine == {r \in rs : r.key = k} IN
    IF \E r \in mine : r.violation THEN "quarantined"
    ELSE IF Cardinality({r.case : r \in mine}) < MinDistinct THEN "unassessed"
    ELSE "provisional"

\* A clean result would lift the quarantine.
RecordedByLatest(rs, st, r) ==
    [st EXCEPT ![r.key] = DeriveState(r.key, {x \in rs : ~x.violation} \cup {r})]

Recorded(rs, st, r) == [st EXCEPT ![r.key] = DeriveState(r.key, rs \cup {r})]

Result(k, c, v) == [key |-> k, case |-> c, violation |-> v]

\* record_result: a simulated result enters no table.
RecordResult(k, c, violation, simulated) ==
    /\ ~simulated /\ Command
    /\ results' = results \cup {Result(k, c, violation)}
    /\ states' = Recorded(results, states, Result(k, c, violation))
    /\ UNCHANGED <<onboardingVars, runtime, files, job>>

MarkAliasStale(m) ==
    /\ Command
    /\ states' = [k \in Keys |-> IF k[1] = m /\ states[k] # "none" THEN "stale" ELSE states[k]]
    /\ UNCHANGED <<onboardingVars, runtime, files, results, job>>

\* query with min_state PROVISIONAL: neither stale nor quarantined profiles.
Offered == {k \in Keys : states[k] = "provisional"}

(******************************* Benchmarks *******************************)

SelectBenchmarkModels(have, limit) ==
    IF Among(Preferred, Range(have)) # <<>> THEN UpTo(Among(Preferred, Range(have)), limit)
    ELSE UpTo(have, limit)

\* _aggregate_cells: one cell for each family and model, an error counts as a failure.
AggregateCells(chosen, outcome) ==
    {[family |-> k[2], model |-> k[1], rate |-> IF outcome[k] = "pass" THEN 1 ELSE 0] :
        k \in {x \in Keys : x[1] \in chosen}}

\* run_live_benchmarks over a fresh ProfileStore: one case for each family and model; an
\* inference error is a failed trial without a result.  The latest report is overwritten.
RunLiveBenchmarks(outcome) ==
    LET chosen == Range(SelectBenchmarkModels(ListOllamaModels, 3)) IN
    /\ chosen # {} /\ Families # {}
    /\ Command
    /\ \A k \in Keys : k[1] \notin chosen => outcome[k] = "error"
    /\ report' = AggregateCells(chosen, outcome)
    /\ UNCHANGED <<onboardingVars, runtime, evidence, vouched, cells, plan, store, job>>

(******************************** The router ******************************)

\* _cell_score: the higher pass rate, then the lower latency.
Scored(a, b) == a.rate > b.rate \/ (a.rate = b.rate /\ Latency[a.model] < Latency[b.model])
Faster(a, b) == \/ Latency[a.model] < Latency[b.model]
                \/ Latency[a.model] = Latency[b.model] /\ a.family < b.family

ModelsOf(cs) == [i \in 1..Len(cs) |-> cs[i].model]

BestModelsByFamily(family) ==
    UpTo(ModelsOf(SetToSortSeq({c \in report : c.family = family}, Scored)), 1)

\* _pick_model_for_family: the candidates in the order the function tries them.
PickModelForFamily(family, available, avoid, fast) ==
    LET here == {c \in report : c.model \in Range(available)}
        ranked == SetToSortSeq({c \in here : c.family = family}, Scored)
        allowed(m) == m \notin avoid \/ Len(available) = 1
    IN Head((IF Len(ranked) > 1 THEN SelectSeq(ModelsOf(ranked), LAMBDA m : m \notin avoid)
                                ELSE ModelsOf(ranked))
            \o (IF fast THEN SelectSeq(ModelsOf(SetToSortSeq(here, Faster)), allowed) ELSE <<>>)
            \o SelectSeq(BestModelsByFamily(family), LAMBDA m : m \in Range(available) /\ allowed(m))
            \o SelectSeq(SelectBenchmarkModels(available, 5), LAMBDA m : m \notin avoid)
            \o available \o <<DefaultFallback>>)

\* Workers and reviewers avoid the models that already have a role.
Avoided(r, used, available) ==
    IF Len(available) > 1 /\ r \in {"implement", "review", "verify"} THEN used ELSE {}

Assign(available) ==
    FoldLeft(LAMBDA assigned, r :
                 Append(assigned, PickModelForFamily(TaskToBenchmark[r], available,
                                                     Avoided(r, Range(assigned), available),
                                                     r \in {"verify", "inspect"})),
             <<>>, Roles)

\* The models a plan chooses from: those the caller names, else those with a benchmark cell,
\* else the preferred ones; the fallback when the runtime lists none.
Available(asked) ==
    LET listed == IF asked # <<>> THEN asked
                  ELSE IF ListOllamaModels # <<>> THEN ListOllamaModels ELSE <<DefaultFallback>>
        evidenced == Among(listed, {c.model : c \in report})
    IN IF asked # <<>> THEN asked
       ELSE IF evidenced # <<>> THEN evidenced ELSE SelectBenchmarkModels(listed, 4)

\* build_mission_route_plan raises unless the local provider is routable.
PlanProbed(asked) ==
    /\ job = Idle /\ Command
    /\ Ollama \in RoutableProviders(BuildCapabilityRegistry(TRUE))
    /\ job' = [kind |-> "plan", asked |-> asked, cost |-> IF paid THEN "paid_allowed" ELSE "zero_spend_ok"]
    /\ UNCHANGED <<onboardingVars, runtime, files, store>>

PlanSaved ==
    /\ job.kind = "plan"
    /\ plan' = [cost |-> job.cost, available |-> Available(job.asked), models |-> Assign(Available(job.asked))]
    /\ job' = Idle
    /\ UNCHANGED <<onboardingVars, runtime, evidence, vouched, cells, report, store, commands>>

(********************************* Next ***********************************)

ChangeRuntime ==
    /\ changes < MaxChanges /\ changes' = changes + 1
    /\ \/ \E m \in Names : installed' = Toggle(installed, m) /\ UNCHANGED loopback
       \/ loopback' = ~loopback /\ UNCHANGED installed
    /\ UNCHANGED <<healthy, secrets, paid, service, audit, shown, files, store, job, commands>>

Onboard == Command /\ OnboardingNext /\ UNCHANGED <<runtime, files, store, job>>
Environment == ChangeEnvironment /\ UNCHANGED <<runtime, files, store, job, commands>>

RouteLists == {<<r>> : r \in RouteIds} \cup {<<Default, m>> : m \in Names}

EvidenceNext ==
    \/ Onboard
    \/ Environment
    \/ ChangeRuntime
    \/ \E r \in RouteIds, mode \in {"mock", "live"}, zero, ok \in BOOLEAN : BoundedCanary(r, mode, zero, ok)
    \/ \E rs \in RouteLists : QualifyLive(rs) \/ \E n \in 1..2 : QualifyMock(rs, n)
    \/ \E answers \in BOOLEAN : QualifyProbed(answers)
    \/ \E k \in Keys, c \in Cases, v, s \in BOOLEAN : RecordResult(k, c, v, s)
    \/ \E m \in Names : MarkAliasStale(m)
    \/ \E o \in [Keys -> {"pass", "error"}] : RunLiveBenchmarks(o)
    \/ \E asked \in {<<>>} \cup {<<m>> : m \in Names} : PlanProbed(asked)
    \/ PlanSaved

EvidenceSpec == EvidenceInit /\ [][EvidenceNext]_evidenceVars

(******************************* Properties *******************************)

\* A live cell is provisional only for a route and a model that passed a live canary, although
\* the evidence may have been overwritten or the runtime changed before the probe.
LiveCellsWereVouched ==
    \A c \in cells : c.state = "provisional" /\ c.model \in Names => <<c.route, c.model>> \in vouched

\* A profile the scheduler is offered has enough distinct cases and never had a policy
\* failure, however often it was marked stale and recorded again.
OfferedIsEarned ==
    \A k \in Offered :
        /\ \A r \in results : r.key = k => ~r.violation
        /\ Cardinality({r.case : r \in {x \in results : x.key = k}}) >= MinDistinct
================================================================================
