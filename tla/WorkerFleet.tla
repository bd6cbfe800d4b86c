------------------------------- MODULE WorkerFleet -----------------------------
(***************************************************************************)
(* The in-memory worker registry and the placement on top of it             *)
(* (src/swarm/workers: registry, fleet): registration and re-registration   *)
(* of a worker id, membership tokens, the dispatch queue, drain, revocation *)
(* of a generation, quarantine on a lost heartbeat, and placement of a      *)
(* project on a worker of its tenant.                                       *)
(*                                                                         *)
(* The registry lives in one event loop and none of its coroutines          *)
(* suspends, so every call is one step; what interleaves are workers,       *)
(* callers with old tokens or generations, and operators.  A worker's age   *)
(* since its heartbeat may pass the limit at any time.                      *)
(***************************************************************************)
EXTENDS Naturals, SequencesExt, FiniteSets

CONSTANTS Workers, Tokens, Tasks, Projects, Tenants,
          Leases,        \* what workers register with: generation, abilities, project
          Annotations,   \* tenant, locality and trust operators annotate workers with
          Demands,       \* locality and trust placements ask for
          Needs,         \* abilities a task requires
          MaxGeneration, \* bound: generation a worker reaches
          MaxCycles      \* bound: registrations

NoTask == "none"
Nobody == "nobody"
Trusts == 0..3   \* compute_only, code_write, browser_session, operator_local
Note == [tenant : Tenants, local : BOOLEAN, trust : Trusts]

ASSUME FleetAssumption ==
    /\ MaxGeneration \in Nat /\ MaxCycles \in Nat
    /\ Leases \subseteq [generation : 1..MaxGeneration, able : SUBSET UNION Range(Needs),
                         project : Projects \cup {Nobody}]
    /\ Annotations \subseteq Note /\ Demands \subseteq [local : BOOLEAN, trust : Trusts]
    /\ NoTask \notin Tasks /\ Nobody \notin Workers \cup Projects \cup Tenants

VARIABLES workers,    \* _workers, a worker that never registered is absent
          tokens,     \* _tokens
          quarantine, \* _quarantine
          queue,      \* _dispatch_queue
          tenantOf,   \* of a project
          notes,      \* tenant, locality and trust a worker is annotated with
          decisions,  \* placements
          accepted,   \* history: results accept_result let pass
          revoked,    \* history: workers whose generation was revoked
          enqueued,   \* history: tasks enqueued so far
          cycles      \* history: registrations

registryVars == <<workers, tokens, quarantine, queue, accepted, revoked, enqueued, cycles>>
fleetVars == <<tenantOf, notes, decisions>>
vars == <<registryVars, fleetVars>>

Status == {"online", "draining", "offline", "quarantined"}
WorkerRecord == [generation : 1..MaxGeneration, able : SUBSET UNION Range(Needs),
                 project : Projects \cup {Nobody}, status : Status, revoked : BOOLEAN,
                 claim : Tasks \cup {NoTask}]

\* A map from some of the workers.
PartialMap(f, S) == DOMAIN f \subseteq Workers /\ f \in [DOMAIN f -> S]

TypeOK ==
    /\ PartialMap(workers, WorkerRecord)
    /\ tokens \in [Tokens -> Workers \cup {Nobody}]
    /\ quarantine \subseteq Workers /\ revoked \subseteq Workers
    /\ queue \in Seq(Tasks) /\ enqueued \subseteq Tasks
    /\ tenantOf \in [Projects -> Tenants \cup {Nobody}]
    /\ PartialMap(notes, Note)
    /\ decisions \subseteq [project : Projects, worker : Workers, tenant : Tenants]
    /\ accepted \subseteq [worker : Workers, fenced : BOOLEAN]
    /\ cycles \in 0..MaxCycles

Init ==
    /\ workers = <<>>
    /\ tokens = [t \in Tokens |-> Nobody]
    /\ quarantine = {} /\ revoked = {}
    /\ queue = <<>> /\ enqueued = {}
    /\ tenantOf = [p \in Projects |-> Nobody]
    /\ notes = <<>>
    /\ decisions = {}
    /\ accepted = {}
    /\ cycles = 0

With(f, k, v) == [x \in DOMAIN f \cup {k} |-> IF x = k THEN v ELSE f[x]]
Known(w) == w \in DOMAIN workers

--------------------------------------------------------------------------------
(* The registry. *)

\* A registration replaces the record of its worker id; tokens and quarantine stay.
Register(w, t, l) ==
    /\ cycles < MaxCycles
    /\ cycles' = cycles + 1
    /\ workers' = With(workers, w, [generation |-> l.generation, able |-> l.able, project |-> l.project,
                                    status |-> "online", revoked |-> FALSE, claim |-> NoTask])
    /\ tokens' = [tokens EXCEPT ![t] = w]
    /\ UNCHANGED <<quarantine, queue, accepted, revoked, enqueued, fleetVars>>

\* _require: the token of this worker, not revoked.
Require(w, t) == tokens[t] = w /\ Known(w) /\ ~workers[w].revoked

Enqueue(t) ==
    /\ t \notin enqueued
    /\ enqueued' = enqueued \cup {t}
    /\ queue' = Append(queue, t)
    /\ UNCHANGED <<workers, tokens, quarantine, accepted, revoked, cycles, fleetVars>>

\* A claim that looks at the head and leaves it.
Peeked == queue
Popped == Tail(queue)

\* Only the head of the queue is offered; one the worker cannot run goes back to the head.
ClaimDispatch(w, t) ==
    /\ Require(w, t)
    /\ workers[w].status # "draining"
    /\ w \notin quarantine
    /\ queue # <<>> /\ Needs[Head(queue)] \subseteq workers[w].able
    /\ queue' = Popped
    /\ workers' = [workers EXCEPT ![w].claim = Head(queue)]
    /\ UNCHANGED <<tokens, quarantine, accepted, revoked, enqueued, cycles, fleetVars>>

Drain(w, t) ==
    /\ Require(w, t)
    /\ workers' = [workers EXCEPT ![w].status = IF workers[w].claim = NoTask THEN "offline" ELSE "draining"]
    /\ UNCHANGED <<tokens, quarantine, queue, accepted, revoked, enqueued, cycles, fleetVars>>

\* A completion that leaves the worker draining.
CompletedStays(r) == [r EXCEPT !.claim = NoTask]

Completed(r) == [r EXCEPT !.claim = NoTask, !.status = IF @ = "draining" THEN "offline" ELSE @]

CompleteCurrent(w) ==
    /\ Known(w)
    /\ workers' = [workers EXCEPT ![w] = Completed(@)]
    /\ UNCHANGED <<tokens, quarantine, queue, accepted, revoked, enqueued, cycles, fleetVars>>

\* Only the tokens are deleted.
FencedByTokens(w) == quarantine
Fenced(w) == quarantine \cup {w}

\* revoke_generation: the record is revoked at the next generation and its tokens deleted;
\* the quarantine is what outlives a new registration.
RevokeGeneration(w) ==
    /\ Known(w) /\ workers[w].generation < MaxGeneration
    /\ workers' = [workers EXCEPT ![w].revoked = TRUE, ![w].generation = @ + 1, ![w].status = "quarantined"]
    /\ quarantine' = Fenced(w)
    /\ tokens' = [t \in Tokens |-> IF tokens[t] = w THEN Nobody ELSE tokens[t]]
    /\ revoked' = revoked \cup {w}
    /\ UNCHANGED <<queue, accepted, enqueued, cycles, fleetVars>>

AcceptResult(w, g, t) ==
    /\ Known(w) /\ g = workers[w].generation
    /\ w \notin quarantine
    /\ workers[w].claim = t
    /\ accepted' = accepted \cup {[worker |-> w, fenced |-> w \in revoked]}
    /\ UNCHANGED <<workers, tokens, quarantine, queue, revoked, enqueued, cycles, fleetVars>>

SuspectLostHeartbeat(w) ==
    /\ Known(w) /\ w \notin quarantine
    /\ quarantine' = quarantine \cup {w}
    /\ UNCHANGED <<workers, tokens, queue, accepted, revoked, enqueued, cycles, fleetVars>>

--------------------------------------------------------------------------------
(* Placement. *)

BindProjectTenant(p, n) ==
    /\ tenantOf' = [tenantOf EXCEPT ![p] = n]
    /\ UNCHANGED <<registryVars, notes, decisions>>

AnnotateWorker(w, note) ==
    /\ notes' = With(notes, w, note)
    /\ UNCHANGED <<registryVars, tenantOf, decisions>>

Candidates(p, d) ==
    {w \in DOMAIN workers \cap DOMAIN notes :
        /\ notes[w].tenant = tenantOf[p]
        /\ workers[w].project \in {Nobody, p}
        /\ notes[w].trust >= d.trust
        /\ d.local => notes[w].local}

\* The first candidate in registration order; that order is not modelled.
Place(p, d, w) ==
    /\ tenantOf[p] # Nobody
    /\ w \in Candidates(p, d)
    /\ decisions' = decisions \cup {[project |-> p, worker |-> w, tenant |-> tenantOf[p]]}
    /\ UNCHANGED <<registryVars, tenantOf, notes>>

--------------------------------------------------------------------------------
RegistryNext ==
    \/ \E w \in Workers :
         \/ CompleteCurrent(w) \/ RevokeGeneration(w) \/ SuspectLostHeartbeat(w)
         \/ \E t \in Tokens : ClaimDispatch(w, t) \/ Drain(w, t) \/ \E l \in Leases : Register(w, t, l)
         \/ \E g \in 1..MaxGeneration, t \in Tasks : AcceptResult(w, g, t)
    \/ \E t \in Tasks : Enqueue(t)

FleetNext ==
    \/ \E p \in Projects, n \in Tenants : BindProjectTenant(p, n)
    \/ \E w \in Workers : \/ \E n \in Annotations : AnnotateWorker(w, n)
                          \/ \E p \in Projects, d \in Demands : Place(p, d, w)

Next == RegistryNext \/ FleetNext

Spec == Init /\ [][Next]_vars

--------------------------------------------------------------------------------
(* Once a worker's generation is revoked nothing it reports is accepted any more: not    *)
(* after the same id registers again, with any generation, the revoked one included.     *)
RevokedNeverAccepted == \A r \in accepted : ~r.fenced

(* A task is at one place: waiting in the queue or held by one worker's claim, never     *)
(* both and never two, through drains, revocations and new registrations.                *)
TaskAtOnePlace ==
    /\ \A j, k \in DOMAIN queue : queue[j] = queue[k] => j = k
    /\ \A w \in DOMAIN workers : workers[w].claim # NoTask =>
         /\ workers[w].claim \notin Range(queue)
         /\ \A v \in DOMAIN workers : workers[v].claim = workers[w].claim => v = w

(* A draining worker has the claim it waits for: none stays draining with nothing left   *)
(* to finish.                                                                            *)
DrainingHasWork == \A w \in DOMAIN workers : workers[w].status = "draining" => workers[w].claim # NoTask
================================================================================
