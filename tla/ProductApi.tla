------------------------------- MODULE ProductApi ------------------------------
(***************************************************************************)
(* The product API (src/swarm/api: routes_v1, auth): requests of principals *)
(* on the store, keyed by idempotency keys, restarts and crashes of the     *)
(* process, and a client that follows the event log by its cursor.          *)
(*                                                                         *)
(* The process is one event loop and no handler suspends, so a request is   *)
(* one step.  A request that is refused, or answered from an idempotency    *)
(* entry, changes nothing.                                                  *)
(***************************************************************************)
EXTENDS ApiStore, FiniteSets

CONSTANTS Actors,
          Member,    \* projects of an actor
          Keys, NoKey,
          KeyedOps,  \* bound: operations that come with a key
          Admitted,  \* actors with canary and evaluation admission
          Watched,   \* project the client follows
          Limit      \* page size of the client

Operations == {"create", "review", "cancel", "enroll", "resolve", "project", "probe", "evaluate"}

ASSUME ApiAssumption ==
    /\ Member \in [Actors -> SUBSET Projects] /\ NoKey \notin Keys
    /\ KeyedOps \subseteq Operations /\ Admitted \subseteq Actors
    /\ Watched \in Projects /\ Limit \in Nat \ {0}

VARIABLES idempotency, \* entries: scope, key and digest of requests that were answered
          ran,         \* history: how often a scoped key was executed in this process
          cursor,      \* the client's: 0 for none, else the position of an event
          seen         \* history: events of this process the client was given

apiVars == <<idempotency, ran, cursor, seen>>
productVars == <<storeVars, apiVars>>

\* Members of a scope: who asked for what in which project, under which key.
Scope == [actor : Actors, project : Projects, operation : Operations, key : Keys]
ScopeOf(u, p, op, k) == [actor |-> u, project |-> p, operation |-> op, key |-> k]
Digests == (Missions \cup Approvals \cup Projects) \X BOOLEAN \X BOOLEAN

ApiTypeOK ==
    /\ StoreTypeOK
    /\ idempotency \subseteq [scope : Scope, digest : Digests]
    /\ ran \in [Scope -> Nat]
    /\ cursor \in 0..Unknown
    /\ seen \in Seq(1..MaxEvents)

ApiInit ==
    /\ StoreInit
    /\ idempotency = {}
    /\ ran = [s \in Scope |-> 0]
    /\ cursor = 0
    /\ seen = <<>>

RequireProject(u, p) == p \in Member[u]

\* recall_idempotent: an entry answers the request, or refuses it with another digest.
Recalled(s) == \E e \in idempotency : e.scope = s
\* An answer that is not remembered.
StoreNothing(s, digest) == UNCHANGED idempotency

StoreIdempotent(s, digest) == idempotency' = idempotency \cup {[scope |-> s, digest |-> digest]}

\* A request on project p: authorised, not answered before, and remembered when keyed.
Request(u, p, op, k, digest) ==
    /\ RequireProject(u, p)
    /\ k = NoKey \/ op \in KeyedOps
    /\ IF k = NoKey THEN UNCHANGED <<idempotency, ran>>
       ELSE LET s == ScopeOf(u, p, op, k) IN
            /\ ~Recalled(s)
            /\ StoreIdempotent(s, digest)
            /\ ran' = [ran EXCEPT ![s] = @ + 1]
    /\ UNCHANGED <<cursor, seen>>

\* The process is gone: entries, events, approvals and cancellations with it.
Restarted ==
    /\ Forget
    /\ idempotency' = {}
    /\ ran' = [s \in Scope |-> 0]
    /\ cursor' = IF cursor = 0 THEN 0 ELSE Unknown
    /\ seen' = <<>>

--------------------------------------------------------------------------------
(* Missions.  The digest of a create is that of the contract alone. *)

CreateMission(u, k, m, supported, checks) ==
    /\ Request(u, MissionProject[m], "create", k, <<m, FALSE, FALSE>>)
    /\ Stores(m, Created(supported), CreateWrites(m, supported, checks))
    /\ Publish(MissionEvent("created", m, 0))
    /\ UNCHANGED <<cancelled, approvals, configs>>

CreateCrashes(m, supported, checks) ==
    /\ Leaves(m, CreateWrites(m, supported, checks))
    /\ Restarted /\ UNCHANGED configs

ReviewMission(u, k, m, good, own) ==
    LET accept == ReviewAttemptOf(m, good, own)
        c == Reviewed(GetMission(m), accept)
    IN  /\ Found(m) /\ GetMission(m).revision < MaxRevision
        /\ Request(u, MissionProject[m], "review", k, <<m, good, own>>)
        /\ Stores(m, c, ReviewWrites(m, c, accept))
        /\ Publish(IF accept THEN MissionEvent("accepted", m, Fresh)
                   ELSE MissionEvent("rejected", m, c.revision))
        /\ UNCHANGED <<cancelled, approvals, configs>>

ReviewCrashes(m, good, own) ==
    LET accept == ReviewAttemptOf(m, good, own)
        c == Reviewed(GetMission(m), accept)
    IN  /\ Found(m) /\ GetMission(m).revision < MaxRevision
        /\ Leaves(m, ReviewWrites(m, c, accept))
        /\ Restarted /\ UNCHANGED configs

\* A mission this process cancelled before is returned as it is.
CancelMission(u, k, m) ==
    /\ Found(m)
    /\ Request(u, MissionProject[m], "cancel", k, <<m, FALSE, FALSE>>)
    /\ IF m \in cancelled THEN UNCHANGED storeVars
       ELSE LET c == Cancelled(GetMission(m)) IN
            /\ GetMission(m).generation < MaxGeneration
            /\ Stores(m, c, <<PersistMissionRecord(m, c)>>)
            /\ cancelled' = cancelled \cup {m}
            /\ Publish(MissionEvent("cancelled", m, c.generation))
            /\ UNCHANGED <<approvals, configs>>

CancelCrashes(m) ==
    /\ Found(m) /\ m \notin cancelled /\ GetMission(m).generation < MaxGeneration
    /\ Leaves(m, <<PersistMissionRecord(m, Cancelled(GetMission(m)))>>)
    /\ Restarted /\ UNCHANGED configs

\* Reading a mission brings the contract of its file into memory, whoever asks.
ReadMission(m) ==
    /\ missions[m] = None /\ Readable(m)
    /\ missions' = [missions EXCEPT ![m] = files[m].contract]
    /\ UNCHANGED <<files, cancelled, approvals, configs, log, apiVars>>

\* Only with fixtures: the side effect a cancellation blocks; its list is for the tests.
DemoSideEffect(u, m) ==
    /\ Found(m) /\ RequireProject(u, MissionProject[m])
    /\ AssertNotCancelled(m)
    /\ missions' = [missions EXCEPT ![m] = GetMission(m)]
    /\ UNCHANGED <<files, cancelled, approvals, configs, log, apiVars>>

Restart == Restarted /\ UNCHANGED <<files, configs>>

--------------------------------------------------------------------------------
(* Workers, approvals and the event log. *)

EnrollRequest(u, k, p) ==
    /\ Request(u, p, "enroll", k, <<p, FALSE, FALSE>>)
    /\ EnrollWorker(p)

ResolveApproval(u, k, a, accept) ==
    /\ Request(u, ApprovalProject[a], "resolve", k, <<a, accept, FALSE>>)
    /\ Resolve(a, accept)

ListEvents ==
    LET page == ListAfter(Watched, cursor, Limit)
    IN  /\ page # <<>>
        /\ cursor' = Cursor(page, cursor)
        /\ seen' = seen \o page
        /\ UNCHANGED <<storeVars, idempotency, ran>>

\* Probes and evaluations are answered without work: their entry is all that stays.  They
\* count for one of the caller's projects.
Probe(u, k, op) ==
    /\ u \in Admitted
    /\ \E p \in Member[u] : Request(u, p, op, k, <<p, FALSE, FALSE>>)
    /\ UNCHANGED storeVars

CreateProject(u, k, p) ==
    /\ Request(u, p, "project", k, <<p, FALSE, FALSE>>)
    /\ CreateConfig(p)

UpdateProject(u, p, s) ==
    /\ RequireProject(u, p)
    /\ UpdateConfig(p, s)
    /\ UNCHANGED apiVars

--------------------------------------------------------------------------------
ApiNext ==
    \/ \E u \in Actors, k \in Keys \cup {NoKey} :
         \/ \E m \in Missions :
              \/ CancelMission(u, k, m)
              \/ \E b, c \in BOOLEAN : CreateMission(u, k, m, b, c) \/ ReviewMission(u, k, m, b, c)
         \/ \E op \in {"probe", "evaluate"} : Probe(u, k, op)
         \/ \E p \in Projects : \/ EnrollRequest(u, k, p) \/ CreateProject(u, k, p)
                                \/ \E s \in Settings : UpdateProject(u, p, s)
         \/ \E a \in Approvals, b \in BOOLEAN : ResolveApproval(u, k, a, b)
    \/ \E m \in Missions :
         \/ ReadMission(m) \/ CancelCrashes(m)
         \/ \E u \in Actors : DemoSideEffect(u, m)
         \/ \E b, c \in BOOLEAN : CreateCrashes(m, b, c) \/ ReviewCrashes(m, b, c)
    \/ \E a \in Approvals : (CreateApproval(a) \/ ApprovalExpires(a)) /\ UNCHANGED apiVars
    \/ ListEvents
    \/ Restart

ApiSpec == ApiInit /\ [][ApiNext]_productVars

--------------------------------------------------------------------------------
(* What the API told of a mission survives it: the contract in memory is the one in the  *)
(* file, so a restart at any time brings back the last answer, and a completed mission,  *)
(* there or here, holds a receipt and no other but a cancelled one does.                 *)
RestartKeepsMissions ==
    \A m \in Missions :
        /\ missions[m] # None => Readable(m) /\ files[m].contract = missions[m]
        /\ Readable(m) => LET c == files[m].contract IN
                          /\ c.status = "completed" => c.receipt
                          /\ c.status \in {"planning", "failed"} => ~c.receipt

(* A key is executed at most once while the process lives: every execution leaves the   *)
(* entry that answers the retries, one per scope.                                       *)
KeyRunsOnce ==
    \A s \in Scope : ran[s] = Cardinality({e \in idempotency : e.scope = s}) /\ ran[s] <= 1

(* A client that follows the cursor is given every event of its project once and in     *)
(* order, also when its cursor is of a process that is gone.                            *)
PollSeesEachEventOnce ==
    LET upto == IF cursor = Unknown THEN 0 ELSE cursor
    IN  /\ IsAscending(seen)
        /\ Range(seen) = {i \in 1..upto : log[i].project = Watched}
================================================================================
