----------------------------- MODULE RuntimeProofs -----------------------------
(***************************************************************************)
(* Theorems about the runtime.                                              *)
(* WorkerFleet, for every set of workers, tokens, tasks, projects and       *)
(* tenants, every kind of registration and every bound.                     *)
(* AgentSession, for every set of attempts, every limit of the pool and     *)
(* every number of restarts.                                                *)
(* ScaleRun and Reservations, for every list of targets, every set of       *)
(* requests, all capacities and limits.                                     *)
(***************************************************************************)
EXTENDS WorkerFleet, AgentSession, ScaleRun, OrderProofs, FiniteSetTheorems, TLAPS

--------------------------------------------------------------------------------
(* Facts about the operators. *)

(* A registration and an annotation write one entry. *)
LEMMA WithIsPartial ==
    ASSUME NEW S, NEW f, PartialMap(f, S), NEW w \in Workers, NEW v \in S
    PROVE  PartialMap(With(f, w, v), S)
  BY DEF With, PartialMap

(* The registry starts empty. *)
LEMMA TypeInit == Init => TypeOK
  <1> SUFFICES ASSUME Init PROVE TypeOK
    OBVIOUS
  <1>1. PartialMap(<<>>, WorkerRecord) /\ PartialMap(<<>>, Note)
    BY DEF PartialMap
  <1>2. QED
    BY <1>1, FleetAssumption DEF TypeOK, Init

(* A call that rewrites the record of one registered worker keeps the map's shape. *)
LEMMA RecordWritten ==
    ASSUME TypeOK, NEW w, Known(w), NEW r \in WorkerRecord,
           workers' = [workers EXCEPT ![w] = r]
    PROVE  /\ PartialMap(workers', WorkerRecord)
           /\ DOMAIN workers' = DOMAIN workers
           /\ workers'[w] = r
           /\ \A v \in DOMAIN workers : v # w => workers'[v] = workers[v]
  <1>1. DOMAIN workers \in SUBSET Workers /\ workers \in [DOMAIN workers -> WorkerRecord]
    BY DEF PartialMap, TypeOK
  <1>2. workers' \in [DOMAIN workers -> WorkerRecord]
    BY <1>1 DEF Known
  <1>3. QED
    BY <1>1, <1>2 DEF PartialMap, Known

(* What a worker's record is. *)
LEMMA RecordOf ==
    ASSUME TypeOK, NEW w, Known(w)
    PROVE  w \in Workers /\ workers[w] \in WorkerRecord
  BY DEF PartialMap, TypeOK, Known

(* What each call of the registry writes. *)
LEMMA RegisterWrites ==
    ASSUME TypeOK, NEW w \in Workers, NEW t \in Tokens, NEW l \in Leases, Register(w, t, l)
    PROVE  /\ TypeOK'
           /\ DOMAIN workers' = DOMAIN workers \cup {w}
           /\ workers'[w].status = "online" /\ workers'[w].claim = NoTask
           /\ \A v \in DOMAIN workers : v # w => workers'[v] = workers[v]
           /\ UNCHANGED <<quarantine, queue, accepted, revoked, enqueued>>
  <1>1. [generation |-> l.generation, able |-> l.able, project |-> l.project,
         status |-> "online", revoked |-> FALSE, claim |-> NoTask] \in WorkerRecord
    BY FleetAssumption DEF WorkerRecord, Status
  <1>2. PICK r \in WorkerRecord :
           r.status = "online" /\ r.claim = NoTask /\ workers' = With(workers, w, r)
    BY <1>1 DEF Register
  <1>3. /\ PartialMap(workers', WorkerRecord)
        /\ DOMAIN workers' = DOMAIN workers \cup {w}
        /\ workers'[w] = r
        /\ \A v \in DOMAIN workers : v # w => workers'[v] = workers[v]
    <2>1. DOMAIN workers \in SUBSET Workers /\ workers \in [DOMAIN workers -> WorkerRecord]
      BY DEF PartialMap, TypeOK
    <2>2. PartialMap(workers', WorkerRecord)
      BY <1>2, WithIsPartial DEF TypeOK
    <2>3. QED
      BY <1>2, <2>1, <2>2 DEF With
  <1>4. TypeOK'
    BY <1>3, FleetAssumption DEF TypeOK, Register, fleetVars
  <1>5. QED
    BY <1>2, <1>3, <1>4 DEF Register

LEMMA ClaimWrites ==
    ASSUME TypeOK, NEW w \in Workers, NEW t \in Tokens, ClaimDispatch(w, t)
    PROVE  /\ TypeOK'
           /\ Known(w) /\ queue # <<>> /\ queue' = Tail(queue)
           /\ workers[w].status # "draining"
           /\ DOMAIN workers' = DOMAIN workers
           /\ workers'[w].status = workers[w].status /\ workers'[w].claim = Head(queue)
           /\ \A v \in DOMAIN workers : v # w => workers'[v] = workers[v]
           /\ UNCHANGED <<quarantine, accepted, revoked, enqueued>>
  <1> DEFINE r == [workers[w] EXCEPT !.claim = Head(queue)]
  <1>1. Known(w) /\ queue # <<>> /\ queue \in Seq(Tasks)
    BY DEF TypeOK, ClaimDispatch, Require
  <1>2. Head(queue) \in Tasks /\ Tail(queue) \in Seq(Tasks)
    BY <1>1
  <1>3. workers[w] \in WorkerRecord
    BY <1>1, RecordOf
  <1>4. r \in WorkerRecord /\ r.status = workers[w].status /\ r.claim = Head(queue)
    BY <1>2, <1>3 DEF WorkerRecord
  <1>5. workers' = [workers EXCEPT ![w] = r]
    BY DEF ClaimDispatch
  <1>6. /\ PartialMap(workers', WorkerRecord)
        /\ DOMAIN workers' = DOMAIN workers
        /\ workers'[w] = r
        /\ \A v \in DOMAIN workers : v # w => workers'[v] = workers[v]
    BY <1>1, <1>4, <1>5, RecordWritten
  <1>7. TypeOK'
    BY <1>2, <1>6 DEF TypeOK, ClaimDispatch, Popped, fleetVars
  <1>8. QED
    BY <1>1, <1>4, <1>6, <1>7 DEF ClaimDispatch, Popped

LEMMA DrainWrites ==
    ASSUME TypeOK, NEW w \in Workers, NEW t \in Tokens, Drain(w, t)
    PROVE  /\ TypeOK'
           /\ Known(w)
           /\ DOMAIN workers' = DOMAIN workers
           /\ workers'[w].claim = workers[w].claim
           /\ workers'[w].status = "draining" => workers[w].claim # NoTask
           /\ \A v \in DOMAIN workers : v # w => workers'[v] = workers[v]
           /\ UNCHANGED <<queue, quarantine, accepted, revoked, enqueued>>
  <1> DEFINE r == [workers[w] EXCEPT !.status = IF workers[w].claim = NoTask THEN "offline" ELSE "draining"]
  <1>1. Known(w) /\ workers[w] \in WorkerRecord
    BY RecordOf DEF Drain, Require
  <1>2. /\ r \in WorkerRecord /\ r.claim = workers[w].claim
        /\ r.status = "draining" => workers[w].claim # NoTask
    BY <1>1 DEF WorkerRecord, Status
  <1>3. workers' = [workers EXCEPT ![w] = r]
    BY DEF Drain
  <1>4. /\ PartialMap(workers', WorkerRecord)
        /\ DOMAIN workers' = DOMAIN workers
        /\ workers'[w] = r
        /\ \A v \in DOMAIN workers : v # w => workers'[v] = workers[v]
    BY <1>1, <1>2, <1>3, RecordWritten
  <1>5. TypeOK'
    BY <1>4 DEF TypeOK, Drain, fleetVars
  <1>6. QED
    BY <1>1, <1>2, <1>4, <1>5 DEF Drain

LEMMA CompleteWrites ==
    ASSUME TypeOK, NEW w \in Workers, CompleteCurrent(w)
    PROVE  /\ TypeOK'
           /\ Known(w)
           /\ DOMAIN workers' = DOMAIN workers
           /\ workers'[w].claim = NoTask /\ workers'[w].status # "draining"
           /\ \A v \in DOMAIN workers : v # w => workers'[v] = workers[v]
           /\ UNCHANGED <<queue, quarantine, accepted, revoked, enqueued>>
  <1> DEFINE r == Completed(workers[w])
  <1>1. Known(w) /\ workers[w] \in WorkerRecord
    BY RecordOf DEF CompleteCurrent
  <1>2. r \in WorkerRecord /\ r.claim = NoTask /\ r.status # "draining"
    BY <1>1 DEF Completed, WorkerRecord, Status
  <1>3. workers' = [workers EXCEPT ![w] = r]
    BY DEF CompleteCurrent
  <1>4. /\ PartialMap(workers', WorkerRecord)
        /\ DOMAIN workers' = DOMAIN workers
        /\ workers'[w] = r
        /\ \A v \in DOMAIN workers : v # w => workers'[v] = workers[v]
    BY <1>1, <1>2, <1>3, RecordWritten
  <1>5. TypeOK'
    BY <1>4 DEF TypeOK, CompleteCurrent, fleetVars
  <1>6. QED
    BY <1>1, <1>2, <1>4, <1>5 DEF CompleteCurrent

LEMMA RevokeWrites ==
    ASSUME TypeOK, NEW w \in Workers, RevokeGeneration(w)
    PROVE  /\ TypeOK'
           /\ Known(w)
           /\ DOMAIN workers' = DOMAIN workers
           /\ workers'[w].claim = workers[w].claim /\ workers'[w].status = "quarantined"
           /\ \A v \in DOMAIN workers : v # w => workers'[v] = workers[v]
           /\ quarantine' = quarantine \cup {w} /\ revoked' = revoked \cup {w}
           /\ UNCHANGED <<queue, accepted, enqueued>>
  <1> DEFINE r == [workers[w] EXCEPT !.revoked = TRUE, !.generation = @ + 1, !.status = "quarantined"]
  <1>1. Known(w) /\ workers[w] \in WorkerRecord
    BY RecordOf DEF RevokeGeneration
  <1>2. r \in WorkerRecord /\ r.claim = workers[w].claim /\ r.status = "quarantined"
    <2>1. workers[w].generation + 1 \in 1..MaxGeneration
      BY <1>1, FleetAssumption DEF RevokeGeneration, WorkerRecord
    <2>2. QED
      BY <1>1, <2>1 DEF WorkerRecord, Status
  <1>3. workers' = [workers EXCEPT ![w] = r]
    BY <1>1, RecordOf DEF PartialMap, TypeOK, RevokeGeneration, Known
  <1>4. /\ PartialMap(workers', WorkerRecord)
        /\ DOMAIN workers' = DOMAIN workers
        /\ workers'[w] = r
        /\ \A v \in DOMAIN workers : v # w => workers'[v] = workers[v]
    BY <1>1, <1>2, <1>3, RecordWritten
  <1>5. TypeOK'
    BY <1>4 DEF TypeOK, RevokeGeneration, Fenced, fleetVars
  <1>6. QED
    BY <1>1, <1>2, <1>4, <1>5 DEF RevokeGeneration, Fenced

(* The other calls write no worker record. *)
LEMMA OtherTypes ==
    ASSUME TypeOK,
           \/ \E t \in Tasks : Enqueue(t)
           \/ \E w \in Workers : \/ SuspectLostHeartbeat(w)
                                 \/ \E g \in 1..MaxGeneration, t \in Tasks : AcceptResult(w, g, t)
           \/ FleetNext
           \/ UNCHANGED vars
    PROVE  TypeOK'
  <1>1. ASSUME NEW t \in Tasks, Enqueue(t) PROVE TypeOK'
    BY <1>1 DEF TypeOK, Enqueue, fleetVars
  <1>2. ASSUME NEW w \in Workers, SuspectLostHeartbeat(w) PROVE TypeOK'
    BY <1>2 DEF TypeOK, SuspectLostHeartbeat, fleetVars
  <1>3. ASSUME NEW w \in Workers, NEW g \in 1..MaxGeneration, NEW t \in Tasks, AcceptResult(w, g, t)
        PROVE  TypeOK'
    <2>1. [worker |-> w, fenced |-> w \in revoked] \in [worker : Workers, fenced : BOOLEAN]
      <3>1. (w \in revoked) \in BOOLEAN
        OBVIOUS
      <3>2. QED
        BY <3>1, Zenon
    <2>2. accepted' \subseteq [worker : Workers, fenced : BOOLEAN]
      BY <1>3, <2>1 DEF TypeOK, AcceptResult
    <2>3. QED
      BY <1>3, <2>2 DEF TypeOK, AcceptResult, fleetVars
  <1>4. ASSUME NEW p \in Projects, NEW n \in Tenants, BindProjectTenant(p, n) PROVE TypeOK'
    BY <1>4 DEF TypeOK, BindProjectTenant, registryVars
  <1>5. ASSUME NEW w \in Workers, NEW n \in Annotations, AnnotateWorker(w, n) PROVE TypeOK'
    <2>1. n \in Note /\ PartialMap(notes, Note)
      BY FleetAssumption DEF TypeOK
    <2>2. PartialMap(notes', Note)
      BY <1>5, <2>1, WithIsPartial DEF AnnotateWorker
    <2>3. QED
      BY <1>5, <2>2 DEF TypeOK, AnnotateWorker, registryVars
  <1>6. ASSUME NEW w \in Workers, NEW p \in Projects, NEW d \in Demands, Place(p, d, w) PROVE TypeOK'
    BY <1>6 DEF TypeOK, Place, registryVars
  <1>7. CASE UNCHANGED vars
    BY <1>7 DEF TypeOK, vars, registryVars, fleetVars
  <1>8. QED
    BY <1>1, <1>2, <1>3, <1>4, <1>5, <1>6, <1>7 DEF FleetNext

(* Every call keeps the registry and the placements in their shape. *)
LEMMA TypeStep == TypeOK /\ [Next]_vars => TypeOK'
  BY RegisterWrites, ClaimWrites, DrainWrites, CompleteWrites, RevokeWrites, OtherTypes
     DEF Next, RegistryNext

(* The registry and the placements have their types in every state. *)
THEOREM FleetTypes == Spec => []TypeOK
  BY TypeInit, TypeStep, PTL DEF Spec

--------------------------------------------------------------------------------
(* The inductive invariant. *)

(* revoke_generation quarantines the worker, and nothing lifts a quarantine. *)
RevokedInQuarantine == revoked \subseteq quarantine

(* What waits or is claimed was enqueued. *)
PlacedWasEnqueued ==
    /\ Range(queue) \subseteq enqueued
    /\ \A w \in DOMAIN workers : workers[w].claim # NoTask => workers[w].claim \in enqueued

FleetInv ==
    /\ RevokedInQuarantine
    /\ PlacedWasEnqueued
    /\ RevokedNeverAccepted
    /\ TaskAtOnePlace
    /\ DrainingHasWork

(* The empty registry. *)
LEMMA FleetInit == Init => FleetInv
  <1> SUFFICES ASSUME Init PROVE FleetInv
    OBVIOUS
  <1>1. DOMAIN workers = {} /\ DOMAIN queue = {} /\ Range(queue) = {}
    BY DEF Init, Range
  <1>2. QED
    BY <1>1 DEF Init, FleetInv, RevokedInQuarantine, PlacedWasEnqueued, RevokedNeverAccepted,
                TaskAtOnePlace, DrainingHasWork

(* A call that leaves the queue alone, writes the record of one worker, gives it no claim it *)
(* did not have and leaves it draining only with a claim, keeps tasks at one place.          *)
LEMMA OneRecord ==
    ASSUME FleetInv, NEW w,
           DOMAIN workers' \subseteq DOMAIN workers \cup {w},
           \A v \in DOMAIN workers : v # w => workers'[v] = workers[v],
           workers'[w].claim = NoTask \/ (w \in DOMAIN workers /\ workers'[w].claim = workers[w].claim),
           workers'[w].status = "draining" => workers'[w].claim # NoTask,
           UNCHANGED <<queue, enqueued>>
    PROVE  PlacedWasEnqueued' /\ TaskAtOnePlace' /\ DrainingHasWork'
  <1>1. PlacedWasEnqueued'
    BY DEF FleetInv, PlacedWasEnqueued
  <1>2. TaskAtOnePlace'
    BY DEF FleetInv, TaskAtOnePlace
  <1>3. DrainingHasWork'
    BY DEF FleetInv, DrainingHasWork
  <1>4. QED
    BY <1>1, <1>2, <1>3

(* register, drain, complete_current and revoke_generation. *)
LEMMA InvRecord ==
    ASSUME TypeOK, FleetInv, NEW w \in Workers,
           \/ \E t \in Tokens : Drain(w, t) \/ \E l \in Leases : Register(w, t, l)
           \/ CompleteCurrent(w) \/ RevokeGeneration(w)
    PROVE  FleetInv'
  <1>1. /\ DOMAIN workers' \subseteq DOMAIN workers \cup {w}
        /\ \A v \in DOMAIN workers : v # w => workers'[v] = workers[v]
        /\ workers'[w].claim = NoTask \/ (w \in DOMAIN workers /\ workers'[w].claim = workers[w].claim)
        /\ workers'[w].status = "draining" => workers'[w].claim # NoTask
        /\ UNCHANGED <<queue, enqueued, accepted>>
        /\ \/ UNCHANGED <<quarantine, revoked>>
           \/ quarantine' = quarantine \cup {w} /\ revoked' = revoked \cup {w}
    BY RegisterWrites, DrainWrites, CompleteWrites, RevokeWrites DEF Known
  <1>2. PlacedWasEnqueued' /\ TaskAtOnePlace' /\ DrainingHasWork'
    BY <1>1, OneRecord
  <1>3. RevokedInQuarantine' /\ RevokedNeverAccepted'
    BY <1>1 DEF FleetInv, RevokedInQuarantine, RevokedNeverAccepted
  <1>4. QED
    BY <1>2, <1>3 DEF FleetInv

(* claim_dispatch moves the head of the queue into the worker's record. *)
LEMMA InvClaim ==
    ASSUME TypeOK, FleetInv, NEW w \in Workers, NEW t \in Tokens, ClaimDispatch(w, t)
    PROVE  FleetInv'
  <1>1. /\ w \in DOMAIN workers /\ queue # <<>> /\ queue' = Tail(queue)
        /\ workers[w].status # "draining"
        /\ DOMAIN workers' = DOMAIN workers
        /\ workers'[w].status = workers[w].status /\ workers'[w].claim = Head(queue)
        /\ \A v \in DOMAIN workers : v # w => workers'[v] = workers[v]
        /\ UNCHANGED <<quarantine, accepted, revoked, enqueued>>
    BY ClaimWrites DEF Known
  <1>2. queue \in Seq(Tasks)
    BY DEF TypeOK
  <1>3. /\ Len(queue) \in Nat /\ Len(queue) > 0 /\ DOMAIN queue = 1..Len(queue)
        /\ DOMAIN queue' = 1..(Len(queue) - 1)
        /\ \A j \in 1..(Len(queue) - 1) : queue'[j] = queue[j + 1]
        /\ Head(queue) = queue[1]
    BY <1>1, <1>2
  <1>4. \A j, k \in DOMAIN queue' : queue'[j] = queue'[k] => j = k
    <2> SUFFICES ASSUME NEW j \in 1..(Len(queue) - 1), NEW k \in 1..(Len(queue) - 1),
                        queue[j + 1] = queue[k + 1]
                 PROVE  j = k
      BY <1>3
    <2>1. j + 1 \in DOMAIN queue /\ k + 1 \in DOMAIN queue
      BY <1>3
    <2>2. j + 1 = k + 1
      BY <2>1 DEF FleetInv, TaskAtOnePlace
    <2>3. QED
      BY <2>2
  <1>5. Range(queue') \subseteq Range(queue) \ {Head(queue)}
    <2> SUFFICES ASSUME NEW j \in 1..(Len(queue) - 1)
                 PROVE  queue[j + 1] \in Range(queue) /\ queue[j + 1] # Head(queue)
      BY <1>3 DEF Range
    <2>1. j + 1 \in DOMAIN queue /\ 1 \in DOMAIN queue /\ j + 1 # 1
      BY <1>3
    <2>2. QED
      BY <1>3, <2>1 DEF FleetInv, TaskAtOnePlace, Range
  <1>6. Head(queue) \in Range(queue) /\ Head(queue) # NoTask
    BY <1>1, <1>2, <1>3, FleetAssumption DEF Range
  <1>7. TaskAtOnePlace'
    <2> SUFFICES ASSUME NEW v \in DOMAIN workers, workers'[v].claim # NoTask
                 PROVE  /\ workers'[v].claim \notin Range(queue')
                        /\ \A u \in DOMAIN workers : workers'[u].claim = workers'[v].claim => u = v
      BY <1>1, <1>4 DEF TaskAtOnePlace
    <2>1. \A u \in DOMAIN workers : u # w => workers'[u].claim # Head(queue)
      BY <1>1, <1>6 DEF FleetInv, TaskAtOnePlace
    <2>2. CASE v = w
      BY <1>1, <1>5, <2>1, <2>2
    <2>3. CASE v # w
      BY <1>1, <1>5, <2>1, <2>3 DEF FleetInv, TaskAtOnePlace
    <2>4. QED
      BY <2>2, <2>3
  <1>8. PlacedWasEnqueued'
    BY <1>1, <1>5, <1>6 DEF FleetInv, PlacedWasEnqueued
  <1>9. DrainingHasWork'
    BY <1>1, <1>6 DEF FleetInv, DrainingHasWork
  <1>10. RevokedInQuarantine' /\ RevokedNeverAccepted'
    BY <1>1 DEF FleetInv, RevokedInQuarantine, RevokedNeverAccepted
  <1>11. QED
    BY <1>7, <1>8, <1>9, <1>10 DEF FleetInv

(* enqueue adds a task that is nowhere yet. *)
LEMMA InvEnqueue ==
    ASSUME TypeOK, FleetInv, NEW t \in Tasks, Enqueue(t)
    PROVE  FleetInv'
  <1>1. /\ queue' = Append(queue, t) /\ t \notin enqueued /\ enqueued' = enqueued \cup {t}
        /\ UNCHANGED <<workers, quarantine, accepted, revoked>>
    BY DEF Enqueue
  <1>2. queue \in Seq(Tasks)
    BY DEF TypeOK
  <1>3. /\ Len(queue) \in Nat /\ DOMAIN queue = 1..Len(queue)
        /\ DOMAIN queue' = 1..(Len(queue) + 1)
        /\ \A j \in 1..Len(queue) : queue'[j] = queue[j]
        /\ queue'[Len(queue) + 1] = t
    BY <1>1, <1>2
  <1>4. Range(queue') \subseteq Range(queue) \cup {t}
    <2> SUFFICES ASSUME NEW j \in 1..(Len(queue) + 1)
                 PROVE  queue'[j] \in Range(queue) \cup {t}
      BY <1>3 DEF Range
    <2>1. j \in DOMAIN queue \/ j = Len(queue) + 1
      BY <1>3
    <2>2. QED
      BY <1>3, <2>1 DEF Range
  <1>5. \A j, k \in DOMAIN queue' : queue'[j] = queue'[k] => j = k
    <2> SUFFICES ASSUME NEW j \in 1..(Len(queue) + 1), NEW k \in 1..(Len(queue) + 1),
                        queue'[j] = queue'[k]
                 PROVE  j = k
      BY <1>3
    <2>1. \A x \in DOMAIN queue : queue[x] # t
      BY <1>1 DEF FleetInv, PlacedWasEnqueued, Range
    <2>2. /\ j \in DOMAIN queue \/ j = Len(queue) + 1
          /\ k \in DOMAIN queue \/ k = Len(queue) + 1
      BY <1>3
    <2>3. QED
      BY <1>3, <2>1, <2>2 DEF FleetInv, TaskAtOnePlace
  <1>6. TaskAtOnePlace'
    BY <1>1, <1>4, <1>5 DEF FleetInv, TaskAtOnePlace, PlacedWasEnqueued
  <1>7. PlacedWasEnqueued'
    BY <1>1, <1>4 DEF FleetInv, PlacedWasEnqueued
  <1>8. DrainingHasWork' /\ RevokedInQuarantine' /\ RevokedNeverAccepted'
    BY <1>1 DEF FleetInv, DrainingHasWork, RevokedInQuarantine, RevokedNeverAccepted
  <1>9. QED
    BY <1>6, <1>7, <1>8 DEF FleetInv

(* accept_result, suspect_lost_heartbeat, placement and stuttering. *)
LEMMA InvOther ==
    ASSUME FleetInv,
           \/ \E w \in Workers : \/ SuspectLostHeartbeat(w)
                                 \/ \E g \in 1..MaxGeneration, t \in Tasks : AcceptResult(w, g, t)
           \/ FleetNext
           \/ UNCHANGED vars
    PROVE  FleetInv'
  <1>1. /\ UNCHANGED <<workers, queue, enqueued, revoked>>
        /\ quarantine \subseteq quarantine'
        /\ \A r \in accepted' : r \in accepted \/ \E w : w \notin quarantine /\ r = [worker |-> w, fenced |-> w \in revoked]
    BY DEF SuspectLostHeartbeat, AcceptResult, FleetNext, BindProjectTenant, AnnotateWorker, Place,
           vars, registryVars
  <1>2. RevokedNeverAccepted'
    <2>1. ASSUME NEW w, w \notin quarantine
          PROVE  ~[worker |-> w, fenced |-> w \in revoked].fenced
      BY <2>1 DEF FleetInv, RevokedInQuarantine
    <2>2. QED
      BY <1>1, <2>1 DEF FleetInv, RevokedNeverAccepted
  <1>3. RevokedInQuarantine' /\ PlacedWasEnqueued' /\ TaskAtOnePlace' /\ DrainingHasWork'
    BY <1>1 DEF FleetInv, RevokedInQuarantine, PlacedWasEnqueued, TaskAtOnePlace, DrainingHasWork
  <1>4. QED
    BY <1>2, <1>3 DEF FleetInv

LEMMA FleetStep == TypeOK /\ FleetInv /\ [Next]_vars => FleetInv'
  BY InvRecord, InvClaim, InvEnqueue, InvOther DEF Next, RegistryNext

(* The inductive invariant holds in every state of the registry. *)
THEOREM FleetInvariant == Spec => [](TypeOK /\ FleetInv)
  <1>1. Init => TypeOK /\ FleetInv
    BY TypeInit, FleetInit
  <1>2. TypeOK /\ FleetInv /\ [Next]_vars => (TypeOK /\ FleetInv)'
    BY TypeStep, FleetStep
  <1>3. QED
    BY <1>1, <1>2, PTL DEF Spec

--------------------------------------------------------------------------------
(* What the run checks, for every instance. *)

(* accept_result after revoke_generation: nothing of a revoked worker is accepted, not  *)
(* after any number of registrations of its id.                                         *)
THEOREM RevokedIsFenced == Spec => []RevokedNeverAccepted
  <1>1. TypeOK /\ FleetInv => RevokedNeverAccepted
    BY DEF FleetInv
  <1>2. QED
    BY <1>1, FleetInvariant, PTL

(* claim_dispatch and enqueue: no task waits twice, is held twice, or waits and is held. *)
THEOREM TasksAtOnePlace == Spec => []TaskAtOnePlace
  <1>1. TypeOK /\ FleetInv => TaskAtOnePlace
    BY DEF FleetInv
  <1>2. QED
    BY <1>1, FleetInvariant, PTL

(* drain and complete_current: a worker is draining only while it holds a claim. *)
THEOREM DrainingWaitsForWork == Spec => []DrainingHasWork
  <1>1. TypeOK /\ FleetInv => DrainingHasWork
    BY DEF FleetInv
  <1>2. QED
    BY <1>1, FleetInvariant, PTL

--------------------------------------------------------------------------------
(* The inductive invariant.  The pool is finite because it only ever grows by one     *)
(* attempt at a time; an attempt in the pool is one the runtime knows and has not      *)
(* finished, so that opening a session never finds its attempt there already; and a    *)
(* cancellation is for an attempt the runtime knows, so that an attempt answered       *)
(* without a model turn has not been cancelled.                                        *)

(* The slots taken are countable and within the limit. *)
PoolWithinLimit == IsFiniteSet(active) /\ RunnableCount <= MaxSessions

(* An attempt in the pool is known and not over. *)
ActiveIsUnfinished == \A a \in active : status[a] \notin Finished \cup {"none"}

(* run_task holds a runnable slot while it waits for the broker. *)
TurnsHoldSlots == \A a \in Attempts : phase[a] \in {"reserving", "sent"} => a \in active \ waiting

(* Only a known attempt has a cancel request. *)
CancelsAreKnown == \A a \in cancels : status[a] # "none"

SessionInv ==
    /\ PoolWithinLimit
    /\ ActiveIsUnfinished
    /\ TurnsHoldSlots
    /\ CancelsAreKnown
    /\ CancelIsNotLost

--------------------------------------------------------------------------------
(* The type invariant. *)

(* The runtime starts with nothing. *)
LEMMA SessionTypeInit == SessionInit => SessionTypeOK
  BY SessionAssumption DEF SessionInit, SessionTypeOK, AttemptStatus, Phases

(* A checkpoint file of a known attempt is well formed. *)
LEMMA CheckpointTyped ==
    ASSUME SessionTypeOK, NEW a \in Attempts, NEW s \in AttemptStatus, Checkpoint(a, s)
    PROVE  checkpoints' \subseteq SessionCheckpoint
  <1>1. (s = "cancelled" \/ a \in cancels) \in BOOLEAN /\ (s = "pending") \in BOOLEAN
    OBVIOUS
  <1>2. [attempt |-> a, status |-> s, cancel |-> s = "cancelled" \/ a \in cancels,
         children |-> s = "pending"] \in SessionCheckpoint
    BY <1>1, Zenon DEF SessionCheckpoint
  <1>3. QED
    BY <1>2, Zenon DEF Checkpoint, SessionTypeOK

(* The end of a run_task keeps the types. *)
LEMMA ReturnTyped ==
    ASSUME SessionTypeOK, NEW a \in Attempts, NEW s \in AttemptStatus, s # "pending", Return(a, s)
    PROVE  SessionTypeOK'
  <1>1. checkpoints' \subseteq SessionCheckpoint
    BY CheckpointTyped DEF Return
  <1>2. "returned" \in Phases
    BY DEF Phases
  <1>3. active' \subseteq Attempts /\ waiting' \subseteq active'
    BY DEF Return, Released, SessionTypeOK
  <1>4. QED
    BY <1>1, <1>2, <1>3 DEF Return, SessionTypeOK

(* The outcome of a model turn is a status that ends or suspends the attempt. *)
LEMMA OutcomeIs ==
    ASSUME NEW a
    PROVE  Outcome(a) \in {"unknown", "cancelled", "succeeded"}
  BY DEF Outcome

(* Every step keeps the types. *)
LEMMA SessionTypeStep == SessionTypeOK /\ [SessionNext]_sessionVars => SessionTypeOK'
  <1> SUFFICES ASSUME SessionTypeOK, [SessionNext]_sessionVars PROVE SessionTypeOK'
    OBVIOUS
  <1> USE SessionAssumption
  <1>0. CASE UNCHANGED sessionVars
    BY <1>0 DEF sessionVars, SessionTypeOK
  <1>1. ASSUME NEW a \in Attempts, RunRefused(a) PROVE SessionTypeOK'
    BY <1>1 DEF RunRefused, Opened, SessionTypeOK
  <1>2. ASSUME NEW a \in Attempts, RunWaits(a) PROVE SessionTypeOK'
    <2>1. checkpoints' \subseteq SessionCheckpoint
      BY <1>2, CheckpointTyped DEF RunWaits, AttemptStatus
    <2>2. QED
      BY <1>2, <2>1 DEF RunWaits, Opened, SessionTypeOK, AttemptStatus, Phases
  <1>3. ASSUME NEW a \in Attempts, RunsAtOnce(a) PROVE SessionTypeOK'
    <2>1. PICK s \in AttemptStatus : status' = [status EXCEPT ![a] = s] /\ Checkpoint(a, s)
      BY <1>3 DEF RunsAtOnce, AttemptStatus, Finished
    <2>2. checkpoints' \subseteq SessionCheckpoint
      BY <2>1, CheckpointTyped
    <2>3. QED
      BY <1>3, <2>1, <2>2 DEF RunsAtOnce, Opened, SessionTypeOK, Phases
  <1>4. ASSUME NEW a \in Attempts, RunStarts(a) PROVE SessionTypeOK'
    BY <1>4 DEF RunStarts, Opened, SessionTypeOK, AttemptStatus, Phases
  <1>5. ASSUME NEW a \in Attempts, Reserved(a) PROVE SessionTypeOK'
    <2>1. CASE a \in interrupted
      BY <1>5, <2>1, ReturnTyped DEF Reserved, AttemptStatus
    <2>2. CASE a \notin interrupted
      BY <1>5, <2>2 DEF Reserved, SessionTypeOK, Phases
    <2>3. QED
      BY <2>1, <2>2
  <1>6. ASSUME NEW a \in Attempts, Denied(a) PROVE SessionTypeOK'
    BY <1>6, ReturnTyped DEF Denied, AttemptStatus, Finished
  <1>7. ASSUME NEW a \in Attempts, Raises(a) PROVE SessionTypeOK'
    BY <1>7 DEF Raises, SessionTypeOK, Phases
  <1>8. ASSUME NEW a \in Attempts, AmbiguousSend(a) PROVE SessionTypeOK'
    BY <1>8, ReturnTyped DEF AmbiguousSend, AttemptStatus
  <1>9. ASSUME NEW a \in Attempts, Answered(a) PROVE SessionTypeOK'
    BY <1>9, ReturnTyped, OutcomeIs DEF Answered, AttemptStatus, Finished
  <1>10. ASSUME NEW a \in Attempts, RequestCancel(a) \/ InterruptModelResponse(a) PROVE SessionTypeOK'
    BY <1>10 DEF RequestCancel, InterruptModelResponse, SessionTypeOK
  <1>11. ASSUME NEW a \in Attempts, SafeRerouteNewAttempt(a) PROVE SessionTypeOK'
    BY <1>11 DEF SafeRerouteNewAttempt, SessionTypeOK, AttemptStatus
  <1>12. ASSUME NEW c \in checkpoints, Resume(c) PROVE SessionTypeOK'
    BY <1>12 DEF Resume, SessionTypeOK, SessionCheckpoint
  <1>13. CASE Restart
    BY <1>13 DEF Restart, SessionTypeOK, AttemptStatus, Phases
  <1>14. QED
    BY <1>0, <1>1, <1>2, <1>3, <1>4, <1>5, <1>6, <1>7, <1>8, <1>9, <1>10, <1>11, <1>12, <1>13
    DEF SessionNext

--------------------------------------------------------------------------------
(* The pool. *)

(* A slot taken and a slot given back.  What is given back was taken; a waiting        *)
(* attempt takes a place in the pool and none among the runnable ones.                 *)
LEMMA SlotTaken ==
    ASSUME SessionTypeOK, PoolWithinLimit, RunnableCount < MaxSessions, NEW a, a \notin active,
           active' = active \cup {a}, waiting' \in {waiting, waiting \cup {a}}
    PROVE  PoolWithinLimit'
  <1>1. IsFiniteSet(active) /\ IsFiniteSet(waiting) /\ a \notin waiting
    BY FS_Subset DEF PoolWithinLimit, SessionTypeOK
  <1>2. /\ IsFiniteSet(active') /\ Cardinality(active') = Cardinality(active) + 1
        /\ Cardinality(waiting') \in {Cardinality(waiting), Cardinality(waiting) + 1}
    BY <1>1, FS_AddElement
  <1>3. Cardinality(active) \in Nat /\ Cardinality(waiting) \in Nat
    BY <1>1, FS_CardinalityType
  <1>4. QED
    BY <1>2, <1>3, SessionAssumption DEF PoolWithinLimit, RunnableCount

LEMMA SlotReturned ==
    ASSUME SessionTypeOK, PoolWithinLimit, NEW a, a \in active \ waiting,
           active' \in {active, active \ {a}}, waiting' = waiting \ {a}
    PROVE  PoolWithinLimit'
  <1>1. IsFiniteSet(active) /\ IsFiniteSet(waiting) /\ waiting' = waiting
    BY FS_Subset DEF PoolWithinLimit, SessionTypeOK
  <1>2. /\ IsFiniteSet(active')
        /\ Cardinality(active') \in {Cardinality(active), Cardinality(active) - 1}
    BY <1>1, FS_RemoveElement
  <1>3. Cardinality(active) \in Nat /\ Cardinality(waiting) \in Nat
    BY <1>1, FS_CardinalityType
  <1>4. Cardinality(active') - Cardinality(waiting') <= MaxSessions
    <2>1. Cardinality(active) - Cardinality(waiting) <= MaxSessions
      BY DEF PoolWithinLimit, RunnableCount
    <2>2. Cardinality(waiting') = Cardinality(waiting) /\ MaxSessions \in Nat
      BY <1>1, SessionAssumption
    <2>3. QED
      BY <1>2, <1>3, <2>1, <2>2
  <1>5. QED
    BY <1>2, <1>4 DEF PoolWithinLimit, RunnableCount

(* The restarted pool is empty, and an untouched one stays within its limit. *)
LEMMA PoolInit ==
    ASSUME active = {}, waiting = {} PROVE PoolWithinLimit
  BY FS_EmptySet, SessionAssumption DEF PoolWithinLimit, RunnableCount

LEMMA PoolEmptied ==
    ASSUME active' = {}, waiting' = {} PROVE PoolWithinLimit'
  BY FS_EmptySet, SessionAssumption DEF PoolWithinLimit, RunnableCount

LEMMA PoolKept ==
    ASSUME PoolWithinLimit, UNCHANGED <<active, waiting>> PROVE PoolWithinLimit'
  BY DEF PoolWithinLimit, RunnableCount

--------------------------------------------------------------------------------
(* The invariant, action by action. *)

(* The file of a success says nothing of a cancellation unless one was asked for. *)
LEMMA CheckpointTells ==
    ASSUME CancelIsNotLost, NEW a, NEW s, s = "succeeded" => a \notin cancels, Checkpoint(a, s)
    PROVE  CancelIsNotLost'
  <1> DEFINE new == [attempt |-> a, status |-> s, cancel |-> s = "cancelled" \/ a \in cancels,
                     children |-> s = "pending"]
  <1>1. new.status = s /\ (new.cancel <=> (s = "cancelled" \/ a \in cancels))
    BY Zenon
  <1>2. new.cancel => new.status # "succeeded"
    BY <1>1
  <1>3. checkpoints' = checkpoints \cup {new}
    BY Zenon DEF Checkpoint
  <1>4. QED
    BY <1>2, <1>3, Zenon DEF CancelIsNotLost

LEMMA SessionInvInit == SessionInit => SessionInv
  BY PoolInit DEF SessionInit, SessionInv, ActiveIsUnfinished, TurnsHoldSlots, CancelsAreKnown, CancelIsNotLost

(* The end of a model turn: an answer is a success only when nobody asked for a stop. *)
LEMMA ReturnKeeps ==
    ASSUME SessionTypeOK, SessionInv, NEW a \in Attempts, phase[a] \in {"reserving", "sent"},
           NEW s \in {"unknown", "failed", "cancelled", "succeeded"},
           s = "succeeded" => a \notin cancels, Return(a, s)
    PROVE  SessionInv'
  <1>1. a \in active \ waiting
    BY DEF SessionInv, TurnsHoldSlots
  <1>2. PoolWithinLimit'
    BY <1>1, SlotReturned DEF SessionInv, Return, Released
  <1>3. ActiveIsUnfinished'
    BY DEF SessionInv, ActiveIsUnfinished, Return, Released, SessionTypeOK, Finished
  <1>4. TurnsHoldSlots'
    BY DEF SessionInv, TurnsHoldSlots, Return, Released, SessionTypeOK
  <1>5. CancelsAreKnown'
    BY DEF SessionInv, CancelsAreKnown, Return, SessionTypeOK
  <1>6. CancelIsNotLost'
    BY CheckpointTells DEF SessionInv, Return
  <1>7. QED
    BY <1>2, <1>3, <1>4, <1>5, <1>6 DEF SessionInv

(* Opening a session: the attempt is unknown, so it holds no slot and has no cancel     *)
(* request.                                                                             *)
LEMMA OpenedIsFresh ==
    ASSUME SessionTypeOK, SessionInv, NEW a \in Attempts, Opened(a)
    PROVE  a \notin active /\ a \notin waiting /\ a \notin cancels
  BY DEF Opened, SessionInv, ActiveIsUnfinished, CancelsAreKnown, SessionTypeOK

LEMMA OpensKeep ==
    ASSUME SessionTypeOK, SessionInv, NEW a \in Attempts,
           RunRefused(a) \/ RunWaits(a) \/ RunsAtOnce(a) \/ RunStarts(a)
    PROVE  SessionInv'
  <1> USE DEF SessionInv, ActiveIsUnfinished, TurnsHoldSlots, CancelsAreKnown, CancelIsNotLost
  <1>1. a \notin active /\ a \notin waiting /\ a \notin cancels
    BY OpenedIsFresh DEF RunRefused, RunWaits, RunsAtOnce, RunStarts
  <1>2. CASE RunRefused(a)
    <2>1. PoolWithinLimit'
      BY <1>2, PoolKept DEF RunRefused
    <2>2. QED
      BY <1>2, <2>1 DEF RunRefused
  <1>3. CASE RunWaits(a)
    <2>1. PoolWithinLimit'
      BY <1>1, <1>3, SlotTaken DEF RunWaits
    <2>2. QED
      BY <1>1, <1>3, <2>1 DEF RunWaits, SessionTypeOK, Finished, Checkpoint
  <1>4. CASE RunsAtOnce(a)
    <2>1. PoolWithinLimit'
      BY <1>4, PoolKept DEF RunsAtOnce
    <2>2. PICK s \in {"succeeded", "failed"} : status' = [status EXCEPT ![a] = s] /\ Checkpoint(a, s)
      BY <1>4 DEF RunsAtOnce
    <2>3. CancelIsNotLost'
      BY <1>1, <2>2, CheckpointTells
    <2>4. QED
      BY <1>1, <1>4, <2>1, <2>2, <2>3 DEF RunsAtOnce, SessionTypeOK
  <1>5. CASE RunStarts(a)
    <2>1. PoolWithinLimit'
      BY <1>1, <1>5, SlotTaken DEF RunStarts
    <2>2. QED
      BY <1>1, <1>5, <2>1 DEF RunStarts, SessionTypeOK, Finished
  <1>6. QED
    BY <1>2, <1>3, <1>4, <1>5

LEMMA SessionStep == SessionTypeOK /\ SessionInv /\ [SessionNext]_sessionVars => SessionInv'
  <1> SUFFICES ASSUME SessionTypeOK, SessionInv, [SessionNext]_sessionVars PROVE SessionInv'
    OBVIOUS
  <1> USE DEF ActiveIsUnfinished, TurnsHoldSlots, CancelsAreKnown, CancelIsNotLost
  <1>0. CASE UNCHANGED sessionVars
    <2>1. PoolWithinLimit'
      BY <1>0, PoolKept DEF sessionVars, SessionInv
    <2>2. QED
      BY <1>0, <2>1 DEF sessionVars, SessionInv
  <1>1. ASSUME NEW a \in Attempts, Reserved(a) PROVE SessionInv'
    <2>1. CASE a \in interrupted
      BY <1>1, <2>1, ReturnKeeps DEF Reserved
    <2>2. CASE a \notin interrupted
      <3>1. PoolWithinLimit'
        BY <1>1, <2>2, PoolKept DEF Reserved, SessionInv
      <3>2. QED
        BY <1>1, <2>2, <3>1 DEF Reserved, SessionTypeOK, SessionInv
    <2>3. QED
      BY <2>1, <2>2
  <1>2. ASSUME NEW a \in Attempts, Denied(a) PROVE SessionInv'
    BY <1>2, ReturnKeeps DEF Denied
  <1>3. ASSUME NEW a \in Attempts, Raises(a) PROVE SessionInv'
    <2>1. PoolWithinLimit'
      BY <1>3, PoolKept DEF Raises, SessionInv
    <2>2. QED
      BY <1>3, <2>1 DEF Raises, SessionTypeOK, SessionInv
  <1>4. ASSUME NEW a \in Attempts, AmbiguousSend(a) PROVE SessionInv'
    BY <1>4, ReturnKeeps DEF AmbiguousSend
  <1>5. ASSUME NEW a \in Attempts, Answered(a) PROVE SessionInv'
    <2>1. Outcome(a) \in {"unknown", "cancelled", "succeeded"}
      BY OutcomeIs
    <2>2. Outcome(a) = "succeeded" => a \notin cancels
      BY DEF Outcome
    <2>3. QED
      BY <1>5, <2>1, <2>2, ReturnKeeps DEF Answered
  <1>6. ASSUME NEW a \in Attempts, RequestCancel(a) \/ InterruptModelResponse(a) PROVE SessionInv'
    <2>1. PoolWithinLimit'
      BY <1>6, PoolKept DEF RequestCancel, InterruptModelResponse, SessionInv
    <2>2. QED
      BY <1>6, <2>1 DEF RequestCancel, InterruptModelResponse, SessionInv
  <1>7. ASSUME NEW a \in Attempts, SafeRerouteNewAttempt(a) PROVE SessionInv'
    <2>1. PoolWithinLimit'
      BY <1>7, PoolKept DEF SafeRerouteNewAttempt, SessionInv
    <2>2. QED
      BY <1>7, <2>1 DEF SafeRerouteNewAttempt, SessionTypeOK, Finished, SessionInv
  <1>8. ASSUME NEW c \in checkpoints, Resume(c) PROVE SessionInv'
    <2>1. PoolWithinLimit'
      BY <1>8, PoolKept DEF Resume, SessionInv
    <2>2. QED
      BY <1>8, <2>1 DEF Resume, SessionTypeOK, SessionInv
  <1>9. CASE Restart
    <2>1. PoolWithinLimit'
      BY <1>9, PoolEmptied DEF Restart
    <2>2. QED
      BY <1>9, <2>1 DEF Restart, SessionTypeOK, SessionInv
  <1>10. ASSUME NEW a \in Attempts, RunRefused(a) \/ RunWaits(a) \/ RunsAtOnce(a) \/ RunStarts(a)
         PROVE  SessionInv'
    BY <1>10, OpensKeep
  <1>11. QED
    BY <1>0, <1>1, <1>2, <1>3, <1>4, <1>5, <1>6, <1>7, <1>8, <1>9, <1>10 DEF SessionNext

--------------------------------------------------------------------------------
(* The theorems. *)

(* AgentSessionRuntime keeps its types in every state. *)
THEOREM SessionTypes == SessionSpec => []SessionTypeOK
  <1>1. QED
    BY SessionTypeInit, SessionTypeStep, PTL DEF SessionSpec

(* The inductive invariant holds in every state of the runtime. *)
THEOREM SessionInvariant == SessionSpec => [](SessionTypeOK /\ SessionInv)
  <1>1. SessionInit => SessionTypeOK /\ SessionInv
    BY SessionTypeInit, SessionInvInit
  <1>2. SessionTypeOK /\ SessionInv /\ [SessionNext]_sessionVars => (SessionTypeOK /\ SessionInv)'
    BY SessionTypeStep, SessionStep
  <1>3. QED
    BY <1>1, <1>2, PTL DEF SessionSpec

(* The capacity pool against run_task: the runnable sessions stay within                *)
(* max_concurrent_sessions, no attempt that is over holds a slot, and every attempt     *)
(* waiting for the broker holds one.                                                    *)
THEOREM PoolMatchesAttempts == SessionSpec => []SlotsAreTheAttempts
  <1>1. SessionTypeOK /\ SessionInv => SlotsAreTheAttempts
    BY DEF SessionInv, PoolWithinLimit, ActiveIsUnfinished, TurnsHoldSlots, SlotsAreTheAttempts
  <1>2. QED
    BY <1>1, SessionInvariant, PTL

(* request_cancel against the answer and the checkpoint: no file says that an attempt   *)
(* was asked to stop and succeeded.                                                     *)
THEOREM CancellationIsKept == SessionSpec => []CancelIsNotLost
  <1>1. SessionTypeOK /\ SessionInv => CancelIsNotLost
    BY DEF SessionInv
  <1>2. QED
    BY <1>1, SessionInvariant, PTL

--------------------------------------------------------------------------------
(* Reservations.                                                                  *)

(* The components of a request are whole units. *)
LEMMA ComponentsTyped == \A a \in Requests : Components(a) \in [Resources -> Nat]
  BY ReservationAssumption DEF Components, Resources

(* The books of the service: they balance, over finitely many units. *)
ReservationInv ==
    /\ ResTypeOK
    /\ \A r \in Resources : IsFiniteSet(UnitsHeld(r)) /\ capacity[r] + Held(r) = supplied[r]

(* The units of a request beside those of others. *)
LEMMA UnitsAdd ==
    ASSUME NEW S, IsFiniteSet(S), NEW a, NEW k \in Nat, \A u \in S : u[1] # a
    PROVE  /\ IsFiniteSet(S \cup ({a} \X (1..k)))
           /\ Cardinality(S \cup ({a} \X (1..k))) = Cardinality(S) + k
           /\ Cardinality(S) \in Nat
  <1> DEFINE new == {a} \X (1..k)
  <1>1. IsFiniteSet(1..k) /\ Cardinality(1..k) = k
    BY FS_Interval
  <1>2. IsFiniteSet({a}) /\ Cardinality({a}) = 1
    BY FS_Singleton
  <1>3. IsFiniteSet(new) /\ Cardinality(new) = 1 * k
    BY <1>1, <1>2, FS_Product
  <1>4. S \cap new = {}
    OBVIOUS
  <1> HIDE DEF new
  <1>5. /\ IsFiniteSet(S \cup new)
        /\ Cardinality(S \cup new) = Cardinality(S) + Cardinality(new) - Cardinality(S \cap new)
    BY <1>3, FS_Union
  <1>6. Cardinality(S \cap new) = 0
    BY <1>4, FS_EmptySet, Zenon
  <1>7. Cardinality(S) \in Nat
    BY FS_CardinalityType
  <1>8. Cardinality(S \cup new) = Cardinality(S) + k
    BY <1>3, <1>5, <1>6, <1>7
  <1>9. QED
    BY <1>5, <1>7, <1>8 DEF new

(* A service starts with its whole capacity free. *)
LEMMA ReservationInit == ResInit => ReservationInv
  <1> SUFFICES ASSUME ResInit PROVE ReservationInv
    OBVIOUS
  <1>1. ResTypeOK
    BY ReservationAssumption DEF ResInit, ResTypeOK, Intent
  <1>2. ASSUME NEW r \in Resources
        PROVE  IsFiniteSet(UnitsHeld(r)) /\ capacity[r] + Held(r) = supplied[r]
    <2>1. UnitsHeld(r) = {} /\ capacity[r] = supplied[r] /\ capacity[r] \in Nat
      BY ReservationAssumption DEF ResInit, UnitsHeld, Outstanding
    <2>2. IsFiniteSet({}) /\ Cardinality({}) = 0
      BY FS_EmptySet
    <2>3. QED
      BY <2>1, <2>2 DEF Held
  <1>3. QED
    BY <1>1, <1>2 DEF ReservationInv

(* Steps that leave capacity, intents and supply alone. *)
LEMMA BooksUntouched ==
    ASSUME ReservationInv, ResTypeOK', UNCHANGED <<capacity, intents, supplied>>
    PROVE  ReservationInv'
  <1>1. \A r \in Resources : UnitsHeld(r)' = UnitsHeld(r)
    BY DEF UnitsHeld, Outstanding
  <1>2. QED
    BY <1>1 DEF ReservationInv, Held

(* allocate takes from the capacity what its intent holds. *)
LEMMA AllocateBalances ==
    ASSUME ReservationInv, NEW a \in Requests, NEW epoch, Allocate(a, epoch)
    PROVE  ReservationInv'
  <1> DEFINE u == Components(a)
  <1>1. u \in [Resources -> Nat] /\ Project[a] \in FairProjects
    BY ComponentsTyped, ReservationAssumption
  <1>2. /\ intents[a].state = "none" /\ supplied' = supplied /\ rdraining' = rdraining
        /\ capacity' = [r \in Resources |-> capacity[r] - u[r]]
        /\ intents' = [intents EXCEPT ![a] = [state |-> "reserved", units |-> u]]
        /\ \A r \in Resources : u[r] > 0 => capacity[r] - u[r] >= Floor
        /\ receipts' = receipts \cup {a}
    BY DEF Allocate, Reservable, Reserve
  <1> HIDE DEF u
  <1>3. ResTypeOK
    BY DEF ReservationInv
  <1>4. capacity' \in [Resources -> Nat]
    BY <1>1, <1>2, <1>3, ReservationAssumption DEF ResTypeOK
  <1>5. [state |-> "reserved", units |-> u] \in Intent
    BY <1>1 DEF Intent
  <1>6. fairness' \in [FairProjects -> [debt : Nat, active : Nat]]
    BY <1>1, <1>3 DEF Allocate, NoteDispatch, ResTypeOK
  <1>7. ResTypeOK'
    BY <1>2, <1>3, <1>4, <1>5, <1>6 DEF ResTypeOK
  <1>8. ASSUME NEW r \in Resources
        PROVE  IsFiniteSet(UnitsHeld(r)') /\ capacity'[r] + Cardinality(UnitsHeld(r)') = supplied'[r]
    <2>1. Outstanding' = Outstanding \cup {a} /\ a \notin Outstanding
      BY <1>2, <1>3 DEF Outstanding, ResTypeOK
    <2>2. \A b \in Outstanding : intents'[b].units[r] = intents[b].units[r]
      BY <1>2, <1>3, <2>1 DEF Outstanding, ResTypeOK
    <2>3. intents'[a].units[r] = u[r]
      BY <1>2, <1>3 DEF ResTypeOK
    <2>4. UnitsHeld(r)' = UnitsHeld(r) \cup ({a} \X (1..u[r]))
      BY <2>1, <2>2, <2>3 DEF UnitsHeld
    <2>5. \A x \in UnitsHeld(r) : x[1] # a
      BY <2>1 DEF UnitsHeld
    <2>6. IsFiniteSet(UnitsHeld(r)) /\ capacity[r] + Cardinality(UnitsHeld(r)) = supplied[r]
      BY DEF ReservationInv, Held
    <2>7. /\ IsFiniteSet(UnitsHeld(r)')
          /\ Cardinality(UnitsHeld(r)') = Cardinality(UnitsHeld(r)) + u[r]
          /\ Cardinality(UnitsHeld(r)) \in Nat
      <3>1. u[r] \in Nat
        BY <1>1
      <3>2. PICK S : S = UnitsHeld(r)
        OBVIOUS
      <3>3. IsFiniteSet(S) /\ (\A x \in S : x[1] # a)
        BY <2>5, <2>6, <3>2
      <3>4. /\ IsFiniteSet(S \cup ({a} \X (1..u[r])))
            /\ Cardinality(S \cup ({a} \X (1..u[r]))) = Cardinality(S) + u[r]
            /\ Cardinality(S) \in Nat
        BY <3>1, <3>3, UnitsAdd
      <3>5. QED
        BY <2>4, <3>2, <3>4
    <2>8. capacity'[r] = capacity[r] - u[r] /\ capacity[r] \in Nat /\ u[r] \in Nat
      BY <1>1, <1>2, <1>3 DEF ResTypeOK
    <2>9. QED
      BY <1>2, <2>6, <2>7, <2>8
  <1>9. QED
    BY <1>7, <1>8 DEF ReservationInv, Held

(* A release gives back what the intent holds, and closes it. *)
LEMMA ReleaseBalances ==
    ASSUME ReservationInv, NEW a \in Requests, Release(a)
    PROVE  ReservationInv'
  <1> DEFINE u == intents[a].units
  <1>1. /\ intents[a].state = "reserved" /\ supplied' = supplied
        /\ capacity' = [r \in Resources |-> capacity[r] + u[r]]
        /\ intents' = [intents EXCEPT ![a].state = "released"]
        /\ UNCHANGED <<rdraining, fairness, receipts>>
    BY DEF Release, GiveBack
  <1>2. ResTypeOK /\ u \in [Resources -> Nat]
    BY DEF ReservationInv, ResTypeOK, Intent
  <1> HIDE DEF u
  <1>3. ResTypeOK'
    BY <1>1, <1>2 DEF ResTypeOK, Intent
  <1>4. ASSUME NEW r \in Resources
        PROVE  IsFiniteSet(UnitsHeld(r)') /\ capacity'[r] + Cardinality(UnitsHeld(r)') = supplied'[r]
    <2>1. Outstanding = Outstanding' \cup {a} /\ a \notin Outstanding'
      BY <1>1, <1>2 DEF Outstanding, ResTypeOK, Intent
    <2>2. \A b \in Requests : intents'[b].units = intents[b].units
      BY <1>1, <1>2 DEF ResTypeOK, Intent
    <2>3. UnitsHeld(r)' = UNION {{b} \X (1..intents[b].units[r]) : b \in Outstanding'}
      BY <2>2 DEF UnitsHeld, Outstanding
    <2>4. UnitsHeld(r) = UnitsHeld(r)' \cup ({a} \X (1..u[r]))
      BY <2>1, <2>3 DEF UnitsHeld, u
    <2>5. \A x \in UnitsHeld(r)' : x[1] # a
      BY <2>1, <2>3
    <2>6. IsFiniteSet(UnitsHeld(r)) /\ capacity[r] + Cardinality(UnitsHeld(r)) = supplied[r]
      BY DEF ReservationInv, Held
    <2>7. IsFiniteSet(UnitsHeld(r)')
      BY <2>4, <2>6, FS_Subset
    <2>8. /\ Cardinality(UnitsHeld(r)) = Cardinality(UnitsHeld(r)') + u[r]
          /\ Cardinality(UnitsHeld(r)') \in Nat
      <3>1. u[r] \in Nat
        BY <1>2
      <3>2. PICK S : S = UnitsHeld(r)'
        OBVIOUS
      <3>3. IsFiniteSet(S) /\ (\A x \in S : x[1] # a)
        BY <2>5, <2>7, <3>2
      <3>4. /\ Cardinality(S \cup ({a} \X (1..u[r]))) = Cardinality(S) + u[r]
            /\ Cardinality(S) \in Nat
        BY <3>1, <3>3, UnitsAdd
      <3>5. QED
        BY <2>4, <3>2, <3>4
    <2>9. capacity'[r] = capacity[r] + u[r] /\ capacity[r] \in Nat /\ u[r] \in Nat
      BY <1>1, <1>2 DEF ResTypeOK
    <2>10. QED
      BY <1>1, <2>6, <2>7, <2>8, <2>9
  <1>5. QED
    BY <1>3, <1>4 DEF ReservationInv, Held

(* One step of the service. *)
LEMMA ReservationStep == ReservationInv /\ [ResNext]_resVars => ReservationInv'
  <1> SUFFICES ASSUME ReservationInv, [ResNext]_resVars PROVE ReservationInv'
    OBVIOUS
  <1>0. ResTypeOK
    BY DEF ReservationInv
  <1>1. ASSUME NEW r \in Resources, SetCapacity(r) PROVE ReservationInv'
    <2>1. /\ capacity' = [capacity EXCEPT ![r] = Provisioned[r]]
          /\ supplied' = [supplied EXCEPT ![r] = Provisioned[r] + Held(r)]
          /\ UNCHANGED <<intents, rdraining, fairness, receipts>>
      BY <1>1 DEF SetCapacity
    <2>2. \A q \in Resources : Held(q) \in Nat /\ UnitsHeld(q)' = UnitsHeld(q)
      BY <2>1, FS_CardinalityType DEF ReservationInv, Held, UnitsHeld, Outstanding
    <2>3. ResTypeOK'
      <3>1. Provisioned[r] \in Nat /\ Provisioned[r] + Held(r) \in Nat
        BY <2>2, ReservationAssumption
      <3>2. capacity' \in [Resources -> Nat] /\ supplied' \in [Resources -> Nat]
        BY <1>0, <2>1, <3>1 DEF ResTypeOK
      <3>3. QED
        BY <1>0, <2>1, <3>2 DEF ResTypeOK
    <2>4. ASSUME NEW q \in Resources
          PROVE  IsFiniteSet(UnitsHeld(q)') /\ capacity'[q] + Cardinality(UnitsHeld(q)') = supplied'[q]
      BY <1>0, <2>1, <2>2 DEF ReservationInv, Held, ResTypeOK
    <2>5. QED
      BY <2>3, <2>4 DEF ReservationInv, Held
  <1>2. CASE ResBeginDrain \/ ResEndDrain
    BY <1>0, <1>2, BooksUntouched DEF ResBeginDrain, ResEndDrain, ResTypeOK
  <1>3. ASSUME NEW a \in Requests, NEW e, Allocate(a, e) PROVE ReservationInv'
    BY <1>3, AllocateBalances
  <1>4. ASSUME NEW a \in Requests, NEW e, Cancel(a, e) \/ Release(a) PROVE ReservationInv'
    BY <1>4, ReleaseBalances DEF Cancel
  <1>5. ASSUME NEW p \in FairProjects, NoteComplete(p) PROVE ReservationInv'
    <2>1. fairness' \in [FairProjects -> [debt : Nat, active : Nat]]
      BY <1>0, <1>5 DEF NoteComplete, ResTypeOK
    <2>2. ResTypeOK'
      BY <1>0, <1>5, <2>1 DEF NoteComplete, ResTypeOK
    <2>3. QED
      BY <1>5, <2>2, BooksUntouched DEF NoteComplete
  <1>6. CASE UNCHANGED resVars
    BY <1>0, <1>6, BooksUntouched DEF resVars, ResTypeOK
  <1>7. QED
    BY <1>1, <1>2, <1>3, <1>4, <1>5, <1>6 DEF ResNext

(* What is free and what is held add up to what was provided, for every set of         *)
(* requests and all capacities: each release gives back what its reservation took.     *)
THEOREM CapacityAddsUp == ScaleSpec => []CapacityBalances
  <1>1. [ScaleNext]_scaleRunVars => [ResNext]_resVars
    BY DEF ScaleNext, scaleRunVars, resVars
  <1>2. ScaleInit => ReservationInv
    BY ReservationInit DEF ScaleInit
  <1>3. ReservationInv => CapacityBalances
    BY DEF ReservationInv, CapacityBalances
  <1>4. QED
    BY <1>1, <1>2, <1>3, ReservationStep, PTL DEF ScaleSpec

--------------------------------------------------------------------------------
(* Lanes.                                                                         *)

(* A sequence of lanes without repetition has as many places as lanes. *)
LEMMA OnceCounts ==
    ASSUME NEW S, NEW q \in Seq(S), IsInjective(q)
    PROVE  Len(q) = Cardinality(Range(q))
  <1>1. Len(q) \in Nat /\ q \in [1..Len(q) -> Range(q)]
    BY DEF Range
  <1>2. q \in Surjection(1..Len(q), Range(q)) /\ q \in Injection(1..Len(q), Range(q))
    BY <1>1 DEF Surjection, Injection, Range, IsInjective
  <1>3. IsFiniteSet(1..Len(q)) /\ Cardinality(1..Len(q)) = Len(q)
    BY <1>1, FS_Interval
  <1>4. Cardinality(Range(q)) = Cardinality(1..Len(q))
    BY <1>2, <1>3, FS_Surjection
  <1>5. QED
    BY <1>3, <1>4

(* The places of a lane have no lane in common, and every lane is in one. *)
Apart ==
    /\ Unique = UNION {unread, Range(laneQueue), running, DOMAIN results, refused, timedOut, dropped}
    /\ unread \cap UNION {Range(laneQueue), running, DOMAIN results, refused, timedOut, dropped} = {}
    /\ Range(laneQueue) \cap UNION {running, DOMAIN results, refused, timedOut, dropped} = {}
    /\ running \cap UNION {DOMAIN results, refused, timedOut, dropped} = {}
    /\ DOMAIN results \cap UNION {refused, timedOut, dropped} = {}
    /\ refused \cap (timedOut \cup dropped) = {}
    /\ timedOut \cap dropped = {}

LaneInv ==
    /\ Apart
    /\ laneQueue \in Seq(Unique) /\ IsInjective(laneQueue)
    /\ quota \in [inFlight : 0..MaxConcurrency, used : 0..MaxPerMinute]

(* The invariant is what the property says, and more. *)
LEMMA LaneInvSays == LaneInv => EveryLaneAccounted
  <1> SUFFICES ASSUME LaneInv PROVE EveryLaneAccounted
    OBVIOUS
  <1> DEFINE places == <<unread, Range(laneQueue), running, DOMAIN results, refused, timedOut, dropped>>
  <1>1. /\ DOMAIN places = 1..7
        /\ places[1] = unread /\ places[2] = Range(laneQueue) /\ places[3] = running
        /\ places[4] = DOMAIN results /\ places[5] = refused /\ places[6] = timedOut
        /\ places[7] = dropped
    OBVIOUS
  <1> HIDE DEF places
  <1>2. Range(places) = {unread, Range(laneQueue), running, DOMAIN results, refused, timedOut, dropped}
    <2>1. Range(places) = {places[1], places[2], places[3], places[4], places[5], places[6], places[7]}
      BY <1>1 DEF Range
    <2>2. QED
      BY <1>1, <2>1
  <1>3. UNION Range(places) = Unique
    BY <1>2 DEF LaneInv, Apart
  <1>4. ASSUME NEW j \in 1..7, NEW k \in 1..7, j < k PROVE places[j] \cap places[k] = {}
    <2>1. j \in {1, 2, 3, 4, 5, 6}
      BY <1>4
    <2>2. CASE j = 1
      BY <1>1, <1>4, <2>2 DEF LaneInv, Apart
    <2>3. CASE j = 2
      BY <1>1, <1>4, <2>3 DEF LaneInv, Apart
    <2>4. CASE j = 3
      BY <1>1, <1>4, <2>4 DEF LaneInv, Apart
    <2>5. CASE j = 4
      BY <1>1, <1>4, <2>5 DEF LaneInv, Apart
    <2>6. CASE j = 5
      BY <1>1, <1>4, <2>6 DEF LaneInv, Apart
    <2>7. CASE j = 6
      BY <1>1, <1>4, <2>7 DEF LaneInv, Apart
    <2>8. QED
      BY <2>1, <2>2, <2>3, <2>4, <2>5, <2>6, <2>7
  <1>5. \A j, k \in DOMAIN places : j # k => places[j] \cap places[k] = {}
    <2> SUFFICES ASSUME NEW j \in 1..7, NEW k \in 1..7, j # k PROVE places[j] \cap places[k] = {}
      BY <1>1
    <2>1. j < k \/ k < j
      OBVIOUS
    <2>2. QED
      BY <1>4, <2>1
  <1>6. Len(laneQueue) = Cardinality(Range(laneQueue))
    BY OnceCounts DEF LaneInv
  <1>7. QED
    BY <1>3, <1>5, <1>6 DEF EveryLaneAccounted, places

(* The run starts with every lane unread. *)
LEMMA LaneInit == ScaleInit => LaneInv
  <1> SUFFICES ASSUME ScaleInit PROVE LaneInv
    OBVIOUS
  <1>1. Range(laneQueue) = {} /\ DOMAIN results = {} /\ laneQueue \in Seq(Unique)
    BY DEF ScaleInit, Range
  <1>2. Apart
    BY <1>1 DEF ScaleInit, Apart
  <1>3. IsInjective(laneQueue)
    BY DEF ScaleInit, IsInjective
  <1>4. QED
    BY <1>1, <1>2, <1>3, ScaleAssumption DEF LaneInv, ScaleInit

(* The purge keeps, in their order, the lanes that are neither cancelled nor late. *)
LEMMA PurgedKeeps ==
    ASSUME NEW q \in Seq(Unique), IsInjective(q)
    PROVE  /\ Purged(q) \in Seq(Unique) /\ IsInjective(Purged(q))
           /\ Range(Purged(q)) = {i \in Range(q) : i \notin cancelled /\ ~Expired(i)}
  <1> DEFINE K == {k \in DOMAIN q : q[k] \notin cancelled /\ ~Expired(q[k])}
             at == Ascending(K)
             p == [j \in DOMAIN at |-> q[at[j]]]
             c == Cardinality(K)
  <1>0. Len(q) \in Nat /\ DOMAIN q = 1..Len(q) /\ \A k \in 1..Len(q) : q[k] \in Unique
    OBVIOUS
  <1>1. at \in [1..c -> K] /\ Range(at) = K /\ IsAscending(at) /\ c \in Nat
    <2>1. K \in SUBSET (1..Len(q))
      BY <1>0
    <2> HIDE DEF K
    <2>2. QED
      BY <1>0, <2>1, AscendingLists
  <1>2. Purged(q) = p
    BY DEF Purged
  <1> HIDE DEF at, c
  <1>3. \A j \in 1..c : at[j] \in 1..Len(q) /\ q[at[j]] \notin cancelled /\ ~Expired(q[at[j]])
    BY <1>0, <1>1
  <1>4. p \in [1..c -> Unique] /\ \A j \in 1..c : p[j] = q[at[j]]
    BY <1>0, <1>1, <1>3
  <1>5. p \in Seq(Unique) /\ DOMAIN p = 1..c
    BY <1>1, <1>4
  <1> HIDE DEF p
  <1>6. IsInjective(p)
    <2> SUFFICES ASSUME NEW j \in 1..c, NEW k \in 1..c, p[j] = p[k] PROVE j = k
      BY <1>5 DEF IsInjective
    <2>1. at[j] = at[k]
      BY <1>0, <1>3, <1>4 DEF IsInjective
    <2>2. at[j] \in Nat /\ at[k] \in Nat
      BY <1>3
    <2>3. ~(j < k) /\ ~(k < j)
      BY <1>1, <2>1, <2>2 DEF IsAscending
    <2>4. QED
      BY <1>1, <2>3
  <1>7. Range(p) = {i \in Range(q) : i \notin cancelled /\ ~Expired(i)}
    <2>1. ASSUME NEW i \in Range(p) PROVE i \in Range(q) /\ i \notin cancelled /\ ~Expired(i)
      BY <1>0, <1>3, <1>4, <1>5 DEF Range
    <2>2. ASSUME NEW i \in Range(q), i \notin cancelled, ~Expired(i) PROVE i \in Range(p)
      <3>1. PICK k \in 1..Len(q) : q[k] = i
        BY <1>0 DEF Range
      <3>2. k \in K
        BY <1>0, <2>2, <3>1
      <3>3. PICK j \in 1..c : at[j] = k
        BY <1>1, <3>2 DEF Range
      <3>4. QED
        BY <1>4, <1>5, <3>1, <3>3 DEF Range
    <2>3. QED
      BY <2>1, <2>2
  <1>8. QED
    BY <1>2, <1>5, <1>6, <1>7

(* The least of three numbers. *)
LEMMA LeastOfThree ==
    ASSUME NEW a \in Nat, NEW b \in Nat, NEW c \in Nat
    PROVE  Min({a, b, c}) \in Nat /\ Min({a, b, c}) <= a /\ Min({a, b, c}) <= b /\ Min({a, b, c}) <= c
  <1>1. \E x \in {a, b, c} : \A y \in {a, b, c} : x <= y
    OBVIOUS
  <1>2. Min({a, b, c}) \in {a, b, c} /\ \A y \in {a, b, c} : Min({a, b, c}) <= y
    BY <1>1 DEF Min
  <1>3. QED
    BY <1>2

(* The wave takes at most what is chosen, what the slots and what the window allow. *)
LEMMA WaveFits ==
    ASSUME LaneInv, NEW q \in Seq(Unique)
    PROVE  LET n == Acquired(Len(Chosen(q)))
           IN  /\ n \in 0..Len(q)
               /\ quota.inFlight + n <= MaxConcurrency
               /\ Window \in 0..MaxPerMinute /\ Window + n <= MaxPerMinute
  <1> DEFINE k == Len(Chosen(q))
             a == MaxConcurrency - quota.inFlight
             b == MaxPerMinute - Window
  <1>1. Usable \in Nat /\ Len(q) \in Nat
    BY ScaleAssumption DEF Usable
  <1>2. Min({Usable, Len(q)}) \in Nat /\ Min({Usable, Len(q)}) <= Len(q)
    <2>1. \E x \in {Usable, Len(q)} : \A y \in {Usable, Len(q)} : x <= y
      BY <1>1
    <2>2. /\ Min({Usable, Len(q)}) \in {Usable, Len(q)}
          /\ \A y \in {Usable, Len(q)} : Min({Usable, Len(q)}) <= y
      BY <2>1 DEF Min
    <2>3. QED
      BY <1>1, <2>2
  <1>3. k \in Nat /\ k <= Len(q)
    BY <1>1, <1>2 DEF Chosen
  <1>4. Window \in 0..MaxPerMinute /\ quota.inFlight \in 0..MaxConcurrency
    BY ScaleAssumption DEF LaneInv, Window
  <1>5. a \in Nat /\ b \in Nat
    BY <1>4, ScaleAssumption
  <1>6. Acquired(k) = Min({k, a, b})
    BY DEF Acquired
  <1> HIDE DEF k
  <1>7. Acquired(k) \in Nat /\ Acquired(k) <= k /\ Acquired(k) <= a /\ Acquired(k) <= b
    BY <1>3, <1>5, <1>6, LeastOfThree
  <1>8. QED
    BY <1>1, <1>3, <1>4, <1>7, ScaleAssumption DEF k

(* A queue splits into the lanes of the wave and those that are left. *)
LEMMA WaveSplits ==
    ASSUME NEW q \in Seq(Unique), IsInjective(q), NEW n \in 0..Len(q)
    PROVE  /\ Left(q, n) \in Seq(Unique) /\ IsInjective(Left(q, n))
           /\ Range(q) = {q[k] : k \in 1..n} \cup Range(Left(q, n))
           /\ {q[k] : k \in 1..n} \cap Range(Left(q, n)) = {}
  <1> DEFINE p == SubSeq(q, n + 1, Len(q))
  <1>1. Left(q, n) = p
    BY DEF Left
  <1>2. /\ Len(q) \in Nat /\ p \in Seq(Unique) /\ Len(p) = Len(q) - n
        /\ \A j \in 1..(Len(q) - n) : p[j] = q[n + j]
    OBVIOUS
  <1>3. DOMAIN p = 1..(Len(q) - n) /\ DOMAIN q = 1..Len(q)
    BY <1>2
  <1> HIDE DEF p
  <1>4. IsInjective(p)
    <2> SUFFICES ASSUME NEW j \in 1..(Len(q) - n), NEW k \in 1..(Len(q) - n), p[j] = p[k]
                 PROVE  j = k
      BY <1>3 DEF IsInjective
    <2>1. q[n + j] = q[n + k] /\ n + j \in DOMAIN q /\ n + k \in DOMAIN q
      BY <1>2, <1>3
    <2>2. n + j = n + k
      BY <2>1 DEF IsInjective
    <2>3. QED
      BY <2>2
  <1>5. Range(p) = {q[k] : k \in (n + 1)..Len(q)}
    <2>1. \A j \in 1..(Len(q) - n) : n + j \in (n + 1)..Len(q)
      BY <1>2
    <2>2. \A k \in (n + 1)..Len(q) : k - n \in 1..(Len(q) - n) /\ p[k - n] = q[k]
      BY <1>2
    <2>3. ASSUME NEW x \in Range(p) PROVE x \in {q[k] : k \in (n + 1)..Len(q)}
      <3>1. PICK j \in 1..(Len(q) - n) : x = p[j]
        BY <1>3 DEF Range
      <3>2. x = q[n + j] /\ n + j \in (n + 1)..Len(q)
        BY <1>2, <2>1, <3>1
      <3>3. QED
        BY <3>2
    <2>4. ASSUME NEW k \in (n + 1)..Len(q) PROVE q[k] \in Range(p)
      BY <1>3, <2>2 DEF Range
    <2>5. QED
      BY <2>3, <2>4
  <1>6. \A k \in 1..Len(q) : k \in 1..n \/ k \in (n + 1)..Len(q)
    BY <1>2
  <1>7. 1..n \subseteq 1..Len(q) /\ (n + 1)..Len(q) \subseteq 1..Len(q)
    BY <1>2
  <1>8. Range(q) = {q[k] : k \in 1..n} \cup Range(p)
    BY <1>3, <1>5, <1>6, <1>7 DEF Range
  <1>9. {q[k] : k \in 1..n} \cap Range(p) = {}
    <2>1. ASSUME NEW j \in 1..n, NEW k \in (n + 1)..Len(q) PROVE q[j] # q[k]
      BY <1>3, <1>7 DEF IsInjective
    <2>2. QED
      BY <1>5, <2>1
  <1>10. QED
    BY <1>1, <1>2, <1>4, <1>8, <1>9

(* One step of the run: one case per action that moves a lane. *)
LEMMA LaneStep == LaneInv /\ [ScaleNext]_scaleRunVars => LaneInv'
  <1> SUFFICES ASSUME LaneInv, [ScaleNext]_scaleRunVars PROVE LaneInv'
    OBVIOUS
  <1>a. Unique \subseteq Nat
    BY ScaleAssumption DEF Unique, Lanes
  <1>0. ASSUME UNCHANGED <<laneQueue, unread, refused, timedOut, dropped, running, results>>,
               quota' \in [inFlight : 0..MaxConcurrency, used : 0..MaxPerMinute]
        PROVE  LaneInv'
    BY <1>0 DEF LaneInv, Apart
  <1>1. CASE EnqueueLane
    <2> DEFINE i == Min(unread)
    <2>1. /\ unread # {} /\ unread' = unread \ {i} /\ running' = running /\ results' = results
          /\ timedOut' = timedOut /\ dropped' = dropped /\ quota' = quota
          /\ \/ refused' = refused \cup {i} /\ laneQueue' = laneQueue
             \/ laneQueue' = Append(laneQueue, i) /\ refused' = refused
      BY <1>1 DEF EnqueueLane
    <2>2. unread \in SUBSET Nat
      BY <1>a DEF LaneInv, Apart
    <2>3. \E n \in unread : \A m \in unread : n <= m
      BY <2>1, <2>2, LeastMember
    <2>4. i \in unread
      BY <2>3 DEF Min
    <2> HIDE DEF i
    <2>5. i \in Unique /\ i \notin Range(laneQueue) /\ laneQueue \in Seq(Unique)
      BY <2>4 DEF LaneInv, Apart
    <2>6. CASE refused' = refused \cup {i} /\ laneQueue' = laneQueue
      <3>1. Apart'
        BY <2>1, <2>4, <2>6 DEF LaneInv, Apart
      <3>2. QED
        BY <2>1, <2>6, <3>1 DEF LaneInv
    <2>7. CASE laneQueue' = Append(laneQueue, i) /\ refused' = refused
      <3>1. /\ laneQueue' \in Seq(Unique) /\ Len(laneQueue') = Len(laneQueue) + 1
            /\ laneQueue'[Len(laneQueue) + 1] = i
            /\ \A k \in 1..Len(laneQueue) : laneQueue'[k] = laneQueue[k]
            /\ DOMAIN laneQueue' = 1..(Len(laneQueue) + 1)
            /\ DOMAIN laneQueue = 1..Len(laneQueue) /\ Len(laneQueue) \in Nat
        BY <2>5, <2>7
      <3>2. Range(laneQueue)' = Range(laneQueue) \cup {i}
        <4>1. ASSUME NEW x \in Range(laneQueue)' PROVE x \in Range(laneQueue) \cup {i}
          <5>1. PICK k \in 1..(Len(laneQueue) + 1) : x = laneQueue'[k]
            BY <3>1 DEF Range
          <5>2. k = Len(laneQueue) + 1 \/ k \in 1..Len(laneQueue)
            BY <3>1
          <5>3. QED
            BY <3>1, <5>1, <5>2 DEF Range
        <4>2. ASSUME NEW x \in Range(laneQueue) PROVE x \in Range(laneQueue)'
          <5>1. PICK k \in 1..Len(laneQueue) : x = laneQueue[k]
            BY <3>1 DEF Range
          <5>2. k \in DOMAIN laneQueue' /\ laneQueue'[k] = x
            BY <3>1, <5>1
          <5>3. QED
            BY <5>2 DEF Range
        <4>3. i \in Range(laneQueue)'
          <5>1. Len(laneQueue) + 1 \in DOMAIN laneQueue'
            BY <3>1
          <5>2. QED
            BY <3>1, <5>1 DEF Range
        <4>4. QED
          BY <4>1, <4>2, <4>3
      <3>3. IsInjective(laneQueue')
        <4> SUFFICES ASSUME NEW j \in 1..(Len(laneQueue) + 1), NEW k \in 1..(Len(laneQueue) + 1),
                            laneQueue'[j] = laneQueue'[k]
                     PROVE  j = k
          BY <3>1 DEF IsInjective
        <4>1. \A l \in 1..Len(laneQueue) : laneQueue'[l] # i
          BY <2>5, <3>1 DEF Range
        <4>2. (j = Len(laneQueue) + 1 \/ j \in 1..Len(laneQueue))
              /\ (k = Len(laneQueue) + 1 \/ k \in 1..Len(laneQueue))
          BY <3>1
        <4>3. CASE j \in 1..Len(laneQueue) /\ k \in 1..Len(laneQueue)
          BY <3>1, <4>3 DEF LaneInv, IsInjective
        <4>4. QED
          BY <3>1, <4>1, <4>2, <4>3
      <3>4. Apart'
        BY <2>1, <2>4, <2>7, <3>2 DEF LaneInv, Apart
      <3>5. QED
        BY <2>1, <3>1, <3>3, <3>4 DEF LaneInv
    <2>8. QED
      BY <2>1, <2>6, <2>7
  <1>2. CASE DispatchWave
    <2> DEFINE q == Purged(laneQueue)
               n == Acquired(Len(Chosen(q)))
    <2>1. /\ running = {} /\ unread' = unread /\ refused' = refused /\ results' = results
          /\ Wave(q, n)
      BY <1>2 DEF DispatchWave
    <2>2. /\ q \in Seq(Unique) /\ IsInjective(q)
          /\ Range(q) = {i \in Range(laneQueue) : i \notin cancelled /\ ~Expired(i)}
      BY PurgedKeeps DEF LaneInv
    <2> HIDE DEF q
    <2>3. /\ n \in 0..Len(q) /\ quota.inFlight + n <= MaxConcurrency
          /\ Window \in 0..MaxPerMinute /\ Window + n <= MaxPerMinute
      BY <2>2, WaveFits
    <2> HIDE DEF n
    <2>4. /\ Left(q, n) \in Seq(Unique) /\ IsInjective(Left(q, n))
          /\ Range(q) = {q[k] : k \in 1..n} \cup Range(Left(q, n))
          /\ {q[k] : k \in 1..n} \cap Range(Left(q, n)) = {}
      BY <2>2, <2>3, WaveSplits
    <2>5. /\ laneQueue' = Left(q, n) /\ running' = {q[k] : k \in 1..n}
          /\ quota' = [inFlight |-> quota.inFlight + n,
                       used |-> IF Chosen(q) = <<>> THEN quota.used ELSE Window + n]
          /\ timedOut' = timedOut \cup {i \in Range(laneQueue) \ cancelled : Expired(i)}
          /\ dropped' = dropped \cup (cancelled \cap Range(laneQueue))
      BY <2>1 DEF Wave
    <2>6. quota' \in [inFlight : 0..MaxConcurrency, used : 0..MaxPerMinute]
      <3>1. quota.inFlight \in 0..MaxConcurrency /\ quota.used \in 0..MaxPerMinute
        BY DEF LaneInv
      <3>2. n \in Nat
        BY <2>3
      <3>3. quota.inFlight + n \in 0..MaxConcurrency /\ Window + n \in 0..MaxPerMinute
        BY <2>3, <3>1, <3>2, ScaleAssumption
      <3>4. QED
        BY <2>5, <3>1, <3>3
    <2>7. PICK A, B, X, D : /\ A = running' /\ B = Range(laneQueue)'
                            /\ X = {i \in Range(laneQueue) \ cancelled : Expired(i)}
                            /\ D = cancelled \cap Range(laneQueue)
      OBVIOUS
    <2>8. /\ Range(laneQueue) = UNION {A, B, X, D} /\ A \cap B = {} /\ X \cap D = {}
          /\ (A \cup B) \cap (X \cup D) = {}
      BY <2>2, <2>4, <2>5, <2>7
    <2>9. Apart'
      BY <2>1, <2>5, <2>7, <2>8 DEF LaneInv, Apart
    <2>10. QED
      BY <2>4, <2>5, <2>6, <2>9 DEF LaneInv
  <1>3. ASSUME NEW i \in Unique, NEW r, Complete(i, r) PROVE LaneInv'
    <2>1. /\ i \in running /\ running' = running \ {i}
          /\ DOMAIN results' = DOMAIN results \cup {i}
          /\ UNCHANGED <<laneQueue, unread, refused, timedOut, dropped>>
      BY <1>3 DEF Complete
    <2>2. Range(laneQueue)' = Range(laneQueue)
      BY <2>1 DEF Range
    <2>3. Apart'
      BY <2>1, <2>2 DEF LaneInv, Apart
    <2>4. quota' \in [inFlight : 0..MaxConcurrency, used : 0..MaxPerMinute]
      BY <1>3, ScaleAssumption DEF Complete, LaneInv
    <2>5. QED
      BY <2>1, <2>3, <2>4 DEF LaneInv
  <1>4. CASE Report
    BY <1>0, <1>4 DEF Report, LaneInv
  <1>5. ASSUME NEW i, CancelQueued(i) PROVE LaneInv'
    BY <1>0, <1>5 DEF CancelQueued, LaneInv
  <1>6. ASSUME NEW n, TimePasses(n) PROVE LaneInv'
    BY <1>0, <1>6 DEF TimePasses, LaneInv
  <1>7. CASE UNCHANGED scaleVars
    BY <1>0, <1>7 DEF scaleVars, LaneInv
  <1>8. QED
    BY <1>1, <1>2, <1>3, <1>4, <1>5, <1>6, <1>7
       DEF ScaleNext, LaneNext, ScaleStep, scaleRunVars

(* No lane is lost and none is done twice, whatever the queue refuses, the clock lets   *)
(* expire, the caller cancels or the quota defers.                                      *)
THEOREM LanesAreAccounted == ScaleSpec => []EveryLaneAccounted
  BY LaneInit, LaneStep, LaneInvSays, PTL DEF ScaleSpec
================================================================================
