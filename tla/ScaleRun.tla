-------------------------------- MODULE ScaleRun -------------------------------
(***************************************************************************)
(* The scale path (src/swarm/runtime: backpressure, scale): lanes of work   *)
(* on files, the bounded queue with deadlines, dispatch in waves under the  *)
(* concurrency limit and the provider quota, the thread pool and the        *)
(* verdict over the results.  Beside it run the reservations of the         *)
(* allocator (Reservations), the other bound on work in flight.             *)
(*                                                                         *)
(* One thread owns the scheduler, so enqueue, dispatch and complete are     *)
(* single steps; the pool's threads finish in any order.  Lanes enter the   *)
(* queue in their order with the same timeout, so deadlines pass in that    *)
(* order too.  The inner scheduler has no profile that qualifies, so every  *)
(* wave is the FIFO choice.  What an agent reports is success or the class  *)
(* of its error.                                                            *)
(***************************************************************************)
EXTENDS Reservations, Order, SequencesExt

CONSTANTS Targets,          \* the file of each lane, in order, with duplicates
          MaxQueue,
          MaxConcurrency,   \* pool size, slots and in-flight limit of the provider
          ControlReserve,   \* control_reserve_slots
          MaxPerMinute,     \* the provider's limit per window
          MaxWaves,
          Errors            \* classes of errors agents fail with

ASSUME ScaleAssumption ==
    /\ Targets \in Seq(Range(Targets))
    /\ MaxQueue \in Nat /\ MaxConcurrency \in Nat /\ ControlReserve \in Nat
    /\ MaxPerMinute \in Nat /\ MaxWaves \in Nat
    /\ "ok" \notin Errors

VARIABLES laneQueue,       \* queued lanes
          cancelled,   \* lanes in the queue that were cancelled
          late,        \* lanes up to this one are past their deadline
          unread,      \* lanes not yet enqueued
          refused,     \* lanes the full queue refused
          timedOut,    \* lanes purged past their deadline
          dropped,     \* lanes purged as cancelled
          quota,       \* of the provider: in flight, and used in the window
          minute,      \* whether the window is over
          running,     \* lanes the pool works on
          results,     \* what each finished lane reported
          waves,
          verdict      \* "open" until the report is written

scaleVars == <<laneQueue, cancelled, late, unread, refused, timedOut, dropped, quota, minute,
               running, results, waves, verdict>>
scaleRunVars == <<resVars, scaleVars>>

Lanes == DOMAIN Targets

\* detect_duplicate_work: the first lane of every target.
Unique == {i \in Lanes : \A j \in 1..(i - 1) : Targets[j] # Targets[i]}

ScaleTypeOK ==
    /\ ResTypeOK
    /\ laneQueue \in Seq(Unique) /\ Len(laneQueue) <= MaxQueue
    /\ {cancelled, refused, timedOut, dropped, unread, running} \subseteq SUBSET Unique
    /\ late \in 0..Len(Targets)
    /\ quota \in [inFlight : 0..MaxConcurrency, used : 0..MaxPerMinute]
    /\ minute \in BOOLEAN
    /\ DOMAIN results \subseteq Unique
    /\ \A i \in DOMAIN results : results[i] \in Errors \cup {"ok"}
    /\ waves \in 0..MaxWaves
    /\ verdict \in {"open", "accept", "reject"}

ScaleInit ==
    /\ ResInit
    /\ laneQueue = <<>>
    /\ cancelled = {} /\ refused = {} /\ timedOut = {} /\ dropped = {}
    /\ late = 0
    /\ unread = Unique
    /\ quota = [inFlight |-> 0, used |-> 0]
    /\ minute = FALSE
    /\ running = {}
    /\ results = <<>>
    /\ waves = 0
    /\ verdict = "open"

--------------------------------------------------------------------------------
(* The queue. *)

EnqueueLane ==
    /\ unread # {}
    /\ LET i == Min(unread) IN
         /\ unread' = unread \ {i}
         /\ IF Len(laneQueue) >= MaxQueue
            THEN refused' = refused \cup {i} /\ UNCHANGED laneQueue
            ELSE laneQueue' = Append(laneQueue, i) /\ UNCHANGED refused
    /\ UNCHANGED <<cancelled, late, timedOut, dropped, quota, minute, running, results, waves, verdict>>

\* cancel marks the item; the next dispatch drops it.  The scale run itself never cancels.
CancelQueued(i) ==
    /\ i \in Range(laneQueue) \ cancelled
    /\ cancelled' = cancelled \cup {i}
    /\ UNCHANGED <<laneQueue, late, unread, refused, timedOut, dropped, quota, minute, running, results,
                   waves, verdict>>

\* The clock: a window of the provider ends, and the first lanes may be past their deadline.
TimePasses(n) ==
    /\ unread = {} /\ verdict = "open"
    /\ n >= late
    /\ ~minute \/ n > late
    /\ late' = n
    /\ minute' = TRUE
    /\ UNCHANGED <<laneQueue, cancelled, unread, refused, timedOut, dropped, quota, running, results,
                   waves, verdict>>

--------------------------------------------------------------------------------
(* Waves. *)

Expired(i) == i <= late
Purged(q) ==
    LET at == Ascending({k \in DOMAIN q : q[k] \notin cancelled /\ ~Expired(q[k])})
    IN  [j \in DOMAIN at |-> q[at[j]]]

Usable ==
    IF MaxConcurrency > ControlReserve THEN MaxConcurrency - ControlReserve ELSE 0

\* try_acquire for n items in turn: how many of them get a place.
Window == IF minute THEN 0 ELSE quota.used
Acquired(n) == Min({n, MaxConcurrency - quota.inFlight, MaxPerMinute - Window})

\* dispatch: purge, choose the first items, and take those the quota has a place for; the
\* others keep their order.  Without a choice the window is not looked at.
Chosen(q) == SubSeq(q, 1, Min({Usable, Len(q)}))

\* What run_scale_mission still waits for.
Remaining == Unique \ (running \cup DOMAIN results)

\* Items that were chosen and got no place are lost.
LeftAfterChoice(q, n) == SubSeq(q, Len(Chosen(q)) + 1, Len(q))
Left(q, n) == SubSeq(q, n + 1, Len(q))

Wave(q, n) ==
    /\ laneQueue' = Left(q, n)
    /\ running' = {q[k] : k \in 1..n}
    /\ quota' = [inFlight |-> quota.inFlight + n,
                 used |-> IF Chosen(q) = <<>> THEN quota.used ELSE Window + n]
    /\ minute' = (minute /\ Chosen(q) = <<>>)
    /\ timedOut' = timedOut \cup {i \in Range(laneQueue) \ cancelled : Expired(i)}
    /\ dropped' = dropped \cup (cancelled \cap Range(laneQueue))
    /\ cancelled' = {}
    /\ waves' = waves + 1

\* isolate_failures and bounded_consensus: an error class seen three times does not vote.
Voters(res) == {i \in DOMAIN res : res[i] = "ok"
                                   \/ Cardinality({j \in DOMAIN res : res[j] = res[i]}) < 3}
Consensus(res) ==
    LET accept == {i \in Voters(res) : res[i] = "ok"}
    IN  IF Cardinality(accept) > Cardinality(Voters(res) \ accept) THEN "accept" ELSE "reject"

\* A wave that dispatches nothing ends the run and leaves the rest queued.
DispatchWave ==
    /\ unread = {} /\ verdict = "open" /\ running = {}
    /\ Remaining # {} /\ waves < MaxWaves
    /\ LET q == Purged(laneQueue)
           n == Acquired(Len(Chosen(q)))
       IN  /\ Wave(q, n)
           /\ verdict' = IF n = 0 THEN Consensus(results) ELSE "open"
    /\ UNCHANGED <<late, unread, refused, results>>

\* A loop that ends only when every lane is done.
OverWhenDone == Remaining = {}
Over == Remaining = {} \/ waves = MaxWaves

Report ==
    /\ unread = {} /\ verdict = "open" /\ running = {}
    /\ Over
    /\ verdict' = Consensus(results)
    /\ UNCHANGED <<laneQueue, cancelled, late, unread, refused, timedOut, dropped, quota, minute, running,
                   results, waves>>

\* An agent of the pool is done and its place in the quota is free.
Complete(i, r) ==
    /\ i \in running
    /\ running' = running \ {i}
    /\ results' = [j \in DOMAIN results \cup {i} |-> IF j = i THEN r ELSE results[j]]
    /\ quota' = [quota EXCEPT !.inFlight = IF @ > 0 THEN @ - 1 ELSE 0]
    /\ UNCHANGED <<laneQueue, cancelled, late, unread, refused, timedOut, dropped, minute, waves, verdict>>

--------------------------------------------------------------------------------
ScaleStep ==
    \/ EnqueueLane \/ DispatchWave \/ Report
    \/ \E i \in Unique, r \in Errors \cup {"ok"} : Complete(i, r)

LaneNext ==
    \/ ScaleStep
    \/ \E i \in Unique : CancelQueued(i)
    \/ \E n \in 0..Len(Targets) : TimePasses(n)

ScaleNext ==
    \/ LaneNext /\ UNCHANGED resVars
    \/ ResNext /\ UNCHANGED scaleVars

\* The run's own thread and the pool's threads are never starved, and an agent's work is
\* bounded: it reads a file or waits for a call with a timeout.
ScaleSpec == ScaleInit /\ [][ScaleNext]_scaleRunVars /\ WF_scaleRunVars(ScaleStep /\ UNCHANGED resVars)

--------------------------------------------------------------------------------
(* No lane is lost or done twice: each is not yet enqueued, queued, at work, finished,   *)
(* or counted as refused, cancelled or timed out, and only one of these.                 *)
EveryLaneAccounted ==
    LET places == <<unread, Range(laneQueue), running, DOMAIN results, refused, timedOut, dropped>>
    IN  /\ UNION Range(places) = Unique
        /\ \A j, k \in DOMAIN places : j # k => places[j] \cap places[k] = {}
        /\ Len(laneQueue) = Cardinality(Range(laneQueue))

(* The run comes to a verdict, whatever times out, is cancelled or finds the quota used  *)
(* up.                                                                                   *)
RunReports == <>(verdict # "open")
================================================================================
