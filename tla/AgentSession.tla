------------------------------ MODULE AgentSession -----------------------------
(***************************************************************************)
(* Agent sessions (src/swarm/runtime): registrations, the capacity pool,    *)
(* run_task with its brokered model turn, cancellation, interruption,       *)
(* checkpoints and resumption after a restart.                              *)
(*                                                                         *)
(* The runtime lives in one event loop.  run_task suspends where it waits   *)
(* for the broker: once for the reservation and once for the answer; what   *)
(* lies between is one step.  A restart forgets everything but the          *)
(* checkpoint files.  The broker is QuotaBroker's: here it admits, denies,  *)
(* answers, is ambiguous or raises an error run_task does not catch.        *)
(***************************************************************************)
EXTENDS Integers, FiniteSets

CONSTANTS Attempts,
          Registration,      \* registration id of an attempt's profile
          MaxRegistrations,
          Waits,             \* attempts whose task has dependencies
          Deterministic,     \* attempts without a route
          Capable,           \* attempts whose route claims what the task requires
          MaxSessions,       \* max_concurrent_sessions
          MaxRestarts        \* bound: restarts

ASSUME SessionAssumption ==
    /\ Waits \subseteq Attempts /\ Deterministic \subseteq Attempts /\ Capable \subseteq Attempts
    /\ MaxSessions \in Nat /\ MaxRegistrations \in Nat /\ MaxRestarts \in Nat

VARIABLES registrations, \* registration ids in use
          active, waiting, \* the capacity pool
          status,        \* of an attempt
          phase,         \* where its run_task is
          cancels,       \* attempts with a cancel request
          interrupted,   \* attempts whose model response was interrupted
          checkpoints,   \* checkpoint files
          restarts       \* history: restarts

sessionVars == <<registrations, active, waiting, status, phase, cancels, interrupted, checkpoints, restarts>>

Finished == {"succeeded", "failed", "cancelled"}
AttemptStatus == {"none", "running", "pending", "unknown"} \cup Finished
Phases == {"none", "reserving", "sent", "returned", "raised"}
SessionCheckpoint == [attempt : Attempts, status : AttemptStatus, cancel : BOOLEAN, children : BOOLEAN]

SessionTypeOK ==
    /\ registrations \subseteq {Registration[a] : a \in Attempts}
    /\ active \subseteq Attempts /\ waiting \subseteq active
    /\ status \in [Attempts -> AttemptStatus]
    /\ phase \in [Attempts -> Phases]
    /\ cancels \subseteq Attempts /\ interrupted \subseteq Attempts
    /\ checkpoints \subseteq SessionCheckpoint
    /\ restarts \in 0..MaxRestarts

SessionInit ==
    /\ registrations = {}
    /\ active = {} /\ waiting = {}
    /\ status = [a \in Attempts |-> "none"]
    /\ phase = [a \in Attempts |-> "none"]
    /\ cancels = {} /\ interrupted = {} /\ checkpoints = {}
    /\ restarts = 0

Registered(a) == Registration[a] \in registrations \/ Cardinality(registrations) < MaxRegistrations
RunnableCount == Cardinality(active) - Cardinality(waiting)

\* _checkpoint: the file says how the attempt ended and whether it was asked to stop.
Checkpoint(a, s) ==
    checkpoints' = checkpoints \cup
        {[attempt |-> a, status |-> s, cancel |-> s = "cancelled" \/ a \in cancels,
          children |-> s = "pending"]}

\* Only a success gives its slot back.
ReleasedOnSuccess(a, s) == IF s = "succeeded" THEN active \ {a} ELSE active
Released(a, s) == IF s \in Finished THEN active \ {a} ELSE active

\* The end of run_task: status and checkpoint, and the slot goes back when the attempt is
\* over.  A pending or unknown attempt keeps it.
Return(a, s) ==
    /\ status' = [status EXCEPT ![a] = s]
    /\ phase' = [phase EXCEPT ![a] = "returned"]
    /\ Checkpoint(a, s)
    /\ active' = Released(a, s)
    /\ waiting' = IF s = "pending" THEN waiting ELSE waiting \ {a}
    /\ UNCHANGED <<registrations, cancels, interrupted, restarts>>

\* Opening a session registers its profile first; then a slot is needed.
Opened(a) ==
    /\ phase[a] = "none" /\ status[a] = "none"
    /\ Registered(a)
    /\ registrations' = registrations \cup {Registration[a]}

RunRefused(a) ==
    /\ Opened(a)
    /\ RunnableCount >= MaxSessions
    /\ UNCHANGED <<active, waiting, status, phase, cancels, interrupted, checkpoints, restarts>>

\* A task with dependencies waits for its children, without its runnable slot.
RunWaits(a) ==
    /\ a \in Waits
    /\ Opened(a)
    /\ RunnableCount < MaxSessions
    /\ active' = active \cup {a}
    /\ waiting' = waiting \cup {a}
    /\ status' = [status EXCEPT ![a] = "pending"]
    /\ phase' = [phase EXCEPT ![a] = "returned"]
    /\ Checkpoint(a, "pending")
    /\ UNCHANGED <<cancels, interrupted, restarts>>

\* Without a route the result is immediate, and a route that lacks a capability fails at once.
RunsAtOnce(a) ==
    /\ a \notin Waits /\ (a \in Deterministic \/ a \notin Capable)
    /\ Opened(a)
    /\ RunnableCount < MaxSessions
    /\ LET s == IF a \in Deterministic THEN "succeeded" ELSE "failed" IN
         /\ status' = [status EXCEPT ![a] = s]
         /\ Checkpoint(a, s)
    /\ phase' = [phase EXCEPT ![a] = "returned"]
    /\ UNCHANGED <<active, waiting, cancels, interrupted, restarts>>

RunStarts(a) ==
    /\ a \notin Waits \cup Deterministic /\ a \in Capable
    /\ Opened(a)
    /\ RunnableCount < MaxSessions
    /\ active' = active \cup {a}
    /\ status' = [status EXCEPT ![a] = "running"]
    /\ phase' = [phase EXCEPT ![a] = "reserving"]
    /\ UNCHANGED <<waiting, cancels, interrupted, checkpoints, restarts>>

\* The broker's reservation arrives; an interrupted attempt sends nothing.
Reserved(a) ==
    /\ phase[a] = "reserving"
    /\ IF a \in interrupted THEN Return(a, "unknown")
       ELSE /\ phase' = [phase EXCEPT ![a] = "sent"]
            /\ UNCHANGED <<registrations, active, waiting, status, cancels, interrupted,
                           checkpoints, restarts>>

Denied(a) == phase[a] = "reserving" /\ Return(a, "failed")

\* Any other error leaves run_task: the attempt stays running and keeps its slot.
Raises(a) ==
    /\ phase[a] \in {"reserving", "sent"}
    /\ phase' = [phase EXCEPT ![a] = "raised"]
    /\ UNCHANGED <<registrations, active, waiting, status, cancels, interrupted, checkpoints, restarts>>

AmbiguousSend(a) == phase[a] = "sent" /\ Return(a, "unknown")

\* The cancellation is looked at before the call only.
OutcomeIgnoresCancel(a) == IF a \in interrupted THEN "unknown" ELSE "succeeded"

\* With the answer the finding is stored and the tool called; then interruption counts
\* before cancellation and both before success.
Outcome(a) == CASE a \in interrupted -> "unknown"
                [] a \notin interrupted /\ a \in cancels -> "cancelled"
                [] OTHER -> "succeeded"

Answered(a) == phase[a] = "sent" /\ Return(a, Outcome(a))

RequestCancel(a) ==
    /\ status[a] # "none"
    /\ cancels' = cancels \cup {a}
    /\ UNCHANGED <<registrations, active, waiting, status, phase, interrupted, checkpoints, restarts>>

InterruptModelResponse(a) ==
    /\ status[a] # "none"
    /\ interrupted' = interrupted \cup {a}
    /\ UNCHANGED <<registrations, active, waiting, status, phase, cancels, checkpoints, restarts>>

\* An authorised change of route is a new attempt, with no session yet.
SafeRerouteNewAttempt(a) ==
    /\ status[a] = "none"
    /\ status' = [status EXCEPT ![a] = "pending"]
    /\ UNCHANGED <<registrations, active, waiting, phase, cancels, interrupted, checkpoints, restarts>>

Restart ==
    /\ restarts < MaxRestarts
    /\ restarts' = restarts + 1
    /\ registrations' = {} /\ active' = {} /\ waiting' = {}
    /\ status' = [a \in Attempts |-> "none"]
    /\ phase' = [a \in Attempts |-> IF phase[a] = "none" THEN "none" ELSE "returned"]
    /\ cancels' = {} /\ interrupted' = {}
    /\ UNCHANGED checkpoints

\* An attempt the runtime still knows is returned as it is; one it forgot is rebuilt.
Resume(c) ==
    /\ status' = [status EXCEPT ![c.attempt] = IF @ = "none" THEN c.status ELSE @]
    /\ UNCHANGED <<registrations, active, waiting, phase, cancels, interrupted, checkpoints, restarts>>

SessionNext ==
    \/ \E a \in Attempts :
         \/ RunRefused(a) \/ RunWaits(a) \/ RunsAtOnce(a) \/ RunStarts(a)
         \/ Reserved(a) \/ Denied(a) \/ Raises(a) \/ AmbiguousSend(a) \/ Answered(a)
         \/ RequestCancel(a) \/ InterruptModelResponse(a) \/ SafeRerouteNewAttempt(a)
    \/ \E c \in checkpoints : Resume(c)
    \/ Restart

SessionSpec == SessionInit /\ [][SessionNext]_sessionVars

--------------------------------------------------------------------------------
(* The pool and the attempts agree: never more runnable sessions than the limit, no    *)
(* attempt that is over holds a slot, and every attempt at work holds one, whatever    *)
(* order cancellations, interruptions, answers and errors come in.                     *)
SlotsAreTheAttempts ==
    /\ RunnableCount <= MaxSessions
    /\ \A a \in Attempts : /\ a \in active => status[a] \notin Finished
                           /\ phase[a] \in {"reserving", "sent"} => a \in active \ waiting

(* A cancellation requested while the model works is not lost: no checkpoint, and so   *)
(* no attempt resumed from one, says both that a stop was asked for and that it        *)
(* succeeded.                                                                          *)
CancelIsNotLost == \A c \in checkpoints : c.cancel => c.status # "succeeded"
================================================================================
