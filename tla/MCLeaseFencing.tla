---------------------------- MODULE MCLeaseFencing ----------------------------
(* Instances of LeaseFencing for TLC. *)
EXTENDS LeaseFencing, TLC

CONSTANTS p1, m1, t1, t2

OneProjectOf == [m \in Missions |-> p1]
OneMissionOf == [t \in Tasks |-> m1]
SecondAfterFirst == [t \in Tasks |-> IF t = t2 THEN {t1} ELSE {}]
NeedEverything == [t \in Tasks |-> Caps]
FirstBeforeSecond == [t \in Tasks |-> IF t = t1 THEN 1 ELSE 2]

Interchangeable == Permutations(Workers) \cup Permutations(Leases) \cup Permutations(Results)

--------------------------------------------------------------------------------
(* TLC starts in two states that Spec reaches from Init, each with part of the      *)
(* budgets MaxGeneration, MaxCancel and MaxRevision spent, so that no behaviour has *)
(* to explore all of them at once.                                                  *)

Worker(status, revoked, generation, caps) ==
    [status |-> status, revoked |-> revoked, generation |-> generation,
     project |-> p1, caps |-> caps]

NoLease == [state |-> "none", worker |-> CHOOSE w \in Workers : TRUE,
            task |-> CHOOSE t \in Tasks : TRUE, generation |-> 0, revision |-> 0,
            cancellation |-> 0, expires |-> 0, renewable |-> 0]
NoAttempt == [status |-> "none", accepted |-> NoResult]

AtRest ==
    /\ clock = 0
    /\ result = [r \in Results |->
                    [state |-> "none", lease |-> CHOOSE l \in Leases : TRUE, passed |-> FALSE]]
    /\ claims = {} /\ renewals = {} /\ sweeps = {}
    /\ accepts = {} /\ revokes = {} /\ graphs = {}

(* Every worker has enrolled until MaxGeneration, and the mission's work was revoked *)
(* MaxCancel times: claims race with renewals, sweeps and a graph revision.          *)
BeforeRevision ==
    /\ worker = [w \in Workers |-> Worker("online", FALSE, MaxGeneration, Caps)]
    /\ mission = [m \in Missions |->
                    [status |-> "running", revision |-> 1, cancellation |-> MaxCancel]]
    /\ task = [t \in Tasks |-> [status |-> "ready", revision |-> 1]]
    /\ lease = [l \in Leases |-> NoLease]
    /\ attempt = [l \in Leases |-> NoAttempt]
    /\ outbox = {<<"bumped", m, n>> : m \in Missions, n \in 1..MaxCancel}

(* Worker gone claimed t1 as l0, the lease was cancelled and the task requeued, the  *)
(* last graph revision left t2 out and gone was revoked: t1 is claimed and renewed   *)
(* while the other worker enrols again, rotates its token and is revoked, and the    *)
(* mission's work is revoked.                                                        *)
AfterRevision ==
    \E gone \in Workers, l0 \in Leases :
        /\ worker = [w \in Workers |-> IF w = gone
                        THEN Worker("quarantined", TRUE, MaxGeneration, Caps)
                        ELSE Worker("online", FALSE, 1, Caps)]
        /\ mission = [m \in Missions |->
                        [status |-> "running", revision |-> MaxRevision, cancellation |-> 0]]
        /\ task = [t \in Tasks |->
                        [status |-> "ready", revision |-> IF t = t1 THEN MaxRevision ELSE 1]]
        /\ lease = [l \in Leases |-> IF l = l0
                        THEN [state |-> "cancelled", worker |-> gone, task |-> t1,
                              generation |-> 1, revision |-> 1, cancellation |-> 0,
                              expires |-> Earlier(LeaseSeconds, Horizon), renewable |-> Horizon]
                        ELSE NoLease]
        /\ attempt = [l \in Leases |->
                        [NoAttempt EXCEPT !.status = IF l = l0 THEN "cancelled" ELSE "none"]]
        /\ outbox = {<<"claimed", l0>>, <<"lease-cancel", l0, 0>>}

UnderWay == AtRest /\ (BeforeRevision \/ AfterRevision)

UnderWaySpec == UnderWay /\ [][Next]_vars
================================================================================
