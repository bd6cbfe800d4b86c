------------------------------ MODULE Reservations -----------------------------
(***************************************************************************)
(* Multi-resource reservations and the allocator in front of them           *)
(* (src/swarm/controller: reservations, resource_allocator, fairness,       *)
(* scheduling_receipts).  One process keeps them, so every call is one      *)
(* step.  Units are integers; debt is counted in halves for a weight of 1,  *)
(* a dispatch adding two and a completion taking one.                       *)
(***************************************************************************)
EXTENDS Integers, FiniteSets

CONSTANTS Requests,
          FairProjects,  \* projects the fairness record knows
          Project,       \* project of an attempt
          ToolUnits,     \* tool units an attempt's request asks for, 0 for none
          Provisioned,   \* units set_capacity is called with, per resource
          Floor,         \* backpressure_floor
          CurrentEpoch,  \* epoch the service was built with
          CallerEpochs,  \* epochs callers come with
          MaxDebt        \* bound: debt a project collects

Resources == {"worker", "provider", "tool"}

ASSUME ReservationAssumption ==
    /\ Project \in [Requests -> FairProjects]
    /\ ToolUnits \in [Requests -> Nat]
    /\ Provisioned \in [Resources -> Nat]
    /\ Floor \in Nat

VARIABLES capacity,  \* what is left of a resource
          intents,   \* _by_attempt: the reservation of an attempt
          rdraining, \* _draining of the service
          fairness,  \* debt and active missions of a project
          receipts,  \* dispatch receipts, as the attempt whose intent they name
          supplied   \* history: what set_capacity provided, reserved units included

resVars == <<capacity, intents, rdraining, fairness, receipts, supplied>>

Intent == [state : {"none", "reserved", "released"}, units : [Resources -> Nat]]

ResTypeOK ==
    /\ capacity \in [Resources -> Nat]
    /\ intents \in [Requests -> Intent]
    /\ rdraining \in BOOLEAN
    /\ fairness \in [FairProjects -> [debt : Nat, active : Nat]]
    /\ receipts \subseteq Requests
    /\ supplied \in [Resources -> Nat]

ResInit ==
    /\ capacity = Provisioned
    /\ intents = [a \in Requests |-> [state |-> "none", units |-> [r \in Resources |-> 0]]]
    /\ rdraining = FALSE
    /\ fairness = [p \in FairProjects |-> [debt |-> 0, active |-> 0]]
    /\ receipts = {}
    /\ supplied = Provisioned

\* Units of a resource that outstanding intents hold: as many as they have together.
Outstanding == {a \in Requests : intents[a].state = "reserved"}
UnitsHeld(r) == UNION {{a} \X (1..intents[a].units[r]) : a \in Outstanding}
Held(r) == Cardinality(UnitsHeld(r))

SetCapacity(r) ==
    /\ capacity[r] # Provisioned[r]
    /\ capacity' = [capacity EXCEPT ![r] = Provisioned[r]]
    /\ supplied' = [supplied EXCEPT ![r] = Provisioned[r] + Held(r)]
    /\ UNCHANGED <<intents, rdraining, fairness, receipts>>

ResBeginDrain == rdraining' = TRUE  /\ UNCHANGED <<capacity, intents, fairness, receipts, supplied>>
ResEndDrain   == rdraining' = FALSE /\ UNCHANGED <<capacity, intents, fairness, receipts, supplied>>

\* The components the allocator asks for: a worker, a provider and the tool units.
Components(a) == [r \in Resources |-> IF r = "tool" THEN ToolUnits[a] ELSE 1]

Reservable(a, epoch) ==
    /\ epoch = CurrentEpoch
    /\ ~rdraining
    /\ intents[a].state = "none"
    /\ \A r \in Resources : Components(a)[r] > 0 => capacity[r] - Components(a)[r] >= Floor

Reserve(a) ==
    /\ capacity' = [r \in Resources |-> capacity[r] - Components(a)[r]]
    /\ intents' = [intents EXCEPT ![a] = [state |-> "reserved", units |-> Components(a)]]

NoteDispatch(p) == fairness' = [fairness EXCEPT ![p] = [debt |-> @.debt + 2, active |-> @.active + 1]]

\* allocate: reserve, note the dispatch, write the receipt; a refused reservation changes
\* nothing.
Allocate(a, epoch) ==
    /\ fairness[Project[a]].debt < MaxDebt
    /\ Reservable(a, epoch)
    /\ Reserve(a)
    /\ NoteDispatch(Project[a])
    /\ receipts' = receipts \cup {a}
    /\ UNCHANGED <<rdraining, supplied>>

\* A release that forgets to close its intent.
GiveBackAgain(a) ==
    /\ capacity' = [r \in Resources |-> capacity[r] + intents[a].units[r]]
    /\ UNCHANGED intents

GiveBack(a) ==
    /\ capacity' = [r \in Resources |-> capacity[r] + intents[a].units[r]]
    /\ intents' = [intents EXCEPT ![a].state = "released"]

\* A second release finds the intent released and changes nothing.
Release(a) ==
    /\ intents[a].state = "reserved"
    /\ GiveBack(a)
    /\ UNCHANGED <<rdraining, fairness, receipts, supplied>>

Cancel(a, epoch) == epoch = CurrentEpoch /\ Release(a)

NoteComplete(p) ==
    /\ fairness' = [fairness EXCEPT ![p] = [debt   |-> IF @.debt > 0 THEN @.debt - 1 ELSE 0,
                                            active |-> IF @.active > 0 THEN @.active - 1 ELSE 0]]
    /\ UNCHANGED <<capacity, intents, rdraining, receipts, supplied>>

ResNext ==
    \/ \E r \in Resources : SetCapacity(r)
    \/ ResBeginDrain \/ ResEndDrain
    \/ \E a \in Requests, e \in CallerEpochs : Allocate(a, e) \/ Cancel(a, e)
    \/ \E a \in Requests : Release(a)
    \/ \E p \in FairProjects : NoteComplete(p)

--------------------------------------------------------------------------------
(* What is free and what outstanding intents hold add up to what was provided,       *)
(* however reservations, releases, cancellations and new capacities interleave: a    *)
(* release gives back exactly what its reservation took, once.                       *)
CapacityBalances == \A r \in Resources : capacity[r] + Held(r) = supplied[r]
================================================================================
