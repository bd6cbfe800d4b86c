---------------------------- MODULE InferenceProofs -----------------------------
(***************************************************************************)
(* Theorems about inference.                                                *)
(* QuotaBroker, for every set of requests, routes, buckets, windows and     *)
(* limits, and for callers that reuse their tickets.                        *)
(* Onboarding and ModelEvidence, for every set of providers, models and     *)
(* cases: payment gates, live canaries and profiles.                        *)
(***************************************************************************)
EXTENDS QuotaBroker, ModelEvidence, FiniteSetTheorems, TLAPS

(* estimate_amounts asks for at least one unit of every bucket. *)
LEMMA AmountIsPositive ==
    ASSUME NEW c \in Calls, NEW b \in Buckets
    PROVE  Amount(c, b) \in Nat /\ Amount(c, b) > 0
  BY BrokerAssumption DEF Amount, AtLeast

(* A settlement charges no more than the hold. *)
LEMMA ChargeFitsAmount ==
    ASSUME NEW c \in Calls, NEW b \in Buckets, NEW usage \in BOOLEAN,
           NEW observed \in 0..MaxObserved
    PROVE  Charge(c, b, usage, observed) \in Nat /\ Charge(c, b, usage, observed) <= Amount(c, b)
  BY AmountIsPositive, BrokerAssumption DEF Charge

(* A circuit that records an error still has its shape. *)
LEMMA ErrorHealth ==
    ASSUME NEW h \in Health, NEW class
    PROVE  AfterError(h, class) \in Health
  BY DEF AfterError, Health

--------------------------------------------------------------------------------
(* Type correctness, one lemma per kind of step.                                   *)

(* A broker starts with full buckets, closed circuits and no tickets. *)
LEMMA InitTypeOK == Init => TypeOK
  <1>1. (CHOOSE r \in Routes : TRUE) \in Routes
    BY BrokerAssumption
  <1>2. QED
    BY <1>1, BrokerAssumption DEF Init, TypeOK, Ticket, Health, TicketStates, Phases

(* assert_closed keeps the shape of the circuits it resets. *)
LEMMA HealthTyped ==
    ASSUME TypeOK, NEW S, AssertClosed(S)
    PROVE  health' \in [Routes -> Health]
  BY DEF TypeOK, AssertClosed, Health

(* So does record_error. *)
LEMMA ErrorTyped ==
    ASSUME TypeOK, NEW r \in Routes, NEW class, RecordError(r, class)
    PROVE  health' \in [Routes -> Health]
  <1>1. AfterError(health[r], class) \in Health
    BY ErrorHealth DEF TypeOK
  <1>2. QED
    BY <1>1 DEF TypeOK, RecordError

(* Holds that are given back never count below zero. *)
LEMMA GiveBackTyped ==
    ASSUME TypeOK, NEW c \in Calls
    PROVE  GiveBack(c) \in [Buckets -> Nat]
  BY AmountIsPositive DEF TypeOK, GiveBack, AtLeast

(* A reset fills a window up to its limit and takes it off the list. *)
LEMMA ResetTyped ==
    ASSUME TypeOK, NEW B, NEW late, Reset(B, late)
    PROVE  remaining' \in [Buckets -> Nat] /\ due' \subseteq Windowed
  BY BrokerAssumption DEF TypeOK, Reset, RemainingNow

(* An admission keeps the types. *)
LEMMA ReserveTypeOK ==
    ASSUME TypeOK, NEW c \in Calls, NEW r \in Routes, NEW late, Reserve(c, r, late)
    PROVE  TypeOK'
  <1>1. health' \in [Routes -> Health]
    BY HealthTyped DEF Reserve
  <1>2. remaining' \in [Buckets -> Nat] /\ due' \subseteq Windowed
    BY ResetTyped DEF Reserve
  <1>3. reserved' \in [Buckets -> Nat]
    BY AmountIsPositive DEF Reserve, TypeOK, ReservedNow
  <1>4. ticket' \in [Calls -> Ticket]
    <2>1. ticket \in [Calls -> Ticket]
      BY DEF TypeOK
    <2>2. ticket' = [ticket EXCEPT ![c].state = "open", ![c].route = r]
      BY DEF Reserve
    <2>3. QED
      BY <2>1, <2>2 DEF Ticket, TicketStates
  <1>5. QED
    BY <1>1, <1>2, <1>3, <1>4 DEF Reserve, TypeOK

(* A refused admission, which may have reset windows, keeps them too. *)
LEMMA ReserveDeniedTypeOK ==
    ASSUME TypeOK, NEW c \in Calls, NEW r \in Routes, ReserveDenied(c, r)
    PROVE  TypeOK'
  <1>1. health' \in [Routes -> Health]
    BY HealthTyped DEF ReserveDenied
  <1>2. remaining' \in [Buckets -> Nat] /\ due' \subseteq Windowed
    BY ResetTyped DEF ReserveDenied
  <1>3. reserved' \in [Buckets -> Nat]
    BY DEF ReserveDenied, TypeOK, ReservedNow
  <1>4. QED
    BY <1>1, <1>2, <1>3 DEF ReserveDenied, TypeOK

(* What release writes has its type. *)
LEMMA ReleaseTypeOK ==
    ASSUME TypeOK, NEW c \in Calls, NEW state \in TicketStates, Release(c, state)
    PROVE  /\ reserved' \in [Buckets -> Nat] /\ ticket' \in [Calls -> Ticket]
           /\ reused' \subseteq Calls
  <1>1. reserved' \in [Buckets -> Nat]
    BY GiveBackTyped DEF Release
  <1>2. QED
    BY <1>1 DEF Release, Reused, TypeOK, Ticket

(* What settle writes has its type. *)
LEMMA SettleTypeOK ==
    ASSUME TypeOK, NEW c \in Calls, NEW n \in 1..MaxSends, NEW usage \in BOOLEAN,
           NEW observed \in 0..MaxObserved, Settle(c, n, usage, observed)
    PROVE  /\ remaining' \in [Buckets -> Nat] /\ reserved' \in [Buckets -> Nat]
           /\ settled' \in [Buckets -> Nat] /\ keys' \subseteq Sends /\ due' \subseteq Windowed
  <1>1. remaining' \in [Buckets -> Nat]
    BY ChargeFitsAmount DEF Settle, TypeOK, AtLeast
  <1>2. settled' \in [Buckets -> Nat]
    BY ChargeFitsAmount DEF Settle, TypeOK
  <1>3. reserved' \in [Buckets -> Nat]
    BY GiveBackTyped DEF Settle
  <1>4. QED
    BY <1>1, <1>2, <1>3 DEF Settle, TypeOK, Sends

(* A ticket that gets a new state and phase is a ticket. *)
LEMMA OutcomeTyped ==
    ASSUME TypeOK, NEW c \in Calls, NEW state \in TicketStates, NEW phase \in Phases,
           ticket' = [ticket EXCEPT ![c].state = state, ![c].phase = phase]
    PROVE  ticket' \in [Calls -> Ticket]
  BY DEF TypeOK, Ticket

(* The receipt of an invocation is a receipt. *)
LEMMA LandsTyped ==
    ASSUME TypeOK, NEW c \in Calls, NEW n \in 1..MaxSends, NEW usage \in BOOLEAN,
           NEW class \in {"none", "authentication", "ambiguous"} \cup Refusals,
           Lands(c, n, [call |-> c, send |-> n, class |-> class, usage |-> usage])
    PROVE  flight' \subseteq Sends /\ receipts' \subseteq Receipt
  <1>1. [call |-> c, send |-> n, class |-> class, usage |-> usage] \in Receipt
    BY DEF Receipt
  <1>2. QED
    BY <1>1 DEF Lands, TypeOK

(* Preservation: one step per action. *)
LEMMA NextTypeOK == TypeOK /\ [Next]_vars => TypeOK'
  <1> SUFFICES ASSUME TypeOK, [Next]_vars PROVE TypeOK'
    OBVIOUS
  <1>1. ASSUME NEW c \in Calls, NEW S \in SUBSET Routes, Assess(c, S) PROVE TypeOK'
    <2>1. health' \in [Routes -> Health]
      BY <1>1, HealthTyped DEF Assess
    <2>2. QED
      BY <1>1, <2>1 DEF Assess, TypeOK, ledger
  <1>2. ASSUME NEW c \in Calls, NEW r \in Routes, NEW late, Reserve(c, r, late) PROVE TypeOK'
    BY <1>2, ReserveTypeOK
  <1>3. ASSUME NEW c \in Calls, NEW r \in Routes, ReserveDenied(c, r) PROVE TypeOK'
    BY <1>3, ReserveDeniedTypeOK
  <1>4. ASSUME NEW c \in Calls, ExpireUnsent(c) PROVE TypeOK'
    <2>1. Release(c, "expired") /\ "expired" \in TicketStates
      BY <1>4 DEF ExpireUnsent, TicketStates
    <2>2. QED
      BY <1>4, <2>1, ReleaseTypeOK DEF ExpireUnsent, Release, TypeOK
  <1>5. ASSUME NEW c \in Calls, InvokeExpired(c) PROVE TypeOK'
    <2>1. Release(c, "expired") /\ "expired" \in TicketStates
      BY <1>5 DEF InvokeExpired, TicketStates
    <2>2. QED
      BY <1>5, <2>1, ReleaseTypeOK DEF InvokeExpired, Release, TypeOK
  <1>6. ASSUME NEW c \in Calls, InvokeSend(c) PROVE TypeOK'
    <2>1. ticket[c].sends + 1 \in 1..MaxSends
      BY <1>6, BrokerAssumption DEF InvokeSend, TypeOK, Ticket
    <2>2. ticket' \in [Calls -> Ticket]
      BY <1>6, <2>1 DEF InvokeSend, TypeOK, Ticket, Phases
    <2>3. flight' \subseteq Sends /\ reused' \subseteq Calls
      BY <1>6, <2>1 DEF InvokeSend, TypeOK, Sends, Reused
    <2>4. QED
      BY <1>6, <2>2, <2>3 DEF InvokeSend, TypeOK, ledger
  <1>7. ASSUME NEW c \in Calls, TicketExpires(c) PROVE TypeOK'
    <2>1. ticket' \in [Calls -> Ticket]
      BY <1>7 DEF TicketExpires, TypeOK, Ticket
    <2>2. QED
      BY <1>7, <2>1 DEF TicketExpires, TypeOK, ledger
  <1>8. ASSUME NEW c \in Calls, NEW n \in 1..MaxSends, NEW class \in {"none"} \cup Refusals,
               NEW usage \in BOOLEAN, NEW observed \in 0..MaxObserved,
               InvokeAnswered(c, n, class, usage, observed)
        PROVE  TypeOK'
    <2>1. Settle(c, n, usage, observed)
      BY <1>8 DEF InvokeAnswered
    <2>2. health' \in [Routes -> Health]
      BY <1>8 DEF InvokeAnswered, RecordSuccess, TypeOK, Health
    <2>3. ticket' \in [Calls -> Ticket]
      BY <1>8, OutcomeTyped DEF InvokeAnswered, TicketStates, Phases
    <2>4. flight' \subseteq Sends /\ receipts' \subseteq Receipt
      BY <1>8, LandsTyped DEF InvokeAnswered
    <2>5. QED
      BY <1>8, <2>1, <2>2, <2>3, <2>4, SettleTypeOK DEF InvokeAnswered, TypeOK
  <1>9. ASSUME NEW c \in Calls, NEW n \in 1..MaxSends, NEW usage \in BOOLEAN,
               InvokeAmbiguous(c, n, usage) PROVE TypeOK'
    <2>1. health' \in [Routes -> Health]
      BY <1>9, ErrorTyped DEF InvokeAmbiguous, TypeOK, Ticket
    <2>2. ticket' \in [Calls -> Ticket]
      BY <1>9, OutcomeTyped DEF InvokeAmbiguous, TicketStates, Phases
    <2>3. flight' \subseteq Sends /\ receipts' \subseteq Receipt
      BY <1>9, LandsTyped DEF InvokeAmbiguous
    <2>4. QED
      BY <1>9, <2>1, <2>2, <2>3 DEF InvokeAmbiguous, TypeOK, ledger
  <1>10. ASSUME NEW c \in Calls, NEW n \in 1..MaxSends,
                NEW class \in {"authentication", "ambiguous"}, InvokeRaised(c, n, class)
         PROVE  TypeOK'
    <2>1. health' \in [Routes -> Health]
      BY <1>10, ErrorTyped DEF InvokeRaised, TypeOK, Ticket
    <2>2. ticket' \in [Calls -> Ticket]
      BY <1>10, OutcomeTyped DEF InvokeRaised, TicketStates, Phases
    <2>3. flight' \subseteq Sends /\ receipts' \subseteq Receipt
      BY <1>10, LandsTyped DEF InvokeRaised
    <2>4. QED
      BY <1>10, <2>1, <2>2, <2>3 DEF InvokeRaised, TypeOK, ledger
  <1>11. ASSUME NEW c \in Calls, NEW n \in 1..MaxSends,
                NEW class \in {"authentication", "ambiguous"}, InvokeRaisedSettled(c, n, class)
         PROVE  TypeOK'
    <2>1. health' \in [Routes -> Health]
      BY <1>11, ErrorTyped DEF InvokeRaisedSettled, TypeOK, Ticket
    <2>2. Release(c, "released") /\ "released" \in TicketStates
      BY <1>11 DEF InvokeRaisedSettled, TicketStates
    <2>3. QED
      BY <1>11, <2>1, <2>2, ReleaseTypeOK DEF InvokeRaisedSettled, Release, TypeOK
  <1>12. ASSUME NEW c \in Calls, NEW n \in 1..MaxSends, InvokeCancelled(c, n) PROVE TypeOK'
    BY <1>12 DEF InvokeCancelled, TypeOK, ledger
  <1>13. ASSUME NEW x \in receipts, NEW observed \in 0..MaxObserved, Reconcile(x, observed)
         PROVE  TypeOK'
    <2>1. /\ x.call \in Calls /\ x.send \in 1..MaxSends /\ x.usage \in BOOLEAN
          /\ Settle(x.call, x.send, x.usage, observed)
      BY <1>13 DEF Reconcile, TypeOK, Receipt
    <2>2. ticket' \in [Calls -> Ticket]
      BY <1>13, <2>1 DEF Reconcile, TypeOK, Ticket, TicketStates, Phases
    <2>3. reused' \subseteq Calls
      BY <1>13, <2>1 DEF Reconcile, Reused, TypeOK
    <2>4. QED
      BY <1>13, <2>1, <2>2, <2>3, SettleTypeOK DEF Reconcile, TypeOK
  <1>14. ASSUME NEW b \in Buckets, WindowEnds(b) PROVE TypeOK'
    BY <1>14 DEF WindowEnds, TypeOK
  <1>15. ASSUME NEW r \in Routes, OpenForElapses(r) PROVE TypeOK'
    BY <1>15 DEF OpenForElapses, TypeOK, Health, ledger
  <1>16. CASE UNCHANGED vars
    BY <1>16 DEF vars, ledger, TypeOK
  <1>17. QED
    BY <1>1, <1>2, <1>3, <1>4, <1>5, <1>6, <1>7, <1>8, <1>9, <1>10, <1>11, <1>12, <1>13,
       <1>14, <1>15, <1>16 DEF Next

(* Every reachable state of the broker is well formed, and no bucket counts below    *)
(* zero, however often a ticket is released or settled.                             *)
THEOREM BrokerTypeCorrect == Spec => []TypeOK
  BY InitTypeOK, NextTypeOK, PTL DEF Spec

--------------------------------------------------------------------------------
(* The ledger's books balance.                                                     *)

(* Giving holds back without charging keeps the books balanced. *)
LEMMA GiveBackShrinks ==
    ASSUME TypeOK, NEW c \in Calls, reserved' = GiveBack(c), remaining' = remaining,
           HoldsFitRemaining
    PROVE  HoldsFitRemaining'
  <1> SUFFICES ASSUME NEW b \in Buckets \ Unobserved
               PROVE  reserved'[b] <= remaining'[b] /\ remaining'[b] <= Limit[b]
    BY DEF HoldsFitRemaining
  <1>1. Amount(c, b) \in Nat /\ reserved[b] \in Nat /\ reserved[b] <= remaining[b]
        /\ remaining[b] \in Nat /\ remaining[b] <= Limit[b]
    BY AmountIsPositive DEF TypeOK, HoldsFitRemaining
  <1>2. reserved'[b] = IF b \in Held(c) THEN AtLeast(0, reserved[b] - Amount(c, b))
                       ELSE reserved[b]
    BY DEF GiveBack
  <1>3. QED
    BY <1>1, <1>2, BrokerAssumption DEF AtLeast

(* A settlement charges at most what it gives back, so the rest still fits. *)
LEMMA SettleBalances ==
    ASSUME TypeOK, NEW c \in Calls, NEW n, NEW usage \in BOOLEAN, NEW observed \in 0..MaxObserved,
           Settle(c, n, usage, observed), HoldsFitRemaining
    PROVE  HoldsFitRemaining'
  <1> SUFFICES ASSUME NEW b \in Buckets \ Unobserved
               PROVE  reserved'[b] <= remaining'[b] /\ remaining'[b] <= Limit[b]
    BY DEF HoldsFitRemaining
  <1> DEFINE charge == Charge(c, b, usage, observed)
  <1>1. /\ Amount(c, b) \in Nat /\ charge \in Nat /\ charge <= Amount(c, b)
        /\ reserved[b] \in Nat /\ remaining[b] \in Nat /\ Limit[b] \in Nat
        /\ reserved[b] <= remaining[b] /\ remaining[b] <= Limit[b]
    BY AmountIsPositive, ChargeFitsAmount, BrokerAssumption DEF TypeOK, HoldsFitRemaining
  <1>2. CASE b \notin Held(c)
    BY <1>1, <1>2 DEF Settle, GiveBack
  <1>3. CASE b \in Held(c)
    <2>1. /\ reserved'[b] = AtLeast(0, reserved[b] - Amount(c, b))
          /\ remaining'[b] = AtLeast(0, remaining[b] - charge)
      BY <1>3 DEF Settle, GiveBack
    <2> HIDE DEF charge
    <2>2. QED
      BY <1>1, <2>1 DEF AtLeast
  <1>4. QED
    BY <1>2, <1>3

(* The holds fit what is left of their bucket: the comparison in the preflight, the   *)
(* charge that never exceeds the hold, and the reset that drops every hold together   *)
(* with the charges, are what keeps it.                                              *)
LEMMA HoldsStep == TypeOK /\ HoldsFitRemaining /\ [Next]_vars => HoldsFitRemaining'
  <1> SUFFICES ASSUME TypeOK, HoldsFitRemaining, [Next]_vars PROVE HoldsFitRemaining'
    OBVIOUS
  <1>0. ASSUME remaining' = remaining, reserved' = reserved PROVE HoldsFitRemaining'
    BY <1>0 DEF HoldsFitRemaining
  <1>1. ASSUME NEW c \in Calls, NEW r \in Routes, NEW late, Reserve(c, r, late) PROVE HoldsFitRemaining'
    <2> SUFFICES ASSUME NEW b \in Buckets \ Unobserved
                 PROVE  reserved'[b] <= remaining'[b] /\ remaining'[b] <= Limit[b]
      BY DEF HoldsFitRemaining
    <2>1. /\ Amount(c, b) \in Nat /\ Amount(c, b) > 0
          /\ reserved[b] \in Nat /\ remaining[b] \in Nat /\ Limit[b] \in Nat
          /\ reserved[b] <= remaining[b] /\ remaining[b] <= Limit[b]
      BY AmountIsPositive, BrokerAssumption DEF TypeOK, HoldsFitRemaining
    <2>2. CASE b \notin Charged(c, r) \cup late
      BY <1>1, <2>1, <2>2 DEF Reserve, Reset
    <2>3. CASE b \in late
      BY <1>1, <2>1, <2>3 DEF Reserve, Reset
    <2>4. CASE b \in Charged(c, r) \ late
      <3>1. Effective(b) >= Amount(c, b)
        BY <1>1, <2>4 DEF Reserve, Admits
      <3>2. reserved'[b] = ReservedNow(b) + Amount(c, b) /\ remaining'[b] = RemainingNow(b)
        BY <1>1, <2>4 DEF Reserve, Reset
      <3>3. QED
        BY <2>1, <3>1, <3>2 DEF Effective, AtLeast, ReservedNow, RemainingNow
    <2>5. QED
      BY <2>2, <2>3, <2>4
  <1>2. ASSUME NEW c \in Calls, NEW r \in Routes, ReserveDenied(c, r) PROVE HoldsFitRemaining'
    BY <1>2, BrokerAssumption
       DEF ReserveDenied, Reset, TypeOK, HoldsFitRemaining, ReservedNow, RemainingNow
  <1>3. ASSUME NEW c \in Calls, NEW state, Release(c, state) PROVE HoldsFitRemaining'
    BY <1>3, GiveBackShrinks DEF Release
  <1>4. ASSUME NEW c \in Calls, NEW n \in 1..MaxSends, NEW class, NEW usage \in BOOLEAN,
               NEW observed \in 0..MaxObserved, InvokeAnswered(c, n, class, usage, observed)
        PROVE  HoldsFitRemaining'
    BY <1>4, SettleBalances DEF InvokeAnswered
  <1>5. ASSUME NEW x \in receipts, NEW observed \in 0..MaxObserved, Reconcile(x, observed)
        PROVE  HoldsFitRemaining'
    <2>1. x.call \in Calls /\ x.usage \in BOOLEAN
      BY DEF TypeOK, Receipt
    <2>2. QED
      BY <1>5, <2>1, SettleBalances DEF Reconcile
  <1>6. ASSUME NEW c \in Calls, ExpireUnsent(c) \/ InvokeExpired(c) PROVE HoldsFitRemaining'
    BY <1>3, <1>6 DEF ExpireUnsent, InvokeExpired
  <1>7. ASSUME NEW c \in Calls, NEW n, NEW class, InvokeRaisedSettled(c, n, class)
        PROVE  HoldsFitRemaining'
    BY <1>3, <1>7 DEF InvokeRaisedSettled
  <1>8. ASSUME NEW c \in Calls, InvokeSend(c) \/ TicketExpires(c) PROVE HoldsFitRemaining'
    BY <1>0, <1>8 DEF InvokeSend, TicketExpires, ledger
  <1>9. ASSUME NEW c \in Calls, NEW n, NEW class, NEW usage,
               InvokeAmbiguous(c, n, usage) \/ InvokeRaised(c, n, class) \/ InvokeCancelled(c, n)
        PROVE  HoldsFitRemaining'
    BY <1>0, <1>9 DEF InvokeAmbiguous, InvokeRaised, InvokeCancelled, ledger
  <1>10. ASSUME NEW c, NEW S, Assess(c, S) PROVE HoldsFitRemaining'
    BY <1>0, <1>10 DEF Assess, ledger
  <1>11. ASSUME NEW b, WindowEnds(b) PROVE HoldsFitRemaining'
    BY <1>0, <1>11 DEF WindowEnds
  <1>12. ASSUME NEW r, OpenForElapses(r) PROVE HoldsFitRemaining'
    BY <1>0, <1>12 DEF OpenForElapses, ledger
  <1>13. CASE UNCHANGED vars
    BY <1>0, <1>13 DEF vars, ledger
  <1>14. QED
    BY <1>1, <1>2, <1>4, <1>5, <1>6, <1>7, <1>8, <1>9, <1>10, <1>11, <1>12, <1>13 DEF Next

(* Whatever callers do with tickets, receipts and expiry, and whenever windows end,  *)
(* no bucket promises more than it has left, nor has more left than its limit.       *)
THEOREM LedgerBalances == Spec => []HoldsFitRemaining
  <1>1. Init => HoldsFitRemaining
    BY BrokerAssumption DEF Init, HoldsFitRemaining
  <1>2. QED
    BY <1>1, HoldsStep, BrokerTypeCorrect, PTL DEF Spec

--------------------------------------------------------------------------------
(* The circuit breaker.                                                            *)

(* Errors, successes and the half-open reset of one circuit, in isolation. *)
LEMMA CircuitStep == TypeOK /\ CircuitTellsFailures /\ [Next]_vars => CircuitTellsFailures'
  <1> SUFFICES ASSUME TypeOK, CircuitTellsFailures, [Next]_vars PROVE CircuitTellsFailures'
    OBVIOUS
  <1>0. ASSUME health' = health PROVE CircuitTellsFailures'
    BY <1>0 DEF CircuitTellsFailures
  <1>1. ASSUME NEW r \in Routes, NEW class, RecordError(r, class) PROVE CircuitTellsFailures'
    <2> SUFFICES ASSUME NEW q \in Routes
                 PROVE  /\ health'[q].fails >= FailureThreshold => health'[q].opened # "closed"
                        /\ health'[q].opened # "closed" => health'[q].fails > 0
      BY DEF CircuitTellsFailures
    <2>1. health'[q] = IF q = r THEN AfterError(health[r], class) ELSE health[q]
      BY <1>1 DEF RecordError, TypeOK
    <2>2. health[q] \in Health
      BY DEF TypeOK
    <2>3. QED
      BY <2>1, <2>2, BrokerAssumption DEF AfterError, CircuitTellsFailures, Health
  <1>2. ASSUME NEW r \in Routes, RecordSuccess(r) PROVE CircuitTellsFailures'
    BY <1>2, BrokerAssumption DEF RecordSuccess, CircuitTellsFailures, TypeOK
  <1>3. ASSUME NEW S, AssertClosed(S) PROVE CircuitTellsFailures'
    BY <1>3, BrokerAssumption DEF AssertClosed, CircuitTellsFailures, TypeOK
  <1>4. ASSUME NEW c \in Calls PROVE ticket[c].route \in Routes
    BY DEF TypeOK, Ticket
  <1>5. ASSUME NEW c \in Calls, NEW r, NEW late,
               Reserve(c, r, late) \/ ReserveDenied(c, r)
        PROVE  CircuitTellsFailures'
    BY <1>3, <1>5 DEF Reserve, ReserveDenied
  <1>6. ASSUME NEW c, NEW S, Assess(c, S) PROVE CircuitTellsFailures'
    BY <1>3, <1>6 DEF Assess
  <1>7. ASSUME NEW c \in Calls, NEW n, NEW class, NEW usage, NEW observed,
               InvokeAnswered(c, n, class, usage, observed)
        PROVE  CircuitTellsFailures'
    BY <1>2, <1>4, <1>7 DEF InvokeAnswered
  <1>8. ASSUME NEW c \in Calls, NEW n, NEW class, NEW usage,
               \/ InvokeAmbiguous(c, n, usage)
               \/ InvokeRaised(c, n, class)
               \/ InvokeRaisedSettled(c, n, class)
        PROVE  CircuitTellsFailures'
    BY <1>1, <1>4, <1>8 DEF InvokeAmbiguous, InvokeRaised, InvokeRaisedSettled
  <1>9. ASSUME NEW c \in Calls, \/ ExpireUnsent(c) \/ InvokeExpired(c) \/ InvokeSend(c)
                                \/ TicketExpires(c)
        PROVE  CircuitTellsFailures'
    BY <1>0, <1>9 DEF ExpireUnsent, InvokeExpired, InvokeSend, TicketExpires
  <1>10. ASSUME NEW c, NEW n, InvokeCancelled(c, n) PROVE CircuitTellsFailures'
    BY <1>0, <1>10 DEF InvokeCancelled
  <1>11. ASSUME NEW x, NEW observed, Reconcile(x, observed) PROVE CircuitTellsFailures'
    BY <1>0, <1>11 DEF Reconcile
  <1>12. ASSUME NEW b, WindowEnds(b) PROVE CircuitTellsFailures'
    BY <1>0, <1>12 DEF WindowEnds
  <1>13. ASSUME NEW r \in Routes, OpenForElapses(r) PROVE CircuitTellsFailures'
    BY <1>13 DEF OpenForElapses, CircuitTellsFailures, TypeOK, Health
  <1>14. CASE UNCHANGED vars
    BY <1>0, <1>14 DEF vars
  <1>15. QED
    BY <1>5, <1>6, <1>7, <1>8, <1>9, <1>10, <1>11, <1>12, <1>13, <1>14 DEF Next

(* Stamp and failure count of a circuit agree, in whatever order calls admitted      *)
(* before and after it opened report.                                               *)
THEOREM CircuitIsCoherent == Spec => []CircuitTellsFailures
  <1>1. Init => CircuitTellsFailures
    BY BrokerAssumption DEF Init, CircuitTellsFailures
  <1>2. QED
    BY <1>1, CircuitStep, BrokerTypeCorrect, PTL DEF Spec

--------------------------------------------------------------------------------
(* Settlement keys.                                                                *)

(* A send, from its flight over its receipt to its key, belongs to an admitted       *)
(* ticket and has a number the ticket gave out; a send in flight has left neither    *)
(* receipt nor key.  EveryKeyChargesOnce needs it: an answer must bring a new key,   *)
(* and the route of a ticket with a key must not change.                            *)
SendInv ==
    /\ IsFiniteSet(keys)
    /\ \A k \in flight \cup keys :
          ticket[k[1]].state # "none" /\ k[2] <= ticket[k[1]].sends
    /\ \A x \in receipts :
          /\ ticket[x.call].state # "none" /\ x.send <= ticket[x.call].sends
          /\ <<x.call, x.send>> \notin flight
    /\ flight \cap keys = {}

(* Tickets are never withdrawn, and number their sends upwards. *)
TicketsGrow == \A c \in Calls : ticket[c].state # "none" =>
                   /\ ticket'[c].state # "none" /\ ticket'[c].route = ticket[c].route
                   /\ ticket[c].sends <= ticket'[c].sends

(* SendInv survives a step that uses no key, leaves no receipt and sends nothing. *)
LEMMA SendInvKept ==
    ASSUME TypeOK, SendInv, TicketsGrow, ticket' \in [Calls -> Ticket],
           flight' \subseteq flight, keys' = keys, receipts' = receipts
    PROVE  SendInv'
  <1>1. \A k \in flight \cup keys : k[1] \in Calls /\ k[2] \in Nat
    BY DEF TypeOK, Sends
  <1>2. \A x \in receipts : x.call \in Calls /\ x.send \in Nat
    BY DEF TypeOK, Receipt
  <1>3. \A c \in Calls : ticket[c].sends \in Nat /\ ticket'[c].sends \in Nat
    BY BrokerAssumption DEF TypeOK, Ticket
  <1>4. \A k \in flight \cup keys : ticket'[k[1]].state # "none" /\ k[2] <= ticket'[k[1]].sends
    BY <1>1, <1>3 DEF SendInv, TicketsGrow
  <1>5. \A x \in receipts : ticket'[x.call].state # "none" /\ x.send <= ticket'[x.call].sends
    <2> TAKE x \in receipts
    <2>1. ticket[x.call].state # "none" /\ x.send <= ticket[x.call].sends
      BY DEF SendInv
    <2>2. ticket'[x.call].state # "none" /\ ticket[x.call].sends <= ticket'[x.call].sends
      BY <1>2, <2>1 DEF TicketsGrow
    <2>3. x.send \in Nat /\ ticket[x.call].sends \in Nat /\ ticket'[x.call].sends \in Nat
      BY <1>2, <1>3
    <2>4. QED
      BY <2>1, <2>2, <2>3
  <1>6. QED
    BY <1>4, <1>5 DEF SendInv

(* The books of a step that uses no key. *)
LEMMA KeysKept ==
    ASSUME TypeOK, SendInv, TicketsGrow, EveryKeyChargesOnce,
           keys' = keys, settled' = settled
    PROVE  EveryKeyChargesOnce'
  <1> SUFFICES ASSUME NEW b \in Buckets, Dimension[b] \notin TokenDimensions
               PROVE  settled[b] = Cardinality({k \in keys : b \in Held(k[1])'})
    BY DEF EveryKeyChargesOnce
  <1>1. \A k \in keys : Held(k[1])' = Held(k[1])
    BY DEF TypeOK, Sends, SendInv, TicketsGrow, Held, Charged
  <1>2. {k \in keys : b \in Held(k[1])'} = {k \in keys : b \in Held(k[1])}
    BY <1>1
  <1>3. QED
    BY <1>2 DEF EveryKeyChargesOnce

(* The books of a settlement under a new key. *)
LEMMA KeyAdded ==
    ASSUME TypeOK, SendInv, TicketsGrow, EveryKeyChargesOnce,
           NEW c \in Calls, NEW n \in 1..MaxSends, NEW usage, NEW observed,
           Settle(c, n, usage, observed), <<c, n>> \notin keys, ticket[c].state # "none"
    PROVE  EveryKeyChargesOnce' /\ IsFiniteSet(keys')
  <1>0. IsFiniteSet(keys') /\ keys' = keys \cup {<<c, n>>}
    BY FS_AddElement DEF Settle, SendInv
  <1> SUFFICES ASSUME NEW b \in Buckets, Dimension[b] \notin TokenDimensions
               PROVE  settled'[b] = Cardinality({k \in keys' : b \in Held(k[1])'})
    BY <1>0 DEF EveryKeyChargesOnce
  <1> DEFINE old == {k \in keys : b \in Held(k[1])}
  <1>1. \A k \in keys : Held(k[1])' = Held(k[1])
    BY DEF TypeOK, Sends, SendInv, TicketsGrow, Held, Charged
  <1>2. Held(c)' = Held(c)
    BY DEF TicketsGrow, Held, Charged
  <1>3. IsFiniteSet(old) /\ settled[b] = Cardinality(old)
    BY FS_Subset DEF SendInv, EveryKeyChargesOnce
  <1>4. CASE b \in Held(c)
    <2>1. {k \in keys' : b \in Held(k[1])'} = old \cup {<<c, n>>}
      BY <1>0, <1>1, <1>2, <1>4
    <2>2. Cardinality(old \cup {<<c, n>>}) = Cardinality(old) + 1
      BY <1>3, FS_AddElement
    <2>3. settled'[b] = settled[b] + 1
      BY <1>4 DEF Settle, Charge, Amount, TokenDimensions
    <2>4. QED
      BY <1>3, <2>1, <2>2, <2>3
  <1>5. CASE b \notin Held(c)
    <2>1. {k \in keys' : b \in Held(k[1])'} = old
      BY <1>0, <1>1, <1>2, <1>5
    <2>2. settled'[b] = settled[b]
      BY <1>5 DEF Settle
    <2>3. QED
      BY <1>3, <2>1, <2>2
  <1>6. QED
    BY <1>4, <1>5

(* No step withdraws a ticket. *)
LEMMA TicketsOnlyGrow == TypeOK /\ [Next]_vars => TicketsGrow
  <1> SUFFICES ASSUME TypeOK, [Next]_vars PROVE TicketsGrow
    OBVIOUS
  <1>0. ASSUME ticket' = ticket PROVE TicketsGrow
    BY <1>0, BrokerAssumption DEF TicketsGrow, TypeOK, Ticket
  <1>1. ASSUME NEW c \in Calls, NEW state \in TicketStates \ {"none"}, NEW phase,
               ticket' = [ticket EXCEPT ![c].state = state, ![c].phase = phase]
        PROVE  TicketsGrow
    BY <1>1, BrokerAssumption DEF TicketsGrow, TypeOK, Ticket
  <1>2. ASSUME NEW c \in Calls, NEW state \in TicketStates \ {"none"}, Release(c, state)
        PROVE  TicketsGrow
    BY <1>2, BrokerAssumption DEF Release, TicketsGrow, TypeOK, Ticket
  <1>3. ASSUME NEW c \in Calls, NEW r \in Routes, NEW late, Reserve(c, r, late) PROVE TicketsGrow
    BY <1>3, BrokerAssumption DEF Reserve, TicketsGrow, TypeOK, Ticket
  <1>4. ASSUME NEW c \in Calls, InvokeSend(c) \/ TicketExpires(c) PROVE TicketsGrow
    <2> SUFFICES ASSUME NEW d \in Calls
                 PROVE  /\ ticket'[d].state = ticket[d].state /\ ticket'[d].route = ticket[d].route
                        /\ ticket[d].sends <= ticket'[d].sends
      BY DEF TicketsGrow
    <2>1. ticket[d].sends \in Nat /\ ticket[d] \in Ticket
      BY BrokerAssumption DEF TypeOK, Ticket
    <2>2. CASE InvokeSend(c)
      BY <2>1, <2>2 DEF InvokeSend, TypeOK, Ticket
    <2>3. CASE TicketExpires(c)
      BY <2>1, <2>3 DEF TicketExpires, TypeOK, Ticket
    <2>4. QED
      BY <1>4, <2>2, <2>3
  <1>5. ASSUME NEW c \in Calls, ExpireUnsent(c) \/ InvokeExpired(c) PROVE TicketsGrow
    BY <1>2, <1>5 DEF ExpireUnsent, InvokeExpired, TicketStates
  <1>6. ASSUME NEW c \in Calls, NEW n, NEW class, InvokeRaisedSettled(c, n, class)
        PROVE  TicketsGrow
    BY <1>2, <1>6 DEF InvokeRaisedSettled, TicketStates
  <1>7. ASSUME NEW c \in Calls, NEW n, NEW class, NEW usage, NEW observed,
               \/ InvokeAnswered(c, n, class, usage, observed) \/ InvokeAmbiguous(c, n, usage)
               \/ InvokeRaised(c, n, class)
        PROVE  TicketsGrow
    BY <1>1, <1>7 DEF InvokeAnswered, InvokeAmbiguous, InvokeRaised, TicketStates
  <1>8. ASSUME NEW x \in receipts, NEW observed, Reconcile(x, observed) PROVE TicketsGrow
    <2>1. x.call \in Calls
      BY DEF TypeOK, Receipt
    <2>2. QED
      BY <1>1, <1>8, <2>1 DEF Reconcile, TicketStates
  <1>9. ASSUME NEW c, NEW r, NEW S, NEW n, NEW b,
               \/ Assess(c, S) \/ ReserveDenied(c, r) \/ InvokeCancelled(c, n)
               \/ WindowEnds(b) \/ OpenForElapses(r)
        PROVE  TicketsGrow
    BY <1>0, <1>9 DEF Assess, ReserveDenied, InvokeCancelled, WindowEnds, OpenForElapses
  <1>10. CASE UNCHANGED vars
    BY <1>0, <1>10 DEF vars
  <1>11. QED
    BY <1>3, <1>4, <1>5, <1>6, <1>7, <1>8, <1>9, <1>10 DEF Next

(* A receipt of a send that was in flight; keys may get that send's key. *)
LEMMA LandsKeeps ==
    ASSUME TypeOK, SendInv, TicketsGrow, ticket' \in [Calls -> Ticket],
           NEW c \in Calls, NEW n \in 1..MaxSends, NEW usage, NEW class,
           Lands(c, n, [call |-> c, send |-> n, class |-> class, usage |-> usage]),
           IsFiniteSet(keys'), keys' \subseteq keys \cup {<<c, n>>}
    PROVE  SendInv'
  <1>1. \A k \in flight \cup keys : k[1] \in Calls /\ k[2] \in Nat
    BY DEF TypeOK, Sends
  <1>2. \A d \in Calls : ticket[d].sends \in Nat /\ ticket'[d].sends \in Nat
    BY BrokerAssumption DEF TypeOK, Ticket
  <1>3. \A k \in flight \cup keys : ticket'[k[1]].state # "none" /\ k[2] <= ticket'[k[1]].sends
    BY <1>1, <1>2 DEF SendInv, TicketsGrow
  <1>4. <<c, n>> \in flight /\ flight' = flight \ {<<c, n>>}
    BY DEF Lands
  <1>5. ASSUME NEW x \in receipts
        PROVE  /\ ticket'[x.call].state # "none" /\ x.send <= ticket'[x.call].sends
               /\ <<x.call, x.send>> \notin flight'
    <2>1. /\ ticket[x.call].state # "none" /\ x.send <= ticket[x.call].sends
          /\ <<x.call, x.send>> \notin flight
      BY DEF SendInv
    <2>2. x.call \in Calls /\ x.send \in Nat
      BY DEF TypeOK, Receipt
    <2>3. ticket'[x.call].state # "none" /\ ticket[x.call].sends <= ticket'[x.call].sends
      BY <2>1, <2>2 DEF TicketsGrow
    <2>4. ticket[x.call].sends \in Nat /\ ticket'[x.call].sends \in Nat
      BY <1>2, <2>2
    <2>5. QED
      BY <1>4, <2>1, <2>2, <2>3, <2>4
  <1>6. ticket'[c].state # "none" /\ n <= ticket'[c].sends /\ <<c, n>> \notin flight'
    BY <1>3, <1>4
  <1>7. \A x \in receipts' : \/ x \in receipts
                             \/ x.call = c /\ x.send = n
    BY DEF Lands
  <1>8. \A x \in receipts' : /\ ticket'[x.call].state # "none" /\ x.send <= ticket'[x.call].sends
                             /\ <<x.call, x.send>> \notin flight'
    BY <1>5, <1>6, <1>7
  <1>9. \A k \in flight' \cup keys' :
            ticket'[k[1]].state # "none" /\ k[2] <= ticket'[k[1]].sends
    BY <1>3, <1>4
  <1>10. flight' \cap keys' = {}
    BY <1>4 DEF SendInv
  <1>11. QED
    BY <1>8, <1>9, <1>10 DEF SendInv

(* Both invariants together: one step per action that moves a send. *)
LEMMA SendStep ==
    TypeOK /\ SendInv /\ EveryKeyChargesOnce /\ [Next]_vars => (SendInv /\ EveryKeyChargesOnce)'
  <1> SUFFICES ASSUME TypeOK, SendInv, EveryKeyChargesOnce, [Next]_vars
               PROVE  SendInv' /\ EveryKeyChargesOnce'
    OBVIOUS
  <1> USE TicketsOnlyGrow, NextTypeOK
  <1>a. TicketsGrow /\ ticket' \in [Calls -> Ticket]
    BY DEF TypeOK
  <1>0. ASSUME flight' \subseteq flight, keys' = keys, receipts' = receipts, settled' = settled
        PROVE  SendInv' /\ EveryKeyChargesOnce'
    BY <1>0, <1>a, SendInvKept, KeysKept
  <1>1. ASSUME NEW c \in Calls, InvokeSend(c) PROVE SendInv' /\ EveryKeyChargesOnce'
    <2> DEFINE n == ticket[c].sends + 1
    <2>1. /\ flight' = flight \cup {<<c, n>>} /\ keys' = keys /\ receipts' = receipts
          /\ settled' = settled /\ ticket[c].state # "none"
      BY <1>1 DEF InvokeSend, ledger
    <2>2. ticket[c].sends \in Nat /\ ticket'[c].sends = n /\ ticket'[c].state # "none"
      BY <1>1, <1>a, BrokerAssumption DEF InvokeSend, TypeOK, Ticket, TicketsGrow
    <2>3. <<c, n>> \notin keys
      BY <2>2 DEF SendInv
    <2>4. ASSUME NEW x \in receipts, x.call = c PROVE x.send # n
      <3>1. x.send \in Nat
        BY DEF TypeOK, Receipt
      <3>2. x.send <= ticket[x.call].sends
        BY DEF SendInv
      <3>3. QED
        BY <2>2, <2>4, <3>1, <3>2
    <2>5. \A k \in flight \cup keys : k[1] \in Calls /\ k[2] \in Nat
      BY DEF TypeOK, Sends
    <2>6. \A d \in Calls : ticket[d].sends \in Nat /\ ticket'[d].sends \in Nat
      BY <1>a, BrokerAssumption DEF TypeOK, Ticket
    <2>7. \A k \in flight' \cup keys' :
              ticket'[k[1]].state # "none" /\ k[2] <= ticket'[k[1]].sends
      BY <1>a, <2>1, <2>2, <2>5, <2>6 DEF SendInv, TicketsGrow
    <2>8. ASSUME NEW x \in receipts
          PROVE  /\ ticket'[x.call].state # "none" /\ x.send <= ticket'[x.call].sends
                 /\ <<x.call, x.send>> \notin flight'
      <3>1. /\ ticket[x.call].state # "none" /\ x.send <= ticket[x.call].sends
            /\ <<x.call, x.send>> \notin flight
        BY DEF SendInv
      <3>2. x.call \in Calls /\ x.send \in Nat
        BY DEF TypeOK, Receipt
      <3>3. ticket'[x.call].state # "none" /\ ticket[x.call].sends <= ticket'[x.call].sends
        BY <1>a, <3>1, <3>2 DEF TicketsGrow
      <3>4. ticket[x.call].sends \in Nat /\ ticket'[x.call].sends \in Nat
        BY <2>6, <3>2
      <3>5. <<x.call, x.send>> # <<c, n>>
        BY <2>4
      <3>6. QED
        BY <2>1, <3>1, <3>2, <3>3, <3>4, <3>5
    <2>9. SendInv'
      BY <2>1, <2>3, <2>7, <2>8 DEF SendInv
    <2>10. EveryKeyChargesOnce'
      BY <1>a, <2>1, KeysKept
    <2>11. QED
      BY <2>9, <2>10
  <1>2. ASSUME NEW c \in Calls, NEW n \in 1..MaxSends, NEW class, NEW usage, NEW observed,
               InvokeAnswered(c, n, class, usage, observed)
        PROVE  SendInv' /\ EveryKeyChargesOnce'
    <2>1. /\ Settle(c, n, usage, observed)
          /\ Lands(c, n, [call |-> c, send |-> n, class |-> class, usage |-> usage])
      BY <1>2 DEF InvokeAnswered
    <2>2. <<c, n>> \in flight /\ keys' = keys \cup {<<c, n>>}
      BY <2>1 DEF Lands, Settle
    <2>3. <<c, n>> \notin keys /\ ticket[c].state # "none"
      BY <2>2 DEF SendInv
    <2>4. EveryKeyChargesOnce' /\ IsFiniteSet(keys')
      BY <1>a, <2>1, <2>3, KeyAdded
    <2>5. SendInv'
      BY <1>a, <2>1, <2>2, <2>4, LandsKeeps
    <2>6. QED
      BY <2>4, <2>5
  <1>3. ASSUME NEW c \in Calls, NEW n \in 1..MaxSends, NEW class, NEW usage,
               InvokeAmbiguous(c, n, usage) \/ InvokeRaised(c, n, class)
        PROVE  SendInv' /\ EveryKeyChargesOnce'
    <2>1. keys' = keys /\ settled' = settled /\ IsFiniteSet(keys')
      BY <1>3 DEF InvokeAmbiguous, InvokeRaised, ledger, SendInv
    <2>2. PICK k, u : Lands(c, n, [call |-> c, send |-> n, class |-> k, usage |-> u])
      BY <1>3 DEF InvokeAmbiguous, InvokeRaised
    <2>3. SendInv'
      BY <1>a, <2>1, <2>2, LandsKeeps
    <2>4. QED
      BY <1>a, <2>1, <2>3, KeysKept
  <1>4. ASSUME NEW x \in receipts, NEW observed, Reconcile(x, observed)
        PROVE  SendInv' /\ EveryKeyChargesOnce'
    <2>1. x.call \in Calls /\ x.send \in 1..MaxSends
      BY DEF TypeOK, Receipt
    <2>2. /\ Settle(x.call, x.send, x.usage, observed) /\ <<x.call, x.send>> \notin keys
          /\ flight' = flight /\ receipts' = receipts /\ keys' = keys \cup {<<x.call, x.send>>}
      BY <1>4 DEF Reconcile, Unsettled, Settle
    <2>3. /\ ticket[x.call].state # "none" /\ x.send <= ticket[x.call].sends
          /\ <<x.call, x.send>> \notin flight
      BY DEF SendInv
    <2>4. EveryKeyChargesOnce' /\ IsFiniteSet(keys')
      BY <1>a, <2>1, <2>2, <2>3, KeyAdded
    <2>5. \A k \in flight \cup keys : k[1] \in Calls /\ k[2] \in Nat
      BY DEF TypeOK, Sends
    <2>6. \A d \in Calls : ticket[d].sends \in Nat /\ ticket'[d].sends \in Nat
      BY <1>a, BrokerAssumption DEF TypeOK, Ticket
    <2>7. ASSUME NEW y \in receipts
          PROVE  ticket'[y.call].state # "none" /\ y.send <= ticket'[y.call].sends
      <3>1. ticket[y.call].state # "none" /\ y.send <= ticket[y.call].sends
        BY DEF SendInv
      <3>2. y.call \in Calls /\ y.send \in Nat
        BY DEF TypeOK, Receipt
      <3>3. ticket'[y.call].state # "none" /\ ticket[y.call].sends <= ticket'[y.call].sends
        BY <1>a, <3>1, <3>2 DEF TicketsGrow
      <3>4. ticket[y.call].sends \in Nat /\ ticket'[y.call].sends \in Nat
        BY <2>6, <3>2
      <3>5. QED
        BY <3>1, <3>2, <3>3, <3>4
    <2>8. \A k \in flight \cup keys : ticket'[k[1]].state # "none" /\ k[2] <= ticket'[k[1]].sends
      BY <1>a, <2>5, <2>6 DEF SendInv, TicketsGrow
    <2>9. SendInv'
      BY <2>2, <2>3, <2>4, <2>7, <2>8 DEF SendInv
    <2>10. QED
      BY <2>4, <2>9
  <1>5. ASSUME NEW c \in Calls, NEW n, NEW class,
               \/ ExpireUnsent(c) \/ InvokeExpired(c) \/ TicketExpires(c)
               \/ InvokeRaisedSettled(c, n, class) \/ InvokeCancelled(c, n)
        PROVE  SendInv' /\ EveryKeyChargesOnce'
    BY <1>0, <1>5 DEF ExpireUnsent, InvokeExpired, TicketExpires, InvokeRaisedSettled,
                      InvokeCancelled, Release, ledger
  <1>6. ASSUME NEW c, NEW r, NEW S, NEW b, NEW late,
               \/ Assess(c, S) \/ Reserve(c, r, late) \/ ReserveDenied(c, r)
               \/ WindowEnds(b) \/ OpenForElapses(r)
        PROVE  SendInv' /\ EveryKeyChargesOnce'
    BY <1>0, <1>6 DEF Assess, Reserve, ReserveDenied, WindowEnds, OpenForElapses, ledger
  <1>7. CASE UNCHANGED vars
    BY <1>0, <1>7 DEF vars, ledger
  <1>8. QED
    BY <1>1, <1>2, <1>3, <1>4, <1>5, <1>6, <1>7 DEF Next

(* Every settlement key is charged once, also for a ticket that was sent twice or a  *)
(* receipt that is reconciled long after its call.                                  *)
THEOREM KeysChargeOnce == Spec => []EveryKeyChargesOnce
  <1>1. Init => SendInv
    BY FS_EmptySet DEF Init, SendInv
  <1>2. Init => EveryKeyChargesOnce
    <2> SUFFICES ASSUME Init, NEW b \in Buckets
                 PROVE  settled[b] = Cardinality({k \in keys : b \in Held(k[1])})
      BY DEF EveryKeyChargesOnce
    <2>1. {k \in keys : b \in Held(k[1])} = {} /\ settled[b] = 0
      BY DEF Init
    <2>2. QED
      BY <2>1, FS_EmptySet
  <1>3. QED
    BY <1>1, <1>2, SendStep, BrokerTypeCorrect, PTL DEF Spec

--------------------------------------------------------------------------------
(* The holds are those of the tickets.                                             *)

(* The units of one call are as many as its amount. *)
LEMMA UnitsOfCall ==
    ASSUME NEW c \in Calls, NEW b \in Buckets
    PROVE  /\ IsFiniteSet({c} \X (1..Amount(c, b)))
           /\ Cardinality({c} \X (1..Amount(c, b))) = Amount(c, b)
  <1> DEFINE a == Amount(c, b)
  <1>1. a \in Nat
    BY AmountIsPositive
  <1> HIDE DEF a
  <1>2. IsFiniteSet(1..a) /\ Cardinality(1..a) = a
    BY <1>1, FS_Interval
  <1>3. IsFiniteSet({c}) /\ Cardinality({c}) = 1
    BY FS_Singleton
  <1>4. IsFiniteSet({c} \X (1..a)) /\ Cardinality({c} \X (1..a)) = 1 * a
    BY <1>2, <1>3, FS_Product
  <1>5. QED
    BY <1>1, <1>4 DEF a

(* Another call adds its amount to the holds, and its end takes it away. *)
LEMMA AnotherCall ==
    ASSUME NEW C, NEW c \in Calls, c \notin C, NEW b \in Buckets, IsFiniteSet(Units(C, b))
    PROVE  /\ IsFiniteSet(Units(C \cup {c}, b))
           /\ HoldsOf(C \cup {c}, b) = HoldsOf(C, b) + Amount(c, b)
  <1> DEFINE old == Units(C, b)
             new == {c} \X (1..Amount(c, b))
  <1>1. Units(C \cup {c}, b) = old \cup new
    BY DEF Units
  <1>2. old \cap new = {}
    BY DEF Units
  <1>3. IsFiniteSet(new) /\ Cardinality(new) = Amount(c, b)
    BY UnitsOfCall
  <1>4. Cardinality({}) = 0 /\ Cardinality(old) \in Nat /\ Amount(c, b) \in Nat
    BY FS_EmptySet, FS_CardinalityType, AmountIsPositive
  <1> HIDE DEF old, new
  <1>5. /\ IsFiniteSet(old \cup new)
        /\ Cardinality(old \cup new) = Cardinality(old) + Cardinality(new) - Cardinality(old \cap new)
    BY <1>3, FS_Union DEF old
  <1>6. Cardinality(old \cup new) = Cardinality(old) + Amount(c, b)
    <2>1. Cardinality(old \cap new) = 0
      BY <1>2, <1>4, Zenon
    <2>2. Cardinality(old) \in Nat /\ Cardinality(new) = Amount(c, b) /\ Amount(c, b) \in Nat
      BY <1>3, <1>4
    <2>3. QED
      BY <1>5, <2>1, <2>2
  <1>7. QED
    BY <1>1, <1>5, <1>6 DEF HoldsOf, old

(* The end of a call that is outstanding takes its amount away. *)
LEMMA OneCallLess ==
    ASSUME NEW C, NEW c \in C, c \in Calls, NEW b \in Buckets, IsFiniteSet(Units(C, b))
    PROVE  /\ IsFiniteSet(Units(C \ {c}, b))
           /\ HoldsOf(C \ {c}, b) \in Nat
           /\ HoldsOf(C, b) = HoldsOf(C \ {c}, b) + Amount(c, b)
  <1>1. Units(C \ {c}, b) \subseteq Units(C, b)
    BY DEF Units
  <1>2. IsFiniteSet(Units(C \ {c}, b))
    BY <1>1, FS_Subset
  <1>3. HoldsOf(C \ {c}, b) \in Nat
    BY <1>2, FS_CardinalityType DEF HoldsOf
  <1>4. (C \ {c}) \cup {c} = C
    OBVIOUS
  <1>5. HoldsOf((C \ {c}) \cup {c}, b) = HoldsOf(C \ {c}, b) + Amount(c, b)
    BY <1>2, AnotherCall
  <1>6. QED
    BY <1>2, <1>3, <1>4, <1>5

(* The buckets the property is about. *)
Lasting == Buckets \ (Windowed \cup Unobserved)

(* A call that is in flight has its ticket outstanding and no receipt yet, and is in  *)
(* flight once; receipts are of calls that were sent.                                *)
OneSend ==
    /\ \A s \in flight :
          /\ ticket[s[1]].sent /\ ticket[s[1]].state \in {"open", "unknown"}
          /\ ticket[s[1]].phase \notin {"reserved", "settled"}
          /\ \A x \in receipts : x.call # s[1]
    /\ \A s, t \in flight : s[1] = t[1] => s = t
    /\ \A x \in receipts : ticket[x.call].sent /\ ticket[x.call].state # "none"

Books == \A b \in Lasting : /\ IsFiniteSet(Units(Outstanding(b), b))
                            /\ reserved[b] = HoldsOf(Outstanding(b), b)

HoldInv == reused = {} => OneSend /\ Books

(* The invariant is what the property says, and more. *)
LEMMA HoldInvSays == HoldInv => HoldsAreTheTickets
  BY DEF HoldInv, Books, HoldsAreTheTickets, Lasting

(* A broker without tickets holds nothing. *)
LEMMA HoldInit == Init => HoldInv
  <1> SUFFICES ASSUME Init PROVE OneSend /\ Books
    BY DEF HoldInv
  <1>1. OneSend
    BY DEF Init, OneSend
  <1>2. ASSUME NEW b \in Lasting
        PROVE  IsFiniteSet(Units(Outstanding(b), b)) /\ reserved[b] = HoldsOf(Outstanding(b), b)
    <2>1. Outstanding(b) = {} /\ reserved[b] = 0
      BY DEF Init, Outstanding, Lasting
    <2>2. Units({}, b) = {}
      BY DEF Units
    <2>3. QED
      BY <2>1, <2>2, FS_EmptySet DEF HoldsOf
  <1>3. QED
    BY <1>1, <1>2 DEF Books

(* Steps that move no hold and leave outstanding what was outstanding. *)
LEMMA BooksKept ==
    ASSUME TypeOK, Books, \A b \in Lasting : reserved'[b] = reserved[b],
           \A b \in Lasting : Outstanding(b)' = Outstanding(b)
    PROVE  Books'
  <1>1. \A b \in Lasting : Units(Outstanding(b)', b) = Units(Outstanding(b), b)
    OBVIOUS
  <1>2. QED
    BY <1>1 DEF Books, HoldsOf, Units

(* The end of an outstanding call: its holds are given back and it is outstanding no  *)
(* longer.                                                                          *)
LEMMA BooksClosed ==
    ASSUME TypeOK, Books, NEW c \in Calls, ticket[c].state \in {"open", "unknown"},
           reserved' = GiveBack(c),
           \A d \in Calls \ {c} : ticket'[d].state = ticket[d].state /\ ticket'[d].route = ticket[d].route,
           ticket'[c].state \notin {"open", "unknown"}
    PROVE  Books'
  <1> SUFFICES ASSUME NEW b \in Lasting
               PROVE  /\ IsFiniteSet(Units(Outstanding(b)', b))
                      /\ reserved'[b] = HoldsOf(Outstanding(b)', b)
    BY DEF Books, HoldsOf, Units
  <1>0. IsFiniteSet(Units(Outstanding(b), b)) /\ reserved[b] = HoldsOf(Outstanding(b), b)
        /\ b \in Buckets
    BY DEF Books, Lasting
  <1>1. Outstanding(b)' = Outstanding(b) \ {c}
    BY DEF Outstanding, Held, Charged
  <1>2. CASE b \in Held(c)
    <2>1. c \in Outstanding(b)
      BY <1>2 DEF Outstanding
    <2>2. /\ IsFiniteSet(Units(Outstanding(b) \ {c}, b))
          /\ HoldsOf(Outstanding(b) \ {c}, b) \in Nat
          /\ HoldsOf(Outstanding(b), b) = HoldsOf(Outstanding(b) \ {c}, b) + Amount(c, b)
      BY <1>0, <2>1, OneCallLess
    <2>3. reserved'[b] = AtLeast(0, reserved[b] - Amount(c, b))
      BY <1>0, <1>2 DEF GiveBack
    <2>4. Amount(c, b) \in Nat
      BY <1>0, AmountIsPositive
    <2>5. reserved'[b] = HoldsOf(Outstanding(b) \ {c}, b)
      BY <1>0, <2>2, <2>3, <2>4 DEF AtLeast
    <2>6. QED
      BY <1>1, <2>2, <2>5
  <1>3. CASE b \notin Held(c)
    <2>1. Outstanding(b)' = Outstanding(b)
      BY <1>1, <1>3 DEF Outstanding
    <2>2. reserved'[b] = reserved[b]
      BY <1>0, <1>3 DEF GiveBack
    <2>3. QED
      BY <1>0, <2>1, <2>2
  <1>4. QED
    BY <1>2, <1>3

(* An admission adds its holds to those of the outstanding calls. *)
LEMMA BooksOpened ==
    ASSUME TypeOK, Books, NEW c \in Calls, NEW r \in Routes, NEW late, Reserve(c, r, late)
    PROVE  Books'
  <1> SUFFICES ASSUME NEW b \in Lasting
               PROVE  /\ IsFiniteSet(Units(Outstanding(b)', b))
                      /\ reserved'[b] = HoldsOf(Outstanding(b)', b)
    BY DEF Books, HoldsOf, Units
  <1>0. /\ IsFiniteSet(Units(Outstanding(b), b)) /\ reserved[b] = HoldsOf(Outstanding(b), b)
        /\ b \in Buckets /\ b \notin due /\ b \notin late /\ b \notin Unobserved
    BY DEF Books, Lasting, TypeOK, Reserve
  <1>1. /\ ticket[c].state = "none"
        /\ ticket' = [ticket EXCEPT ![c].state = "open", ![c].route = r]
        /\ ticket \in [Calls -> Ticket]
    BY DEF Reserve, TypeOK
  <1>2. c \notin Outstanding(b)
    BY <1>1 DEF Outstanding
  <1>3. CASE b \in Charged(c, r)
    <2>1. Outstanding(b)' = Outstanding(b) \cup {c}
      BY <1>1, <1>3 DEF Outstanding, Held, Charged, Ticket
    <2>2. reserved'[b] = reserved[b] + Amount(c, b)
      BY <1>0, <1>3 DEF Reserve, ReservedNow
    <2>3. QED
      BY <1>0, <1>2, <2>1, <2>2, AnotherCall
  <1>4. CASE b \notin Charged(c, r)
    <2>1. Outstanding(b)' = Outstanding(b)
      BY <1>1, <1>4 DEF Outstanding, Held, Charged, Ticket
    <2>2. reserved'[b] = reserved[b]
      BY <1>0, <1>4 DEF Reserve
    <2>3. QED
      BY <1>0, <2>1, <2>2
  <1>5. QED
    BY <1>3, <1>4

(* A ticket that was used again stays on record. *)
LEMMA ReusedGrows == [Next]_vars => reused \subseteq reused'
  <1> SUFFICES ASSUME [Next]_vars PROVE reused \subseteq reused'
    OBVIOUS
  <1>1. ASSUME NEW c, NEW again, Reused(c, again) PROVE reused \subseteq reused'
    BY <1>1 DEF Reused
  <1>2. ASSUME NEW c, NEW r, NEW S, NEW n, NEW b, NEW class, NEW usage, NEW observed, NEW late,
               \/ Assess(c, S) \/ Reserve(c, r, late) \/ ReserveDenied(c, r) \/ TicketExpires(c)
               \/ InvokeAnswered(c, n, class, usage, observed) \/ InvokeAmbiguous(c, n, usage)
               \/ InvokeRaised(c, n, class) \/ InvokeCancelled(c, n) \/ WindowEnds(b)
               \/ OpenForElapses(r)
        PROVE  reused \subseteq reused'
    BY <1>2 DEF Assess, Reserve, ReserveDenied, TicketExpires, InvokeAnswered, InvokeAmbiguous,
                InvokeRaised, InvokeCancelled, WindowEnds, OpenForElapses
  <1>3. ASSUME NEW c, NEW n, NEW class, NEW x, NEW observed,
               \/ ExpireUnsent(c) \/ InvokeExpired(c) \/ InvokeSend(c)
               \/ InvokeRaisedSettled(c, n, class) \/ Reconcile(x, observed)
        PROVE  reused \subseteq reused'
    BY <1>1, <1>3 DEF ExpireUnsent, InvokeExpired, InvokeSend, InvokeRaisedSettled, Reconcile,
                      Release
  <1>4. CASE UNCHANGED vars
    BY <1>4 DEF vars
  <1>5. QED
    BY <1>2, <1>3, <1>4 DEF Next

(* Each step, as long as no ticket is used again. *)
LEMMA HoldStep == TypeOK /\ HoldInv /\ [Next]_vars => HoldInv'
  <1> SUFFICES ASSUME TypeOK, HoldInv, [Next]_vars, reused' = {} PROVE OneSend' /\ Books'
    BY DEF HoldInv
  <1>a. reused \subseteq reused'
    BY ReusedGrows
  <1>b. OneSend /\ Books /\ reused = {}
    BY <1>a DEF HoldInv
  <1>c. /\ ticket \in [Calls -> Ticket] /\ flight \subseteq Sends
        /\ \A s \in flight : s[1] \in Calls /\ s = <<s[1], s[2]>>
        /\ \A x \in receipts : x.call \in Calls
    BY DEF TypeOK, Sends, Receipt
  <1>0. ASSUME ticket' = ticket, flight' \subseteq flight, receipts' = receipts,
               \A b \in Lasting : reserved'[b] = reserved[b]
        PROVE  OneSend' /\ Books'
    <2>1. \A b \in Lasting : Outstanding(b)' = Outstanding(b)
      BY <1>0 DEF Outstanding, Held, Charged
    <2>2. OneSend'
      BY <1>b, <1>0 DEF OneSend
    <2>3. QED
      BY <1>b, <1>0, <2>1, <2>2, BooksKept
  <1>1. ASSUME NEW c \in Calls, NEW r \in Routes, NEW late, Reserve(c, r, late)
        PROVE  OneSend' /\ Books'
    <2>1. Books'
      BY <1>b, <1>1, BooksOpened
    <2>2. /\ ticket[c].state = "none" /\ flight' = flight /\ receipts' = receipts
          /\ \A d \in Calls \ {c} : ticket'[d] = ticket[d]
      BY <1>1, <1>c DEF Reserve
    <2>3. (\A s \in flight : s[1] # c) /\ \A x \in receipts : x.call # c
      BY <1>b, <2>2 DEF OneSend
    <2>4. OneSend'
      BY <1>b, <1>c, <2>2, <2>3 DEF OneSend
    <2>5. QED
      BY <2>1, <2>4
  \* The holds of a call that is not in flight any more go back.
  <1>2. ASSUME NEW c \in Calls, ticket[c].state \in {"open", "unknown"}, reserved' = GiveBack(c),
               \A s \in flight' : s \in flight /\ s[1] # c,
               \A d \in Calls \ {c} : ticket'[d] = ticket[d],
               ticket'[c].state \in TicketStates \ {"none", "open", "unknown"},
               ticket'[c].sent = ticket[c].sent,
               \A x \in receipts' : x \in receipts \/ (x.call = c /\ ticket[c].sent)
        PROVE  OneSend' /\ Books'
    <2>1. Books'
      BY <1>b, <1>2, BooksClosed
    <2>2. \A s \in flight' : /\ ticket'[s[1]] = ticket[s[1]]
                             /\ \A x \in receipts' : x.call # s[1]
      BY <1>b, <1>c, <1>2 DEF OneSend
    <2>3. \A x \in receipts' : ticket'[x.call].sent /\ ticket'[x.call].state # "none"
      BY <1>b, <1>c, <1>2 DEF OneSend
    <2>4. OneSend'
      BY <1>b, <1>2, <2>2, <2>3 DEF OneSend
    <2>5. QED
      BY <2>1, <2>4
  <1>3. ASSUME NEW c \in Calls, NEW state \in {"expired", "released"}, Release(c, state),
               ticket[c].state # "none", \A s \in flight : s[1] # c,
               flight' = flight, receipts' = receipts
        PROVE  OneSend' /\ Books'
    <2>1. ~GivenBack(c)
      BY <1>3 DEF Release, Reused
    <2>2. ticket[c].state \in {"open", "unknown"}
      BY <1>c, <1>3, <2>1 DEF GivenBack, Ticket, TicketStates
    <2>3. ticket' = [ticket EXCEPT ![c].state = state] /\ reserved' = GiveBack(c)
      BY <1>3 DEF Release
    <2>4. /\ \A d \in Calls \ {c} : ticket'[d] = ticket[d]
          /\ ticket'[c].state = state /\ ticket'[c].sent = ticket[c].sent
      BY <1>c, <2>3 DEF Ticket
    <2>5. QED
      BY <1>2, <1>3, <2>2, <2>3, <2>4 DEF TicketStates
  <1>4. ASSUME NEW c \in Calls, ExpireUnsent(c) PROVE OneSend' /\ Books'
    <2>1. \A s \in flight : s[1] # c
      BY <1>b, <1>4 DEF OneSend, ExpireUnsent
    <2>2. QED
      BY <1>3, <1>4, <2>1 DEF ExpireUnsent
  <1>5. ASSUME NEW c \in Calls, InvokeExpired(c) PROVE OneSend' /\ Books'
    <2>1. \A s \in flight : s[1] # c
      BY <1>b, <1>5 DEF OneSend, InvokeExpired
    <2>2. QED
      BY <1>3, <1>5, <2>1 DEF InvokeExpired
  <1>6. ASSUME NEW c \in Calls, InvokeSend(c) PROVE OneSend' /\ Books'
    <2>1. ~ticket[c].sent /\ ~GivenBack(c) /\ ticket[c].state # "none"
      BY <1>6 DEF InvokeSend, Reused
    <2>2. ticket[c].state \in {"open", "unknown"}
      BY <1>c, <2>1 DEF GivenBack, Ticket, TicketStates
    <2>3. (\A s \in flight : s[1] # c) /\ \A x \in receipts : x.call # c
      BY <1>b, <2>1 DEF OneSend
    <2>4. /\ \A d \in Calls \ {c} : ticket'[d] = ticket[d]
          /\ ticket'[c].state = ticket[c].state /\ ticket'[c].route = ticket[c].route
          /\ ticket'[c].sent /\ ticket'[c].phase = "sending"
      BY <1>6, <1>c DEF InvokeSend, Ticket
    <2>5. /\ flight' = flight \cup {<<c, ticket[c].sends + 1>>} /\ receipts' = receipts
          /\ reserved' = reserved
      BY <1>6 DEF InvokeSend, ledger
    <2>6. OneSend'
      BY <1>b, <1>c, <2>2, <2>3, <2>4, <2>5 DEF OneSend
    <2>7. \A b \in Lasting : Outstanding(b)' = Outstanding(b)
      BY <2>4 DEF Outstanding, Held, Charged
    <2>8. QED
      BY <1>b, <2>5, <2>6, <2>7, BooksKept
  <1>7. ASSUME NEW c \in Calls, TicketExpires(c) PROVE OneSend' /\ Books'
    <2>1. \A d \in Calls : /\ ticket'[d].state = ticket[d].state /\ ticket'[d].route = ticket[d].route
                           /\ ticket'[d].sent = ticket[d].sent /\ ticket'[d].phase = ticket[d].phase
      BY <1>7, <1>c DEF TicketExpires, Ticket
    <2>2. flight' = flight /\ receipts' = receipts /\ reserved' = reserved
      BY <1>7 DEF TicketExpires, ledger
    <2>3. \A b \in Lasting : Outstanding(b)' = Outstanding(b)
      BY <2>1 DEF Outstanding, Held, Charged
    <2>4. OneSend'
      BY <1>b, <1>c, <2>1, <2>2 DEF OneSend
    <2>5. QED
      BY <1>b, <2>2, <2>3, <2>4, BooksKept
  <1>8. ASSUME NEW c \in Calls, NEW n, NEW class, NEW usage, NEW observed,
               InvokeAnswered(c, n, class, usage, observed)
        PROVE  OneSend' /\ Books'
    <2>1. <<c, n>> \in flight /\ flight' = flight \ {<<c, n>>}
      BY <1>8 DEF InvokeAnswered, Lands
    <2>2. ticket[c].sent /\ ticket[c].state \in {"open", "unknown"}
      BY <1>b, <2>1 DEF OneSend
    <2>3. \A s \in flight' : s \in flight /\ s[1] # c
      BY <1>b, <2>1 DEF OneSend
    <2>4. /\ \A d \in Calls \ {c} : ticket'[d] = ticket[d]
          /\ ticket'[c].state = "committed" /\ ticket'[c].sent = ticket[c].sent
      BY <1>8, <1>c DEF InvokeAnswered, Ticket
    <2>5. reserved' = GiveBack(c) /\ \A x \in receipts' : x \in receipts \/ x.call = c
      BY <1>8 DEF InvokeAnswered, Lands, Settle
    <2>6. QED
      BY <1>2, <2>2, <2>3, <2>4, <2>5 DEF TicketStates
  <1>9. ASSUME NEW c \in Calls, NEW n, NEW class, NEW usage,
               InvokeAmbiguous(c, n, usage) \/ InvokeRaised(c, n, class)
        PROVE  OneSend' /\ Books'
    <2>1. <<c, n>> \in flight /\ flight' = flight \ {<<c, n>>} /\ reserved' = reserved
      BY <1>9 DEF InvokeAmbiguous, InvokeRaised, Lands, ledger
    <2>2. ticket[c].sent /\ ticket[c].state \in {"open", "unknown"}
      BY <1>b, <2>1 DEF OneSend
    <2>3. \A s \in flight' : s \in flight /\ s[1] # c
      BY <1>b, <2>1 DEF OneSend
    <2>4. /\ \A d \in Calls \ {c} : ticket'[d] = ticket[d]
          /\ ticket'[c].state = "unknown" /\ ticket'[c].sent = ticket[c].sent
          /\ ticket'[c].route = ticket[c].route
      BY <1>9, <1>c DEF InvokeAmbiguous, InvokeRaised, Ticket
    <2>5. \A x \in receipts' : x \in receipts \/ x.call = c
      BY <1>9 DEF InvokeAmbiguous, InvokeRaised, Lands
    <2>6. \A b \in Lasting : Outstanding(b)' = Outstanding(b)
      BY <2>2, <2>4 DEF Outstanding, Held, Charged
    <2>7. OneSend'
      BY <1>b, <1>c, <2>2, <2>3, <2>4, <2>5 DEF OneSend
    <2>8. QED
      BY <1>b, <2>1, <2>6, <2>7, BooksKept
  <1>10. ASSUME NEW c \in Calls, NEW n, NEW class, InvokeRaisedSettled(c, n, class)
         PROVE  OneSend' /\ Books'
    BY <1>b, <1>10 DEF InvokeRaisedSettled, OneSend
  <1>11. ASSUME NEW x \in receipts, NEW observed, Reconcile(x, observed)
         PROVE  OneSend' /\ Books'
    <2> DEFINE c == x.call
    <2>1. c \in Calls /\ ticket[c].sent /\ ticket[c].state # "none" /\ ~GivenBack(c)
      BY <1>b, <1>c, <1>11 DEF OneSend, Reconcile, Reused
    <2>2. ticket[c].state \in {"open", "unknown"}
      BY <1>c, <2>1 DEF GivenBack, Ticket, TicketStates
    <2>3. /\ \A d \in Calls \ {c} : ticket'[d] = ticket[d]
          /\ ticket'[c].state = "committed" /\ ticket'[c].sent = ticket[c].sent
      BY <1>11, <1>c, <2>1 DEF Reconcile, Ticket
    <2>4. reserved' = GiveBack(c) /\ receipts' = receipts /\ flight' = flight
      BY <1>11 DEF Reconcile, Settle
    <2>5. \A s \in flight : s[1] # c
      BY <1>b DEF OneSend
    <2> HIDE DEF c
    <2>6. QED
      BY <1>2, <2>1, <2>2, <2>3, <2>4, <2>5 DEF TicketStates
  <1>12. ASSUME NEW c, NEW r, ReserveDenied(c, r) PROVE OneSend' /\ Books'
    <2>1. \A b \in Lasting : reserved'[b] = reserved[b]
      BY <1>12 DEF ReserveDenied, ReservedNow, Lasting, TypeOK
    <2>2. QED
      BY <1>0, <1>12, <2>1 DEF ReserveDenied
  <1>13. ASSUME NEW c, NEW r, NEW S, NEW n, NEW b,
               \/ Assess(c, S) \/ InvokeCancelled(c, n) \/ WindowEnds(b) \/ OpenForElapses(r)
         PROVE  OneSend' /\ Books'
    BY <1>0, <1>13 DEF Assess, InvokeCancelled, WindowEnds, OpenForElapses, ledger
  <1>14. CASE UNCHANGED vars
    BY <1>0, <1>14 DEF vars, ledger
  <1>15. QED
    BY <1>1, <1>4, <1>5, <1>6, <1>7, <1>8, <1>9, <1>10, <1>11, <1>12, <1>13, <1>14 DEF Next

(* A bucket without windows holds exactly what the open and the unknown tickets       *)
(* reserved, however sends are lost, cancelled, answered late or reconciled, as long  *)
(* as no caller uses a ticket again.                                                 *)
THEOREM HoldsMatchTickets == Spec => []HoldsAreTheTickets
  BY HoldInit, HoldStep, HoldInvSays, BrokerTypeCorrect, PTL DEF Spec

--------------------------------------------------------------------------------
(* The control bucket's floor.                                                     *)

(* A settlement of an outstanding call frees at least what it charges. *)
LEMMA SettleFrees ==
    ASSUME TypeOK, HoldsFitRemaining, Books, Control \in Lasting,
           NEW c \in Calls, NEW n, NEW usage \in BOOLEAN, NEW observed \in 0..MaxObserved,
           ticket[c].state \in {"open", "unknown"}, Settle(c, n, usage, observed)
    PROVE  Spare' >= Spare
  <1> DEFINE charge == Charge(c, Control, usage, observed)
             amount == Amount(c, Control)
  <1>0. Control \in Buckets /\ Control \notin Unobserved
    BY DEF Lasting
  <1>1. /\ amount \in Nat /\ charge \in Nat /\ charge <= amount
        /\ reserved[Control] \in Nat /\ remaining[Control] \in Nat
        /\ reserved[Control] <= remaining[Control]
    BY <1>0, AmountIsPositive, ChargeFitsAmount DEF TypeOK, HoldsFitRemaining
  <1>2. CASE Control \notin Held(c)
    BY <1>0, <1>1, <1>2 DEF Settle, GiveBack, Spare
  <1>3. CASE Control \in Held(c)
    <2>1. c \in Outstanding(Control)
      BY <1>3 DEF Outstanding
    <2>2. /\ HoldsOf(Outstanding(Control) \ {c}, Control) \in Nat
          /\ reserved[Control] = HoldsOf(Outstanding(Control) \ {c}, Control) + amount
      BY <1>0, <2>1, OneCallLess DEF Books
    <2>3. /\ reserved'[Control] = AtLeast(0, reserved[Control] - amount)
          /\ remaining'[Control] = AtLeast(0, remaining[Control] - charge)
      BY <1>0, <1>3 DEF Settle, GiveBack
    <2> HIDE DEF charge, amount
    <2>4. QED
      BY <1>1, <2>2, <2>3 DEF AtLeast, Spare
  <1>4. QED
    BY <1>2, <1>3

(* Holds that are only given back leave more free. *)
LEMMA GiveBackFrees ==
    ASSUME TypeOK, Control \in Lasting, NEW c \in Calls, reserved' = GiveBack(c),
           remaining' = remaining
    PROVE  Spare' >= Spare
  <1>1. /\ Control \in Buckets /\ reserved[Control] \in Nat /\ remaining[Control] \in Nat
        /\ Amount(c, Control) \in Nat
    BY AmountIsPositive DEF TypeOK, Lasting
  <1>2. reserved'[Control] = IF Control \in Held(c)
                             THEN AtLeast(0, reserved[Control] - Amount(c, Control))
                             ELSE reserved[Control]
    BY <1>1 DEF GiveBack
  <1>3. QED
    BY <1>1, <1>2 DEF Spare, AtLeast

(* An admission of another purpose leaves the floor free. *)
LEMMA AdmissionKeepsFloor ==
    ASSUME TypeOK, HoldsFitRemaining, Control \in Lasting, NEW c \in Calls, NEW r \in Routes,
           NEW late, Reserve(c, r, late), Purpose[c] \notin ProtectedPurposes
    PROVE  Spare' >= Spare \/ Spare' >= Floor
  <1>1. /\ Control \in Buckets /\ Control \notin Unobserved /\ Control \notin due
        /\ Control \notin late
        /\ reserved[Control] \in Nat /\ remaining[Control] \in Nat
        /\ reserved[Control] <= remaining[Control]
    BY DEF TypeOK, Lasting, Reserve, HoldsFitRemaining
  <1>2. Amount(c, Control) \in Nat /\ Floor \in Nat
    BY <1>1, AmountIsPositive, BrokerAssumption
  <1>3. CASE Control \in Charged(c, r)
    <2>1. Effective(Control) - Amount(c, Control) >= Floor
      BY <1>1, <1>3 DEF Reserve, Admits
    <2>2. Effective(Control) = remaining[Control] - reserved[Control]
      BY <1>1 DEF Effective, RemainingNow, ReservedNow, AtLeast
    <2>3. /\ reserved'[Control] = reserved[Control] + Amount(c, Control)
          /\ remaining'[Control] = remaining[Control]
      BY <1>1, <1>3 DEF Reserve, Reset, ReservedNow, RemainingNow
    <2>4. QED
      BY <1>1, <1>2, <2>1, <2>2, <2>3 DEF Spare
  <1>4. CASE Control \notin Charged(c, r)
    BY <1>1, <1>4 DEF Reserve, Reset, Spare
  <1>5. QED
    BY <1>3, <1>4

(* What a step that eats into the floor must be. *)
LEMMA FloorStep ==
    ASSUME TypeOK, HoldsFitRemaining, HoldInv, [Next]_vars, Control \in Lasting, reused' = {},
           Spare' < Spare, Spare' < Floor
    PROVE  \E c \in Calls : Admitted(c) /\ Purpose[c] \in ProtectedPurposes
  <1>a. HoldInv' /\ TypeOK'
    BY HoldStep, NextTypeOK
  <1>b. Spare \in Int /\ Spare' \in Int /\ Floor \in Nat
    BY <1>a, BrokerAssumption DEF TypeOK, Spare, Lasting
  <1>c. ~(Spare' >= Spare) /\ ~(Spare' >= Floor)
    BY <1>b
  <1>d. reused \subseteq reused'
    BY ReusedGrows
  <1>e. OneSend /\ Books
    BY <1>d DEF HoldInv
  <1>0. ASSUME remaining' = remaining, reserved' = reserved PROVE FALSE
    BY <1>b, <1>0 DEF Spare
  <1>1. ASSUME NEW c \in Calls, NEW r \in Routes, NEW late, Reserve(c, r, late)
        PROVE  Admitted(c) /\ Purpose[c] \in ProtectedPurposes
    <2>1. Admitted(c)
      BY <1>1 DEF Reserve, Admitted, TypeOK, Ticket
    <2>2. QED
      BY <1>1, <1>c, <2>1, AdmissionKeepsFloor
  <1>2. ASSUME NEW c \in Calls, NEW state, Release(c, state) PROVE FALSE
    BY <1>2, <1>c, GiveBackFrees DEF Release
  <1>3. ASSUME NEW c \in Calls, NEW n \in 1..MaxSends, NEW class, NEW usage \in BOOLEAN,
               NEW observed \in 0..MaxObserved, InvokeAnswered(c, n, class, usage, observed)
        PROVE  FALSE
    <2>1. ticket[c].state \in {"open", "unknown"}
      BY <1>3, <1>e DEF InvokeAnswered, Lands, OneSend
    <2>2. QED
      BY <1>3, <1>c, <1>e, <2>1, SettleFrees DEF InvokeAnswered
  <1>4. ASSUME NEW x \in receipts, NEW observed \in 0..MaxObserved, Reconcile(x, observed)
        PROVE  FALSE
    <2>1. x.call \in Calls /\ x.usage \in BOOLEAN
      BY DEF TypeOK, Receipt
    <2>2. ticket[x.call].state # "none" /\ ~GivenBack(x.call)
      BY <1>4, <1>e DEF Reconcile, Reused, OneSend
    <2>3. ticket[x.call].state \in {"open", "unknown"}
      BY <2>1, <2>2 DEF GivenBack, TypeOK, Ticket, TicketStates
    <2>4. QED
      BY <1>4, <1>c, <1>e, <2>1, <2>3, SettleFrees DEF Reconcile
  <1>5. ASSUME NEW c \in Calls, NEW r \in Routes, ReserveDenied(c, r) PROVE FALSE
    <2>1. reserved'[Control] = reserved[Control] /\ remaining'[Control] = remaining[Control]
      BY <1>5 DEF ReserveDenied, Reset, ReservedNow, RemainingNow, Lasting, TypeOK
    <2>2. QED
      BY <1>b, <2>1 DEF Spare
  <1>6. ASSUME NEW c \in Calls, NEW n, NEW class,
               ExpireUnsent(c) \/ InvokeExpired(c) \/ InvokeRaisedSettled(c, n, class)
        PROVE  FALSE
    BY <1>2, <1>6 DEF ExpireUnsent, InvokeExpired, InvokeRaisedSettled
  <1>7. ASSUME NEW c, NEW r, NEW S, NEW n, NEW b, NEW class, NEW usage,
               \/ Assess(c, S) \/ InvokeSend(c) \/ TicketExpires(c) \/ InvokeAmbiguous(c, n, usage)
               \/ InvokeRaised(c, n, class) \/ InvokeCancelled(c, n) \/ WindowEnds(b)
               \/ OpenForElapses(r)
        PROVE  FALSE
    BY <1>0, <1>7 DEF Assess, InvokeSend, TicketExpires, InvokeAmbiguous, InvokeRaised,
                      InvokeCancelled, WindowEnds, OpenForElapses, ledger
  <1>8. CASE UNCHANGED vars
    BY <1>0, <1>8 DEF vars, ledger
  <1>9. QED
    BY <1>1, <1>3, <1>4, <1>5, <1>6, <1>7, <1>8 DEF Next

(* The control bucket's floor is eaten into only by planning, review or control       *)
(* requests: not by admissions of other purposes, nor by their settlements.           *)
THEOREM FloorIsKept == Spec => FloorIsForControl
  <1>1. TypeOK /\ HoldsFitRemaining /\ HoldInv /\ [Next]_vars
          => [(/\ Control \in Buckets \ (Windowed \cup Unobserved)
               /\ reused' = {}
               /\ Spare' < Spare /\ Spare' < Floor)
              => \E c \in Calls : Admitted(c) /\ Purpose[c] \in ProtectedPurposes]_vars
    BY FloorStep DEF Lasting
  <1>2. Spec => []HoldInv
    BY HoldInit, HoldStep, BrokerTypeCorrect, PTL DEF Spec
  <1>3. QED
    BY <1>1, <1>2, BrokerTypeCorrect, LedgerBalances, PTL DEF Spec, FloorIsForControl

--------------------------------------------------------------------------------
(* Payment gates.                                                                 *)

(* Whoever has an override is in the audit file: the file outlives the overrides. *)
OverridesAreAudited ==
    /\ overrides \in [Providers -> {NoStatus, "auth_verified", "blocked"}]
    /\ \A p \in Providers : overrides[p] # NoStatus => p \in audit

GateInv == OverridesAreAudited /\ GateOpensOnlyAudited

LEMMA GateInit == OnboardingInit => GateInv
  <1> SUFFICES ASSUME OnboardingInit PROVE GateInv
    OBVIOUS
  <1>1. OverridesAreAudited
    BY DEF OnboardingInit, OverridesAreAudited
  <1>2. \A p \in Gated : shown[p].route # "discovered"
    BY ProviderAssumption DEF OnboardingInit, NoStatus
  <1>3. QED
    BY <1>1, <1>2 DEF GateInv, GateOpensOnlyAudited

LEMMA GateOnboarding == GateInv /\ OnboardingNext => GateInv'
  <1> SUFFICES ASSUME GateInv, OnboardingNext PROVE GateInv'
    OBVIOUS
  <1> USE ProviderAssumption DEF GateInv
  <1>1. CASE OnboardingReport
    <2>1. ASSUME NEW p \in Gated, Inspect(p) = "discovered"
          PROVE  p \in audit /\ "payment_method_required" \in Blockers(p)
      <3>1. p \in Providers /\ p \notin Retired /\ Account(p) # "gated_payment_method"
        BY <2>1 DEF Inspect
      <3>2. overrides[p] # NoStatus
        BY <2>1, <3>1 DEF Account
      <3>3. QED
        BY <2>1, <3>1, <3>2 DEF OverridesAreAudited, Blockers
    <2>2. \A p \in Providers : shown'[p].route = Inspect(p) /\ shown'[p].blockers = Blockers(p)
      BY <1>1 DEF OnboardingReport
    <2>3. UNCHANGED <<overrides, audit>>
      BY <1>1 DEF OnboardingReport, service
    <2>4. QED
      BY <2>1, <2>2, <2>3 DEF OverridesAreAudited, GateOpensOnlyAudited
  <1>2. CASE NewService
    BY <1>2 DEF NewService, OverridesAreAudited, GateOpensOnlyAudited
  <1>3. ASSUME NEW a \in Aliases, RegisterAccountAlias(a) PROVE GateInv'
    BY <1>3 DEF RegisterAccountAlias, OverridesAreAudited, GateOpensOnlyAudited
  <1>4. ASSUME NEW p \in Providers, NEW s \in {NoStatus, "auth_verified", "blocked"}, NEW c \in BOOLEAN,
               ConfirmManual(p, s, c)
        PROVE  GateInv'
    <2>1. audit' = audit \cup {p} /\ UNCHANGED shown
          /\ overrides' = IF s = NoStatus THEN overrides ELSE [overrides EXCEPT ![p] = s]
      BY <1>4 DEF ConfirmManual
    <2>2. OverridesAreAudited'
      BY <2>1 DEF OverridesAreAudited
    <2>3. GateOpensOnlyAudited'
      BY <2>1 DEF GateOpensOnlyAudited
    <2>4. QED
      BY <2>2, <2>3
  <1>5. ASSUME NEW p \in Providers,
               (\E when \in {"running", "over"} : SetTrialExpiry(p, when)) \/ TrialEnds(p)
        PROVE  GateInv'
    BY <1>5 DEF SetTrialExpiry, TrialEnds, OverridesAreAudited, GateOpensOnlyAudited
  <1>6. QED
    BY <1>1, <1>2, <1>3, <1>4, <1>5 DEF OnboardingNext

--------------------------------------------------------------------------------
(* Canaries and qualification.                                                    *)

(* Passing evidence is of a route and a model a live canary vouched for, and so is what *)
(* a qualification read before its probe, although the evidence may be gone by now.     *)
EvidenceIsVouched ==
    \A r \in RouteIds : evidence[r].passed => <<r, evidence[r].model>> \in vouched
JobIsVouched == job.kind = "qualify" => <<Head(job.routes), job.model>> \in vouched

CellInv == EvidenceIsVouched /\ JobIsVouched /\ LiveCellsWereVouched

LEMMA CellInit == EvidenceInit => CellInv
  BY DEF EvidenceInit, CellInv, EvidenceIsVouched, JobIsVouched, LiveCellsWereVouched, NoEvidence, Idle

(* Reading the evidence: a route list is of known routes, and its head is one of them. *)
LEMMA RouteListHead ==
    ASSUME NEW rs \in RouteLists
    PROVE  /\ Head(rs) \in RouteIds /\ Head(rs) \in Range(rs)
  <1>1. CASE \E r \in RouteIds : rs = <<r>>
    BY <1>1 DEF Range
  <1>2. CASE \E m \in Names : rs = <<Default, m>>
    BY <1>2 DEF Range, RouteIds
  <1>3. QED
    BY <1>1, <1>2 DEF RouteLists

LEMMA CellStep == CellInv /\ [EvidenceNext]_evidenceVars => CellInv'
  <1> SUFFICES ASSUME CellInv, [EvidenceNext]_evidenceVars PROVE CellInv'
    OBVIOUS
  <1> USE DEF CellInv
  <1>1. CASE UNCHANGED <<evidence, vouched, cells, job>>
    BY <1>1 DEF EvidenceIsVouched, JobIsVouched, LiveCellsWereVouched
  <1>2. ASSUME NEW route \in RouteIds, NEW mode \in {"mock", "live"}, NEW zero \in BOOLEAN,
               NEW ok \in BOOLEAN, BoundedCanary(route, mode, zero, ok)
        PROVE  CellInv'
    <2> DEFINE m == CanaryTarget(route)
    <2>1. /\ evidence' = [r \in RouteIds |-> IF r \in {m, route} THEN [model |-> m, passed |-> ok]
                                             ELSE evidence[r]]
          /\ vouched' = IF ok THEN vouched \cup {<<m, m>>, <<route, m>>} ELSE vouched
          /\ UNCHANGED <<cells, job>>
      BY <1>2 DEF BoundedCanary, LiveLocalZeroCanary
    <2> HIDE DEF m
    <2>2. vouched \subseteq vouched'
      BY <2>1
    <2>3. EvidenceIsVouched'
      <3> SUFFICES ASSUME NEW r \in RouteIds, evidence'[r].passed
                   PROVE  <<r, evidence'[r].model>> \in vouched'
        BY DEF EvidenceIsVouched
      <3>1. CASE r \in {m, route}
        <4>1. evidence'[r] = [model |-> m, passed |-> ok]
          BY <2>1, <3>1
        <4>2. ok /\ evidence'[r].model = m
          BY <4>1
        <4>3. QED
          BY <2>1, <3>1, <4>2
      <3>2. CASE r \notin {m, route}
        BY <2>1, <2>2, <3>2 DEF EvidenceIsVouched
      <3>3. QED
        BY <3>1, <3>2
    <2>4. QED
      BY <2>1, <2>2, <2>3 DEF JobIsVouched, LiveCellsWereVouched
  <1>3. ASSUME NEW rs \in RouteLists, QualifyLive(rs) PROVE CellInv'
    <2>1. /\ UNCHANGED <<evidence, vouched, cells>> /\ AssertLiveRoutesEligible(rs)
          /\ job' = [kind |-> "qualify", routes |-> rs, model |-> evidence[Head(rs)].model]
      BY <1>3 DEF QualifyLive, files
    <2>2. evidence[Head(rs)].passed /\ Head(rs) \in RouteIds
      BY <2>1, RouteListHead DEF AssertLiveRoutesEligible
    <2>3. job'.routes = rs /\ job'.model = evidence[Head(rs)].model
      BY <2>1
    <2>4. QED
      BY <2>1, <2>2, <2>3 DEF EvidenceIsVouched, JobIsVouched, LiveCellsWereVouched
  <1>4. ASSUME NEW answers \in BOOLEAN, QualifyProbed(answers) PROVE CellInv'
    <2>1. /\ UNCHANGED <<evidence, vouched>> /\ job' = Idle /\ job.kind = "qualify"
          /\ cells' = {QualCell(Head(job.routes), IF answers THEN "provisional" ELSE "untested", job.model)}
                        \cup {QualCell(r, "untested", "none") : r \in Range(Tail(job.routes))}
      BY <1>4 DEF QualifyProbed
    <2>2. ASSUME NEW c \in cells', c.state = "provisional" PROVE <<c.route, c.model>> \in vouched
      <3>1. c.route = Head(job.routes) /\ c.model = job.model
        BY <2>1, <2>2 DEF QualCell
      <3>2. QED
        BY <2>1, <3>1 DEF JobIsVouched
    <2>3. job'.kind # "qualify"
      BY <2>1 DEF Idle
    <2>4. QED
      BY <2>1, <2>2, <2>3 DEF EvidenceIsVouched, JobIsVouched, LiveCellsWereVouched
  <1>5. ASSUME NEW rs \in RouteLists, NEW n \in 1..2, QualifyMock(rs, n) PROVE CellInv'
    <2>1. /\ UNCHANGED <<evidence, vouched, job>>
          /\ cells' = {QualCell(Head(rs), IF n >= 2 THEN "provisional" ELSE "untested", Simulated)}
                        \cup {QualCell(r, "untested", "none") : r \in Range(UpTo(Tail(rs), 1))}
      BY <1>5 DEF QualifyMock
    <2>2. ASSUME NEW c \in cells', c.state = "provisional" PROVE c.model = Simulated
      BY <2>1, <2>2 DEF QualCell
    <2>3. Simulated \notin Names
      BY EvidenceAssumption DEF Names
    <2>4. QED
      BY <2>1, <2>2, <2>3 DEF EvidenceIsVouched, JobIsVouched, LiveCellsWereVouched
  <1>6. ASSUME NEW asked, PlanProbed(asked) PROVE CellInv'
    <2>1. UNCHANGED <<evidence, vouched, cells>> /\ job'.kind = "plan"
      BY <1>6 DEF PlanProbed, files
    <2>2. QED
      BY <2>1 DEF EvidenceIsVouched, JobIsVouched, LiveCellsWereVouched
  <1>7. CASE PlanSaved
    <2>1. UNCHANGED <<evidence, vouched, cells>> /\ job'.kind # "qualify"
      BY <1>7 DEF PlanSaved, Idle
    <2>2. QED
      BY <2>1 DEF EvidenceIsVouched, JobIsVouched, LiveCellsWereVouched
  <1>8. CASE \/ Onboard \/ Environment \/ ChangeRuntime \/ UNCHANGED evidenceVars
    BY <1>1, <1>8 DEF Onboard, Environment, ChangeRuntime, files, evidenceVars
  <1>9. ASSUME \/ \E k \in Keys, c \in Cases, v, s \in BOOLEAN : RecordResult(k, c, v, s)
               \/ \E m \in Names : MarkAliasStale(m)
               \/ \E o \in [Keys -> {"pass", "error"}] : RunLiveBenchmarks(o)
        PROVE  UNCHANGED <<evidence, vouched, cells, job>>
    BY <1>9 DEF RecordResult, MarkAliasStale, RunLiveBenchmarks, files
  <1>10. QED
    BY <1>1, <1>2, <1>3, <1>4, <1>5, <1>6, <1>7, <1>8, <1>9 DEF EvidenceNext

--------------------------------------------------------------------------------
(* Profiles.                                                                      *)

(* A profile that is offered is what its results derive, of all of them. *)
ProfileInv ==
    /\ IsFiniteSet(results)
    /\ DOMAIN states = Keys
    /\ \A k \in Keys : states[k] = "provisional" => DeriveState(k, results) = "provisional"

LEMMA ProfileInit == EvidenceInit => ProfileInv
  BY FS_EmptySet DEF EvidenceInit, ProfileInv

LEMMA ProfileStep == ProfileInv /\ [EvidenceNext]_evidenceVars => ProfileInv'
  <1> SUFFICES ASSUME ProfileInv, [EvidenceNext]_evidenceVars PROVE ProfileInv'
    OBVIOUS
  <1>1. CASE UNCHANGED store
    BY <1>1 DEF ProfileInv, store
  <1>2. ASSUME NEW k \in Keys, NEW c \in Cases, NEW v \in BOOLEAN, NEW s \in BOOLEAN,
               RecordResult(k, c, v, s)
        PROVE  ProfileInv'
    <2> DEFINE r == Result(k, c, v)
    <2>1. /\ results' = results \cup {r}
          /\ states' = [states EXCEPT ![r.key] = DeriveState(r.key, results \cup {r})]
      BY <1>2 DEF RecordResult, Recorded
    <2>2. r.key = k
      BY DEF Result
    <2> HIDE DEF r
    <2>3. IsFiniteSet(results') /\ DOMAIN states' = Keys
      BY <2>1, FS_AddElement DEF ProfileInv
    <2>4. ASSUME NEW j \in Keys, states'[j] = "provisional"
          PROVE  DeriveState(j, results') = "provisional"
      <3>1. CASE j = k
        BY <2>1, <2>2, <2>4, <3>1 DEF ProfileInv
      <3>2. CASE j # k
        <4>1. {x \in results' : x.key = j} = {x \in results : x.key = j}
          BY <2>1, <2>2, <3>2
        <4>2. states[j] = "provisional"
          BY <2>1, <2>2, <2>4, <3>2 DEF ProfileInv
        <4>3. DeriveState(j, results') = DeriveState(j, results)
          BY <4>1 DEF DeriveState
        <4>4. QED
          BY <4>2, <4>3 DEF ProfileInv
      <3>3. QED
        BY <3>1, <3>2
    <2>5. QED
      BY <2>3, <2>4 DEF ProfileInv
  <1>3. ASSUME NEW m \in Names, MarkAliasStale(m) PROVE ProfileInv'
    <2>1. /\ states' = [k \in Keys |-> IF k[1] = m /\ states[k] # "none" THEN "stale" ELSE states[k]]
          /\ results' = results
      BY <1>3 DEF MarkAliasStale
    <2>2. \A k \in Keys : states'[k] = "provisional" => states[k] = "provisional"
      BY <2>1
    <2>3. QED
      BY <2>1, <2>2 DEF ProfileInv
  <1>4. CASE Onboard \/ Environment \/ ChangeRuntime \/ PlanSaved \/ UNCHANGED evidenceVars
    BY <1>1, <1>4 DEF Onboard, Environment, ChangeRuntime, PlanSaved, evidenceVars
  <1>5. ASSUME \/ \E r \in RouteIds, mode \in {"mock", "live"}, zero, ok \in BOOLEAN :
                    BoundedCanary(r, mode, zero, ok)
               \/ \E rs \in RouteLists : QualifyLive(rs) \/ \E n \in 1..2 : QualifyMock(rs, n)
               \/ \E answers \in BOOLEAN : QualifyProbed(answers)
               \/ \E o \in [Keys -> {"pass", "error"}] : RunLiveBenchmarks(o)
               \/ \E asked \in {<<>>} \cup {<<m>> : m \in Names} : PlanProbed(asked)
        PROVE  UNCHANGED store
    BY <1>5 DEF BoundedCanary, QualifyLive, QualifyMock, QualifyProbed, RunLiveBenchmarks, PlanProbed
  <1>6. QED
    BY <1>1, <1>2, <1>3, <1>4, <1>5 DEF EvidenceNext

--------------------------------------------------------------------------------
(* A report opens a payment-gated route only with a confirmation in the audit file, *)
(* whatever restarts and trials came in between.                                   *)
THEOREM GatesOpenAudited == EvidenceSpec => []GateOpensOnlyAudited
  <1>1. EvidenceInit => GateInv
    BY GateInit DEF EvidenceInit
  <1>2. GateInv /\ [EvidenceNext]_evidenceVars => GateInv'
    <2> SUFFICES ASSUME GateInv, [EvidenceNext]_evidenceVars PROVE GateInv'
      OBVIOUS
    <2>1. CASE UNCHANGED <<overrides, audit, shown>>
      BY <2>1 DEF GateInv, OverridesAreAudited, GateOpensOnlyAudited
    <2>2. CASE Onboard
      BY <2>2, GateOnboarding DEF Onboard
    <2>3. CASE Environment \/ ChangeRuntime \/ PlanSaved \/ UNCHANGED evidenceVars
      BY <2>1, <2>3 DEF Environment, ChangeEnvironment, ChangeRuntime, PlanSaved, evidenceVars,
                        onboardingVars, service
    <2>4. ASSUME \/ \E r \in RouteIds, mode \in {"mock", "live"}, zero, ok \in BOOLEAN :
                      BoundedCanary(r, mode, zero, ok)
                 \/ \E rs \in RouteLists : QualifyLive(rs) \/ \E n \in 1..2 : QualifyMock(rs, n)
                 \/ \E answers \in BOOLEAN : QualifyProbed(answers)
                 \/ \E k \in Keys, c \in Cases, v, s \in BOOLEAN : RecordResult(k, c, v, s)
                 \/ \E m \in Names : MarkAliasStale(m)
                 \/ \E o \in [Keys -> {"pass", "error"}] : RunLiveBenchmarks(o)
                 \/ \E asked \in {<<>>} \cup {<<m>> : m \in Names} : PlanProbed(asked)
          PROVE  UNCHANGED onboardingVars
      BY <2>4 DEF BoundedCanary, QualifyLive, QualifyMock, QualifyProbed, RecordResult, MarkAliasStale,
                  RunLiveBenchmarks, PlanProbed
    <2>5. QED
      BY <2>1, <2>2, <2>3, <2>4 DEF EvidenceNext, onboardingVars, service
  <1>3. QED
    BY <1>1, <1>2, PTL DEF EvidenceSpec, GateInv

(* A live cell becomes provisional only for a route and a model that passed a live canary, *)
(* whatever overwrote the evidence or changed the runtime before the probe.               *)
THEOREM LiveCellsVouched == EvidenceSpec => []LiveCellsWereVouched
  BY CellInit, CellStep, PTL DEF EvidenceSpec, CellInv

(* No order of results and stale marks makes a profile with a policy failure, or with too *)
(* few distinct cases, one that is offered.                                               *)
THEOREM OffersAreEarned == EvidenceSpec => []OfferedIsEarned
  <1>1. ProfileInv => OfferedIsEarned
    <2> SUFFICES ASSUME ProfileInv, NEW k \in Keys, states[k] = "provisional"
                 PROVE  /\ \A r \in results : r.key = k => ~r.violation
                        /\ Cardinality({r.case : r \in {x \in results : x.key = k}}) >= MinDistinct
      BY DEF OfferedIsEarned, Offered
    <2> DEFINE mine == {r \in results : r.key = k}
               cases == {r.case : r \in mine}
    <2>1. DeriveState(k, results) = "provisional"
      BY DEF ProfileInv
    <2>2. ~(\E r \in mine : r.violation) /\ ~(Cardinality(cases) < MinDistinct)
      BY <2>1 DEF DeriveState
    <2>3. IsFiniteSet(mine)
      BY FS_Subset DEF ProfileInv
    <2>4. IsFiniteSet(cases)
      <3> DEFINE f == [r \in mine |-> r.case]
      <3>1. f \in Surjection(mine, cases)
        BY DEF Surjection
      <3>2. QED
        BY <2>3, <3>1, FS_Surjection
    <2>5. Cardinality(cases) \in Nat
      BY <2>4, FS_CardinalityType
    <2>6. Cardinality(cases) >= MinDistinct
      BY <2>2, <2>5, EvidenceAssumption
    <2>7. QED
      BY <2>2, <2>6
  <1>2. QED
    BY <1>1, ProfileInit, ProfileStep, PTL DEF EvidenceSpec
================================================================================
