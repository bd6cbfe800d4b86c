------------------------------ MODULE QuotaBroker ------------------------------
(***************************************************************************)
(* The shared inference broker (src/swarm/broker): admission policy, quota  *)
(* ledger, reservation tickets, provider calls, settlement and the circuit  *)
(* breaker of a route.                                                      *)
(*                                                                         *)
(* The broker lives in one event loop.  Nothing inside the ledger's lock    *)
(* suspends, so reserve, release, settle and reconcile are single steps;    *)
(* invoke is two, apart by the await of the adapter, and any other          *)
(* coroutine, a second invocation of the same ticket included, may run in   *)
(* between.  Clocks appear as what they decide: a window that is over, a    *)
(* ticket past its expiry, an open period that has elapsed.                 *)
(* Decision records, queue weights and request counts only feed reports.    *)
(***************************************************************************)
EXTENDS Integers, FiniteSets

CONSTANTS Calls,        \* inference requests; reserve makes one ticket for each
          Routes, Buckets,
          Purpose,      \* purpose of a request
          InTokens, OutTokens, \* estimated_input_tokens and max_output_tokens
          Context,      \* RoutePolicyContext of a route
          BucketsOf,    \* quota_bucket_ids of a route
          VerifiedFree, \* verified_no_charge_routes, with allow_unknown_probe on
          Rank,         \* the ledger's bucket order (sorted bucket_id)
          Dimension, Limit,
          Windowed,     \* buckets with a reset_at (rolling or fixed); others last for life
          Unobserved,   \* buckets whose remaining is None
          Control,      \* planning_reserve_bucket_id
          Benchmark,    \* benchmark_bucket_id
          Floor,        \* planning_review_reserve
          FailureThreshold,
          Refusals,     \* error classes an adapter answers with, other than the ambiguous
                        \* partial_stream and unknown_outcome
          MaxSends,     \* bound: invocations of one ticket
          Resent,       \* bound: requests whose tickets are invoked more than once
          MaxObserved   \* bound: tokens a provider reports

TokenDimensions == {"input_tokens", "output_tokens", "total_tokens", "uncached_tokens"}
ProtectedPurposes == {"planning", "review", "control"}
TicketStates == {"none", "open", "committed", "released", "expired", "unknown"}
Phases == {"reserved", "sending", "unknown", "settled"}

ASSUME BrokerAssumption ==
    /\ BucketsOf \in [Routes -> SUBSET Buckets]
    /\ Limit \in [Buckets -> Nat]
    /\ Rank \in [Buckets -> Nat]
    /\ InTokens \in [Calls -> Nat] /\ OutTokens \in [Calls -> Nat]
    /\ Windowed \subseteq Buckets \ Unobserved
    /\ Routes # {}
    /\ Floor \in Nat /\ MaxSends \in Nat /\ MaxObserved \in Nat
    /\ FailureThreshold \in Nat \ {0}
    /\ Benchmark \in Buckets => Dimension[Benchmark] \notin TokenDimensions
    /\ Refusals \cap {"none", "ambiguous"} = {}

VARIABLES
    remaining, reserved, settled, \* a bucket of the ledger
    due,      \* windowed buckets whose reset_at has passed
    ticket,   \* the reservation and PendingCall of a request
    flight,   \* invocations awaiting the adapter, as <<request, send>>
    receipts, \* attempt receipts that were recorded or handed to a caller
    keys,     \* settlement keys used, as <<request, send>>
    health,   \* circuit breaker of a route
    reused    \* history: tickets sent or given back after they were sent or given back

ledger == <<remaining, reserved, settled, due>>
vars == <<ledger, ticket, flight, receipts, keys, health, reused>>

Ticket == [state : TicketStates, phase : Phases, route : Routes,
           late : BOOLEAN, sent : BOOLEAN, sends : 0..MaxSends]
Sends == Calls \X (1..MaxSends)
Receipt == [call : Calls, send : 1..MaxSends, usage : BOOLEAN,
            class : {"none", "authentication", "ambiguous"} \cup Refusals]
Health == [fails : Nat, opened : {"closed", "open", "elapsed"}]

(* Buckets never count below zero, and tickets, receipts and circuits have their shape. *)
TypeOK ==
    /\ remaining \in [Buckets -> Nat]
    /\ reserved \in [Buckets -> Nat]
    /\ settled \in [Buckets -> Nat]
    /\ due \subseteq Windowed
    /\ ticket \in [Calls -> Ticket]
    /\ flight \subseteq Sends
    /\ receipts \subseteq Receipt
    /\ keys \subseteq Sends
    /\ health \in [Routes -> Health]
    /\ reused \subseteq Calls

Init ==
    /\ remaining = Limit
    /\ reserved = [b \in Buckets |-> 0]
    /\ settled = [b \in Buckets |-> 0]
    /\ due = {}
    /\ ticket = [c \in Calls |-> [state |-> "none", phase |-> "reserved",
                                  route |-> CHOOSE r \in Routes : TRUE,
                                  late |-> FALSE, sent |-> FALSE, sends |-> 0]]
    /\ flight = {}
    /\ receipts = {}
    /\ keys = {}
    /\ health = [r \in Routes |-> [fails |-> 0, opened |-> "closed"]]
    /\ reused = {}

--------------------------------------------------------------------------------
(* Policy: AdmissionPolicy.evaluate with its defaults (no paid route, no unknown     *)
(* billing, a privacy reference for production).                                    *)

Evaluate(purpose, x) ==
    /\ ~x.deprecated
    /\ x.availability \notin {"retired", "disabled", "unavailable"}
    /\ purpose \in {"production", "mission"} => x.eligibility # "unknown"
    /\ purpose = "production" => x.private
    /\ x.billing # "paid"
    /\ x.billing = "unknown" => x.free /\ purpose \in {"probe", "benchmark", "catalog"}
    /\ x.qualified \/ purpose \in {"probe", "benchmark", "catalog", "planning"}

--------------------------------------------------------------------------------
(* Circuit breaker.                                                                *)

(* record_error: an authentication failure opens at once, others at the threshold. *)
AfterError(h, class) ==
    [fails |-> h.fails + 1,
     opened |-> IF class = "authentication" \/ h.fails + 1 >= FailureThreshold
                THEN "open" ELSE h.opened]

RecordError(r, class) == health' = [health EXCEPT ![r] = AfterError(@, class)]
RecordSuccess(r) == health' = [health EXCEPT ![r] = [fails |-> 0, opened |-> "closed"]]

(* assert_closed lets everything through, and forgets the failures, once the open   *)
(* period has elapsed.                                                             *)
AssertClosed(S) ==
    /\ \A r \in S : health[r].opened # "open"
    /\ health' = [r \in Routes |-> IF r \in S /\ health[r].opened = "elapsed"
                                   THEN [fails |-> 0, opened |-> "closed"] ELSE health[r]]

OpenForElapses(r) ==
    /\ health[r].opened = "open"
    /\ health' = [health EXCEPT ![r].opened = "elapsed"]
    /\ UNCHANGED <<ledger, ticket, flight, receipts, keys, reused>>

(* assess asks the policy and the circuit for every discovered route, or for the    *)
(* one the request names; a route whose circuit is open is only left out.           *)
Assess(c, S) ==
    /\ AssertClosed({r \in S : Evaluate(Purpose[c], Context[r]) /\ health[r].opened # "open"})
    /\ UNCHANGED <<ledger, ticket, flight, receipts, keys, reused>>

--------------------------------------------------------------------------------
(* Quota ledger.                                                                   *)

AtLeast(low, x) == IF x < low THEN low ELSE x

(* estimate_amounts, for the route's buckets and the benchmark envelope. *)
Amount(c, b) ==
    IF Dimension[b] = "output_tokens" THEN AtLeast(1, OutTokens[c])
    ELSE IF Dimension[b] \in TokenDimensions THEN AtLeast(1, InTokens[c] + OutTokens[c])
    ELSE 1

Charged(c, r) ==
    BucketsOf[r] \cup (IF Purpose[c] = "benchmark" THEN {Benchmark} \cap Buckets ELSE {})
Held(c) == Charged(c, ticket[c].route)

(* _maybe_reset: a window that is over is full again and holds nothing. *)
RemainingNow(b) == IF b \in due THEN Limit[b] ELSE remaining[b]
ReservedNow(b) == IF b \in due THEN 0 ELSE reserved[b]

EffectiveIgnoresHolds(b) == AtLeast(0, RemainingNow(b))
(* _effective_remaining. *)
Effective(b) == AtLeast(0, RemainingNow(b) - ReservedNow(b))

AdmitsAtFloor(c, r, b) ==
    IF b \in Unobserved THEN Purpose[c] \in {"probe", "catalog"} /\ r \in VerifiedFree
    ELSE /\ Effective(b) >= Amount(c, b)
         /\ b = Control /\ Purpose[c] \notin ProtectedPurposes => Effective(b) >= Floor
(* The preflight of one bucket: unknown capacity only for a verified probe, enough   *)
(* left, and the floor of the control bucket for purposes it does not belong to.     *)
Admits(c, r, b) ==
    IF b \in Unobserved THEN Purpose[c] \in {"probe", "catalog"} /\ r \in VerifiedFree
    ELSE /\ Effective(b) >= Amount(c, b)
         /\ b = Control /\ Purpose[c] \notin ProtectedPurposes
                => Effective(b) - Amount(c, b) >= Floor

(* The windows that are over are reset in the buckets B the preflight looked at, and  *)
(* again in those of late.                                                          *)
Reset(B, late) ==
    /\ remaining' = [b \in Buckets |-> IF b \in late THEN Limit[b]
                                       ELSE IF b \in B THEN RemainingNow(b) ELSE remaining[b]]
    /\ due' = due \ B

(* Policy, circuit, preflight of all buckets and the holds; a new ticket.  The        *)
(* bottleneck report at the end reads the clock and looks for windows once more: one  *)
(* that is over by then (a fixed window left idle for two periods is, because a reset *)
(* moves reset_at by one) drops the hold just taken.                                 *)
Reserve(c, r, late) ==
    LET B == Charged(c, r)
    IN  /\ ticket[c].state = "none"
        /\ Evaluate(Purpose[c], Context[r])
        /\ AssertClosed({r})
        /\ B # {}
        /\ \A b \in B : Admits(c, r, b)
        /\ late \subseteq B \cap Windowed
        /\ Reset(B, late)
        /\ reserved' = [b \in Buckets |->
               IF b \in late THEN 0
               ELSE IF b \in B
               THEN ReservedNow(b) + (IF b \in Unobserved THEN 0 ELSE Amount(c, b))
               ELSE reserved[b]]
        /\ ticket' = [ticket EXCEPT ![c].state = "open", ![c].route = r]
        /\ UNCHANGED <<settled, flight, receipts, keys, reused>>

(* A refused admission keeps the resets of the buckets up to the one that refused. *)
ReserveDenied(c, r) ==
    LET B == Charged(c, r)
        seen == {b \in B : \A x \in B : Rank[x] < Rank[b] => Admits(c, r, x)}
    IN  /\ ticket[c].state = "none"
        /\ Evaluate(Purpose[c], Context[r])
        /\ AssertClosed({r})
        /\ \E b \in B : ~Admits(c, r, b)
        /\ Reset(seen, {})
        /\ reserved' = [b \in Buckets |-> IF b \in seen THEN ReservedNow(b) ELSE reserved[b]]
        /\ UNCHANGED <<settled, ticket, flight, receipts, keys, reused>>

(* The holds of a ticket go: release, and the second half of settle. *)
GiveBack(c) ==
    [b \in Buckets |-> IF b \in Held(c) THEN AtLeast(0, reserved[b] - Amount(c, b))
                       ELSE reserved[b]]

(* What a settlement charges: the observed tokens up to the hold when the receipt    *)
(* reports them (usage), the hold otherwise.                                        *)
Charge(c, b, usage, observed) ==
    IF usage /\ Dimension[b] \in TokenDimensions /\ observed < Amount(c, b)
    THEN observed ELSE Amount(c, b)

(* settle, under the key of one receipt. *)
Settle(c, n, usage, observed) ==
    /\ remaining' = [b \in Buckets |->
           IF b \in Held(c) \ Unobserved
           THEN AtLeast(0, remaining[b] - Charge(c, b, usage, observed)) ELSE remaining[b]]
    /\ reserved' = GiveBack(c)
    /\ settled' = [b \in Buckets |->
           IF b \in Held(c) THEN settled[b] + Charge(c, b, usage, observed) ELSE settled[b]]
    /\ keys' = keys \cup {<<c, n>>}
    /\ UNCHANGED due

WindowEnds(b) ==
    /\ b \in Windowed \ due
    /\ due' = due \cup {b}
    /\ UNCHANGED <<remaining, reserved, settled, ticket, flight, receipts, keys, health, reused>>

--------------------------------------------------------------------------------
(* Tickets.                                                                        *)

HasReceipt(c) == \E x \in receipts : x.call = c
Reused(c, again) == reused' = IF again THEN reused \cup {c} ELSE reused
GivenBack(c) == ticket[c].state \in {"committed", "released", "expired"}

(* expires_at only matters while the ticket is unsent. *)
TicketExpires(c) ==
    /\ ticket[c].state # "none" /\ ~ticket[c].late /\ ticket[c].phase = "reserved"
    /\ ticket' = [ticket EXCEPT ![c].late = TRUE]
    /\ UNCHANGED <<ledger, flight, receipts, keys, health, reused>>

(* release the holds of an unsent ticket; it keeps its phase and stays in _tickets. *)
Release(c, state) ==
    /\ reserved' = GiveBack(c)
    /\ ticket' = [ticket EXCEPT ![c].state = state]
    /\ Reused(c, GivenBack(c))
    /\ UNCHANGED <<remaining, settled, due, keys>>

ExpireUnsent(c) ==
    /\ ticket[c].state # "none" /\ ~ticket[c].sent
    /\ Release(c, "expired")
    /\ UNCHANGED <<flight, receipts, health>>

(* invoke of a ticket that is past its expiry and was never sent. *)
InvokeExpired(c) ==
    /\ ticket[c].state # "none"
    /\ ticket[c].late /\ ticket[c].phase = "reserved"
    /\ Release(c, "expired")
    /\ UNCHANGED <<flight, receipts, health>>

(* invoke up to the adapter: only a recorded receipt answers a repeated call. *)
InvokeSend(c) ==
    /\ ticket[c].state # "none" /\ ticket[c].sends < MaxSends
    /\ ticket[c].sends = 0 \/ c \in Resent
    /\ ~(ticket[c].sent /\ HasReceipt(c))
    /\ ~(ticket[c].late /\ ticket[c].phase = "reserved")
    /\ ticket' = [ticket EXCEPT ![c].phase = "sending", ![c].sent = TRUE, ![c].sends = @ + 1]
    /\ flight' = flight \cup {<<c, ticket[c].sends + 1>>}
    /\ Reused(c, ticket[c].sent \/ GivenBack(c))
    /\ UNCHANGED <<ledger, receipts, keys, health>>

(* The adapter's await ends for this invocation, which leaves the receipt x. *)
Lands(c, n, x) ==
    /\ <<c, n>> \in flight
    /\ flight' = flight \ {<<c, n>>}
    /\ receipts' = receipts \cup {x}

(* An answer, a provider's refusal included, is a success for the circuit and settles. *)
(* A refusal reports no tokens, an answer may.                                        *)
InvokeAnswered(c, n, class, usage, observed) ==
    /\ class \in {"none"} \cup Refusals
    /\ usage => class = "none"
    /\ Lands(c, n, [call |-> c, send |-> n, class |-> class, usage |-> usage])
    /\ RecordSuccess(ticket[c].route)
    /\ Settle(c, n, usage, observed)
    /\ ticket' = [ticket EXCEPT ![c].state = "committed", ![c].phase = "settled"]
    /\ UNCHANGED reused

InvokeAmbiguousReleases(c, n, usage) ==
    /\ Lands(c, n, [call |-> c, send |-> n, class |-> "ambiguous", usage |-> usage])
    /\ RecordError(ticket[c].route, "ambiguous")
    /\ ticket' = [ticket EXCEPT ![c].state = "unknown", ![c].phase = "unknown"]
    /\ reserved' = GiveBack(c)
    /\ UNCHANGED <<remaining, settled, due, keys, reused>>
(* A partial stream or an unknown outcome: the holds stay until someone reconciles. *)
InvokeAmbiguous(c, n, usage) ==
    /\ Lands(c, n, [call |-> c, send |-> n, class |-> "ambiguous", usage |-> usage])
    /\ RecordError(ticket[c].route, "ambiguous")
    /\ ticket' = [ticket EXCEPT ![c].state = "unknown", ![c].phase = "unknown"]
    /\ UNCHANGED <<ledger, keys, reused>>

(* The adapter raises: a receipt without usage is made up and the holds stay ... *)
InvokeRaised(c, n, class) ==
    /\ class \in {"authentication", "ambiguous"}
    /\ ticket[c].phase \in {"sending", "unknown"}
    /\ Lands(c, n, [call |-> c, send |-> n, class |-> class, usage |-> FALSE])
    /\ RecordError(ticket[c].route, class)
    /\ ticket' = [ticket EXCEPT ![c].state = "unknown", ![c].phase = "unknown"]
    /\ UNCHANGED <<ledger, keys, reused>>

(* ... unless another invocation settled the ticket meanwhile: then they go again. *)
InvokeRaisedSettled(c, n, class) ==
    /\ class \in {"authentication", "ambiguous"}
    /\ ticket[c].phase = "settled"
    /\ <<c, n>> \in flight
    /\ flight' = flight \ {<<c, n>>}
    /\ RecordError(ticket[c].route, class)
    /\ Release(c, "released")
    /\ UNCHANGED receipts

(* Cancellation of the awaiting task is no Exception: nothing is recorded. *)
InvokeCancelled(c, n) ==
    /\ <<c, n>> \in flight
    /\ flight' = flight \ {<<c, n>>}
    /\ UNCHANGED <<ledger, ticket, receipts, keys, health, reused>>

UnsettledAny(x) == TRUE
(* A settlement key is used once. *)
Unsettled(x) == <<x.call, x.send>> \notin keys

(* reconcile of a receipt that invoke left unsettled. *)
Reconcile(x, observed) ==
    /\ x \in receipts
    /\ Unsettled(x)
    /\ Settle(x.call, x.send, x.usage, observed)
    /\ ticket' = [ticket EXCEPT ![x.call].state = "committed", ![x.call].phase = "settled"]
    /\ Reused(x.call, GivenBack(x.call))
    /\ UNCHANGED <<flight, receipts, health>>

Next ==
    \/ \E c \in Calls, S \in SUBSET Routes : Assess(c, S)
    \/ \E c \in Calls, r \in Routes :
          ReserveDenied(c, r) \/ \E late \in SUBSET Windowed : Reserve(c, r, late)
    \/ \E c \in Calls :
          \/ ExpireUnsent(c) \/ InvokeExpired(c) \/ InvokeSend(c) \/ TicketExpires(c)
          \/ \E n \in 1..MaxSends :
                \/ \E usage \in BOOLEAN :
                      \/ \E class \in {"none"} \cup Refusals, observed \in 0..MaxObserved :
                            InvokeAnswered(c, n, class, usage, observed)
                      \/ InvokeAmbiguous(c, n, usage)
                \/ \E class \in {"authentication", "ambiguous"} :
                      InvokeRaised(c, n, class) \/ InvokeRaisedSettled(c, n, class)
                \/ InvokeCancelled(c, n)
    \/ \E x \in receipts, observed \in 0..MaxObserved : Reconcile(x, observed)
    \/ \E b \in Buckets : WindowEnds(b)
    \/ \E r \in Routes : OpenForElapses(r)

Spec == Init /\ [][Next]_vars

--------------------------------------------------------------------------------
(* What the ledger promises.                                                       *)

(* The holds on a bucket never exceed what is left of it and what is left never      *)
(* exceeds its limit, whatever the callers do with their tickets and whenever its    *)
(* window ends: reserve, release and settle keep the ledger's own books balanced.    *)
HoldsFitRemaining ==
    \A b \in Buckets \ Unobserved : reserved[b] <= remaining[b] /\ remaining[b] <= Limit[b]

Outstanding(b) == {c \in Calls : ticket[c].state \in {"open", "unknown"} /\ b \in Held(c)}
Units(C, b) == UNION {{c} \X (1..Amount(c, b)) : c \in C}
HoldsOf(C, b) == Cardinality(Units(C, b)) \* the sum of their amounts

(* As long as no ticket is used again after it was sent or given back, a bucket      *)
(* without windows holds exactly the amounts of the tickets that are open or whose   *)
(* outcome is unknown: an ambiguous or cancelled send keeps its reservation, every   *)
(* other end of a call returns it once.                                             *)
HoldsAreTheTickets ==
    reused = {} => \A b \in Buckets \ (Windowed \cup Unobserved) :
                       reserved[b] = HoldsOf(Outstanding(b), b)

(* A settlement key charges once: in a bucket that counts requests, what was settled *)
(* is the number of keys, although receipts are reconciled late, twice or for a      *)
(* ticket that was sent twice.                                                      *)
EveryKeyChargesOnce ==
    \A b \in Buckets : Dimension[b] \notin TokenDimensions =>
        settled[b] = Cardinality({k \in keys : b \in Held(k[1])})

Spare == remaining[Control] - reserved[Control]
Admitted(c) == ticket[c].state = "none" /\ ticket'[c].state = "open"

(* What is free of the control bucket falls below its floor only by admitting a      *)
(* planning, review or control request: neither the admission of other purposes nor  *)
(* the settlement of what they hold eats into it (tickets not reused, no window).    *)
FloorIsForControl ==
    [][(/\ Control \in Buckets \ (Windowed \cup Unobserved)
        /\ reused' = {}
        /\ Spare' < Spare /\ Spare' < Floor)
       => \E c \in Calls : Admitted(c) /\ Purpose[c] \in ProtectedPurposes]_vars

(* A circuit is shut exactly while fewer failures than the threshold are on record,  *)
(* an open one has failures: successes, half-open resets and errors of calls admitted *)
(* before it opened, arriving in any order, keep stamp and counter together.         *)
CircuitTellsFailures ==
    \A r \in Routes : /\ health[r].fails >= FailureThreshold => health[r].opened # "closed"
                      /\ health[r].opened # "closed" => health[r].fails > 0
================================================================================
