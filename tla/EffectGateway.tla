----------------------------- MODULE EffectGateway -----------------------------
(***************************************************************************)
(* Consequential tool effects: ConsequentialToolGateway                     *)
(* (src/swarm/tools/v17_gateway.py) over DurableEffectRepository            *)
(* (src/swarm/tools/effects.py) and the three integration adapters.         *)
(*                                                                         *)
(* The state is the approvals, action_effects and action_receipts rows, the *)
(* outside world the adapters act on, and one call in flight per process.   *)
(* Every repository method is one short transaction that commits before it  *)
(* returns, so a call is a sequence of actions, one per transaction and one *)
(* for the adapter's side effect, and a process may crash between any two.  *)
(* The fences a gateway compares an envelope with are the numbers it was    *)
(* constructed with: execute_envelope passes fence_reader=None.             *)
(***************************************************************************)
EXTENDS Integers, FiniteSets, Sequences

CONSTANTS Procs,        \* processes, each with one gateway over the shared database
          Keys,         \* effect keys of one project
          Approvals,    \* approval ids
          NoApproval,   \* approval_id is NULL
          NeedsApproval,\* keys of consequential, irreversible or risky operations
          AdapterOf,    \* integration class of a key
          Covers,       \* keys whose binding a grant names exactly
          MaxUses,      \* max_effect_count of a grant
          MaxGeneration \* bound on the cancellation generation

EffectStates == {"none", "reserved", "executing", "unknown", "succeeded", "failed",
                 "denied", "cancelled"}
FinalizableEvenFailed == {"executing", "unknown", "failed"}
Finalizable == {"executing", "unknown"}
Terminal == {"succeeded", "failed", "denied", "cancelled"}

ASSUME EffectAssumption ==
    /\ NoApproval \notin Approvals
    /\ NeedsApproval \subseteq Keys
    /\ AdapterOf \in [Keys -> {"api", "browser", "local"}]
    /\ Covers \in [Approvals -> SUBSET Keys]
    /\ MaxUses \in [Approvals -> Nat \ {0}]
    /\ IsFiniteSet(Keys)
    /\ Keys # {}
    /\ MaxGeneration \in Nat

VARIABLES
    approval,   \* approvals rows
    effect,     \* action_effects rows
    receipts,   \* action_receipts of a key, by attempt_number
    calls,      \* how often the adapter ran for a key (the outside world)
    applied,    \* whether the outside effect of a key took place
    generation, \* the cancellation generation its owner holds
    view,       \* the generation a process's gateway was constructed with
    submitted,  \* BrowserSessionAdapter._submitted of a process
    call        \* what each process is doing

store == <<approval, effect, receipts>>
world == <<calls, applied, generation>>
vars == <<store, world, view, submitted, call>>

ApprovalRow == [exists : BOOLEAN, revoked : BOOLEAN, expired : BOOLEAN, used : Nat]
\* consumer is which grant approval_consumed_at was set for: the row keeps only the time.
EffectRow == [state : EffectStates, approval : Approvals \cup {NoApproval},
              consumer : Approvals \cup {NoApproval}, consumed : BOOLEAN]
Receipt == [outcome : EffectStates, reconciled : BOOLEAN]
Call == [pc : {"idle", "looked", "approved", "reserved", "admitted", "answered"},
         key : Keys, approval : Approvals \cup {NoApproval},
         held : BOOLEAN, state : EffectStates, reconciled : BOOLEAN]

(* Rows, receipts and calls have the shape the code gives them. *)
TypeOK ==
    /\ approval \in [Approvals -> ApprovalRow]
    /\ effect \in [Keys -> EffectRow]
    /\ receipts \in [Keys -> Seq(Receipt)]
    /\ calls \in [Keys -> Nat]
    /\ applied \in [Keys -> BOOLEAN]
    /\ generation \in Nat
    /\ view \in [Procs -> Nat]
    /\ submitted \in [Procs -> SUBSET Keys]
    /\ call \in [Procs -> Call]

Idle == [pc |-> "idle", key |-> CHOOSE k \in Keys : TRUE, approval |-> NoApproval,
         held |-> FALSE, state |-> "none", reconciled |-> FALSE]

Init ==
    /\ approval = [a \in Approvals |->
                      [exists |-> FALSE, revoked |-> FALSE, expired |-> FALSE, used |-> 0]]
    /\ effect = [k \in Keys |-> [state |-> "none", approval |-> NoApproval,
                                 consumer |-> NoApproval, consumed |-> FALSE]]
    /\ receipts = [k \in Keys |-> <<>>]
    /\ calls = [k \in Keys |-> 0]
    /\ applied = [k \in Keys |-> FALSE]
    /\ generation = 0
    /\ view = [p \in Procs |-> 0]
    /\ submitted = [p \in Procs |-> {}]
    /\ call = [p \in Procs |-> Idle]

--------------------------------------------------------------------------------
(* Approvals: insert-only, monotonic revocation, expiry by the database clock.     *)

PutApproval(a) ==
    /\ ~approval[a].exists
    /\ approval' = [approval EXCEPT ![a].exists = TRUE]
    /\ UNCHANGED <<effect, receipts, world, view, submitted, call>>

RevokeApproval(a) ==
    /\ approval[a].exists /\ ~approval[a].revoked
    /\ approval' = [approval EXCEPT ![a].revoked = TRUE]
    /\ UNCHANGED <<effect, receipts, world, view, submitted, call>>

Expire(a) ==
    /\ approval[a].exists /\ ~approval[a].expired
    /\ approval' = [approval EXCEPT ![a].expired = TRUE]
    /\ UNCHANGED <<effect, receipts, world, view, submitted, call>>

Valid(a) == a \in Approvals /\ approval[a].exists /\ ~approval[a].revoked /\ ~approval[a].expired
HasUse(a) == approval[a].used < MaxUses[a]

(* The owner of the generation cancels work; a gateway sees it when it is rebuilt. *)
BumpCancellation ==
    /\ generation < MaxGeneration
    /\ generation' = generation + 1
    /\ UNCHANGED <<store, calls, applied, view, submitted, call>>

NewGateway(p) ==
    /\ call[p].pc = "idle"
    /\ view[p] # generation
    /\ view' = [view EXCEPT ![p] = generation]
    /\ UNCHANGED <<store, world, submitted, call>>

--------------------------------------------------------------------------------
(* execute_envelope, up to the admission.  A call that is refused ends: the error   *)
(* leaves the rows alone.                                                          *)

End(p) == call' = [call EXCEPT ![p] = Idle]

(* Policy, generations (the envelope's against the gateway's own) and the read of   *)
(* the effect row; a succeeded row is replayed from its receipt, an unknown one is  *)
(* handed to reconciliation.                                                       *)
Execute(p, k, a) ==
    /\ call[p].pc = "idle"
    /\ k \in NeedsApproval => a # NoApproval
    /\ effect[k].state \notin {"succeeded", "unknown"}
    /\ call' = [call EXCEPT ![p] =
            [Idle EXCEPT !.pc = "looked", !.key = k, !.approval = a,
                         !.held = effect[k].consumed /\ effect[k].approval = a]]
    /\ UNCHANGED <<store, world, view, submitted>>

(* _require_exact_approval: a grant already consumed by this effect is no second use. *)
ExactApproval(k, a, held) ==
    k \in NeedsApproval => Valid(a) /\ k \in Covers[a] /\ (held \/ HasUse(a))

RequireExactApproval(p) ==
    /\ call[p].pc = "looked"
    /\ IF ExactApproval(call[p].key, call[p].approval, call[p].held)
       THEN call' = [call EXCEPT ![p].pc = "approved"]
       ELSE End(p)
    /\ UNCHANGED <<store, world, view, submitted>>

(* INSERT ... ON CONFLICT DO NOTHING on (project, effect key). *)
Reserve(p) ==
    LET k == call[p].key
    IN  /\ call[p].pc = "approved"
        /\ effect' = IF effect[k].state # "none" THEN effect
                     ELSE [effect EXCEPT ![k].state = "reserved", ![k].approval = call[p].approval]
        /\ call' = [call EXCEPT ![p].pc = "reserved"]
        /\ UNCHANGED <<approval, receipts, world, view, submitted>>

ConsumableAnyUse(k, a) == a # NoApproval => Valid(a)
(* _consume_approval: a use the first time, validity every time. *)
Consumable(k, a) == a # NoApproval => Valid(a) /\ (effect[k].consumed \/ HasUse(a))

ExecutableAgain(k) == effect[k].state \in {"reserved", "executing"}
(* No caller finalizes with state_reason "not_applied", which would re-arm a failed row. *)
Executable(k) == effect[k].state = "reserved"

UsesUnlessNamed(k, a) == a # NoApproval /\ effect[k].approval # a
\* Whether the admission takes a use: an effect consumes its grant once.
Uses(k, a) == a # NoApproval /\ ~effect[k].consumed

(* begin_execution: consumption and compare-and-swap in one transaction, on the     *)
(* effect row's lock; when either is refused the transaction rolls both back.       *)
BeginExecution(p) ==
    LET k == call[p].key  a == call[p].approval
    IN  /\ call[p].pc = "reserved"
        /\ Consumable(k, a)
        /\ Executable(k)
        /\ approval' = IF Uses(k, a) THEN [approval EXCEPT ![a].used = @ + 1] ELSE approval
        /\ effect' = [effect EXCEPT ![k].state = "executing", ![k].consumed = @ \/ Uses(k, a),
                                    ![k].consumer = IF Uses(k, a) THEN a ELSE @]
        /\ call' = [call EXCEPT ![p].pc = "admitted"]
        /\ UNCHANGED <<receipts, world, view, submitted>>

BeginRefused(p) ==
    /\ call[p].pc = "reserved"
    /\ ~(Consumable(call[p].key, call[p].approval) /\ Executable(call[p].key))
    /\ End(p)
    /\ UNCHANGED <<store, world, view, submitted>>

--------------------------------------------------------------------------------
(* The adapter runs, then the outcome is recorded.                                *)

(* What an adapter's execute may report, with whether the effect took place: a      *)
(* transport may lose the answer or raise after it delivered, a browser session may *)
(* be signed out or the operation unknown to it, a file write may fail half way.    *)
Reported(outcomes, tookPlace) == [outcome : outcomes, applied : tookPlace]
ApiResults == Reported({"unknown", "raised"}, BOOLEAN) \cup Reported({"cancelled"}, {FALSE})
BrowserResults == Reported({"denied", "failed"}, {FALSE})
LocalResults == Reported({"raised"}, BOOLEAN)
AdapterResults(k) ==
    Reported({"succeeded"}, {TRUE}) \cup
        CASE AdapterOf[k] = "api" -> ApiResults
          [] AdapterOf[k] = "browser" -> BrowserResults
          [] AdapterOf[k] = "local" -> LocalResults

(* The state a reported outcome is recorded as: an exception as failed, and every   *)
(* outcome that is not unknown, denied or cancelled as succeeded.                  *)
StateOf(outcome) == CASE outcome = "raised" -> "failed"
                      [] outcome \in {"unknown", "denied", "cancelled"} -> outcome
                      [] OTHER -> "succeeded"

AdapterExecute(p) ==
    LET k == call[p].key
    IN  /\ call[p].pc = "admitted"
        /\ \E res \in AdapterResults(k) :
              /\ applied' = [applied EXCEPT ![k] = @ \/ res.applied]
              /\ submitted' = [submitted EXCEPT ![p] =
                    IF AdapterOf[k] = "browser" /\ res.applied THEN @ \cup {k} ELSE @]
              /\ call' = [call EXCEPT ![p].pc = "answered", ![p].state = StateOf(res.outcome)]
        /\ calls' = [calls EXCEPT ![k] = @ + 1]
        /\ UNCHANGED <<store, generation, view>>

(* _insert_receipt: attempt_number is one more than the largest of the effect. *)
Recorded(k, c) == Append(receipts[k], [outcome |-> c.state, reconciled |-> c.reconciled])

(* finalize_with_receipt: UPDATE ... WHERE state IN (executing, unknown) and the    *)
(* receipt in one transaction; no row matched is finalize_state_conflict.          *)
FinalizeWithReceipt(p) ==
    LET k == call[p].key
    IN  /\ call[p].pc = "answered"
        /\ IF effect[k].state \in Finalizable
           THEN /\ effect' = [effect EXCEPT ![k].state = call[p].state]
                /\ receipts' = [receipts EXCEPT ![k] = Recorded(k, call[p])]
           ELSE UNCHANGED <<effect, receipts>>
        /\ End(p)
        /\ UNCHANGED <<approval, world, view, submitted>>

(* The adapters' reconcile: the API adapter looks for the latest receipt that says  *)
(* succeeded or unknown, the browser adapter in its own memory, the local adapter   *)
(* for the file (which some other writer may have left there).                     *)
ApiReconcile(k) ==
    LET telling == {i \in DOMAIN receipts[k] : receipts[k][i].outcome \in {"succeeded", "unknown"}}
    IN  IF telling = {} THEN {"failed"}
        ELSE {receipts[k][i].outcome : i \in {i \in telling : \A j \in telling : j <= i}}
BrowserReconcile(p, k) == IF k \in submitted[p] THEN {"succeeded"} ELSE {"unknown"}
LocalReconcile(k) == IF applied[k] THEN {"succeeded"} ELSE {"succeeded", "failed"}
ReconcileResults(p, k) ==
    CASE AdapterOf[k] = "api" -> ApiReconcile(k)
      [] AdapterOf[k] = "browser" -> BrowserReconcile(p, k)
      [] AdapterOf[k] = "local" -> LocalReconcile(k)

(* reconcile, called by an operator for any effect row or by execute_envelope for    *)
(* an unknown one; the state of the row is not looked at.  A result that is still    *)
(* unknown raises and changes nothing.                                              *)
Reconcile(p, k) ==
    /\ call[p].pc = "idle"
    /\ effect[k].state # "none"
    /\ \E state \in ReconcileResults(p, k) \ {"unknown"} :
          call' = [call EXCEPT ![p] = [Idle EXCEPT !.pc = "answered", !.key = k, !.state = state,
                                                   !.reconciled = TRUE]]
    /\ UNCHANGED <<store, world, view, submitted>>

(* A crash ends the call and loses the adapter's memory. *)
Crash(p) ==
    /\ call[p].pc # "idle" \/ submitted[p] # {}
    /\ End(p)
    /\ submitted' = [submitted EXCEPT ![p] = {}]
    /\ view' = [view EXCEPT ![p] = generation]
    /\ UNCHANGED <<store, world>>

ApprovalNext == \E a \in Approvals : PutApproval(a) \/ RevokeApproval(a) \/ Expire(a)

CallNext ==
    \E p \in Procs :
        \/ \E k \in Keys, a \in Approvals \cup {NoApproval} : Execute(p, k, a)
        \/ RequireExactApproval(p)
        \/ Reserve(p)
        \/ BeginExecution(p)
        \/ BeginRefused(p)
        \/ AdapterExecute(p)
        \/ FinalizeWithReceipt(p)
        \/ \E k \in Keys : Reconcile(p, k)
        \/ NewGateway(p)
        \/ Crash(p)

Next == ApprovalNext \/ CallNext \/ BumpCancellation

Spec == Init /\ [][Next]_vars

--------------------------------------------------------------------------------
(* Safety.                                                                        *)

(* begin_execution admits one attempt per effect key, whatever processes race,      *)
(* crash, retry or reconcile: the adapter runs at most once for it.                 *)
AtMostOneExecution == \A k \in Keys : calls[k] <= 1

(* Between admission and the adapter's run the effect belongs to one process.       *)
AdmissionExclusive ==
    /\ \A k \in Keys : effect[k].state \in {"none", "reserved"} => calls[k] = 0
    /\ \A p \in Procs : call[p].pc = "admitted" =>
          /\ effect[call[p].key].state \notin {"none", "reserved"}
          /\ calls[call[p].key] = 0
          /\ \A q \in Procs : call[q].pc = "admitted" /\ call[q].key = call[p].key => q = p

(* What a call has to record is an outcome, never a state before the admission.     *)
AnswerRecordable ==
    \A p \in Procs : call[p].pc = "answered" => call[p].state \in Terminal \cup {"unknown"}

(* The inductive invariant behind AtMostOneExecution. *)
ExecutionInv == AtMostOneExecution /\ AdmissionExclusive /\ AnswerRecordable

(* _consume_approval: the uses of a grant are the effects that consumed it, never   *)
(* more than max_effect_count, and an effect consumes at most one.                 *)
UsesAreEffects ==
    \A a \in Approvals :
        /\ approval[a].used = Cardinality({k \in Keys : effect[k].consumer = a})
        /\ approval[a].used <= MaxUses[a]

(* A call past its approval check holds a grant that names its key, and an effect   *)
(* that was not admitted consumed nothing: what makes the two properties of grants  *)
(* inductive.                                                                      *)
ApprovalPending ==
    /\ \A k \in Keys : effect[k].state \in {"none", "reserved"} => ~effect[k].consumed
    /\ \A k \in Keys : ~effect[k].consumed => effect[k].consumer = NoApproval
    /\ \A p \in Procs : call[p].pc \in {"approved", "reserved"} /\ call[p].key \in NeedsApproval =>
          call[p].approval \in Approvals /\ call[p].key \in Covers[call[p].approval]

(* A consequential effect that was ever admitted consumed a grant that names it     *)
(* exactly: the approval validated before the reservation is the one consumed.      *)
AdmittedIsApproved ==
    \A k \in NeedsApproval : effect[k].state \notin {"none", "reserved"} =>
        /\ effect[k].consumed
        /\ effect[k].consumer \in Approvals
        /\ k \in Covers[effect[k].consumer]

(* finalize_with_receipt: state and receipt change together, so a succeeded effect  *)
(* has the receipt a replay returns, and the latest receipt tells the state.        *)
ReceiptTellsState ==
    \A k \in Keys :
        LET n == Len(receipts[k])
        IN  IF effect[k].state \in Terminal \cup {"unknown"}
            THEN n > 0 /\ receipts[k][n].outcome = effect[k].state
            ELSE n = 0

(* A terminal effect keeps its state and its receipts: a late executor, a late      *)
(* reconciliation or a retry adds nothing.                                         *)
TerminalIsFinal ==
    [][\A k \in Keys : effect[k].state \in Terminal =>
          effect'[k].state = effect[k].state /\ receipts'[k] = receipts[k]]_vars
================================================================================
