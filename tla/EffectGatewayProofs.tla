-------------------------- MODULE EffectGatewayProofs --------------------------
(* Proofs about EffectGateway, for any number of processes, keys and grants. *)
EXTENDS EffectGateway, FiniteSetTheorems, TLAPS

(* The call a process rests in is a call. *)
LEMMA IdleType == Idle \in Call
  <1>1. (CHOOSE k \in Keys : TRUE) \in Keys
    BY EffectAssumption
  <1>2. QED
    BY <1>1 DEF Idle, Call, EffectStates

(* The state an adapter's outcome is recorded as is a state of the row. *)
LEMMA StateOfType == \A o : StateOf(o) \in EffectStates
  BY DEF StateOf, EffectStates

(* What an adapter's reconcile answers is a state of the row. *)
LEMMA ReconcileType ==
    ASSUME TypeOK, NEW p \in Procs, NEW k \in Keys, NEW state \in ReconcileResults(p, k)
    PROVE  state \in EffectStates
  <1>1. \A i \in DOMAIN receipts[k] : receipts[k][i].outcome \in EffectStates
    <2>1. receipts[k] \in Seq(Receipt)
      BY DEF TypeOK
    <2>2. \A i \in DOMAIN receipts[k] : receipts[k][i] \in Receipt
      BY <2>1
    <2>3. QED
      BY <2>2 DEF Receipt
  <1>2. CASE AdapterOf[k] = "api"
    BY <1>1, <1>2 DEF ReconcileResults, ApiReconcile, EffectStates
  <1>3. CASE AdapterOf[k] = "browser"
    BY <1>3 DEF ReconcileResults, BrowserReconcile, EffectStates
  <1>4. CASE AdapterOf[k] = "local"
    BY <1>4 DEF ReconcileResults, LocalReconcile, EffectStates
  <1>5. QED
    BY <1>2, <1>3, <1>4, EffectAssumption

(* Counting a use keeps the shape of an approval row. *)
LEMMA UseType == \A row \in ApprovalRow : [row EXCEPT !.used = row.used + 1] \in ApprovalRow
  BY DEF ApprovalRow

(* Every action keeps the shape of the rows and of the calls. *)
LEMMA TypeStep == TypeOK /\ [Next]_vars => TypeOK'
  <1> SUFFICES ASSUME TypeOK, [Next]_vars PROVE TypeOK'
    OBVIOUS
  <1> USE DEF TypeOK, store, world
  <1>1. ASSUME NEW a \in Approvals, PutApproval(a) \/ RevokeApproval(a) \/ Expire(a) PROVE TypeOK'
    BY <1>1 DEF PutApproval, RevokeApproval, Expire, ApprovalRow
  <1>2. CASE BumpCancellation
    BY <1>2 DEF BumpCancellation
  <1>3. ASSUME NEW p \in Procs, NewGateway(p) PROVE TypeOK'
    BY <1>3 DEF NewGateway
  <1>4. ASSUME NEW p \in Procs, NEW k \in Keys, NEW a \in Approvals \cup {NoApproval}, Execute(p, k, a)
        PROVE  TypeOK'
    BY <1>4, IdleType DEF Execute, Call, EffectRow
  <1>5. ASSUME NEW p \in Procs, RequireExactApproval(p) PROVE TypeOK'
    <2>1. call' \in [Procs -> Call]
      <3>1. CASE call' = [call EXCEPT ![p].pc = "approved"]
        BY <3>1 DEF Call
      <3>2. CASE End(p)
        BY <3>2, IdleType DEF End
      <3>3. QED
        BY <1>5, <3>1, <3>2 DEF RequireExactApproval
    <2>2. QED
      BY <1>5, <2>1 DEF RequireExactApproval
  <1>6. ASSUME NEW p \in Procs, Reserve(p) PROVE TypeOK'
    <2>1. call[p].key \in Keys /\ call[p].approval \in Approvals \cup {NoApproval}
      BY DEF Call
    <2>2. effect' \in [Keys -> EffectRow]
      <3>1. CASE effect' = effect
        BY <3>1
      <3>2. CASE effect' = [effect EXCEPT ![call[p].key].state = "reserved",
                                          ![call[p].key].approval = call[p].approval]
        <4>1. effect[call[p].key] \in EffectRow /\ "reserved" \in EffectStates
          BY <2>1 DEF EffectStates
        <4>2. effect' = [effect EXCEPT ![call[p].key] =
                [effect[call[p].key] EXCEPT !.state = "reserved", !.approval = call[p].approval]]
          BY <3>2
        <4>3. [effect[call[p].key] EXCEPT !.state = "reserved", !.approval = call[p].approval] \in EffectRow
          BY <2>1, <4>1 DEF EffectRow
        <4>4. QED
          BY <2>1, <4>2, <4>3
      <3>3. QED
        BY <1>6, <3>1, <3>2 DEF Reserve
    <2>3. call' \in [Procs -> Call]
      BY <1>6 DEF Reserve, Call
    <2>4. QED
      BY <1>6, <2>2, <2>3 DEF Reserve
  <1>7. ASSUME NEW p \in Procs, BeginExecution(p) PROVE TypeOK'
    <2>1. call[p].key \in Keys /\ call[p].approval \in Approvals \cup {NoApproval}
      BY <1>7 DEF Call
    <2>2. approval' \in [Approvals -> ApprovalRow]
      <3>1. CASE UNCHANGED approval
        BY <3>1
      <3>2. CASE /\ call[p].approval \in Approvals
                 /\ approval' = [approval EXCEPT ![call[p].approval].used = @ + 1]
        <4>1. approval[call[p].approval] \in ApprovalRow
          BY <3>2
        <4>2. [approval[call[p].approval] EXCEPT !.used = @ + 1] \in ApprovalRow
          BY <4>1, UseType
        <4>3. QED
          BY <3>2, <4>2
      <3>3. QED
        <4>1. CASE call[p].approval # NoApproval /\ ~effect[call[p].key].consumed
          BY <1>7, <2>1, <3>2, <4>1 DEF BeginExecution, Uses
        <4>2. CASE ~(call[p].approval # NoApproval /\ ~effect[call[p].key].consumed)
          BY <1>7, <3>1, <4>2 DEF BeginExecution, Uses
        <4>3. QED
          BY <4>1, <4>2
    <2>3. effect' \in [Keys -> EffectRow]
      <3> DEFINE k == call[p].key
                 uses == call[p].approval # NoApproval /\ ~effect[k].consumed
                 grant == IF uses THEN call[p].approval ELSE effect[k].consumer
      <3>1. effect' = [effect EXCEPT ![k].state = "executing", ![k].consumed = @ \/ uses,
                                     ![k].consumer = grant]
        BY <1>7, <2>1 DEF BeginExecution, Uses, EffectRow
      <3>2. effect[k] \in EffectRow /\ (effect[k].consumed \/ uses) \in BOOLEAN
            /\ grant \in Approvals \cup {NoApproval}
        BY <2>1 DEF EffectRow
      <3> HIDE DEF grant, uses
      <3>3. QED
        BY <2>1, <3>1, <3>2 DEF EffectRow, EffectStates
    <2>4. call' \in [Procs -> Call]
      BY <1>7 DEF BeginExecution, Uses, Call
    <2>5. QED
      BY <1>7, <2>2, <2>3, <2>4 DEF BeginExecution, Uses
  <1>8. ASSUME NEW p \in Procs, BeginRefused(p) PROVE TypeOK'
    BY <1>8, IdleType DEF BeginRefused, End
  <1>9. ASSUME NEW p \in Procs, AdapterExecute(p) PROVE TypeOK'
    <2> DEFINE k == call[p].key
    <2>1. k \in Keys
      BY DEF Call
    <2>2. PICK res \in AdapterResults(k) :
              /\ applied' = [applied EXCEPT ![k] = @ \/ res.applied]
              /\ submitted' = [submitted EXCEPT ![p] =
                    IF AdapterOf[k] = "browser" /\ res.applied THEN @ \cup {k} ELSE @]
              /\ call' = [call EXCEPT ![p].pc = "answered", ![p].state = StateOf(res.outcome)]
      BY <1>9 DEF AdapterExecute
    <2>3. res.applied \in BOOLEAN
      <3>1. CASE AdapterOf[k] = "api"
        BY <3>1 DEF AdapterResults, ApiResults, Reported
      <3>2. CASE AdapterOf[k] = "browser"
        BY <3>2 DEF AdapterResults, BrowserResults, Reported
      <3>3. CASE AdapterOf[k] = "local"
        BY <3>3 DEF AdapterResults, LocalResults, Reported
      <3>4. QED
        BY <2>1, <3>1, <3>2, <3>3, EffectAssumption
    <2>4. applied' \in [Keys -> BOOLEAN]
      BY <2>1, <2>2, <2>3
    <2>5. submitted' \in [Procs -> SUBSET Keys]
      BY <2>1, <2>2
    <2>6. call' \in [Procs -> Call]
      <3>1. PICK state \in EffectStates :
                call' = [call EXCEPT ![p].pc = "answered", ![p].state = state]
        BY <2>2, StateOfType
      <3>2. QED
        <4>1. call' = [call EXCEPT ![p] = [call[p] EXCEPT !.pc = "answered", !.state = state]]
          BY <3>1
        <4>2. [call[p] EXCEPT !.pc = "answered", !.state = state] \in Call
          BY DEF Call
        <4>3. QED
          BY <4>1, <4>2
    <2>7. calls' \in [Keys -> Nat]
      BY <1>9, <2>1 DEF AdapterExecute
    <2>8. QED
      BY <1>9, <2>4, <2>5, <2>6, <2>7 DEF AdapterExecute
  <1>10. ASSUME NEW p \in Procs, FinalizeWithReceipt(p) PROVE TypeOK'
    <2> DEFINE k == call[p].key
    <2>1. k \in Keys /\ call[p].state \in EffectStates /\ call[p].reconciled \in BOOLEAN
      BY DEF Call
    <2>2. Recorded(k, call[p]) \in Seq(Receipt)
      <3>1. receipts[k] \in Seq(Receipt)
        BY <2>1
      <3>2. [outcome |-> call[p].state, reconciled |-> call[p].reconciled] \in Receipt
        BY <2>1 DEF Receipt
      <3>3. QED
        BY <3>1, <3>2 DEF Recorded
    <2>3. effect' \in [Keys -> EffectRow] /\ receipts' \in [Keys -> Seq(Receipt)]
      <3>1. CASE effect[k].state \in Finalizable
        <4>1. effect' = [effect EXCEPT ![k].state = call[p].state]
              /\ receipts' = [receipts EXCEPT ![k] = Recorded(k, call[p])]
          BY <1>10, <3>1 DEF FinalizeWithReceipt
        <4>2. effect' \in [Keys -> EffectRow]
          BY <2>1, <4>1 DEF EffectRow
        <4>3. receipts' \in [Keys -> Seq(Receipt)]
          BY <2>1, <2>2, <4>1
        <4>4. QED
          BY <4>2, <4>3
      <3>2. CASE effect[k].state \notin Finalizable
        BY <1>10, <3>2 DEF FinalizeWithReceipt
      <3>3. QED
        BY <3>1, <3>2
    <2>4. call' \in [Procs -> Call]
      BY <1>10, IdleType DEF FinalizeWithReceipt, End
    <2>5. QED
      BY <1>10, <2>3, <2>4 DEF FinalizeWithReceipt
  <1>11. ASSUME NEW p \in Procs, NEW k \in Keys, Reconcile(p, k) PROVE TypeOK'
    <2>1. PICK state \in ReconcileResults(p, k) \ {"unknown"} :
              call' = [call EXCEPT ![p] = [Idle EXCEPT !.pc = "answered", !.key = k, !.state = state,
                                                       !.reconciled = TRUE]]
      BY <1>11 DEF Reconcile
    <2>2. state \in EffectStates
      BY <2>1, ReconcileType
    <2>3. call' \in [Procs -> Call]
      BY <2>1, <2>2, IdleType DEF Call
    <2>4. QED
      BY <1>11, <2>3 DEF Reconcile
  <1>12. ASSUME NEW p \in Procs, Crash(p) PROVE TypeOK'
    BY <1>12, IdleType DEF Crash, End
  <1>13. CASE UNCHANGED vars
    BY <1>13 DEF vars
  <1>14. QED
    BY <1>1, <1>2, <1>3, <1>4, <1>5, <1>6, <1>7, <1>8, <1>9, <1>10, <1>11, <1>12, <1>13
    DEF Next, ApprovalNext, CallNext

(* Rows, receipts and calls always have the shape the code gives them. *)
THEOREM EffectTypeCorrect == Spec => []TypeOK
  <1>1. Init => TypeOK
    BY IdleType DEF Init, TypeOK, ApprovalRow, EffectRow, EffectStates
  <1>2. QED
    BY <1>1, TypeStep, PTL DEF Spec

--------------------------------------------------------------------------------
(* Before the admission: no effect row changes and the call goes anywhere but to    *)
(* the adapter; only reconciliation gives it an answer.                            *)
CallMoves ==
    /\ UNCHANGED <<effect, calls, receipts>>
    /\ \/ UNCHANGED call
       \/ \E p \in Procs, c \in Call :
              /\ call' = [call EXCEPT ![p] = c]
              /\ c.pc # "admitted"
              /\ c.pc = "answered" => c.state \in Terminal \cup {"unknown"}

(* The states a call may have to record.                                           *)
LEMMA StateOfRecordable == \A o : StateOf(o) \in Terminal \cup {"unknown"}
  BY DEF StateOf, Terminal

(* A reconciliation that is not unknown succeeded or failed.                       *)
LEMMA ReconcileRecordable ==
    ASSUME NEW p \in Procs, NEW k \in Keys, NEW state \in ReconcileResults(p, k) \ {"unknown"}
    PROVE  state \in {"succeeded", "failed"}
  <1>1. CASE AdapterOf[k] = "api"
    BY <1>1 DEF ReconcileResults, ApiReconcile
  <1>2. CASE AdapterOf[k] = "browser"
    BY <1>2 DEF ReconcileResults, BrowserReconcile
  <1>3. CASE AdapterOf[k] = "local"
    BY <1>3 DEF ReconcileResults, LocalReconcile
  <1>4. QED
    BY <1>1, <1>2, <1>3, EffectAssumption

(* Every step is one of the four that touch an effect row or the world, or one that *)
(* only moves a call.                                                              *)
LEMMA StepKinds ==
    ASSUME TypeOK, [Next]_vars
    PROVE  \/ CallMoves
           \/ \E p \in Procs : \/ Reserve(p) \/ BeginExecution(p)
                             \/ AdapterExecute(p) \/ FinalizeWithReceipt(p)
  <1> USE DEF store, world
  <1>1. CASE ApprovalNext \/ BumpCancellation \/ UNCHANGED vars
    BY <1>1 DEF ApprovalNext, PutApproval, RevokeApproval, Expire, BumpCancellation, vars, CallMoves
  <1>2. ASSUME NEW p \in Procs, NewGateway(p) PROVE CallMoves
    BY <1>2 DEF NewGateway, CallMoves
  <1>3. ASSUME NEW p \in Procs, NEW k \in Keys, NEW a \in Approvals \cup {NoApproval}, Execute(p, k, a)
        PROVE  CallMoves
    <2> DEFINE c == [Idle EXCEPT !.pc = "looked", !.key = k, !.approval = a,
                                 !.held = effect[k].consumed /\ effect[k].approval = a]
    <2>1. c \in Call /\ c.pc = "looked"
      BY IdleType DEF Call
    <2>2. call' = [call EXCEPT ![p] = c] /\ UNCHANGED <<effect, calls, receipts>>
      BY <1>3 DEF Execute
    <2> HIDE DEF c
    <2>3. QED
      BY <2>1, <2>2 DEF CallMoves
  <1>4. ASSUME NEW p \in Procs, End(p), UNCHANGED <<effect, calls, receipts>> PROVE CallMoves
    BY <1>4, IdleType DEF End, Idle, CallMoves
  <1>5. ASSUME NEW p \in Procs, RequireExactApproval(p) PROVE CallMoves
    <2>1. CASE call' = [call EXCEPT ![p].pc = "approved"]
      <3> DEFINE c == [call[p] EXCEPT !.pc = "approved"]
      <3>1. c \in Call /\ c.pc = "approved"
        BY DEF TypeOK, Call
      <3>2. call' = [call EXCEPT ![p] = c] /\ UNCHANGED <<effect, calls, receipts>>
        BY <1>5, <2>1 DEF RequireExactApproval
      <3> HIDE DEF c
      <3>3. QED
        BY <3>1, <3>2 DEF CallMoves
    <2>2. QED
      BY <1>4, <1>5, <2>1 DEF RequireExactApproval
  <1>6. ASSUME NEW p \in Procs, BeginRefused(p) PROVE CallMoves
    BY <1>4, <1>6 DEF BeginRefused
  <1>7. ASSUME NEW p \in Procs, Crash(p) PROVE CallMoves
    BY <1>4, <1>7 DEF Crash
  <1>8. ASSUME NEW p \in Procs, NEW k \in Keys, Reconcile(p, k) PROVE CallMoves
    <2>1. PICK state \in ReconcileResults(p, k) \ {"unknown"} :
              call' = [call EXCEPT ![p] = [Idle EXCEPT !.pc = "answered", !.key = k, !.state = state,
                                                       !.reconciled = TRUE]]
      BY <1>8 DEF Reconcile
    <2> DEFINE c == [Idle EXCEPT !.pc = "answered", !.key = k, !.state = state, !.reconciled = TRUE]
    <2>2. state \in {"succeeded", "failed"}
      BY ReconcileRecordable
    <2>3. c \in Call /\ c.pc = "answered" /\ c.state = state
      BY <2>2, IdleType DEF Call, EffectStates
    <2>4. call' = [call EXCEPT ![p] = c] /\ UNCHANGED <<effect, calls, receipts>>
      BY <1>8, <2>1 DEF Reconcile
    <2> HIDE DEF c
    <2>5. QED
      BY <2>2, <2>3, <2>4 DEF CallMoves, Terminal
  <1>9. QED
    BY <1>1, <1>2, <1>3, <1>5, <1>6, <1>7, <1>8 DEF Next, CallNext

(* Admission is exclusive and the adapter runs once per admission.                 *)
LEMMA ExecutionStep == TypeOK /\ ExecutionInv /\ [Next]_vars => ExecutionInv'
  <1> SUFFICES ASSUME TypeOK, ExecutionInv, [Next]_vars PROVE ExecutionInv'
    OBVIOUS
  <1> USE DEF ExecutionInv, AtMostOneExecution, AdmissionExclusive, AnswerRecordable
  <1>1. CASE CallMoves
    <2>1. CASE UNCHANGED call
      BY <1>1, <2>1 DEF CallMoves
    <2>2. CASE \E p \in Procs, c \in Call :
                  /\ call' = [call EXCEPT ![p] = c]
                  /\ c.pc # "admitted"
                  /\ c.pc = "answered" => c.state \in Terminal \cup {"unknown"}
      BY <1>1, <2>2 DEF CallMoves, TypeOK
    <2>3. QED
      BY <1>1, <2>1, <2>2 DEF CallMoves
  <1>2. ASSUME NEW p \in Procs, Reserve(p) PROVE ExecutionInv'
    <2> DEFINE k == call[p].key
    <2>1. k \in Keys
      BY DEF TypeOK, Call
    <2>2. /\ call'[p].pc = "reserved"
          /\ \A q \in Procs : q # p => call'[q] = call[q]
          /\ UNCHANGED calls
      BY <1>2 DEF Reserve, TypeOK, Call, world
    <2>3. \A j \in Keys : \/ effect'[j].state = effect[j].state
                          \/ effect[j].state = "none" /\ effect'[j].state = "reserved"
      BY <1>2, <2>1 DEF Reserve, TypeOK, EffectRow
    <2>4. \A q \in Procs : call[q].key \in Keys
      BY DEF TypeOK, Call
    <2>5. QED
      BY <2>2, <2>3, <2>4
  <1>3. ASSUME NEW p \in Procs, BeginExecution(p) PROVE ExecutionInv'
    <2> DEFINE k == call[p].key
    <2>1. k \in Keys /\ \A q \in Procs : call[q].key \in Keys
      BY DEF TypeOK, Call
    <2>2. /\ call'[p].pc = "admitted" /\ call'[p].key = k
          /\ \A q \in Procs : q # p => call'[q] = call[q]
          /\ UNCHANGED calls
      BY <1>3 DEF BeginExecution, Uses, TypeOK, Call, world
    <2>3. /\ effect[k].state = "reserved"
          /\ effect'[k].state = "executing"
          /\ \A j \in Keys : j # k => effect'[j] = effect[j]
      BY <1>3, <2>1 DEF BeginExecution, Uses, Executable, TypeOK, EffectRow
    <2>4. calls[k] = 0 /\ \A q \in Procs : call[q].pc = "admitted" => call[q].key # k
      BY <2>1, <2>3
    <2>5. QED
      BY <2>1, <2>2, <2>3, <2>4
  <1>4. ASSUME NEW p \in Procs, AdapterExecute(p) PROVE ExecutionInv'
    <2> DEFINE k == call[p].key
    <2>1. k \in Keys /\ \A q \in Procs : call[q].key \in Keys
      BY DEF TypeOK, Call
    <2>2. /\ call[p].pc = "admitted"
          /\ call'[p].pc = "answered"
          /\ call'[p].state \in Terminal \cup {"unknown"}
          /\ \A q \in Procs : q # p => call'[q] = call[q]
          /\ UNCHANGED effect
      BY <1>4, StateOfRecordable DEF AdapterExecute, TypeOK, Call, store
    <2>3. calls'[k] = calls[k] + 1 /\ \A j \in Keys : j # k => calls'[j] = calls[j]
      BY <1>4, <2>1 DEF AdapterExecute, TypeOK
    <2>4. calls[k] = 0 /\ effect[k].state \notin {"none", "reserved"}
      BY <2>2
    <2>5. QED
      BY <2>1, <2>2, <2>3, <2>4
  <1>5. ASSUME NEW p \in Procs, FinalizeWithReceipt(p) PROVE ExecutionInv'
    <2> DEFINE k == call[p].key
    <2>1. k \in Keys /\ \A q \in Procs : call[q].key \in Keys
      BY DEF TypeOK, Call
    <2>2. /\ call[p].pc = "answered"
          /\ call'[p].pc = "idle"
          /\ \A q \in Procs : q # p => call'[q] = call[q]
          /\ UNCHANGED calls
      BY <1>5 DEF FinalizeWithReceipt, End, Idle, TypeOK, world
    <2>3. \A j \in Keys : \/ effect'[j].state = effect[j].state
                          \/ effect[j].state \in Finalizable /\ effect'[j].state = call[p].state
      <3>1. CASE effect[k].state \in Finalizable
        <4>1. /\ effect'[k].state = call[p].state
              /\ \A j \in Keys : j # k => effect'[j] = effect[j]
          BY <1>5, <2>1, <3>1 DEF FinalizeWithReceipt, TypeOK, EffectRow
        <4>2. QED
          BY <2>1, <3>1, <4>1
      <3>2. CASE effect[k].state \notin Finalizable
        BY <1>5, <3>2 DEF FinalizeWithReceipt
      <3>3. QED
        BY <3>1, <3>2
    <2>4. call[p].state \notin {"none", "reserved"}
      BY <2>2 DEF Terminal
    <2>5. QED
      BY <2>1, <2>2, <2>3, <2>4 DEF Finalizable
  <1>6. QED
    BY <1>1, <1>2, <1>3, <1>4, <1>5, StepKinds

(* The strengthened invariant holds always. *)
LEMMA ExecutionAlways == Spec => []ExecutionInv
  <1>1. Init => ExecutionInv
    BY DEF Init, Idle, ExecutionInv, AtMostOneExecution, AdmissionExclusive, AnswerRecordable
  <1>2. QED
    BY <1>1, ExecutionStep, EffectTypeCorrect, PTL DEF Spec

(* The adapter runs at most once per effect key, for any number of processes that   *)
(* race, crash, retry or reconcile.                                                *)
THEOREM ExecutedAtMostOnce == Spec => []AtMostOneExecution
  <1>1. ExecutionInv => AtMostOneExecution
    BY DEF ExecutionInv
  <1>2. QED
    BY <1>1, ExecutionAlways, PTL

--------------------------------------------------------------------------------
(* What one step may do to an effect row and to its receipts.                      *)
RowSteps ==
    \A k \in Keys :
        \/ effect'[k].state = effect[k].state /\ receipts'[k] = receipts[k]
        \/ /\ <<effect[k].state, effect'[k].state>> \in {<<"none", "reserved">>, <<"reserved", "executing">>}
           /\ receipts'[k] = receipts[k]
        \/ /\ effect[k].state \in Finalizable
           /\ \E c \in Call : /\ c.state \in Terminal \cup {"unknown"}
                              /\ effect'[k].state = c.state
                              /\ receipts'[k] = Recorded(k, c)

(* The rows change only along the life of an effect, state and receipt together.   *)
LEMMA RowStepsStep == TypeOK /\ ExecutionInv /\ [Next]_vars => RowSteps
  <1> SUFFICES ASSUME TypeOK, ExecutionInv, [Next]_vars PROVE RowSteps
    OBVIOUS
  <1> USE DEF RowSteps
  <1>1. CASE CallMoves
    BY <1>1 DEF CallMoves
  <1>2. ASSUME NEW p \in Procs, Reserve(p) PROVE RowSteps
    <2>1. call[p].key \in Keys /\ UNCHANGED receipts
      BY <1>2 DEF Reserve, TypeOK, Call
    <2>2. \A j \in Keys : \/ effect'[j].state = effect[j].state
                          \/ effect[j].state = "none" /\ effect'[j].state = "reserved"
      BY <1>2, <2>1 DEF Reserve, TypeOK, EffectRow
    <2>3. QED
      BY <2>1, <2>2
  <1>3. ASSUME NEW p \in Procs, BeginExecution(p) PROVE RowSteps
    <2>1. call[p].key \in Keys /\ UNCHANGED receipts
      BY <1>3 DEF BeginExecution, Uses, TypeOK, Call
    <2>2. \A j \in Keys : \/ effect'[j].state = effect[j].state
                          \/ effect[j].state = "reserved" /\ effect'[j].state = "executing"
      BY <1>3, <2>1 DEF BeginExecution, Uses, Executable, TypeOK, EffectRow
    <2>3. QED
      BY <2>1, <2>2
  <1>4. ASSUME NEW p \in Procs, AdapterExecute(p) PROVE RowSteps
    BY <1>4 DEF AdapterExecute, store
  <1>5. ASSUME NEW p \in Procs, FinalizeWithReceipt(p) PROVE RowSteps
    <2> DEFINE k == call[p].key
    <2>1. k \in Keys /\ call[p] \in Call /\ call[p].state \in Terminal \cup {"unknown"}
      BY <1>5 DEF FinalizeWithReceipt, TypeOK, Call, ExecutionInv, AnswerRecordable
    <2>2. CASE effect[k].state \in Finalizable
      <3>1. /\ effect'[k].state = call[p].state
            /\ receipts'[k] = Recorded(k, call[p])
            /\ \A j \in Keys : j # k => effect'[j] = effect[j] /\ receipts'[j] = receipts[j]
        BY <1>5, <2>1, <2>2 DEF FinalizeWithReceipt, TypeOK, EffectRow
      <3>2. QED
        BY <2>1, <2>2, <3>1
    <2>3. CASE effect[k].state \notin Finalizable
      BY <1>5, <2>3 DEF FinalizeWithReceipt
    <2>4. QED
      BY <2>2, <2>3
  <1>6. QED
    BY <1>1, <1>2, <1>3, <1>4, <1>5, StepKinds

(* A terminal effect keeps its state and its receipts, whatever late executor,     *)
(* reconciliation or retry follows.                                                *)
THEOREM TerminalEffectsAreFinal == Spec => TerminalIsFinal
  <1>1. RowSteps => \A k \in Keys : effect[k].state \in Terminal =>
                       effect'[k].state = effect[k].state /\ receipts'[k] = receipts[k]
    BY DEF RowSteps, Terminal, Finalizable
  <1>2. QED
    BY <1>1, RowStepsStep, ExecutionAlways, EffectTypeCorrect, PTL DEF Spec, TerminalIsFinal

(* State and receipt change together: the latest receipt of a decided effect tells  *)
(* its state, so the replay of a succeeded effect finds its receipt.               *)
THEOREM ReceiptsTellTheState == Spec => []ReceiptTellsState
  <1>1. Init => ReceiptTellsState
    BY DEF Init, ReceiptTellsState, Terminal
  <1>2. TypeOK /\ RowSteps /\ ReceiptTellsState => ReceiptTellsState'
    <2> SUFFICES ASSUME TypeOK, RowSteps, ReceiptTellsState, NEW k \in Keys
                 PROVE  IF effect'[k].state \in Terminal \cup {"unknown"}
                        THEN /\ Len(receipts'[k]) > 0
                             /\ receipts'[k][Len(receipts'[k])].outcome = effect'[k].state
                        ELSE Len(receipts'[k]) = 0
      BY DEF ReceiptTellsState
    <2>1. IF effect[k].state \in Terminal \cup {"unknown"}
          THEN Len(receipts[k]) > 0 /\ receipts[k][Len(receipts[k])].outcome = effect[k].state
          ELSE Len(receipts[k]) = 0
      BY DEF ReceiptTellsState
    <2>2. CASE effect'[k].state = effect[k].state /\ receipts'[k] = receipts[k]
      BY <2>1, <2>2
    <2>3. CASE /\ <<effect[k].state, effect'[k].state>> \in {<<"none", "reserved">>, <<"reserved", "executing">>}
               /\ receipts'[k] = receipts[k]
      BY <2>1, <2>3 DEF Terminal
    <2>4. ASSUME NEW c \in Call, c.state \in Terminal \cup {"unknown"},
                 effect'[k].state = c.state, receipts'[k] = Recorded(k, c)
          PROVE  Len(receipts'[k]) > 0 /\ receipts'[k][Len(receipts'[k])].outcome = effect'[k].state
      <3>1. receipts[k] \in Seq(Receipt)
        BY DEF TypeOK
      <3>2. /\ Len(receipts'[k]) = Len(receipts[k]) + 1
            /\ receipts'[k][Len(receipts[k]) + 1] = [outcome |-> c.state, reconciled |-> c.reconciled]
        BY <2>4, <3>1 DEF Recorded
      <3>3. QED
        BY <2>4, <3>1, <3>2
    <2>5. QED
      BY <2>2, <2>3, <2>4 DEF RowSteps
  <1>3. QED
    BY <1>1, <1>2, RowStepsStep, ExecutionAlways, EffectTypeCorrect, PTL DEF Spec

--------------------------------------------------------------------------------
(* What one step may do to the consumption of a grant: nothing, or the admission    *)
(* of an effect takes a use of the call's grant the first time.                     *)
Admits(p) ==
    LET k == call[p].key  a == call[p].approval
    IN  /\ call[p].pc = "reserved"
        /\ effect[k].state = "reserved" /\ effect'[k].state = "executing"
        /\ \A j \in Keys : j # k => effect'[j] = effect[j]
        /\ \A q \in Procs : q # p => call'[q] = call[q]
        /\ call'[p].pc = "admitted"
        /\ IF a # NoApproval /\ ~effect[k].consumed
           THEN /\ effect'[k].consumed /\ effect'[k].consumer = a
                /\ approval[a].used < MaxUses[a]
                /\ approval'[a].used = approval[a].used + 1
                /\ \A b \in Approvals : b # a => approval'[b].used = approval[b].used
           ELSE /\ effect'[k].consumed = effect[k].consumed
                /\ effect'[k].consumer = effect[k].consumer
                /\ \A b \in Approvals : approval'[b].used = approval[b].used

(* Every other step: grants keep their uses, effects what they consumed, none goes   *)
(* back before its admission, and a call that is past the approval check was there   *)
(* before or has just passed it.                                                    *)
ConsumesNothing ==
    /\ \A b \in Approvals : approval'[b].used = approval[b].used
    /\ \A k \in Keys :
          /\ effect'[k].consumed = effect[k].consumed /\ effect'[k].consumer = effect[k].consumer
          /\ effect'[k].state \in {"none", "reserved"} <=> effect[k].state \in {"none", "reserved"}
    /\ \A p \in Procs : call'[p].pc \in {"approved", "reserved"} =>
          /\ call'[p].key = call[p].key /\ call'[p].approval = call[p].approval
          /\ \/ call[p].pc \in {"approved", "reserved"}
             \/ ExactApproval(call[p].key, call[p].approval, call[p].held)

(* begin_execution takes the use and the compare-and-swap together. *)
LEMMA BeginAdmits == ASSUME TypeOK, NEW p \in Procs, BeginExecution(p) PROVE Admits(p)
  <1> DEFINE k == call[p].key
             a == call[p].approval
             uses == a # NoApproval /\ ~effect[k].consumed
             grant == IF uses THEN a ELSE effect[k].consumer
  <1>1. k \in Keys /\ a \in Approvals \cup {NoApproval} /\ effect[k] \in EffectRow
    BY DEF TypeOK, Call
  <1>2. /\ call[p].pc = "reserved" /\ effect[k].state = "reserved"
        /\ a # NoApproval => effect[k].consumed \/ approval[a].used < MaxUses[a]
    BY DEF BeginExecution, Uses, Executable, Consumable, HasUse
  <1>3. effect' = [effect EXCEPT ![k] =
            [effect[k] EXCEPT !.state = "executing", !.consumed = effect[k].consumed \/ uses, !.consumer = grant]]
    BY <1>1 DEF BeginExecution, Uses, TypeOK, EffectRow
  <1>4. /\ effect'[k].state = "executing" /\ effect'[k].consumed = (effect[k].consumed \/ uses)
        /\ effect'[k].consumer = grant
        /\ \A j \in Keys : j # k => effect'[j] = effect[j]
    <2> HIDE DEF uses, grant
    <2>1. QED
      BY <1>1, <1>3 DEF TypeOK, EffectRow
  <1>5. /\ call'[p].pc = "admitted"
        /\ \A q \in Procs : q # p => call'[q] = call[q]
    BY DEF BeginExecution, Uses, TypeOK, Call
  <1>6. CASE uses
    <2>1. a \in Approvals /\ approval' = [approval EXCEPT ![a].used = @ + 1]
      BY <1>1, <1>6 DEF BeginExecution, Uses
    <2>2. approval'[a].used = approval[a].used + 1
          /\ \A b \in Approvals : b # a => approval'[b].used = approval[b].used
      BY <2>1 DEF TypeOK, ApprovalRow
    <2>3. QED
      BY <1>1, <1>2, <1>4, <1>5, <1>6, <2>2 DEF Admits, EffectRow
  <1>7. CASE ~uses
    <2>1. UNCHANGED approval
      BY <1>7 DEF BeginExecution, Uses
    <2>2. QED
      BY <1>1, <1>2, <1>4, <1>5, <1>7, <2>1 DEF Admits, EffectRow
  <1>8. QED
    BY <1>6, <1>7

(* Every step admits an effect or consumes nothing. *)
LEMMA ConsumptionStep ==
    ASSUME TypeOK, ExecutionInv, [Next]_vars
    PROVE  ConsumesNothing \/ \E p \in Procs : Admits(p)
  <1> USE DEF store, world
  <1>1. ASSUME NEW a \in Approvals, PutApproval(a) \/ RevokeApproval(a) \/ Expire(a)
        PROVE  ConsumesNothing
    <2>1. UNCHANGED <<effect, call>>
      BY <1>1 DEF PutApproval, RevokeApproval, Expire
    <2>2. \A b \in Approvals : approval'[b].used = approval[b].used
      <3>1. CASE PutApproval(a)
        BY <3>1 DEF PutApproval, TypeOK, ApprovalRow
      <3>2. CASE RevokeApproval(a)
        BY <3>2 DEF RevokeApproval, TypeOK, ApprovalRow
      <3>3. CASE Expire(a)
        BY <3>3 DEF Expire, TypeOK, ApprovalRow
      <3>4. QED
        BY <1>1, <3>1, <3>2, <3>3
    <2>3. QED
      BY <2>1, <2>2 DEF ConsumesNothing
  <1>2. CASE BumpCancellation \/ UNCHANGED vars \/ \E p \in Procs : NewGateway(p)
    BY <1>2 DEF BumpCancellation, NewGateway, vars, ConsumesNothing
  <1>3. ASSUME NEW p \in Procs, NEW c \in Call, c.pc \notin {"approved", "reserved"},
               call' = [call EXCEPT ![p] = c], UNCHANGED <<approval, effect>>
        PROVE  ConsumesNothing
    BY <1>3 DEF ConsumesNothing, TypeOK
  <1>4. ASSUME NEW p \in Procs, NEW k \in Keys, NEW a \in Approvals \cup {NoApproval}, Execute(p, k, a)
        PROVE  ConsumesNothing
    <2> DEFINE c == [Idle EXCEPT !.pc = "looked", !.key = k, !.approval = a,
                                 !.held = effect[k].consumed /\ effect[k].approval = a]
    <2>1. c \in Call /\ c.pc = "looked"
      BY IdleType DEF Call
    <2>2. call' = [call EXCEPT ![p] = c] /\ UNCHANGED <<approval, effect>>
      BY <1>4 DEF Execute
    <2> HIDE DEF c
    <2>3. QED
      BY <1>3, <2>1, <2>2
  <1>5. ASSUME NEW p \in Procs, End(p), approval' = approval, effect' = effect PROVE ConsumesNothing
    <2>1. Idle.pc = "idle"
      BY DEF Idle
    <2>2. QED
      BY <1>3, <1>5, <2>1, IdleType DEF End
  <1>6. ASSUME NEW p \in Procs, RequireExactApproval(p) PROVE ConsumesNothing
    <2>1. CASE ExactApproval(call[p].key, call[p].approval, call[p].held)
      <3>1. /\ call' = [call EXCEPT ![p].pc = "approved"]
            /\ UNCHANGED <<approval, effect>>
        BY <1>6, <2>1 DEF RequireExactApproval
      <3>2. \A q \in Procs : /\ call'[q].key = call[q].key /\ call'[q].approval = call[q].approval
                             /\ q # p => call'[q].pc = call[q].pc
        BY <3>1 DEF TypeOK, Call
      <3>3. QED
        BY <2>1, <3>1, <3>2 DEF ConsumesNothing
    <2>2. CASE ~ExactApproval(call[p].key, call[p].approval, call[p].held)
      BY <1>5, <1>6, <2>2 DEF RequireExactApproval
    <2>3. QED
      BY <2>1, <2>2
  <1>7. ASSUME NEW p \in Procs, Reserve(p) PROVE ConsumesNothing
    <2>1. call[p].key \in Keys /\ call[p].pc = "approved" /\ UNCHANGED approval
      BY <1>7 DEF Reserve, TypeOK, Call
    <2>2. \A j \in Keys :
             /\ effect'[j].consumed = effect[j].consumed /\ effect'[j].consumer = effect[j].consumer
             /\ \/ effect'[j].state = effect[j].state
                \/ effect[j].state = "none" /\ effect'[j].state = "reserved"
      BY <1>7, <2>1 DEF Reserve, TypeOK, EffectRow
    <2>3. \A q \in Procs : /\ call'[q].key = call[q].key /\ call'[q].approval = call[q].approval
                           /\ q # p => call'[q].pc = call[q].pc
      BY <1>7 DEF Reserve, TypeOK, Call
    <2>4. QED
      BY <2>1, <2>2, <2>3 DEF ConsumesNothing
  <1>8. ASSUME NEW p \in Procs, BeginRefused(p) \/ Crash(p) PROVE ConsumesNothing
    <2>1. End(p) /\ approval' = approval /\ effect' = effect
      BY <1>8 DEF BeginRefused, Crash
    <2>2. QED
      BY <1>5, <2>1
  <1>9. ASSUME NEW p \in Procs, AdapterExecute(p) PROVE ConsumesNothing
    <2>1. /\ call'[p].pc = "answered"
          /\ \A q \in Procs : q # p => call'[q] = call[q]
          /\ UNCHANGED <<approval, effect>>
      BY <1>9 DEF AdapterExecute, TypeOK, Call
    <2>2. QED
      BY <2>1 DEF ConsumesNothing
  <1>10. ASSUME NEW p \in Procs, FinalizeWithReceipt(p) PROVE ConsumesNothing
    <2> DEFINE k == call[p].key
    <2>1. k \in Keys /\ call[p].state \in Terminal \cup {"unknown"}
      BY <1>10 DEF FinalizeWithReceipt, TypeOK, Call, ExecutionInv, AnswerRecordable
    <2>2. /\ call'[p].pc = "idle" /\ UNCHANGED approval
          /\ \A q \in Procs : q # p => call'[q] = call[q]
      BY <1>10 DEF FinalizeWithReceipt, End, Idle, TypeOK
    <2>3. CASE effect[k].state \in Finalizable
      <3>1. /\ effect'[k].state = call[p].state
            /\ effect'[k].consumed = effect[k].consumed /\ effect'[k].consumer = effect[k].consumer
            /\ \A j \in Keys : j # k => effect'[j] = effect[j]
        <4>1. effect' = [effect EXCEPT ![k].state = call[p].state]
          BY <1>10, <2>3 DEF FinalizeWithReceipt
        <4>2. effect \in [Keys -> EffectRow]
          BY DEF TypeOK
        <4> HIDE DEF k
        <4>3. QED
          BY <2>1, <4>1, <4>2 DEF EffectRow
      <3>2. QED
        BY <2>1, <2>2, <2>3, <3>1 DEF ConsumesNothing, Finalizable, Terminal
    <2>4. CASE effect[k].state \notin Finalizable
      BY <1>10, <2>2, <2>4 DEF FinalizeWithReceipt, ConsumesNothing
    <2>5. QED
      BY <2>3, <2>4
  <1>11. ASSUME NEW p \in Procs, NEW k \in Keys, Reconcile(p, k) PROVE ConsumesNothing
    <2>1. /\ call'[p].pc = "answered"
          /\ \A q \in Procs : q # p => call'[q] = call[q]
          /\ UNCHANGED <<approval, effect>>
      BY <1>11, IdleType DEF Reconcile, TypeOK, Call
    <2>2. QED
      BY <2>1 DEF ConsumesNothing
  <1>12. QED
    BY <1>1, <1>2, <1>4, <1>6, <1>7, <1>8, <1>9, <1>10, <1>11, BeginAdmits
    DEF Next, ApprovalNext, CallNext

(* Along every step a call past the approval check keeps a grant that names its key, *)
(* and an effect before its admission has consumed nothing.                        *)
LEMMA PendingStep == TypeOK /\ ExecutionInv /\ ApprovalPending /\ [Next]_vars => ApprovalPending'
  <1> SUFFICES ASSUME TypeOK, ExecutionInv, ApprovalPending, [Next]_vars PROVE ApprovalPending'
    OBVIOUS
  <1> USE DEF ApprovalPending
  <1>1. CASE ConsumesNothing
    <2>1. \A k \in Keys : /\ effect'[k].state \in {"none", "reserved"} => ~effect'[k].consumed
                          /\ ~effect'[k].consumed => effect'[k].consumer = NoApproval
      BY <1>1 DEF ConsumesNothing
    <2>2. ASSUME NEW p \in Procs, call'[p].pc \in {"approved", "reserved"}, call'[p].key \in NeedsApproval
          PROVE  call'[p].approval \in Approvals /\ call'[p].key \in Covers[call'[p].approval]
      BY <1>1, <2>2 DEF ConsumesNothing, ExactApproval, Valid
    <2>3. QED
      BY <2>1, <2>2
  <1>2. ASSUME NEW p \in Procs, Admits(p) PROVE ApprovalPending'
    <2>1. call[p].key \in Keys
      BY DEF TypeOK, Call
    <2>2. \A k \in Keys : /\ effect'[k].state \in {"none", "reserved"} => ~effect'[k].consumed
                          /\ ~effect'[k].consumed => effect'[k].consumer = NoApproval
      BY <1>2, <2>1 DEF Admits
    <2>3. \A q \in Procs : call'[q].pc \in {"approved", "reserved"} => call'[q] = call[q]
      BY <1>2 DEF Admits
    <2>4. QED
      BY <2>2, <2>3
  <1>3. QED
    BY <1>1, <1>2, ConsumptionStep

(* ApprovalPending holds always. *)
LEMMA PendingAlways == Spec => []ApprovalPending
  <1>1. Init => ApprovalPending
    BY DEF Init, Idle, ApprovalPending
  <1>2. QED
    BY <1>1, PendingStep, EffectTypeCorrect, ExecutionAlways, PTL DEF Spec

(* A consequential effect is admitted only with a use of a grant that names it:      *)
(* between the check and the consumption no other grant can take its place.         *)
THEOREM AdmissionNeedsItsGrant == Spec => []AdmittedIsApproved
  <1>1. Init => AdmittedIsApproved
    BY EffectAssumption DEF Init, AdmittedIsApproved
  <1>2. TypeOK /\ ExecutionInv /\ ApprovalPending /\ AdmittedIsApproved /\ [Next]_vars => AdmittedIsApproved'
    <2> SUFFICES ASSUME TypeOK, ExecutionInv, ApprovalPending, AdmittedIsApproved, [Next]_vars,
                        NEW k \in NeedsApproval, effect'[k].state \notin {"none", "reserved"}
                 PROVE  /\ effect'[k].consumed
                        /\ effect'[k].consumer \in Approvals
                        /\ k \in Covers[effect'[k].consumer]
      BY DEF AdmittedIsApproved
    <2>1. k \in Keys
      BY EffectAssumption
    <2>2. CASE ConsumesNothing
      BY <2>1, <2>2 DEF ConsumesNothing, AdmittedIsApproved
    <2>3. ASSUME NEW p \in Procs, Admits(p), call[p].key = k
          PROVE  effect'[k].consumed /\ effect'[k].consumer = call[p].approval
                 /\ call[p].approval \in Approvals /\ k \in Covers[call[p].approval]
      <3>1. call[p].approval \in Approvals /\ k \in Covers[call[p].approval] /\ ~effect[k].consumed
        BY <2>1, <2>3 DEF Admits, ApprovalPending
      <3>2. QED
        BY <2>3, <3>1, EffectAssumption DEF Admits
    <2>4. ASSUME NEW p \in Procs, Admits(p), call[p].key # k
          PROVE  effect'[k] = effect[k]
      BY <2>1, <2>4 DEF Admits
    <2>5. QED
      BY <2>2, <2>3, <2>4, ConsumptionStep DEF AdmittedIsApproved
  <1>3. QED
    BY <1>1, <1>2, PendingAlways, EffectTypeCorrect, ExecutionAlways, PTL DEF Spec

(* The effects that consumed a grant, before and after an admission, are as many as  *)
(* its uses.                                                                       *)
THEOREM GrantsAreNotOverspent == Spec => []UsesAreEffects
  <1> DEFINE ConsumersOf(a) == {k \in Keys : effect[k].consumer = a}
  <1>1. Init => UsesAreEffects
    <2> SUFFICES ASSUME Init, NEW a \in Approvals
                 PROVE  approval[a].used = Cardinality(ConsumersOf(a)) /\ approval[a].used <= MaxUses[a]
      BY DEF UsesAreEffects
    <2>1. ConsumersOf(a) = {}
      BY EffectAssumption DEF Init
    <2>2. approval[a].used = 0 /\ MaxUses[a] \in Nat
      BY EffectAssumption DEF Init
    <2>3. Cardinality(ConsumersOf(a)) = 0
      BY <2>1, FS_EmptySet
    <2> HIDE DEF ConsumersOf
    <2>4. QED
      BY <2>2, <2>3
  <1>2. TypeOK /\ ExecutionInv /\ ApprovalPending /\ UsesAreEffects /\ [Next]_vars => UsesAreEffects'
    <2> SUFFICES ASSUME TypeOK, ExecutionInv, ApprovalPending, UsesAreEffects, [Next]_vars,
                        NEW a \in Approvals
                 PROVE  /\ approval'[a].used = Cardinality(ConsumersOf(a)')
                        /\ approval'[a].used <= MaxUses[a]
      BY DEF UsesAreEffects
    <2>1. approval[a].used = Cardinality(ConsumersOf(a)) /\ approval[a].used <= MaxUses[a]
      BY DEF UsesAreEffects
    <2>2. IsFiniteSet(ConsumersOf(a))
      BY FS_Subset, EffectAssumption
    <2>3. CASE ConsumersOf(a)' = ConsumersOf(a) /\ approval'[a].used = approval[a].used
      BY <2>1, <2>3
    <2>4. ASSUME NEW p \in Procs, Admits(p)
          PROVE  /\ approval'[a].used = Cardinality(ConsumersOf(a)')
                 /\ approval'[a].used <= MaxUses[a]
      <3> DEFINE k == call[p].key
      <3>1. k \in Keys /\ ~effect[k].consumed /\ effect[k].consumer = NoApproval
        BY <2>4 DEF Admits, ApprovalPending, TypeOK, Call
      <3>2. CASE call[p].approval = a
        <4>1. /\ effect'[k].consumer = a /\ \A j \in Keys : j # k => effect'[j] = effect[j]
              /\ approval[a].used < MaxUses[a] /\ approval'[a].used = approval[a].used + 1
          BY <2>4, <3>1, <3>2, EffectAssumption DEF Admits
        <4>2. k \notin ConsumersOf(a) /\ ConsumersOf(a)' = ConsumersOf(a) \cup {k}
          BY <3>1, <4>1, EffectAssumption
        <4>3. Cardinality(ConsumersOf(a)') = Cardinality(ConsumersOf(a)) + 1
          BY <2>2, <4>2, FS_AddElement
        <4>4. approval[a].used \in Nat /\ MaxUses[a] \in Nat
          BY EffectAssumption DEF TypeOK, ApprovalRow
        <4>5. QED
          BY <2>1, <4>1, <4>3, <4>4
      <3>3. CASE call[p].approval # a
        <4>1. /\ effect'[k].consumer # a /\ \A j \in Keys : j # k => effect'[j] = effect[j]
              /\ approval'[a].used = approval[a].used
          BY <2>4, <3>1, <3>3, EffectAssumption DEF Admits
        <4>2. ConsumersOf(a)' = ConsumersOf(a)
          BY <3>1, <4>1, EffectAssumption
        <4>3. QED
          BY <2>3, <4>1, <4>2
      <3>4. QED
        BY <3>2, <3>3
    <2>5. CASE ConsumesNothing
      BY <2>3, <2>5 DEF ConsumesNothing
    <2>6. QED
      BY <2>4, <2>5, ConsumptionStep
  <1>3. QED
    BY <1>1, <1>2, PendingAlways, EffectTypeCorrect, ExecutionAlways, PTL DEF Spec
================================================================================
