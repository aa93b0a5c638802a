------------------------- MODULE OrderSystem_proofs -------------------------
(***************************************************************************)
(* An order of the example stays on a path of seven phases, and the saga   *)
(* knows where on the path it stands: the forward run moves along the      *)
(* first three in the order of the provider's rules, the unwind of a       *)
(* complete order along the last three.  From this follow the verdict's    *)
(* truth, that no undo of a complete order is refused, and that the        *)
(* provider is one SagaSystem may assume.                                  *)
(***************************************************************************)
EXTENDS OrderSystem, AgenticSagaWorkflow_steps

Chain == <<"reserve_inventory", "charge_payment", "schedule_fulfillment">>

\* The hypothesis of the theorems about verdicts and about the refinement: the
\* reply to a reservation always arrives.  Without it a reconciliation may not
\* recognize a committed reservation, whose command asks for the version before.
ReservationsAnswered == "reserve_inventory" \notin LossyOps

(***************************************************************************)
(* The inductive invariant.                                                *)
(***************************************************************************)
\* Where an order stands on its path once k of its six operations committed.
Reached(k) ==
  \/ k = 0 /\ order = NewOrder
  \/ k = 1 /\ order = [available |-> 1, reserved |-> 1, version |-> 2,
                       payment |-> "open", fulfillment |-> "pending"]
  \/ k = 2 /\ order = [available |-> 1, reserved |-> 1, version |-> 2,
                       payment |-> "captured", fulfillment |-> "pending"]
  \/ k = 3 /\ \E f \in {"scheduled", "rejected"} :
                order = [available |-> 1, reserved |-> 1, version |-> 2,
                         payment |-> "captured", fulfillment |-> f]
  \/ k = 4 /\ order = [available |-> 1, reserved |-> 1, version |-> 2,
                       payment |-> "captured", fulfillment |-> "cancelled"]
  \/ k = 5 /\ order = [available |-> 1, reserved |-> 1, version |-> 2,
                       payment |-> "refunded", fulfillment |-> "cancelled"]
  \/ k = 6 /\ order = [available |-> 2, reserved |-> 0, version |-> 3,
                       payment |-> "refunded", fulfillment |-> "cancelled"]

\* Receipts are of past operations; while the unwind awaits an undo, those of
\* undos are of it or of later ones.
ProviderInv ==
  /\ receipts \subseteq [step : Nat, undo : BOOLEAN]
  /\ \A r \in receipts : r.step < eventCount
  /\ attempt \in 0 .. MaxAttempts /\ answer \in {"none", "confirmed", "refused", "lost"}
  /\ \E k \in 0 .. 6 : Reached(k)
  /\ pc \in UndoPcs => tool \in Effects
  /\ pc \in UndoPcs \cup {"human"} => \A r \in receipts : r.undo => r.step >= step

\* An answer is that of the awaited activity, and true of what was committed.
AnswerInv ==
  /\ pc # "task_failed" /\ answer # "none" => Executing
  /\ Executing /\ answer = "confirmed" => Repeated
  /\ pc = "forward" /\ Executing /\ answer = "refused" => ~Repeated

\* What a human settled stays settled.
HandInv ==
  \A s \in byHand : \E i \in DOMAIN journal : journal[i].step = s /\ journal[i].state = "succeeded"

\* The obligations are the first operations of the path, in its order.
ChainInv == Len(journal) <= 3 /\ \A i \in DOMAIN journal : journal[i].tool = Chain[i]

\* Committed, and not yet an obligation.
InFlight == pc \in {"forward", "reconciling"} /\ tool \in Effects /\ Repeated

\* While the saga runs, the journal tells the phase of the order.
RunInv ==
  pc \in ForwardPcs =>
    /\ \A r \in receipts : ~r.undo
    /\ IF InFlight THEN /\ Len(journal) < 3 /\ tool = Chain[Len(journal) + 1]
                        /\ Reached(Len(journal) + 1)
                   ELSE Reached(Len(journal))
    /\ "verify_order" \in freshProofs => order.fulfillment = "scheduled"

\* A reconciliation recognizes what was committed.
CommandInv ==
  /\ InFlight => command.correct
  /\ pc = "reconciling" => tool # "reserve_inventory"
  /\ pc = "forward" /\ tool = "reserve_inventory" => answer # "lost"

\* Undone is what the journal says; an order that is not complete is stuck at
\* its newest obligation, and waits for a human from there on.
UnwindInv ==
  pc \in UndoPcs /\ byHand = {} =>
    \E i \in DOMAIN journal :
      /\ journal[i].step = step /\ tool = Chain[i]
      /\ IF Len(journal) = 3
           THEN /\ Reached(IF Repeated THEN 7 - i ELSE 6 - i)
                /\ pc = "compensating" => answer # "refused"
           ELSE i = Len(journal) /\ ~Repeated /\ (Reached(i) \/ Reached(i + 1))

\* The end of the path is in the verdict.
EndInv ==
  pc = "closed" =>
    /\ status = "succeeded_verified" /\ "verify_order" \in Proofs => order.fulfillment = "scheduled"
    /\ ReservationsAnswered =>
         /\ status = "aborted_clean" => Reached(0)
         /\ status = "compensated_verified" /\ byHand = {} => Reached(6)

OrderInv ==
  /\ IInv /\ ProviderInv /\ AnswerInv /\ HandInv /\ ChainInv /\ RunInv
  /\ ReservationsAnswered => CommandInv /\ UnwindInv
  /\ EndInv

----------------------------------------------------------------------------
(***************************************************************************)
(* SagaSystem's copy of the workflow, and the workflow of this module.     *)
(***************************************************************************)
LEMMA SameFrontier ==
  ASSUME NEW j, NEW b, NEW i
  PROVE  System!NextRequest(j, b, i) <=> NextRequest(j, b, i)
BY DEF System!NextRequest, NextRequest, System!IsFrontier, IsFrontier, System!PendingAt, PendingAt

LEMMA SameContinuations ==
  ASSUME NEW j, NEW b, NEW v, NEW n
  PROVE  /\ System!Close(v, n) <=> Close(v, n)
         /\ System!Advance(j, b, v, n) <=> Advance(j, b, v, n)
<1>1. \A m : System!Close(v, m) <=> Close(v, m)
  BY DEF System!Close, Close
<1>2. System!Advance(j, b, v, n) <=> Advance(j, b, v, n)
  BY <1>1, SameFrontier DEF System!Advance, Advance
<1> QED BY <1>1, <1>2

LEMMA SameEndings ==
  ASSUME NEW j, NEW n
  PROVE  /\ System!Stop(j, n) <=> Stop(j, n)
         /\ System!UnwindBeforeHuman(j, n) <=> UnwindBeforeHuman(j, n)
         /\ System!HandleForwardFailure(j, n) <=> HandleForwardFailure(j, n)
         /\ System!NextTurn(j, n) <=> NextTurn(j, n)
<1>1. ASSUME NEW v, NEW m
      PROVE  /\ System!Close(v, m) <=> Close(v, m)
             /\ System!Unwind(j, v, m) <=> Unwind(j, v, m)
  BY SameContinuations DEF System!Unwind, Unwind
<1>2. System!Stop(j, n) <=> Stop(j, n)
  BY <1>1 DEF System!Stop, Stop
<1>3. System!UnwindBeforeHuman(j, n) <=> UnwindBeforeHuman(j, n)
  BY <1>1 DEF System!UnwindBeforeHuman, UnwindBeforeHuman
<1>4. System!HandleForwardFailure(j, n) <=> HandleForwardFailure(j, n)
  BY <1>1 DEF System!HandleForwardFailure, HandleForwardFailure
<1>5. System!NextTurn(j, n) <=> NextTurn(j, n)
  BY <1>2 DEF System!NextTurn, NextTurn
<1> QED BY <1>2, <1>3, <1>4, <1>5

LEMMA SameJournalOperators ==
  ASSUME NEW j, NEW s, NEW x
  PROVE  /\ System!RecordForward(j, s, x) = RecordForward(j, s, x)
         /\ System!Mark(j, s, x) = Mark(j, s, x)
         /\ System!CanResolve(j, s) <=> CanResolve(j, s)
BY DEF System!RecordForward, RecordForward, System!Contains, Contains,
       System!Mark, Mark, System!CanResolve, CanResolve

LEMMA SameForward ==
  /\ Init => System!Init
  /\ Start => System!Start
  /\ DecisionFails => System!DecisionFails
  /\ ProposalRejected => System!ProposalRejected
  /\ ToolCalled => System!ToolCalled
  /\ FinishProposed => System!FinishProposed
  /\ ForwardSucceeds => System!ForwardSucceeds
  /\ ForwardFails => System!ForwardFails
  /\ ForwardUnknown => System!ForwardUnknown
  /\ ReconciledEffect => System!ReconciledEffect
  /\ ReconciledNoEffect => System!ReconciledNoEffect
<1>0. System!SumFunction(toolCalls) = SumFunction(toolCalls)
  BY DEF System!SumFunction, SumFunction, System!SumFunctionOnSet, SumFunctionOnSet,
         System!FoldFunctionOnSet, FoldFunctionOnSet, System!MapThenFoldSet, MapThenFoldSet
<1>1. /\ \A t : System!Eligible(t) <=> Eligible(t)
      /\ System!Bases = Bases /\ \A b : System!IsCurrent(b) <=> IsCurrent(b)
  BY <1>0 DEF System!Eligible, Eligible, System!Bases, Bases, System!IsCurrent, IsCurrent
<1>2. Init => System!Init
  BY DEF System!Init, Init, System!IdleDesk, IdleDesk
<1>3. Start => System!Start
  BY SameEndings DEF System!Start, Start, System!evidence, evidence, System!book, book
<1>4. DecisionFails => System!DecisionFails
  BY SameEndings DEF System!DecisionFails, DecisionFails, System!evidence, evidence, System!book, book
<1>5. ProposalRejected => System!ProposalRejected
  BY <1>1, SameEndings DEF System!ProposalRejected, ProposalRejected, System!evidence, evidence, System!book, book
<1>6. ToolCalled => System!ToolCalled
  BY <1>1 DEF System!ToolCalled, ToolCalled, System!evidence, evidence, System!book, book
<1>7. FinishProposed => System!FinishProposed
  <2>1. System!TerminalReady <=> TerminalReady
    BY DEF System!TerminalReady, TerminalReady
  <2>2. System!Close("succeeded_verified", 2) <=> Close("succeeded_verified", 2)
    BY SameContinuations
  <2> QED BY <2>1, <2>2, <1>1, SameEndings DEF System!FinishProposed, FinishProposed,
     System!evidence, evidence, System!book, book
<1>8. RecordForwardEvidence(step, tool) => System!RecordForwardEvidence(step, tool)
  BY SameJournalOperators DEF System!RecordForwardEvidence, RecordForwardEvidence
<1>9. System!NextTurn(journal', 1) <=> NextTurn(journal', 1)
  BY SameEndings
<1>10. ForwardSucceeds => System!ForwardSucceeds
  BY <1>8, <1>9 DEF System!ForwardSucceeds, ForwardSucceeds, System!SyncCompensations, SyncCompensations
<1>11. ReconciledEffect => System!ReconciledEffect
  BY <1>8, <1>9 DEF System!ReconciledEffect, ReconciledEffect, System!SyncCompensations, SyncCompensations
<1>12. ForwardFails => System!ForwardFails
  BY SameEndings DEF System!ForwardFails, ForwardFails, System!evidence, evidence, System!book, book
<1>13. ReconciledNoEffect => System!ReconciledNoEffect
  BY SameEndings DEF System!ReconciledNoEffect, ReconciledNoEffect, System!evidence, evidence, System!book, book
<1>14. ForwardUnknown => System!ForwardUnknown
  BY DEF System!ForwardUnknown, ForwardUnknown, System!Await, Await, System!evidence, evidence, System!book, book
<1> QED BY <1>2, <1>3, <1>4, <1>5, <1>6, <1>7, <1>10, <1>11, <1>12, <1>13, <1>14
LEMMA SameBackward ==
  /\ CompensationSucceeds => System!CompensationSucceeds
  /\ CompensationRefused => System!CompensationRefused
  /\ CompensationUnknown => System!CompensationUnknown
  /\ ReconciledUndo => System!ReconciledUndo
  /\ \A n : Disputed(n) => System!Disputed(n)
  /\ CancelWhileWaiting => System!CancelWhileWaiting
<1>1. IsExpected => System!IsExpected
  BY SameFrontier DEF System!IsExpected, IsExpected
<1>2. ASSUME NEW n, Undone(n) PROVE System!Undone(n)
  <2>1. System!Advance(journal', blocked', goal, n)
    BY <1>2, SameContinuations DEF Undone
  <2>2. journal' = System!Mark(journal, step, "succeeded")
    BY <1>2, SameJournalOperators DEF Undone
  <2> QED BY <1>1, <1>2, <2>1, <2>2 DEF System!Undone, Undone, System!SyncCompensations,
       SyncCompensations, System!evidence, evidence
<1>3. ASSUME NEW n, Disputed(n) PROVE System!Disputed(n)
  <2>1. journal' = System!Mark(journal, step, "unresolved")
    BY <1>3, SameJournalOperators DEF Disputed
  <2> QED BY <1>1, <1>3, <2>1 DEF System!Disputed, Disputed, System!SyncCompensations,
       SyncCompensations, System!evidence, evidence, System!WaitForHuman, WaitForHuman
<1>4. CompensationUnknown => System!CompensationUnknown
  BY DEF System!CompensationUnknown, CompensationUnknown, System!Await, Await,
         System!evidence, evidence, System!book, book
<1>5. CancelWhileWaiting => System!CancelWhileWaiting
  BY DEF System!CancelWhileWaiting, CancelWhileWaiting, System!evidence, evidence, System!book, book
<1> QED
  BY <1>2, <1>3, <1>4, <1>5 DEF System!CompensationSucceeds, CompensationSucceeds,
     System!CompensationRefused, CompensationRefused, System!ReconciledUndo, ReconciledUndo

LEMMA SameHuman ==
  ASSUME NEW o
  PROVE  /\ ReadState(o) => System!ReadState(o)
         /\ SubmitAccepted(o) => System!SubmitAccepted(o)
         /\ SubmitRejected(o) => System!SubmitRejected(o)
         /\ VerificationFails(o) => System!VerificationFails(o)
         /\ Resolve(o) => System!Resolve(o)
         /\ Conflict(o) => System!Conflict(o)
         /\ Rest => System!Rest
<1>1. System!ValidResolution(desk[o]) <=> ValidResolution(desk[o])
  BY SameJournalOperators DEF System!ValidResolution, ValidResolution
<1>2. System!CanResolve(journal, desk[o].step) <=> CanResolve(journal, desk[o].step)
  BY SameJournalOperators
<1>3. System!Awaits = Awaits /\ System!IdleDesk = IdleDesk /\ System!Halted = Halted
  BY DEF System!Awaits, Awaits, System!IdleDesk, IdleDesk, System!Halted, Halted, System!Closed, Closed
<1>4. /\ System!control = control /\ System!evidence = evidence /\ System!book = book
      /\ (UNCHANGED System!control <=> UNCHANGED control)
      /\ (UNCHANGED System!evidence <=> UNCHANGED evidence)
      /\ (UNCHANGED System!book <=> UNCHANGED book)
      /\ (UNCHANGED System!vars <=> UNCHANGED vars)
  BY DEF System!control, control, System!evidence, evidence, System!book, book, System!vars, vars
<1>5. ReadState(o) => System!ReadState(o)
  BY <1>4 DEF System!ReadState, ReadState
<1>6. SubmitAccepted(o) => System!SubmitAccepted(o)
  BY <1>1, <1>3, <1>4 DEF System!SubmitAccepted, SubmitAccepted
<1>7. SubmitRejected(o) => System!SubmitRejected(o)
  BY <1>1, <1>3, <1>4 DEF System!SubmitRejected, SubmitRejected
<1>8. VerificationFails(o) => System!VerificationFails(o)
  BY <1>3, <1>4 DEF System!VerificationFails, VerificationFails
<1>9. Resolve(o) => System!Resolve(o)
  <2>1. ASSUME Resolve(o)
        PROVE  /\ System!Advance(journal', blocked', goal, 1)
               /\ journal' = System!Mark(journal, desk[o].step, "succeeded")
    BY <2>1, SameContinuations, SameJournalOperators DEF Resolve
  <2> QED BY <1>2, <1>3, <1>4, <2>1 DEF System!Resolve, Resolve, System!SyncCompensations, SyncCompensations
<1>10. Conflict(o) => System!Conflict(o)
  BY <1>2, <1>3, <1>4 DEF System!Conflict, Conflict, System!Fail, Fail
<1>11. Rest => System!Rest
  BY <1>3, <1>4 DEF System!Rest, Rest
<1> QED BY <1>5, <1>6, <1>7, <1>8, <1>9, <1>10, <1>11

----------------------------------------------------------------------------
(***************************************************************************)
(* The provider that SagaSystem sees.                                      *)
(***************************************************************************)
Applied == {r.step : r \in {x \in receipts : ~x.undo}}
Reversed == {r.step : r \in {x \in receipts : x.undo}} \cup byHand

LEMMA Receipt ==
  ASSUME receipts \subseteq [step : Nat, undo : BOOLEAN], NEW s
  PROVE  /\ s \in Applied <=> [step |-> s, undo |-> FALSE] \in receipts
         /\ s \in Reversed <=> [step |-> s, undo |-> TRUE] \in receipts \/ s \in byHand
<1>1. \A r \in receipts : r = [step |-> r.step, undo |-> r.undo]
  OBVIOUS
<1>2. \A r \in receipts : r.undo \in BOOLEAN
  OBVIOUS
<1>3. s \in Applied => [step |-> s, undo |-> FALSE] \in receipts
  <2> SUFFICES ASSUME s \in Applied PROVE [step |-> s, undo |-> FALSE] \in receipts
    OBVIOUS
  <2>1. PICK r \in receipts : ~r.undo /\ s = r.step
    BY DEF Applied
  <2>2. r.undo = FALSE
    BY <1>2, <2>1
  <2> QED BY <1>1, <2>1, <2>2
<1>4. [step |-> s, undo |-> FALSE] \in receipts => s \in Applied
  BY DEF Applied
<1>5. s \in Reversed => [step |-> s, undo |-> TRUE] \in receipts \/ s \in byHand
  <2> SUFFICES ASSUME s \in Reversed, s \notin byHand PROVE [step |-> s, undo |-> TRUE] \in receipts
    OBVIOUS
  <2>1. PICK r \in receipts : r.undo /\ s = r.step
    BY DEF Reversed
  <2>2. r.undo = TRUE
    BY <1>2, <2>1
  <2> QED BY <1>1, <2>1, <2>2
<1>6. [step |-> s, undo |-> TRUE] \in receipts \/ s \in byHand => s \in Reversed
  BY DEF Reversed
<1> QED BY <1>3, <1>4, <1>5, <1>6

LEMMA NewReceipt ==
  ASSUME NEW s, NEW u \in BOOLEAN,
         receipts' = receipts \cup {[step |-> s, undo |-> u]}, byHand' = byHand
  PROVE  /\ Applied' = IF u THEN Applied ELSE Applied \cup {s}
         /\ Reversed' = IF u THEN Reversed \cup {s} ELSE Reversed
<1> DEFINE n == [step |-> s, undo |-> u]
<1>1. n.step = s /\ n.undo = u
  OBVIOUS
<1> HIDE DEF n
<1>2. {x \in receipts' : ~x.undo} = IF u THEN {x \in receipts : ~x.undo} ELSE {x \in receipts : ~x.undo} \cup {n}
  BY <1>1 DEF n
<1>3. {x \in receipts' : x.undo} = IF u THEN {x \in receipts : x.undo} \cup {n} ELSE {x \in receipts : x.undo}
  BY <1>1 DEF n
<1>4. Applied' = IF u THEN Applied ELSE Applied \cup {s}
  BY <1>1, <1>2 DEF Applied
<1>5. Reversed' = IF u THEN Reversed \cup {s} ELSE Reversed
  BY <1>1, <1>3 DEF Reversed
<1> QED BY <1>4, <1>5

LEMMA SameAttempt == \A a : Attempt(a) => System!Attempt(a)
BY DEF Attempt, System!Attempt, Executing, System!Running, history, vars, System!vars, control,
       System!control, evidence, System!evidence, book, System!book

LEMMA Placed ==
  ASSUME OrderInv, Executing
  PROVE  /\ step \in Nat
         /\ \/ pc = "forward" /\ tool \in Effects /\ ~Undoing
            \/ pc = "compensating" /\ pc \in UndoPcs /\ tool \in Effects /\ Undoing
BY DEF Executing, OrderInv, ProviderInv, IInv, TypeOK, Undoing, UndoPcs

\* An undo that a human settled is never asked for again.
LEMMA NotByHand ==
  ASSUME OrderInv, pc \in UndoPcs
  PROVE  step \notin byHand
<1> SUFFICES ASSUME step \in byHand PROVE FALSE
  OBVIOUS
<1>1. PICK i \in DOMAIN journal :
        /\ journal[i].step = step /\ journal[i].state = "pending"
        /\ \A k \in DOMAIN journal : k > i => journal[k].state = "succeeded"
        /\ \A k \in DOMAIN journal : k < i => journal[k].state = "pending"
  BY AwaitedUndo DEF OrderInv
<1>2. PICK k \in DOMAIN journal : journal[k].step = step /\ journal[k].state = "succeeded"
  BY DEF OrderInv, HandInv
<1>3. i \in Nat /\ k \in Nat
  BY JournalIndices DEF OrderInv, IInv
<1>4. journal[i].step \in Nat /\ journal[k].step \in Nat
  BY EntryStatesCovered DEF OrderInv, IInv
<1>5. k > i
  BY <1>1, <1>2, <1>3
<1> QED BY <1>1, <1>2, <1>3, <1>4, <1>5 DEF OrderInv, IInv, JournalInv, Increasing

LEMMA AttemptRefines ==
  ASSUME OrderInv, Execute \/ ExecuteAgain \/ Refuse \/ NeverExecuted
  PROVE  System!SysNext
<1>1. Executing /\ UNCHANGED byHand
  BY DEF Execute, ExecuteAgain, Refuse, NeverExecuted, Reported, Reply, Attempt, history
<1>2. step \in Nat /\ receipts \subseteq [step : Nat, undo : BOOLEAN]
  BY <1>1, Placed DEF OrderInv, ProviderInv
<1>3. /\ System!Execution.step = step
      /\ System!Execution.kind = IF pc = "forward" THEN "effect" ELSE "undo"
  BY DEF System!Execution
<1>4. /\ step \in Applied <=> [step |-> step, undo |-> FALSE] \in receipts
      /\ step \in Reversed <=> [step |-> step, undo |-> TRUE] \in receipts \/ step \in byHand
  BY <1>2, Receipt
<1>5. (IF pc = "forward" THEN step \in Applied ELSE step \in Reversed) <=> Repeated
  <2>1. CASE pc = "forward"
    <3>1. Undoing = FALSE
      BY <1>1, <2>1, Placed
    <3> QED BY <1>4, <2>1, <3>1 DEF Repeated, OperationId
  <2>2. CASE pc = "compensating"
    <3>1. Undoing = TRUE /\ step \notin byHand
      BY <1>1, <2>2, Placed, NotByHand DEF UndoPcs, Undoing
    <3> QED BY <1>4, <2>2, <3>1 DEF Repeated, OperationId
  <2> QED BY <1>1, <2>1, <2>2 DEF Executing
<1>6. ASSUME UNCHANGED provider
      PROVE  Applied' = Applied /\ Reversed' = Reversed
  BY <1>1, <1>6 DEF provider, Applied, Reversed
<1>7. ASSUME Repeated, UNCHANGED provider
      PROVE  System!Land(System!Execution)
  BY <1>3, <1>5, <1>6, <1>7 DEF System!Land, Applied, Reversed
<1>8. ASSUME receipts' = receipts \cup {OperationId}
      PROVE  System!Land(System!Execution)
  <2>1. CASE pc = "forward"
    <3>1. Undoing = FALSE
      BY <1>1, <2>1, Placed
    <3>2. Applied' = Applied \cup {step} /\ Reversed' = Reversed
      BY <1>1, <1>8, <3>1, NewReceipt DEF OperationId
    <3> QED BY <1>3, <2>1, <3>2 DEF System!Land, Applied, Reversed
  <2>2. CASE pc # "forward"
    <3>1. Undoing = TRUE
      BY <1>1, <2>2, Placed
    <3>2. Applied' = Applied /\ Reversed' = Reversed \cup {step}
      BY <1>1, <1>8, <3>1, NewReceipt DEF OperationId
    <3> QED BY <1>3, <2>2, <3>2 DEF System!Land, Applied, Reversed
  <2> QED BY <2>1, <2>2
<1>9. ASSUME Reported, System!Land(System!Execution)
      PROVE  System!SysNext
  <2>1. System!Attempt("confirmed") \/ System!Attempt("lost")
    BY <1>9, SameAttempt DEF Reported, Reply
  <2> QED BY <1>9, <2>1 DEF System!AttemptConfirmed, System!AttemptUnclear, System!SysNext
<1>10. ASSUME Attempt("lost"), UNCHANGED provider
       PROVE  System!SysNext
  <2>1. System!Attempt("lost") /\ Applied' = Applied /\ Reversed' = Reversed
    BY <1>6, <1>10, SameAttempt
  <2> QED BY <2>1 DEF System!AttemptUnclear, System!SysNext, Applied, Reversed
<1>11. CASE Execute
  BY <1>8, <1>9, <1>11 DEF Execute
<1>12. CASE ExecuteAgain
  BY <1>7, <1>9, <1>12 DEF ExecuteAgain
<1>13. CASE NeverExecuted
  BY <1>10, <1>13 DEF NeverExecuted
<1>14. CASE Refuse
  <2>1. CASE Attempt("lost")
    BY <1>10, <1>14, <2>1 DEF Refuse
  <2>2. CASE Attempt("refused")
    <3>1. ~System!Landed(System!Execution)
      BY <1>3, <1>5, <1>14 DEF System!Landed, Refuse, Applied, Reversed
    <3>2. System!Attempt("refused") /\ Applied' = Applied /\ Reversed' = Reversed
      BY <1>6, <1>14, <2>2, SameAttempt DEF Refuse
    <3> QED BY <3>1, <3>2 DEF System!AttemptRefused, System!SysNext, Applied, Reversed
  <2> QED BY <1>14, <2>1, <2>2 DEF Refuse, Reply
<1> QED BY <1>11, <1>12, <1>13, <1>14

LEMMA SameProvider ==
  ASSUME UNCHANGED <<receipts, byHand>>
  PROVE  UNCHANGED System!provider
BY DEF System!provider

LEMMA CompletionRefines ==
  ASSUME ActivityCompletes
  PROVE  System!SysNext
<1>1. /\ System!NextActivity
      /\ UNCHANGED <<System!provider, inDoubt>>
  BY SameProvider DEF ActivityCompletes, NextActivity, System!NextActivity, provider, history
<1>2. LostForGood => System!Unclear
  BY DEF LostForGood, System!Unclear
<1>3. \/ System!EffectSucceeds \/ System!EffectRefused \/ System!EffectUnknown
      \/ System!UndoSucceeds \/ System!UndoRefused \/ System!UndoUnknown
  BY <1>2, SameForward, SameBackward DEF ActivityCompletes, System!EffectSucceeds,
     System!EffectRefused, System!EffectUnknown, System!UndoSucceeds, System!UndoRefused,
     System!UndoUnknown, System!Answered
<1> QED BY <1>1, <1>3 DEF System!ActivityCompletes, System!SysNext

LEMMA CancelRefines ==
  ASSUME CancelInFlight
  PROVE  System!SysNext
<1>1. UNCHANGED <<receipts, byHand, inDoubt>>
  BY DEF CancelInFlight, provider, history
<1>2. System!ForwardUnknown \/ System!CompensationUnknown
  BY SameForward, SameBackward DEF CancelInFlight
<1>3. System!CancelInFlight
  BY <1>1, <1>2 DEF CancelInFlight, System!CancelInFlight, Executing, System!Running,
     NextActivity, System!NextActivity
<1> QED BY <1>3 DEF System!SysNext

LEMMA ReconciledPlace ==
  ASSUME OrderInv, pc = "reconciling"
  PROVE  /\ step \in Nat /\ tool \in Effects /\ ~Undoing /\ Operation = tool
         /\ tool \in {"reserve_inventory", "charge_payment", "schedule_fulfillment"}
         /\ Repeated <=> step \in Applied
<1>1. step \in Nat /\ tool \in Effects /\ Undoing = FALSE
  BY DEF OrderInv, IInv, TypeOK, PlaceInv, Undoing
<1>2. Operation = tool /\ OperationId = [step |-> step, undo |-> FALSE]
  BY <1>1 DEF Operation, OperationId
<1>3. Repeated <=> step \in Applied
  BY <1>2, Receipt DEF Repeated, OrderInv, ProviderInv
<1>4. tool \in {"reserve_inventory", "charge_payment", "schedule_fulfillment"}
  BY <1>1, OrderAssumption DEF UndoOf
<1> QED BY <1>1, <1>2, <1>3, <1>4

\* What a reconciliation finds of a forward operation is what was committed.
LEMMA FoundIsCommitted ==
  ASSUME OrderInv, ReservationsAnswered, pc = "reconciling"
  PROVE  Found <=> Repeated
<1>1. /\ tool \in Effects /\ Operation = tool
      /\ tool \in {"reserve_inventory", "charge_payment", "schedule_fulfillment"}
  BY ReconciledPlace
<1>2. Repeated => command.correct /\ tool # "reserve_inventory"
  BY <1>1 DEF OrderInv, CommandInv, InFlight
<1> QED BY <1>1, <1>2 DEF Found, CommandMatches

LEMMA ReconciliationRefines ==
  ASSUME OrderInv, ReservationsAnswered, Reconciliation
  PROVE  System!SysNext
<1>1. UNCHANGED <<receipts, attempt, answer>> /\ System!activity' = System!activity
  BY DEF Reconciliation, provider, activity, System!activity
<1>2. UNCHANGED byHand
  BY DEF Reconciliation, EffectReconciled, NoMatchingEffect, ReconciliationFails,
         UndoReconciled, UndoNotFound, history
<1>3. UNCHANGED System!provider /\ Applied' = Applied /\ Reversed' = Reversed
  BY <1>1, <1>2, SameProvider DEF Applied, Reversed
<1>4. CASE EffectReconciled
  <2>1. pc = "reconciling" /\ System!ReconciledEffect /\ inDoubt' = inDoubt
    BY <1>4, SameForward DEF EffectReconciled, ReconciledEffect, history
  <2>2. step \in Applied
    BY <1>4, <2>1, FoundIsCommitted, ReconciledPlace DEF EffectReconciled
  <2>3. System!EffectFound
    BY <1>3, <2>1, <2>2 DEF System!EffectFound, Applied
  <2> QED BY <1>1, <2>3 DEF System!Reconciliation, System!SysNext
<1>5. CASE NoMatchingEffect
  <2>1. pc = "reconciling" /\ System!ReconciledNoEffect /\ inDoubt' = inDoubt
    BY <1>5, SameForward DEF NoMatchingEffect, ReconciledNoEffect, history
  <2>2. step \notin Applied
    BY <1>5, <2>1, FoundIsCommitted, ReconciledPlace DEF NoMatchingEffect
  <2>3. System!NoEffectProven
    BY <1>3, <2>1, <2>2 DEF System!NoEffectProven, Applied, Reversed
  <2> QED BY <1>1, <2>3 DEF System!Reconciliation, System!SysNext
<1>6. CASE ReconciliationFails
  <2>1. System!UnwindBeforeHuman(journal, 0)
    BY <1>6, SameEndings DEF ReconciliationFails
  <2>2. System!StillUnknown
    BY <1>6, <2>1 DEF ReconciliationFails, System!StillUnknown, evidence, System!evidence,
       book, System!book
  <2>3. System!EffectStaysOpen
    BY <1>3, <1>6, <2>2 DEF ReconciliationFails, System!EffectStaysOpen
  <2> QED BY <1>1, <2>3 DEF System!Reconciliation, System!SysNext
<1>7. CASE UndoReconciled
  <2>1. /\ pc = "reconciling_compensation" /\ System!ReconciledUndo /\ inDoubt' = inDoubt
        /\ Repeated
    BY <1>7, SameBackward DEF UndoReconciled, ReconciledUndo, history, Found
  <2>2. OperationId = [step |-> step, undo |-> TRUE]
    BY <2>1 DEF OperationId, Undoing
  <2>3. step \in Reversed
    BY <2>1, <2>2, Receipt DEF Repeated, OrderInv, ProviderInv
  <2>4. System!UndoFound
    BY <1>3, <2>1, <2>3 DEF System!UndoFound, Reversed
  <2> QED BY <1>1, <2>4 DEF System!Reconciliation, System!SysNext
<1>8. CASE UndoNotFound
  <2>1. System!Disputed(1) \/ System!Disputed(2)
    BY <1>8, SameBackward DEF UndoNotFound
  <2>2. System!UndoStaysOpen
    BY <1>3, <1>8, <2>1 DEF UndoNotFound, System!UndoStaysOpen, System!UndoUnproven, history
  <2> QED BY <1>1, <2>2 DEF System!Reconciliation, System!SysNext
<1> QED BY <1>4, <1>5, <1>6, <1>7, <1>8 DEF Reconciliation

LEMMA SettledRefines ==
  ASSUME NEW o \in Operators, SettledByHand(o)
  PROVE  System!SysNext
<1>1. /\ System!Resolve(o) /\ byHand' = byHand \cup {desk[o].step}
      /\ UNCHANGED <<receipts, attempt, answer, inDoubt>>
  BY SameHuman DEF SettledByHand, activity, provider
<1>2. Applied' = Applied /\ Reversed' = Reversed \cup {desk[o].step}
  BY <1>1 DEF Applied, Reversed
<1>3. System!UndoneByHuman(o)
  BY <1>1, <1>2 DEF System!UndoneByHuman, System!activity, Applied, Reversed
<1> QED BY <1>3 DEF System!SysNext

LEMMA ElsewhereRefines ==
  ASSUME ProposeCommand \/ Elsewhere
  PROVE  System!SysNext
<1>1. UNCHANGED <<receipts, byHand, attempt, answer, inDoubt>>
  BY DEF ProposeCommand, Elsewhere, activity, provider, history
<1>2. UNCHANGED <<System!activity, System!provider, inDoubt>>
  BY <1>1, SameProvider DEF System!activity
<1>3. Verified \/ NotVerified => System!Read
  BY SameForward DEF Verified, NotVerified, System!Read
<1>4. \/ System!Start \/ System!DecisionFails \/ System!ProposalRejected \/ System!ToolCalled
      \/ System!FinishProposed \/ System!Read \/ System!CancelWhileWaiting
      \/ \E o \in Operators :
           \/ System!ReadState(o) \/ System!SubmitAccepted(o) \/ System!SubmitRejected(o)
           \/ System!VerificationFails(o) \/ System!Conflict(o)
      \/ System!Rest
  BY <1>3, SameForward, SameBackward, SameHuman DEF ProposeCommand, Elsewhere
<1>5. System!Elsewhere
  BY <1>2, <1>4 DEF System!Elsewhere
<1> QED BY <1>5 DEF System!SysNext

LEMMA StepRefines ==
  ASSUME OrderInv, ReservationsAnswered, [OrderNext]_orderVars
  PROVE  [System!SysNext]_(System!sysVars)
<1>1. UNCHANGED orderVars => UNCHANGED System!sysVars
  BY SameProvider DEF orderVars, System!sysVars, activity, System!activity, provider, history,
     vars, System!vars, control, System!control, evidence, System!evidence, book, System!book
<1> QED
  BY <1>1, AttemptRefines, CompletionRefines, CancelRefines, ReconciliationRefines,
     SettledRefines, ElsewhereRefines DEF OrderNext

LEMMA InitRefines == OrderInit => System!SysInit
BY SameForward DEF OrderInit, System!SysInit

----------------------------------------------------------------------------
(***************************************************************************)
(* The provider's rules, as a path.                                        *)
(***************************************************************************)
Path == <<"reserve_inventory", "charge_payment", "schedule_fulfillment",
          "cancel_fulfillment", "refund_payment", "release_inventory">>

LEMMA Operations ==
  ASSUME tool \in Effects
  PROVE  \E i \in 1 .. 3 : tool = Chain[i] /\ Operation = IF Undoing THEN Path[7 - i] ELSE Path[i]
<1>1. tool \in {"reserve_inventory", "charge_payment", "schedule_fulfillment"}
  BY OrderAssumption DEF UndoOf
<1>2. CASE tool = "reserve_inventory"
  <2>1. tool = Chain[1] /\ Operation = IF Undoing THEN Path[6] ELSE Path[1]
    BY <1>2 DEF Chain, Path, Operation, UndoOf
  <2> QED BY <2>1
<1>3. CASE tool = "charge_payment"
  <2>1. tool = Chain[2] /\ Operation = IF Undoing THEN Path[5] ELSE Path[2]
    BY <1>3 DEF Chain, Path, Operation, UndoOf
  <2> QED BY <2>1
<1>4. CASE tool = "schedule_fulfillment"
  <2>1. tool = Chain[3] /\ Operation = IF Undoing THEN Path[4] ELSE Path[3]
    BY <1>4 DEF Chain, Path, Operation, UndoOf
  <2> QED BY <2>1
<1> QED BY <1>1, <1>2, <1>3, <1>4

LEMMA Rules ==
  /\ PhaseAllows(Path[1]) <=> order.payment = "open" /\ order.reserved = 0 /\ order.available >= 1
  /\ PhaseAllows(Path[2]) <=> order.payment = "open" /\ order.reserved = 1
  /\ PhaseAllows(Path[3]) <=> order.payment = "captured" /\ order.fulfillment = "pending"
  /\ PhaseAllows(Path[4]) <=> order.fulfillment \in {"scheduled", "rejected"}
  /\ PhaseAllows(Path[5]) <=> order.payment = "captured" /\ order.fulfillment = "cancelled"
  /\ PhaseAllows(Path[6]) <=> order.payment = "refunded" /\ order.reserved = 1
<1>1. PhaseAllows("reserve_inventory") <=> order.payment = "open" /\ order.reserved = 0 /\ order.available >= 1
  BY DEF PhaseAllows
<1>2. PhaseAllows("charge_payment") <=> order.payment = "open" /\ order.reserved = 1
  BY DEF PhaseAllows
<1>3. PhaseAllows("schedule_fulfillment") <=> order.payment = "captured" /\ order.fulfillment = "pending"
  BY DEF PhaseAllows
<1>4. PhaseAllows("cancel_fulfillment") <=> order.fulfillment \in {"scheduled", "rejected"}
  BY DEF PhaseAllows
<1>5. PhaseAllows("refund_payment") <=> order.payment = "captured" /\ order.fulfillment = "cancelled"
  BY DEF PhaseAllows
<1>6. PhaseAllows("release_inventory") <=> order.payment = "refunded" /\ order.reserved = 1
  BY DEF PhaseAllows
<1> QED BY <1>1, <1>2, <1>3, <1>4, <1>5, <1>6 DEF Path

LEMMA Mutations ==
  /\ Mutated(Path[1]) = [order EXCEPT !.available = @ - 1, !.reserved = @ + 1, !.version = @ + 1]
  /\ Mutated(Path[2]) = [order EXCEPT !.payment = "captured"]
  /\ Mutated(Path[3]) = [order EXCEPT !.fulfillment = IF Rejecting THEN "rejected" ELSE "scheduled"]
  /\ Mutated(Path[4]) = [order EXCEPT !.fulfillment = "cancelled"]
  /\ Mutated(Path[5]) = [order EXCEPT !.payment = "refunded"]
  /\ Mutated(Path[6]) = [order EXCEPT !.available = @ + 1, !.reserved = @ - 1, !.version = @ + 1]
<1>1. Mutated("reserve_inventory") = [order EXCEPT !.available = @ - 1, !.reserved = @ + 1, !.version = @ + 1]
  BY DEF Mutated
<1>2. Mutated("charge_payment") = [order EXCEPT !.payment = "captured"]
  BY DEF Mutated
<1>3. Mutated("schedule_fulfillment") = [order EXCEPT !.fulfillment = IF Rejecting THEN "rejected" ELSE "scheduled"]
  BY DEF Mutated
<1>4. Mutated("cancel_fulfillment") = [order EXCEPT !.fulfillment = "cancelled"]
  BY DEF Mutated
<1>5. Mutated("refund_payment") = [order EXCEPT !.payment = "refunded"]
  BY DEF Mutated
<1>6. Mutated("release_inventory") = [order EXCEPT !.available = @ + 1, !.reserved = @ - 1, !.version = @ + 1]
  BY DEF Mutated
<1> QED BY <1>1, <1>2, <1>3, <1>4, <1>5, <1>6 DEF Path

\* Of the six operations an order allows the next one on its path, no other.
LEMMA NextAllowed ==
  ASSUME NEW k \in 0 .. 6, Reached(k), NEW m \in 1 .. 6
  PROVE  PhaseAllows(Path[m]) <=> m = k + 1
<1>1. CASE k = 0
  BY <1>1, Rules DEF Reached, NewOrder
<1>2. CASE k = 1
  BY <1>2, Rules DEF Reached, NewOrder
<1>3. CASE k = 2
  BY <1>3, Rules DEF Reached, NewOrder
<1>4. CASE k = 3
  BY <1>4, Rules DEF Reached, NewOrder
<1>5. CASE k = 4
  BY <1>5, Rules DEF Reached, NewOrder
<1>6. CASE k = 5
  BY <1>6, Rules DEF Reached, NewOrder
<1>7. CASE k = 6
  BY <1>7, Rules DEF Reached, NewOrder
<1> QED BY <1>1, <1>2, <1>3, <1>4, <1>5, <1>6, <1>7

LEMMA NextReached ==
  ASSUME NEW k \in 0 .. 6, Reached(k), k < 6, order' = Mutated(Path[k + 1])
  PROVE  Reached(k + 1)'
<1>1. CASE k = 0
  <2>1. order = NewOrder
    BY <1>1 DEF Reached
  <2>2. order' = [available |-> 2 - 1, reserved |-> 0 + 1, version |-> 1 + 1,
                  payment |-> "open", fulfillment |-> "pending"]
    <3>1. order' = [order EXCEPT !.available = @ - 1, !.reserved = @ + 1, !.version = @ + 1]
      BY <1>1, Mutations
    <3> QED BY <2>1, <3>1, Zenon DEF NewOrder
  <2>3. 2 - 1 = 1 /\ 0 + 1 = 1 /\ 1 + 1 = 2
    OBVIOUS
  <2> QED BY <1>1, <2>2, <2>3 DEF Reached
<1>2. CASE k = 1
  BY <1>2, Mutations DEF Reached, NewOrder
<1>3. CASE k = 2
  BY <1>3, Mutations DEF Reached, NewOrder
<1>4. CASE k = 3
  BY <1>4, Mutations DEF Reached, NewOrder
<1>5. CASE k = 4
  BY <1>5, Mutations DEF Reached, NewOrder
<1>6. CASE k = 5
  <2>1. order = [available |-> 1, reserved |-> 1, version |-> 2,
                 payment |-> "refunded", fulfillment |-> "cancelled"]
    BY <1>6 DEF Reached
  <2>2. order' = [available |-> 1 + 1, reserved |-> 1 - 1, version |-> 2 + 1,
                  payment |-> "refunded", fulfillment |-> "cancelled"]
    <3>1. order' = [order EXCEPT !.available = @ + 1, !.reserved = @ - 1, !.version = @ + 1]
      BY <1>6, Mutations
    <3> QED BY <2>1, <3>1, Zenon
  <2>3. 1 + 1 = 2 /\ 1 - 1 = 0 /\ 2 + 1 = 3
    OBVIOUS
  <2> QED BY <1>6, <2>2, <2>3 DEF Reached
<1> QED BY <1>1, <1>2, <1>3, <1>4, <1>5, <1>6

----------------------------------------------------------------------------
(***************************************************************************)
(* Every step is one of the workflow, or leaves it alone.                  *)
(***************************************************************************)
LEMMA WorkflowStep == [OrderNext]_orderVars => [Next]_vars
<1>1. Execute \/ ExecuteAgain \/ Refuse \/ NeverExecuted => UNCHANGED vars
  BY DEF Execute, ExecuteAgain, Refuse, NeverExecuted, Reported, Reply, Attempt
<1>2. ActivityCompletes \/ CancelInFlight => Next
  BY DEF ActivityCompletes, CancelInFlight, Next, Forward, Backward
<1>3. Reconciliation => Next
  <2>1. EffectReconciled \/ NoMatchingEffect \/ UndoReconciled => Next
    BY DEF EffectReconciled, NoMatchingEffect, UndoReconciled, Next, Forward, Backward
  <2>2. ReconciliationFails => StillUnknown
    BY DEF ReconciliationFails, StillUnknown, book, evidence
  <2>3. UndoNotFound => UndoUnproven
    BY DEF UndoNotFound, UndoUnproven
  <2> QED BY <2>1, <2>2, <2>3 DEF Reconciliation, Next, Forward, Backward
<1>4. ProposeCommand \/ Elsewhere => Next
  BY DEF ProposeCommand, Elsewhere, Verified, NotVerified, Next, Forward, Human
<1>5. ASSUME NEW o \in Operators, SettledByHand(o) PROVE Next
  BY <1>5 DEF SettledByHand, Next, Human
<1>6. UNCHANGED orderVars => UNCHANGED vars
  BY DEF orderVars
<1> QED BY <1>1, <1>2, <1>3, <1>4, <1>5, <1>6 DEF OrderNext

LEMMA Counting ==
  ASSUME TypeOK, NEW j, NEW b, NEW v, NEW n \in Nat,
         \/ Close(v, n) \/ Advance(j, b, v, n) \/ Stop(j, n) \/ UnwindBeforeHuman(j, n)
         \/ HandleForwardFailure(j, n) \/ NextTurn(j, n)
  PROVE  eventCount' >= eventCount
<1>0. eventCount \in Nat
  BY DEF TypeOK
<1>1. ASSUME NEW w, NEW m \in Nat, Close(w, m) PROVE eventCount' >= eventCount
  BY <1>0, <1>1 DEF Close
<1>2. ASSUME NEW d, NEW w, NEW m \in Nat, Advance(j, d, w, m) PROVE eventCount' >= eventCount
  <2>1. CASE eventCount' = eventCount + m
    BY <1>0, <2>1
  <2>2. CASE Close(w, m + 2)
    BY <1>1, <2>2
  <2> QED BY <1>2, <2>1, <2>2 DEF Advance
<1>3. ASSUME NEW w, NEW m \in Nat, Unwind(j, w, m) PROVE eventCount' >= eventCount
  BY <1>2, <1>3 DEF Unwind
<1>4. Stop(j, n) \/ UnwindBeforeHuman(j, n) \/ HandleForwardFailure(j, n) => eventCount' >= eventCount
  <2>1. n + 1 \in Nat
    OBVIOUS
  <2> QED BY <1>1, <1>3, <2>1 DEF Stop, UnwindBeforeHuman, HandleForwardFailure
<1>5. NextTurn(j, n) => eventCount' >= eventCount
  BY <1>0, <1>4 DEF NextTurn
<1> QED BY <1>1, <1>2, <1>4, <1>5

LEMMA EventsGrow ==
  ASSUME TypeOK, [Next]_vars
  PROVE  eventCount' >= eventCount
<1>0. eventCount \in Nat
  BY DEF TypeOK
<1>1. Start \/ DecisionFails \/ ProposalRejected \/ FinishProposed \/ ForwardSucceeds \/ ForwardFails
      \/ ReconciledEffect \/ ReconciledNoEffect \/ StillUnknown => eventCount' >= eventCount
  <2>1. FinishProposed => Close("succeeded_verified", 2) \/ Stop(journal, 1)
    BY DEF FinishProposed
  <2>2. 2 \in Nat /\ 1 \in Nat /\ 0 \in Nat
    OBVIOUS
  <2>3. StillUnknown => \E n \in {0, 1} : UnwindBeforeHuman(journal, n)
    BY DEF StillUnknown
  <2> QED BY <2>1, <2>2, <2>3, Counting DEF Start, DecisionFails, ProposalRejected, ForwardSucceeds,
             ForwardFails, ReconciledEffect, ReconciledNoEffect
<1>2. ToolCalled \/ ForwardUnknown \/ EmptyReceipt => eventCount' >= eventCount
  BY <1>0 DEF ToolCalled, ForwardUnknown, EmptyReceipt, Await, Fail
<1>3. ASSUME NEW n \in Nat, Undone(n) \/ Disputed(n) PROVE eventCount' >= eventCount
  <2>1. Undone(n) => eventCount' >= eventCount
    BY Counting DEF Undone
  <2>2. Disputed(n) => eventCount' >= eventCount
    BY <1>0 DEF Disputed, WaitForHuman
  <2> QED BY <1>3, <2>1, <2>2
<1>4. Backward => eventCount' >= eventCount
  BY <1>0, <1>3 DEF Backward, CompensationSucceeds, CompensationRefused, CompensationUnknown,
     ReconciledUndo, UndoUnproven, Await
<1>5. ASSUME NEW o \in Operators, Human(o) PROVE eventCount' >= eventCount
  <2>1. Resolve(o) => eventCount' >= eventCount
    BY Counting DEF Resolve
  <2>2. ReadState(o) \/ SubmitAccepted(o) \/ SubmitRejected(o) \/ VerificationFails(o) \/ Conflict(o)
          => eventCount' >= eventCount
    BY <1>0 DEF ReadState, SubmitAccepted, SubmitRejected, VerificationFails, Conflict, Fail, control
  <2> QED BY <1>5, <2>1, <2>2 DEF Human
<1>6. CancelWhileWaiting \/ Rest \/ UNCHANGED vars => eventCount' >= eventCount
  BY <1>0 DEF CancelWhileWaiting, Rest, vars, control
<1> QED BY <1>1, <1>2, <1>4, <1>5, <1>6 DEF Next, Forward

----------------------------------------------------------------------------
(***************************************************************************)
(* The attempts at the provider.                                           *)
(***************************************************************************)
LEMMA OperationOf ==
  ASSUME NEW i \in 1 .. 3, tool = Chain[i]
  PROVE  tool \in Effects /\ Operation = IF Undoing THEN Path[7 - i] ELSE Path[i]
<1>1. CASE i = 1
  BY <1>1, OrderAssumption DEF Chain, Path, Operation, UndoOf
<1>2. CASE i = 2
  BY <1>2, OrderAssumption DEF Chain, Path, Operation, UndoOf
<1>3. CASE i = 3
  BY <1>3, OrderAssumption DEF Chain, Path, Operation, UndoOf
<1> QED BY <1>1, <1>2, <1>3

LEMMA AttemptFrame ==
  ASSUME OrderInv, Execute \/ ExecuteAgain \/ Refuse \/ NeverExecuted
  PROVE  /\ Executing /\ Executing'
         /\ UNCHANGED <<vars, command, scenario, byHand>>
         /\ UNCHANGED <<pc, status, eventCount, step, tool, journal, freshProofs>>
         /\ attempt' \in 0 .. MaxAttempts /\ answer' \in {"confirmed", "refused", "lost"}
         /\ Undoing' = Undoing /\ Operation' = Operation /\ OperationId' = OperationId
         /\ IInv'
<1>1. PICK a \in {"confirmed", "refused", "lost"} : Attempt(a)
  BY DEF Execute, ExecuteAgain, Refuse, NeverExecuted, Reported, Reply
<1>2. /\ Executing /\ UNCHANGED <<vars, command, byHand>>
      /\ attempt < MaxAttempts /\ attempt' = attempt + 1 /\ answer' = a
  BY <1>1 DEF Attempt, history
<1>3. UNCHANGED scenario
  BY DEF Execute, ExecuteAgain, Refuse, NeverExecuted, provider
<1>4. UNCHANGED <<pc, status, eventCount, step, tool, journal, freshProofs>>
  BY <1>2 DEF vars, control, evidence, book
<1>5. attempt' \in 0 .. MaxAttempts
  BY <1>2, OrderAssumption DEF OrderInv, ProviderInv
<1>6. Undoing' = Undoing /\ (Executing' <=> Executing)
  BY <1>4 DEF Undoing, Executing
<1>7. Operation' = Operation /\ OperationId' = OperationId
  BY <1>4, <1>6 DEF Operation, OperationId
<1>8. IInv'
  BY <1>2, StutterStep DEF OrderInv
<1> QED BY <1>1, <1>2, <1>3, <1>4, <1>5, <1>6, <1>7, <1>8

\* The part of an unwind that no human had a hand in.
LEMMA UnwindPlace ==
  ASSUME OrderInv, NEW i \in DOMAIN journal
  PROVE  /\ i \in 1 .. 3 /\ Len(journal) \in 1 .. 3 /\ i <= Len(journal)
         /\ tool = Chain[i] /\ Undoing => Operation = Path[7 - i]
<1>1. Len(journal) \in Nat /\ DOMAIN journal = 1 .. Len(journal)
  BY DEF OrderInv, IInv, TypeOK
<1>2. i \in 1 .. 3 /\ Len(journal) \in 1 .. 3 /\ i <= Len(journal)
  BY <1>1 DEF OrderInv, ChainInv
<1> QED BY <1>2, OperationOf

LEMMA AwaitedBefore ==
  ASSUME OrderInv, Executing
  PROVE  step \in Nat /\ step < eventCount
<1>1. CASE pc = "forward"
  BY <1>1 DEF OrderInv, IInv, TypeOK, PlaceInv
<1>2. CASE pc = "compensating"
  <2>1. PICK i \in DOMAIN journal : journal[i].step = step
    BY <1>2, AwaitedUndo DEF OrderInv, UndoPcs
  <2> QED BY <2>1 DEF OrderInv, IInv, TypeOK, JournalInv
<1> QED BY <1>1, <1>2 DEF Executing

LEMMA ExecuteStep ==
  ASSUME OrderInv, Execute
  PROVE  OrderInv'
<1>1. /\ Executing /\ Executing'
      /\ UNCHANGED <<command, scenario, byHand, pc, status, eventCount, step, tool, journal, freshProofs>>
      /\ attempt' \in 0 .. MaxAttempts
      /\ Undoing' = Undoing /\ Operation' = Operation /\ OperationId' = OperationId
      /\ IInv'
  BY AttemptFrame
<1>2. /\ ~Repeated /\ CommandMatches /\ PhaseAllows(Operation)
      /\ order' = Mutated(Operation) /\ receipts' = receipts \cup {OperationId}
      /\ answer' \in {"confirmed", "lost"}
  BY DEF Execute, Reported, Reply, Attempt
<1>3. Repeated'
  BY <1>1, <1>2 DEF Repeated
<1>4. tool \in Effects /\ step \in Nat /\ step < eventCount
      /\ pc \in {"forward", "compensating"}
  BY <1>1, Placed, AwaitedBefore
<1>5. PICK m \in 1 .. 3 : tool = Chain[m] /\ Operation = IF Undoing THEN Path[7 - m] ELSE Path[m]
  BY <1>4, Operations
<1>6. OperationId.step = step /\ OperationId.undo = Undoing
      /\ OperationId \in [step : Nat, undo : BOOLEAN]
  BY <1>4 DEF OperationId, Undoing
<1>7. ASSUME NEW k \in 0 .. 6, Reached(k)
      PROVE  k < 6 /\ Reached(k + 1)' /\ k + 1 = IF Undoing THEN 7 - m ELSE m
  <2>1. PICK n \in 1 .. 6 : Operation = Path[n] /\ n = IF Undoing THEN 7 - m ELSE m
    BY <1>5
  <2>2. n = k + 1
    BY <1>2, <1>7, <2>1, NextAllowed
  <2>3. k < 6 /\ Operation = Path[k + 1]
    BY <2>1, <2>2
  <2> QED BY <1>2, <1>7, <2>1, <2>2, <2>3, NextReached
<1>8. ProviderInv'
  <2>1. receipts' \subseteq [step : Nat, undo : BOOLEAN] /\ \A r \in receipts' : r.step < eventCount'
    BY <1>1, <1>2, <1>4, <1>6 DEF OrderInv, ProviderInv
  <2>2. \E k \in 0 .. 6 : Reached(k)'
    <3>1. PICK k \in 0 .. 6 : Reached(k)
      BY DEF OrderInv, ProviderInv
    <3>2. k + 1 \in 0 .. 6 /\ Reached(k + 1)'
      BY <1>7, <3>1
    <3> QED BY <3>2
  <2>3. pc' \in UndoPcs \cup {"human"} => \A r \in receipts' : r.undo => r.step >= step'
    BY <1>1, <1>2, <1>4, <1>6 DEF OrderInv, ProviderInv
  <2>4. pc' \in UndoPcs => tool' \in Effects
    BY <1>1, <1>4
  <2> QED BY <1>1, <1>2, <2>1, <2>2, <2>3, <2>4 DEF ProviderInv
<1>9. AnswerInv' /\ HandInv' /\ ChainInv'
  BY <1>1, <1>2, <1>3 DEF OrderInv, AnswerInv, HandInv, ChainInv
<1>10. RunInv' /\ (ReservationsAnswered => CommandInv')
  <2>1. CASE pc = "forward"
    <3>1. Undoing = FALSE /\ InFlight' /\ ~InFlight
      <4>1. Undoing = FALSE
        BY <2>1 DEF Undoing
      <4> QED BY <1>1, <1>2, <1>3, <1>4, <2>1, <4>1 DEF InFlight
    <3>2. Reached(Len(journal)) /\ \A r \in receipts : ~r.undo
      BY <2>1, <3>1 DEF OrderInv, RunInv, ForwardPcs
    <3>3. PICK k \in 0 .. 3 : k = Len(journal) /\ k = Len(journal')
      <4>1. Len(journal) \in Nat /\ Len(journal) <= 3
        BY DEF OrderInv, ChainInv, IInv, TypeOK
      <4>2. Len(journal') = Len(journal)
        BY <1>1
      <4> QED BY <4>1, <4>2
    <3>9. Reached(k) /\ k + 1 = m /\ k < 3 /\ Reached(k + 1)'
      <4>1. k \in 0 .. 6 /\ Reached(k)
        BY <3>2, <3>3
      <4> QED BY <1>7, <3>1, <4>1
    <3>4. "verify_order" \notin freshProofs
      <4>1. k \in 0 .. 2
        BY <3>9
      <4>2. order.fulfillment = "pending"
        BY <3>9, <4>1 DEF Reached, NewOrder
      <4> QED BY <2>1, <4>2 DEF OrderInv, RunInv, ForwardPcs
    <3>5. \A r \in receipts' : ~r.undo
      BY <1>2, <1>6, <3>1, <3>2
    <3>6. RunInv'
      BY <1>1, <1>5, <3>1, <3>3, <3>4, <3>5, <3>9 DEF RunInv
    <3>7. command'.correct
      BY <1>1, <1>2, <3>1 DEF CommandMatches
    <3>8. ReservationsAnswered /\ pc' = "forward" /\ tool' = "reserve_inventory" => answer' # "lost"
      <4>1. tool = "reserve_inventory" => Operation = "reserve_inventory"
        BY <3>1 DEF Operation
      <4>2. answer' = "lost" => ResponseIsLost \/ Operation \in LossyOps
        BY DEF Execute, Reported, Reply, Attempt
      <4> QED BY <1>1, <4>1, <4>2 DEF ReservationsAnswered, ResponseIsLost
    <3> QED BY <1>1, <2>1, <3>6, <3>7, <3>8 DEF CommandInv
  <2>2. CASE pc = "compensating"
    BY <1>1, <2>2 DEF RunInv, CommandInv, InFlight, ForwardPcs
  <2> QED BY <1>4, <2>1, <2>2
<1>11. ReservationsAnswered => UnwindInv'
  <2> SUFFICES ASSUME ReservationsAnswered, pc \in UndoPcs, byHand = {} PROVE UnwindInv'
    BY <1>1 DEF UnwindInv
  <2>1. PICK i \in DOMAIN journal :
          /\ journal[i].step = step /\ tool = Chain[i]
          /\ IF Len(journal) = 3
               THEN Reached(6 - i)
               ELSE i = Len(journal) /\ (Reached(i) \/ Reached(i + 1))
    BY <1>2 DEF OrderInv, UnwindInv
  <2>2. Undoing = TRUE
    BY <1>1, <1>4 DEF Undoing, UndoPcs
  <2>3. i \in 1 .. 3 /\ Len(journal) \in 1 .. 3
    BY UnwindPlace
  <2>4. i = m
    BY <1>5, <2>1, <2>3 DEF Chain
  <2>5. Len(journal) = 3
    <3>1. ASSUME Len(journal) # 3 PROVE FALSE
      <4>1. i \in 1 .. 2 /\ (Reached(i) \/ Reached(i + 1))
        BY <2>1, <2>3, <3>1
      <4>2. i + 1 = 7 - i \/ i + 2 = 7 - i
        BY <1>7, <2>2, <2>3, <2>4, <4>1
      <4> QED BY <4>1, <4>2
    <3> QED BY <3>1
  <2>6. Reached(7 - i)'
    <3>1. 6 - i \in 0 .. 6 /\ (6 - i) + 1 = 7 - i
      BY <2>3
    <3> QED BY <1>7, <2>1, <2>5, <3>1
  <2>7. i \in DOMAIN journal'
    BY <1>1
  <2> QED BY <1>1, <1>2, <1>3, <2>1, <2>5, <2>6, <2>7 DEF UnwindInv
<1>12. EndInv'
  BY <1>1, <1>4 DEF EndInv
<1> QED BY <1>1, <1>8, <1>9, <1>10, <1>11, <1>12 DEF OrderInv

LEMMA AnsweredStep ==
  ASSUME OrderInv, ExecuteAgain \/ Refuse \/ NeverExecuted
  PROVE  OrderInv'
<1>1. /\ Executing /\ Executing'
      /\ UNCHANGED <<command, scenario, byHand, pc, status, eventCount, step, tool, journal, freshProofs>>
      /\ attempt' \in 0 .. MaxAttempts /\ answer' \in {"confirmed", "refused", "lost"}
      /\ Undoing' = Undoing /\ Operation' = Operation /\ OperationId' = OperationId
      /\ IInv'
  BY AttemptFrame
<1>2. UNCHANGED <<order, receipts>>
  BY DEF ExecuteAgain, Refuse, NeverExecuted, provider
<1>3. /\ Repeated' = Repeated /\ InFlight' = InFlight
      /\ \A k : Reached(k)' <=> Reached(k)
  BY <1>1, <1>2 DEF Repeated, InFlight, Reached
<1>4. /\ answer' = "confirmed" => Repeated
      /\ answer' = "refused" => ~Repeated /\ ~(CommandMatches /\ PhaseAllows(Operation))
      /\ answer' = "lost" => ResponseIsLost \/ Operation \in LossyOps
  BY DEF ExecuteAgain, Refuse, NeverExecuted, Reported, Reply, Attempt
<1>5. ProviderInv'
  BY <1>1, <1>2, <1>3 DEF OrderInv, ProviderInv
<1>6. AnswerInv' /\ HandInv' /\ ChainInv'
  BY <1>1, <1>3, <1>4 DEF OrderInv, AnswerInv, HandInv, ChainInv
<1>7. RunInv'
  <2>1. Len(journal') = Len(journal)
    BY <1>1
  <2>2. /\ Reached(Len(journal))' <=> Reached(Len(journal))
        /\ Reached(Len(journal) + 1)' <=> Reached(Len(journal) + 1)
    BY <1>1, <1>2 DEF Reached
  <2> QED BY <1>1, <1>2, <1>3, <2>1, <2>2 DEF OrderInv, RunInv
<1>8. ReservationsAnswered => CommandInv'
  <2> SUFFICES ASSUME ReservationsAnswered PROVE CommandInv'
    OBVIOUS
  <2>1. pc = "forward" /\ tool = "reserve_inventory" => answer' # "lost"
    <3>1. pc = "forward" /\ tool = "reserve_inventory" => Operation = "reserve_inventory"
      BY DEF Operation, Undoing
    <3> QED BY <1>4, <3>1 DEF ReservationsAnswered, ResponseIsLost
  <2> QED BY <1>1, <1>3, <2>1 DEF OrderInv, CommandInv
<1>9. ReservationsAnswered => UnwindInv'
  <2> SUFFICES ASSUME ReservationsAnswered, pc \in UndoPcs, byHand = {} PROVE UnwindInv'
    BY <1>1 DEF UnwindInv
  <2>1. PICK i \in DOMAIN journal :
          /\ journal[i].step = step /\ tool = Chain[i]
          /\ IF Len(journal) = 3
               THEN Reached(IF Repeated THEN 7 - i ELSE 6 - i)
               ELSE i = Len(journal) /\ ~Repeated /\ (Reached(i) \/ Reached(i + 1))
    BY DEF OrderInv, UnwindInv
  <2>2. i \in 1 .. 3 /\ Len(journal) \in 1 .. 3
    BY UnwindPlace
  <2>3. Len(journal) = 3 => answer' # "refused"
    <3> SUFFICES ASSUME Len(journal) = 3, answer' = "refused" PROVE FALSE
      OBVIOUS
    <3>1. Undoing = TRUE /\ CommandMatches
      BY DEF Undoing, UndoPcs, CommandMatches
    <3>2. Reached(6 - i) /\ 6 - i \in 0 .. 6 /\ 7 - i \in 1 .. 6 /\ (6 - i) + 1 = 7 - i
      BY <1>4, <2>1, <2>2
    <3>3. PhaseAllows(Path[7 - i])
      BY <3>2, NextAllowed
    <3>4. Operation = Path[7 - i]
      BY <2>1, <3>1, UnwindPlace
    <3> QED BY <1>4, <3>1, <3>3, <3>4
  <2>4. i \in DOMAIN journal' /\ journal'[i].step = step' /\ tool' = Chain[i] /\ Len(journal') = Len(journal)
    BY <1>1, <2>1
  <2>5. /\ Reached(7 - i)' <=> Reached(7 - i)
        /\ Reached(6 - i)' <=> Reached(6 - i)
        /\ Reached(i)' <=> Reached(i)
        /\ Reached(i + 1)' <=> Reached(i + 1)
    BY <1>3
  <2> QED BY <1>1, <1>3, <2>1, <2>3, <2>4, <2>5 DEF UnwindInv
<1>10. EndInv'
  <2>1. pc' # "closed"
    BY <1>1 DEF Executing
  <2> QED BY <2>1 DEF EndInv
<1> QED BY <1>1, <1>5, <1>6, <1>7, <1>8, <1>9, <1>10 DEF OrderInv

----------------------------------------------------------------------------
(***************************************************************************)
(* Forward turns: the saga goes on, or begins to unwind.                   *)
(***************************************************************************)
LEMMA ForwardPlace ==
  ASSUME OrderInv, pc \in ForwardPcs
  PROVE  /\ byHand = {} /\ status = "running" /\ AllPending(journal) /\ ~blocked
         /\ \A r \in receipts : ~r.undo
         /\ Undoing = FALSE
         /\ \E k \in 0 .. 3 : k = Len(journal)
         /\ tool \notin Effects \/ pc \notin {"forward", "reconciling"} \/ ~Repeated
              => ~InFlight /\ Reached(Len(journal))
<1>1. status = "running" /\ AllPending(journal) /\ ~blocked
  BY RunningFacts DEF OrderInv
<1>2. byHand = {}
  BY <1>1 DEF OrderInv, HandInv, AllPending
<1>3. Len(journal) \in Nat /\ Len(journal) <= 3
  BY DEF OrderInv, ChainInv, IInv, TypeOK
<1>4. Undoing = FALSE
  BY DEF Undoing, ForwardPcs
<1>5. \E k \in 0 .. 3 : k = Len(journal)
  <2>1. PICK k \in Nat : k = Len(journal)
    BY <1>3
  <2>2. k <= 3
    BY <1>3, <2>1
  <2>3. k \in 0 .. 3
    BY ONLY k \in Nat, <2>2
  <2> QED BY <2>1, <2>3
<1>6. \A r \in receipts : ~r.undo
  BY DEF OrderInv, RunInv
<1>7. IF InFlight THEN TRUE ELSE Reached(Len(journal))
  BY DEF OrderInv, RunInv
<1>8. tool \notin Effects \/ pc \notin {"forward", "reconciling"} \/ ~Repeated => ~InFlight
  BY DEF InFlight
<1> QED BY <1>1, <1>2, <1>4, <1>5, <1>6, <1>7, <1>8

\* The journal after a forward turn.
TurnJournal ==
  /\ ChainInv' /\ journal' \in Seq(Entries(Tools)) /\ AllPending(journal')

LEMMA SameTurnJournal ==
  ASSUME OrderInv, pc \in ForwardPcs, journal' = journal
  PROVE  TurnJournal
BY ForwardPlace DEF OrderInv, IInv, TypeOK, ChainInv, TurnJournal

LEMMA QuietProvider ==
  ASSUME OrderInv, [Next]_vars, UNCHANGED <<order, receipts>>,
         attempt' \in 0 .. MaxAttempts, answer' \in {"none", "confirmed", "refused", "lost"},
         pc' \in UndoPcs => tool' \in Effects,
         pc' \in UndoPcs \cup {"human"} => \A r \in receipts : r.undo => r.step >= step'
  PROVE  ProviderInv' /\ IInv'
<1>1. IInv' /\ eventCount' >= eventCount /\ eventCount' \in Nat /\ eventCount \in Nat
  BY NextIInv, EventsGrow DEF OrderInv, IInv, TypeOK
<1>2. \A r \in receipts : r.step < eventCount' /\ r.step \in Nat
  BY <1>1 DEF OrderInv, ProviderInv
<1>3. \A k : Reached(k)' <=> Reached(k)
  BY DEF Reached
<1> QED BY <1>1, <1>2, <1>3 DEF OrderInv, ProviderInv

\* The agent is asked again, or the saga has not begun.
LEMMA TurnGoesOn ==
  ASSUME OrderInv, [Next]_vars, pc \in ForwardPcs, TurnJournal, pc' = "deciding",
         UNCHANGED <<order, receipts, byHand>>, attempt' \in 0 .. MaxAttempts, answer' = "none",
         NEW k \in 0 .. 3, k = Len(journal'), Reached(k),
         "verify_order" \in freshProofs' => order.fulfillment = "scheduled"
  PROVE  OrderInv'
<1>1. ProviderInv' /\ IInv'
  BY QuietProvider DEF UndoPcs
<1>2. AnswerInv' /\ HandInv'
  BY ForwardPlace DEF AnswerInv, HandInv, Executing
<1>3. Reached(k)' <=> Reached(k)
  BY DEF Reached
<1>4. RunInv' /\ CommandInv'
  BY <1>3, ForwardPlace DEF RunInv, CommandInv, InFlight
<1>5. UnwindInv' /\ EndInv'
  BY DEF UnwindInv, EndInv, UndoPcs
<1> QED BY <1>1, <1>2, <1>4, <1>5 DEF OrderInv, TurnJournal

\* The saga gives up and unwinds, or ends.
LEMMA UnwindBegins ==
  ASSUME OrderInv, [Next]_vars, pc \in ForwardPcs, TurnJournal, GaveUp(journal'),
         UNCHANGED <<order, receipts, byHand>>, attempt' \in 0 .. MaxAttempts, answer' = "none",
         NEW k \in 0 .. 3, k = Len(journal'),
         ReservationsAnswered => Reached(k) \/ (k < 3 /\ Reached(k + 1)),
         ReservationsAnswered /\ pc' = "closed" /\ status' = "aborted_clean" => Reached(0)
  PROVE  OrderInv'
<1>1. \A r \in receipts : ~r.undo
  BY ForwardPlace
<1>2. byHand' = {}
  BY ForwardPlace
<1>3. \A m : Reached(m)' <=> Reached(m)
  BY DEF Reached
<1>4. pc' \in {"closed", "compensating"}
  BY DEF GaveUp, UnwindGoesOn
<1>5. CASE pc' = "closed"
  <2>1. status' \in {"human_required", "aborted_clean"}
    BY <1>5 DEF GaveUp, UnwindGoesOn
  <2>2. ProviderInv' /\ IInv'
    BY <1>1, <1>5, QuietProvider DEF UndoPcs
  <2>3. AnswerInv' /\ HandInv' /\ RunInv' /\ CommandInv' /\ UnwindInv'
    BY <1>2, <1>5 DEF AnswerInv, HandInv, RunInv, CommandInv, UnwindInv, InFlight, Executing, ForwardPcs, UndoPcs
  <2>4. EndInv'
    BY <1>3, <1>5, <2>1 DEF EndInv
  <2> QED BY <2>2, <2>3, <2>4 DEF OrderInv, TurnJournal
<1>6. CASE pc' = "compensating"
  <2>1. PICK i \in DOMAIN journal' :
          IsFrontier(journal', i) /\ step' = journal'[i].step /\ tool' = journal'[i].tool
    BY <1>6 DEF GaveUp, UnwindGoesOn
  <2>2. DOMAIN journal' = 1 .. k
    BY DEF TurnJournal
  <2>3. i = k /\ k \in 1 .. 3
    <3>1. PendingAt(journal') = 1 .. k
      BY <2>2 DEF TurnJournal, PendingAt, AllPending
    <3>2. k \in 1 .. k
      BY <2>1, <2>2
    <3>3. k <= i
      BY <2>1, <3>1, <3>2 DEF IsFrontier
    <3> QED BY <2>1, <2>2, <3>3
  <2>4. tool' = Chain[k]
    BY <2>1, <2>3 DEF TurnJournal, ChainInv
  <2>5. tool' \in Effects
    BY <2>3, <2>4, OrderAssumption DEF Chain, UndoOf
  <2>6. ProviderInv' /\ IInv'
    BY <1>1, <1>6, <2>5, QuietProvider
  <2>7. AnswerInv' /\ HandInv' /\ RunInv' /\ CommandInv' /\ EndInv'
    BY <1>2, <1>6 DEF AnswerInv, HandInv, RunInv, CommandInv, EndInv, InFlight, Executing, ForwardPcs
  <2>8. Repeated' = FALSE
    <3>1. OperationId'.undo = TRUE
      BY <1>6 DEF OperationId, Undoing
    <3> QED BY <1>1, <3>1 DEF Repeated
  <2>9. ReservationsAnswered => UnwindInv'
    <3> SUFFICES ASSUME ReservationsAnswered PROVE UnwindInv'
      OBVIOUS
    <3>1. k \in DOMAIN journal' /\ journal'[k].step = step' /\ k = Len(journal')
      BY <2>1, <2>3
    <3>2. CASE k = 3
      <4>1. Reached(6 - k)'
        <5>1. Reached(3) /\ 6 - k = 3
          BY <3>2
        <5> QED BY <1>3, <5>1
      <4> QED BY <2>4, <2>8, <3>1, <3>2, <4>1 DEF UnwindInv
    <3>3. CASE k # 3
      <4>1. Reached(k)' \/ Reached(k + 1)'
        BY <1>3
      <4> QED BY <2>4, <2>8, <3>1, <3>3, <4>1 DEF UnwindInv
    <3> QED BY <3>2, <3>3
  <2> QED BY <2>6, <2>7, <2>9 DEF OrderInv, TurnJournal
<1> QED BY <1>4, <1>5, <1>6

\* A turn is over, and what was done is on record.
LEMMA TurnEnds ==
  ASSUME OrderInv, [Next]_vars, pc \in ForwardPcs, TurnJournal, NEW n \in Nat,
         \/ NextTurn(journal', n) \/ Stop(journal', n) \/ UnwindBeforeHuman(journal', n)
         \/ HandleForwardFailure(journal', n),
         UNCHANGED <<order, receipts, byHand>>, attempt' \in 0 .. MaxAttempts, answer' = "none",
         NEW k \in 0 .. 3, k = Len(journal'), Reached(k),
         "verify_order" \in freshProofs' => order.fulfillment = "scheduled"
  PROVE  OrderInv'
<1>1. TypeOK /\ ~blocked /\ journal' \in Seq(Entries(Tools)) /\ AllPending(journal')
  BY RunningFacts DEF OrderInv, IInv, TurnJournal
<1>2. TurnTaken \/ GaveUp(journal')
  BY <1>1, TakingATurn, GivingUp
<1>3. CASE TurnTaken
  BY <1>3, TurnGoesOn DEF TurnTaken
<1>4. CASE GaveUp(journal')
  <2>1. pc' = "closed" => k = 0
    BY <1>4 DEF GaveUp, UnwindGoesOn
  <2> QED BY <1>4, <2>1, UnwindBegins
<1> QED BY <1>2, <1>3, <1>4

\* No activity is under way.
LEMMA NothingAwaited ==
  ASSUME OrderInv, ~Executing, pc # "task_failed", UNCHANGED activity
  PROVE  attempt' \in 0 .. MaxAttempts /\ answer' = "none" /\ answer = "none"
BY DEF OrderInv, AnswerInv, ProviderInv, activity

LEMMA TurnFails ==
  ASSUME OrderInv, [Next]_vars, pc \in ForwardPcs, ~InFlight, UNCHANGED <<evidence, book>>,
         NEW n \in Nat,
         \/ NextTurn(journal, n) \/ Stop(journal, n) \/ UnwindBeforeHuman(journal, n)
         \/ HandleForwardFailure(journal, n),
         UNCHANGED <<order, receipts, byHand>>, attempt' \in 0 .. MaxAttempts, answer' = "none"
  PROVE  OrderInv'
<1>1. journal' = journal /\ freshProofs' = freshProofs
  BY DEF evidence, book
<1>2. TurnJournal
  BY <1>1, SameTurnJournal
<1>3. PICK k \in 0 .. 3 : k = Len(journal)
  BY ForwardPlace
<1>4. Reached(k) /\ ("verify_order" \in freshProofs => order.fulfillment = "scheduled")
  BY <1>3 DEF OrderInv, RunInv
<1>5. \/ NextTurn(journal', n) \/ Stop(journal', n) \/ UnwindBeforeHuman(journal', n)
      \/ HandleForwardFailure(journal', n)
  BY <1>1
<1>6. k = Len(journal')
  BY <1>1, <1>3
<1> QED BY <1>1, <1>2, <1>4, <1>5, <1>6, TurnEnds

LEMMA AgentStep ==
  ASSUME OrderInv, [Next]_vars, Start \/ DecisionFails \/ ProposalRejected \/ FinishProposed,
         UNCHANGED <<command, activity, provider, history>>
  PROVE  OrderInv'
<1>1. pc \in {"created", "deciding"} /\ UNCHANGED <<evidence, book>>
  BY DEF Start, DecisionFails, ProposalRejected, FinishProposed
<1>2. UNCHANGED <<order, receipts, byHand>>
  BY DEF provider, history
<1>3. pc \in ForwardPcs /\ ~InFlight /\ ~Executing /\ pc # "task_failed"
  BY <1>1 DEF ForwardPcs, InFlight, Executing
<1>4. attempt' \in 0 .. MaxAttempts /\ answer' = "none"
  BY <1>3, NothingAwaited
<1>5. CASE Start
  BY <1>1, <1>2, <1>3, <1>4, <1>5, TurnFails DEF Start
<1>6. CASE DecisionFails \/ ProposalRejected
  BY <1>1, <1>2, <1>3, <1>4, <1>6, TurnFails DEF DecisionFails, ProposalRejected
<1>7. CASE FinishProposed /\ ~TerminalReady
  BY <1>1, <1>2, <1>3, <1>4, <1>7, TurnFails DEF FinishProposed
<1>8. CASE FinishProposed /\ TerminalReady
  <2>1. pc' = "closed" /\ status' = "succeeded_verified" /\ Proofs \subseteq freshProofs
    BY <1>8 DEF FinishProposed, Close, TerminalReady
  <2>2. "verify_order" \in Proofs => order.fulfillment = "scheduled"
    BY <1>3, <2>1 DEF OrderInv, RunInv
  <2>3. ProviderInv' /\ IInv'
    BY <1>2, <1>4, <2>1, QuietProvider DEF UndoPcs
  <2>4. ChainInv' /\ HandInv'
    BY <1>1, <1>2, <1>3, SameTurnJournal, ForwardPlace DEF TurnJournal, HandInv, book
  <2>5. AnswerInv' /\ RunInv' /\ CommandInv' /\ UnwindInv'
    BY <1>4, <2>1 DEF AnswerInv, RunInv, CommandInv, UnwindInv, InFlight, Executing, ForwardPcs, UndoPcs
  <2>6. EndInv'
    BY <1>2, <2>1, <2>2 DEF EndInv
  <2> QED BY <2>3, <2>4, <2>5, <2>6 DEF OrderInv
<1> QED BY <1>5, <1>6, <1>7, <1>8

\* A call gets an operation id that the provider has not seen.
LEMMA CommandStep ==
  ASSUME OrderInv, [Next]_vars, ProposeCommand
  PROVE  OrderInv'
<1>1. /\ pc = "deciding" /\ pc' = "forward" /\ step' = eventCount
      /\ UNCHANGED <<journal, freshProofs, order, receipts, byHand>>
  BY DEF ProposeCommand, ToolCalled, IsCurrent, evidence, book, provider, history
<1>2. pc \in ForwardPcs /\ ~InFlight /\ ~Executing /\ pc # "task_failed"
  BY <1>1 DEF ForwardPcs, InFlight, Executing
<1>3. attempt' \in 0 .. MaxAttempts /\ answer' = "none"
  BY <1>2, NothingAwaited DEF ProposeCommand
<1>4. ProviderInv' /\ IInv'
  BY <1>1, <1>3, QuietProvider DEF UndoPcs
<1>5. ChainInv' /\ HandInv'
  BY <1>1, <1>2, SameTurnJournal, ForwardPlace DEF TurnJournal, HandInv
<1>6. Repeated' = FALSE
  <2>1. OperationId'.step = eventCount
    BY <1>1 DEF OperationId
  <2>2. \A r \in receipts : r.step # eventCount
    <3>1. eventCount \in Nat
      BY DEF OrderInv, IInv, TypeOK
    <3> QED BY <3>1 DEF OrderInv, ProviderInv
  <2> QED BY <1>1, <2>1, <2>2 DEF Repeated
<1>7. InFlight' = FALSE
  BY <1>6 DEF InFlight
<1>8. RunInv'
  <2>1. PICK k \in 0 .. 3 : k = Len(journal)
    BY <1>2, ForwardPlace
  <2>2. Reached(k) /\ ("verify_order" \in freshProofs => order.fulfillment = "scheduled")
        /\ \A r \in receipts : ~r.undo
    BY <1>2, <2>1 DEF OrderInv, RunInv
  <2>3. Reached(k)' /\ k = Len(journal')
    BY <1>1, <2>1, <2>2 DEF Reached
  <2> QED BY <1>1, <1>7, <2>2, <2>3 DEF RunInv
<1>9. AnswerInv' /\ CommandInv' /\ UnwindInv' /\ EndInv'
  BY <1>1, <1>3, <1>7 DEF AnswerInv, CommandInv, UnwindInv, EndInv, Executing, UndoPcs
<1> QED BY <1>4, <1>5, <1>8, <1>9 DEF OrderInv

----------------------------------------------------------------------------
(***************************************************************************)
(* What the workflow learns of a forward operation.                        *)
(***************************************************************************)
\* A confirmed effect is one more step on the way.
LEMMA EffectConfirmed ==
  ASSUME OrderInv, [Next]_vars, pc \in {"forward", "reconciling"}, tool \in Effects, Repeated,
         RecordForwardEvidence(step, tool), NextTurn(journal', 1),
         UNCHANGED <<order, receipts, byHand>>, attempt' \in 0 .. MaxAttempts, answer' = "none"
  PROVE  OrderInv'
<1>1. pc \in ForwardPcs /\ InFlight
  BY DEF ForwardPcs, InFlight
<1>2. PICK k \in 0 .. 3 : k = Len(journal)
  BY <1>1, ForwardPlace
<1>3. k < 3 /\ tool = Chain[k + 1] /\ Reached(k + 1)
  BY <1>1, <1>2 DEF OrderInv, RunInv
<1>4. /\ journal \in Seq(Entries(Tools)) /\ tool \in Tools /\ step \in Nat
      /\ \A i \in DOMAIN journal : journal[i].step < step
  BY DEF OrderInv, IInv, TypeOK, PlaceInv, OperationIdsAreFresh
<1>5. journal' = RecordForward(journal, step, tool) /\ freshProofs' = {}
  BY DEF RecordForwardEvidence
<1>6. /\ Len(journal') = k + 1 /\ DOMAIN journal' = 1 .. k + 1 /\ DOMAIN journal = 1 .. k
      /\ \A i \in DOMAIN journal : journal'[i] = journal[i]
      /\ journal'[k + 1] = [step |-> step, tool |-> tool, state |-> "pending"]
  BY <1>2, <1>4, <1>5, Recording
<1>7. ChainInv'
  <2>1. journal'[k + 1].tool = Chain[k + 1]
    BY <1>3, <1>6
  <2>2. \A i \in 1 .. k : journal'[i].tool = Chain[i]
    BY <1>6 DEF OrderInv, ChainInv
  <2>3. \A i \in 1 .. k + 1 : i \in 1 .. k \/ i = k + 1
    OBVIOUS
  <2>4. Len(journal') <= 3
    BY <1>3, <1>6
  <2> QED BY <1>6, <2>1, <2>2, <2>3, <2>4 DEF ChainInv
<1>8. TurnJournal
  BY <1>7, ConfirmedJournal DEF TurnJournal, OrderInv
<1>9. k + 1 \in 0 .. 3
  BY <1>3
<1>10. 1 \in Nat
  OBVIOUS
<1> QED BY <1>1, <1>3, <1>5, <1>6, <1>8, <1>9, <1>10, TurnEnds

LEMMA ReadVerified ==
  ASSUME OrderInv, [Next]_vars, Verified, UNCHANGED <<command, activity, provider, history>>
  PROVE  OrderInv'
<1>1. /\ pc = "forward" /\ tool \notin Effects /\ order.fulfillment = "scheduled"
      /\ RecordForwardEvidence(step, tool) /\ NextTurn(journal', 1)
  BY DEF Verified, ForwardSucceeds
<1>2. journal' = journal /\ UNCHANGED <<order, receipts, byHand>>
  BY <1>1 DEF RecordForwardEvidence, provider, history
<1>3. pc \in ForwardPcs /\ ~InFlight /\ ~Executing /\ pc # "task_failed"
  BY <1>1 DEF ForwardPcs, InFlight, Executing
<1>4. attempt' \in 0 .. MaxAttempts /\ answer' = "none"
  BY <1>3, NothingAwaited
<1>5. TurnJournal
  BY <1>2, <1>3, SameTurnJournal
<1>6. PICK k \in 0 .. 3 : k = Len(journal)
  BY <1>3, ForwardPlace
<1>7. Reached(k) /\ k = Len(journal') /\ 1 \in Nat
  BY <1>2, <1>3, <1>6 DEF OrderInv, RunInv
<1> QED BY <1>1, <1>2, <1>3, <1>4, <1>5, <1>7, TurnEnds

LEMMA ReadNotVerified ==
  ASSUME OrderInv, [Next]_vars, NotVerified, UNCHANGED <<command, activity, provider, history>>
  PROVE  OrderInv'
<1>1. /\ pc = "forward" /\ tool \notin Effects /\ HandleForwardFailure(journal, 1)
      /\ UNCHANGED <<evidence, book>>
  BY DEF NotVerified, ForwardFails
<1>2. UNCHANGED <<order, receipts, byHand>> /\ 1 \in Nat
  BY DEF provider, history
<1>3. pc \in ForwardPcs /\ ~InFlight /\ ~Executing /\ pc # "task_failed"
  BY <1>1 DEF ForwardPcs, InFlight, Executing
<1>4. attempt' \in 0 .. MaxAttempts /\ answer' = "none"
  BY <1>3, NothingAwaited
<1> QED BY <1>1, <1>2, <1>3, <1>4, TurnFails

LEMMA EffectRefused ==
  ASSUME OrderInv, [Next]_vars, answer = "refused", tool \in Effects, ForwardFails,
         UNCHANGED <<order, receipts, byHand>>, attempt' \in 0 .. MaxAttempts, answer' = "none"
  PROVE  OrderInv'
<1>1. pc = "forward" /\ HandleForwardFailure(journal, 1) /\ UNCHANGED <<evidence, book>>
  BY DEF ForwardFails
<1>2. ~Repeated
  BY <1>1 DEF OrderInv, AnswerInv, Executing
<1>3. pc \in ForwardPcs /\ ~InFlight /\ 1 \in Nat
  BY <1>1, <1>2 DEF ForwardPcs, InFlight
<1> QED BY <1>1, <1>3, TurnFails

\* Nobody knows what became of a forward operation; no reservation, by hypothesis.
LEMMA EffectUnclear ==
  ASSUME OrderInv, [Next]_vars, ForwardUnknown, LostForGood \/ Operation \in LossyOps,
         UNCHANGED <<command, order, receipts, byHand>>,
         attempt' \in 0 .. MaxAttempts, answer' = "none"
  PROVE  OrderInv'
<1>1. /\ pc = "forward" /\ pc' = "reconciling" /\ tool \in Effects
      /\ UNCHANGED <<step, tool, journal, freshProofs>>
  BY DEF ForwardUnknown, Await, evidence, book
<1>2. pc \in ForwardPcs /\ Undoing = FALSE /\ Undoing' = FALSE
  BY <1>1 DEF ForwardPcs, Undoing
<1>3. ProviderInv' /\ IInv'
  BY <1>1, QuietProvider DEF UndoPcs
<1>4. ChainInv' /\ HandInv'
  BY <1>1, <1>2, SameTurnJournal, ForwardPlace DEF TurnJournal, HandInv
<1>5. Repeated' = Repeated /\ InFlight' = InFlight
  <2>1. Repeated' = Repeated
    BY <1>1, <1>2 DEF Repeated, OperationId
  <2> QED BY <1>1, <2>1 DEF InFlight
<1>6. RunInv'
  <2>1. PICK k \in 0 .. 3 : k = Len(journal) /\ k = Len(journal')
    BY <1>1, <1>2, ForwardPlace
  <2>2. (Reached(k)' <=> Reached(k)) /\ (Reached(k + 1)' <=> Reached(k + 1))
    BY DEF Reached
  <2> QED BY <1>1, <1>2, <1>5, <2>1, <2>2 DEF OrderInv, RunInv
<1>7. ReservationsAnswered => CommandInv'
  <2> SUFFICES ASSUME ReservationsAnswered PROVE CommandInv'
    OBVIOUS
  <2>1. Operation = tool
    BY <1>2 DEF Operation
  <2>2. tool # "reserve_inventory"
    BY <1>1, <2>1 DEF OrderInv, CommandInv, LostForGood, ReservationsAnswered
  <2> QED BY <1>1, <1>5, <2>2 DEF OrderInv, CommandInv
<1>8. AnswerInv' /\ UnwindInv' /\ EndInv'
  BY <1>1 DEF AnswerInv, UnwindInv, EndInv, Executing, UndoPcs
<1> QED BY <1>3, <1>4, <1>6, <1>7, <1>8 DEF OrderInv

\* The saga gives up on an operation that is in doubt.
LEMMA DoubtGivenUp ==
  ASSUME OrderInv, [Next]_vars, pc = "reconciling",
         UnwindBeforeHuman(journal, 0) \/ (HandleForwardFailure(journal, 1) /\ ~Found),
         UNCHANGED <<evidence, book>>,
         UNCHANGED <<order, receipts, byHand, activity>>
  PROVE  OrderInv'
<1>1. pc \in ForwardPcs /\ ~Executing /\ pc # "task_failed" /\ journal' = journal
  BY DEF ForwardPcs, Executing, book
<1>2. attempt' \in 0 .. MaxAttempts /\ answer' = "none"
  BY <1>1, NothingAwaited
<1>3. TypeOK /\ ~blocked /\ AllPending(journal) /\ journal \in Seq(Entries(Tools))
      /\ 0 \in Nat /\ 1 \in Nat
  BY <1>1, RunningFacts DEF OrderInv, IInv, TypeOK
<1>4. GaveUp(journal')
  BY <1>1, <1>3, GivingUp
<1>5. TurnJournal
  BY <1>1, SameTurnJournal
<1>6. PICK k \in 0 .. 3 : k = Len(journal) /\ k = Len(journal')
  BY <1>1, ForwardPlace
<1>7. Reached(k) \/ (k < 3 /\ Reached(k + 1))
  BY <1>1, <1>6 DEF OrderInv, RunInv
<1>8. ReservationsAnswered /\ pc' = "closed" /\ status' = "aborted_clean" => Reached(0)
  <2> SUFFICES ASSUME ReservationsAnswered, pc' = "closed", status' = "aborted_clean"
               PROVE  Reached(0)
    OBVIOUS
  <2>1. journal = << >> /\ k = 0
    BY <1>1, <1>4, <1>6 DEF GaveUp, UnwindGoesOn
  <2>2. ~UnwindBeforeHuman(journal, 0)
    BY <2>1 DEF UnwindBeforeHuman, Close
  <2>3. ~Repeated
    BY <2>2, FoundIsCommitted
  <2> QED BY <1>1, <1>6, <2>1, <2>3, ForwardPlace
<1> QED BY <1>1, <1>2, <1>4, <1>5, <1>6, <1>7, <1>8, UnwindBegins

----------------------------------------------------------------------------
(***************************************************************************)
(* The unwind.                                                             *)
(***************************************************************************)
\* The undo of the obligation at i is settled; the order has been taken back
\* one more step, unless a human had a hand in it.
LEMMA ObligationSettled ==
  ASSUME OrderInv, [Next]_vars, pc \in UndoPcs \cup {"human"},
         NEW i \in DOMAIN journal, SettledShape(i),
         UNCHANGED <<order, receipts>>, attempt' \in 0 .. MaxAttempts, answer' = "none",
         byHand' \subseteq byHand \cup {step},
         ReservationsAnswered /\ byHand' = {} => Len(journal) = 3 /\ Reached(7 - i)
  PROVE  OrderInv'
<1>1. /\ journal \in Seq(Entries(Tools)) /\ Increasing(journal) /\ goal \in Verdicts
      /\ journal' = Mark(journal, journal[i].step, "succeeded") /\ journal[i].step = step
      /\ \A k \in DOMAIN journal : k < i => journal[k].state = "pending"
      /\ \A k \in DOMAIN journal : k > i => journal[k].state = "succeeded"
  BY DEF OrderInv, IInv, TypeOK, JournalInv, PlaceInv, UndoPcs, WaitPcs, SettledShape
<1>2. /\ Len(journal') = Len(journal) /\ DOMAIN journal' = DOMAIN journal
      /\ DOMAIN journal = 1 .. Len(journal)
      /\ \A k \in DOMAIN journal :
           journal'[k].step = journal[k].step /\ journal'[k].tool = journal[k].tool
      /\ journal'[i].state = "succeeded"
      /\ \A k \in DOMAIN journal : k # i => journal'[k] = journal[k]
  BY <1>1, Marking DEF EntryStates
<1>3. i \in 1 .. 3 /\ Len(journal) \in 1 .. 3
  BY UnwindPlace
<1>4. ChainInv'
  BY <1>2 DEF OrderInv, ChainInv
<1>5. HandInv'
  <2> SUFFICES ASSUME NEW s \in byHand'
               PROVE  \E k \in DOMAIN journal : journal'[k].step = s /\ journal'[k].state = "succeeded"
    BY <1>2 DEF HandInv
  <2>1. CASE s = step
    BY <1>1, <1>2, <2>1
  <2>2. CASE s \in byHand
    <3>1. PICK k \in DOMAIN journal : journal[k].step = s /\ journal[k].state = "succeeded"
      BY <2>2 DEF OrderInv, HandInv
    <3> QED BY <1>2, <3>1
  <2> QED BY <2>1, <2>2
<1>6. \A m : Reached(m)' <=> Reached(m)
  BY DEF Reached
<1>7. CASE UnwindGoesOn(journal', goal)
  <2>1. pc' = "compensating"
    BY <1>7 DEF UnwindGoesOn
  <2>2. PICK m \in DOMAIN journal :
          IsFrontier(journal', m) /\ step' = journal[m].step /\ tool' = journal[m].tool
    BY <1>2, <1>7 DEF UnwindGoesOn
  <2>3. m = i - 1
    <3>1. m \in 1 .. 3 /\ journal'[m].state = "pending"
      BY <2>2, UnwindPlace DEF IsFrontier, PendingAt
    <3>2. m < i
      BY <1>1, <1>2, <1>3, <3>1
    <3>3. i - 1 \in DOMAIN journal /\ i - 1 < i /\ i - 1 # i
      BY <1>2, <1>3, <2>2, <3>1, <3>2
    <3>4. i - 1 \in PendingAt(journal')
      BY <1>1, <1>2, <3>3 DEF PendingAt
    <3>5. i - 1 <= m
      BY <2>2, <3>4 DEF IsFrontier
    <3> QED BY <1>3, <3>1, <3>2, <3>5
  <2>4. m \in 1 .. 3 /\ tool' = Chain[m]
    BY <2>2, UnwindPlace DEF OrderInv, ChainInv
  <2>5. tool' \in Effects
    BY <2>4, OrderAssumption DEF Chain, UndoOf
  <2>6. step' \in Nat /\ step \in Nat /\ step' < step
    <3>1. journal[m].step \in Nat /\ journal[i].step \in Nat
      BY EntryStatesCovered DEF OrderInv, IInv
    <3>2. m < i
      BY <1>3, <2>3
    <3> QED BY <1>1, <2>2, <3>1, <3>2 DEF Increasing
  <2>7. \A r \in receipts : r.undo => r.step \in Nat /\ r.step >= step
    BY DEF OrderInv, ProviderInv
  <2>8. \A r \in receipts : r.undo => r.step >= step' /\ r.step # step'
    BY <2>6, <2>7
  <2>9. ProviderInv' /\ IInv'
    BY <2>1, <2>5, <2>8, QuietProvider
  <2>10. Repeated' = FALSE
    <3>1. OperationId'.undo = TRUE /\ OperationId'.step = step'
      BY <2>1 DEF OperationId, Undoing
    <3> QED BY <2>8, <3>1 DEF Repeated
  <2>11. AnswerInv' /\ RunInv' /\ CommandInv' /\ EndInv'
    BY <2>1 DEF AnswerInv, RunInv, CommandInv, EndInv, InFlight, Executing, ForwardPcs
  <2>12. ReservationsAnswered => UnwindInv'
    <3> SUFFICES ASSUME ReservationsAnswered, byHand' = {} PROVE UnwindInv'
      BY DEF UnwindInv
    <3>1. Reached(6 - m)' /\ Len(journal') = 3
      <4>1. 6 - m = 7 - i
        BY <1>3, <2>3, <2>4
      <4> QED BY <1>2, <1>6, <4>1
    <3>2. m \in DOMAIN journal' /\ journal'[m].step = step'
      BY <1>2, <2>2
    <3> QED BY <2>4, <2>10, <3>1, <3>2 DEF UnwindInv
  <2> QED BY <1>4, <1>5, <2>9, <2>11, <2>12 DEF OrderInv
<1>8. CASE UnwindEnds(journal', goal)
  <2>1. pc' = "closed" /\ status' \in Verdicts
    BY <1>1, <1>8 DEF UnwindEnds
  <2>2. i = 1
    <3>1. ASSUME i # 1 PROVE FALSE
      <4>1. 1 \in DOMAIN journal /\ 1 < i
        BY <1>2, <1>3, <3>1
      <4>2. 1 \in PendingAt(journal')
        BY <1>1, <1>2, <4>1 DEF PendingAt
      <4> QED BY <1>8, <4>2 DEF UnwindEnds
    <3> QED BY <3>1
  <2>3. ReservationsAnswered /\ byHand' = {} => Reached(6)
    <3>1. 7 - i = 6
      BY <2>2
    <3> QED BY <3>1
  <2>4. ProviderInv' /\ IInv'
    BY <2>1, QuietProvider DEF UndoPcs
  <2>5. AnswerInv' /\ RunInv' /\ CommandInv' /\ UnwindInv'
    BY <2>1 DEF AnswerInv, RunInv, CommandInv, UnwindInv, InFlight, Executing, ForwardPcs, UndoPcs
  <2>6. EndInv'
    BY <1>6, <2>1, <2>3 DEF EndInv, Verdicts
  <2> QED BY <1>4, <1>5, <2>4, <2>5, <2>6 DEF OrderInv
<1> QED BY <1>7, <1>8 DEF SettledShape

\* The undo that was confirmed or found took the order back by its own rules.
LEMMA ObligationUndone ==
  ASSUME OrderInv, [Next]_vars, pc \in UndoPcs, NEW n \in Nat, Undone(n), Repeated,
         UNCHANGED <<order, receipts, byHand>>, attempt' \in 0 .. MaxAttempts, answer' = "none"
  PROVE  OrderInv'
<1>1. PICK i \in DOMAIN journal :
        /\ journal[i].step = step /\ journal[i].state = "pending"
        /\ \A k \in DOMAIN journal : k > i => journal[k].state = "succeeded"
        /\ \A k \in DOMAIN journal : k < i => journal[k].state = "pending"
  BY AwaitedUndo DEF OrderInv
<1>2. TypeOK /\ journal \in Seq(Entries(Tools)) /\ Increasing(journal)
  BY DEF OrderInv, IInv, TypeOK, JournalInv
<1>3. journal' = Mark(journal, journal[i].step, "succeeded") /\ blocked' = FALSE
      /\ Advance(journal', blocked', goal, n)
  BY <1>1 DEF Undone
<1>4. journal' \in Seq(Entries(Tools))
  BY <1>2, <1>3, Marking DEF EntryStates
<1>5. UnwindGoesOn(journal', goal) \/ UnwindEnds(journal', goal)
  BY <1>2, <1>3, <1>4, Advancing
<1>6. SettledShape(i)
  BY <1>1, <1>3, <1>5 DEF SettledShape
<1>7. ReservationsAnswered /\ byHand' = {} => Len(journal) = 3 /\ Reached(7 - i)
  <2> SUFFICES ASSUME ReservationsAnswered, byHand = {} PROVE Len(journal) = 3 /\ Reached(7 - i)
    OBVIOUS
  <2>1. PICK k \in DOMAIN journal :
          journal[k].step = step /\ Len(journal) = 3 /\ Reached(7 - k)
    BY DEF OrderInv, UnwindInv
  <2>2. k = i
    <3>1. k \in Nat /\ i \in Nat /\ step \in Nat
      BY JournalIndices DEF OrderInv, IInv, TypeOK
    <3> QED BY <1>1, <1>2, <2>1, <3>1 DEF Increasing
  <2> QED BY <2>1, <2>2
<1> QED BY <1>6, <1>7, ObligationSettled

LEMMA UndoDisputed ==
  ASSUME OrderInv, [Next]_vars, pc \in UndoPcs, NEW n \in Nat, Disputed(n),
         UNCHANGED <<order, receipts, byHand>>, attempt' \in 0 .. MaxAttempts, answer' = "none"
  PROVE  OrderInv'
<1>1. pc' = "human" /\ step' = step
  BY DEF Disputed, WaitForHuman
<1>2. PICK i \in DOMAIN journal : journal[i].step = step
  BY AwaitedUndo DEF OrderInv
<1>3. journal' = Mark(journal, journal[i].step, "unresolved")
  BY <1>2 DEF Disputed
<1>4. Len(journal') = Len(journal) /\ DOMAIN journal' = DOMAIN journal
  BY <1>3, Marking DEF EntryStates, OrderInv, IInv, TypeOK, JournalInv
<1>5. EntriesStay
  BY JournalSteps DEF OrderInv
<1>6. ChainInv' /\ HandInv'
  BY <1>4, <1>5 DEF OrderInv, ChainInv, HandInv, EntriesStay
<1>7. ProviderInv' /\ IInv'
  <2>1. \A r \in receipts : r.undo => r.step >= step'
    BY <1>1 DEF OrderInv, ProviderInv
  <2> QED BY <1>1, <2>1, QuietProvider DEF UndoPcs
<1>8. AnswerInv' /\ RunInv' /\ CommandInv' /\ UnwindInv' /\ EndInv'
  BY <1>1 DEF AnswerInv, RunInv, CommandInv, UnwindInv, EndInv, InFlight, Executing, ForwardPcs, UndoPcs
<1> QED BY <1>6, <1>7, <1>8 DEF OrderInv

LEMMA UndoUnclear ==
  ASSUME OrderInv, [Next]_vars, CompensationUnknown,
         UNCHANGED <<order, receipts, byHand>>, attempt' \in 0 .. MaxAttempts, answer' = "none"
  PROVE  OrderInv'
<1>1. /\ pc = "compensating" /\ pc' = "reconciling_compensation"
      /\ UNCHANGED <<step, tool, journal>>
  BY DEF CompensationUnknown, Await, book
<1>2. ChainInv' /\ HandInv'
  BY <1>1 DEF OrderInv, ChainInv, HandInv
<1>3. ProviderInv' /\ IInv'
  <2>1. tool \in Effects /\ \A r \in receipts : r.undo => r.step >= step
    BY <1>1 DEF OrderInv, ProviderInv, UndoPcs
  <2> QED BY <1>1, <2>1, QuietProvider
<1>4. Repeated' = Repeated
  BY <1>1 DEF Repeated, OperationId, Undoing
<1>5. ReservationsAnswered => UnwindInv'
  <2> SUFFICES ASSUME ReservationsAnswered, byHand = {} PROVE UnwindInv'
    BY DEF UnwindInv
  <2>1. PICK i \in DOMAIN journal :
          /\ journal[i].step = step /\ tool = Chain[i]
          /\ IF Len(journal) = 3
               THEN Reached(IF Repeated THEN 7 - i ELSE 6 - i)
               ELSE i = Len(journal) /\ ~Repeated /\ (Reached(i) \/ Reached(i + 1))
    BY <1>1 DEF OrderInv, UnwindInv, UndoPcs
  <2>2. \A m : Reached(m)' <=> Reached(m)
    BY DEF Reached
  <2>3. i \in DOMAIN journal' /\ journal'[i].step = step' /\ tool' = Chain[i] /\ Len(journal') = Len(journal)
    BY <1>1, <2>1
  <2>4. /\ Reached(7 - i)' <=> Reached(7 - i)
        /\ Reached(6 - i)' <=> Reached(6 - i)
        /\ Reached(i)' <=> Reached(i)
        /\ Reached(i + 1)' <=> Reached(i + 1)
    BY <2>2
  <2> QED BY <1>1, <1>4, <2>1, <2>3, <2>4 DEF UnwindInv
<1>6. AnswerInv' /\ RunInv' /\ CommandInv' /\ EndInv'
  BY <1>1 DEF AnswerInv, RunInv, CommandInv, EndInv, InFlight, Executing, ForwardPcs
<1> QED BY <1>2, <1>3, <1>5, <1>6 DEF OrderInv

----------------------------------------------------------------------------
(***************************************************************************)
(* Humans.                                                                 *)
(***************************************************************************)
LEMMA HandStep ==
  ASSUME OrderInv, [Next]_vars, NEW o \in Operators, SettledByHand(o)
  PROVE  OrderInv'
<1>1. /\ Resolve(o) /\ pc = "human" /\ byHand' = byHand \cup {desk[o].step}
      /\ UNCHANGED <<order, receipts, activity>>
  BY DEF SettledByHand, Resolve, provider
<1>2. PICK i \in DOMAIN journal :
        /\ journal[i].step = step /\ journal[i].state = "unresolved"
        /\ \A k \in DOMAIN journal : k > i => journal[k].state = "succeeded"
        /\ \A k \in DOMAIN journal : k < i => journal[k].state = "pending"
  BY <1>1, AwaitedDispute DEF OrderInv
<1>3. PICK k \in DOMAIN journal :
        /\ journal[k].step = desk[o].step /\ journal[k].state = "unresolved"
        /\ journal' = Mark(journal, journal[k].step, "succeeded")
  BY <1>1, ResolveStep DEF OrderInv
<1>4. k = i
  BY <1>2, <1>3, JournalIndices DEF OrderInv, IInv
<1>5. TypeOK /\ journal \in Seq(Entries(Tools)) /\ Increasing(journal)
  BY DEF OrderInv, IInv, TypeOK, JournalInv
<1>6. journal' \in Seq(Entries(Tools))
  BY <1>3, <1>5, Marking DEF EntryStates
<1>7. UnwindGoesOn(journal', goal) \/ UnwindEnds(journal', goal)
  <2>1. 1 \in Nat /\ blocked' = FALSE /\ Advance(journal', blocked', goal, 1)
    BY <1>1 DEF Resolve
  <2> QED BY <1>5, <1>6, <2>1, Advancing
<1>8. SettledShape(i)
  BY <1>2, <1>3, <1>4, <1>7 DEF SettledShape
<1>9. byHand' \subseteq byHand \cup {step} /\ byHand' # {}
  BY <1>1, <1>2, <1>3, <1>4
<1>10. attempt' \in 0 .. MaxAttempts /\ answer' = "none"
  BY <1>1, NothingAwaited DEF Executing
<1> QED BY <1>1, <1>8, <1>9, <1>10, ObligationSettled

\* The saga, its provider and what it waits for stay as they are.
LEMMA QuietStep ==
  ASSUME OrderInv, [Next]_vars,
         UNCHANGED <<status, step, tool, journal, freshProofs>>,
         UNCHANGED <<command, attempt, answer, order, receipts, byHand>>,
         \/ pc' = pc
         \/ pc' = "task_failed"
         \/ pc = "human" /\ pc' = "cancelled"
  PROVE  OrderInv'
<1>1. ProviderInv' /\ IInv'
  <2>1. attempt' \in 0 .. MaxAttempts /\ answer' \in {"none", "confirmed", "refused", "lost"}
    BY DEF OrderInv, ProviderInv
  <2>2. pc' \in UndoPcs => tool' \in Effects
    BY DEF OrderInv, ProviderInv, UndoPcs
  <2>3. pc' \in UndoPcs \cup {"human"} => \A r \in receipts : r.undo => r.step >= step'
    BY DEF OrderInv, ProviderInv, UndoPcs
  <2> QED BY <2>1, <2>2, <2>3, QuietProvider
<1>2. ChainInv' /\ HandInv'
  BY DEF OrderInv, ChainInv, HandInv
<1>3. CASE pc' \in {"task_failed", "cancelled"}
  <2>1. AnswerInv'
    BY <1>3 DEF OrderInv, AnswerInv, Executing
  <2>2. RunInv' /\ CommandInv' /\ UnwindInv' /\ EndInv'
    BY <1>3 DEF RunInv, CommandInv, UnwindInv, EndInv, InFlight, ForwardPcs, UndoPcs
  <2> QED BY <1>1, <1>2, <2>1, <2>2 DEF OrderInv
<1>4. CASE pc' = pc
  <2>1. Repeated' = Repeated /\ Executing' = Executing /\ InFlight' = InFlight
    BY <1>4 DEF Repeated, OperationId, Undoing, Executing, InFlight
  <2>2. AnswerInv' /\ (CommandInv' <=> CommandInv)
    BY <1>4, <2>1 DEF OrderInv, AnswerInv, CommandInv
  <2>3. \A m : Reached(m)' <=> Reached(m)
    BY DEF Reached
  <2>4. Len(journal') = Len(journal)
    OBVIOUS
  <2>5. RunInv'
    <3>1. /\ Reached(Len(journal))' <=> Reached(Len(journal))
          /\ Reached(Len(journal) + 1)' <=> Reached(Len(journal) + 1)
      BY DEF Reached
    <3> QED BY <1>4, <2>1, <2>4, <3>1 DEF OrderInv, RunInv
  <2>6. ReservationsAnswered => UnwindInv'
    <3> SUFFICES ASSUME ReservationsAnswered, pc \in UndoPcs, byHand = {} PROVE UnwindInv'
      BY <1>4 DEF UnwindInv
    <3>1. PICK i \in DOMAIN journal :
            /\ journal[i].step = step /\ tool = Chain[i]
            /\ IF Len(journal) = 3
                 THEN /\ Reached(IF Repeated THEN 7 - i ELSE 6 - i)
                      /\ pc = "compensating" => answer # "refused"
                 ELSE i = Len(journal) /\ ~Repeated /\ (Reached(i) \/ Reached(i + 1))
      BY DEF OrderInv, UnwindInv
    <3>2. i \in DOMAIN journal' /\ journal'[i].step = step' /\ tool' = Chain[i]
      BY <3>1
    <3>3. /\ Reached(7 - i)' <=> Reached(7 - i)
          /\ Reached(6 - i)' <=> Reached(6 - i)
          /\ Reached(i)' <=> Reached(i)
          /\ Reached(i + 1)' <=> Reached(i + 1)
      BY <2>3
    <3> QED BY <1>4, <2>1, <2>4, <3>1, <3>2, <3>3 DEF UnwindInv
  <2>7. EndInv'
    BY <1>4, <2>3 DEF OrderInv, EndInv
  <2> QED BY <1>1, <1>2, <2>2, <2>5, <2>6, <2>7 DEF OrderInv
<1> QED BY <1>3, <1>4

----------------------------------------------------------------------------
(***************************************************************************)
(* Every step.                                                             *)
(***************************************************************************)
LEMMA CompletionStep ==
  ASSUME OrderInv, [Next]_vars, ActivityCompletes
  PROVE  OrderInv'
<1>1. /\ UNCHANGED <<command, order, receipts, byHand>>
      /\ attempt' \in 0 .. MaxAttempts /\ answer' = "none"
  BY OrderAssumption DEF ActivityCompletes, NextActivity, provider, history
<1>2. CASE answer = "confirmed" /\ tool \in Effects /\ ForwardSucceeds
  <2>1. pc = "forward" /\ RecordForwardEvidence(step, tool) /\ NextTurn(journal', 1)
    BY <1>2 DEF ForwardSucceeds
  <2>2. Repeated
    BY <1>2, <2>1 DEF OrderInv, AnswerInv, Executing
  <2> QED BY <1>1, <1>2, <2>1, <2>2, EffectConfirmed
<1>3. CASE answer = "refused" /\ tool \in Effects /\ ForwardFails
  BY <1>1, <1>3, EffectRefused
<1>4. CASE LostForGood /\ ForwardUnknown
  BY <1>1, <1>4, EffectUnclear
<1>5. CASE answer = "confirmed" /\ CompensationSucceeds
  <2>1. pc = "compensating" /\ pc \in UndoPcs /\ Undone(1) /\ 1 \in Nat
    BY <1>5 DEF CompensationSucceeds, UndoPcs
  <2>2. Repeated
    BY <1>5, <2>1 DEF OrderInv, AnswerInv, Executing
  <2> QED BY <1>1, <2>1, <2>2, ObligationUndone
<1>6. CASE answer = "refused" /\ CompensationRefused
  <2>1. pc \in UndoPcs /\ Disputed(1) /\ 1 \in Nat
    BY <1>6 DEF CompensationRefused, UndoPcs
  <2> QED BY <1>1, <2>1, UndoDisputed
<1>7. CASE LostForGood /\ CompensationUnknown
  BY <1>1, <1>7, UndoUnclear
<1> QED BY <1>2, <1>3, <1>4, <1>5, <1>6, <1>7 DEF ActivityCompletes

LEMMA CancellationStep ==
  ASSUME OrderInv, [Next]_vars, CancelInFlight
  PROVE  OrderInv'
<1>1. /\ UNCHANGED <<command, order, receipts, byHand>> /\ Operation \in LossyOps
      /\ attempt' \in 0 .. MaxAttempts /\ answer' = "none"
  BY OrderAssumption DEF CancelInFlight, NextActivity, provider, history
<1>2. CASE ForwardUnknown
  BY <1>1, <1>2, EffectUnclear
<1>3. CASE CompensationUnknown
  BY <1>1, <1>3, UndoUnclear
<1> QED BY <1>2, <1>3 DEF CancelInFlight

LEMMA ReconciliationStep ==
  ASSUME OrderInv, [Next]_vars, Reconciliation
  PROVE  OrderInv'
<1>1. UNCHANGED <<command, order, receipts, activity>>
  BY DEF Reconciliation, provider
<1>2. UNCHANGED byHand /\ pc \in {"reconciling", "reconciling_compensation"}
  BY DEF Reconciliation, EffectReconciled, NoMatchingEffect, ReconciliationFails, UndoReconciled,
         UndoNotFound, ReconciledEffect, ReconciledNoEffect, ReconciledUndo, history
<1>3. attempt' \in 0 .. MaxAttempts /\ answer' = "none"
  BY <1>1, <1>2, NothingAwaited DEF Executing
<1>4. CASE EffectReconciled
  <2>1. /\ pc = "reconciling" /\ Repeated /\ tool \in Effects
        /\ RecordForwardEvidence(step, tool) /\ NextTurn(journal', 1)
    BY <1>4, ReconciledPlace DEF EffectReconciled, ReconciledEffect, Found
  <2> QED BY <1>1, <1>2, <1>3, <2>1, EffectConfirmed
<1>5. CASE NoMatchingEffect
  <2>1. /\ pc = "reconciling" /\ HandleForwardFailure(journal, 1) /\ ~Found
        /\ UNCHANGED <<evidence, book>>
    BY <1>5 DEF NoMatchingEffect, ReconciledNoEffect
  <2> QED BY <1>1, <1>2, <2>1, DoubtGivenUp
<1>6. CASE ReconciliationFails
  <2>1. pc = "reconciling" /\ UnwindBeforeHuman(journal, 0) /\ UNCHANGED <<evidence, book>>
    BY <1>6 DEF ReconciliationFails
  <2> QED BY <1>1, <1>2, <2>1, DoubtGivenUp
<1>7. CASE UndoReconciled
  <2>1. pc \in UndoPcs /\ Undone(2) /\ Repeated /\ 2 \in Nat
    BY <1>7 DEF UndoReconciled, ReconciledUndo, UndoPcs, Found
  <2> QED BY <1>1, <1>2, <1>3, <2>1, ObligationUndone
<1>8. CASE UndoNotFound
  <2>1. pc \in UndoPcs /\ (Disputed(1) \/ Disputed(2)) /\ 1 \in Nat /\ 2 \in Nat
    BY <1>8 DEF UndoNotFound, UndoPcs
  <2> QED BY <1>1, <1>2, <1>3, <2>1, UndoDisputed
<1> QED BY <1>4, <1>5, <1>6, <1>7, <1>8 DEF Reconciliation

LEMMA ElsewhereStep ==
  ASSUME OrderInv, [Next]_vars, Elsewhere
  PROVE  OrderInv'
<1>1. UNCHANGED <<command, activity, provider, history>>
  BY DEF Elsewhere
<1>2. UNCHANGED <<command, attempt, answer, order, receipts, byHand>>
  BY <1>1 DEF activity, provider, history
<1>3. CASE Start \/ DecisionFails \/ ProposalRejected \/ FinishProposed
  BY <1>1, <1>3, AgentStep
<1>4. CASE Verified
  BY <1>1, <1>4, ReadVerified
<1>5. CASE NotVerified
  BY <1>1, <1>5, ReadNotVerified
<1>6. CASE CancelWhileWaiting
  BY <1>2, <1>6, QuietStep DEF CancelWhileWaiting, evidence, book
<1>7. ASSUME NEW o \in Operators,
             \/ ReadState(o) \/ SubmitAccepted(o) \/ SubmitRejected(o)
             \/ VerificationFails(o) \/ Conflict(o)
      PROVE  OrderInv'
  <2>1. UNCHANGED <<status, step, tool, journal, freshProofs>>
        /\ (pc' = pc \/ pc' = "task_failed")
    BY <1>7 DEF ReadState, SubmitAccepted, SubmitRejected, VerificationFails, Conflict, Fail,
                control, evidence, book
  <2> QED BY <1>2, <2>1, QuietStep
<1>8. CASE Rest
  BY <1>2, <1>8, QuietStep DEF Rest, vars, control, evidence, book
<1> QED BY <1>3, <1>4, <1>5, <1>6, <1>7, <1>8 DEF Elsewhere

LEMMA OrderStep == OrderInv /\ [OrderNext]_orderVars => OrderInv'
<1> SUFFICES ASSUME OrderInv, [OrderNext]_orderVars PROVE OrderInv'
  OBVIOUS
<1>1. [Next]_vars
  BY WorkflowStep
<1>2. CASE UNCHANGED orderVars
  BY <1>1, <1>2, QuietStep DEF orderVars, vars, control, evidence, book, activity, provider, history
<1>3. CASE OrderNext
  BY <1>1, <1>3, CommandStep, ExecuteStep, AnsweredStep, CompletionStep, CancellationStep,
     ReconciliationStep, HandStep, ElsewhereStep DEF OrderNext
<1> QED BY <1>2, <1>3

LEMMA OrderInitInv == OrderInit => OrderInv
<1> SUFFICES ASSUME OrderInit PROVE OrderInv
  OBVIOUS
<1>1. IInv
  BY InitIInv DEF OrderInit
<1>2. /\ pc = "created" /\ journal = << >> /\ order = NewOrder /\ receipts = {}
      /\ attempt = 0 /\ answer = "none" /\ byHand = {} /\ freshProofs = {}
  BY DEF OrderInit, Init
<1>3. Reached(0) /\ Len(journal) = 0 /\ DOMAIN journal = {} /\ Reached(Len(journal))
  BY <1>2 DEF Reached
<1>4. ProviderInv
  <2>1. 0 \in 0 .. MaxAttempts /\ 0 \in 0 .. 6
    BY OrderAssumption
  <2> QED BY <1>2, <1>3, <2>1 DEF ProviderInv, UndoPcs
<1>5. AnswerInv /\ HandInv /\ CommandInv /\ UnwindInv /\ EndInv
  BY <1>2 DEF AnswerInv, HandInv, CommandInv, UnwindInv, EndInv, InFlight, Executing, UndoPcs
<1>6. ChainInv /\ RunInv
  BY <1>2, <1>3 DEF ChainInv, RunInv, InFlight
<1> QED BY <1>1, <1>4, <1>5, <1>6 DEF OrderInv

LEMMA OrderInvariance == OrderSpec => []OrderInv
BY OrderInitInv, OrderStep, PTL DEF OrderSpec

----------------------------------------------------------------------------
(***************************************************************************)
(* Against the provider of the example (provider.py) the saga is still the *)
(* saga of workflow.py, and keeps the contract of a saga, whichever reply  *)
(* is lost: what the provider answers wrongly is no excuse for the         *)
(* workflow.                                                               *)
(***************************************************************************)
THEOREM OrderIsTheWorkflow == OrderSpec => Spec /\ ImplementsContract
<1>1. OrderInit => Init
  BY DEF OrderInit
<1> QED BY <1>1, WorkflowStep, Refinement, PTL DEF OrderSpec, Spec

(***************************************************************************)
(* The order stays in phase and its stock is conserved.  Nothing is        *)
(* assumed about lost replies, and nothing about the limits, the           *)
(* prerequisites or what the agent proposes.                               *)
(***************************************************************************)
THEOREM OrderTypes == OrderSpec => []OrderTypeOK
<1>1. OrderInv => OrderTypeOK
  <2> SUFFICES ASSUME OrderInv PROVE OrderTypeOK
    OBVIOUS
  <2>1. PICK k \in 0 .. 6 : Reached(k)
    BY DEF OrderInv, ProviderInv
  <2>2. order \in Orders /\ order.available + order.reserved = 2
    <3>1. CASE k = 0
      BY <2>1, <3>1 DEF Reached, NewOrder, Orders
    <3>2. CASE k = 6
      BY <2>1, <3>2 DEF Reached, Orders
    <3>3. CASE k \in 1 .. 5
      BY <2>1, <3>3 DEF Reached, Orders
    <3> QED BY <3>1, <3>2, <3>3
  <2> QED BY <2>2 DEF OrderTypeOK, OrderInv, IInv, ProviderInv
<1> QED BY <1>1, OrderInvariance, PTL

(***************************************************************************)
(* The verdict is true of the order, provided that the reply to a          *)
(* reservation is never lost and that verify_order is the proof the saga   *)
(* has to have: a verified success shipped it, a clean abort left it as it *)
(* was, a compensation without humans restored it.                         *)
(***************************************************************************)
THEOREM VerdictTrue ==
  ASSUME ReservationsAnswered, "verify_order" \in Proofs
  PROVE  OrderSpec => []VerdictTrueOfOrder
<1>1. OrderInv => VerdictTrueOfOrder
  <2> SUFFICES ASSUME OrderInv, pc = "closed" PROVE VerdictTrueOfOrder
    BY DEF VerdictTrueOfOrder
  <2>1. ASSUME status = "succeeded_verified"
        PROVE  order.reserved = 1 /\ order.payment = "captured" /\ order.fulfillment = "scheduled"
    <3>1. order.fulfillment = "scheduled"
      BY <2>1 DEF OrderInv, EndInv
    <3> QED BY <3>1 DEF OrderInv, ProviderInv, Reached, NewOrder
  <2>2. ASSUME status = "aborted_clean"
        PROVE  order = NewOrder
    BY <2>2 DEF OrderInv, EndInv, Reached
  <2>3. ASSUME status = "compensated_verified", byHand = {}
        PROVE  Restored
    <3>1. Reached(6)
      BY <2>3 DEF OrderInv, EndInv
    <3> QED BY <3>1 DEF Reached, Restored
  <2> QED BY <2>1, <2>2, <2>3 DEF VerdictTrueOfOrder
<1> QED BY <1>1, OrderInvariance, PTL

(***************************************************************************)
(* The provider of the example is one that SagaSystem may assume, provided *)
(* that the reply to a reservation is never lost: with it, every theorem   *)
(* about SagaSystem holds of the orders of the example.                    *)
(***************************************************************************)
THEOREM OrderIsAssumedProvider ==
  ASSUME ReservationsAnswered
  PROVE  OrderSpec => IsAssumedProvider
<1>1. OrderInv /\ [OrderNext]_orderVars => [System!SysNext]_(System!sysVars)
  BY StepRefines
<1> QED BY <1>1, InitRefines, OrderInvariance, PTL DEF OrderSpec, IsAssumedProvider, System!SysSpec

(***************************************************************************)
(* A complete order unwinds by the provider's rules: no undo of its three  *)
(* effects is refused as long as no human had a hand in it, provided that  *)
(* the reply to a reservation is never lost.                               *)
(***************************************************************************)
LEMMA RefusedUndo ==
  ASSUME OrderInv, ReservationsAnswered, [OrderNext]_orderVars,
         pc = "compensating", pc' = "human"
  PROVE  byHand # {} \/ Len(journal) < 3
<1>1. answer = "refused"
  <2>1. ~UNCHANGED pc
    OBVIOUS
  <2>2. ~UNCHANGED orderVars /\ ~UNCHANGED vars
    BY <2>1 DEF orderVars, vars, control
  <2>3. ~(Execute \/ ExecuteAgain \/ Refuse \/ NeverExecuted)
    BY <2>2 DEF Execute, ExecuteAgain, Refuse, NeverExecuted, Reported, Reply, Attempt
  <2>4. ~CancelInFlight
    BY DEF CancelInFlight, ForwardUnknown, CompensationUnknown, Await
  <2>5. ~Reconciliation
    BY DEF Reconciliation, EffectReconciled, NoMatchingEffect, ReconciliationFails, UndoReconciled,
       UndoNotFound, ReconciledEffect, ReconciledNoEffect, ReconciledUndo
  <2>6. ~ProposeCommand /\ \A o \in Operators : ~SettledByHand(o)
    BY DEF ProposeCommand, ToolCalled, SettledByHand, Resolve
  <2>7. ~Elsewhere
    BY <2>1 DEF Elsewhere, Start, DecisionFails, ProposalRejected, FinishProposed, Verified, NotVerified,
       ForwardSucceeds, ForwardFails, CancelWhileWaiting, ReadState, SubmitAccepted, SubmitRejected,
       VerificationFails, Conflict, Fail, Rest, Halted, Closed, control
  <2>8. ActivityCompletes
    BY <2>2, <2>3, <2>4, <2>5, <2>6, <2>7 DEF OrderNext
  <2>9. ~CompensationSucceeds
    <3>1. \A n \in Nat : Undone(n) => pc' # "human"
      BY DEF Undone, Advance, Close
    <3> QED BY <3>1 DEF CompensationSucceeds
  <2> QED BY <2>8, <2>9 DEF ActivityCompletes, ForwardSucceeds, ForwardFails, ForwardUnknown,
          CompensationUnknown, Await
<1>2. SUFFICES ASSUME byHand = {}, Len(journal) = 3 PROVE FALSE
  <2>1. Len(journal) \in Nat /\ Len(journal) <= 3
    BY DEF OrderInv, ChainInv, IInv, TypeOK
  <2>2. PICK n \in Nat : n = Len(journal)
    BY <2>1
  <2> QED BY <2>1, <2>2
<1>3. pc \in UndoPcs
  BY DEF UndoPcs
<1> QED BY <1>1, <1>2, <1>3 DEF OrderInv, UnwindInv

THEOREM CompleteOrders ==
  ASSUME ReservationsAnswered
  PROVE  OrderSpec => CompleteOrdersUnwind
<1>1. OrderInv /\ [OrderNext]_orderVars =>
        [pc = "compensating" /\ pc' = "human" => byHand # {} \/ Len(journal) < 3]_orderVars
  BY RefusedUndo
<1> QED BY <1>1, OrderInvariance, PTL DEF OrderSpec, CompleteOrdersUnwind

============================================================================
