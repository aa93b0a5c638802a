------------------------ MODULE SagaSystem_proofs ------------------------
(***************************************************************************)
(* What holds between the saga, its activities and the provider, for every *)
(* set of tools and operators, all limits and any number of attempts: what *)
(* exists is owned, what is undone existed, and no ending leaves an effect *)
(* behind that nobody was told of.                                         *)
(*                                                                         *)
(* All of it needs a provider whose refusal of an operation is final if an *)
(* execution may outlive its attempt.                                      *)
(***************************************************************************)
EXTENDS SagaSystem, AgenticSagaWorkflow_steps

RefusalsAreFinal == Overruns => FinalRefusals

Settled == {journal[i].step : i \in {k \in DOMAIN journal : journal[k].state = "succeeded"}}

\* Forward effects and undos that exist or may still come to exist.
Born == applied \cup {x.step : x \in {y \in late : y.kind = "effect"}}
Reverting == reversed \cup {x.step : x \in {y \in late : y.kind = "undo"}}

\* The operation of the effect that is in flight or being reconciled.
Open == IF pc \in {"forward", "reconciling"} /\ tool \in Effects THEN {step} ELSE {}

AttemptTypeOK ==
  /\ attempt \in 0 .. MaxAttempts /\ answer \in Answers
  /\ applied \subseteq Nat /\ reversed \subseteq Nat
  /\ late \subseteq [kind : {"effect", "undo"}, step : Nat]
  /\ inDoubt \in Nat

\* What the last attempt brought back is true of the provider.
AnswerInv ==
  /\ pc # "task_failed" /\ answer # "none" => Running
  /\ Running /\ answer = "confirmed" => Landed(Execution)
  /\ pc = "forward" /\ Running /\ answer = "refused" => step \notin Born

\* The effects, and whose they are.
EffectInv ==
  /\ 0 \notin Born
  /\ Born \subseteq Obligations \cup {inDoubt} \cup Open
  /\ Obligations \subseteq applied

\* The undos: newest first, and only of obligations.
UndoInv ==
  /\ Settled \subseteq reversed
  /\ Reverting \subseteq Obligations
  /\ \A s \in Reverting, u \in Obligations : u > s => u \in reversed
  /\ Reverting # {} => status \notin {"running", "succeeded_verified"}

\* An operation in doubt leads to a human.
DoubtInv ==
  inDoubt # 0 =>
    /\ status # "running"
    /\ IF pc = "closed" THEN status = "human_required" ELSE goal = "human_required"

SysInv ==
  /\ IInv /\ RefusalsAreFinal /\ (~Overruns => late = {})
  /\ AttemptTypeOK /\ AnswerInv /\ EffectInv /\ UndoInv /\ DoubtInv

----------------------------------------------------------------------------
(***************************************************************************)
(* What the steps of the workflow do to the obligations.                   *)
(***************************************************************************)
LEMMA SameObligations ==
  ASSUME journal' = journal
  PROVE  Obligations' = Obligations /\ Settled' = Settled
BY DEF Obligations, Settled

LEMMA RecordedObligation ==
  ASSUME IInv, pc \in {"forward", "reconciling"}, tool \in Effects,
         journal' = RecordForward(journal, step, tool)
  PROVE  Obligations' = Obligations \cup {step} /\ Settled' = Settled
<1>1. /\ journal \in Seq(Entries(Tools)) /\ tool \in Tools /\ step \in Nat
      /\ \A i \in DOMAIN journal : journal[i].step < step
  BY DEF IInv, TypeOK, PlaceInv, OperationIdsAreFresh
<1>2. /\ DOMAIN journal' = 1 .. Len(journal) + 1 /\ DOMAIN journal = 1 .. Len(journal)
      /\ \A i \in DOMAIN journal : journal'[i] = journal[i]
      /\ journal'[Len(journal) + 1] = [step |-> step, tool |-> tool, state |-> "pending"]
      /\ Len(journal) \in Nat
  BY <1>1, Recording
<1>3. DOMAIN journal' = DOMAIN journal \cup {Len(journal) + 1}
  BY <1>2
<1>4. journal'[Len(journal) + 1].step = step /\ journal'[Len(journal) + 1].state # "succeeded"
  BY <1>2
<1> QED BY <1>2, <1>3, <1>4 DEF Obligations, Settled

LEMMA MarkedObligation ==
  ASSUME IInv, NEW i \in DOMAIN journal, NEW st \in EntryStates,
         journal' = Mark(journal, journal[i].step, st)
  PROVE  /\ Obligations' = Obligations
         /\ \A s \in Settled' : s \in Settled \/ (st = "succeeded" /\ s = journal[i].step)
<1>1. journal \in Seq(Entries(Tools)) /\ Increasing(journal)
  BY DEF IInv, TypeOK, JournalInv
<1>2. /\ DOMAIN journal' = DOMAIN journal
      /\ \A k \in DOMAIN journal : journal'[k].step = journal[k].step
      /\ journal'[i].state = st
      /\ \A k \in DOMAIN journal : k # i => journal'[k] = journal[k]
  BY <1>1, Marking
<1>3. Obligations' = Obligations
  BY <1>2 DEF Obligations
<1>4. \A k \in DOMAIN journal : journal'[k].state = "succeeded" =>
        journal[k].state = "succeeded" \/ (st = "succeeded" /\ k = i)
  BY <1>2
<1>5. \A s \in Settled' : s \in Settled \/ (st = "succeeded" /\ s = journal[i].step)
  BY <1>2, <1>4 DEF Settled
<1> QED BY <1>3, <1>5

\* The operation being undone or disputed, and the later ones.
LEMMA Frontier ==
  ASSUME IInv, pc \in UndoPcs \cup {"human"}
  PROVE  /\ step \in Obligations
         /\ \A u \in Obligations : u > step => u \in Settled
<1>1. PICK i \in DOMAIN journal :
        /\ journal[i].step = step
        /\ \A k \in DOMAIN journal : k > i => journal[k].state = "succeeded"
  BY AwaitedUndo, AwaitedDispute
<1>2. ASSUME NEW k \in DOMAIN journal, journal[k].step > step PROVE journal[k].state = "succeeded"
  <2>1. k \in Nat /\ i \in Nat /\ journal[k].step \in Nat /\ journal[i].step \in Nat
    BY JournalIndices, EntryStatesCovered DEF IInv
  <2>2. ~(k < i) /\ k # i
    BY <1>1, <1>2, <2>1 DEF IInv, JournalInv, Increasing
  <2> QED BY <1>1, <2>1, <2>2
<1> QED BY <1>1, <1>2 DEF Obligations, Settled

LEMMA SettledIsPlain ==
  ASSUME IInv, pc \in ForwardPcs
  PROVE  Settled = {}
<1>1. AllPending(journal)
  BY RunningFacts
<1> QED BY <1>1 DEF Settled, AllPending

\* Once the unwind has begun, it stays so, and its goal is reached or kept.
LEMMA Unwound ==
  ASSUME IInv, [Next]_vars, status \notin {"running", "succeeded_verified"}
  PROVE  status' \notin {"running", "succeeded_verified"}
<1>1. ~Forward
  BY ForwardSteps
<1>2. ASSUME NEW i \in DOMAIN journal, SettledShape(i), goal \in Verdicts
      PROVE  status' \notin {"running", "succeeded_verified"}
  BY <1>2 DEF SettledShape, UnwindGoesOn, UnwindEnds, Verdicts
<1>3. Backward => status' \notin {"running", "succeeded_verified"}
  <2> SUFFICES ASSUME Backward PROVE status' \notin {"running", "succeeded_verified"}
    OBVIOUS
  <2>1. BackwardShape /\ goal \in Verdicts
    BY BackwardSteps DEF IInv, PlaceInv
  <2> QED BY <1>2, <2>1 DEF BackwardShape, DisputedShape
<1>4. ASSUME NEW o \in Operators, Human(o) PROVE status' \notin {"running", "succeeded_verified"}
  <2>1. HumanShape
    BY <1>4, HumanSteps
  <2>2. pc = "human" => goal \in Verdicts
    BY DEF IInv, PlaceInv, WaitPcs
  <2> QED BY <1>2, <2>1, <2>2 DEF HumanShape
<1>5. CancelWhileWaiting \/ Rest \/ UNCHANGED vars => status' = status
  BY DEF CancelWhileWaiting, Rest, vars, control
<1> QED BY <1>1, <1>3, <1>4, <1>5 DEF Next

LEMMA GoalKept ==
  ASSUME IInv, [Next]_vars, status # "running"
  PROVE  /\ pc # "closed" => IF pc' = "closed" THEN status' = goal ELSE goal' = goal
         /\ pc = "closed" => pc' = "closed" /\ status' = status
         /\ status' # "running"
<1>1. ~Forward /\ status' # "running"
  BY ForwardSteps, ForwardOver
<1>2. Backward => IF pc' = "closed" THEN status' = goal ELSE goal' = goal
  BY DEF Backward, CompensationSucceeds, CompensationRefused, CompensationUnknown, ReconciledUndo,
         UndoUnproven, Undone, Disputed, WaitForHuman, Await, Advance, Close
<1>3. Backward => pc # "closed"
  BY BackwardSteps DEF UndoPcs
<1>4. ASSUME NEW o \in Operators, Human(o)
      PROVE  /\ pc # "closed" => IF pc' = "closed" THEN status' = goal ELSE goal' = goal
             /\ pc = "closed" => pc' = "closed" /\ status' = status
  BY <1>4 DEF Human, ReadState, SubmitAccepted, SubmitRejected, VerificationFails, Resolve,
         Conflict, Fail, Advance, Close, control, Awaits
<1>5. CancelWhileWaiting \/ Rest \/ UNCHANGED vars =>
        /\ goal' = goal /\ status' = status
        /\ (pc' = "closed") = (pc = "closed")
  BY DEF CancelWhileWaiting, Rest, vars, control
<1> QED BY <1>1, <1>2, <1>3, <1>4, <1>5 DEF Next

LEMMA Doubted ==
  ASSUME IInv, [Next]_vars, DoubtInv, inDoubt' = inDoubt
  PROVE  DoubtInv'
BY GoalKept DEF DoubtInv

----------------------------------------------------------------------------
(***************************************************************************)
(* The three kinds of steps: the workflow waits, unwinds, or goes forward. *)
(***************************************************************************)
LEMMA WaitingStep ==
  ASSUME SysInv, UNCHANGED <<vars, inDoubt>>, AttemptTypeOK', AnswerInv',
         ~Overruns => late' = {},
         applied \subseteq applied', Born' \subseteq Born \cup Open,
         reversed \subseteq reversed',
         \A s \in Reverting' : s \in Reverting \/ (pc \in UndoPcs /\ s = step)
  PROVE  SysInv'
<1>1. IInv'
  BY StutterStep DEF SysInv
<1>2. UNCHANGED <<pc, status, goal, step, tool, journal>> /\ Obligations' = Obligations /\ Settled' = Settled
  BY SameObligations DEF vars, control, book
<1>3. EffectInv'
  <2>1. Open' = Open
    BY <1>2 DEF Open
  <2>2. 0 \notin Open
    BY DEF SysInv, IInv, PlaceInv, Open
  <2> QED BY <1>2, <2>1, <2>2 DEF SysInv, EffectInv
<1>4. UndoInv'
  <2>1. ASSUME pc \in UndoPcs
        PROVE  /\ step \in Obligations /\ \A u \in Obligations : u > step => u \in Settled
               /\ status \notin {"running", "succeeded_verified"}
    BY <2>1, Frontier DEF SysInv, IInv, PlaceInv
  <2>2. \A s \in Reverting', u \in Obligations : u > s => u \in reversed
    BY <2>1 DEF SysInv, UndoInv
  <2> QED BY <1>2, <2>1, <2>2 DEF SysInv, UndoInv
<1>5. DoubtInv'
  BY <1>2 DEF SysInv, DoubtInv
<1> QED BY <1>1, <1>3, <1>4, <1>5 DEF SysInv, RefusalsAreFinal

LEMMA UnwindingStep ==
  ASSUME SysInv, [Next]_vars, status # "running", inDoubt' = inDoubt, AttemptTypeOK', AnswerInv',
         ~Overruns => late' = {},
         applied' = applied, Born' = Born, Obligations' = Obligations,
         reversed \subseteq reversed', Settled' \subseteq reversed',
         \A s \in Reverting' : s \in Reverting \/ (pc \in UndoPcs \cup {"human"} /\ s = step)
  PROVE  SysInv'
<1>1. IInv' /\ status' # "running"
  BY NextIInv, GoalKept DEF SysInv
<1>2. Open = {} /\ Open' = {}
  BY <1>1 DEF SysInv, IInv, PlaceInv, ForwardPcs, Open
<1>3. EffectInv'
  BY <1>2 DEF SysInv, EffectInv
<1>4. UndoInv'
  <2>1. ASSUME pc \in UndoPcs \cup {"human"}
        PROVE  /\ step \in Obligations /\ \A u \in Obligations : u > step => u \in Settled
               /\ status \notin {"running", "succeeded_verified"}
    BY <2>1, Frontier DEF SysInv, IInv, PlaceInv, WaitPcs
  <2>2. \A s \in Reverting', u \in Obligations : u > s => u \in reversed
    BY <2>1 DEF SysInv, UndoInv
  <2>3. Reverting' \subseteq Obligations
    BY <2>1 DEF SysInv, UndoInv
  <2>4. Reverting' # {} => status \notin {"running", "succeeded_verified"}
    BY <2>1 DEF SysInv, UndoInv
  <2>5. Reverting' # {} => status' \notin {"running", "succeeded_verified"}
    BY <2>4, Unwound DEF SysInv
  <2> QED BY <2>2, <2>3, <2>5 DEF UndoInv
<1>5. DoubtInv'
  BY Doubted DEF SysInv
<1> QED BY <1>1, <1>3, <1>4, <1>5 DEF SysInv, RefusalsAreFinal

LEMMA ForwardFacts ==
  ASSUME SysInv, pc \in ForwardPcs
  PROVE  /\ status = "running" /\ inDoubt = 0 /\ Reverting = {} /\ reversed = {} /\ Settled = {}
         /\ Born \subseteq Obligations \cup Open
         /\ pc \in {"forward", "reconciling"} => step > 0 /\ step \in Nat
<1>1. status = "running" /\ inDoubt = 0
  BY DEF SysInv, IInv, PlaceInv, DoubtInv
<1>2. Reverting = {} /\ reversed = {}
  BY <1>1 DEF SysInv, UndoInv, Reverting
<1>3. Settled = {}
  BY SettledIsPlain DEF SysInv
<1>4. Born \subseteq Obligations \cup Open
  BY <1>1 DEF SysInv, EffectInv
<1>5. pc \in {"forward", "reconciling"} => step > 0 /\ step \in Nat
  BY DEF SysInv, IInv, TypeOK, PlaceInv
<1> QED BY <1>1, <1>2, <1>3, <1>4, <1>5

LEMMA ForwardGoesOn ==
  ASSUME SysInv, [Next]_vars, pc \in ForwardPcs, AttemptTypeOK', AnswerInv', DoubtInv',
         ~Overruns => late' = {},
         Reverting' = {}, Settled' = {},
         Obligations' \subseteq applied',
         0 \notin Born', Born' \subseteq Obligations' \cup {inDoubt'} \cup Open'
  PROVE  SysInv'
<1>1. IInv'
  BY NextIInv DEF SysInv
<1>2. UndoInv' /\ EffectInv'
  BY DEF UndoInv, EffectInv
<1> QED BY <1>1, <1>2 DEF SysInv, RefusalsAreFinal

----------------------------------------------------------------------------
(***************************************************************************)
(* The attempts of the activities.                                         *)
(***************************************************************************)
LEMMA RunningPlace ==
  ASSUME SysInv, Running
  PROVE  /\ step \in Nat
         /\ \/ pc = "forward" /\ tool \in Effects /\ Open = {step} /\ step > 0
            \/ pc = "compensating" /\ pc \in UndoPcs
BY DEF Running, SysInv, IInv, TypeOK, PlaceInv, Open, UndoPcs

LEMMA AttemptStep ==
  ASSUME SysInv, AttemptConfirmed \/ AttemptRefused \/ AttemptUnclear \/ AttemptOverruns
  PROVE  SysInv'
<1> DEFINE x == Execution
<1>1. PICK a \in {"confirmed", "refused", "unclear", "lost"} : Attempt(a)
  BY DEF AttemptConfirmed, AttemptRefused, AttemptUnclear, AttemptOverruns
<1>2. /\ Running /\ UNCHANGED <<vars, inDoubt>> /\ answer' = a
      /\ attempt < MaxAttempts /\ attempt' = attempt + 1
  BY <1>1 DEF Attempt
<1>3. UNCHANGED <<pc, status, goal, step, tool, journal>>
  BY <1>2 DEF vars, control, book
<1>4. /\ x \in [kind : {"effect", "undo"}, step : Nat] /\ x.step = step
      /\ x.kind = IF pc = "forward" THEN "effect" ELSE "undo"
  BY <1>2, RunningPlace DEF Execution
<1>5. /\ applied' = applied \/ (x.kind = "effect" /\ applied' = applied \cup {step})
      /\ reversed' = reversed \/ (x.kind = "undo" /\ reversed' = reversed \cup {step})
      /\ late' \subseteq late \cup {x}
      /\ ~Overruns => late' \subseteq late
      /\ a = "confirmed" => (x.kind = "effect" => step \in applied') /\ (x.kind = "undo" => step \in reversed')
      /\ a = "refused" =>
           /\ UNCHANGED <<applied, reversed>> /\ ~Landed(x)
           /\ late' = IF FinalRefusals THEN late \ {x} ELSE late
  <2>1. AttemptConfirmed => a = "confirmed" /\ Land(x) /\ late' = late
    BY <1>1 DEF AttemptConfirmed, Attempt
  <2>2. AttemptRefused =>
          /\ a = "refused" /\ UNCHANGED <<applied, reversed>> /\ ~Landed(x)
          /\ late' = IF FinalRefusals THEN late \ {x} ELSE late
    BY <1>1 DEF AttemptRefused, Attempt
  <2>3. AttemptUnclear =>
          a \in {"unclear", "lost"} /\ (Land(x) \/ UNCHANGED <<applied, reversed>>) /\ late' = late
    BY <1>1 DEF AttemptUnclear, Attempt
  <2>4. AttemptOverruns =>
          a = "lost" /\ Overruns /\ UNCHANGED <<applied, reversed>> /\ late' = late \cup {x}
    BY <1>1 DEF AttemptOverruns, Attempt
  <2>5. Land(x) => /\ applied' = applied \/ (x.kind = "effect" /\ applied' = applied \cup {step})
                   /\ reversed' = reversed \/ (x.kind = "undo" /\ reversed' = reversed \cup {step})
                   /\ x.kind = "effect" => step \in applied'
                   /\ x.kind = "undo" => step \in reversed'
    BY <1>4 DEF Land
  <2> QED BY <2>1, <2>2, <2>3, <2>4, <2>5
<1>6. AttemptTypeOK'
  <2>1. attempt' \in 0 .. MaxAttempts /\ answer' \in Answers
    BY <1>2, SystemAssumption DEF SysInv, AttemptTypeOK, Answers
  <2> QED BY <1>2, <1>4, <1>5, <2>1 DEF SysInv, AttemptTypeOK
<1>7. ~Overruns => late' = {}
  BY <1>5 DEF SysInv
<1>8. \A s \in Born' : s \in Born \/ (x.kind = "effect" /\ s = step)
  BY <1>4, <1>5 DEF Born
<1>9. \A s \in Reverting' : s \in Reverting \/ (x.kind = "undo" /\ s = step)
  BY <1>4, <1>5 DEF Reverting
<1>10. AnswerInv'
  <2>1. Running' /\ Execution' = x
    BY <1>2, <1>3 DEF Running, Execution
  <2>2. a = "confirmed" => Landed(Execution)'
    BY <1>4, <1>5, <2>1 DEF Landed
  <2>3. pc = "forward" /\ a = "refused" => step \notin Born'
    <3> SUFFICES ASSUME pc = "forward", a = "refused" PROVE step \notin Born'
      OBVIOUS
    <3>1. step \notin applied' /\ x.kind = "effect"
      BY <1>4, <1>5 DEF Landed
    <3>2. x \notin late' /\ late' \subseteq [kind : {"effect", "undo"}, step : Nat]
      BY <1>5, <1>6, <1>7 DEF SysInv, RefusalsAreFinal, AttemptTypeOK
    <3>3. \A y \in late' : y.kind = "effect" /\ y.step = step => y = x
      BY <1>4, <3>1, <3>2
    <3> QED BY <3>1, <3>2, <3>3 DEF Born
  <2> QED BY <1>2, <1>3, <2>1, <2>2, <2>3 DEF AnswerInv
<1>11. Born' \subseteq Born \cup Open
  BY <1>2, <1>4, <1>8, RunningPlace
<1>12. \A s \in Reverting' : s \in Reverting \/ (pc \in UndoPcs /\ s = step)
  BY <1>2, <1>4, <1>9, RunningPlace
<1> QED BY <1>2, <1>5, <1>6, <1>7, <1>10, <1>11, <1>12, WaitingStep

LEMMA LateStep ==
  ASSUME SysInv, LateExecutionLands
  PROVE  SysInv'
<1>1. PICK x \in late : Land(x) /\ late' = late \ {x}
  BY DEF LateExecutionLands
<1>2. /\ x \in [kind : {"effect", "undo"}, step : Nat]
      /\ applied' = IF x.kind = "effect" THEN applied \cup {x.step} ELSE applied
      /\ reversed' = IF x.kind = "undo" THEN reversed \cup {x.step} ELSE reversed
      /\ UNCHANGED <<vars, inDoubt, attempt, answer>>
  BY <1>1 DEF Land, LateExecutionLands, activity, SysInv, AttemptTypeOK
<1>3. AttemptTypeOK' /\ (~Overruns => late' = {})
  BY <1>1, <1>2 DEF SysInv, AttemptTypeOK
<1>4. Born' \subseteq Born
  BY <1>1, <1>2 DEF Born
<1>5. Reverting' \subseteq Reverting
  BY <1>1, <1>2 DEF Reverting
<1>6. applied \subseteq applied' /\ reversed \subseteq reversed'
  BY <1>2
<1>7. AnswerInv'
  <2>1. UNCHANGED <<pc, step, tool>>
    BY <1>2 DEF vars, control
  <2> QED BY <1>2, <1>4, <1>6, <2>1 DEF SysInv, AnswerInv, Running, Execution, Landed
<1> QED BY <1>2, <1>3, <1>4, <1>5, <1>6, <1>7, WaitingStep

----------------------------------------------------------------------------
(***************************************************************************)
(* The awaited activity ends.                                              *)
(***************************************************************************)
LEMMA QuietTypes ==
  ASSUME SysInv, UNCHANGED provider, inDoubt' = inDoubt \/ inDoubt' = step,
         NextActivity \/ UNCHANGED activity
  PROVE  AttemptTypeOK' /\ (~Overruns => late' = {}) /\ Born' = Born /\ Reverting' = Reverting
<1>1. 0 \in 0 .. MaxAttempts /\ "none" \in Answers /\ step \in Nat
  BY SystemAssumption DEF Answers, SysInv, IInv, TypeOK
<1>2. UNCHANGED <<applied, reversed, late>>
  BY DEF provider
<1>3. AttemptTypeOK' /\ (~Overruns => late' = {})
  BY <1>1, <1>2 DEF SysInv, AttemptTypeOK, NextActivity, activity
<1>4. Born' = Born /\ Reverting' = Reverting
  BY <1>2 DEF Born, Reverting
<1> QED BY <1>3, <1>4

\* The forward effect is found or answered to exist: it is an obligation.
LEMMA ConfirmedEffect ==
  ASSUME SysInv, ForwardSucceeds \/ ReconciledEffect, tool \in Effects, step \in applied,
         UNCHANGED <<provider, inDoubt>>, answer' = "none", AttemptTypeOK'
  PROVE  SysInv'
<1>1. /\ pc \in {"forward", "reconciling"} /\ pc \in ForwardPcs
      /\ journal' = RecordForward(journal, step, tool)
  BY DEF ForwardSucceeds, ReconciledEffect, RecordForwardEvidence, ForwardPcs
<1>2. Next
  BY DEF Next, Forward
<1>3. Obligations' = Obligations \cup {step} /\ Settled' = Settled
  BY <1>1, RecordedObligation DEF SysInv
<1>4. UNCHANGED <<applied, reversed, late, inDoubt>>
  BY DEF provider
<1>5. Born' = Born /\ Reverting' = Reverting
  BY <1>4 DEF Born, Reverting
<1>6. /\ status = "running" /\ inDoubt' = 0 /\ Reverting' = {} /\ Settled' = {}
      /\ Born \subseteq Obligations \cup {step}
  BY <1>1, <1>3, <1>4, <1>5, ForwardFacts DEF Open
<1>7. 0 \notin Born' /\ Born' \subseteq Obligations' \cup {inDoubt'} \cup Open'
  BY <1>3, <1>5, <1>6 DEF SysInv, EffectInv
<1>8. Obligations' \subseteq applied'
  BY <1>3, <1>4 DEF SysInv, EffectInv
<1>9. AnswerInv' /\ DoubtInv' /\ (~Overruns => late' = {})
  BY <1>4, <1>6 DEF AnswerInv, DoubtInv, SysInv
<1> QED BY <1>1, <1>2, <1>6, <1>7, <1>8, <1>9, ForwardGoesOn

\* The forward effect does not exist, and will not: nothing is recorded.
LEMMA AbsentEffect ==
  ASSUME SysInv, ForwardFails \/ ReconciledNoEffect, step \notin Born', tool \in Effects,
         UNCHANGED <<applied, reversed, inDoubt>>, late' \subseteq late,
         answer' = "none", AttemptTypeOK'
  PROVE  SysInv'
<1>1. /\ pc \in {"forward", "reconciling"} /\ pc \in ForwardPcs /\ journal' = journal
  BY DEF ForwardFails, ReconciledNoEffect, ForwardPcs, book
<1>2. Next
  BY DEF Next, Forward
<1>3. Obligations' = Obligations /\ Settled' = Settled
  BY <1>1, SameObligations
<1>4. Born' \subseteq Born /\ Reverting' \subseteq Reverting
  BY DEF Born, Reverting
<1>5. /\ inDoubt' = 0 /\ Reverting' = {} /\ Settled' = {}
      /\ Born \subseteq Obligations \cup {step}
  BY <1>1, <1>3, <1>4, ForwardFacts DEF Open
<1>6. 0 \notin Born' /\ Born' \subseteq Obligations' \cup {inDoubt'} \cup Open'
  BY <1>3, <1>4, <1>5 DEF SysInv, EffectInv
<1>7. Obligations' \subseteq applied'
  BY <1>3 DEF SysInv, EffectInv
<1>8. AnswerInv' /\ DoubtInv' /\ (~Overruns => late' = {})
  BY <1>5 DEF AnswerInv, DoubtInv, SysInv
<1> QED BY <1>1, <1>2, <1>5, <1>6, <1>7, <1>8, ForwardGoesOn

\* Nothing is known of the forward effect: the saga asks the provider.
LEMMA UnclearEffect ==
  ASSUME SysInv, ForwardUnknown,
         UNCHANGED <<applied, reversed, inDoubt>>,
         \A s \in Born' : s \in Born \/ s = step, Reverting' = Reverting, ~Overruns => late' = {},
         answer' = "none", AttemptTypeOK'
  PROVE  SysInv'
<1>1. /\ pc = "forward" /\ pc \in ForwardPcs /\ tool \in Effects /\ pc' = "reconciling"
      /\ UNCHANGED <<step, tool, journal>>
  BY DEF ForwardUnknown, Await, ForwardPcs, book
<1>2. Next
  BY DEF Next, Forward
<1>3. Obligations' = Obligations /\ Settled' = Settled /\ Open' = {step}
  BY <1>1, SameObligations DEF Open
<1>4. /\ inDoubt' = 0 /\ Reverting' = {} /\ Settled' = {} /\ step > 0
      /\ Born \subseteq Obligations \cup {step}
  BY <1>1, <1>3, ForwardFacts DEF Open
<1>5. 0 \notin Born' /\ Born' \subseteq Obligations' \cup {inDoubt'} \cup Open'
  BY <1>3, <1>4 DEF SysInv, EffectInv
<1>6. Obligations' \subseteq applied'
  BY <1>3 DEF SysInv, EffectInv
<1>7. AnswerInv' /\ DoubtInv'
  BY <1>4 DEF AnswerInv, DoubtInv
<1> QED BY <1>1, <1>2, <1>4, <1>5, <1>6, <1>7, ForwardGoesOn

\* An undo is settled or disputed; a settled one exists at the provider.
LEMMA UndoEnds ==
  ASSUME SysInv, CompensationSucceeds \/ ReconciledUndo => step \in reversed,
         CompensationSucceeds \/ ReconciledUndo \/ CompensationRefused \/ UndoUnproven,
         UNCHANGED <<provider, inDoubt>>, answer' = "none", AttemptTypeOK'
  PROVE  SysInv'
<1>1. pc \in UndoPcs /\ status = "compensating" /\ Backward
  <2>1. Backward
    BY DEF Backward
  <2> QED BY <2>1, BackwardSteps DEF SysInv
<1>2. Next
  BY <1>1 DEF Next
<1>3. PICK i \in DOMAIN journal : journal[i].step = step
  BY <1>1, AwaitedUndo DEF SysInv
<1>4. PICK st \in {"succeeded", "unresolved"} :
        /\ journal' = Mark(journal, journal[i].step, st)
        /\ st = "succeeded" => step \in reversed
  <2>1. CompensationSucceeds \/ ReconciledUndo => journal' = Mark(journal, step, "succeeded")
    BY DEF CompensationSucceeds, ReconciledUndo, Undone
  <2>2. CompensationRefused \/ UndoUnproven => journal' = Mark(journal, step, "unresolved")
    BY DEF CompensationRefused, UndoUnproven, Disputed
  <2> QED BY <1>3, <2>1, <2>2
<1>5. UNCHANGED <<applied, reversed, late>>
  BY DEF provider
<1>6. /\ Obligations' = Obligations
      /\ \A s \in Settled' : s \in Settled \/ (st = "succeeded" /\ s = step)
  <2>1. IInv /\ st \in EntryStates
    BY DEF SysInv, EntryStates
  <2> QED BY <1>3, <1>4, <2>1, MarkedObligation
<1>7. Settled' \subseteq reversed'
  BY <1>4, <1>5, <1>6 DEF SysInv, UndoInv
<1>8. Born' = Born /\ Reverting' = Reverting
  BY <1>5 DEF Born, Reverting
<1>9. AnswerInv' /\ (~Overruns => late' = {})
  BY <1>5 DEF AnswerInv, SysInv
<1> QED BY <1>1, <1>2, <1>5, <1>6, <1>7, <1>8, <1>9, UnwindingStep

\* Nothing is known of the undo: the saga asks the provider.
LEMMA UnclearUndo ==
  ASSUME SysInv, CompensationUnknown,
         UNCHANGED <<applied, reversed, inDoubt>>,
         Born' = Born, \A s \in Reverting' : s \in Reverting \/ s = step, ~Overruns => late' = {},
         answer' = "none", AttemptTypeOK'
  PROVE  SysInv'
<1>1. pc \in UndoPcs /\ status # "running" /\ journal' = journal
  <2>1. Backward
    BY DEF Backward
  <2> QED BY <2>1, BackwardSteps DEF SysInv, CompensationUnknown, book
<1>2. Next
  BY DEF Next, Backward
<1>3. Obligations' = Obligations /\ Settled' \subseteq reversed'
  BY <1>1, SameObligations DEF SysInv, UndoInv
<1>4. AnswerInv'
  BY DEF AnswerInv
<1> QED BY <1>1, <1>2, <1>3, <1>4, UnwindingStep

LEMMA CompletionStep ==
  ASSUME SysInv, ActivityCompletes
  PROVE  SysInv'
<1>1. /\ NextActivity /\ UNCHANGED <<provider, inDoubt>> /\ answer' = "none"
      /\ UNCHANGED <<applied, reversed, late, inDoubt>>
  BY DEF ActivityCompletes, NextActivity, provider
<1>2. AttemptTypeOK' /\ (~Overruns => late' = {}) /\ Born' = Born /\ Reverting' = Reverting
  BY <1>1, QuietTypes
<1>3. CASE EffectSucceeds
  <2>1. ForwardSucceeds /\ tool \in Effects /\ answer = "confirmed" /\ pc = "forward"
    BY <1>3 DEF EffectSucceeds, Answered, ForwardSucceeds
  <2>2. step \in applied
    BY <2>1 DEF SysInv, AnswerInv, Running, Landed, Execution
  <2> QED BY <1>1, <1>2, <2>1, <2>2, ConfirmedEffect
<1>4. CASE EffectRefused
  <2>1. ForwardFails /\ tool \in Effects /\ answer = "refused" /\ pc = "forward"
    BY <1>4 DEF EffectRefused, Answered, ForwardFails
  <2>2. step \notin Born'
    BY <1>2, <2>1 DEF SysInv, AnswerInv, Running
  <2> QED BY <1>1, <1>2, <2>1, <2>2, AbsentEffect
<1>5. CASE EffectUnknown
  BY <1>1, <1>2, <1>5, UnclearEffect DEF EffectUnknown
<1>6. CASE UndoSucceeds
  <2>1. CompensationSucceeds /\ answer = "confirmed" /\ pc = "compensating"
    BY <1>6 DEF UndoSucceeds, Answered, CompensationSucceeds
  <2>2. step \in reversed
    BY <2>1 DEF SysInv, AnswerInv, Running, Landed, Execution
  <2> QED BY <1>1, <1>2, <2>1, <2>2, UndoEnds
<1>7. CASE UndoRefused
  <2>1. CompensationRefused
    BY <1>7 DEF UndoRefused
  <2>2. CASE CompensationSucceeds \/ ReconciledUndo
    <3>1. blocked' = TRUE /\ blocked' = FALSE
      BY <2>1, <2>2 DEF CompensationRefused, CompensationSucceeds, ReconciledUndo, Undone, Disputed
    <3> QED BY <3>1
  <2> QED BY <1>1, <1>2, <2>1, <2>2, UndoEnds
<1>8. CASE UndoUnknown
  BY <1>1, <1>2, <1>8, UnclearUndo DEF UndoUnknown
<1> QED
  BY <1>3, <1>4, <1>5, <1>6, <1>7, <1>8 DEF ActivityCompletes

LEMMA CancelStepInFlight ==
  ASSUME SysInv, CancelInFlight
  PROVE  SysInv'
<1> DEFINE x == Execution
<1>1. /\ Running /\ answer' = "none" /\ attempt' = 0
      /\ late' = late \/ (Overruns /\ late' = late \cup {x})
      /\ UNCHANGED <<applied, reversed, inDoubt>>
  BY DEF CancelInFlight, NextActivity
<1>2. /\ x \in [kind : {"effect", "undo"}, step : Nat] /\ x.step = step
      /\ x.kind = IF pc = "forward" THEN "effect" ELSE "undo"
  BY <1>1, RunningPlace DEF Execution
<1>3. AttemptTypeOK' /\ (~Overruns => late' = {})
  BY <1>1, <1>2, SystemAssumption DEF SysInv, AttemptTypeOK, Answers
<1>4. \A s \in Born' : s \in Born \/ (x.kind = "effect" /\ s = step)
  BY <1>1, <1>2 DEF Born
<1>5. \A s \in Reverting' : s \in Reverting \/ (x.kind = "undo" /\ s = step)
  BY <1>1, <1>2 DEF Reverting
<1>6. Born \subseteq Born' /\ Reverting \subseteq Reverting'
  BY <1>1 DEF Born, Reverting
<1>7. CASE ForwardUnknown
  <2>1. x.kind = "effect"
    BY <1>2, <1>7 DEF ForwardUnknown
  <2>2. Reverting' = Reverting
    BY <1>5, <1>6, <2>1
  <2> QED BY <1>1, <1>3, <1>4, <1>7, <2>2, UnclearEffect
<1>8. CASE CompensationUnknown
  <2>1. x.kind = "undo"
    BY <1>2, <1>8 DEF CompensationUnknown
  <2>2. Born' = Born
    BY <1>4, <1>6, <2>1
  <2> QED BY <1>1, <1>3, <1>5, <1>8, <2>2, UnclearUndo
<1> QED BY <1>7, <1>8 DEF CancelInFlight

----------------------------------------------------------------------------
(***************************************************************************)
(* Reconciliation, humans, and everything that leaves the provider alone.  *)
(***************************************************************************)
LEMMA Unasked ==
  ASSUME SysInv, pc # "task_failed", pc \notin {"forward", "compensating"} \/ tool \notin Effects,
         pc # "compensating"
  PROVE  answer = "none"
BY DEF SysInv, AnswerInv, Running

LEMMA ReconciliationStep ==
  ASSUME SysInv, Reconciliation
  PROVE  SysInv'
<1>1. UNCHANGED <<attempt, answer>>
  BY DEF Reconciliation, activity
<1>2. pc \in {"reconciling", "reconciling_compensation"}
  BY DEF Reconciliation, EffectFound, NoEffectProven, EffectStaysOpen, UndoFound, UndoStaysOpen,
         ReconciledEffect, ReconciledNoEffect, StillUnknown, ReconciledUndo, UndoUnproven
<1>3. answer' = "none"
  BY <1>1, <1>2, Unasked
<1>4. pc = "reconciling" => tool \in Effects
  BY DEF SysInv, IInv, PlaceInv
<1>5. CASE EffectFound
  <2>1. ReconciledEffect /\ step \in applied /\ UNCHANGED <<provider, inDoubt>> /\ pc = "reconciling"
    BY <1>5 DEF EffectFound, ReconciledEffect
  <2>2. AttemptTypeOK'
    BY <1>1, <2>1, QuietTypes DEF activity
  <2> QED BY <1>3, <1>4, <2>1, <2>2, ConfirmedEffect
<1>6. CASE NoEffectProven
  <2>1. /\ ReconciledNoEffect /\ pc = "reconciling" /\ step \notin applied
        /\ late' = {x \in late : x.step # step} /\ UNCHANGED <<applied, reversed, inDoubt>>
    BY <1>6 DEF NoEffectProven, ReconciledNoEffect
  <2>2. AttemptTypeOK'
    BY <1>1, <2>1 DEF SysInv, AttemptTypeOK
  <2>3. step \notin Born' /\ late' \subseteq late
    BY <2>1 DEF Born
  <2> QED BY <1>3, <1>4, <2>1, <2>2, <2>3, AbsentEffect
<1>7. CASE EffectStaysOpen
  <2>1. StillUnknown /\ inDoubt' = step /\ UNCHANGED provider /\ pc = "reconciling" /\ pc \in ForwardPcs
    BY <1>7 DEF EffectStaysOpen, StillUnknown, ForwardPcs
  <2>2. Next /\ journal' = journal
    BY <2>1 DEF Next, Forward, StillUnknown, book
  <2>3. AttemptTypeOK' /\ (~Overruns => late' = {}) /\ Born' = Born /\ Reverting' = Reverting
    BY <1>1, <2>1, QuietTypes DEF activity
  <2>4. PICK n \in {0, 1} : UnwindBeforeHuman(journal, n)
    BY <2>1 DEF StillUnknown
  <2>5. DoubtInv'
    BY <2>4 DEF DoubtInv, UnwindBeforeHuman, Unwind, Advance, Close
  <2>6. /\ Obligations' = Obligations /\ Reverting' = {} /\ Settled' = {}
        /\ Born \subseteq Obligations \cup {step}
    BY <2>1, <2>2, <2>3, ForwardFacts, SameObligations DEF Open
  <2>7. /\ 0 \notin Born' /\ Born' \subseteq Obligations' \cup {inDoubt'} \cup Open'
        /\ Obligations' \subseteq applied'
    BY <2>1, <2>3, <2>6 DEF SysInv, EffectInv, provider
  <2>8. AnswerInv'
    BY <1>3 DEF AnswerInv
  <2> QED BY <2>1, <2>2, <2>3, <2>5, <2>6, <2>7, <2>8, ForwardGoesOn
<1>8. CASE UndoFound
  <2>1. ReconciledUndo /\ step \in reversed /\ UNCHANGED <<provider, inDoubt>>
    BY <1>8 DEF UndoFound
  <2>2. AttemptTypeOK'
    BY <1>1, <2>1, QuietTypes DEF activity
  <2> QED BY <1>3, <2>1, <2>2, UndoEnds
<1>9. CASE UndoStaysOpen
  <2>1. UndoUnproven /\ UNCHANGED <<provider, inDoubt>>
    BY <1>9 DEF UndoStaysOpen
  <2>2. AttemptTypeOK'
    BY <1>1, <2>1, QuietTypes DEF activity
  <2>3. ~(CompensationSucceeds \/ ReconciledUndo)
    <3>1. blocked' = TRUE
      BY <2>1 DEF UndoUnproven, Disputed
    <3>2. CompensationSucceeds \/ ReconciledUndo => blocked' = FALSE
      BY DEF CompensationSucceeds, ReconciledUndo, Undone
    <3> QED BY <3>1, <3>2
  <2> QED BY <1>3, <2>1, <2>2, <2>3, UndoEnds
<1> QED
  BY <1>5, <1>6, <1>7, <1>8, <1>9 DEF Reconciliation

LEMMA HumanStep ==
  ASSUME SysInv, NEW o \in Operators, UndoneByHuman(o)
  PROVE  SysInv'
<1>1. /\ Resolve(o) /\ pc = "human" /\ UNCHANGED <<applied, late, attempt, answer, inDoubt>>
      /\ reversed' = reversed \cup {desk[o].step}
  BY DEF UndoneByHuman, Resolve, activity
<1>2. Next /\ status # "running"
  BY <1>1 DEF Next, Human, SysInv, IInv, PlaceInv, WaitPcs
<1>3. PICK i \in DOMAIN journal :
        /\ journal[i].step = step /\ journal[i].state = "unresolved"
        /\ \A k \in DOMAIN journal : k > i => journal[k].state = "succeeded"
        /\ \A k \in DOMAIN journal : k < i => journal[k].state = "pending"
  BY <1>1, AwaitedDispute DEF SysInv
<1>4. PICK k \in DOMAIN journal :
        /\ journal[k].step = desk[o].step /\ journal[k].state = "unresolved"
        /\ journal' = Mark(journal, journal[k].step, "succeeded")
  BY <1>1, ResolveStep DEF SysInv
<1>5. k = i /\ desk[o].step = step
  <2>1. k \in Nat /\ i \in Nat
    BY JournalIndices DEF SysInv, IInv
  <2> QED BY <1>3, <1>4, <2>1
<1>6. /\ Obligations' = Obligations
      /\ \A s \in Settled' : s \in Settled \/ s = step
  BY <1>4, <1>5, MarkedObligation DEF SysInv, EntryStates
<1>7. Settled' \subseteq reversed'
  BY <1>1, <1>5, <1>6 DEF SysInv, UndoInv
<1>8. Born' = Born /\ \A s \in Reverting' : s \in Reverting \/ s = step
  BY <1>1, <1>5 DEF Born, Reverting
<1>9. answer' = "none"
  BY <1>1, Unasked
<1>10. AttemptTypeOK' /\ AnswerInv' /\ (~Overruns => late' = {})
  <2>1. step \in Nat
    BY DEF SysInv, IInv, TypeOK
  <2> QED BY <1>1, <1>5, <1>9, <2>1 DEF SysInv, AttemptTypeOK, AnswerInv
<1>11. reversed \subseteq reversed'
  BY <1>1
<1> QED BY <1>1, <1>2, <1>6, <1>7, <1>8, <1>10, <1>11, UnwindingStep

LEMMA ElsewhereStep ==
  ASSUME SysInv, Elsewhere
  PROVE  SysInv'
<1>1. UNCHANGED <<activity, provider, inDoubt, attempt, answer, applied, reversed, late>>
  BY DEF Elsewhere, activity, provider
<1>2. [Next]_vars
  BY DEF Elsewhere, Read, Next, Forward, Human
<1>3. AttemptTypeOK' /\ (~Overruns => late' = {}) /\ Born' = Born /\ Reverting' = Reverting
  BY <1>1, QuietTypes
<1>4. CASE Start \/ DecisionFails \/ ProposalRejected \/ ToolCalled \/ FinishProposed \/ Read
  <2>1. /\ pc \in ForwardPcs /\ journal' = journal /\ pc # "reconciling" /\ pc # "compensating"
        /\ pc = "forward" => tool \notin Effects
    BY <1>4 DEF Start, DecisionFails, ProposalRejected, ToolCalled, FinishProposed, Read,
       ForwardSucceeds, ForwardFails, RecordForwardEvidence, ForwardPcs, book
  <2>2. answer' = "none" /\ AnswerInv'
    BY <1>1, <2>1, Unasked DEF AnswerInv, ForwardPcs
  <2>3. /\ inDoubt' = 0 /\ Obligations' = Obligations /\ Reverting' = {} /\ Settled' = {}
        /\ Born \subseteq Obligations
    BY <1>1, <1>3, <2>1, ForwardFacts, SameObligations DEF Open
  <2>4. /\ 0 \notin Born' /\ Born' \subseteq Obligations' \cup {inDoubt'} \cup Open'
        /\ Obligations' \subseteq applied'
    BY <1>1, <1>3, <2>3 DEF SysInv, EffectInv
  <2>5. DoubtInv'
    BY <2>3 DEF DoubtInv
  <2> QED BY <1>2, <1>3, <2>1, <2>2, <2>3, <2>4, <2>5, ForwardGoesOn
<1>5. ASSUME journal' = journal, status # "running", answer' = "none" \/ pc' = "task_failed"
      PROVE  SysInv'
  <2>1. Obligations' = Obligations /\ Settled' \subseteq reversed'
    BY <1>1, <1>5, SameObligations DEF SysInv, UndoInv
  <2>2. AnswerInv'
    BY <1>5 DEF AnswerInv, Running
  <2>3. \A s \in Reverting' : s \in Reverting \/ (pc \in UndoPcs \cup {"human"} /\ s = step)
    BY <1>3
  <2>4. inDoubt' = inDoubt /\ applied' = applied /\ reversed \subseteq reversed'
    BY <1>1
  <2> QED BY <1>2, <1>3, <1>5, <2>1, <2>2, <2>3, <2>4, UnwindingStep
<1>6. CASE CancelWhileWaiting
  <2>1. pc = "human" /\ journal' = journal
    BY <1>6 DEF CancelWhileWaiting, book
  <2>2. status # "running" /\ answer' = "none"
    BY <1>1, <2>1, Unasked DEF SysInv, IInv, PlaceInv, WaitPcs
  <2> QED BY <1>5, <2>1, <2>2
<1>7. ASSUME NEW o \in Operators, Conflict(o)
      PROVE  SysInv'
  <2>1. pc' = "task_failed" /\ journal' = journal /\ desk[o].phase = "verifying" /\ pc \in Awaits
    BY <1>7 DEF Conflict, Fail, book
  <2>2. status # "running"
    BY <2>1, RunningFacts DEF SysInv, IInv, PlaceInv, Awaits
  <2> QED BY <1>5, <2>1, <2>2
<1>8. ASSUME UNCHANGED <<control, book>>
      PROVE  SysInv'
  <2>1. IInv'
    BY <1>2, NextIInv DEF SysInv
  <2>2. UNCHANGED <<pc, status, goal, step, tool, journal>>
    BY <1>8 DEF control, book
  <2>3. Obligations' = Obligations /\ Settled' = Settled /\ Open' = Open
    BY <2>2, SameObligations DEF Open
  <2>4. AnswerInv'
    BY <1>1, <1>3, <2>2 DEF SysInv, AnswerInv, Running, Landed, Execution
  <2>5. EffectInv' /\ UndoInv' /\ DoubtInv'
    BY <1>1, <1>3, <2>2, <2>3 DEF SysInv, EffectInv, UndoInv, DoubtInv
  <2> QED BY <1>3, <2>1, <2>4, <2>5 DEF SysInv, RefusalsAreFinal
<1>9. CASE Rest
  BY <1>8, <1>9 DEF Rest, vars
<1>10. ASSUME NEW o \in Operators,
              ReadState(o) \/ SubmitAccepted(o) \/ SubmitRejected(o) \/ VerificationFails(o)
       PROVE  SysInv'
  BY <1>8, <1>10 DEF ReadState, SubmitAccepted, SubmitRejected, VerificationFails
<1> QED
  BY <1>4, <1>6, <1>7, <1>9, <1>10 DEF Elsewhere

LEMMA SysInitial == SysInit /\ RefusalsAreFinal => SysInv
<1> SUFFICES ASSUME SysInit, RefusalsAreFinal PROVE SysInv
  OBVIOUS
<1>1. /\ Init /\ attempt = 0 /\ answer = "none" /\ inDoubt = 0
      /\ applied = {} /\ reversed = {} /\ late = {} /\ journal = << >>
  BY DEF SysInit, Init
<1>2. AttemptTypeOK
  BY <1>1, SystemAssumption DEF AttemptTypeOK, Answers
<1>3. Born = {} /\ Reverting = {} /\ Obligations = {} /\ Settled = {}
  BY <1>1 DEF Born, Reverting, Obligations, Settled
<1>4. AnswerInv /\ EffectInv /\ UndoInv /\ DoubtInv
  BY <1>1, <1>3 DEF AnswerInv, EffectInv, UndoInv, DoubtInv
<1> QED BY <1>1, <1>2, <1>4, InitIInv DEF SysInv

LEMMA SysStep == SysInv /\ [SysNext]_sysVars => SysInv'
<1> SUFFICES ASSUME SysInv, [SysNext]_sysVars PROVE SysInv'
  OBVIOUS
<1>1. CASE UNCHANGED sysVars
  <2>1. UNCHANGED <<vars, activity, provider, inDoubt, attempt, answer, applied, reversed, late>>
    BY <1>1 DEF sysVars, activity, provider
  <2>2. AttemptTypeOK' /\ (~Overruns => late' = {}) /\ Born' = Born /\ Reverting' = Reverting
    BY <2>1, QuietTypes
  <2>3. AnswerInv'
    BY <2>1, <2>2 DEF vars, control, SysInv, AnswerInv, Running, Landed, Execution
  <2> QED BY <2>1, <2>2, <2>3, WaitingStep
<1> QED
  BY <1>1, AttemptStep, LateStep, CompletionStep, CancelStepInFlight, ReconciliationStep,
     HumanStep, ElsewhereStep DEF SysNext

LEMMA SysInvariance == RefusalsAreFinal /\ SysSpec => []SysInv
<1>1. RefusalsAreFinal /\ SysSpec => SysInv /\ [][SysNext]_sysVars
  BY SysInitial DEF SysSpec
<1> QED BY <1>1, SysStep, PTL

----------------------------------------------------------------------------
(***************************************************************************)
(* Every variable of the saga, its activities and the provider keeps its   *)
(* type (workflow.py, activities.py), so no operation id is out of range.  *)
(***************************************************************************)
THEOREM SystemTypes == RefusalsAreFinal /\ SysSpec => []SysTypeOK
<1>1. SysInv => SysTypeOK
  BY DEF SysInv, IInv, AttemptTypeOK, SysTypeOK
<1> QED BY <1>1, SysInvariance, PTL

(***************************************************************************)
(* Whatever attempts are lost, repeated or overrun (workflow.py:431), an   *)
(* effect at the provider is an obligation, the operation at hand, or the  *)
(* one the saga stopped for.                                               *)
(***************************************************************************)
THEOREM EffectsAreOwned == RefusalsAreFinal /\ SysSpec => []EveryEffectIsOwned
<1>1. SysInv => EveryEffectIsOwned
  BY DEF SysInv, EffectInv, Born, Open, EveryEffectIsOwned
<1> QED BY <1>1, SysInvariance, PTL

(***************************************************************************)
(* The journal (journal.py) agrees with the provider: an obligation exists *)
(* there, only obligations are undone, and a settled one is undone.        *)
(***************************************************************************)
THEOREM JournalIsTrue == RefusalsAreFinal /\ SysSpec => []JournalMatchesProvider
<1>1. SysInv => JournalMatchesProvider
  BY DEF SysInv, EffectInv, UndoInv, Reverting, Settled, JournalMatchesProvider
<1> QED BY <1>1, SysInvariance, PTL

(***************************************************************************)
(* No ending of the saga (workflow.py, _close) leaves an effect behind but *)
(* the one a human was called for, and a success is proven after the last  *)
(* effect there is.                                                        *)
(***************************************************************************)
THEOREM NothingDangles == RefusalsAreFinal /\ SysSpec => []NoDanglingEffect
<1>1. ASSUME SysInv, pc = "closed"
      PROVE  CASE status \in {"aborted_clean", "compensated_verified"} -> applied \subseteq reversed
               [] status = "human_required" -> applied \ reversed \subseteq {inDoubt}
               [] OTHER -> /\ applied = Obligations /\ reversed = {}
                           /\ \A p \in Proofs, s \in applied : s < proofStep[p]
  <2>1. /\ status \in Verdicts \cup {"aborted_clean", "succeeded_verified"}
        /\ Open = {} /\ applied \subseteq Born /\ reversed \subseteq Reverting
    BY <1>1 DEF SysInv, IInv, TypeOK, Statuses, PlaceInv, Open, Born, Reverting
  <2>2. applied \subseteq Obligations \cup {inDoubt} /\ Obligations \subseteq applied
    BY <2>1, <1>1 DEF SysInv, EffectInv
  <2>3. status # "human_required" => applied = Obligations
    <3> SUFFICES ASSUME status # "human_required" PROVE applied = Obligations
      OBVIOUS
    <3>1. inDoubt = 0 /\ 0 \notin applied
      BY <1>1, <2>1 DEF SysInv, DoubtInv, EffectInv
    <3> QED BY <2>2, <3>1
  <2>4. status \in Verdicts => Obligations \subseteq reversed
    <3>1. status \in Verdicts => Obligations \subseteq Settled
      BY <1>1 DEF SysInv, IInv, VerdictIsTrue, Obligations, Settled
    <3> QED BY <1>1, <3>1 DEF SysInv, UndoInv
  <2>5. status = "aborted_clean" => Obligations = {}
    BY <1>1 DEF SysInv, IInv, VerdictIsTrue, Obligations
  <2>6. status = "succeeded_verified" =>
          reversed = {} /\ \A p \in Proofs, s \in Obligations : s < proofStep[p]
    BY <1>1, <2>1 DEF SysInv, UndoInv, IInv, VerdictIsTrue, Obligations
  <2> QED BY <2>1, <2>2, <2>3, <2>4, <2>5, <2>6 DEF Verdicts
<1> QED BY <1>1, SysInvariance, PTL DEF NoDanglingEffect

LEMMA SysWorkflowStep == [SysNext]_sysVars => [Next]_vars
BY DEF SysNext, sysVars, AttemptConfirmed, AttemptRefused, AttemptUnclear, AttemptOverruns,
   Attempt, LateExecutionLands, ActivityCompletes, CancelInFlight, Reconciliation, UndoneByHuman,
   Elsewhere, EffectSucceeds, EffectRefused, EffectUnknown, UndoSucceeds, UndoRefused,
   UndoUnknown, EffectFound, NoEffectProven, EffectStaysOpen, UndoFound, UndoStaysOpen, Read,
   Next, Forward, Backward, Human

(***************************************************************************)
(* The activities and the provider take nothing from the workflow and add  *)
(* nothing to it, overruns and refusals of any kind included: what the     *)
(* system does is a behaviour of workflow.py with arbitrary answers, and   *)
(* keeps the contract of a saga.                                           *)
(***************************************************************************)
THEOREM SystemIsTheWorkflow == SysSpec => Spec /\ ImplementsContract
<1>1. SysInit => Init
  BY DEF SysInit
<1> QED BY <1>1, SysWorkflowStep, Refinement, PTL DEF SysSpec, Spec

(***************************************************************************)
(* The provider, too, sees the effects undone newest first (journal.py,    *)
(* next_request), although undos are repeated and may land late.           *)
(***************************************************************************)
THEOREM UndoneInReverse == RefusalsAreFinal /\ SysSpec => EffectsAreUndoneInReverse
<1>1. ASSUME SysInv, [SysNext]_sysVars
      PROVE  \A s \in reversed' \ reversed : \A u \in applied \cap Obligations : u > s => u \in reversed'
  <2>1. SysInv'
    BY <1>1, SysStep
  <2>2. [Next]_vars
    BY <1>1, SysWorkflowStep
  <2>3. Obligations \subseteq Obligations'
    <3>1. EntriesStay
      BY <1>1, <2>2, JournalSteps DEF SysInv
    <3> QED BY <3>1 DEF EntriesStay, Obligations
  <2>4. reversed' \subseteq Reverting'
    BY DEF Reverting
  <2> QED BY <2>1, <2>3, <2>4 DEF SysInv, UndoInv
<1> QED BY <1>1, SysInvariance, PTL DEF EffectsAreUndoneInReverse, SysSpec

=============================================================================
