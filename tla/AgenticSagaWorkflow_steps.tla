--------------------- MODULE AgenticSagaWorkflow_steps ---------------------
(***************************************************************************)
(* What a step of the workflow may never do, and that every step is one    *)
(* the contract of a saga allows.                                          *)
(***************************************************************************)
EXTENDS AgenticSagaWorkflow_proofs, SequenceTheorems

(***************************************************************************)
(* The shapes a step can have, as far as the journal is concerned.         *)
(***************************************************************************)
Grown == journal' = journal \/ journal' = RecordForward(journal, step, tool)

ForwardShape ==
  \/ /\ pc' \in {"deciding", "forward", "reconciling", "task_failed"}
     /\ status' = status /\ Grown
  \/ GaveUp(journal') /\ Grown
  \/ pc' = "closed" /\ status' = "succeeded_verified" /\ journal' = journal

\* The undo of the obligation at i is settled; the unwind goes on or ends.
SettledShape(i) ==
  /\ journal[i].step = step
  /\ \A k \in DOMAIN journal : k > i => journal[k].state = "succeeded"
  /\ \A k \in DOMAIN journal : k < i => journal[k].state = "pending"
  /\ journal' = Mark(journal, journal[i].step, "succeeded")
  /\ UnwindGoesOn(journal', goal) \/ UnwindEnds(journal', goal)

DisputedShape(i) ==
  /\ journal[i].step = step /\ journal[i].state = "pending"
  /\ \A k \in DOMAIN journal : k > i => journal[k].state = "succeeded"
  /\ journal' = Mark(journal, journal[i].step, "unresolved")
  /\ pc' = "human" /\ status' = "human_required"

BackwardShape ==
  \/ pc' = "reconciling_compensation" /\ status' = status /\ journal' = journal
  \/ \E i \in DOMAIN journal :
       /\ journal[i].state = "pending"
       /\ SettledShape(i) \/ DisputedShape(i)

\* A client's step leaves the saga alone, halts it, or settles the dispute.
HumanShape ==
  \/ pc' = pc /\ status' = status /\ journal' = journal
  \/ pc' = "task_failed" /\ pc \in Awaits /\ status' = status /\ journal' = journal
  \/ /\ pc = "human"
     /\ \E i \in DOMAIN journal : journal[i].state = "unresolved" /\ SettledShape(i)

LEMMA TurnShape ==
  ASSUME IInv, pc \in ForwardPcs,
         journal' \in Seq(Entries(Tools)), AllPending(journal'), Grown,
         NEW n \in Nat, NextTurn(journal', n)
  PROVE  ForwardShape
<1>1. TypeOK /\ ~blocked
  BY RunningFacts DEF IInv
<1>2. TurnTaken \/ GaveUp(journal')
  BY <1>1, TakingATurn
<1> QED BY <1>2 DEF TurnTaken, ForwardShape

LEMMA GiveUpShape ==
  ASSUME IInv, pc \in ForwardPcs, journal' = journal, NEW n \in Nat,
         Stop(journal, n) \/ UnwindBeforeHuman(journal, n) \/ HandleForwardFailure(journal, n)
  PROVE  ForwardShape
<1>1. TypeOK /\ ~blocked /\ AllPending(journal) /\ journal \in Seq(Entries(Tools))
  BY RunningFacts DEF IInv, TypeOK
<1>2. GaveUp(journal)
  BY <1>1, GivingUp
<1> QED BY <1>2 DEF ForwardShape, Grown

\* The journal a confirmed result leaves behind.
LEMMA ConfirmedJournal ==
  ASSUME IInv, pc \in {"forward", "reconciling"}, RecordForwardEvidence(step, tool)
  PROVE  journal' \in Seq(Entries(Tools)) /\ AllPending(journal') /\ Grown
<1>1. /\ journal \in Seq(Entries(Tools)) /\ AllPending(journal)
      /\ tool \in Tools /\ step \in Nat
      /\ \A i \in DOMAIN journal : journal[i].step < step
  BY RunningFacts DEF ForwardPcs, IInv, TypeOK, PlaceInv, OperationIdsAreFresh
<1>2. CASE tool \notin Effects
  BY <1>1, <1>2 DEF RecordForwardEvidence, Grown
<1>3. CASE tool \in Effects
  <2>1. journal' = RecordForward(journal, step, tool)
    BY <1>3 DEF RecordForwardEvidence
  <2>2. /\ journal' \in Seq(Entries(Tools))
        /\ DOMAIN journal' = 1 .. Len(journal) + 1 /\ DOMAIN journal = 1 .. Len(journal)
        /\ \A i \in DOMAIN journal : journal'[i] = journal[i]
        /\ journal'[Len(journal) + 1] = [step |-> step, tool |-> tool, state |-> "pending"]
    BY <1>1, <2>1, Recording
  <2>3. AllPending(journal')
    <3> SUFFICES ASSUME NEW i \in DOMAIN journal' PROVE journal'[i].state = "pending"
      BY DEF AllPending
    <3>1. CASE i = Len(journal) + 1
      BY <2>2, <3>1
    <3>2. CASE i # Len(journal) + 1
      <4>1. Len(journal) \in Nat
        BY <1>1
      <4>2. i \in DOMAIN journal
        BY <2>2, <3>2, <4>1
      <4> QED BY <1>1, <2>2, <4>2 DEF AllPending
    <3> QED BY <3>1, <3>2
  <2> QED BY <2>1, <2>2, <2>3 DEF Grown
<1> QED BY <1>2, <1>3

LEMMA ForwardSteps ==
  ASSUME IInv, Forward
  PROVE  status = "running" /\ ForwardShape
<1>1. pc \in ForwardPcs /\ journal \in Seq(Entries(Tools)) /\ status = "running"
      /\ AllPending(journal)
  <2>1. pc \in ForwardPcs
    BY DEF Forward, ForwardPcs, Start, DecisionFails, ProposalRejected, ToolCalled,
           FinishProposed, ForwardSucceeds, ForwardFails, ForwardUnknown, ReconciledEffect,
           ReconciledNoEffect, StillUnknown, EmptyReceipt
  <2> QED BY <2>1, RunningFacts DEF IInv, TypeOK
<1>2. Start => ForwardShape
  BY <1>1, TurnShape DEF Start, book, Grown
<1>3. DecisionFails \/ ProposalRejected => ForwardShape
  BY <1>1, GiveUpShape DEF DecisionFails, ProposalRejected, book
<1>4. ToolCalled => ForwardShape
  BY DEF ToolCalled, book, Grown, ForwardShape
<1>5. FinishProposed => ForwardShape
  <2>1. FinishProposed /\ TerminalReady => ForwardShape
    BY DEF FinishProposed, Close, book, ForwardShape
  <2>2. FinishProposed /\ ~TerminalReady => ForwardShape
    BY <1>1, GiveUpShape DEF FinishProposed, book
  <2> QED BY <2>1, <2>2
<1>6. ForwardFails \/ ReconciledNoEffect => ForwardShape
  BY <1>1, GiveUpShape DEF ForwardFails, ReconciledNoEffect, book
<1>7. StillUnknown => ForwardShape
  <2> SUFFICES ASSUME StillUnknown PROVE ForwardShape
    OBVIOUS
  <2>1. PICK n \in {0, 1} : UnwindBeforeHuman(journal, n)
    BY DEF StillUnknown
  <2> QED BY <1>1, <2>1, GiveUpShape DEF StillUnknown, book
<1>8. ForwardUnknown => ForwardShape
  BY DEF ForwardUnknown, Await, book, Grown, ForwardShape
<1>9. ForwardSucceeds => ForwardShape
  BY <1>1, ConfirmedJournal, TurnShape DEF ForwardSucceeds
<1>10. ReconciledEffect => ForwardShape
  BY <1>1, ConfirmedJournal, TurnShape DEF ReconciledEffect
<1>11. EmptyReceipt => ForwardShape
  BY DEF EmptyReceipt, Fail, book, Grown, ForwardShape
<1> QED BY <1>1, <1>2, <1>3, <1>4, <1>5, <1>6, <1>7, <1>8, <1>9, <1>10, <1>11 DEF Forward

LEMMA UndoneShape ==
  ASSUME IInv, pc \in UndoPcs, NEW n \in Nat, Undone(n)
  PROVE  BackwardShape
<1>1. PICK i \in DOMAIN journal :
        /\ journal[i].step = step /\ journal[i].state = "pending"
        /\ \A k \in DOMAIN journal : k > i => journal[k].state = "succeeded"
        /\ \A k \in DOMAIN journal : k < i => journal[k].state = "pending"
  BY AwaitedUndo
<1>2. TypeOK /\ journal \in Seq(Entries(Tools)) /\ Increasing(journal)
  BY DEF IInv, TypeOK, JournalInv
<1>3. journal' = Mark(journal, journal[i].step, "succeeded") /\ blocked' = FALSE
      /\ Advance(journal', blocked', goal, n)
  BY <1>1 DEF Undone
<1>4. journal' \in Seq(Entries(Tools))
  BY <1>2, <1>3, Marking DEF EntryStates
<1>5. UnwindGoesOn(journal', goal) \/ UnwindEnds(journal', goal)
  BY <1>2, <1>3, <1>4, Advancing
<1> QED BY <1>1, <1>3, <1>5 DEF SettledShape, BackwardShape

LEMMA DisputeShape ==
  ASSUME IInv, pc \in UndoPcs, NEW n \in Nat, Disputed(n)
  PROVE  BackwardShape
<1>1. PICK i \in DOMAIN journal :
        /\ journal[i].step = step /\ journal[i].state = "pending"
        /\ \A k \in DOMAIN journal : k > i => journal[k].state = "succeeded"
  BY AwaitedUndo
<1>2. /\ journal' = Mark(journal, journal[i].step, "unresolved")
      /\ pc' = "human" /\ status' = "human_required"
  BY <1>1 DEF Disputed, WaitForHuman
<1> QED BY <1>1, <1>2 DEF DisputedShape, BackwardShape

LEMMA BackwardSteps ==
  ASSUME IInv, Backward
  PROVE  pc \in UndoPcs /\ status = "compensating" /\ BackwardShape
<1>1. pc \in UndoPcs /\ status = "compensating"
  BY DEF Backward, CompensationSucceeds, CompensationRefused, CompensationUnknown,
         ReconciledUndo, UndoUnproven, UndoPcs, IInv, PlaceInv
<1>2. CompensationSucceeds \/ ReconciledUndo => BackwardShape
  BY <1>1, UndoneShape DEF CompensationSucceeds, ReconciledUndo
<1>3. CompensationRefused => BackwardShape
  BY <1>1, DisputeShape DEF CompensationRefused
<1>4. UndoUnproven => BackwardShape
  <2> SUFFICES ASSUME UndoUnproven PROVE BackwardShape
    OBVIOUS
  <2>1. PICK n \in {1, 2} : Disputed(n)
    BY DEF UndoUnproven
  <2> QED BY <1>1, <2>1, DisputeShape
<1>5. CompensationUnknown => BackwardShape
  BY DEF CompensationUnknown, Await, book, BackwardShape
<1> QED BY <1>1, <1>2, <1>3, <1>4, <1>5 DEF Backward

LEMMA HumanSteps ==
  ASSUME IInv, NEW o \in Operators, Human(o)
  PROVE  HumanShape
<1>1. ReadState(o) \/ SubmitAccepted(o) \/ SubmitRejected(o) \/ VerificationFails(o)
        => HumanShape
  BY DEF ReadState, SubmitAccepted, SubmitRejected, VerificationFails, control, book, HumanShape
<1>2. Conflict(o) => HumanShape
  BY DEF Conflict, Fail, book, HumanShape
<1>3. Resolve(o) => HumanShape
  <2> SUFFICES ASSUME Resolve(o) PROVE HumanShape
    OBVIOUS
  <2>1. PICK i \in DOMAIN journal :
          /\ journal[i].step = step /\ journal[i].state = "unresolved"
          /\ \A k \in DOMAIN journal : k > i => journal[k].state = "succeeded"
          /\ \A k \in DOMAIN journal : k < i => journal[k].state = "pending"
    BY AwaitedDispute DEF Resolve
  <2>2. PICK k \in DOMAIN journal :
          /\ journal[k].step = desk[o].step /\ journal[k].state = "unresolved"
          /\ journal' = Mark(journal, journal[k].step, "succeeded")
    BY ResolveStep
  <2>3. k = i
    BY <2>1, <2>2, JournalIndices DEF IInv
  <2>4. TypeOK /\ journal \in Seq(Entries(Tools)) /\ Increasing(journal)
    BY DEF IInv, TypeOK, JournalInv
  <2>5. journal' \in Seq(Entries(Tools))
    BY <2>2, <2>4, Marking DEF EntryStates
  <2>6. UnwindGoesOn(journal', goal) \/ UnwindEnds(journal', goal)
    BY <2>4, <2>5, Advancing DEF Resolve
  <2> QED BY <2>1, <2>2, <2>3, <2>6 DEF Resolve, SettledShape, HumanShape
<1> QED BY <1>1, <1>2, <1>3 DEF Human

----------------------------------------------------------------------------
(***************************************************************************)
(* A resolution settles the dispute its operator looked at, and nothing    *)
(* was recorded in between.                                                *)
(***************************************************************************)
LEMMA ResolutionStep ==
  ASSUME IInv, NEW o \in Operators, Resolve(o)
  PROVE  /\ desk[o].seq = eventCount
         /\ \A i \in DOMAIN journal : journal'[i] # journal[i] => journal[i].step = desk[o].step
<1>1. PICK i \in DOMAIN journal :
        journal[i].step = desk[o].step /\ journal' = Mark(journal, journal[i].step, "succeeded")
  BY ResolveStep
<1>2. \A k \in DOMAIN journal : k # i => journal'[k] = journal[k]
  BY <1>1, Marking DEF EntryStates, IInv, TypeOK, JournalInv
<1> QED BY <1>1, <1>2, ResolveStep

THEOREM ResolutionsTimely == Spec => ResolutionsApplyToTheirPause
<1>1. IInv => \A o \in Operators :
                Resolve(o) =>
                  /\ desk[o].seq = eventCount
                  /\ \A i \in DOMAIN journal :
                       journal'[i] # journal[i] => journal[i].step = desk[o].step
  BY ResolutionStep
<1> QED BY <1>1, Invariance, PTL DEF ResolutionsApplyToTheirPause

(***************************************************************************)
(* No step drops, reorders or rewrites an entry, or reopens a settled one. *)
(***************************************************************************)
EntriesStay ==
  /\ DOMAIN journal \subseteq DOMAIN journal'
  /\ \A i \in DOMAIN journal :
       /\ journal'[i].step = journal[i].step /\ journal'[i].tool = journal[i].tool
       /\ journal[i].state = "succeeded" => journal'[i].state = "succeeded"
       /\ journal[i].state = "unresolved" => journal'[i].state # "pending"

OneByOne ==
  Len(journal') > Len(journal) => Len(journal') = Len(journal) + 1 /\ status = "running"

LEMMA SameJournal == ASSUME IInv, journal' = journal PROVE EntriesStay /\ OneByOne
<1>1. Len(journal) \in Nat
  BY DEF IInv, TypeOK
<1> QED BY <1>1 DEF EntriesStay, OneByOne

LEMMA RecordedJournal ==
  ASSUME IInv, Forward, Grown
  PROVE  EntriesStay /\ OneByOne
<1>1. journal \in Seq(Entries(Tools)) /\ status = "running"
  BY ForwardSteps DEF IInv, TypeOK
<1>2. CASE journal' = journal
  BY <1>2, SameJournal
<1>3. CASE journal' # journal
  <2>1. pc \in {"forward", "reconciling"} /\ tool \in Tools
    <3>1. pc \in {"forward", "reconciling"}
      BY <1>3 DEF Forward, Start, DecisionFails, ProposalRejected, ToolCalled, FinishProposed,
                  ForwardSucceeds, ForwardFails, ForwardUnknown, ReconciledEffect,
                  ReconciledNoEffect, StillUnknown, EmptyReceipt, book
    <3> QED BY <3>1 DEF IInv, PlaceInv
  <2>2. step \in Nat /\ \A i \in DOMAIN journal : journal[i].step < step
    BY <2>1 DEF IInv, TypeOK, OperationIdsAreFresh
  <2>3. /\ journal' \in Seq(Entries(Tools)) /\ Len(journal') = Len(journal) + 1
        /\ DOMAIN journal' = 1 .. Len(journal) + 1 /\ DOMAIN journal = 1 .. Len(journal)
        /\ \A i \in DOMAIN journal : journal'[i] = journal[i]
        /\ journal'[Len(journal) + 1] = [step |-> step, tool |-> tool, state |-> "pending"]
    <3>1. journal' = RecordForward(journal, step, tool)
      BY <1>3 DEF Grown
    <3> QED BY <1>1, <2>1, <2>2, <3>1, Recording
  <2>4. Len(journal) \in Nat
    BY <1>1
  <2>5. DOMAIN journal \subseteq DOMAIN journal'
    BY <2>3, <2>4
  <2>6. EntriesStay
    BY <2>3, <2>5 DEF EntriesStay
  <2> QED BY <1>1, <2>3, <2>6 DEF OneByOne
<1> QED BY <1>2, <1>3

LEMMA MarkedJournal ==
  ASSUME IInv, NEW i \in DOMAIN journal, NEW st \in EntryStates,
         journal[i].state # "succeeded", st # "pending",
         journal' = Mark(journal, journal[i].step, st)
  PROVE  EntriesStay /\ OneByOne
<1>1. /\ Len(journal') = Len(journal) /\ DOMAIN journal' = DOMAIN journal
      /\ \A k \in DOMAIN journal :
           journal'[k].step = journal[k].step /\ journal'[k].tool = journal[k].tool
      /\ journal'[i].state = st
      /\ \A k \in DOMAIN journal : k # i => journal'[k] = journal[k]
  BY Marking DEF IInv, TypeOK, JournalInv
<1>2. Len(journal) \in Nat
  BY DEF IInv, TypeOK
<1>3. OneByOne
  BY <1>1, <1>2 DEF OneByOne
<1>4. EntriesStay
  <2> SUFFICES ASSUME NEW k \in DOMAIN journal
               PROVE  /\ journal[k].state = "succeeded" => journal'[k].state = "succeeded"
                      /\ journal[k].state = "unresolved" => journal'[k].state # "pending"
    BY <1>1 DEF EntriesStay
  <2>1. CASE k = i
    BY <1>1, <2>1
  <2>2. CASE k # i
    BY <1>1, <2>2
  <2> QED BY <2>1, <2>2
<1> QED BY <1>3, <1>4

LEMMA JournalSteps ==
  ASSUME IInv, [Next]_vars
  PROVE  EntriesStay /\ OneByOne
<1>1. CASE Forward
  <2>1. Grown
    BY <1>1, ForwardSteps DEF ForwardShape, Grown
  <2> QED BY <1>1, <2>1, RecordedJournal
<1>2. CASE Backward
  <2>1. CASE journal' = journal
    BY <2>1, SameJournal
  <2>2. CASE journal' # journal
    <3>1. PICK i \in DOMAIN journal :
            journal[i].state = "pending" /\ (SettledShape(i) \/ DisputedShape(i))
      BY <1>2, <2>2, BackwardSteps DEF BackwardShape
    <3> QED BY <3>1, MarkedJournal DEF SettledShape, DisputedShape, EntryStates
  <2> QED BY <2>1, <2>2
<1>3. CASE \E o \in Operators : Human(o)
  <2>1. CASE journal' = journal
    BY <2>1, SameJournal
  <2>2. CASE journal' # journal
    <3>1. PICK i \in DOMAIN journal : journal[i].state = "unresolved" /\ SettledShape(i)
      BY <1>3, <2>2, HumanSteps DEF HumanShape
    <3> QED BY <3>1, MarkedJournal DEF SettledShape, EntryStates
  <2> QED BY <2>1, <2>2
<1>4. CASE CancelWhileWaiting \/ Rest \/ UNCHANGED vars
  BY <1>4, SameJournal DEF CancelWhileWaiting, Rest, vars, book
<1> QED BY <1>1, <1>2, <1>3, <1>4 DEF Next

(***************************************************************************)
(* The journal keeps its word: it only grows, by one entry at a time while *)
(* the saga runs, and what is settled stays settled.                       *)
(***************************************************************************)
THEOREM JournalTrue == Spec => JournalKeepsItsWord
<1>1. IInv /\ [Next]_vars => EntriesStay /\ OneByOne
  BY JournalSteps
<1> QED BY <1>1, Invariance, PTL DEF JournalKeepsItsWord, Spec, EntriesStay, OneByOne

(***************************************************************************)
(* Once the unwind has begun, no forward work is done and no turn given.   *)
(***************************************************************************)
LEMMA ForwardOver ==
  ASSUME IInv, [Next]_vars, status # "running"
  PROVE  /\ status' # "running"
         /\ pc' \notin {"deciding", "forward", "reconciling"}
         /\ agentCalls' = agentCalls /\ toolCalls' = toolCalls
<1>1. pc \notin ForwardPcs /\ ~Forward
  BY ForwardSteps DEF IInv, PlaceInv
<1>2. CASE Backward
  <2>1. goal \in Verdicts /\ status = "compensating"
    BY <1>2, BackwardSteps DEF IInv, PlaceInv
  <2>2. agentCalls' = agentCalls /\ toolCalls' = toolCalls
    BY <1>2 DEF Backward, CompensationSucceeds, CompensationRefused, CompensationUnknown,
                ReconciledUndo, UndoUnproven, Undone, Disputed, Await, WaitForHuman,
                Advance, Close
  <2> QED BY <1>2, <2>1, <2>2, BackwardSteps
          DEF BackwardShape, SettledShape, DisputedShape, UnwindGoesOn, UnwindEnds, Verdicts
<1>3. CASE \E o \in Operators : Human(o)
  <2>1. PICK o \in Operators : Human(o)
    BY <1>3
  <2>2. agentCalls' = agentCalls /\ toolCalls' = toolCalls
    BY <2>1 DEF Human, ReadState, SubmitAccepted, SubmitRejected, VerificationFails, Resolve,
                Conflict, Fail, Advance, Close, control
  <2>3. pc = "human" => goal \in Verdicts
    BY DEF IInv, PlaceInv, WaitPcs
  <2> QED BY <1>1, <2>1, <2>2, <2>3, HumanSteps
          DEF HumanShape, SettledShape, UnwindGoesOn, UnwindEnds, Verdicts, ForwardPcs
<1>4. CASE CancelWhileWaiting \/ Rest \/ UNCHANGED vars
  BY <1>1, <1>4 DEF CancelWhileWaiting, Rest, vars, control, ForwardPcs
<1> QED BY <1>1, <1>2, <1>3, <1>4 DEF Next

THEOREM NoForwardWorkAfterUnwind == Spec => ForwardWorkIsOver
<1>1. IInv /\ [Next]_vars =>
        (status # "running" =>
           /\ status' # "running"
           /\ pc' \notin {"deciding", "forward", "reconciling"}
           /\ agentCalls' = agentCalls /\ toolCalls' = toolCalls)
  BY ForwardOver
<1> QED BY <1>1, Invariance, PTL DEF ForwardWorkIsOver, Spec

----------------------------------------------------------------------------
(***************************************************************************)
(* Refinement.  The obligations of the contract are the states of the      *)
(* journal's entries.                                                      *)
(***************************************************************************)
States(j) == [i \in DOMAIN j |-> j[i].state]

LEMMA StatesOfRecorded ==
  ASSUME NEW j \in Seq(Entries(Tools)), NEW t \in Tools, NEW s \in Nat,
         \A i \in DOMAIN j : j[i].step < s
  PROVE  States(RecordForward(j, s, t)) = Append(States(j), "pending")
<1> DEFINE q == RecordForward(j, s, t)
<1>1. /\ Len(q) = Len(j) + 1
      /\ DOMAIN q = 1 .. Len(j) + 1 /\ DOMAIN j = 1 .. Len(j)
      /\ \A i \in DOMAIN j : q[i] = j[i]
      /\ q[Len(j) + 1] = [step |-> s, tool |-> t, state |-> "pending"]
  BY Recording
<1>2. Len(j) \in Nat
  OBVIOUS
<1>3. States(j) \in Seq(EntryStates) /\ Len(States(j)) = Len(j)
  <2>1. \A i \in DOMAIN j : j[i] \in Entries(Tools)
    OBVIOUS
  <2>2. \A i \in 1 .. Len(j) : j[i].state \in EntryStates
    BY <2>1, <1>1 DEF Entries
  <2> QED BY <1>1, <1>2, <2>2 DEF States
<1>4. /\ DOMAIN Append(States(j), "pending") = 1 .. Len(j) + 1
      /\ \A i \in 1 .. Len(j) : Append(States(j), "pending")[i] = j[i].state
      /\ Append(States(j), "pending")[Len(j) + 1] = "pending"
  BY <1>1, <1>2, <1>3 DEF States
<1>5. \A i \in 1 .. Len(j) + 1 : q[i].state = Append(States(j), "pending")[i]
  <2> SUFFICES ASSUME NEW i \in 1 .. Len(j) + 1
               PROVE  q[i].state = Append(States(j), "pending")[i]
    OBVIOUS
  <2>1. CASE i = Len(j) + 1
    BY <1>1, <1>4, <2>1
  <2>2. CASE i # Len(j) + 1
    <3>1. i \in 1 .. Len(j)
      BY <1>2, <2>2
    <3> QED BY <1>1, <1>4, <3>1
  <2> QED BY <2>1, <2>2
<1>6. Append(States(j), "pending") = [i \in 1 .. Len(j) + 1 |-> Append(States(j), "pending")[i]]
  <2>1. /\ Append(States(j), "pending") \in Seq(EntryStates)
        /\ Len(Append(States(j), "pending")) = Len(j) + 1
    BY <1>2, <1>3 DEF EntryStates
  <2>2. Append(States(j), "pending") \in [1 .. Len(j) + 1 -> EntryStates]
    BY <2>1, LenProperties
  <2> QED BY <2>2
<1>7. States(q) = [i \in 1 .. Len(j) + 1 |-> q[i].state]
  BY <1>1 DEF States
<1> HIDE DEF q
<1>8. States(q) = Append(States(j), "pending")
  BY <1>5, <1>6, <1>7
<1> QED BY <1>8 DEF q

LEMMA StatesOfMarked ==
  ASSUME NEW j \in Seq(Entries(Tools)), Increasing(j), NEW i \in DOMAIN j, NEW st \in EntryStates
  PROVE  States(Mark(j, j[i].step, st)) = [States(j) EXCEPT ![i] = st]
<1> DEFINE q == Mark(j, j[i].step, st)
<1>1. /\ DOMAIN q = DOMAIN j /\ q[i].state = st
      /\ \A k \in DOMAIN j : k # i => q[k] = j[k]
  BY Marking
<1> HIDE DEF q
<1>2. States(q) = [States(j) EXCEPT ![i] = st]
  BY <1>1 DEF States
<1> QED BY <1>2 DEF q

\* The obligations of the contract, and their primed form.
LEMMA JournalAsObligations ==
  /\ [i \in DOMAIN journal |-> journal[i].state] = States(journal)
  /\ ([i \in DOMAIN journal |-> journal[i].state])' = States(journal')
BY DEF States

LEMMA RecordedStates ==
  ASSUME IInv, Forward, journal' = RecordForward(journal, step, tool), journal' # journal
  PROVE  States(journal') = Append(States(journal), "pending") /\ journal' # << >>
<1>1. pc \in {"forward", "reconciling"}
  BY DEF Forward, Start, DecisionFails, ProposalRejected, ToolCalled, FinishProposed,
         ForwardSucceeds, ForwardFails, ForwardUnknown, ReconciledEffect,
         ReconciledNoEffect, StillUnknown, EmptyReceipt, book
<1>2. /\ journal \in Seq(Entries(Tools)) /\ tool \in Tools /\ step \in Nat
      /\ \A i \in DOMAIN journal : journal[i].step < step
  BY <1>1 DEF IInv, TypeOK, PlaceInv, OperationIdsAreFresh
<1>3. States(RecordForward(journal, step, tool)) = Append(States(journal), "pending")
  BY <1>2, StatesOfRecorded
<1>4. journal' # << >>
  <2>1. RecordForward(journal, step, tool) # << >>
    BY <1>2, Recording
  <2> QED BY <2>1
<1> QED BY <1>3, <1>4

LEMMA ContractForward ==
  ASSUME IInv, Forward
  PROVE  Contract!Next \/ UNCHANGED Contract!vars
<1>1. status = "running" /\ pc \notin Closed /\ Phase = "forward" /\ Verdict = "none"
  <2>1. status = "running" /\ pc \notin Closed
    BY ForwardSteps DEF IInv, PlaceInv, ForwardPcs, Closed
  <2> QED BY <2>1 DEF Phase, Verdict, Closed
<1>2. CASE /\ pc' \in {"deciding", "forward", "reconciling", "task_failed"}
           /\ status' = status /\ Grown
  <2>1. Phase' = "forward" /\ Verdict' = "none"
    BY <1>1, <1>2 DEF Phase, Verdict, Closed
  <2>2. CASE journal' = journal
    BY <1>1, <2>1, <2>2 DEF Contract!vars
  <2>3. CASE journal' # journal
    <3>1. States(journal') = Append(States(journal), "pending")
      BY <1>2, <2>3, RecordedStates DEF Grown
    <3>2. Contract!Incur
      BY <1>1, <2>1, <3>1, JournalAsObligations DEF Contract!Incur
    <3> QED BY <3>2 DEF Contract!Next
  <2> QED BY <2>2, <2>3
<1>3. CASE GaveUp(journal') /\ Grown /\ journal' # << >>
  <2>1. Phase' = "unwinding" /\ Verdict' = "none"
    BY <1>3 DEF GaveUp, UnwindGoesOn, Phase, Verdict, Closed
  <2>2. CASE journal' = journal
    <3>1. States(journal) # << >>
      <4>1. journal \in Seq(Entries(Tools)) /\ journal # << >>
        BY <1>3, <2>2 DEF IInv, TypeOK
      <4>2. 1 \in DOMAIN States(journal)
        BY <4>1 DEF States
      <4> QED BY <4>2
    <3>2. Contract!GiveUp
      BY <1>1, <2>1, <2>2, <3>1, JournalAsObligations DEF Contract!GiveUp
    <3> QED BY <3>2 DEF Contract!Next
  <2>3. CASE journal' # journal
    <3>1. States(journal') = Append(States(journal), "pending")
      BY <1>3, <2>3, RecordedStates DEF Grown
    <3>2. Contract!Incur
      BY <1>1, <2>1, <3>1, JournalAsObligations DEF Contract!Incur
    <3> QED BY <3>2 DEF Contract!Next
  <2> QED BY <2>2, <2>3
<1>4. CASE GaveUp(journal') /\ Grown /\ journal' = << >>
  <2>1. journal = << >> /\ journal' = journal
    BY <1>4, RecordedStates DEF Grown
  <2>2. pc' = "closed" /\ status' \in {"human_required", "aborted_clean"}
    BY <1>4 DEF GaveUp
  <2>3. Phase' = "closed" /\ Verdict' \in {"human_required", "aborted_clean"}
    BY <2>2 DEF Phase, Verdict, Closed
  <2>4. States(journal) = << >>
    BY <2>1 DEF States
  <2>5. Contract!ConcludeForward
    BY <1>1, <2>1, <2>3, <2>4, JournalAsObligations DEF Contract!ConcludeForward
  <2> QED BY <2>5 DEF Contract!Next
<1>5. CASE pc' = "closed" /\ status' = "succeeded_verified" /\ journal' = journal
  <2>1. Phase' = "closed" /\ Verdict' = "succeeded_verified"
    BY <1>5 DEF Phase, Verdict, Closed
  <2>2. Contract!ConcludeForward
    BY <1>1, <1>5, <2>1, JournalAsObligations DEF Contract!ConcludeForward
  <2> QED BY <2>2 DEF Contract!Next
<1> QED BY <1>2, <1>3, <1>4, <1>5, ForwardSteps DEF ForwardShape

\* A settled obligation ends the unwind only when it was the last one.
LEMMA ContractSettled ==
  ASSUME IInv, NEW i \in DOMAIN journal, SettledShape(i), goal \in Verdicts,
         Verdict = "none"
  PROVE  /\ States(journal') = [States(journal) EXCEPT ![i] = "succeeded"]
         /\ Contract!GoOnOrConclude
<1>1. /\ journal \in Seq(Entries(Tools)) /\ Increasing(journal)
      /\ journal' = Mark(journal, journal[i].step, "succeeded")
  BY DEF IInv, TypeOK, JournalInv, SettledShape
<1>2. States(journal') = [States(journal) EXCEPT ![i] = "succeeded"]
  BY <1>1, StatesOfMarked DEF EntryStates
<1>3. CASE UnwindGoesOn(journal', goal)
  <2>1. Phase' = "unwinding" /\ Verdict' = "none"
    BY <1>3 DEF UnwindGoesOn, Phase, Verdict, Closed
  <2> QED BY <1>2, <2>1 DEF Contract!GoOnOrConclude
<1>4. CASE UnwindEnds(journal', goal)
  <2>1. Phase' = "closed" /\ Verdict' = goal
    <3>1. pc' = "closed" /\ status' = goal
      BY <1>4 DEF UnwindEnds
    <3>2. Phase' = "closed"
      BY <3>1 DEF Phase, Closed, Verdicts
    <3>3. Verdict' = status'
      BY <3>1 DEF Verdict
    <3> QED BY <3>1, <3>2, <3>3
  <2>2. /\ DOMAIN journal' = DOMAIN journal /\ journal'[i].state = "succeeded"
        /\ \A k \in DOMAIN journal : k # i => journal'[k] = journal[k]
    BY <1>1, Marking DEF EntryStates
  <2>3. \A k \in DOMAIN journal : journal'[k].state = "succeeded"
    <3> SUFFICES ASSUME NEW k \in DOMAIN journal, k # i PROVE journal[k].state = "succeeded"
      BY <2>2
    <3>1. journal[k].state # "pending"
      BY <1>4, <2>2 DEF UnwindEnds, PendingAt
    <3>2. k \in Nat /\ i \in Nat
      BY JournalIndices DEF IInv
    <3> QED BY <3>1, <3>2 DEF SettledShape
  <2>4. \A k \in DOMAIN States(journal') : States(journal')[k] = "succeeded"
    BY <2>2, <2>3 DEF States
  <2>5. Contract!Settled(States(journal'))
    BY <2>4 DEF Contract!Settled
  <2> QED BY <1>2, <2>1, <2>5, JournalAsObligations DEF Contract!GoOnOrConclude, Verdicts
<1> QED BY <1>2, <1>3, <1>4 DEF SettledShape

\* The entry an undo settles or disputes is the newest one owed.
LEMMA NewestOwed ==
  ASSUME IInv, NEW i \in DOMAIN journal, journal[i].state = "pending",
         \A k \in DOMAIN journal : k > i => journal[k].state = "succeeded"
  PROVE  i \in DOMAIN States(journal) /\ Contract!Newest(i)
<1>1. DOMAIN States(journal) = DOMAIN journal
      /\ \A k \in DOMAIN journal : States(journal)[k] = journal[k].state
  BY DEF States
<1>2. Contract!Owed = {k \in DOMAIN journal : journal[k].state = "pending"}
  BY <1>1, JournalAsObligations DEF Contract!Owed
<1>3. \A k \in DOMAIN journal : journal[k].state = "pending" => k <= i
  BY JournalIndices DEF IInv
<1> QED BY <1>1, <1>2, <1>3 DEF Contract!Newest

LEMMA ContractBackward ==
  ASSUME IInv, Backward
  PROVE  Contract!Next \/ UNCHANGED Contract!vars
<1>1. /\ status = "compensating" /\ pc \in UndoPcs /\ goal \in Verdicts
      /\ Phase = "unwinding" /\ Verdict = "none"
  <2>1. status = "compensating" /\ pc \in UndoPcs /\ goal \in Verdicts
    BY BackwardSteps DEF IInv, PlaceInv
  <2> QED BY <2>1 DEF Phase, Verdict, Closed, UndoPcs
<1>2. CASE pc' = "reconciling_compensation" /\ status' = status /\ journal' = journal
  <2>1. Phase' = "unwinding" /\ Verdict' = "none"
    BY <1>1, <1>2 DEF Phase, Verdict, Closed
  <2> QED BY <1>1, <1>2, <2>1 DEF Contract!vars
<1>3. ASSUME NEW i \in DOMAIN journal, journal[i].state = "pending", SettledShape(i)
      PROVE  Contract!Settle
  <2>1. i \in DOMAIN States(journal) /\ Contract!Newest(i)
    BY <1>3, NewestOwed DEF SettledShape
  <2>2. /\ States(journal') = [States(journal) EXCEPT ![i] = "succeeded"]
        /\ Contract!GoOnOrConclude
    BY <1>1, <1>3, ContractSettled
  <2> QED BY <1>1, <2>1, <2>2, JournalAsObligations DEF Contract!Settle
<1>4. ASSUME NEW i \in DOMAIN journal, DisputedShape(i)
      PROVE  Contract!Dispute
  <2>1. i \in DOMAIN States(journal) /\ Contract!Newest(i)
    BY <1>4, NewestOwed DEF DisputedShape
  <2>2. States(journal') = [States(journal) EXCEPT ![i] = "unresolved"]
    BY <1>4, StatesOfMarked DEF DisputedShape, EntryStates, IInv, TypeOK, JournalInv
  <2>3. Phase' = "paused" /\ Verdict' = "none"
    BY <1>4 DEF DisputedShape, Phase, Verdict, Closed
  <2> QED BY <1>1, <2>1, <2>2, <2>3, JournalAsObligations DEF Contract!Dispute
<1> QED BY <1>2, <1>3, <1>4, BackwardSteps DEF BackwardShape, Contract!Next

LEMMA ContractHuman ==
  ASSUME IInv, NEW o \in Operators, Human(o)
  PROVE  Contract!Next \/ UNCHANGED Contract!vars
<1>1. CASE pc' = pc /\ status' = status /\ journal' = journal
  BY <1>1 DEF Phase, Verdict, Contract!vars
<1>2. CASE pc' = "task_failed" /\ pc \in Awaits /\ status' = status /\ journal' = journal
  <2>1. pc \notin Closed /\ pc' \notin Closed
    BY <1>2 DEF Awaits, Closed
  <2>2. Phase' = Phase
    BY <1>2, <2>1 DEF Phase
  <2>3. Verdict' = Verdict
    BY <1>2, <2>1 DEF Verdict, Closed
  <2> QED BY <1>2, <2>2, <2>3 DEF Contract!vars
<1>3. ASSUME pc = "human", NEW i \in DOMAIN journal,
             journal[i].state = "unresolved", SettledShape(i)
      PROVE  Contract!Adjudicate
  <2>1. Phase = "paused" /\ Verdict = "none" /\ goal \in Verdicts
    <3>1. status = "human_required" /\ goal \in Verdicts
      BY <1>3 DEF IInv, PlaceInv, WaitPcs
    <3> QED BY <1>3, <3>1 DEF Phase, Verdict, Closed
  <2>2. /\ States(journal') = [States(journal) EXCEPT ![i] = "succeeded"]
        /\ Contract!GoOnOrConclude
    BY <1>3, <2>1, ContractSettled
  <2>3. i \in DOMAIN States(journal) /\ States(journal)[i] = "unresolved"
    BY <1>3 DEF States
  <2> QED BY <2>1, <2>2, <2>3, JournalAsObligations DEF Contract!Adjudicate
<1> QED BY <1>1, <1>2, <1>3, HumanSteps DEF HumanShape, Contract!Next

LEMMA ContractStep == IInv /\ [Next]_vars => [Contract!Next]_(Contract!vars)
<1> SUFFICES ASSUME IInv, [Next]_vars PROVE Contract!Next \/ UNCHANGED Contract!vars
  OBVIOUS
<1>1. CASE Forward
  BY <1>1, ContractForward
<1>2. CASE Backward
  BY <1>2, ContractBackward
<1>3. CASE \E o \in Operators : Human(o)
  BY <1>3, ContractHuman
<1>4. CASE CancelWhileWaiting
  <2>1. pc = "human" /\ pc' = "cancelled" /\ status = "human_required"
        /\ status' = status /\ journal' = journal
    BY <1>4 DEF CancelWhileWaiting, IInv, PlaceInv, WaitPcs, book
  <2>2. Phase = "paused" /\ Phase' = "closed" /\ Verdict' = "cancelled"
    BY <2>1 DEF Phase, Verdict, Closed
  <2>3. Contract!Abandon
    BY <2>1, <2>2 DEF Contract!Abandon
  <2> QED BY <2>3 DEF Contract!Next
<1>5. CASE Rest \/ UNCHANGED vars
  BY <1>5 DEF Rest, vars, control, book, Phase, Verdict, Contract!vars
<1> QED BY <1>1, <1>2, <1>3, <1>4, <1>5 DEF Next

LEMMA ContractInit == Init => Contract!Init
<1> SUFFICES ASSUME Init PROVE Contract!Init
  OBVIOUS
<1>1. Phase = "forward" /\ Verdict = "none"
  BY DEF Init, Phase, Verdict, Closed
<1>2. States(journal) = << >>
  BY DEF Init, States
<1> QED BY <1>1, <1>2, JournalAsObligations DEF Contract!Init

(***************************************************************************)
(* The workflow implements the contract of a saga.                         *)
(***************************************************************************)
THEOREM Refinement == Spec => ImplementsContract
BY ContractInit, ContractStep, Invariance, PTL DEF Spec, ImplementsContract, Contract!Spec

============================================================================
