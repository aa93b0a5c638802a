------------------- MODULE AgenticSagaWorkflow_proofs -------------------
(***************************************************************************)
(* The safety properties of the workflow, for every set of tools and       *)
(* operators and all limits.                                               *)
(***************************************************************************)
EXTENDS AgenticSagaWorkflow, WellFoundedInduction, TLAPS

(***************************************************************************)
(* First, what the operations of the journal return and preserve, for      *)
(* journals of any length and any set of tools.                            *)
(***************************************************************************)

\* A journal whose operations were recorded one after the other.
Increasing(j) == \A i, k \in DOMAIN j : i < k => j[i].step < j[k].step

LEMMA LargestIndex ==
  ASSUME NEW n \in Nat, NEW S, S \subseteq 1 .. n, S # {}
  PROVE  \E x \in S : \A y \in S : y <= x
<1> DEFINE T == {n - x : x \in S}
<1>1. T \subseteq Nat /\ T # {}
  <2>1. \A x \in S : n - x \in Nat
    OBVIOUS
  <2>2. PICK x \in S : TRUE
    OBVIOUS
  <2>3. n - x \in T
    BY <2>2
  <2> QED BY <2>1, <2>3
<1>2. \E t \in T : \A u \in T : ~(<<u, t>> \in OpToRel(<, Nat))
  BY <1>1, NatLessThanWellFounded, WFMin
<1>3. PICK t \in T : \A u \in T : ~(u < t)
  BY <1>1, <1>2 DEF OpToRel
<1>4. PICK x \in S : t = n - x
  OBVIOUS
<1>5. \A y \in S : ~(n - y < n - x)
  BY <1>3, <1>4
<1>6. \A y \in S : y <= x
  BY <1>5
<1> QED BY <1>6

(***************************************************************************)
(* next_request finds an entry whenever one is pending.                    *)
(***************************************************************************)
LEMMA FrontierExists ==
  ASSUME NEW Tool, NEW j \in Seq(Entries(Tool)), PendingAt(j) # {}
  PROVE  \E i \in DOMAIN j : IsFrontier(j, i)
<1>1. Len(j) \in Nat /\ PendingAt(j) \subseteq 1 .. Len(j)
  BY DEF PendingAt
<1>2. PICK i \in PendingAt(j) : \A k \in PendingAt(j) : k <= i
  BY <1>1, LargestIndex
<1> QED BY <1>2 DEF IsFrontier, PendingAt

(***************************************************************************)
(* A recorded effect is the newest entry; the others stay.                 *)
(***************************************************************************)
LEMMA Recording ==
  ASSUME NEW Tool, NEW j \in Seq(Entries(Tool)), NEW t \in Tool, NEW s \in Nat,
         \A i \in DOMAIN j : j[i].step < s,
         NEW q, q = RecordForward(j, s, t)
  PROVE  /\ q \in Seq(Entries(Tool))
         /\ q # << >>
         /\ Len(q) = Len(j) + 1
         /\ DOMAIN q = 1 .. Len(j) + 1 /\ DOMAIN j = 1 .. Len(j)
         /\ \A i \in DOMAIN j : q[i] = j[i]
         /\ q[Len(j) + 1] = [step |-> s, tool |-> t, state |-> "pending"]
<1> DEFINE e == [step |-> s, tool |-> t, state |-> "pending"]
<1>1. e \in Entries(Tool)
  BY DEF Entries, EntryStates
<1>2. \A i \in DOMAIN j : j[i].step \in Nat
  <2>1. \A i \in DOMAIN j : j[i] \in Entries(Tool)
    OBVIOUS
  <2> QED BY <2>1 DEF Entries
<1>3. q = Append(j, e)
  BY <1>2 DEF RecordForward, Contains
<1> QED BY <1>1, <1>3

(***************************************************************************)
(* Marking an operation changes the state of its entry and nothing else.   *)
(***************************************************************************)
LEMMA Marking ==
  ASSUME NEW Tool, NEW j \in Seq(Entries(Tool)), Increasing(j),
         NEW i \in DOMAIN j, NEW st \in EntryStates,
         NEW q, q = Mark(j, j[i].step, st)
  PROVE  /\ q \in Seq(Entries(Tool))
         /\ Len(q) = Len(j) /\ DOMAIN q = DOMAIN j /\ DOMAIN j = 1 .. Len(j)
         /\ \A k \in DOMAIN j : q[k].step = j[k].step /\ q[k].tool = j[k].tool
         /\ q[i].state = st
         /\ \A k \in DOMAIN j : k # i => q[k] = j[k]
<1>1. \A k \in DOMAIN j : j[k] \in Entries(Tool)
  OBVIOUS
<1>2. \A k \in DOMAIN j : k # i => j[k].step # j[i].step
  <2> SUFFICES ASSUME NEW k \in DOMAIN j, k # i PROVE j[k].step # j[i].step
    OBVIOUS
  <2>1. k < i \/ i < k
    OBVIOUS
  <2>2. j[k].step \in Nat /\ j[i].step \in Nat
    BY <1>1 DEF Entries
  <2> QED BY <2>1, <2>2 DEF Increasing
<1>3. DOMAIN q = 1 .. Len(j)
  BY DEF Mark
<1>4. \A k \in DOMAIN j : q[k] = IF k = i THEN [j[k] EXCEPT !.state = st] ELSE j[k]
  BY <1>2 DEF Mark
<1>5. \A k \in DOMAIN j : q[k] \in Entries(Tool)
  BY <1>1, <1>4 DEF Entries
<1>6. q \in Seq(Entries(Tool)) /\ Len(q) = Len(j)
  BY <1>3, <1>5 DEF Mark
<1>7. ASSUME NEW k \in DOMAIN j
      PROVE  LET r == [j[k] EXCEPT !.state = st]
             IN r.step = j[k].step /\ r.tool = j[k].tool /\ r.state = st
  <2>1. j[k] \in Entries(Tool)
    BY <1>1
  <2> QED BY <2>1 DEF Entries
<1>8. \A k \in DOMAIN j : q[k].step = j[k].step /\ q[k].tool = j[k].tool
  BY <1>4, <1>7
<1>9. q[i].state = st
  BY <1>4, <1>7
<1>10. \A k \in DOMAIN j : k # i => q[k] = j[k]
  BY <1>4
<1> QED BY <1>3, <1>6, <1>8, <1>9, <1>10

----------------------------------------------------------------------------

ForwardPcs == {"created", "deciding", "forward", "reconciling"}
UndoPcs == {"compensating", "reconciling_compensation"}
WaitPcs == {"human", "cancelled"}

AllPending(j) == \A i \in DOMAIN j : j[i].state = "pending"

(***************************************************************************)
(* The inductive invariant.  Entries are recorded in the order of their    *)
(* operations, and settled or disputed from the newest down.               *)
(***************************************************************************)
JournalInv ==
  /\ Increasing(journal)
  /\ \A i \in DOMAIN journal : 0 < journal[i].step /\ journal[i].step < eventCount
  /\ \A i, k \in DOMAIN journal :
       i < k /\ journal[i].state # "pending" => journal[k].state = "succeeded"
  /\ compensations = journal

\* Where the coroutine waits, what it says about itself, and what it awaits.
PlaceInv ==
  /\ pc = "created" => journal = << >> /\ eventCount = 0
  /\ pc # "created" => eventCount > 0
  /\ pc \in ForwardPcs => status = "running" /\ goal = "none" /\ ~blocked
  /\ pc \in {"forward", "reconciling"} =>
       /\ 0 < step /\ step < eventCount
       /\ tool \in Tools
  /\ pc = "reconciling" => tool \in Effects
  /\ pc \in UndoPcs => status = "compensating" /\ goal \in Verdicts
  /\ pc \in WaitPcs => status = "human_required" /\ goal \in Verdicts
  /\ pc = "closed" => status \notin {"running", "compensating"}
  /\ status = "running" => pc \in ForwardPcs \cup {"task_failed"} /\ AllPending(journal)

EvidenceInv ==
  /\ freshProofs \subseteq Proofs
  /\ \A t \in successfulTools \cap Effects : \E i \in DOMAIN journal : journal[i].tool = t
  /\ \A p \in freshProofs : \A i \in DOMAIN journal : journal[i].step < proofStep[p]

\* What a verification in progress was accepted for is settled or still in dispute.
DeskInv ==
  \A o \in Operators :
    desk[o].phase = "verifying" =>
      \E i \in DOMAIN journal :
        /\ journal[i].step = desk[o].step
        /\ \/ journal[i].state = "succeeded"
           \/ journal[i].state = "unresolved" /\ desk[o].seq = eventCount

IInv ==
  /\ TypeOK /\ JournalInv /\ PlaceInv /\ EvidenceInv /\ DeskInv
  /\ OperationIdsAreFresh /\ UnwindAwaitsItsFrontier /\ VerdictIsTrue

----------------------------------------------------------------------------
(***************************************************************************)
(* Where the continuations lead.                                           *)
(***************************************************************************)
UnwindGoesOn(j, v) ==
  /\ pc' = "compensating" /\ status' = "compensating" /\ goal' = v
  /\ \E i \in DOMAIN j : IsFrontier(j, i) /\ step' = j[i].step /\ tool' = j[i].tool

UnwindEnds(j, v) ==
  /\ pc' = "closed" /\ status' = v /\ goal' = "none" /\ step' = 0 /\ tool' = NoTool
  /\ PendingAt(j) = {}

GaveUp(j) ==
  \/ /\ j = << >>
     /\ pc' = "closed" /\ status' \in {"human_required", "aborted_clean"}
     /\ goal' = "none" /\ step' = 0 /\ tool' = NoTool
  \/ /\ j # << >>
     /\ \E v \in Verdicts : UnwindGoesOn(j, v)

TurnTaken ==
  /\ pc' = "deciding" /\ status' = status /\ goal' = goal /\ step' = 0 /\ tool' = NoTool

LEMMA Advancing ==
  ASSUME NEW j \in Seq(Entries(Tools)), NEW v, NEW n \in Nat, TypeOK,
         NEW b, b = FALSE, Advance(j, b, v, n)
  PROVE  /\ agentCalls' = agentCalls
         /\ eventCount' \in Nat /\ eventCount' >= eventCount + n
         /\ UnwindGoesOn(j, v) \/ UnwindEnds(j, v)
<1>1. CASE \E i \in DOMAIN j : NextRequest(j, b, i)
  BY <1>1 DEF Advance, NextRequest, UnwindGoesOn, TypeOK
<1>2. CASE \A i \in DOMAIN j : ~NextRequest(j, b, i)
  <2>1. PendingAt(j) = {}
    BY <1>2, FrontierExists DEF NextRequest
  <2> QED BY <1>2, <2>1 DEF Advance, Close, UnwindEnds, TypeOK
<1> QED BY <1>1, <1>2

LEMMA Unwinding ==
  ASSUME NEW j \in Seq(Entries(Tools)), NEW v \in Verdicts, NEW n \in Nat, TypeOK, ~blocked,
         j # << >>, AllPending(j), Unwind(j, v, n)
  PROVE  /\ agentCalls' = agentCalls
         /\ eventCount' \in Nat /\ eventCount' >= eventCount + n
         /\ GaveUp(j)
<1>1. 1 \in DOMAIN j
  OBVIOUS
<1>2. PendingAt(j) # {}
  BY <1>1 DEF PendingAt, AllPending
<1>3. blocked = FALSE
  BY DEF TypeOK
<1>4. /\ agentCalls' = agentCalls
      /\ eventCount' \in Nat /\ eventCount' >= eventCount + (n + 1)
      /\ UnwindGoesOn(j, v) \/ UnwindEnds(j, v)
  <2>1. n + 1 \in Nat
    OBVIOUS
  <2> QED BY <1>3, <2>1, Advancing DEF Unwind
<1>5. eventCount \in Nat
  BY DEF TypeOK
<1> QED BY <1>2, <1>4, <1>5 DEF UnwindEnds, GaveUp

LEMMA GivingUp ==
  ASSUME NEW j \in Seq(Entries(Tools)), NEW n \in Nat, TypeOK, ~blocked, AllPending(j),
         Stop(j, n) \/ UnwindBeforeHuman(j, n) \/ HandleForwardFailure(j, n)
  PROVE  /\ agentCalls' = agentCalls
         /\ eventCount' \in Nat /\ eventCount' >= eventCount + n
         /\ GaveUp(j)
<1>0. eventCount \in Nat /\ n + 1 \in Nat
  BY DEF TypeOK
<1>1. CASE j = << >>
  BY <1>0, <1>1 DEF Stop, UnwindBeforeHuman, HandleForwardFailure, Close, GaveUp
<1>2. CASE j # << >> /\ Stop(j, n)
  <2>1. Unwind(j, "compensated_verified", n + 1)
    BY <1>2 DEF Stop
  <2> QED BY <1>0, <1>2, <2>1, Unwinding DEF Verdicts
<1>3. CASE j # << >> /\ UnwindBeforeHuman(j, n)
  <2>1. Unwind(j, "human_required", n)
    BY <1>3 DEF UnwindBeforeHuman
  <2> QED BY <1>3, <2>1, Unwinding DEF Verdicts
<1>4. CASE j # << >> /\ HandleForwardFailure(j, n)
  <2>1. Unwind(j, "compensated_verified", n)
    BY <1>4 DEF HandleForwardFailure
  <2> QED BY <1>4, <2>1, Unwinding DEF Verdicts
<1> QED BY <1>1, <1>2, <1>3, <1>4

LEMMA TakingATurn ==
  ASSUME NEW j \in Seq(Entries(Tools)), NEW n \in Nat, TypeOK, ~blocked, AllPending(j),
         NextTurn(j, n)
  PROVE  /\ agentCalls' \in 0 .. MaxAgentTurns
         /\ eventCount' \in Nat /\ eventCount' >= eventCount + n
         /\ TurnTaken \/ GaveUp(j)
<1>1. CASE agentCalls < MaxAgentTurns
  BY <1>1, LimitsAssumption DEF NextTurn, TypeOK, TurnTaken
<1>2. CASE ~(agentCalls < MaxAgentTurns)
  BY <1>2, GivingUp DEF NextTurn, TypeOK
<1> QED BY <1>1, <1>2

----------------------------------------------------------------------------
(***************************************************************************)
(* Forward turns.                                                          *)
(***************************************************************************)
LEMMA RunningFacts ==
  ASSUME IInv, pc \in ForwardPcs
  PROVE  /\ status = "running" /\ ~blocked /\ AllPending(journal)
         /\ UnresolvedAt(journal) = {}
         /\ \A o \in Operators : desk[o].phase # "verifying"
<1>1. status = "running" /\ ~blocked /\ AllPending(journal)
  BY DEF IInv, PlaceInv
<1>2. UnresolvedAt(journal) = {}
  BY <1>1 DEF AllPending, UnresolvedAt
<1>3. \A o \in Operators : desk[o].phase # "verifying"
  BY <1>1 DEF AllPending, IInv, DeskInv
<1> QED BY <1>1, <1>2, <1>3

LEMMA ForwardStep ==
  ASSUME IInv, pc \in ForwardPcs,
         journal' \in Seq(Entries(Tools)), Increasing(journal'), AllPending(journal'),
         \A i \in DOMAIN journal' : 0 < journal'[i].step /\ journal'[i].step < eventCount',
         compensations' = journal', blocked' = blocked, desk' = desk,
         toolCalls' \in [Tools -> Nat],
         successfulTools' \subseteq Tools, proofStep' \in [Tools -> Nat], EvidenceInv',
         agentCalls' \in 0 .. MaxAgentTurns,
         eventCount' \in Nat, eventCount' > 0,
         TurnTaken \/ GaveUp(journal')
  PROVE  IInv'
<1>1. /\ status = "running" /\ blocked = FALSE /\ goal = "none"
      /\ \A o \in Operators : desk[o].phase # "verifying"
  BY RunningFacts DEF IInv, PlaceInv, TypeOK
<1>2. DeskInv'
  BY <1>1 DEF DeskInv
<1>3. JournalInv' /\ UnresolvedAt(journal') = {}
  BY DEF JournalInv, AllPending, UnresolvedAt
<1>4. freshProofs' \subseteq Tools
  BY ToolsAssumption DEF EvidenceInv
<1>5. CASE TurnTaken
  <2>1. TypeOK'
    BY <1>1, <1>4, <1>5 DEF IInv, TypeOK, TurnTaken, Statuses, Verdicts, Awaits, Halted, Closed
  <2>2. PlaceInv'
    BY <1>1, <1>5 DEF TurnTaken, PlaceInv, ForwardPcs, UndoPcs, WaitPcs
  <2>3. OperationIdsAreFresh' /\ UnwindAwaitsItsFrontier' /\ VerdictIsTrue'
    BY <1>3, <1>5 DEF TurnTaken, OperationIdsAreFresh, UnwindAwaitsItsFrontier, VerdictIsTrue
  <2> QED BY <1>2, <1>3, <2>1, <2>2, <2>3 DEF IInv
<1>6. CASE journal' = << >> /\ GaveUp(journal')
  <2>1. pc' = "closed" /\ status' \in {"human_required", "aborted_clean"}
        /\ goal' = "none" /\ step' = 0 /\ tool' = NoTool
    BY <1>6 DEF GaveUp
  <2>2. TypeOK'
    BY <1>1, <1>4, <2>1 DEF IInv, TypeOK, Statuses, Verdicts, Awaits, Halted, Closed
  <2>3. PlaceInv'
    BY <2>1 DEF PlaceInv, ForwardPcs, UndoPcs, WaitPcs
  <2>4. OperationIdsAreFresh' /\ UnwindAwaitsItsFrontier'
    BY <1>3, <2>1 DEF OperationIdsAreFresh, UnwindAwaitsItsFrontier
  <2>5. VerdictIsTrue'
    BY <1>6, <2>1 DEF VerdictIsTrue, Verdicts
  <2> QED BY <1>2, <1>3, <2>2, <2>3, <2>4, <2>5 DEF IInv
<1>7. CASE journal' # << >> /\ GaveUp(journal')
  <2>1. PICK v \in Verdicts : UnwindGoesOn(journal', v)
    BY <1>7 DEF GaveUp
  <2>2. PICK i \in DOMAIN journal' :
          IsFrontier(journal', i) /\ step' = journal'[i].step /\ tool' = journal'[i].tool
    BY <2>1 DEF UnwindGoesOn
  <2>3. pc' = "compensating" /\ status' = "compensating" /\ goal' = v
    BY <2>1 DEF UnwindGoesOn
  <2>4. journal'[i].step \in Nat /\ journal'[i].tool \in Tools
    <3>1. journal'[i] \in Entries(Tools)
      OBVIOUS
    <3> QED BY <3>1 DEF Entries
  <2>5. TypeOK'
    BY <1>1, <1>4, <2>2, <2>3, <2>4 DEF IInv, TypeOK, Statuses, Verdicts, Awaits, Halted, Closed
  <2>6. PlaceInv'
    BY <2>3 DEF PlaceInv, ForwardPcs, UndoPcs, WaitPcs
  <2>7. OperationIdsAreFresh' /\ VerdictIsTrue'
    BY <2>3 DEF OperationIdsAreFresh, VerdictIsTrue
  <2>8. UnwindAwaitsItsFrontier'
    BY <1>1, <1>3, <2>2, <2>3 DEF UnwindAwaitsItsFrontier, IsExpected, NextRequest
  <2> QED BY <1>2, <1>3, <2>5, <2>6, <2>7, <2>8 DEF IInv
<1> QED BY <1>5, <1>6, <1>7

\* A turn ends, or the goal is given up, without new evidence.
LEMMA PlainForwardStep ==
  ASSUME IInv, pc \in ForwardPcs, UNCHANGED <<evidence, book, desk>>,
         toolCalls' \in [Tools -> Nat],
         agentCalls' \in 0 .. MaxAgentTurns,
         eventCount' \in Nat, eventCount' > 0, eventCount' >= eventCount,
         TurnTaken \/ GaveUp(journal)
  PROVE  IInv'
<1>1. /\ journal' \in Seq(Entries(Tools)) /\ Increasing(journal') /\ compensations' = journal'
      /\ journal' = journal /\ blocked' = blocked /\ desk' = desk
      /\ successfulTools' \subseteq Tools /\ proofStep' \in [Tools -> Nat] /\ EvidenceInv'
  BY DEF IInv, TypeOK, JournalInv, EvidenceInv, evidence, book
<1>2. AllPending(journal')
  BY <1>1, RunningFacts
<1>3. \A i \in DOMAIN journal' : 0 < journal'[i].step /\ journal'[i].step < eventCount'
  <2> SUFFICES ASSUME NEW i \in DOMAIN journal
               PROVE  0 < journal[i].step /\ journal[i].step < eventCount'
    BY <1>1
  <2>1. journal[i] \in Entries(Tools)
    BY DEF IInv, TypeOK
  <2> QED BY <2>1 DEF IInv, JournalInv, TypeOK, Entries
<1> QED BY <1>1, <1>2, <1>3, ForwardStep

LEMMA StartStep == IInv /\ Start => IInv'
<1> SUFFICES ASSUME IInv, Start PROVE IInv'
  OBVIOUS
<1>1. /\ pc \in ForwardPcs /\ journal \in Seq(Entries(Tools)) /\ TypeOK
      /\ NextTurn(journal, 1)
      /\ UNCHANGED <<evidence, book, desk>> /\ toolCalls' \in [Tools -> Nat]
  BY DEF Start, ForwardPcs, IInv, TypeOK
<1>2. /\ agentCalls' \in 0 .. MaxAgentTurns
      /\ eventCount' \in Nat /\ eventCount' >= eventCount + 1
      /\ TurnTaken \/ GaveUp(journal)
  BY <1>1, RunningFacts, TakingATurn
<1>3. eventCount' > 0 /\ eventCount' >= eventCount
  BY <1>1, <1>2 DEF TypeOK
<1> QED BY <1>1, <1>2, <1>3, PlainForwardStep

\* The steps that only give the goal up, after n events.
LEMMA GivingUpStep ==
  ASSUME IInv, pc \in ForwardPcs, pc # "created", NEW n \in Nat,
         Stop(journal, n) \/ UnwindBeforeHuman(journal, n) \/ HandleForwardFailure(journal, n),
         UNCHANGED <<toolCalls, evidence, book, desk>>
  PROVE  IInv'
<1>1. journal \in Seq(Entries(Tools)) /\ TypeOK /\ toolCalls' \in [Tools -> Nat]
  BY DEF IInv, TypeOK
<1>2. /\ agentCalls' = agentCalls
      /\ eventCount' \in Nat /\ eventCount' >= eventCount + n
      /\ GaveUp(journal)
  BY <1>1, RunningFacts, GivingUp
<1>3. eventCount' > 0 /\ eventCount' >= eventCount /\ agentCalls' \in 0 .. MaxAgentTurns
  BY <1>1, <1>2 DEF TypeOK, IInv, PlaceInv
<1> QED BY <1>1, <1>2, <1>3, PlainForwardStep

LEMMA GiveUpSteps ==
  IInv /\ (DecisionFails \/ ProposalRejected \/ ForwardFails \/ ReconciledNoEffect \/ StillUnknown)
    => IInv'
<1>1. IInv /\ DecisionFails => IInv'
  BY GivingUpStep DEF DecisionFails, ForwardPcs
<1>2. IInv /\ ProposalRejected => IInv'
  BY GivingUpStep DEF ProposalRejected, ForwardPcs
<1>3. IInv /\ ForwardFails => IInv'
  BY GivingUpStep DEF ForwardFails, ForwardPcs
<1>4. IInv /\ ReconciledNoEffect => IInv'
  BY GivingUpStep DEF ReconciledNoEffect, ForwardPcs
<1>5. IInv /\ StillUnknown => IInv'
  <2> SUFFICES ASSUME IInv, StillUnknown PROVE IInv'
    OBVIOUS
  <2>1. PICK n \in {0, 1} : UnwindBeforeHuman(journal, n)
    BY DEF StillUnknown
  <2>2. n \in Nat /\ pc \in ForwardPcs /\ pc # "created"
    BY DEF StillUnknown, ForwardPcs
  <2> QED BY <2>1, <2>2, GivingUpStep DEF StillUnknown
<1> QED BY <1>1, <1>2, <1>3, <1>4, <1>5

\* The turn goes on to another await of the forward phase.
LEMMA ToolCalledStep == IInv /\ ToolCalled => IInv'
<1> SUFFICES ASSUME IInv, ToolCalled PROVE IInv'
  OBVIOUS
<1>1. PICK t \in Tools :
        /\ toolCalls' = [toolCalls EXCEPT ![t] = @ + 1]
        /\ pc' = "forward" /\ step' = eventCount /\ tool' = t
  BY DEF ToolCalled, IsCurrent
<1>2. /\ pc \in ForwardPcs /\ pc # "created" /\ eventCount' = eventCount + 1
      /\ UNCHANGED <<status, goal, agentCalls, evidence, book, desk>>
  BY DEF ToolCalled, ForwardPcs
<1>3. eventCount \in Nat /\ eventCount > 0
  BY <1>2 DEF IInv, TypeOK, PlaceInv
<1>4. /\ status = "running" /\ AllPending(journal) /\ UnresolvedAt(journal) = {}
      /\ \A o \in Operators : desk[o].phase # "verifying"
  BY <1>2, RunningFacts
<1>5. \A k \in DOMAIN journal : 0 < journal[k].step /\ journal[k].step < eventCount
  BY DEF IInv, JournalInv
<1>6. journal' = journal /\ blocked' = blocked /\ compensations' = compensations
      /\ successfulTools' = successfulTools /\ freshProofs' = freshProofs /\ proofStep' = proofStep
  BY <1>2 DEF book, evidence
<1>7. TypeOK'
  BY <1>1, <1>2, <1>3, <1>6 DEF IInv, TypeOK, Awaits
<1>8. JournalInv'
  <2>1. \A k \in DOMAIN journal : journal[k].step \in Nat
    <3>1. \A k \in DOMAIN journal : journal[k] \in Entries(Tools)
      BY DEF IInv, TypeOK
    <3> QED BY <3>1 DEF Entries
  <2> QED BY <1>2, <1>3, <1>6, <2>1 DEF IInv, JournalInv, Increasing
<1>9. PlaceInv'
  BY <1>1, <1>2, <1>3, <1>4, <1>6 DEF IInv, PlaceInv, ForwardPcs, UndoPcs, WaitPcs, AllPending
<1>10. EvidenceInv'
  BY <1>6 DEF IInv, EvidenceInv
<1>11. DeskInv'
  BY <1>2, <1>4 DEF DeskInv
<1>12. OperationIdsAreFresh' /\ UnwindAwaitsItsFrontier' /\ VerdictIsTrue'
  BY <1>1, <1>4, <1>5, <1>6 DEF OperationIdsAreFresh, UnwindAwaitsItsFrontier, VerdictIsTrue
<1> QED BY <1>7, <1>8, <1>9, <1>10, <1>11, <1>12 DEF IInv

LEMMA ForwardUnknownStep == IInv /\ ForwardUnknown => IInv'
<1> SUFFICES ASSUME IInv, ForwardUnknown PROVE IInv'
  OBVIOUS
<1>1. /\ pc = "forward" /\ tool \in Effects /\ pc' = "reconciling"
      /\ eventCount' = eventCount + 1
      /\ UNCHANGED <<status, goal, step, tool, agentCalls, toolCalls, evidence, book, desk>>
  BY DEF ForwardUnknown, Await
<1>2. eventCount \in Nat /\ eventCount > 0 /\ step \in Nat /\ 0 < step /\ step < eventCount
  BY <1>1 DEF IInv, TypeOK, PlaceInv
<1>3. /\ status = "running" /\ AllPending(journal) /\ UnresolvedAt(journal) = {}
      /\ \A o \in Operators : desk[o].phase # "verifying"
  BY <1>1, RunningFacts DEF ForwardPcs
<1>4. journal' = journal /\ blocked' = blocked /\ compensations' = compensations
      /\ successfulTools' = successfulTools /\ freshProofs' = freshProofs /\ proofStep' = proofStep
  BY <1>1 DEF book, evidence
<1>5. TypeOK'
  BY <1>1, <1>2, <1>4 DEF IInv, TypeOK, Awaits
<1>6. JournalInv'
  <2>1. \A k \in DOMAIN journal : journal[k].step \in Nat
    <3>1. \A k \in DOMAIN journal : journal[k] \in Entries(Tools)
      BY DEF IInv, TypeOK
    <3> QED BY <3>1 DEF Entries
  <2> QED BY <1>1, <1>2, <1>4, <2>1 DEF IInv, JournalInv, Increasing
<1>7. PlaceInv'
  BY <1>1, <1>2, <1>3, <1>4 DEF IInv, PlaceInv, ForwardPcs, UndoPcs, WaitPcs, AllPending
<1>8. EvidenceInv'
  BY <1>4 DEF IInv, EvidenceInv
<1>9. DeskInv'
  BY <1>1, <1>3 DEF DeskInv
<1>10. OperationIdsAreFresh' /\ UnwindAwaitsItsFrontier' /\ VerdictIsTrue'
  BY <1>1, <1>3, <1>4 DEF IInv, OperationIdsAreFresh, UnwindAwaitsItsFrontier, VerdictIsTrue
<1> QED BY <1>5, <1>6, <1>7, <1>8, <1>9, <1>10 DEF IInv

\* A finish is accepted on fresh evidence only, so its verdict is true.
LEMMA FinishStep == IInv /\ FinishProposed => IInv'
<1> SUFFICES ASSUME IInv, FinishProposed PROVE IInv'
  OBVIOUS
<1>1. pc \in ForwardPcs /\ pc # "created" /\ UNCHANGED <<toolCalls, evidence, book, desk>>
  BY DEF FinishProposed, ForwardPcs
<1>2. CASE ~TerminalReady
  <2>1. Stop(journal, 1)
    BY <1>2 DEF FinishProposed
  <2> QED BY <1>1, <2>1, GivingUpStep
<1>3. CASE TerminalReady
  <2>1. /\ pc' = "closed" /\ status' = "succeeded_verified" /\ eventCount' = eventCount + 2
        /\ goal' = "none" /\ step' = 0 /\ tool' = NoTool /\ agentCalls' = agentCalls
    BY <1>3 DEF FinishProposed, Close
  <2>2. eventCount \in Nat /\ eventCount > 0
    BY <1>1 DEF IInv, TypeOK, PlaceInv
  <2>3. /\ AllPending(journal) /\ UnresolvedAt(journal) = {} /\ blocked = FALSE
        /\ \A o \in Operators : desk[o].phase # "verifying"
    BY <1>1, RunningFacts DEF IInv, TypeOK
  <2>4. journal' = journal /\ blocked' = blocked /\ compensations' = compensations
        /\ successfulTools' = successfulTools /\ freshProofs' = freshProofs /\ proofStep' = proofStep
    BY <1>1 DEF book, evidence
  <2>5. TypeOK'
    BY <1>1, <2>1, <2>2, <2>4 DEF IInv, TypeOK, Statuses, Halted, Closed
  <2>6. JournalInv'
    <3>1. \A k \in DOMAIN journal : journal[k].step \in Nat
      <4>1. \A k \in DOMAIN journal : journal[k] \in Entries(Tools)
        BY DEF IInv, TypeOK
      <4> QED BY <4>1 DEF Entries
    <3> QED BY <2>1, <2>2, <2>4, <3>1 DEF IInv, JournalInv, Increasing
  <2>7. PlaceInv'
    BY <2>1, <2>2 DEF PlaceInv, ForwardPcs, UndoPcs, WaitPcs
  <2>8. EvidenceInv'
    BY <2>4 DEF IInv, EvidenceInv
  <2>9. DeskInv'
    BY <1>1, <2>3 DEF DeskInv
  <2>10. OperationIdsAreFresh' /\ UnwindAwaitsItsFrontier'
    BY <2>1, <2>3, <2>4 DEF OperationIdsAreFresh, UnwindAwaitsItsFrontier
  <2>11. \A t \in Required \cap Effects : \E i \in DOMAIN journal : journal[i].tool = t
    BY <1>3 DEF IInv, EvidenceInv, TerminalReady
  <2>12. \A q \in Proofs : \A i \in DOMAIN journal : journal[i].step < proofStep[q]
    BY <1>3 DEF IInv, EvidenceInv, TerminalReady
  <2>13. PendingAt(journal) = DOMAIN journal
    BY <2>3 DEF AllPending, PendingAt
  <2>14. VerdictIsTrue'
    BY <2>1, <2>4, <2>11, <2>12, <2>13 DEF VerdictIsTrue, Verdicts
  <2> QED BY <2>5, <2>6, <2>7, <2>8, <2>9, <2>10, <2>14 DEF IInv
<1> QED BY <1>2, <1>3

\* A confirmed result, at once or after its reconciliation.
LEMMA ConfirmedStep ==
  ASSUME IInv, pc \in {"forward", "reconciling"},
         RecordForwardEvidence(step, tool), SyncCompensations, NextTurn(journal', 1),
         UNCHANGED <<toolCalls, blocked, desk>>
  PROVE  IInv'
<1>1. /\ pc \in ForwardPcs /\ TypeOK /\ tool \in Tools
      /\ step \in Nat /\ 0 < step /\ step < eventCount /\ eventCount \in Nat
      /\ \A i \in DOMAIN journal : journal[i].step < step
      /\ journal \in Seq(Entries(Tools))
  BY DEF ForwardPcs, IInv, TypeOK, PlaceInv, OperationIdsAreFresh
<1>2. ~blocked /\ AllPending(journal)
  BY <1>1, RunningFacts
<1>3. CASE tool \notin Effects
  <2>1. journal' = journal
    BY <1>3 DEF RecordForwardEvidence
  <2>2. /\ agentCalls' \in 0 .. MaxAgentTurns
        /\ eventCount' \in Nat /\ eventCount' >= eventCount + 1
        /\ TurnTaken \/ GaveUp(journal')
    BY <1>1, <1>2, <2>1, TakingATurn
  <2>3. \A i \in DOMAIN journal : 0 < journal[i].step /\ journal[i].step < eventCount'
    <3> SUFFICES ASSUME NEW i \in DOMAIN journal
                 PROVE  0 < journal[i].step /\ journal[i].step < eventCount'
      OBVIOUS
    <3>1. journal[i] \in Entries(Tools)
      BY <1>1
    <3> QED BY <1>1, <2>2, <3>1 DEF IInv, JournalInv, Entries
  <2>4. EvidenceInv'
    <3>1. /\ successfulTools' = successfulTools \cup {tool}
          /\ freshProofs' = freshProofs \cup ({tool} \cap Proofs)
          /\ proofStep' = IF tool \in Proofs THEN [proofStep EXCEPT ![tool] = step] ELSE proofStep
      BY <1>3 DEF RecordForwardEvidence
    <3>2. freshProofs' \subseteq Proofs
      BY <3>1 DEF IInv, EvidenceInv
    <3>3. \A t \in successfulTools' \cap Effects : \E i \in DOMAIN journal' : journal'[i].tool = t
      BY <1>3, <2>1, <3>1 DEF IInv, EvidenceInv
    <3>4. \A q \in freshProofs' : \A i \in DOMAIN journal' : journal'[i].step < proofStep'[q]
      BY <1>1, <2>1, <3>1 DEF IInv, EvidenceInv, TypeOK
    <3> QED BY <3>2, <3>3, <3>4 DEF EvidenceInv
  <2>5. successfulTools' \subseteq Tools /\ proofStep' \in [Tools -> Nat]
    BY <1>1 DEF RecordForwardEvidence, TypeOK
  <2>6. Increasing(journal') /\ toolCalls' \in [Tools -> Nat] /\ eventCount' > 0
    BY <1>1, <2>1, <2>2 DEF IInv, JournalInv, TypeOK
  <2> QED BY <1>1, <1>2, <2>1, <2>2, <2>3, <2>4, <2>5, <2>6, ForwardStep DEF SyncCompensations
<1>4. CASE tool \in Effects
  <2> DEFINE n == Len(journal) + 1
  <2>1. /\ journal' \in Seq(Entries(Tools)) /\ journal' # << >>
        /\ DOMAIN journal' = 1 .. n /\ DOMAIN journal = 1 .. Len(journal)
        /\ \A i \in DOMAIN journal : journal'[i] = journal[i]
        /\ journal'[n] = [step |-> step, tool |-> tool, state |-> "pending"]
    <3>1. journal' = RecordForward(journal, step, tool)
      BY <1>4 DEF RecordForwardEvidence
    <3> QED BY <1>1, <3>1, Recording
  <2>2. Len(journal) \in Nat
    BY <1>1
  <2>3. journal'[n].step = step /\ journal'[n].tool = tool /\ journal'[n].state = "pending"
    BY <2>1
  <2>4. AllPending(journal')
    BY <1>2, <2>1, <2>2, <2>3 DEF AllPending
  <2>5. Increasing(journal')
    <3> SUFFICES ASSUME NEW i \in 1 .. n, NEW k \in 1 .. n, i < k
                 PROVE  journal'[i].step < journal'[k].step
      BY <2>1 DEF Increasing
    <3>1. i \in DOMAIN journal
      BY <2>1, <2>2
    <3>2. CASE k = n
      BY <1>1, <2>1, <2>3, <3>1, <3>2
    <3>3. CASE k # n
      BY <2>1, <2>2, <3>1, <3>3 DEF IInv, JournalInv, Increasing
    <3> QED BY <3>2, <3>3
  <2>6. /\ agentCalls' \in 0 .. MaxAgentTurns
        /\ eventCount' \in Nat /\ eventCount' >= eventCount + 1
        /\ TurnTaken \/ GaveUp(journal')
    BY <1>1, <1>2, <2>1, <2>4, TakingATurn
  <2>7. \A i \in DOMAIN journal' : 0 < journal'[i].step /\ journal'[i].step < eventCount'
    <3> SUFFICES ASSUME NEW i \in 1 .. n
                 PROVE  0 < journal'[i].step /\ journal'[i].step < eventCount'
      BY <2>1
    <3>1. CASE i = n
      BY <1>1, <2>3, <2>6, <3>1
    <3>2. CASE i # n
      <4>1. i \in DOMAIN journal /\ journal[i] \in Entries(Tools)
        BY <1>1, <2>1, <2>2, <3>2
      <4> QED BY <1>1, <2>1, <2>6, <4>1 DEF IInv, JournalInv, Entries
    <3> QED BY <3>1, <3>2
  <2>8. EvidenceInv'
    <3>1. successfulTools' = successfulTools \cup {tool} /\ freshProofs' = {}
      BY <1>4 DEF RecordForwardEvidence
    <3>2. \A t \in successfulTools' \cap Effects : \E i \in DOMAIN journal' : journal'[i].tool = t
      <4> SUFFICES ASSUME NEW t \in successfulTools' \cap Effects
                   PROVE  \E i \in DOMAIN journal' : journal'[i].tool = t
        OBVIOUS
      <4>1. CASE t = tool
        BY <2>1, <2>2, <2>3, <4>1
      <4>2. CASE t # tool
        <5>1. PICK i \in DOMAIN journal : journal[i].tool = t
          BY <3>1, <4>2 DEF IInv, EvidenceInv
        <5> QED BY <2>1, <2>2, <5>1
      <4> QED BY <4>1, <4>2
    <3> QED BY <3>1, <3>2 DEF EvidenceInv
  <2>9. successfulTools' \subseteq Tools /\ proofStep' \in [Tools -> Nat]
    BY <1>1 DEF RecordForwardEvidence, TypeOK
  <2>10. toolCalls' \in [Tools -> Nat] /\ eventCount' > 0
    BY <1>1, <2>6 DEF TypeOK
  <2> HIDE DEF n
  <2> QED BY <1>1, <2>1, <2>4, <2>5, <2>6, <2>7, <2>8, <2>9, <2>10, ForwardStep DEF SyncCompensations
<1> QED BY <1>3, <1>4

\* A Workflow Task failure changes nothing but the ability to go on.
LEMMA FailStep ==
  ASSUME IInv, pc # "cancelled", pc # "closed", pc # "created", Fail, UNCHANGED desk
  PROVE  IInv'
<1>1. /\ pc' = "task_failed"
      /\ UNCHANGED <<status, eventCount, goal, step, tool, agentCalls, toolCalls, desk>>
      /\ UNCHANGED <<successfulTools, freshProofs, proofStep, journal, blocked, compensations>>
  BY DEF Fail, evidence, book
<1>2. TypeOK' /\ JournalInv' /\ EvidenceInv' /\ DeskInv'
  BY <1>1 DEF IInv, TypeOK, JournalInv, EvidenceInv, DeskInv, Halted
<1>3. PlaceInv'
  BY <1>1 DEF IInv, PlaceInv, ForwardPcs, UndoPcs, WaitPcs, AllPending
<1>4. OperationIdsAreFresh' /\ UnwindAwaitsItsFrontier' /\ VerdictIsTrue'
  BY <1>1 DEF OperationIdsAreFresh, UnwindAwaitsItsFrontier, VerdictIsTrue
<1> QED BY <1>2, <1>3, <1>4 DEF IInv

LEMMA ForwardInv == IInv /\ Forward => IInv'
<1>1. IInv /\ ForwardSucceeds => IInv'
  BY ConfirmedStep DEF ForwardSucceeds
<1>2. IInv /\ ReconciledEffect => IInv'
  BY ConfirmedStep DEF ReconciledEffect
<1>3. IInv /\ EmptyReceipt => IInv'
  BY FailStep DEF EmptyReceipt
<1> QED BY <1>1, <1>2, <1>3, StartStep, GiveUpSteps, ToolCalledStep, ForwardUnknownStep, FinishStep
        DEF Forward

----------------------------------------------------------------------------
(***************************************************************************)
(* The unwind and its human resolutions.                                   *)
(***************************************************************************)
LEMMA EntryStatesCovered ==
  ASSUME TypeOK, NEW k \in DOMAIN journal
  PROVE  /\ journal[k].step \in Nat /\ journal[k].tool \in Tools
         /\ journal[k].state \in {"pending", "succeeded", "unresolved"}
<1>1. journal[k] \in Entries(Tools)
  BY DEF TypeOK
<1> QED BY <1>1 DEF Entries, EntryStates

LEMMA JournalIndices == TypeOK => DOMAIN journal \subseteq Nat
<1> SUFFICES ASSUME TypeOK PROVE DOMAIN journal \subseteq Nat
  OBVIOUS
<1>1. journal \in Seq(Entries(Tools))
  BY DEF TypeOK
<1>2. Len(journal) \in Nat /\ DOMAIN journal = 1 .. Len(journal)
  BY <1>1
<1> QED BY <1>2

\* The obligation an undo in flight is about.
LEMMA AwaitedUndo ==
  ASSUME IInv, pc \in UndoPcs
  PROVE  \E i \in DOMAIN journal :
           /\ journal[i].step = step /\ journal[i].state = "pending"
           /\ \A k \in DOMAIN journal : k > i => journal[k].state = "succeeded"
           /\ \A k \in DOMAIN journal : k < i => journal[k].state = "pending"
<1>1. PICK i \in DOMAIN journal : IsFrontier(journal, i) /\ journal[i].step = step
  BY DEF IInv, UnwindAwaitsItsFrontier, IsExpected, NextRequest, UndoPcs
<1>2. UnresolvedAt(journal) = {}
  BY DEF IInv, UnwindAwaitsItsFrontier, UndoPcs
<1>3. journal[i].state = "pending" /\ \A k \in DOMAIN journal : journal[k].state # "unresolved"
  BY <1>1, <1>2 DEF IsFrontier, PendingAt, UnresolvedAt
<1>4. \A k \in DOMAIN journal : k > i => journal[k].state # "pending"
  BY <1>1, JournalIndices DEF IsFrontier, PendingAt, IInv
<1>5. \A k \in DOMAIN journal : k > i => journal[k].state = "succeeded"
  BY <1>3, <1>4, EntryStatesCovered DEF IInv
<1>6. \A k \in DOMAIN journal : k < i => journal[k].state = "pending"
  BY <1>3 DEF IInv, JournalInv
<1> QED BY <1>1, <1>3, <1>5, <1>6

\* The obligation in dispute.
LEMMA AwaitedDispute ==
  ASSUME IInv, pc = "human"
  PROVE  \E i \in DOMAIN journal :
           /\ journal[i].step = step /\ journal[i].state = "unresolved"
           /\ \A k \in DOMAIN journal : k > i => journal[k].state = "succeeded"
           /\ \A k \in DOMAIN journal : k < i => journal[k].state = "pending"
<1>1. PICK i \in DOMAIN journal :
        /\ UnresolvedAt(journal) = {i} /\ journal[i].step = step
        /\ \A k \in PendingAt(journal) : k < i
  BY DEF IInv, UnwindAwaitsItsFrontier
<1>2. journal[i].state = "unresolved"
      /\ \A k \in DOMAIN journal : k # i => journal[k].state # "unresolved"
  BY <1>1 DEF UnresolvedAt
<1>3. \A k \in DOMAIN journal : k > i => journal[k].state = "succeeded"
  <2> SUFFICES ASSUME NEW k \in DOMAIN journal, k > i PROVE journal[k].state = "succeeded"
    OBVIOUS
  <2>1. k \in Nat /\ i \in Nat
    BY JournalIndices DEF IInv
  <2>2. journal[k].state # "pending" /\ journal[k].state # "unresolved"
    BY <1>1, <1>2, <2>1 DEF PendingAt
  <2> QED BY <2>2, EntryStatesCovered DEF IInv
<1>4. \A k \in DOMAIN journal : k < i => journal[k].state = "pending"
  BY <1>2 DEF IInv, JournalInv
<1> QED BY <1>1, <1>2, <1>3, <1>4

\* The newest open obligation is settled and the unwind goes on or ends.
LEMMA SettledStep ==
  ASSUME IInv, pc \in UndoPcs \cup {"human"}, NEW i \in DOMAIN journal, NEW n \in Nat,
         \A k \in DOMAIN journal : k > i => journal[k].state = "succeeded",
         \A k \in DOMAIN journal : k < i => journal[k].state = "pending",
         journal' = Mark(journal, journal[i].step, "succeeded"),
         blocked' = FALSE, SyncCompensations, Advance(journal', blocked', goal, n),
         UNCHANGED <<toolCalls, evidence>>,
         desk' \in [Operators -> Desks],
         \A o \in Operators : desk'[o].phase = "verifying" => desk'[o] = desk[o]
  PROVE  IInv'
<1>1. /\ TypeOK /\ journal \in Seq(Entries(Tools)) /\ Increasing(journal)
      /\ goal \in Verdicts /\ eventCount \in Nat /\ eventCount > 0
  BY DEF IInv, TypeOK, JournalInv, PlaceInv, UndoPcs, WaitPcs
<1>2. /\ journal' \in Seq(Entries(Tools))
      /\ Len(journal') = Len(journal) /\ DOMAIN journal' = DOMAIN journal
      /\ DOMAIN journal = 1 .. Len(journal)
      /\ \A k \in DOMAIN journal :
           journal'[k].step = journal[k].step /\ journal'[k].tool = journal[k].tool
      /\ journal'[i].state = "succeeded"
      /\ \A k \in DOMAIN journal : k # i => journal'[k] = journal[k]
  BY <1>1, Marking DEF EntryStates
<1>3. /\ \A k \in DOMAIN journal : k >= i => journal'[k].state = "succeeded"
      /\ \A k \in DOMAIN journal : k < i => journal'[k].state = "pending"
  BY <1>2
<1>4. /\ agentCalls' = agentCalls
      /\ eventCount' \in Nat /\ eventCount' >= eventCount + n
      /\ UnwindGoesOn(journal', goal) \/ UnwindEnds(journal', goal)
  BY <1>1, <1>2, Advancing
<1>5. UnresolvedAt(journal') = {}
  BY <1>2, <1>3 DEF UnresolvedAt
<1>6. JournalInv'
  <2>1. \A k \in DOMAIN journal : 0 < journal[k].step /\ journal[k].step < eventCount'
    BY <1>1, <1>4, EntryStatesCovered DEF IInv, JournalInv
  <2>2. Increasing(journal')
    BY <1>1, <1>2 DEF Increasing
  <2>3. \A a, b \in DOMAIN journal :
          a < b /\ journal'[a].state # "pending" => journal'[b].state = "succeeded"
    <3> SUFFICES ASSUME NEW a \in DOMAIN journal, NEW b \in DOMAIN journal,
                        a < b, journal'[a].state # "pending"
                 PROVE  journal'[b].state = "succeeded"
      OBVIOUS
    <3>1. a \in Nat /\ b \in Nat /\ i \in Nat
      BY <1>1, JournalIndices
    <3>2. a >= i
      BY <1>3, <3>1
    <3> QED BY <1>3, <3>1, <3>2
  <2>4. compensations' = journal'
    BY DEF SyncCompensations
  <2> QED BY <1>2, <2>1, <2>2, <2>3, <2>4 DEF JournalInv
<1>7. /\ successfulTools' = successfulTools /\ freshProofs' = freshProofs /\ proofStep' = proofStep
      /\ toolCalls' = toolCalls
  BY DEF evidence
<1>8. EvidenceInv'
  BY <1>2, <1>7 DEF IInv, EvidenceInv
<1>9. DeskInv'
  <2> SUFFICES ASSUME NEW o \in Operators, desk'[o].phase = "verifying"
               PROVE  \E k \in DOMAIN journal :
                        journal'[k].step = desk'[o].step /\ journal'[k].state = "succeeded"
    BY <1>2 DEF DeskInv
  <2>1. desk'[o] = desk[o]
    OBVIOUS
  <2>2. PICK k \in DOMAIN journal :
          /\ journal[k].step = desk[o].step
          /\ journal[k].state = "succeeded" \/ journal[k].state = "unresolved"
    BY <2>1 DEF IInv, DeskInv
  <2>3. k >= i
    BY <1>2, <2>2
  <2> QED BY <1>2, <1>3, <2>1, <2>2, <2>3
<1>10. CASE UnwindGoesOn(journal', goal)
  <2>1. /\ pc' = "compensating" /\ status' = "compensating" /\ goal' = goal
        /\ \E k \in DOMAIN journal' :
             IsFrontier(journal', k) /\ step' = journal'[k].step /\ tool' = journal'[k].tool
    BY <1>10 DEF UnwindGoesOn
  <2>2. step' \in Nat /\ tool' \in Tools
    BY <1>2, <2>1, EntryStatesCovered DEF IInv
  <2>3. TypeOK'
    BY <1>1, <1>2, <1>4, <1>7, <2>1, <2>2
       DEF TypeOK, Statuses, Awaits, SyncCompensations
  <2>4. PlaceInv'
    BY <1>1, <1>4, <2>1 DEF PlaceInv, ForwardPcs, UndoPcs, WaitPcs
  <2>5. UnwindAwaitsItsFrontier'
    BY <1>5, <2>1 DEF UnwindAwaitsItsFrontier, IsExpected, NextRequest
  <2>6. OperationIdsAreFresh' /\ VerdictIsTrue'
    BY <2>1 DEF OperationIdsAreFresh, VerdictIsTrue
  <2> QED BY <1>6, <1>8, <1>9, <2>3, <2>4, <2>5, <2>6 DEF IInv
<1>11. CASE UnwindEnds(journal', goal)
  <2>1. /\ pc' = "closed" /\ status' = goal /\ goal' = "none" /\ step' = 0 /\ tool' = NoTool
        /\ PendingAt(journal') = {}
    BY <1>11 DEF UnwindEnds
  <2>2. TypeOK'
    BY <1>1, <1>2, <1>4, <1>7, <2>1 DEF TypeOK, Statuses, Halted, Closed, SyncCompensations
  <2>3. PlaceInv'
    BY <1>1, <1>4, <2>1 DEF PlaceInv, ForwardPcs, UndoPcs, WaitPcs, Verdicts
  <2>4. \A k \in DOMAIN journal' : journal'[k].state = "succeeded"
    BY <1>2, <1>3, <2>1 DEF PendingAt
  <2>5. VerdictIsTrue'
    BY <1>1, <2>1, <2>4 DEF VerdictIsTrue, Verdicts
  <2>6. OperationIdsAreFresh' /\ UnwindAwaitsItsFrontier'
    BY <1>5, <2>1 DEF OperationIdsAreFresh, UnwindAwaitsItsFrontier
  <2> QED BY <1>6, <1>8, <1>9, <2>2, <2>3, <2>5, <2>6 DEF IInv
<1> QED BY <1>4, <1>10, <1>11

LEMMA UndoneStep ==
  ASSUME IInv, pc \in UndoPcs, NEW n \in Nat, Undone(n)
  PROVE  IInv'
<1>1. PICK i \in DOMAIN journal :
        /\ journal[i].step = step
        /\ \A k \in DOMAIN journal : k > i => journal[k].state = "succeeded"
        /\ \A k \in DOMAIN journal : k < i => journal[k].state = "pending"
  BY AwaitedUndo
<1>2. desk' = desk /\ desk' \in [Operators -> Desks]
  BY DEF Undone, IInv, TypeOK
<1> QED BY <1>1, <1>2, SettledStep DEF Undone

LEMMA DisputedStep ==
  ASSUME IInv, pc \in UndoPcs, NEW n \in Nat, Disputed(n)
  PROVE  IInv'
<1>1. PICK i \in DOMAIN journal :
        /\ journal[i].step = step /\ journal[i].state = "pending"
        /\ \A k \in DOMAIN journal : k > i => journal[k].state = "succeeded"
        /\ \A k \in DOMAIN journal : k < i => journal[k].state = "pending"
  BY AwaitedUndo
<1>2. /\ TypeOK /\ journal \in Seq(Entries(Tools)) /\ Increasing(journal)
      /\ goal \in Verdicts /\ eventCount \in Nat /\ eventCount > 0
  BY DEF IInv, TypeOK, JournalInv, PlaceInv, UndoPcs
<1>3. /\ journal' \in Seq(Entries(Tools))
      /\ DOMAIN journal' = DOMAIN journal /\ DOMAIN journal = 1 .. Len(journal)
      /\ \A k \in DOMAIN journal :
           journal'[k].step = journal[k].step /\ journal'[k].tool = journal[k].tool
      /\ journal'[i].state = "unresolved"
      /\ \A k \in DOMAIN journal : k # i => journal'[k] = journal[k]
  BY <1>1, <1>2, Marking DEF EntryStates, Disputed
<1>4. /\ \A k \in DOMAIN journal : k > i => journal'[k].state = "succeeded"
      /\ \A k \in DOMAIN journal : k < i => journal'[k].state = "pending"
  BY <1>1, <1>3
<1>5. /\ pc' = "human" /\ status' = "human_required" /\ eventCount' = eventCount + n + 1
      /\ goal' = goal /\ step' = step /\ tool' = tool /\ agentCalls' = agentCalls
      /\ blocked' = TRUE /\ compensations' = journal' /\ desk' = desk /\ toolCalls' = toolCalls
      /\ successfulTools' = successfulTools /\ freshProofs' = freshProofs /\ proofStep' = proofStep
  BY DEF Disputed, WaitForHuman, SyncCompensations, evidence
<1>6. eventCount' \in Nat /\ eventCount' > eventCount
  BY <1>2, <1>5
<1>7. TypeOK'
  BY <1>2, <1>3, <1>5, <1>6 DEF TypeOK, Statuses, Verdicts, Awaits
<1>8. JournalInv'
  <2>1. \A k \in DOMAIN journal : 0 < journal[k].step /\ journal[k].step < eventCount'
    BY <1>2, <1>6, EntryStatesCovered DEF IInv, JournalInv
  <2>2. Increasing(journal')
    BY <1>2, <1>3 DEF Increasing
  <2>3. \A a, b \in DOMAIN journal :
          a < b /\ journal'[a].state # "pending" => journal'[b].state = "succeeded"
    BY <1>3, <1>4
  <2> QED BY <1>3, <1>5, <2>1, <2>2, <2>3 DEF JournalInv
<1>9. PlaceInv'
  BY <1>2, <1>5, <1>6 DEF PlaceInv, ForwardPcs, UndoPcs, WaitPcs
<1>10. EvidenceInv'
  BY <1>3, <1>5 DEF IInv, EvidenceInv
<1>11. DeskInv'
  <2> SUFFICES ASSUME NEW o \in Operators, desk[o].phase = "verifying"
               PROVE  \E k \in DOMAIN journal :
                        journal'[k].step = desk[o].step /\ journal'[k].state = "succeeded"
    BY <1>3, <1>5 DEF DeskInv
  <2>1. PICK k \in DOMAIN journal :
          /\ journal[k].step = desk[o].step
          /\ journal[k].state = "succeeded" \/ journal[k].state = "unresolved"
    BY DEF IInv, DeskInv
  <2>2. k > i
    BY <1>1, <1>3, <2>1
  <2> QED BY <1>3, <1>4, <2>1, <2>2
<1>12. UnwindAwaitsItsFrontier'
  <2>1. UnresolvedAt(journal') = {i}
    BY <1>3, <1>4 DEF UnresolvedAt
  <2>2. \A k \in PendingAt(journal') : k < i
    BY <1>3, <1>4 DEF PendingAt
  <2>3. journal'[i].step = step'
    BY <1>1, <1>3, <1>5
  <2> QED BY <1>3, <1>5, <2>1, <2>2, <2>3 DEF UnwindAwaitsItsFrontier
<1>13. OperationIdsAreFresh' /\ VerdictIsTrue'
  BY <1>5 DEF OperationIdsAreFresh, VerdictIsTrue
<1> QED BY <1>7, <1>8, <1>9, <1>10, <1>11, <1>12, <1>13 DEF IInv

LEMMA BackwardInv == IInv /\ Backward => IInv'
<1>1. IInv /\ CompensationSucceeds => IInv'
  BY UndoneStep DEF CompensationSucceeds, UndoPcs
<1>2. IInv /\ CompensationRefused => IInv'
  BY DisputedStep DEF CompensationRefused, UndoPcs
<1>3. IInv /\ CompensationUnknown => IInv'
  <2> SUFFICES ASSUME IInv, CompensationUnknown PROVE IInv'
    OBVIOUS
  <2>1. /\ pc = "compensating" /\ pc' = "reconciling_compensation" /\ eventCount' = eventCount + 0
        /\ UNCHANGED <<status, goal, step, tool, agentCalls, toolCalls, desk>>
        /\ UNCHANGED <<successfulTools, freshProofs, proofStep, journal, blocked, compensations>>
    BY DEF CompensationUnknown, Await, evidence, book
  <2>2. eventCount' = eventCount
    BY <2>1 DEF IInv, TypeOK
  <2>3. TypeOK' /\ JournalInv' /\ EvidenceInv' /\ DeskInv'
    BY <2>1, <2>2 DEF IInv, TypeOK, JournalInv, EvidenceInv, DeskInv, Awaits
  <2>4. PlaceInv'
    BY <2>1, <2>2 DEF IInv, PlaceInv, ForwardPcs, UndoPcs, WaitPcs, AllPending
  <2>5. OperationIdsAreFresh' /\ UnwindAwaitsItsFrontier' /\ VerdictIsTrue'
    BY <2>1 DEF IInv, OperationIdsAreFresh, UnwindAwaitsItsFrontier, VerdictIsTrue, IsExpected
  <2> QED BY <2>3, <2>4, <2>5 DEF IInv
<1>4. IInv /\ ReconciledUndo => IInv'
  BY UndoneStep DEF ReconciledUndo, UndoPcs
<1>5. IInv /\ UndoUnproven => IInv'
  BY DisputedStep DEF UndoUnproven, UndoPcs
<1> QED BY <1>1, <1>2, <1>3, <1>4, <1>5 DEF Backward

\* Steps of a client that leave the workflow as it is.
LEMMA DeskStep ==
  ASSUME IInv, UNCHANGED <<control, toolCalls, evidence, book>>,
         desk' \in [Operators -> Desks], DeskInv'
  PROVE  IInv'
<1>1. /\ UNCHANGED <<pc, status, eventCount, goal, step, tool, agentCalls, toolCalls>>
      /\ UNCHANGED <<successfulTools, freshProofs, proofStep, journal, blocked, compensations>>
  BY DEF control, evidence, book
<1>2. TypeOK' /\ JournalInv' /\ EvidenceInv'
  BY <1>1 DEF IInv, TypeOK, JournalInv, EvidenceInv
<1>3. PlaceInv'
  BY <1>1 DEF IInv, PlaceInv, AllPending
<1>4. OperationIdsAreFresh' /\ UnwindAwaitsItsFrontier' /\ VerdictIsTrue'
  BY <1>1 DEF IInv, OperationIdsAreFresh, UnwindAwaitsItsFrontier, VerdictIsTrue, IsExpected
<1> QED BY <1>2, <1>3, <1>4 DEF IInv

LEMMA ResolveStep ==
  ASSUME IInv, NEW o \in Operators, Resolve(o)
  PROVE  /\ IInv'
         /\ desk[o].seq = eventCount
         /\ \E i \in DOMAIN journal :
              /\ journal[i].step = desk[o].step /\ journal[i].state = "unresolved"
              /\ journal' = Mark(journal, journal[i].step, "succeeded")
<1>1. PICK i \in DOMAIN journal :
        /\ journal[i].step = step /\ journal[i].state = "unresolved"
        /\ \A k \in DOMAIN journal : k > i => journal[k].state = "succeeded"
        /\ \A k \in DOMAIN journal : k < i => journal[k].state = "pending"
  BY AwaitedDispute DEF Resolve
<1>2. PICK k \in DOMAIN journal : journal[k].state = "unresolved" /\ journal[k].step = desk[o].step
  BY DEF Resolve, CanResolve
<1>3. k = i
  <2>1. k \in Nat /\ i \in Nat
    BY JournalIndices DEF IInv
  <2> QED BY <1>1, <1>2, <2>1
<1>4. journal' = Mark(journal, journal[i].step, "succeeded")
  BY <1>2, <1>3 DEF Resolve
<1>5. desk' = [desk EXCEPT ![o] = IdleDesk] /\ desk \in [Operators -> Desks]
  BY DEF Resolve, IInv, TypeOK
<1>6. /\ desk' \in [Operators -> Desks]
      /\ \A q \in Operators : desk'[q].phase = "verifying" => desk'[q] = desk[q]
  BY <1>5 DEF IdleDesk, Desks
<1>7. IInv'
  <2>1. /\ pc \in UndoPcs \cup {"human"} /\ 1 \in Nat
        /\ blocked' = FALSE /\ SyncCompensations /\ Advance(journal', blocked', goal, 1)
        /\ UNCHANGED <<toolCalls, evidence>>
    BY DEF Resolve
  <2> QED BY <1>1, <1>4, <1>6, <2>1, SettledStep
<1>8. desk[o].seq = eventCount
  <2>1. PICK m \in DOMAIN journal :
          /\ journal[m].step = desk[o].step
          /\ \/ journal[m].state = "succeeded"
             \/ journal[m].state = "unresolved" /\ desk[o].seq = eventCount
    BY DEF Resolve, IInv, DeskInv
  <2>2. m = k
    <3>1. k \in Nat /\ m \in Nat /\ journal[k].step \in Nat /\ journal[m].step \in Nat
      BY JournalIndices, EntryStatesCovered DEF IInv
    <3>2. ~(k < m) /\ ~(m < k)
      BY <1>2, <2>1, <3>1 DEF IInv, JournalInv, Increasing
    <3> QED BY <3>1, <3>2
  <2> QED BY <1>2, <2>1, <2>2
<1> QED BY <1>1, <1>2, <1>3, <1>4, <1>7, <1>8

LEMMA HumanInv ==
  ASSUME IInv, NEW o \in Operators, Human(o)
  PROVE  IInv'
<1>0. desk \in [Operators -> Desks]
  BY DEF IInv, TypeOK
<1>1. CASE ReadState(o)
  <2>1. PICK i \in DOMAIN compensations :
          desk' = [desk EXCEPT ![o] =
                     [phase |-> "read", step |-> compensations[i].step, seq |-> eventCount]]
    BY <1>1 DEF ReadState
  <2>2. compensations[i].step \in Nat /\ eventCount \in Nat
    BY EntryStatesCovered DEF IInv, TypeOK, JournalInv
  <2>3. desk' \in [Operators -> Desks]
    BY <1>0, <2>1, <2>2 DEF Desks
  <2>4. /\ \A q \in Operators : desk'[q].phase = "verifying" => desk'[q] = desk[q]
        /\ journal' = journal /\ eventCount' = eventCount
    BY <1>0, <1>1, <2>1 DEF ReadState, book, control
  <2>5. DeskInv'
    BY <2>4 DEF IInv, DeskInv
  <2> QED BY <1>1, <2>3, <2>5, DeskStep DEF ReadState
<1>2. CASE SubmitAccepted(o)
  <2>1. /\ desk' = [desk EXCEPT ![o].phase = "verifying"] /\ ValidResolution(desk[o])
        /\ journal' = journal /\ eventCount' = eventCount
    BY <1>2 DEF SubmitAccepted, book, control
  <2>2. desk' \in [Operators -> Desks]
    BY <1>0, <2>1 DEF Desks
  <2>3. /\ \A q \in Operators : q # o => desk'[q] = desk[q]
        /\ desk'[o].step = desk[o].step /\ desk'[o].seq = desk[o].seq
    BY <1>0, <2>1 DEF Desks
  <2>4. PICK i \in DOMAIN journal : journal[i].state = "unresolved" /\ journal[i].step = desk[o].step
    BY <2>1 DEF ValidResolution, CanResolve
  <2>5. DeskInv'
    <3> SUFFICES ASSUME NEW q \in Operators, desk'[q].phase = "verifying"
                 PROVE  \E k \in DOMAIN journal :
                          /\ journal[k].step = desk'[q].step
                          /\ \/ journal[k].state = "succeeded"
                             \/ journal[k].state = "unresolved" /\ desk'[q].seq = eventCount
      BY <2>1 DEF DeskInv
    <3>1. CASE q = o
      BY <2>1, <2>3, <2>4, <3>1 DEF ValidResolution
    <3>2. CASE q # o
      BY <2>3, <3>2 DEF IInv, DeskInv
    <3> QED BY <3>1, <3>2
  <2> QED BY <1>2, <2>2, <2>5, DeskStep DEF SubmitAccepted
<1>3. CASE SubmitRejected(o) \/ VerificationFails(o)
  <2>1. /\ desk' = [desk EXCEPT ![o] = IdleDesk]
        /\ journal' = journal /\ eventCount' = eventCount
        /\ UNCHANGED <<control, toolCalls, evidence, book>>
    BY <1>3 DEF SubmitRejected, VerificationFails, book, control
  <2>2. /\ desk' \in [Operators -> Desks]
        /\ \A q \in Operators : desk'[q].phase = "verifying" => desk'[q] = desk[q]
    BY <1>0, <2>1 DEF IdleDesk, Desks
  <2>3. DeskInv'
    BY <2>1, <2>2 DEF IInv, DeskInv
  <2> QED BY <2>1, <2>2, <2>3, DeskStep
<1>4. CASE Resolve(o)
  BY <1>4, ResolveStep
<1>5. CASE Conflict(o)
  BY <1>5, FailStep DEF Conflict, Awaits
<1> QED BY <1>1, <1>2, <1>3, <1>4, <1>5 DEF Human

LEMMA CancelStep == IInv /\ CancelWhileWaiting => IInv'
<1> SUFFICES ASSUME IInv, CancelWhileWaiting PROVE IInv'
  OBVIOUS
<1>1. /\ pc = "human" /\ pc' = "cancelled"
      /\ UNCHANGED <<status, eventCount, goal, step, tool, agentCalls, toolCalls, desk>>
      /\ UNCHANGED <<successfulTools, freshProofs, proofStep, journal, blocked, compensations>>
  BY DEF CancelWhileWaiting, evidence, book
<1>2. TypeOK' /\ JournalInv' /\ EvidenceInv' /\ DeskInv'
  BY <1>1 DEF IInv, TypeOK, JournalInv, EvidenceInv, DeskInv, Halted, Closed
<1>3. PlaceInv'
  BY <1>1 DEF IInv, PlaceInv, ForwardPcs, UndoPcs, WaitPcs, AllPending
<1>4. OperationIdsAreFresh' /\ UnwindAwaitsItsFrontier' /\ VerdictIsTrue'
  BY <1>1 DEF IInv, OperationIdsAreFresh, UnwindAwaitsItsFrontier, VerdictIsTrue
<1> QED BY <1>2, <1>3, <1>4 DEF IInv

LEMMA StutterStep == IInv /\ UNCHANGED vars => IInv'
<1> SUFFICES ASSUME IInv, UNCHANGED vars PROVE IInv'
  OBVIOUS
<1>1. UNCHANGED <<control, toolCalls, evidence, book>> /\ desk' = desk
      /\ journal' = journal /\ eventCount' = eventCount
  BY DEF vars, control, book
<1>2. DeskInv' /\ desk' \in [Operators -> Desks]
  BY <1>1 DEF IInv, DeskInv, TypeOK
<1> QED BY <1>1, <1>2, DeskStep

LEMMA NextIInv == IInv /\ [Next]_vars => IInv'
<1>1. IInv /\ Rest => IInv'
  BY StutterStep DEF Rest
<1> QED BY <1>1, ForwardInv, BackwardInv, CancelStep, HumanInv, StutterStep DEF Next

LEMMA InitIInv == Init => IInv
<1> SUFFICES ASSUME Init PROVE IInv
  OBVIOUS
<1>1. TypeOK
  <2>1. journal \in Seq(Entries(Tools)) /\ compensations \in Seq(Entries(Tools))
    BY DEF Init
  <2>2. desk \in [Operators -> Desks]
    BY DEF Init, IdleDesk, Desks
  <2>3. agentCalls \in 0 .. MaxAgentTurns
    BY LimitsAssumption DEF Init
  <2>4. toolCalls \in [Tools -> Nat] /\ proofStep \in [Tools -> Nat]
    BY DEF Init
  <2>5. pc \in {"created"} \cup Awaits \cup Halted /\ status \in Statuses
        /\ goal \in Verdicts \cup {"none"} /\ blocked \in BOOLEAN
    BY DEF Init, Statuses
  <2>6. eventCount \in Nat /\ step \in Nat /\ tool \in Tools \cup {NoTool}
        /\ successfulTools \in SUBSET Tools /\ freshProofs \in SUBSET Tools
    BY DEF Init
  <2> QED BY <2>1, <2>2, <2>3, <2>4, <2>5, <2>6 DEF TypeOK
<1>2. JournalInv /\ PlaceInv /\ EvidenceInv
  BY DEF Init, JournalInv, PlaceInv, EvidenceInv, Increasing, AllPending,
         ForwardPcs, UndoPcs, WaitPcs
<1>3. DeskInv
  BY DEF Init, DeskInv, IdleDesk
<1>4. OperationIdsAreFresh /\ UnwindAwaitsItsFrontier /\ VerdictIsTrue
  BY DEF Init, OperationIdsAreFresh, UnwindAwaitsItsFrontier, VerdictIsTrue, UnresolvedAt
<1> QED BY <1>1, <1>2, <1>3, <1>4 DEF IInv

THEOREM Invariance == Spec => []IInv
BY InitIInv, NextIInv, PTL DEF Spec

----------------------------------------------------------------------------
(***************************************************************************)
(* Type correctness; the agent never gets more turns than the input grants.*)
(***************************************************************************)
THEOREM TypeCorrect == Spec => []TypeOK
<1>1. IInv => TypeOK
  BY DEF IInv
<1> QED BY Invariance, <1>1, PTL

(***************************************************************************)
(* A forward operation never gets the ids of a recorded obligation.        *)
(***************************************************************************)
THEOREM FreshOperationIds == Spec => []OperationIdsAreFresh
<1>1. IInv => OperationIdsAreFresh
  BY DEF IInv
<1> QED BY Invariance, <1>1, PTL

(***************************************************************************)
(* The unwind always awaits the undo of its frontier, and a human is asked *)
(* about exactly the obligation in dispute.                                *)
(***************************************************************************)
THEOREM UnwindAtFrontier == Spec => []UnwindAwaitsItsFrontier
<1>1. IInv => UnwindAwaitsItsFrontier
  BY DEF IInv
<1> QED BY Invariance, <1>1, PTL

(***************************************************************************)
(* The verdict a closed saga published is true.                            *)
(***************************************************************************)
THEOREM VerdictTruth == Spec => []VerdictIsTrue
<1>1. IInv => VerdictIsTrue
  BY DEF IInv
<1> QED BY Invariance, <1>1, PTL

(***************************************************************************)
(* State queries return the journal, and ask for a human exactly when a    *)
(* resolution would be valid.                                              *)
(***************************************************************************)
THEOREM TruthfulQueries == Spec => []QueriesTellTheTruth
<1>1. IInv => QueriesTellTheTruth
  <2> SUFFICES ASSUME IInv PROVE QueriesTellTheTruth
    OBVIOUS
  <2>1. compensations = journal
    BY DEF IInv, JournalInv
  <2>2. ASSUME pc \in Awaits, status = "human_required"
        PROVE  \E i \in DOMAIN compensations : CanResolve(journal, compensations[i].step)
    <3>1. pc = "human"
      BY <2>2 DEF IInv, PlaceInv, Awaits, ForwardPcs, UndoPcs
    <3> QED BY <2>1, <3>1, AwaitedDispute DEF CanResolve
  <2>3. ASSUME pc \in Awaits, NEW i \in DOMAIN compensations, CanResolve(journal, compensations[i].step)
        PROVE  status = "human_required"
    <3>1. UnresolvedAt(journal) # {}
      BY <2>3 DEF CanResolve, UnresolvedAt
    <3> QED BY <2>3, <3>1 DEF IInv, UnwindAwaitsItsFrontier, PlaceInv, Awaits, WaitPcs
  <2> QED BY <2>1, <2>2, <2>3 DEF QueriesTellTheTruth
<1> QED BY Invariance, <1>1, PTL

=============================================================================
