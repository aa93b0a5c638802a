---------------------- MODULE AgenticSagaWorkflow ----------------------
(***************************************************************************)
(* The saga workflow of temporal/workflow.py, with the clients that query  *)
(* it and resolve its disputed compensations.  The workflow is             *)
(* single-threaded between awaits, so one action is one activation: it     *)
(* starts with the completion of an awaited activity or with a client's    *)
(* Update and runs up to the next await.  What an activity answers is      *)
(* nondeterministic here; SagaSystem supplies the worker and the provider. *)
(*                                                                         *)
(* An event sequence number identifies a forward operation: the proposal   *)
(* accepted at sequence s gets the operation ids of step_<s>.              *)
(***************************************************************************)
EXTENDS CompensationJournal, FiniteSets, Functions

CONSTANTS
  Tools,           \* forward tools of the saga input
  Effects,         \* those declared with kind "effect"; the others are reads
  Required,        \* required_for_success
  Proofs,          \* proof_for_success
  Prerequisites,   \* tool -> tools that have to succeed before it
  MaxCalls,        \* tool -> max_calls
  MaxToolCalls,    \* max_tool_calls of the saga input
  MaxAgentTurns,   \* max_agent_turns of the saga input
  Operators,       \* human clients that may query and resolve
  EmptyReceipts,   \* whether an effect may be confirmed with an empty receipt
  NoTool

ASSUME ToolsAssumption ==
  /\ Effects \subseteq Tools
  /\ Required \subseteq Tools
  /\ Proofs \subseteq Tools \ Effects
  /\ Prerequisites \in [Tools -> SUBSET Tools]
  /\ NoTool \notin Tools

ASSUME LimitsAssumption ==
  /\ MaxCalls \in [Tools -> Nat \ {0}]
  /\ MaxToolCalls \in Nat \ {0}
  /\ MaxAgentTurns \in Nat \ {0}

ASSUME EmptyReceiptsAssumption == EmptyReceipts \in BOOLEAN

VARIABLES
  pc,              \* the await the main coroutine is suspended at
  status,          \* the SagaStatus of the published state
  eventCount,      \* length of the published event sequence
  goal,            \* the verdict a running unwind leads to
  step,            \* operation in flight or in dispute, 0 when there is none
  tool,            \* forward tool in flight
  agentCalls,      \* turns given to the agent
  toolCalls,       \* tool -> forward calls made
  successfulTools,
  freshProofs,
  proofStep,       \* history: the last operation that proved a tool's claim
  journal,         \* entries of the compensation journal
  blocked,         \* the journal carries a human_required_reason
  compensations,   \* the entries a state query returns
  desk             \* what each operator is doing

control  == <<pc, status, eventCount, goal, step, tool, agentCalls>>
evidence == <<successfulTools, freshProofs, proofStep>>
book     == <<journal, blocked, compensations>>
vars     == <<control, toolCalls, evidence, book, desk>>

Closed == {"closed", "cancelled"}
Halted == Closed \cup {"task_failed"}
Awaits == {"deciding", "forward", "reconciling", "compensating",
           "reconciling_compensation", "human"}
Verdicts == {"compensated_verified", "human_required"}
Statuses == Verdicts \cup {"running", "compensating", "succeeded_verified", "aborted_clean"}
IdleDesk == [phase |-> "idle", step |-> 0, seq |-> 0]
Desks == [phase : {"idle", "read", "verifying"}, step : Nat, seq : Nat]

(***************************************************************************)
(* Guards of a turn.                                                       *)
(***************************************************************************)
Eligible(t) ==
  /\ toolCalls[t] < MaxCalls[t]
  /\ SumFunction(toolCalls) < MaxToolCalls
  /\ Prerequisites[t] \subseteq successfulTools

TerminalReady == Required \subseteq successfulTools /\ Proofs \subseteq freshProofs

\* A plausible fault: any proposal based on a published event is taken.
BasedInThePast(b) == b \in 1 .. eventCount

IsCurrent(b) == b = eventCount

(***************************************************************************)
(* Continuations: where an activation leaves the main coroutine, for the   *)
(* journal entries j it produced and the n events it recorded before.      *)
(***************************************************************************)
Close(v, n) ==
  /\ pc' = "closed"
  /\ status' = v
  /\ eventCount' = eventCount + n
  /\ goal' = "none" /\ step' = 0 /\ tool' = NoTool
  /\ UNCHANGED agentCalls

Fail ==
  /\ pc' = "task_failed"
  /\ UNCHANGED <<status, eventCount, goal, step, tool, agentCalls, toolCalls, evidence, book>>

NextRequest(j, b, i) == ~b /\ IsFrontier(j, i)

\* A plausible fault: a finished unwind hands the goal back to the agent.
AdvanceAndRetry(j, b, v, n) ==
  \/ \E i \in DOMAIN j :
       /\ NextRequest(j, b, i)
       /\ pc' = "compensating" /\ step' = j[i].step /\ tool' = j[i].tool
       /\ status' = "compensating" /\ goal' = v
       /\ eventCount' = eventCount + n
       /\ UNCHANGED agentCalls
  \/ /\ \A i \in DOMAIN j : ~NextRequest(j, b, i)
     /\ IF agentCalls = MaxAgentTurns
          THEN Close(v, n + 2)
          ELSE /\ pc' = "deciding" /\ step' = 0 /\ tool' = NoTool
               /\ status' = "running" /\ goal' = "none"
               /\ eventCount' = eventCount + n
               /\ agentCalls' = agentCalls + 1

(***************************************************************************)
(* The loop of _run_compensations: undo the frontier, or report the end.   *)
(***************************************************************************)
Advance(j, b, v, n) ==
  \/ \E i \in DOMAIN j :
       /\ NextRequest(j, b, i)
       /\ pc' = "compensating" /\ step' = j[i].step /\ tool' = j[i].tool
       /\ status' = "compensating" /\ goal' = v
       /\ eventCount' = eventCount + n
       /\ UNCHANGED agentCalls
  \/ /\ \A i \in DOMAIN j : ~NextRequest(j, b, i)
     /\ Close(v, n + 2)

Unwind(j, v, n) == Advance(j, blocked, v, n + 1)

Stop(j, n) ==
  IF j = << >> THEN Close("human_required", n + 1)
               ELSE Unwind(j, "compensated_verified", n + 1)

UnwindBeforeHuman(j, n) ==
  IF j = << >> THEN Close("human_required", n + 1)
               ELSE Unwind(j, "human_required", n)

HandleForwardFailure(j, n) ==
  IF j = << >> THEN Close("aborted_clean", n + 1)
               ELSE Unwind(j, "compensated_verified", n)

\* A plausible fault: the agent gets one turn too many.
NextTurnOffByOne(j, n) ==
  IF agentCalls <= MaxAgentTurns
    THEN /\ pc' = "deciding" /\ step' = 0 /\ tool' = NoTool
         /\ agentCalls' = agentCalls + 1
         /\ eventCount' = eventCount + n
         /\ UNCHANGED <<status, goal>>
    ELSE Stop(j, n)

NextTurn(j, n) ==
  IF agentCalls < MaxAgentTurns
    THEN /\ pc' = "deciding" /\ step' = 0 /\ tool' = NoTool
         /\ agentCalls' = agentCalls + 1
         /\ eventCount' = eventCount + n
         /\ UNCHANGED <<status, goal>>
    ELSE Stop(j, n)

Await(where, n) ==
  /\ pc' = where
  /\ eventCount' = eventCount + n
  /\ UNCHANGED <<status, goal, step, tool, agentCalls>>

WaitForHuman(n) ==
  /\ pc' = "human"
  /\ status' = "human_required"
  /\ eventCount' = eventCount + n + 1
  /\ UNCHANGED <<goal, step, tool, agentCalls>>

Init ==
  /\ pc = "created" /\ status = "running" /\ eventCount = 0
  /\ goal = "none" /\ step = 0 /\ tool = NoTool
  /\ agentCalls = 0
  /\ toolCalls = [t \in Tools |-> 0]
  /\ successfulTools = {} /\ freshProofs = {} /\ proofStep = [t \in Tools |-> 0]
  /\ journal = << >> /\ blocked = FALSE /\ compensations = << >>
  /\ desk = [o \in Operators |-> IdleDesk]

----------------------------------------------------------------------------
(***************************************************************************)
(* Forward turns.                                                          *)
(***************************************************************************)
Start ==
  /\ pc = "created"
  /\ NextTurn(journal, 1)
  /\ UNCHANGED <<toolCalls, evidence, book, desk>>

\* The agent activity ended in an ActivityError.
DecisionFails ==
  /\ pc = "deciding"
  /\ Stop(journal, 0)
  /\ UNCHANGED <<toolCalls, evidence, book, desk>>

\* Bases is bounded by the next event: the agent may guess ahead.
Bases == 1 .. eventCount + 1

ProposalRejected ==
  /\ pc = "deciding"
  /\ \E b \in Bases, t \in Tools : ~IsCurrent(b) \/ ~Eligible(t)
  /\ Stop(journal, 1)
  /\ UNCHANGED <<toolCalls, evidence, book, desk>>

ToolCalled ==
  /\ pc = "deciding"
  /\ \E b \in Bases, t \in Tools :
       /\ IsCurrent(b) /\ Eligible(t)
       /\ toolCalls' = [toolCalls EXCEPT ![t] = @ + 1]
       /\ pc' = "forward" /\ step' = b /\ tool' = t
  /\ eventCount' = eventCount + 1
  /\ UNCHANGED <<status, goal, agentCalls, evidence, book, desk>>

FinishProposed ==
  /\ pc = "deciding"
  /\ \E b \in Bases : IsCurrent(b)
  /\ IF TerminalReady THEN Close("succeeded_verified", 2) ELSE Stop(journal, 1)
  /\ UNCHANGED <<toolCalls, evidence, book, desk>>

\* A plausible fault: an effect leaves the proofs that preceded it valid.
RecordEvidenceKeepingProofs(s, t) ==
  /\ successfulTools' = successfulTools \cup {t}
  /\ freshProofs' = freshProofs \cup ({t} \cap Proofs)
  /\ proofStep' = IF t \in Proofs THEN [proofStep EXCEPT ![t] = s] ELSE proofStep
  /\ journal' = IF t \in Effects THEN RecordForward(journal, s, t) ELSE journal

(***************************************************************************)
(* What a confirmed result leaves behind: an effect invalidates the        *)
(* proofs and becomes an obligation; a proof read is fresh.                *)
(***************************************************************************)
RecordForwardEvidence(s, t) ==
  /\ successfulTools' = successfulTools \cup {t}
  /\ freshProofs' = IF t \in Effects THEN {} ELSE freshProofs \cup ({t} \cap Proofs)
  /\ proofStep' = IF t \in Proofs THEN [proofStep EXCEPT ![t] = s] ELSE proofStep
  /\ journal' = IF t \in Effects THEN RecordForward(journal, s, t) ELSE journal

\* A plausible fault: the published entries are not refreshed.
SyncForgotten == UNCHANGED compensations

SyncCompensations == compensations' = journal'

ForwardSucceeds ==
  /\ pc = "forward"
  /\ RecordForwardEvidence(step, tool)
  /\ SyncCompensations
  /\ NextTurn(journal', 1)
  /\ UNCHANGED <<toolCalls, blocked, desk>>

(***************************************************************************)
(* A definite failure: the tool refused, a read was lost, or a proof read  *)
(* succeeded without verifying its claim.                                  *)
(***************************************************************************)
ForwardFails ==
  /\ pc = "forward"
  /\ HandleForwardFailure(journal, 1)
  /\ UNCHANGED <<toolCalls, evidence, book, desk>>

\* An effect answered "unresolved", or its activity ended in an error.
ForwardUnknown ==
  /\ pc = "forward"
  /\ tool \in Effects
  /\ Await("reconciling", 1)
  /\ UNCHANGED <<toolCalls, evidence, book, desk>>

ReconciledEffect ==
  /\ pc = "reconciling"
  /\ RecordForwardEvidence(step, tool)
  /\ SyncCompensations
  /\ NextTurn(journal', 1)
  /\ UNCHANGED <<toolCalls, blocked, desk>>

ReconciledNoEffect ==
  /\ pc = "reconciling"
  /\ HandleForwardFailure(journal, 1)
  /\ UNCHANGED <<toolCalls, evidence, book, desk>>

\* No event is recorded when the reconciliation activity itself fails.
StillUnknown ==
  /\ pc = "reconciling"
  /\ \E n \in {0, 1} : UnwindBeforeHuman(journal, n)
  /\ UNCHANGED <<toolCalls, evidence, book, desk>>

(***************************************************************************)
(* A confirmed effect with an empty receipt: CompensationRecord rejects    *)
(* it, and the ValidationError fails the Workflow Task.                    *)
(***************************************************************************)
EmptyReceipt ==
  /\ EmptyReceipts
  /\ pc \in {"forward", "reconciling"}
  /\ tool \in Effects
  /\ Fail
  /\ UNCHANGED desk

----------------------------------------------------------------------------
(***************************************************************************)
(* The unwind.                                                             *)
(***************************************************************************)
\* record_compensation accepts a result for the current frontier only.
IsExpected == \E i \in DOMAIN journal : NextRequest(journal, blocked, i) /\ journal[i].step = step

Undone(n) ==
  /\ IsExpected
  /\ journal' = Mark(journal, step, "succeeded")
  /\ blocked' = FALSE
  /\ SyncCompensations
  /\ Advance(journal', blocked', goal, n)
  /\ UNCHANGED <<toolCalls, evidence, desk>>

Disputed(n) ==
  /\ IsExpected
  /\ journal' = Mark(journal, step, "unresolved")
  /\ blocked' = TRUE
  /\ SyncCompensations
  /\ WaitForHuman(n)
  /\ UNCHANGED <<toolCalls, evidence, desk>>

CompensationSucceeds == pc = "compensating" /\ Undone(1)

CompensationRefused == pc = "compensating" /\ Disputed(1)

\* "unresolved", or the activity ended in an error; nothing is recorded.
CompensationUnknown ==
  /\ pc = "compensating"
  /\ Await("reconciling_compensation", 0)
  /\ UNCHANGED <<toolCalls, evidence, book, desk>>

ReconciledUndo == pc = "reconciling_compensation" /\ Undone(2)

\* A plausible fault: an undo that cannot be proven is tried again.
UndoRetried ==
  /\ pc = "reconciling_compensation"
  /\ Await("compensating", 0)
  /\ UNCHANGED <<toolCalls, evidence, book, desk>>

\* Anything short of a confirmed undo needs a human, "no effect" included.
UndoUnproven == pc = "reconciling_compensation" /\ \E n \in {1, 2} : Disputed(n)

CancelWhileWaiting ==
  /\ pc = "human"
  /\ pc' = "cancelled"
  /\ UNCHANGED <<status, eventCount, goal, step, tool, agentCalls>>
  /\ UNCHANGED <<toolCalls, evidence, book, desk>>

----------------------------------------------------------------------------
(***************************************************************************)
(* Human clients.  An operator queries the state, picks an entry, and      *)
(* later submits the Update; the handler awaits the verification activity  *)
(* between its validator and its effect.                                   *)
(***************************************************************************)
ReadState(o) ==
  /\ pc \notin {"created", "task_failed"}
  /\ desk[o].phase = "idle"
  /\ \E i \in DOMAIN compensations :
       desk' = [desk EXCEPT ![o] =
                  [phase |-> "read", step |-> compensations[i].step, seq |-> eventCount]]
  /\ UNCHANGED <<control, toolCalls, evidence, book>>

\* A plausible fault: the sequence is compared with the index of the last event.
ValidByIndex(c) ==
  /\ status = "human_required"
  /\ c.seq + 1 = eventCount
  /\ CanResolve(journal, c.step)

ValidResolution(c) ==
  /\ status = "human_required"
  /\ c.seq = eventCount
  /\ CanResolve(journal, c.step)

SubmitAccepted(o) ==
  /\ pc \in Awaits
  /\ desk[o].phase = "read"
  /\ ValidResolution(desk[o])
  /\ desk' = [desk EXCEPT ![o].phase = "verifying"]
  /\ UNCHANGED <<control, toolCalls, evidence, book>>

\* Rejected by the validator, or addressed to a closed workflow.
SubmitRejected(o) ==
  /\ pc # "task_failed"
  /\ desk[o].phase = "read"
  /\ pc \in Awaits => ~ValidResolution(desk[o])
  /\ desk' = [desk EXCEPT ![o] = IdleDesk]
  /\ UNCHANGED <<control, toolCalls, evidence, book>>

\* Not verified, the verification activity failed, or the workflow closed.
VerificationFails(o) ==
  /\ pc # "task_failed"
  /\ desk[o].phase = "verifying"
  /\ desk' = [desk EXCEPT ![o] = IdleDesk]
  /\ UNCHANGED <<control, toolCalls, evidence, book>>

(***************************************************************************)
(* The handler resumes after a positive verification: the entry is         *)
(* settled, the block is lifted, and the awaiting main coroutine goes on   *)
(* in the same activation.                                                 *)
(***************************************************************************)
Resolve(o) ==
  /\ pc = "human"
  /\ desk[o].phase = "verifying"
  /\ CanResolve(journal, desk[o].step)
  /\ journal' = Mark(journal, desk[o].step, "succeeded")
  /\ blocked' = FALSE
  /\ SyncCompensations
  /\ Advance(journal', blocked', goal, 1)
  /\ desk' = [desk EXCEPT ![o] = IdleDesk]
  /\ UNCHANGED <<toolCalls, evidence>>

(***************************************************************************)
(* The entry was settled while the verification ran: resolve_unresolved    *)
(* raises a plain ValueError, which fails the Workflow Task.               *)
(***************************************************************************)
Conflict(o) ==
  /\ pc \in Awaits
  /\ desk[o].phase = "verifying"
  /\ ~CanResolve(journal, desk[o].step)
  /\ Fail
  /\ UNCHANGED desk

\* A saga that has ended, or whose task fails for ever, may stay as it is.
Rest == pc \in Halted /\ UNCHANGED vars

Forward ==
  \/ Start \/ DecisionFails \/ ProposalRejected \/ ToolCalled \/ FinishProposed
  \/ ForwardSucceeds \/ ForwardFails \/ ForwardUnknown
  \/ ReconciledEffect \/ ReconciledNoEffect \/ StillUnknown \/ EmptyReceipt

Backward ==
  \/ CompensationSucceeds \/ CompensationRefused \/ CompensationUnknown
  \/ ReconciledUndo \/ UndoUnproven

Human(o) ==
  \/ ReadState(o) \/ SubmitAccepted(o) \/ SubmitRejected(o)
  \/ VerificationFails(o) \/ Resolve(o) \/ Conflict(o)

Next ==
  \/ Forward
  \/ Backward
  \/ CancelWhileWaiting
  \/ \E o \in Operators : Human(o)
  \/ Rest

Spec == Init /\ [][Next]_vars

----------------------------------------------------------------------------
(***************************************************************************)
(* Type invariant; the agent's turns stay within the limit of the input.   *)
(***************************************************************************)
TypeOK ==
  /\ pc \in {"created"} \cup Awaits \cup Halted
  /\ status \in Statuses
  /\ eventCount \in Nat
  /\ goal \in Verdicts \cup {"none"}
  /\ step \in Nat /\ tool \in Tools \cup {NoTool}
  /\ agentCalls \in 0 .. MaxAgentTurns
  /\ toolCalls \in [Tools -> Nat]
  /\ successfulTools \in SUBSET Tools /\ freshProofs \in SUBSET Tools
  /\ proofStep \in [Tools -> Nat]
  /\ journal \in Seq(Entries(Tools)) /\ blocked \in BOOLEAN
  /\ compensations \in Seq(Entries(Tools))
  /\ desk \in [Operators -> Desks]

(***************************************************************************)
(* An accepted tool call gets operation ids that no obligation has: a      *)
(* result recorded under a used id would be dropped by _contains, and its  *)
(* effect would never be undone.                                           *)
(***************************************************************************)
OperationIdsAreFresh ==
  pc \in {"forward", "reconciling"} => \A i \in DOMAIN journal : journal[i].step < step

(***************************************************************************)
(* Whenever the coroutine is suspended in the unwind, what it awaits is    *)
(* the undo of the newest pending obligation and nothing is in dispute, so *)
(* record_compensation never raises; while it waits for a human exactly    *)
(* the awaited obligation is in dispute, with all later ones settled, and  *)
(* in every other state nothing is.                                        *)
(***************************************************************************)
UnwindAwaitsItsFrontier ==
  /\ pc \in {"compensating", "reconciling_compensation"} => IsExpected
  /\ pc \in {"human", "cancelled"} =>
       \E i \in DOMAIN journal :
         /\ UnresolvedAt(journal) = {i} /\ journal[i].step = step
         /\ \A k \in PendingAt(journal) : k < i
  /\ pc \notin {"human", "cancelled", "task_failed"} => UnresolvedAt(journal) = {}

(***************************************************************************)
(* A client never sees stale entries: what a query returns between two     *)
(* activations is the journal, and it tells an operator to act exactly     *)
(* when an Update for some entry would pass the validator.                 *)
(***************************************************************************)
QueriesTellTheTruth ==
  /\ compensations = journal
  /\ pc \in Awaits =>
       (status = "human_required" <=>
          \E i \in DOMAIN compensations : CanResolve(journal, compensations[i].step))

(***************************************************************************)
(* The verdict is true.  A success undid nothing, owns an obligation for   *)
(* every required effect, and was proven after the last effect; a saga     *)
(* that reports a finished unwind owes nothing; one that reports a clean   *)
(* abort confirmed no effect.                                              *)
(***************************************************************************)
VerdictIsTrue ==
  pc = "closed" =>
    /\ status = "succeeded_verified" =>
         /\ \A t \in Required \cap Effects : \E i \in DOMAIN journal : journal[i].tool = t
         /\ \A p \in Proofs : \A i \in DOMAIN journal : journal[i].step < proofStep[p]
         /\ PendingAt(journal) = DOMAIN journal
    /\ status \in Verdicts => \A i \in DOMAIN journal : journal[i].state = "succeeded"
    /\ status = "aborted_clean" => journal = << >>

(***************************************************************************)
(* The journal keeps its word: an entry is never dropped, reordered or     *)
(* rewritten, a settled one stays settled, a disputed one is only ever     *)
(* settled, and the journal grows by one entry at a time, while the saga   *)
(* is running.                                                             *)
(***************************************************************************)
JournalKeepsItsWord ==
  [][/\ DOMAIN journal \subseteq DOMAIN journal'
     /\ \A i \in DOMAIN journal :
          /\ journal'[i].step = journal[i].step /\ journal'[i].tool = journal[i].tool
          /\ journal[i].state = "succeeded" => journal'[i].state = "succeeded"
          /\ journal[i].state = "unresolved" => journal'[i].state # "pending"
     /\ Len(journal') > Len(journal) => Len(journal') = Len(journal) + 1 /\ status = "running"
    ]_vars

(***************************************************************************)
(* A resolution settles the dispute its operator looked at: the entry it   *)
(* changes is the one it names, and nothing was recorded between the query *)
(* and the settlement, however long the verification took.                 *)
(***************************************************************************)
ResolutionsApplyToTheirPause ==
  [][\A o \in Operators :
       Resolve(o) =>
         /\ desk[o].seq = eventCount
         /\ \A i \in DOMAIN journal : journal'[i] # journal[i] => journal[i].step = desk[o].step]_vars

(***************************************************************************)
(* Once the unwind has begun the agent gets no turn and no forward tool    *)
(* runs, whatever the humans do.                                           *)
(***************************************************************************)
ForwardWorkIsOver ==
  [][status # "running" =>
       /\ status' # "running"
       /\ pc' \notin {"deciding", "forward", "reconciling"}
       /\ agentCalls' = agentCalls /\ toolCalls' = toolCalls]_vars

(***************************************************************************)
(* operations.md promises that stale and replayed decisions are rejected:  *)
(* when receipts are never empty, nothing halts the saga.                  *)
(***************************************************************************)
DecisionsNeverHaltTheSaga == pc # "task_failed"

(***************************************************************************)
(* temporal-safety-contract.md promises that confirmed effects are         *)
(* compensated: a confirmed effect, its receipt empty or not, leads to     *)
(* another turn or to the unwind, never to a halt.                         *)
(***************************************************************************)
ConfirmedEffectsNeverHaltTheSaga ==
  [][pc' = "task_failed" => pc \notin {"forward", "reconciling"}]_vars

(***************************************************************************)
(* The workflow implements the contract of a saga: the published status    *)
(* is its phase, the journal its obligations.                              *)
(***************************************************************************)
Phase ==
  CASE pc \in Closed -> "closed"
    [] status = "running" -> "forward"
    [] status = "compensating" -> "unwinding"
    [] OTHER -> "paused"

Verdict == CASE pc = "closed" -> status [] pc = "cancelled" -> "cancelled" [] OTHER -> "none"

Contract == INSTANCE SagaContract WITH
  phase <- Phase, obligations <- [i \in DOMAIN journal |-> journal[i].state], verdict <- Verdict

ImplementsContract == Contract!Spec

(***************************************************************************)
(* Fairness.  A worker serves the task queue, and every activity has a     *)
(* start-to-close timeout and at most two attempts, so each awaited result *)
(* arrives.  Humans owe nothing.                                           *)
(***************************************************************************)
FairSpec == Spec /\ WF_vars(Forward) /\ WF_vars(Backward)

\* The disputed entry is looked at.
LookAtDispute(o) ==
  ReadState(o) /\ status = "human_required" /\ CanResolve(journal, desk'[o].step)

DiligentOperator(o) ==
  /\ SF_vars(LookAtDispute(o))
  /\ WF_vars(SubmitAccepted(o) \/ SubmitRejected(o))
  /\ WF_vars(VerificationFails(o) \/ Resolve(o))
  /\ SF_vars(Resolve(o))

(***************************************************************************)
(* Automation never spins: again and again the saga is closed or waits     *)
(* for a human.                                                            *)
(***************************************************************************)
AutomationComesToRest == []<>(pc \in Closed \cup {"human"})

(***************************************************************************)
(* With an operator who keeps looking at disputes and whose verified       *)
(* resolutions arrive, every saga closes.                                  *)
(***************************************************************************)
DiligenceClosesTheSaga ==
  (\A o \in Operators : DiligentOperator(o)) => <>(pc \in Closed)

=============================================================================
