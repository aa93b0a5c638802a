--------------------------- MODULE SagaLedger ---------------------------
(***************************************************************************)
(* The saga workflow together with the events it publishes: which event is *)
(* recorded on which path, with the status before and after it.  The       *)
(* history is what an audit, a trace export and the flight recorder see;   *)
(* RunTrace says what they make of it.                                     *)
(***************************************************************************)
EXTENDS AgenticSagaWorkflow, RunTrace

SX == INSTANCE SequencesExt

VARIABLE events   \* the published events

ledgerVars == <<vars, events>>

LedgerInit == Init /\ events = << >>

Publish(new) == events' = events \o new

----------------------------------------------------------------------------
(***************************************************************************)
(* Events.                                                                 *)
(***************************************************************************)
Declared(t) == IF t \in Effects THEN "effect" ELSE IF t \in Proofs THEN "proof" ELSE "read"

StatusChanged(s, t) == WorkflowEvent("status_changed", s, t)

AgentDecision == WorkflowEvent("agent_decision", status, status)

ForwardResult(o) ==
  [WorkflowEvent("forward_result", status, status) EXCEPT
     !.step = step, !.declared = Declared(tool), !.outcome = o]

ReconciliationResult(o) ==
  [WorkflowEvent("reconciliation_result", status, status) EXCEPT
     !.step = step, !.undo = pc = "reconciling_compensation", !.outcome = o]

CompensationResult(o) ==
  [WorkflowEvent("compensation_result", status, status) EXCEPT
     !.step = step, !.undo = TRUE, !.outcome = o]

\* A plausible fault: the operation that the human settled is not recorded.
AnonymousResolution(s) == WorkflowEvent("human_resolved", "human_required", "compensating")

HumanResolution(s) ==
  [WorkflowEvent("human_resolved", "human_required", "compensating") EXCEPT
     !.step = s, !.undo = TRUE]

CompensationCompleted(j, v) ==
  [WorkflowEvent("compensation_completed", "compensating", "compensating") EXCEPT
     !.undone = SX!Reverse([i \in DOMAIN j |-> j[i].step]), !.outcome = v]

----------------------------------------------------------------------------
(***************************************************************************)
(* What the continuations of an activation record.                         *)
(***************************************************************************)
EndEvents(j, v) ==
  IF \E i \in DOMAIN j : NextRequest(j, FALSE, i)
    THEN << >>
    ELSE <<CompensationCompleted(j, v), StatusChanged("compensating", v)>>

\* A plausible fault: the unwind starts without being announced.
UnwindEventsMissed(j, v) == <<WorkflowEvent("guard_rejected", status, status)>> \o EndEvents(j, v)

UnwindEvents(j, v) == <<StatusChanged(status, "compensating")>> \o EndEvents(j, v)

StopEvents(j) ==
  IF j = << >>
    THEN <<StatusChanged(status, "human_required")>>
    ELSE <<WorkflowEvent("guard_rejected", status, status)>> \o UnwindEvents(j, "compensated_verified")

FailureEvents(j) ==
  IF j = << >> THEN <<StatusChanged(status, "aborted_clean")>>
               ELSE UnwindEvents(j, "compensated_verified")

BeforeHumanEvents(j) ==
  IF j = << >> THEN <<StatusChanged(status, "human_required")>>
               ELSE UnwindEvents(j, "human_required")

TurnEvents(j) == IF agentCalls < MaxAgentTurns THEN << >> ELSE StopEvents(j)

FinishEvents ==
  IF TerminalReady THEN <<StatusChanged(status, "succeeded_verified")>> ELSE StopEvents(journal)

\* A plausible fault: the pause is not announced.
DisputeUnannounced(o) == <<CompensationResult(o)>>

DisputeEvents(o) == <<CompensationResult(o), StatusChanged(status, "human_required")>>

\* "pending" stands for a conflict and an unsupported reconciliation too.
Unclear == "pending"

----------------------------------------------------------------------------
(***************************************************************************)
(* Every action of the workflow with the events it publishes.              *)
(***************************************************************************)
PublishForward ==
  \/ Start /\ Publish(<<WorkflowEvent("started", "running", "running")>> \o TurnEvents(journal))
  \/ DecisionFails /\ Publish(StopEvents(journal))
  \/ ProposalRejected /\ Publish(<<AgentDecision>> \o StopEvents(journal))
  \/ ToolCalled /\ Publish(<<AgentDecision>>)
  \/ FinishProposed /\ Publish(<<AgentDecision>> \o FinishEvents)
  \/ ForwardSucceeds /\ Publish(<<ForwardResult("succeeded")>> \o TurnEvents(journal'))
  \/ ForwardFails /\ Publish(<<ForwardResult("failed")>> \o FailureEvents(journal))
  \/ ForwardUnknown /\ Publish(<<ForwardResult("unresolved")>>)

PublishReconciliation ==
  \/ ReconciledEffect
     /\ Publish(<<ReconciliationResult("confirmed_effect")>> \o TurnEvents(journal'))
  \/ ReconciledNoEffect
     /\ Publish(<<ReconciliationResult("confirmed_no_effect")>> \o FailureEvents(journal))
  \/ StillUnknown /\ UnwindBeforeHuman(journal, 0) /\ Publish(BeforeHumanEvents(journal))
  \/ StillUnknown /\ UnwindBeforeHuman(journal, 1)
     /\ Publish(<<ReconciliationResult(Unclear)>> \o BeforeHumanEvents(journal))

PublishBackward ==
  \/ CompensationSucceeds /\ Publish(<<CompensationResult("succeeded")>> \o EndEvents(journal', goal))
  \/ CompensationRefused /\ Publish(DisputeEvents("failed"))
  \/ ReconciledUndo
     /\ Publish(<<ReconciliationResult("confirmed_effect"), CompensationResult("succeeded")>>
                \o EndEvents(journal', goal))
  \/ UndoUnproven /\ Disputed(1) /\ Publish(DisputeEvents("unresolved"))
  \/ UndoUnproven /\ Disputed(2)
     /\ \E o \in {Unclear, "confirmed_no_effect"} :
          Publish(<<ReconciliationResult(o)>> \o DisputeEvents("unresolved"))

PublishResolution(o) ==
  /\ Resolve(o)
  /\ Publish(<<HumanResolution(desk[o].step)>> \o EndEvents(journal', goal))

Unpublished ==
  /\ \/ EmptyReceipt \/ CompensationUnknown \/ CancelWhileWaiting
     \/ \E o \in Operators :
          \/ ReadState(o) \/ SubmitAccepted(o) \/ SubmitRejected(o)
          \/ VerificationFails(o) \/ Conflict(o)
     \/ Rest
  /\ UNCHANGED events

LedgerNext ==
  \/ PublishForward
  \/ PublishReconciliation
  \/ PublishBackward
  \/ \E o \in Operators : PublishResolution(o)
  \/ Unpublished

LedgerSpec == LedgerInit /\ [][LedgerNext]_ledgerVars

----------------------------------------------------------------------------
(***************************************************************************)
(* Type invariant; the sequence number that proposals and resolutions are  *)
(* checked against is the length of the published history.                 *)
(***************************************************************************)
LedgerTypeOK ==
  /\ TypeOK
  /\ Len(events) = eventCount
  /\ \A i \in DOMAIN events :
       /\ events[i].kind \in Kinds
       /\ events[i].before \in Statuses /\ events[i].after \in Statuses

(***************************************************************************)
(* Whenever the state is exported (it can be queried at every await) the   *)
(* projection is accepted by the validators of RunTrace.                   *)
(***************************************************************************)
ExportIsValid == pc # "created" => ValidRunTrace(events, status)

(***************************************************************************)
(* An auditor who has the history only, and knows nothing of the journal,  *)
(* finds the same obligations, in the same states, as a query returns.     *)
(***************************************************************************)
Audited(j, e) ==
  CASE e.kind = "forward_result" /\ OutcomeKind(e) = "effect_confirmed" -> Append(j, [step |-> e.step, state |-> "pending"])
    [] e.kind = "reconciliation_result" /\ ~e.undo /\ OutcomeKind(e) = "reconcile_effect_confirmed" ->
         Append(j, [step |-> e.step, state |-> "pending"])
    [] e.kind \in {"compensation_result", "human_resolved"} ->
         [i \in DOMAIN j |->
            IF j[i].step # e.step THEN j[i]
            ELSE [j[i] EXCEPT !.state =
                    IF e.kind = "human_resolved" \/ e.outcome = "succeeded" THEN "succeeded" ELSE "unresolved"]]
    [] OTHER -> j

AuditAgreesWithQueries ==
  SX!FoldLeft(Audited, << >>, events) =
    [i \in DOMAIN compensations |-> [step |-> compensations[i].step, state |-> compensations[i].state]]

(***************************************************************************)
(* The recorder calls an outcome verified exactly when the workflow does:  *)
(* every verified ending carries its evidence, undos settled by a human    *)
(* included, and no other published state looks verified.                  *)
(***************************************************************************)
VerifiedMeansVerified ==
  pc # "created" =>
    (TerminalVerified(events, status) <=> status \in {"succeeded_verified", "compensated_verified"})

(***************************************************************************)
(* The chain that the recorder isolates around an event is the life of one *)
(* obligation: all that happened to its step, in either direction, and     *)
(* nothing else.                                                           *)
(***************************************************************************)
ChainIsOneObligation ==
  pc \in Closed \cup {"human"} => \A i \in DOMAIN events :
    events[i].step # 0 =>
      CausalEvents(events, i) = {k \in DOMAIN events : events[k].step = events[i].step}

=============================================================================
