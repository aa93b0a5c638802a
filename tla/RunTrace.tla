---------------------------- MODULE RunTrace ----------------------------
(***************************************************************************)
(* What becomes of a published history: the projection of                  *)
(* temporal/trace.py, the validators of contracts/trace.py, and what the   *)
(* flight recorder (web/flight-recorder) concludes from a trace.  All of   *)
(* it is a function of the events and the published status.                *)
(*                                                                         *)
(* An event keeps the details that these functions read: which operation   *)
(* it is about (step, undo), its outcome, what the tool was declared as,   *)
(* and the steps that a finished unwind lists.                             *)
(***************************************************************************)
EXTENDS Naturals, Sequences, FiniteSetsExt

Kinds == {"started", "agent_decision", "forward_result", "reconciliation_result",
          "guard_rejected", "status_changed", "compensation_result", "human_resolved",
          "compensation_completed"}

WorkflowEvent(kind, before, after) ==
  [kind |-> kind, before |-> before, after |-> after, step |-> 0, undo |-> FALSE,
   declared |-> "none", outcome |-> "none", undone |-> << >>]

Terminal == {"succeeded_verified", "compensated_verified", "aborted_clean"}

----------------------------------------------------------------------------
(***************************************************************************)
(* The projection of one event.                                            *)
(***************************************************************************)
\* A reconciliation always names the forward operation, even that of an undo.
OperationId(e) ==
  [step |-> e.step, undo |-> e.undo /\ e.kind # "reconciliation_result"]

\* A plausible fault: the undo does not name what it undoes.
NamesNoTarget(e) == [step |-> 0, undo |-> FALSE]

CompensatesOperationId(e) ==
  [step |-> IF e.undo /\ e.kind # "human_resolved" THEN e.step ELSE 0, undo |-> FALSE]

Direction(e) ==
  IF e.kind \notin {"forward_result", "reconciliation_result", "compensation_result"} THEN "none"
  ELSE IF e.undo THEN "compensation" ELSE "forward"

IsProof(e) == e.kind = "forward_result" /\ e.declared = "proof"

OutcomeKind(e) ==
  IF e.kind = "reconciliation_result"
    THEN CASE e.outcome = "confirmed_effect" -> "reconcile_effect_confirmed"
           [] e.outcome = "confirmed_no_effect" -> "reconcile_no_effect_confirmed"
           [] OTHER -> e.outcome
  ELSE IF e.declared = "proof" THEN "read_observed"
  ELSE CASE e.outcome = "succeeded" -> IF e.declared = "read" THEN "read_observed" ELSE "effect_confirmed"
         [] e.outcome = "failed" -> "no_effect_confirmed"
         [] OTHER -> "outcome_unknown"

(***************************************************************************)
(* The proofs of a trace, by the position of their source event.           *)
(***************************************************************************)
TraceProofs(es) ==
  {[source |-> i, evaluatedAt |-> i - 1, target |-> "succeeded_verified",
    valid |-> es[i].outcome = "succeeded"] : i \in {k \in DOMAIN es : IsProof(es[k])}}

----------------------------------------------------------------------------
(***************************************************************************)
(* RunTrace: the validators of a projected trace with the given outcome.   *)
(***************************************************************************)
StatusChain(es) == \A i \in 1 .. Len(es) - 1 : es[i].after = es[i + 1].before

OutcomeIsLast(es, outcome) == outcome = es[Len(es)].after

ProofSources(es) ==
  \A p \in TraceProofs(es) :
    /\ p.source \in DOMAIN es /\ IsProof(es[p.source])
    /\ p.evaluatedAt >= 1

ValidRunTrace(es, outcome) ==
  /\ es # << >>
  /\ OutcomeIsLast(es, outcome)
  /\ StatusChain(es)
  /\ ProofSources(es)

----------------------------------------------------------------------------
(***************************************************************************)
(* The recorder's verdict on the end of a trace.                           *)
(***************************************************************************)
\* A plausible fault: only the provider's own evidence counts.
ConfirmedByProviderOnly(es, s) ==
  \E i \in DOMAIN es :
    /\ Direction(es[i]) = "compensation"
    /\ CompensatesOperationId(es[i]).step = s
    /\ OutcomeKind(es[i]) \in {"effect_confirmed", "reconcile_effect_confirmed"}

HumanResolved(es, i) ==
  \E k \in DOMAIN es :
    /\ k > i
    /\ es[k].kind = "human_resolved"
    /\ OperationId(es[k]) = OperationId(es[i])

Confirmed(es, s) ==
  \E i \in DOMAIN es :
    /\ Direction(es[i]) = "compensation"
    /\ CompensatesOperationId(es[i]).step = s
    /\ \/ OutcomeKind(es[i]) \in {"effect_confirmed", "reconcile_effect_confirmed"}
       \/ HumanResolved(es, i)

\* The position of the last event among those found, 0 when there is none.
LastOf(found) == IF found = {} THEN 0 ELSE Max(found)

RecoveryCompleted(es, outcome) ==
  LET r == LastOf({i \in DOMAIN es : es[i].kind = "compensation_completed"})
  IN  /\ r # 0
      /\ outcome = "compensated_verified" /\ es[r].outcome = outcome
      /\ es[r].undone # << >>
      /\ \A n \in DOMAIN es[r].undone : Confirmed(es, es[r].undone[n])

(***************************************************************************)
(* Only the last evaluated proof counts; a tool's proof has one rule.      *)
(***************************************************************************)
ProofCompleted(es, outcome) ==
  LET source == LastOf({i \in DOMAIN es : IsProof(es[i])})
  IN  \E p \in TraceProofs(es) : p.source = source /\ p.valid /\ p.target = outcome

TerminalVerified(es, outcome) ==
  IF outcome = "compensated_verified" THEN RecoveryCompleted(es, outcome)
                                      ELSE ProofCompleted(es, outcome)

(***************************************************************************)
(* The events the recorder connects to the one at position i: those linked *)
(* through operation ids, transitively.                                    *)
(***************************************************************************)
IdsOf(e) == {OperationId(e), CompensatesOperationId(e)} \ {[step |-> 0, undo |-> FALSE]}

TouchedBy(es, ids) == {k \in DOMAIN es : IdsOf(es[k]) \cap ids # {}}

CausalIds(es, i) ==
  LET extend[ids \in SUBSET UNION {IdsOf(es[k]) : k \in DOMAIN es}] ==
        LET more == ids \cup UNION {IdsOf(es[k]) : k \in TouchedBy(es, ids)}
        IN  IF more = ids THEN ids ELSE extend[more]
  IN  extend[IdsOf(es[i])]

CausalEvents(es, i) == {i} \cup TouchedBy(es, CausalIds(es, i))

=============================================================================
