-------------------------- MODULE OrderSystem --------------------------
(***************************************************************************)
(* The saga workflow run against the provider of examples/ecommerce: the   *)
(* checkout of one order of quantity one.  Unlike the provider assumed by  *)
(* SagaSystem this one has rules of its own, on the phase of the order and *)
(* on the command, and it answers a reconciliation by comparing both the   *)
(* operation id and the command with its present state.                    *)
(*                                                                         *)
(* An execution at the provider is one step of its event loop, so none     *)
(* outlives its attempt; its reply, though, may not reach the workflow.    *)
(***************************************************************************)
EXTENDS AgenticSagaWorkflow

CONSTANTS
  Scenarios,    \* ScenarioNames the provider may be built with
  LossyOps,     \* operations whose reply may get lost, or be abandoned
  Versions,     \* inventory versions an agent may ask for
  MaxAttempts   \* maximum_attempts of the business activities

UndoOf == [reserve_inventory |-> "release_inventory",
           charge_payment |-> "refund_payment",
           schedule_fulfillment |-> "cancel_fulfillment"]

ASSUME OrderAssumption ==
  /\ Effects = DOMAIN UndoOf
  /\ Tools = Effects \cup {"verify_order"}
  /\ Scenarios \subseteq {"happy-path", "business-failure", "lost-response", "compensation-failure"}
  /\ MaxAttempts \in Nat \ {0}
  /\ Versions \subseteq Nat
  /\ EmptyReceipts = FALSE

VARIABLES
  scenario,
  order,      \* the part of ProviderState that changes
  receipts,   \* operation ids the provider holds a receipt for
  command,    \* arguments of the last accepted proposal
  attempt,    \* attempts made for the awaited business activity
  answer,     \* what the last attempt brought back
  inDoubt,    \* history: the operation whose reconciliation failed, or 0
  byHand      \* history: operations whose undo a human settled

activity  == <<attempt, answer>>
provider  == <<scenario, order, receipts>>
history   == <<inDoubt, byHand>>
orderVars == <<vars, command, activity, provider, history>>

Undoing     == pc \in {"compensating", "reconciling_compensation"}
Operation   == IF Undoing THEN UndoOf[tool] ELSE tool
OperationId == [step |-> step, undo |-> Undoing]
Orders      == [available : 0 .. 2, reserved : 0 .. 1, version : 1 .. 3,
                payment : {"open", "captured", "refunded"},
                fulfillment : {"pending", "scheduled", "rejected", "cancelled"}]
NewOrder    == [available |-> 2, reserved |-> 0, version |-> 1,
                payment |-> "open", fulfillment |-> "pending"]

OrderInit ==
  /\ Init
  /\ scenario \in Scenarios
  /\ order = NewOrder /\ receipts = {}
  /\ command = [correct |-> TRUE, version |-> 1]
  /\ attempt = 0 /\ answer = "none"
  /\ inDoubt = 0 /\ byHand = {}

----------------------------------------------------------------------------
(***************************************************************************)
(* The provider.  A forward command is correct when it names the order,    *)
(* its quantity and its amount; only a reservation also names a version.   *)
(* An undo takes its arguments from the forward command that succeeded.    *)
(***************************************************************************)
CommandMatches ==
  \/ Undoing
  \/ command.correct /\ (tool = "reserve_inventory" => command.version = order.version)

\* A plausible fault: a rejected shipment cannot be cancelled.
CancelsOnlyScheduled(op) ==
  CASE op = "reserve_inventory" -> order.payment = "open" /\ order.reserved = 0 /\ order.available >= 1
    [] op = "charge_payment" -> order.payment = "open" /\ order.reserved = 1
    [] op = "schedule_fulfillment" -> order.payment = "captured" /\ order.fulfillment = "pending"
    [] op = "cancel_fulfillment" -> order.fulfillment = "scheduled"
    [] op = "refund_payment" -> order.payment = "captured" /\ order.fulfillment = "cancelled"
    [] op = "release_inventory" -> order.payment = "refunded" /\ order.reserved = 1

PhaseAllows(op) ==
  CASE op = "reserve_inventory" -> order.payment = "open" /\ order.reserved = 0 /\ order.available >= 1
    [] op = "charge_payment" -> order.payment = "open" /\ order.reserved = 1
    [] op = "schedule_fulfillment" -> order.payment = "captured" /\ order.fulfillment = "pending"
    [] op = "cancel_fulfillment" -> order.fulfillment \in {"scheduled", "rejected"}
    [] op = "refund_payment" -> order.payment = "captured" /\ order.fulfillment = "cancelled"
    [] op = "release_inventory" -> order.payment = "refunded" /\ order.reserved = 1

Rejecting == scenario \in {"business-failure", "compensation-failure"}

\* A plausible fault: released stock stays reserved.
ReleaseForgotten(op) ==
  CASE op = "reserve_inventory" -> [order EXCEPT !.available = @ - 1, !.reserved = @ + 1, !.version = @ + 1]
    [] op = "charge_payment" -> [order EXCEPT !.payment = "captured"]
    [] op = "schedule_fulfillment" ->
         [order EXCEPT !.fulfillment = IF Rejecting THEN "rejected" ELSE "scheduled"]
    [] op = "cancel_fulfillment" -> [order EXCEPT !.fulfillment = "cancelled"]
    [] op = "refund_payment" -> [order EXCEPT !.payment = "refunded"]
    [] op = "release_inventory" -> [order EXCEPT !.available = @ + 1, !.version = @ + 1]

Mutated(op) ==
  CASE op = "reserve_inventory" -> [order EXCEPT !.available = @ - 1, !.reserved = @ + 1, !.version = @ + 1]
    [] op = "charge_payment" -> [order EXCEPT !.payment = "captured"]
    [] op = "schedule_fulfillment" ->
         [order EXCEPT !.fulfillment = IF Rejecting THEN "rejected" ELSE "scheduled"]
    [] op = "cancel_fulfillment" -> [order EXCEPT !.fulfillment = "cancelled"]
    [] op = "refund_payment" -> [order EXCEPT !.payment = "refunded"]
    [] op = "release_inventory" -> [order EXCEPT !.available = @ + 1, !.reserved = @ - 1, !.version = @ + 1]

ResponseIsLost ==
  <<scenario, Operation>> \in {<<"lost-response", "charge_payment">>,
                               <<"compensation-failure", "refund_payment">>}

Repeated == OperationId \in receipts

Executing == pc = "compensating" \/ (pc = "forward" /\ tool \in Effects)

Attempt(a) ==
  /\ Executing
  /\ answer \in {"none", "lost"} /\ attempt < MaxAttempts
  /\ attempt' = attempt + 1
  /\ answer' = a
  /\ UNCHANGED <<vars, command, history>>

\* The reply to an execution that would answer a.
Reply(a) == Attempt(a) \/ (Operation \in LossyOps /\ Attempt("lost"))

Reported == Reply(IF ResponseIsLost THEN "lost" ELSE "confirmed")

ExecuteAgain ==
  /\ Reported
  /\ Repeated
  /\ UNCHANGED provider

Execute ==
  /\ Reported
  /\ ~Repeated /\ CommandMatches /\ PhaseAllows(Operation)
  /\ order' = Mutated(Operation)
  /\ receipts' = receipts \cup {OperationId}
  /\ UNCHANGED scenario

Refuse ==
  /\ Reply("refused")
  /\ ~Repeated /\ ~(CommandMatches /\ PhaseAllows(Operation))
  /\ UNCHANGED provider

\* The attempt timed out before a worker got to it.
NeverExecuted ==
  /\ Operation \in LossyOps
  /\ Attempt("lost")
  /\ UNCHANGED provider

----------------------------------------------------------------------------
(***************************************************************************)
(* What the workflow learns.                                               *)
(***************************************************************************)
NextActivity == attempt' = 0 /\ answer' = "none"

LostForGood == answer = "lost" /\ attempt = MaxAttempts

ActivityCompletes ==
  /\ \/ answer = "confirmed" /\ tool \in Effects /\ ForwardSucceeds
     \/ answer = "refused" /\ tool \in Effects /\ ForwardFails
     \/ LostForGood /\ ForwardUnknown
     \/ answer = "confirmed" /\ CompensationSucceeds
     \/ answer = "refused" /\ CompensationRefused
     \/ LostForGood /\ CompensationUnknown
  /\ NextActivity
  /\ UNCHANGED <<command, provider, history>>

\* The saga is cancelled; what the activity did is not waited for.
CancelInFlight ==
  /\ Executing
  /\ Operation \in LossyOps
  /\ ForwardUnknown \/ CompensationUnknown
  /\ NextActivity
  /\ UNCHANGED <<command, provider, history>>

\* A plausible fault: an operation with a matching command counts as found.
FoundByCommand == CommandMatches

Found ==
  /\ Repeated /\ CommandMatches
  /\ ~(scenario = "compensation-failure" /\ Operation = "refund_payment")

EffectReconciled == Found /\ ReconciledEffect /\ UNCHANGED history

NoMatchingEffect == ~Found /\ ReconciledNoEffect /\ UNCHANGED history

ReconciliationFails ==
  /\ pc = "reconciling"
  /\ UnwindBeforeHuman(journal, 0)
  /\ inDoubt' = step
  /\ UNCHANGED <<toolCalls, evidence, book, desk, byHand>>

UndoReconciled == Found /\ ReconciledUndo /\ UNCHANGED history

UndoNotFound ==
  /\ pc = "reconciling_compensation"
  /\ Disputed(1) \/ (~Found /\ Disputed(2))
  /\ UNCHANGED history

Reconciliation ==
  /\ \/ EffectReconciled \/ NoMatchingEffect \/ ReconciliationFails
     \/ UndoReconciled \/ UndoNotFound
  /\ UNCHANGED <<command, activity, provider>>

\* A plausible fault: an order is proven by being found.
VerifiedWhenFound == tool \notin Effects /\ command.correct /\ ForwardSucceeds

(***************************************************************************)
(* verify_order: only a correct query of a scheduled order is a proof, a   *)
(* lost read is a failure.                                                 *)
(***************************************************************************)
Verified == tool \notin Effects /\ command.correct /\ order.fulfillment = "scheduled" /\ ForwardSucceeds

NotVerified ==
  /\ tool \notin Effects
  /\ command.correct /\ order.fulfillment = "scheduled" => tool \in LossyOps
  /\ ForwardFails

ProposeCommand ==
  /\ ToolCalled
  /\ \E c \in BOOLEAN, v \in IF tool' = "reserve_inventory" THEN Versions ELSE {1} :
       command' = [correct |-> c, version |-> v]
  /\ UNCHANGED <<activity, provider, history>>

\* The demo's operator confirms the undo; the order itself is not touched.
SettledByHand(o) ==
  /\ Resolve(o)
  /\ byHand' = byHand \cup {desk[o].step}
  /\ UNCHANGED <<command, activity, provider, inDoubt>>

Elsewhere ==
  /\ \/ Start \/ DecisionFails \/ ProposalRejected \/ FinishProposed
     \/ Verified \/ NotVerified \/ CancelWhileWaiting
     \/ \E o \in Operators :
          \/ ReadState(o) \/ SubmitAccepted(o) \/ SubmitRejected(o)
          \/ VerificationFails(o) \/ Conflict(o)
     \/ Rest
  /\ UNCHANGED <<command, activity, provider, history>>

OrderNext ==
  \/ ProposeCommand
  \/ Execute \/ ExecuteAgain \/ Refuse \/ NeverExecuted
  \/ ActivityCompletes
  \/ CancelInFlight
  \/ Reconciliation
  \/ \E o \in Operators : SettledByHand(o)
  \/ Elsewhere

OrderSpec == OrderInit /\ [][OrderNext]_orderVars

----------------------------------------------------------------------------
(***************************************************************************)
(* Type invariant; the stock is conserved and the order stays in phase.    *)
(***************************************************************************)
OrderTypeOK ==
  /\ TypeOK
  /\ order \in Orders /\ order.available + order.reserved = 2
  /\ receipts \subseteq [step : Nat, undo : BOOLEAN]
  /\ attempt \in 0 .. MaxAttempts /\ answer \in {"none", "confirmed", "refused", "lost"}

Restored ==
  /\ order.available = 2 /\ order.reserved = 0
  /\ order.payment \in {"open", "refunded"}
  /\ order.fulfillment \in {"pending", "cancelled"}

(***************************************************************************)
(* The verdict is true of the order: a verified success shipped and paid   *)
(* for it, a clean abort never touched it (saga.yaml: no_external_effects) *)
(* and a compensation that no human had a hand in restored it.             *)
(***************************************************************************)
VerdictTrueOfOrder ==
  pc = "closed" =>
    /\ status = "succeeded_verified" =>
         order.reserved = 1 /\ order.payment = "captured" /\ order.fulfillment = "scheduled"
    /\ status = "aborted_clean" => order = NewOrder
    /\ status = "compensated_verified" /\ byHand = {} => Restored

(***************************************************************************)
(* A complete order unwinds by the provider's rules: as long as no human   *)
(* had a hand in it, no undo of its three effects is ever refused.         *)
(***************************************************************************)
CompleteOrdersUnwind ==
  [][pc = "compensating" /\ pc' = "human" => byHand # {} \/ Len(journal) < 3]_orderVars

(***************************************************************************)
(* The README of the example promises that a human only ever resolves an   *)
(* uncertain undo, and that an ordinary business rejection is handled      *)
(* automatically: no undo is refused outright.                             *)
(***************************************************************************)
RejectionNeedsNoHuman == [][pc = "compensating" => pc' # "human"]_orderVars

(***************************************************************************)
(* The example's provider is one that SagaSystem may assume: it commits    *)
(* once per operation id, its refusals are final, and its reconciliations  *)
(* find exactly what was committed.                                        *)
(***************************************************************************)
System == INSTANCE SagaSystem WITH
  Overruns <- FALSE, FinalRefusals <- TRUE,
  applied <- {r.step : r \in {x \in receipts : ~x.undo}},
  reversed <- {r.step : r \in {x \in receipts : x.undo}} \cup byHand,
  late <- {}

IsAssumedProvider == System!SysSpec

=============================================================================
