-------------------------- MODULE SagaSystem ---------------------------
(***************************************************************************)
(* The saga workflow together with what its business activities do in the  *)
(* world: the worker of temporal/activities.py runs an effect tool in at   *)
(* most two attempts, and the provider behind the tool's adapter commits   *)
(* an effect, or its undo, at most once per operation id.  A response may  *)
(* be lost after the commit, and an execution may outlive its attempt.     *)
(*                                                                         *)
(* A step stands for a pair of operation ids, the forward one and that of  *)
(* its undo.  Effect receipts are never empty in this module.              *)
(***************************************************************************)
EXTENDS AgenticSagaWorkflow

CONSTANTS
  MaxAttempts,     \* maximum_attempts of the business activities
  Overruns,        \* whether an execution may go on after its attempt timed out
  FinalRefusals    \* whether a refused execution also voids the ones before it

ASSUME SystemAssumption ==
  /\ MaxAttempts \in Nat \ {0}
  /\ Overruns \in BOOLEAN
  /\ FinalRefusals \in BOOLEAN
  /\ EmptyReceipts = FALSE

VARIABLES
  attempt,   \* attempts made for the awaited business activity
  answer,    \* what the last attempt brought back
  applied,   \* operations whose forward effect exists at the provider
  reversed,  \* operations whose undo exists at the provider
  late,      \* executions still running after their attempt timed out
  inDoubt    \* history: the operation whose reconciliation stayed open, or 0

activity == <<attempt, answer>>
provider == <<applied, reversed, late>>
sysVars  == <<vars, activity, provider, inDoubt>>

Answers == {"none", "confirmed", "refused", "unclear", "lost"}

SysInit ==
  /\ Init
  /\ attempt = 0 /\ answer = "none"
  /\ applied = {} /\ reversed = {} /\ late = {}
  /\ inDoubt = 0

Running == pc = "compensating" \/ (pc = "forward" /\ tool \in Effects)
Execution == [kind |-> IF pc = "forward" THEN "effect" ELSE "undo", step |-> step]

Landed(x) == IF x.kind = "effect" THEN x.step \in applied ELSE x.step \in reversed

\* Committing again under the same operation id changes nothing.
Land(x) ==
  /\ applied' = IF x.kind = "effect" THEN applied \cup {x.step} ELSE applied
  /\ reversed' = IF x.kind = "undo" THEN reversed \cup {x.step} ELSE reversed

\* A plausible fault: the limit counts retries instead of attempts.
AttemptOnceMore(a) ==
  /\ Running
  /\ answer \in {"none", "lost"}
  /\ attempt <= MaxAttempts
  /\ attempt' = attempt + 1
  /\ answer' = a
  /\ UNCHANGED <<vars, inDoubt>>

Attempt(a) ==
  /\ Running
  /\ answer \in {"none", "lost"}
  /\ attempt < MaxAttempts
  /\ attempt' = attempt + 1
  /\ answer' = a
  /\ UNCHANGED <<vars, inDoubt>>

AttemptConfirmed == Attempt("confirmed") /\ Land(Execution) /\ UNCHANGED late

\* The adapter answers NoEffectConfirmed.
AttemptRefused ==
  /\ Attempt("refused")
  /\ ~Landed(Execution)
  /\ late' = IF FinalRefusals THEN late \ {Execution} ELSE late
  /\ UNCHANGED <<applied, reversed>>

\* An unknown or partial outcome, or an exception, before or after the commit.
AttemptUnclear ==
  /\ \E a \in {"unclear", "lost"} : Attempt(a)
  /\ Land(Execution) \/ UNCHANGED <<applied, reversed>>
  /\ UNCHANGED late

AttemptOverruns ==
  /\ Overruns
  /\ Attempt("lost")
  /\ late' = late \cup {Execution}
  /\ UNCHANGED <<applied, reversed>>

LateExecutionLands ==
  /\ \E x \in late : Land(x) /\ late' = late \ {x}
  /\ UNCHANGED <<vars, activity, inDoubt>>

\* A plausible fault: an unclear answer is taken for a failure.
AnsweredSloppily(a) == answer = a \/ (a = "refused" /\ answer = "unclear")

Answered(a) == answer = a

\* Answered "unresolved", or an ActivityError once the attempts are used up.
Unclear == answer = "unclear" \/ (answer = "lost" /\ attempt = MaxAttempts)

NextActivity == attempt' = 0 /\ answer' = "none"

EffectSucceeds == tool \in Effects /\ Answered("confirmed") /\ ForwardSucceeds
EffectRefused  == tool \in Effects /\ Answered("refused") /\ ForwardFails
EffectUnknown  == Unclear /\ ForwardUnknown
UndoSucceeds   == Answered("confirmed") /\ CompensationSucceeds
UndoRefused    == Answered("refused") /\ CompensationRefused
UndoUnknown    == Unclear /\ CompensationUnknown

ActivityCompletes ==
  /\ \/ EffectSucceeds \/ EffectRefused \/ EffectUnknown
     \/ UndoSucceeds \/ UndoRefused \/ UndoUnknown
  /\ NextActivity
  /\ UNCHANGED <<provider, inDoubt>>

(***************************************************************************)
(* A cancellation of the workflow reaches the awaited activity: it ends in *)
(* an ActivityError at once, the execution is not waited for.              *)
(***************************************************************************)
CancelInFlight ==
  /\ Running
  /\ ForwardUnknown \/ CompensationUnknown
  /\ NextActivity
  /\ late' \in {late} \cup (IF Overruns THEN {late \cup {Execution}} ELSE {})
  /\ UNCHANGED <<applied, reversed, inDoubt>>

(***************************************************************************)
(* Reconciliation by operation id.  The provider is authoritative: when it *)
(* proves that nothing happened, nothing will happen under that id.        *)
(***************************************************************************)
\* A plausible fault: an operation the provider still works on counts as found.
EffectAssumed == ReconciledEffect /\ UNCHANGED <<provider, inDoubt>>

EffectFound == step \in applied /\ ReconciledEffect /\ UNCHANGED <<provider, inDoubt>>

\* A plausible fault: an operation the provider does not report counts as void.
NoEffectGuessed == ReconciledNoEffect /\ UNCHANGED <<provider, inDoubt>>

NoEffectProven ==
  /\ step \notin applied
  /\ ReconciledNoEffect
  /\ late' = {x \in late : x.step # step}
  /\ UNCHANGED <<applied, reversed, inDoubt>>

EffectStaysOpen == StillUnknown /\ inDoubt' = step /\ UNCHANGED provider

UndoFound == step \in reversed /\ ReconciledUndo /\ UNCHANGED <<provider, inDoubt>>

UndoStaysOpen == UndoUnproven /\ UNCHANGED <<provider, inDoubt>>

Reconciliation ==
  /\ EffectFound \/ NoEffectProven \/ EffectStaysOpen \/ UndoFound \/ UndoStaysOpen
  /\ UNCHANGED activity

(***************************************************************************)
(* A verified human resolution comes with the receipt of an undo that was  *)
(* carried out outside the saga.                                           *)
(***************************************************************************)
UndoneByHuman(o) ==
  /\ Resolve(o)
  /\ reversed' = reversed \cup {desk[o].step}
  /\ UNCHANGED <<applied, late, activity, inDoubt>>

Read == tool \notin Effects /\ (ForwardSucceeds \/ ForwardFails)

Elsewhere ==
  /\ \/ Start \/ DecisionFails \/ ProposalRejected \/ ToolCalled \/ FinishProposed
     \/ Read \/ CancelWhileWaiting
     \/ \E o \in Operators :
          \/ ReadState(o) \/ SubmitAccepted(o) \/ SubmitRejected(o)
          \/ VerificationFails(o) \/ Conflict(o)
     \/ Rest
  /\ UNCHANGED <<activity, provider, inDoubt>>

SysNext ==
  \/ AttemptConfirmed \/ AttemptRefused \/ AttemptUnclear \/ AttemptOverruns
  \/ LateExecutionLands
  \/ ActivityCompletes
  \/ CancelInFlight
  \/ Reconciliation
  \/ \E o \in Operators : UndoneByHuman(o)
  \/ Elsewhere

SysSpec == SysInit /\ [][SysNext]_sysVars

----------------------------------------------------------------------------
SysTypeOK ==
  /\ TypeOK
  /\ attempt \in 0 .. MaxAttempts /\ answer \in Answers
  /\ applied \subseteq Nat /\ reversed \subseteq Nat
  /\ late \subseteq [kind : {"effect", "undo"}, step : Nat]
  /\ inDoubt \in Nat

Obligations == {journal[i].step : i \in DOMAIN journal}

(***************************************************************************)
(* Every effect that exists, or may still come to exist, is somebody's     *)
(* business: it is an obligation of the journal, the operation the saga    *)
(* is awaiting or reconciling, or the one it stopped for.                  *)
(***************************************************************************)
EveryEffectIsOwned ==
  applied \cup {x.step : x \in {y \in late : y.kind = "effect"}}
    \subseteq Obligations \cup {inDoubt} \cup (IF pc \in {"forward", "reconciling"} THEN {step} ELSE {})

(***************************************************************************)
(* Only what happened is undone: an undo is attempted for an effect that   *)
(* exists, and every obligation the journal calls settled is undone at the *)
(* provider.                                                               *)
(***************************************************************************)
JournalMatchesProvider ==
  /\ Obligations \subseteq applied
  /\ reversed \subseteq Obligations
  /\ \A i \in DOMAIN journal : journal[i].state = "succeeded" => journal[i].step \in reversed

(***************************************************************************)
(* No dangling effect: a saga that closes clean or compensated leaves no   *)
(* effect behind at the provider, one that stops for a human at most the   *)
(* one it could not reconcile, and one that succeeds exactly the effects   *)
(* of its obligations, proven after the last of them.                      *)
(***************************************************************************)
NoDanglingEffect ==
  pc = "closed" =>
    CASE status \in {"aborted_clean", "compensated_verified"} -> applied \subseteq reversed
      [] status = "human_required" -> applied \ reversed \subseteq {inDoubt}
      [] OTHER -> /\ applied = Obligations /\ reversed = {}
                  /\ \A p \in Proofs, s \in applied : s < proofStep[p]

(***************************************************************************)
(* No undo overtakes the reversal of a later effect: at the provider, too, *)
(* effects disappear newest first.                                         *)
(***************************************************************************)
EffectsAreUndoneInReverse ==
  [][\A s \in reversed' \ reversed : \A u \in applied \cap Obligations : u > s => u \in reversed']_sysVars

=============================================================================
