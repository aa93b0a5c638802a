--------------------------- MODULE WorkerFleet ---------------------------
(***************************************************************************)
(* The workers of a task queue (worker.py) and the activities of           *)
(* temporal/activities.py they run for one saga.  Each worker has its own  *)
(* registry, manifest and driver, and every attempt of an activity may be  *)
(* taken by another worker, so two of them may disagree about a tool.      *)
(*                                                                         *)
(* The saga asks for a decision, runs the proposed tool, reconciles it     *)
(* when the outcome is open, and may undo a confirmed effect the same way. *)
(* The provider behind the adapters is honest: it commits an operation id  *)
(* at most once, and its refusal under an id is final.                     *)
(***************************************************************************)
EXTENDS AgentDriver

CONSTANTS
  MaxAttempts,    \* maximum_attempts of the business activities
  Declared,       \* tools of the saga input -> their declared kind and compensation
  NoDefinition

VARIABLES
  call,     \* the forward call of the saga
  run,      \* the activity in progress, for the effect or for its undo
  said,     \* direction -> what the saga was last told, and by which definition
  ledger,   \* direction -> what the provider has under the operation id
  late,     \* executions that go on after their attempt timed out
  receipt   \* whether the effect's receipt contradicts the arguments

fleetVars == <<call, run, said, ledger, late, receipt>>
workVars == <<registryVars, context, driverVars, turnVars, fleetVars>>

Directions == {"forward", "undo"}

ASSUME FleetAssumption ==
  /\ MaxAttempts \in Nat \ {0}
  /\ NoDefinition \notin Offered
  /\ DOMAIN Declared \subseteq Names
  /\ \A t \in DOMAIN Declared :
       /\ Declared[t].kind \in {"read", "effect"}
       /\ Declared[t].comp \in Names \cup {NoTool}
       /\ (Declared[t].kind = "effect") = (Declared[t].comp # NoTool)

NoCall == [tool |-> NoTool, args |-> NoArgs, kind |-> "read", comp |-> NoTool]
IdleRun == [phase |-> "idle", direction |-> "forward", attempts |-> 0]
Untold == [answer |-> "none", by |-> NoDefinition]
Unwritten == [state |-> "open", by |-> NoDefinition]

FleetInit ==
  /\ RegistryInit /\ ManifestInit /\ AgentInit
  /\ call = NoCall
  /\ run = IdleRun
  /\ said = [k \in Directions |-> Untold]
  /\ ledger = [k \in Directions |-> Unwritten]
  /\ late = {}
  /\ receipt = "agrees"

----------------------------------------------------------------------------
Setup == UNCHANGED <<turnVars, fleetVars>>
Activity == UNCHANGED <<registryVars, context, driverVars, turnVars>>

ToolName(k) == IF k = "forward" THEN call.tool ELSE call.comp

Definition(w) ==
  LET n == ToolName(run.direction) IN IF Known(w, n) THEN defs[w][n] ELSE NoDefinition

\* _request_matches_definition: a forward request carries the declaration of
\* the saga input, a compensation only needs an effect of that name.
Matches(d) ==
  IF run.direction = "forward"
    THEN d.kind = call.kind /\ d.comp = call.comp
    ELSE d.kind = "effect"

\* _command_arguments and _command_or_none.
Understands(d) ==
  /\ run.direction = "undo" => receipt = "agrees"
  /\ call.args \in d.schema

Serves(d) == d # NoDefinition /\ Matches(d) /\ Understands(d)

Tell(a, d) == said' = [said EXCEPT ![run.direction] = [answer |-> a, by |-> d]]
Settle(a, d) == Tell(a, d) /\ run' = [run EXCEPT !.phase = "settled"]
Execution(d) == [direction |-> run.direction, by |-> d]

\* Committing again under the same operation id changes nothing.
Commit(k, d) ==
  /\ ledger[k].state # "refused"
  /\ ledger' = IF ledger[k].state = "open"
                 THEN [ledger EXCEPT ![k] = [state |-> "committed", by |-> d]] ELSE ledger

\* The provider says that nothing happened under the id, and nothing will.
Refuse ==
  LET k == run.direction IN
  /\ ledger[k].state # "committed"
  /\ ledger' = [ledger EXCEPT ![k] = [@ EXCEPT !.state = "refused"]]
  /\ late' = {x \in late : x.direction # k}

----------------------------------------------------------------------------
(***************************************************************************)
(* The saga takes the proposal and calls the tool as its input declares it.*)
(* The operation ids are new: what the provider has under older ones stays *)
(* there, out of sight of this module.                                     *)
(***************************************************************************)
CallTool ==
  LET p == turn.proposal IN
  /\ turn.phase = "answered" /\ p # Finish
  /\ call' = [tool |-> p.tool, args |-> p.args,
              kind |-> Declared[p.tool].kind, comp |-> Declared[p.tool].comp]
  /\ run' = [IdleRun EXCEPT !.phase = "running"]
  /\ said' = [k \in Directions |-> Untold]
  /\ ledger' = [k \in Directions |-> Unwritten]
  /\ late' = {} /\ receipt' = "agrees"
  /\ turn' = IdleTurn
  /\ UNCHANGED <<registryVars, context, driverVars, turnsAt, requestsAt>>

Confirmed(k) == said[k].answer \in {"succeeded", "effect"}

\* The proposal ends the saga, or there is none, or the turns are used up: the
\* saga may have to undo a confirmed effect.
Undo ==
  /\ \/ turn.phase = "failed"
     \/ turn.phase = "answered" /\ turn.proposal = Finish
     \/ turn.phase = "idle" /\ run.phase = "settled" /\ TurnsTaken = MaxTurns
  /\ call.kind = "effect" /\ run.direction = "forward" /\ Confirmed("forward")
  /\ run' = [phase |-> "running", direction |-> "undo", attempts |-> 0]
  /\ turn' = IdleTurn
  /\ UNCHANGED <<call, said, ledger, late, receipt,
                 registryVars, context, driverVars, turnsAt, requestsAt>>

----------------------------------------------------------------------------
(***************************************************************************)
(* execute_tool at worker w.  Activity attempts follow one another; each   *)
(* ends the activity, or is lost and leads to the next one.                *)
(***************************************************************************)
Running(w) == run.phase = "running" /\ Ready(w) /\ run.attempts < MaxAttempts
Retry == run' = [run EXCEPT !.attempts = @ + 1]

\* An unknown tool, a contract mismatch, or a command that does not validate.
ExecuteRejected(w) ==
  /\ Running(w) /\ ~Serves(Definition(w))
  /\ Settle("failed", Definition(w))
  /\ UNCHANGED <<call, ledger, late, receipt>> /\ Activity

ExecuteRead(w) ==
  /\ Running(w) /\ Serves(Definition(w)) /\ Definition(w).kind = "read"
  /\ Settle("succeeded", Definition(w))
  /\ UNCHANGED <<call, ledger, late, receipt>> /\ Activity

Executes(w) == Running(w) /\ Serves(Definition(w)) /\ Definition(w).kind = "effect"

\* EffectConfirmed; the receipt is stored with the obligation it creates.
ExecuteConfirmed(w) ==
  /\ Executes(w)
  /\ Commit(run.direction, Definition(w))
  /\ Settle("succeeded", Definition(w))
  /\ IF run.direction = "forward" THEN receipt' \in {"agrees", "differs"} ELSE UNCHANGED receipt
  /\ UNCHANGED <<call, late>> /\ Activity

\* NoEffectConfirmed.
ExecuteRefused(w) ==
  /\ Executes(w)
  /\ Refuse
  /\ Settle("failed", Definition(w))
  /\ UNCHANGED <<call, receipt>> /\ Activity

\* PartialEffectConfirmed, OutcomeUnknown: the workflow goes on to reconcile.
ExecuteUnclear(w) ==
  /\ Executes(w)
  /\ Commit(run.direction, Definition(w)) \/ UNCHANGED ledger
  /\ run' = [run EXCEPT !.phase = "unresolved"]
  /\ UNCHANGED <<call, said, late, receipt>> /\ Activity

\* A plausible fault: an adapter that raises is taken for one that refused.
ExecuteFailed(w) ==
  /\ Executes(w)
  /\ Commit(run.direction, Definition(w)) \/ UNCHANGED ledger
  /\ Settle("failed", Definition(w))
  /\ UNCHANGED <<call, late, receipt>> /\ Activity

\* The worker stops, the adapter raises, the answer is lost, or the attempt
\* times out under an execution that goes on.
ExecuteLost(w) ==
  /\ Running(w)
  /\ \/ UNCHANGED <<ledger, late>>
     \/ Executes(w) /\ Commit(run.direction, Definition(w)) /\ UNCHANGED late
     \/ Executes(w) /\ late' = late \cup {Execution(Definition(w))} /\ UNCHANGED ledger
  /\ Retry
  /\ UNCHANGED <<call, said, receipt>> /\ Activity

LateExecution ==
  /\ \E x \in late : Commit(x.direction, x.by) /\ late' = late \ {x}
  /\ UNCHANGED <<call, run, said, receipt>> /\ Activity

\* The workflow catches the ActivityError; only an effect needs evidence.
Exhausted ==
  /\ run.phase = "running" /\ run.attempts = MaxAttempts
  /\ IF call.kind = "effect"
       THEN run' = [run EXCEPT !.phase = "unresolved"] /\ UNCHANGED said
       ELSE Settle("failed", NoDefinition)
  /\ UNCHANGED <<call, ledger, late, receipt>> /\ Activity

----------------------------------------------------------------------------
(***************************************************************************)
(* reconcile at worker w, attempted once.                                  *)
(***************************************************************************)
Reconciling(w) == run.phase = "unresolved" /\ Ready(w)

ReconcileTarget(w) ==
  /\ Reconciling(w)
  /\ Definition(w) # NoDefinition /\ Matches(Definition(w)) /\ Definition(w).kind = "effect"

\* A command that does not validate is taken for one that was never sent.
ReconcileRejected(w) ==
  /\ ReconcileTarget(w) /\ ~Understands(Definition(w))
  /\ Settle("no effect", Definition(w))
  /\ UNCHANGED <<call, ledger, late, receipt>> /\ Activity

ReconcileEffect(w) ==
  /\ ReconcileTarget(w) /\ Understands(Definition(w))
  /\ ledger[run.direction].state = "committed"
  /\ Settle("effect", Definition(w))
  /\ IF run.direction = "forward" THEN receipt' \in {"agrees", "differs"} ELSE UNCHANGED receipt
  /\ UNCHANGED <<call, ledger, late>> /\ Activity

ReconcileNoEffect(w) ==
  /\ ReconcileTarget(w) /\ Understands(Definition(w))
  /\ Refuse
  /\ Settle("no effect", Definition(w))
  /\ UNCHANGED <<call, receipt>> /\ Activity

\* Pending, conflicting or unsupported evidence, or no answer at all; always
\* so when the worker has no such effect or one of another contract.
ReconcileOpen(w) ==
  /\ Reconciling(w)
  /\ Settle("open", Definition(w))
  /\ UNCHANGED <<call, ledger, late, receipt>> /\ Activity

Execute(w) ==
  \/ ExecuteRejected(w) \/ ExecuteRead(w) \/ ExecuteConfirmed(w) \/ ExecuteRefused(w)
  \/ ExecuteUnclear(w) \/ ExecuteLost(w)

Reconcile(w) ==
  \/ ReconcileRejected(w) \/ ReconcileEffect(w) \/ ReconcileNoEffect(w) \/ ReconcileOpen(w)

\* The main coroutine is at a decision: the last call, if any, was confirmed.
AtDecision ==
  /\ run.direction = "forward" /\ run.phase \in {"idle", "settled"}
  /\ said["forward"].answer \in {"none", "succeeded", "effect"}

(***************************************************************************)
(* The saga starts once every worker is up or down: a worker that comes up *)
(* later is one that is up and takes no task, and the setups of two        *)
(* workers have nothing in common.  A registry stays open all the same.    *)
(***************************************************************************)
Deployed == \A w \in Workers : Ready(w) \/ seal[w] = "gone"

FleetNext ==
  \/ /\ RegistryNext
     /\ UNCHANGED context /\ UNCHANGED driverVars /\ Setup
  \/ \E w \in Workers :
       \/ \E m \in Documents : LoadContext(w, m) /\ UNCHANGED driverVars /\ Setup
       \/ (BuildNative(w) \/ BuildChoice(w)) /\ UNCHANGED fleetVars
       \/ \E A \in SUBSET DOMAIN Declared, f \in BOOLEAN : Deployed /\ AtDecision /\ Decide(w, A, f) /\ UNCHANGED fleetVars
       \/ Execute(w)
       \/ Reconcile(w)
  \/ AgentTurn /\ UNCHANGED fleetVars
  \/ CallTool
  \/ Undo
  \/ LateExecution
  \/ Exhausted

FleetSpec == FleetInit /\ [][FleetNext]_workVars

----------------------------------------------------------------------------
Answers == {"none", "succeeded", "failed", "effect", "no effect", "open"}
SomeDefinition == Offered \cup {NoDefinition}

FleetTypeOK ==
  /\ RegistryTypeOK /\ ManifestTypeOK /\ AgentTypeOK
  /\ call \in [tool : Names \cup {NoTool}, args : Args \cup {NoArgs},
               kind : {"read", "effect"}, comp : Names \cup {NoTool}]
  /\ run \in [phase : {"idle", "running", "unresolved", "settled"},
              direction : Directions, attempts : 0 .. MaxAttempts]
  /\ said \in [Directions -> [answer : Answers, by : SomeDefinition]]
  /\ ledger \in [Directions -> [state : {"open", "committed", "refused"}, by : SomeDefinition]]
  /\ late \subseteq [direction : Directions, by : Offered]
  /\ receipt \in {"agrees", "differs"}

SameContract(c, d) ==
  /\ c # NoDefinition /\ d # NoDefinition
  /\ c.kind = d.kind /\ c.comp = d.comp /\ c.schema = d.schema

\* The same tool, of which c takes other arguments than d.
OnlySchemaDiffers(c, d, k) ==
  /\ c # NoDefinition /\ c.kind = d.kind /\ c.name = d.name
  /\ k = "forward" => c.comp = d.comp
  /\ call.args \in d.schema \ c.schema

(***************************************************************************)
(* How far a definite answer can be trusted, whichever workers attempted   *)
(* the operation, its undo and the reconciliation, and whatever they       *)
(* registered meanwhile.  A success is always true: the provider has the   *)
(* effect.  A failure (activities.py:101, 108) is true, now and later,     *)
(* unless the worker that said so lacks the tool or has it under another   *)
(* contract than the one that ran it.  A reconciliation that found no      *)
(* effect (activities.py:120) is true unless its worker has the very tool  *)
(* with a schema that refuses the arguments the other took: a tool that is *)
(* missing, or of another contract, leaves the outcome open (116-119).     *)
(* In a fleet skewed in these ways the denials may be false; lost answers, *)
(* overrunning executions and late registrations do not make them so.      *)
(***************************************************************************)
DefiniteAnswerIsTrue ==
  \A k \in Directions :
    LET told == said[k]
        done == ledger[k]
    IN /\ Confirmed(k) /\ (k = "undo" \/ call.kind = "effect") => done.state = "committed"
       /\ told.answer = "failed" /\ done.state = "committed" => ~SameContract(told.by, done.by)
       /\ told.answer = "no effect" /\ done.state = "committed" =>
            OnlySchemaDiffers(told.by, done.by, k)

=============================================================================
