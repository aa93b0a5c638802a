# agentic-saga in TLA+

Agentic-saga lets a language-model agent run business tools inside a durable
Temporal workflow: the agent proposes one tool call at a time, the workflow
decides whether it may run, remembers every confirmed effect as an obligation,
undoes the obligations newest first when the goal has to be given up, and stops
for a human when an undo cannot be proven. This directory holds TLA+ models of
that machinery, TLC configurations that check them on small instances, and
proofs, checked by TLAPS, for every value of the constants.

Paths below are relative to the repository.

## 1. Inventory

### 1.1 Components

| Component | Source | State it keeps | Operations |
|---|---|---|---|
| Compensation journal | `src/agentic_saga/temporal/journal.py` | a sequence of compensation records, an optional reason why a human is required | `record_forward_success`, `next_request`, `record_compensation`, `can_resolve`, `resolve_unresolved` |
| Saga workflow | `temporal/workflow.py`, `temporal/contracts.py` | published `SagaState` (status, event sequence, compensations), journal, call counters, successful tools, fresh proofs, goal of the unwind | `run`, query `state`, Update `resolve_compensation` and its validator |
| Clients and operators | `temporal/client.py` | none durable | `start_saga`, `query_saga_state`, `resolve_human_compensation` |
| Activities | `temporal/activities.py`, `temporal/worker.py` | none; a process-wide tool registry | decide, execute tool, reconcile, verify a resolution |
| Business providers | contracts in `contracts/outcomes.py`; code external | effects per operation id | commit, undo, reconcile by operation id |
| Ecommerce example provider | `examples/ecommerce/provider.py`, `domain.py` | order phase, inventory version, receipts per operation id | reserve, charge, fulfil and their undos, verify, reconcile |
| Trace projection | `temporal/trace.py`, `contracts/trace.py` | none (a function of the history) | project a history to a `RunTrace`, validate it |
| Tool registry and outcomes | `contracts/tools.py`, `contracts/outcomes.py` | a catalogue per worker, open or frozen | construct, `register_read`, `register_effect` with its rollback, `freeze`, look up; normalise an outcome |
| Saga Context Manifest | `manifest.py` | the document a worker is bound to | parse, validate, compare with the registry |
| Agent drivers | `agents/*.py` | caps on a model request | build under a budget, check the catalogue, choose a candidate or fail |
| Flight recorder server | `demo/server.py` | handler slots, active requests, read-deadline timers | accept, serve, time out, shut down |
| Flight recorder site | `demo/assets.py` | a claimed destination directory, its descriptors | claim, materialise, validate, clean up |
| Recorder command | `cli/demo.py` | a temporary workspace, an exit status | load, build, serve, remove, exit |
| Flight recorder web application | `web/flight-recorder/src` | position of the replay | play, pause, seek; draw conclusions |
| Ecommerce demo and evaluation | `examples/ecommerce/` | none | scripted runs |
| Redaction, canonical JSON | `contracts/redaction.py`, `contracts/common.py` | none | pure functions |
| Build and release | `.dagger/`, `scripts/` | none | build scripts |

### 1.2 How they interact

A client starts a workflow under an id that can be used once. The workflow's
main coroutine awaits activities, one at a time: an agent decision, a forward
tool, a reconciliation, an undo. The worker runs an activity against the
adapter of a tool, at most twice, within a start-to-close timeout, and maps
what the adapter returned or raised to *succeeded*, *failed* or *unresolved*.
The adapter's provider keeps the effects, keyed by an operation id which the
workflow derives from the event sequence that the accepted proposal was based
on. A client may query the published state at any time. When the unwind is
paused, an authenticated operator submits an Update that names a compensation
and the event sequence the operator has seen; the Update's validator runs on
arrival, its handler awaits one more activity (the verification) and only then
settles the entry, which wakes the main coroutine up.

A worker is a process with a registry, a manifest bound to it and an agent
driver built for the manifest. Several workers poll one task queue, and the
server gives each attempt of an activity to any of them. The recorder is apart
from all this: a command builds a site from recorded traces in a temporary
workspace, serves it to loopback clients from one accepting thread, one thread
per request and one timer per request, and removes the workspace when the user
interrupts it.

### 1.3 What is hard

* the Update handler reads state before an await and uses it after it, while
  other handlers do the same;
* a response can be lost after the commit, an execution can outlive its
  attempt, and the next attempt carries the same operation id;
* a cancellation abandons an activity in flight;
* undos have to stay newest first across disputes, pauses and human settlements;
* a proof of success goes stale with every later effect;
* what a query returns is a copy of the journal, refreshed by hand;
* limits on turns and calls are reached in the middle of a saga, with
  obligations open;
* a registry can change after a manifest was compared with it, and two workers
  of one queue may define a tool differently;
* a budget that is divided by turns and requests rounds down;
* a server's slots, timers and tracking tables change in four kinds of threads,
  while its owner shuts it down;
* a build that fails or is interrupted between any two steps has to take back
  what it wrote.

`PROJECT.json` lists these hazards one by one, each at the line where it bites,
with the properties that would catch it.

### 1.4 What makes each component correct

* *Journal*: an obligation is never dropped, reordered, reopened or overtaken.
* *Workflow*: operation ids are never reused for another obligation; the result
  that arrives is always the result of the frontier; the verdict is true; once
  forward work is given up it never resumes; automation always comes to rest.
* *Operators*: a resolution settles the dispute its operator looked at; a query
  asks for a human exactly when a resolution would be accepted.
* *Workflow with activities and provider*: journal and provider agree, and no
  effect is left behind by a saga that says it left none.
* *Ecommerce provider*: what the saga says of an order is true of it; an order
  can be undone; a reconciliation tells the truth.
* *Trace projection*: every history that the workflow can publish has a valid
  trace, from which an auditor finds the obligations a query would return.
* *Flight recorder web application*: it calls verified exactly what the workflow
  does.
* *Registry and manifest*: the catalogue a worker was bound to stays as it was
  pinned; whatever is registered in whatever order, a registered compensator is
  an effect and the compensations can be put in an order.
* *Activities at several workers*: a reported success is true of the provider; a
  denial is, where the workers agree on the tool.
* *Agent drivers*: every turn keeps to its share of the budget.
* *Recorder server*: a slot is lost only with a thread that cannot start, one for
  each, and none is given back twice; a deadline only drops clients that have not
  sent a proper head; a shutdown comes to an end and leaves nothing.
* *Recorder site*: a failed build leaves no recording behind, and a build
  returns its descriptors but at the places without a handler.
* *Recorder command*: only a verified site is served, and a success is clean
  unless the user interrupted the taking down.

## 2. Modules

```
SagaContract            what a saga promises (abstract)
   ^ implemented by
AgenticSagaWorkflow --- EXTENDS ---> CompensationJournal
   ^                 ^
SagaSystem           |
   ^      ^          |
MCSystem  |       MCWorkflow
          | implemented by
      OrderSystem --- EXTENDS ---> AgenticSagaWorkflow
          ^
       MCOrder

RunTrace <--- EXTENDS --- SagaLedger --- EXTENDS ---> AgenticSagaWorkflow
                              ^
                           MCLedger

ToolRegistry <-- SagaManifest <-- AgentDriver <-- WorkerFleet <-- MCWorker

RecorderSite, RecorderServer <--- EXTENDS --- RecorderDemo <-- MCRecorder

                                 SagaContract_proofs
                                     ^
AgenticSagaWorkflow_proofs <-- AgenticSagaWorkflow_steps <-- SagaSystem_proofs
    ^                              ^
SagaLedger_proofs         OrderSystem_proofs

                               WorkerFleet_proofs            RecorderDemo_proofs
```

Definitions that a comment calls *a plausible fault* are variants of the
operation after them. They are part of no behaviour: each shows, put in the
place of the real operation, that some property would notice the difference.

### 2.1 CompensationJournal: `temporal/journal.py`

Operators over a sequence of entries. An entry is a `CompensationRecord`
reduced to `step` (the event sequence its proposal was based on; both operation
ids of the record are derived from it), `tool` and the state of the undo.
`IsFrontier` is `next_request` without the reason that blocks it,
`RecordForward` is `record_forward_success`, `Mark` the rewriting that
`record_compensation` and `resolve_unresolved` share, `CanResolve` is
`can_resolve`.

### 2.2 AgenticSagaWorkflow: `temporal/workflow.py`

A workflow is single-threaded between awaits, so **one action is one
activation**: it starts when an awaited activity completes, or when an Update
arrives, and runs to the next await. `pc` names that await:

| `pc` | the coroutine is suspended in |
|---|---|
| `created` | not started |
| `deciding` | the agent activity of a turn |
| `forward` | a forward tool |
| `reconciling` | the reconciliation of a forward effect |
| `compensating` | an undo |
| `reconciling_compensation` | the reconciliation of an undo |
| `human` | the wait for a resolution |
| `closed`, `cancelled` | ended with a result, ended by a cancellation |
| `task_failed` | workflow code raised: the task is retried for ever and fails for ever |

The continuations `NextTurn`, `Stop`, `HandleForwardFailure`,
`UnwindBeforeHuman`, `Unwind`, `Advance` and `WaitForHuman` are the methods of
the same names: what an activation does from the point where it knows the
result. Every action ends in one of them, so the trailing work (refreshing the
copy of the journal, publishing the status, counting events) is part of it.
`eventCount` is the length of the published event sequence; each activation
adds the number of events that the code records on that path. It matters
because proposals, operation ids and Updates all refer to it.

An activity may answer anything the code's types admit. The agent may base its
proposal on any sequence up to one beyond the current one, and may name any
tool; the actions `ProposalRejected`, `ToolCalled` and `FinishProposed` are the
three ways the workflow reacts. What the proposal says in words, the event
details, the receipts and arguments are abstracted away; of receipts the model
keeps whether they are empty, because `CompensationRecord` rejects those.
`proofStep` is a history variable: the operation that last proved a tool's
claim, kept so that freshness can be stated without the code's own set
`freshProofs`.

An operator is idle, has read an entry (`ReadState`), or waits for the
verification between the validator and the rest of the handler
(`SubmitAccepted`, then `Resolve`, `Conflict` or `VerificationFails`). The desk
remembers the sequence that was read, so a decision can be arbitrarily old when
it is submitted, and any number of handlers can be suspended at once.

A cancellation is not one action: `asyncio` delivers it into the await, and the
code treats the resulting `ActivityError` as it treats any other. It therefore
shows up as `DecisionFails`, `ForwardFails` (a read), `ForwardUnknown`,
`StillUnknown`, `CompensationUnknown`, `UndoUnproven`; only in the wait for a
human does it end the workflow (`CancelWhileWaiting`).

### 2.3 SagaSystem: the workflow, its activities and a provider

Composes the actions of AgenticSagaWorkflow with the attempts of
`execute_tool` and with an external provider that commits an effect, or its
undo, at most once per operation id. `applied` and `reversed` are what exists
at the provider; `late` are executions whose attempt timed out while they
still run and which may land at any later time. An activity completes with what
its last attempt brought back (`answer`): a definite answer, an unclear one, or,
when the last permitted attempt was lost, an `ActivityError`. `CancelInFlight`
ends the awaited activity without waiting for the execution.
Reconciliation is authoritative: "no effect" is only answered when nothing was
committed, and from then on nothing is committed under that id.
Reads have no effect at the provider and complete as in the workflow module.

Two named assumptions about the provider are constants: `Overruns` (executions
may outlive their attempt) and `FinalRefusals` (a refused execution voids the
earlier executions of the same operation id). `inDoubt` is a history variable:
the operation whose reconciliation stayed open, of which the saga says that it
needs a human.

### 2.4 OrderSystem: the workflow against the ecommerce example's provider

SagaSystem assumes a provider; this module translates one,
`examples/ecommerce/provider.py`, for a checkout of quantity one. `order` is
the part of `ProviderState` that changes, `receipts` the operation ids with a
receipt (an operation id is a step and whether it is the undo of that step).
`CommandMatches` and `PhaseAllows` are the two halves of `_command_allowed`,
`Mutated` is the table `_MUTATIONS`, and the three ways through
`EcommerceProvider.execute` are `ExecuteAgain` (a receipt is there), `Execute`
and `Refuse`. `Found` is `reconcile`, which wants a receipt **and** a command
that matches the provider's present state. Of a command the model keeps what
the provider compares: whether its order, quantity and amount are right, and
the inventory version that a reservation names.

The provider's methods have no await, so an execution is atomic and none
outlives its attempt. Replies still get lost: in the scenarios of the example
(`ResponseIsLost`), and by a crash, a timeout or a cancellation for every
operation of the constant `LossyOps`. `byHand` (undos that a human settled) and
`inDoubt` (see SagaSystem) are history variables.

`IsAssumedProvider` states that this system implements `SagaSystem` without
overruns and with final refusals: receipts of forward operations are `applied`,
receipts of undos and settlements by hand are `reversed`.

### 2.5 RunTrace and SagaLedger: the published history

`SagaLedger` adds the events to the workflow: every action of
AgenticSagaWorkflow is conjoined with the events that its path records, each
with the status before and after it. The operators `StopEvents`,
`UnwindEvents`, `EndEvents`, ... are the recording side of the continuations
`Stop`, `Unwind`, `Advance`, ... of the workflow module. That module only
counts events; the type invariant of the ledger says that the count is right.

`RunTrace` holds the functions of a history, none of which has state: the
projection of `temporal/trace.py` (which operation an event names, its
direction, its outcome kind, the proofs), the validators of
`contracts/trace.py`, and what the web application concludes: `evaluateRecovery`,
`evaluateProof`, `terminalVerified`, and the causal chain of an event. An
operation id is the step of a proposal and whether it is the id of the undo;
note that a reconciliation carries the forward id even when it asks about an
undo. Names, times, hashes and redaction are left out.

### 2.6 SagaContract: the abstract specification

A saga without a workflow engine, an agent or a provider: a phase, a sequence
of obligations, a verdict. Obligations are incurred only by forward work;
forward work never resumes; obligations are settled newest first; a dispute
pauses the saga until somebody else settles it; the verdict is true of the
obligations. AgenticSagaWorkflow implements it under the mapping *published
status to phase, journal states to obligations, closing status to verdict*.
The mapping is not the identity in either direction: reconciliations, retries,
queries and suspended handlers are stutters, and a status is only a phase as
long as the workflow is open.

### 2.7 ToolRegistry, SagaManifest, AgentDriver, WorkerFleet: the workers

Four layers, each of which extends the one before.

`ToolRegistry` (`contracts/tools.py`) has one registry per worker. `Construct`
is the constructor with a set of definitions, `Register` is `register_read` and
`register_effect`, including the deletion of a definition whose check fails,
and `Freeze` is `freeze`. `WiringOK` and `HasCycle` are the two checks;
`HasCycle` is the code's removal of leaves round by round, written as a
recursive function. `seal` is `absent`, `open`, `frozen`, or `gone` when the
program of the worker has ended with an exception. Outside of tests nothing in
the repository calls `freeze`, so registries stay open while a saga runs, and
the model registers tools at any time.

`SagaManifest` (`manifest.py`) binds a worker to a document. A document is a
record with one field for each thing `load_saga_context` can reject it for; the
pinned digests are represented by the descriptors they are digests of.
`LoadContext` is the whole call, so a document that is refused ends the worker.

`AgentDriver` (`agents/`) builds a native or a choice driver under the budget of
the manifest and makes the decision activity, which is attempted once, out of
model requests. A native driver asks at most twice per turn; a choice driver
asks only when there is more than one candidate. `caps` is what a single
request may take: output tokens, and the timeout that is granted to the SDK.

`WorkerFleet` (`temporal/activities.py`, `temporal/worker.py`) gives each
decision, each attempt of `execute_tool` and each reconciliation to any ready
worker. `Definition(w)` is what that worker has under the name. A forward call
must match the declaration of the saga input, an undo only has to be an effect
(`Matches`), and arguments are checked against the worker's own schema
(`Understands`). `said` is what the saga was told and under which definition,
`ledger` what the provider has and under which definition it was carried out.
The provider is honest: it commits an operation id at most once and its refusal
is final. Operation ids are new with every call, so only the latest operation
and its undo are tracked; what becomes of the earlier ones is the subject of
SagaSystem.

### 2.8 RecorderSite, RecorderServer, RecorderDemo: the flight recorder

`RecorderSite` (`demo/assets.py`) is `materialize_recorder_site`. `build` names
the step, `descriptors` the kinds of descriptors that it holds open or has lost,
`fault` what it will raise. The claim has one step for each point at which
another set of descriptors is at hand or another handler is in charge: the
descent to the parent, `mkdir`, the opening of the site, the check that it is
empty, its identity. Those handlers catch errors only, so an interrupt among
them costs any of the descriptors at hand (`InterruptedClaim`, `Lost`), and the
`fstat` of the identity (`assets.py:105`) is outside of all of them
(`IdentifyFails`). From then on `Raise` leads to the cleanup, which may fail or
be interrupted itself, as may the `finally` that closes site and parent
(`CloseInterrupted`); `GiveUp` is the end without a cleanup. Other processes may
take the destination name at any time before the confirmation, and may damage a
payload that has not been read back yet. The code does not read the static
assets back, so they are not part of `Payloads`.

`RecorderServer` (`demo/server.py`) has the accepting thread (`loop`), a thread
and a timer per request (`stage`, `timer`) and the owner (`owner`). The stages
are the points where one thread can see what another has done: slot taken,
tracked, timer started, head read, timer joined, answered, socket closed,
untracked, slot returned. A head that is malformed or too long is answered with
an error by the standard library before `complete_read`, so while the timer
still runs: these requests pass `rejecting` (and `dismissed`, when
`parse_request` gets to its `complete_read`) instead of `joining` and
`replying`. `verify_request` runs outside of any handler, so a
timer thread that cannot start ends the loop (`StartTimerFails`); a request
thread that cannot start leaves its slot and its table entry behind
(`StartHandlerFails`), and makes `server_close` raise when it joins its
threads. Python's own `socketserver`, `http.server` and `threading` are
modelled as this code uses them. There is no deadline for writing: a client
that reads slowly keeps its handler until the shutdown.

`RecorderDemo` (`cli/demo.py`) composes the two with the command: load the
packaged traces, build, serve, and remove the workspace, with an exit status
for every way it can end. The user may interrupt it at any moment, also while
it takes things down:

* `AbandonServer`: an interrupt before the `with` statement has the server, or
  during its shutdown. The rest of the shutdown is skipped and the workspace is
  removed below whatever handlers are left. Those are no daemons: the process
  waits for them after `run_demo` has returned, and they may find recordings
  missing.
* `RemoveWorkspaceInterrupted`: an interrupt while the temporary directory is
  removed. `Leftovers` is what a removal that breaks off may leave;
  `RemoveWorkspaceFails` is the same with an `OSError`.

`run_demo` turns both kinds of interrupt into exit status 0. `strays` counts
them, since `SuccessIsClean` has to say what such an exit is worth. An
interrupted build whose cleanup raises an `OSError` ends otherwise: the
`BaseExceptionGroup` of the two is caught by nothing, and the status is 1. An
interrupt in that cleanup takes the place of what was raised, and the status is
0. The wait also ends when the accepting thread has died; the command then exits
with 0 although nobody interrupted it.

## 3. Runs

| Run | Configuration | Question | Result |
|---|---|---|---|
| `workflow` | `MCWorkflow.cfg` | Do journal, queries, operation ids and verdicts stay true under every agent, every outcome and two operators racing each other, and is the contract implemented? | holds |
| `workflow_live` | `MCWorkflowLive.cfg` | Does automation come to rest, and does a diligent operator close every saga? | holds |
| `system` | `MCSystem.cfg` | Do journal and verdict agree with what exists at the provider, under lost responses, retries, late executions and cancellations? | holds when a refusal is final |
| `order` | `MCOrder.cfg` | Is the verdict true of a real order in all scenarios of the example, does a complete order unwind, and is its provider one that SagaSystem may assume? | holds as long as no reply to a reservation is lost |
| `ledger` | `MCLedger.cfg` | Does every publishable history export as a valid trace, agree with queries, and let the recorder draw the right conclusions? | holds |
| `worker` | `MCWorker.cfg` | Are definite answers true, budgets kept and catalogues stable when every task may fall to another worker, with other definitions and another manifest? | holds; answers only where the workers agree on the tool |
| `recorder` | `MCRecorder.cfg` | Does the recorder clean up after every failure, serve only what it verified, account for its slots and come to an end? | holds, with the losses that the properties name |
| `conflicting_decisions` | `MCWorkflowConflict.cfg` | Is a replayed decision always rejected? | violated |
| `empty_receipt` | `MCWorkflowReceipt.cfg` | Does a confirmed effect always lead to another turn or to the unwind? | violated |
| `refused_retry` | `MCSystemRetry.cfg` | Is a lost response always reconciled before the saga goes on? | violated |
| `order_reservation` | `MCOrderReservation.cfg` | Is the verdict still true of the order when the reply to a reservation is lost? | violated |
| `order_rejection` | `MCOrderRejection.cfg` | Is an ordinary business rejection handled without a human? | violated |

### 3.1 Properties

`workflow`
* `TypeOK`: types, and the agent's turns within the limit.
* `OperationIdsAreFresh`: while a forward operation is awaited, its step is
  greater than that of every obligation. `record_forward_success` silently
  ignores an operation id it already has, so a reused id would lose an effect.
* `UnwindAwaitsItsFrontier`: the undo that is awaited is the newest pending
  obligation, the disputed one while a human is awaited is that obligation, and
  nothing is disputed otherwise. `record_compensation` raises when this fails.
* `QueriesTellTheTruth`: the copy that queries return is the journal, and the
  published status asks for a human exactly when a resolution would be valid.
* `VerdictIsTrue`: see the comment of the definition; the interesting part is
  that a success was proven after the last effect.
* `JournalKeepsItsWord`, `ResolutionsApplyToTheirPause`, `ForwardWorkIsOver`:
  action properties on entries, on the staleness of human decisions, and on
  the end of forward work.
* `ImplementsContract`: the refinement of section 2.6.

`workflow_live`
* `AutomationComesToRest`: again and again the saga is closed or waits for a human.
* `DiligenceClosesTheSaga`: with an operator who keeps looking at disputes and
  whose verifications succeed often enough, the saga closes.

`system`
* `SysTypeOK`: types, and the number of attempts.
* `EveryEffectIsOwned`: an effect that exists or may still come to exist is an
  obligation, the awaited operation, or the one the saga stopped for.
* `JournalMatchesProvider`: what the journal calls an obligation exists, what it
  calls settled is undone, and nothing else is undone.
* `NoDanglingEffect`: the verdict is true of the provider.
* `EffectsAreUndoneInReverse`: newest first holds at the provider too, across
  late executions and settlements by humans.

`order`
* `OrderTypeOK`: types, and the conservation of stock.
* `VerdictTrueOfOrder`: a verified success shipped and paid for the order, a
  clean abort never touched it, and an unwind without humans restored it.
* `CompleteOrdersUnwind`: the phase rules of the provider accept the undos of a
  complete order in the workflow's order; no human is asked before one has had
  a hand in it.
* `IsAssumedProvider`: the refinement of section 2.4 (OrderSystem). Since it
  holds, what the run `system` shows of every such provider holds of this one
  too.

`ledger`
* `LedgerTypeOK`: types, and the event count of the workflow module.
* `ExportIsValid`: at every moment the published state can be exported: one
  chain of statuses, the published status last, proofs that name their events.
* `AuditAgreesWithQueries`: a fold over the events gives the compensations of
  the published state, entry by entry.
* `VerifiedMeansVerified`: the recorder's `terminalVerified` of the end of a
  trace is true exactly for the two verified verdicts. Undos that were disputed,
  denied by a reconciliation and settled by a human count as confirmed, and a
  renewed proof replaces the earlier ones.
* `ChainIsOneObligation`: the events that the recorder isolates around an event
  are those of one operation and its undo.

`worker`
* `FleetTypeOK`: types of all four layers.
* `PinnedCatalogueHolds`: late registrations, and registrations that are taken
  back, never change a tool that a manifest pinned.
* `RegistriesStaySound`: after any sequence of registrations, kept or taken
  back, a compensator that is registered is an effect, the dependencies of the
  effects have no cycle (stated over all sets of effects, while the code removes
  leaves round by round), and a frozen registry misses nothing. An effect may be
  registered before its compensator and before what it depends on, so the
  later of the two has to be refused.
* `DefiniteAnswerIsTrue`: a success that was reported is true of the provider.
  A "failed" is true unless the answering worker lacks the tool or has it under
  another contract than the worker that ran it, a "no effect" unless its schema,
  and nothing else, refuses the arguments: a worker whose tool differs
  otherwise reports an open reconciliation. So the property says how far a
  denial can be trusted; it does not say that the code prevents false ones in a
  skewed fleet, and it does not. `docs/operations.md:111` asks for compatible
  workers with a pinned artifact and task queue, and this is what that is
  needed for.
* `SpendStaysInBudget`: for each manifest, the time granted to all requests of
  the workers bound to it, times the turns it allows, is at most its time limit
  times the turns they took; likewise the tokens of the native drivers. Choice
  drivers leave tokens uncapped (their cap of 0 stands for none). The limits
  themselves are kept as long as no more turns are taken than the manifest
  allows: nothing in the code compares them with `max_agent_turns` of the
  workflow. The second document of the run allows one turn, and the saga takes
  two. A manifest that promises each turn its share can still be refused by the
  native driver, which halves it.

`recorder`
* `DemoTypeOK`: types of site, server and command.
* `NothingLeftAfterFailure`: a build that fails or is interrupted leaves no
  payload of a recording, unless its cleanup fails or is interrupted too, or the
  interrupt comes after the last step with a handler, in the final closing.
* `DescriptorsAreReturned`: a build that succeeds returns every descriptor. One
  that ends in an error does, but at the two places that have no handler: the
  identity of the claimed site (`assets.py:105`: site and parent stay open) and
  the directory of a nested static file (`assets.py:272`). An interrupt may cost
  what is at hand. A build that has begun to write loses site and parent only to
  an interrupt of its cleanup or its closing.
* `SlotsAreAccounted`: free slots, live requests and failed thread starts add
  up to the handlers. The code does not give back the slot of a thread that
  could not be started; the property says that this is its only leak.
* `DeadlineSparesAnswers`: a timer that was cancelled too late never cuts an
  answer, because `complete_read` joins it. It does not cover the error replies
  to malformed heads, which are written before `complete_read`.
* `ShutdownLeavesNothing`, `ShutdownReturns`, `SilentClientsAreDropped`: what a
  shutdown leaves, that it ends whatever the clients do unless the user
  interrupts it, and that a client without a head loses its handler.
* `ServesOnlyTheVerifiedSite`: while any handler runs, the recordings are
  verified and in place; only a server that was abandoned may find some missing.
* `SuccessIsClean`: exit status 0 means that workspace, handlers and connections
  are gone. Interrupts of the taking down are the exception, which the code
  reports as a success too: one of them costs the shutdown or the removal, and
  the other is still done; two may cost both.

### 3.2 Bounds

The instance has three tools that keep the shape of the ecommerce example: two
effects, the second of which needs the first, and a proof read which the finish
requires. `charge` may be called twice (so two obligations of one tool exist,
and an operation id by tool would be noticed) and `verify` twice (so that a
proof can be renewed after it went stale).

* `MaxToolCalls` 5 with `MaxAgentTurns` 5 (`workflow`): enough for reserve,
  charge, charge again and verify, followed by a finish in the last turn, and
  for a saga that uses up all its turns on tool calls. Every turn but the last
  calls a tool, so one instance meets either the limit on turns or the one on
  calls: this one meets the first. Up to three obligations make "newest first"
  and "all later ones settled" differ from their neighbours, and allow a dispute
  between a settled and a pending obligation.
* `MaxToolCalls` 3 with `MaxAgentTurns` 4 (`workflow_live`, `system`, `ledger`): two
  effects and a proof, or three effects that are given up; here the limit on
  calls is met with turns left.
* `order`: the example's own four tools, prerequisites and budgets (one call per
  tool, `MaxToolCalls` 4, `MaxAgentTurns` 6), all four scenarios, the current
  inventory version and a wrong one. The stock is 2 units for one order of 1.
  The example hands out one order per provider, so there is no second saga on
  the same stock. In the passing run the reply to `reserve_inventory` arrives,
  because section 5, number 4, is about the case where it does not.
* Operators: two in the runs about their conflicts (they are interchangeable,
  hence symmetry), one in the liveness, system, order and ledger runs. A third operator meets
  the same pair of conflicts; the theorems of section 4 hold for any set.
* `MaxAttempts` 2 is the value in the code.
* `Bases`, the sequences that a proposal may be based on, ends one beyond the
  current sequence: the guard of the code compares for equality, so one value
  on each side stands for all.
* Event sequences are not bounded separately: turns and calls bound them.

* `worker`: two workers (interchangeable: hence symmetry) and five definitions of
  three tools: two versions of an effect that differ in schema and
  dependencies (the older one and its compensation depend on each other), its
  compensation as an effect and as a read, and a read. Two documents; the native
  driver refuses the second, which allows a single turn. Two decisions, two attempts
  as in the code, and `MaxCandidates` 2 in place of 255: what counts is one
  more than allowed. The saga starts when every worker is ready or gone, since
  the setups of two workers have nothing in common; registrations go on after
  that. About 570,000 distinct states.
* `recorder`: two recordings and one static file, which is nested; two
  connections for one slot (`Handlers` 1 in place of 8), so that one is refused
  or waits; one thread that cannot start (`ThreadFaults`); a removal that breaks
  off leaves nothing, everything or a single file (`Leftovers`). Stray interrupts
  need no bound: at most two can fall into one command. About 323,000 distinct
  states. The theorems of section 4 hold for all of these numbers, and for any
  leftovers.

Deadlock is checked in every run about the workflow. `Rest` lets a saga that has
ended stay as it is; no other state may be without a successor. In `worker` and
`recorder` it is not: a fleet without a ready worker has nothing to do, and a
command that has exited is over.

### 3.3 Fairness

`FairSpec` asks weak fairness of `Forward` and of `Backward`. It stands for a
worker that polls the task queue and for the start-to-close timeout and the
bounded attempts that every activity of the code has: an awaited result always
arrives, as an answer or as an error. Nothing is asked of any single outcome:
the activities may always fail. Humans owe nothing: in `AutomationComesToRest`
they may never act, and may stay suspended in a verification for ever.

`DiligentOperator` is a hypothesis of the second property, not a fact about
the code: each operator looks again and again at the disputed entry, submits
what he read, and his verification sooner or later is positive. With it the
property says that the *workflow* does not stand in the way: no lost wake-up,
no validator that never accepts. The liveness run has one operator, because two
can halt the workflow (section 5).

`ServerFairness` asks weak fairness of the accepting thread's end and of each
request's handover, handler and timer: threads are scheduled, and a running
timer fires, also after the owner has left, since the process waits for its
handlers. `DemoSpec` adds weak fairness of `Closing`: a shutdown that has begun
goes on. Clients owe nothing, and nobody has to begin a shutdown or to interrupt
one. Each of these conjuncts is about a thread that exists and is never blocked
for ever except by the others.

The `worker` run states no fairness: it has safety properties only.

## 4. Proofs

TLAPS checks the following for every set of tools (of OrderSystem: those of the
example), every limit and any number of operators; the assumptions are the
`ASSUME`s about the constants, each in the module that declares them.

| Theorem | Module | Establishes |
|---|---|---|
| `TypeCorrect` | `AgenticSagaWorkflow_proofs` | `[]TypeOK` |
| `FreshOperationIds` | same | `[]OperationIdsAreFresh` |
| `UnwindAtFrontier` | same | `[]UnwindAwaitsItsFrontier` |
| `TruthfulQueries` | same | `[]QueriesTellTheTruth` |
| `VerdictTruth` | same | `[]VerdictIsTrue` |
| `JournalTrue` | `AgenticSagaWorkflow_steps` | `JournalKeepsItsWord` |
| `ResolutionsTimely` | same | `ResolutionsApplyToTheirPause` |
| `NoForwardWorkAfterUnwind` | same | `ForwardWorkIsOver` |
| `Refinement` | same | `ImplementsContract` |
| `ContractNewestFirst`, `ContractVerdict` | `SagaContract_proofs` | what the abstract contract implies |
| `SystemTypes` | `SagaSystem_proofs` | `[]SysTypeOK` |
| `EffectsAreOwned` | same | `[]EveryEffectIsOwned` |
| `JournalIsTrue` | same | `[]JournalMatchesProvider` |
| `NothingDangles` | same | `[]NoDanglingEffect` |
| `UndoneInReverse` | same | `EffectsAreUndoneInReverse` |
| `SystemIsTheWorkflow` | same | `Spec` and `ImplementsContract` of the workflow |
| `FleetTypes` | `WorkerFleet_proofs` | `[]FleetTypeOK` |
| `PinnedCatalogue` | same | `[]PinnedCatalogueHolds` |
| `DefiniteAnswers` | same | `[]DefiniteAnswerIsTrue` |
| `RegistriesSound` | same | `[]RegistriesStaySound` |
| `SpendInBudget` | same | `[]SpendStaysInBudget` |
| `LedgerTypes` | `SagaLedger_proofs` | `[]LedgerTypeOK` |
| `ExportValid` | same | `[]ExportIsValid` |
| `AuditAgrees` | same | `[]AuditAgreesWithQueries` |
| `VerifiedOutcomes` | same | `[]VerifiedMeansVerified`, if there is a proof tool |
| `ChainsAreObligations` | same | `[]ChainIsOneObligation` |
| `LedgerIsTheWorkflow` | same | `Spec` and `ImplementsContract` of the workflow |
| `DemoTypes` | `RecorderDemo_proofs` | `[]DemoTypeOK` |
| `CleanFailures`, `DescriptorsReturned` | same | `[]NothingLeftAfterFailure`, `[]DescriptorsAreReturned` |
| `SlotsAccounted`, `CleanShutdown` | same | `[]SlotsAreAccounted`, `[]ShutdownLeavesNothing` |
| `OnlyVerifiedSites`, `CleanSuccess` | same | `[]ServesOnlyTheVerifiedSite`, `[]SuccessIsClean` |
| `SparedAnswers` | same | `DeadlineSparesAnswers` |
| `OrderIsTheWorkflow` | `OrderSystem_proofs` | `Spec` and `ImplementsContract` of the workflow |
| `OrderTypes` | same | `[]OrderTypeOK` |
| `VerdictTrue` | same | `[]VerdictTrueOfOrder`, if `verify_order` is a proof and no reply to a reservation is lost |
| `CompleteOrders` | same | `CompleteOrdersUnwind`, if no reply to a reservation is lost |
| `OrderIsAssumedProvider` | same | `IsAssumedProvider`, if no reply to a reservation is lost |

So every safety property that a run checks and finds to hold is also a
theorem; what only the runs show is liveness (4.7). The theorems of `SagaSystem_proofs`,
`SystemIsTheWorkflow` excepted, have a hypothesis, `RefusalsAreFinal`: an execution that may outlive its attempt
needs a provider whose refusals are final. It is needed: the run
`refused_retry` is a counterexample without it.

### 4.1 The inductive invariant

None of the five invariants is inductive alone. `IInv` conjoins them with four
groups of facts that the code relies on without saying so:

* `JournalInv`: steps grow along the journal and stay below the event count;
  the published copy is the journal; at most one entry is unresolved, and every
  later one is settled. Freshness needs the first, the frontier the last.
* `PlaceInv`: what `pc` implies for `status`, `goal`, `step`, `tool` and
  `blocked` at every await, e.g. that the journal is not blocked and owes every
  entry as long as the saga runs, and that an unwind knows its verdict.
* `EvidenceInv`: a successful effect tool has an obligation, and a fresh proof
  is younger than every obligation. `VerdictIsTrue` follows from it at the one
  activation that publishes a success.
* `DeskInv`: a suspended handler whose entry is still unresolved has seen the
  current event sequence. This is why a resolution cannot be stale although
  the handler does not look at the sequence again: leaving the pause settles
  the entry, and only an unresolved entry can be resolved.

Each action is covered by a lemma, and the shared continuations (`Close`,
`Advance`, `NextTurn`, ...) have lemmas of their own that say what they
establish for the journal they are given. The steps of the second proof module
use `IInv` on the pre-state and describe the shape of each group of actions:
forward steps append at most one entry, backward steps settle or dispute the
frontier, human steps settle the disputed entry. The action properties and the
refinement follow from these shapes.

### 4.2 The system

`SysInv` adds to `IInv` what relates the saga and its provider:

* `AnswerInv`: an answer in hand is true: a confirmed execution has landed, and a
  refused operation neither exists nor may still come to exist. The second part
  is where final refusals are used.
* `EffectInv`: what exists or may still come to exist (`Born`) is an
  obligation, the operation in flight, or the one in doubt; every obligation
  exists.
* `UndoInv`: only obligations are undone, whatever is undone or may still be has
  all its successors undone, and what the journal calls settled is undone.
* `DoubtInv`: an operation in doubt leads to a human.

The lemmas of the workflow's proofs say what a step does to the journal. What is
left for each step is to say what it does to `applied`, `reversed` and `late`.

### 4.3 The workers

`FleetInv` has one part per layer. `RegistryInv` says that a registration leaves
every other definition alone, kept or taken back, and that registries are sound.
`RegistriesStaySound` is inductive but for one thing: the code finds cycles by
removing leaves round by round, as often as there are names, and the property
speaks of all sets of effects. `RoundsArePaths` says that what is left after k
rounds are the effects from which a path of k dependencies leads on; by
`NoCycle`, nothing being left rules out every set that depends on itself. The
induction over rounds is one over the natural numbers as a set (`Inductive`).
`TurnInv` says that only advertised tools are proposed. `OperationInv` says that
what was confirmed is committed, under which declaration each entry of the
provider's ledger was carried out (`ServiceInv`) and, for
`DefiniteAnswerIsTrue`, that after a denial every execution still under way has
the excuse which the property allows (`DenialInv`, `Excused`): the property
itself only speaks of what has landed.

`SpendInv` is the invariant behind `SpendStaysInBudget`, which is not inductive:
it adds up what was asked, and says nothing of what a driver may still ask in
the present turn. `SpendInv` speaks of one worker at a time and counts both:
the requests made and those that the present decision may still make are at
most two per turn with the native driver and one with a choice driver, and a
cap is at most the share of one request. So each worker keeps to its share, and
the property follows by adding up over the workers bound to one document.
`RegistryAssumption` therefore asks for finitely many workers, and for finitely
many names because the code counts its rounds by them; nothing is assumed of
how many.

### 4.4 The recorder

`DemoInv` conjoins the invariants of site, server and command.

* `SiteInv`: which descriptors each step of the build holds as long as no
  interrupt has cost any (`Held`), that nothing is written before the claim, and
  that the payloads validated so far are whole. That they stay whole needs the
  recordings to be distinct, which the code has from iterating over a dictionary.
* `ServerInv`: at most one request is being handed over, and only while the loop
  runs (`LoopInv`); what a stage implies for socket, timer and tables
  (`StageInv`); and what the progress of a shutdown implies for the requests
  (`ClosingInv`). A request that is stranded between timer and thread is in the
  table of active requests, hence cut: the loop has ended before the owner
  takes its snapshot, so no other can be stranded after it.
* `CommandInv`: which steps of site and server each step of the command allows,
  and what a stray interrupt has been the price of: an abandoned server, or a
  workspace that stays behind an exit status 0. That what is served stays
  verified (`Verified`) ends with the command, which may then remove it.

Slots are counted with the library's theorems on finite sets.

### 4.5 The published history

`LInv` says of the events what `IInv` says of the state:

* `ValidHistory`: each event has the shape its kind asks for and starts from the
  status its predecessor left, and the last one left the published status.
* `History`: besides, the fold of the events (`AuditOf`) is the journal, every
  settled entry has an event that confirms its undo, and a resolution by a
  human follows the report of the undo it is about.
* `Concluded`, `NoneCompleted`, `ProofsHold`, `SomeProof`: what the recorder will
  make of the end. No trace completes before its saga has closed; a saga that
  runs or succeeded has reported no proof that failed; one with fresh proofs has
  reported one.

The properties of the run are not inductive without it: each of them is about
the history as a whole, and a step only appends to it. So there is one lemma
for each continuation of the workflow (`ClosePublished`, `AdvancePublished`,
`TurnPublished`, ...) that says what its events add, and the actions follow.

Two definitions recurse over the history: the fold, and the causal chain that
`ChainIsOneObligation` is about. The library's induction theorems cannot be
instantiated here, so the module proves what it needs of induction itself:
`Inductive` is induction over the naturals for a *set* of numbers in place of a
predicate, from `NatLessThanWellFounded`. With it one shows that a function
satisfying the recursive equations exists, hence that the recursively defined
one satisfies them, and then what it computes. `WorkerFleet_proofs` does the
same for the library's sum over a finite set.

`VerifiedOutcomes` has a hypothesis, `Proofs # {}`, that the attempt to prove it
without brought up. Nothing in `contracts.py` asks for a `proof_for_success`
tool. Without one, a saga closes as `succeeded_verified` as soon as its required
tools have succeeded, and the recorder, which wants a completed proof
(`evaluateProof`), does not call that trace verified. The ecommerce example
declares a proof tool.

The proofs found one flaw of the model: two arms of the `CASE` in `OutcomeKind`
overlapped, so the operator was a choice between them, one that TLC happened to
make as the code does. The arms are disjoint now.

### 4.6 The order

The order is small, the system around it is not: budgets, turns, prerequisites,
operators, the versions an agent may ask for and the operations whose reply may
get lost are arbitrary. `OrderInv` shows why none of them matters: the phase
rules of `provider.py` put its six operations on one path (`Path`), and of an
order that has come `k` steps along it (`Reached(k)`) the rules allow operation
`k + 1` and no other (`NextAllowed`).

* `ChainInv`: the journal is a prefix of that path, whatever prerequisites the
  input declares. The saga cannot collect more than the three obligations.
* `RunInv`: while the saga runs, the order is as many steps along as the journal
  has entries, or one more when a commit is not yet on record (`InFlight`).
* `AnswerInv`, `CommandInv`: a confirmed operation has its receipt, a refused one
  has none, and a reconciliation finds what was committed.
* `UnwindInv`: without human hands, the undo awaited for entry `i` of a complete
  order is the next step of the path, or the one just made. An incomplete order
  is stuck: its newest obligation cannot be undone, so no unwind gets past it.
  This is why a compensation without humans ends restored although the
  rules refuse undos, and what disagreement 5 of section 5 looks like from inside.
* `ProviderInv`: undo receipts are of the awaited operation or of later ones, so
  the provider cannot have done the next undo before it is asked for.
* `HandInv`: what a human settled is settled in the journal, so it is never
  asked for again. The refinement needs it: the human's undo is in `reversed`.

Three theorems have the hypothesis `ReservationsAnswered`, that the reply to
a reservation is not lost. It is needed: the run `order_reservation` is a
counterexample without it (disagreement 4). `VerdictTrue` also needs
`verify_order` among the proofs, as the example declares it, and it is the only
use made of the example's own policy. `OrderTypes` needs neither.

The refinement is proved step by step (`StepRefines`). `SagaSystem` brings its
own copy of the workflow, so each operator of that copy is first shown to be
the one of this module (`SameForward`, `SameBackward`, ...).

### 4.7 Only model-checked

Liveness: both properties of `workflow_live`, and `ShutdownReturns` and
`SilentClientsAreDropped` of `recorder`. It is out of reach of the prover.

## 5. Disagreements between code and documents

1. **Two decisions on one dispute** (`workflow.py:102`). Two operators read the
   same dispute; both Updates pass the validator and wait for their
   verification. The first settles the entry; the second resumes,
   `resolve_unresolved` raises a plain `ValueError`, and the Workflow Task
   fails, on every replay. `docs/operations.md:86`: "Stale, replayed,
   malformed, or unauthorized decisions are rejected."
2. **Empty receipts** (`workflow.py:261`). An effect confirmed with an empty
   receipt passes the contracts of the activity result and fails those of
   `CompensationRecord`, in workflow code: the saga halts with a confirmed
   effect that is neither compensated nor handed to a human, against the
   summary of `docs/temporal-safety-contract.md:3-6`.
3. **Refused retries** (`workflow.py:44`). A lost first attempt is retried
   without a reconciliation; if the retry is refused while the first execution
   still runs, the saga closes clean over an effect that lands later.
   `docs/ARCHITECTURE.md:307`: "A lost response is not success or failure. The
   Workflow reconciles it before continuing." It holds of providers whose
   refusals are final, which is the assumption of the run `system`.
4. **Lost reservations** (`examples/ecommerce/provider.py:91`). A reservation
   bumps the inventory version, and the reconciliation compares its command,
   which names the old version, with the new state. A reservation that was
   committed but whose reply was lost is denied, and the saga closes
   `aborted_clean` with stock reserved. `examples/ecommerce/saga.yaml:34-35`:
   `clean_abort: - no_external_effects`.
5. **Rejections that need a human** (`examples/ecommerce/provider.py:298`).
   Stock is released only after a refund, and a refund is made only after a
   cancelled shipment. An order that stops after its reservation or its charge
   cannot be undone automatically. `examples/ecommerce/README.md:94-95`: "Human
   involvement is therefore narrow: it resolves an uncertain compensation
   outcome. Ordinary business rejection is handled automatically."

## 6. Plan

Done: the workflow with its contract, activities, provider, operators and
published history; the ecommerce example; the registry, manifest, drivers and
workers; the recorder's site, server and command; and the proofs of section 4.
What a continuation would take up, in this order:

1. **ScenarioAssessment**: the web application's verdict on the four scenarios
   and its story, evaluated on the histories of OrderSystem; in particular the
   names under which open reconciliations are exported (`trace.py:104`) and
   expected (`story-view.tsx:129`).
2. **Composition of WorkerFleet and SagaSystem**: the skewed fleet under the
   whole workflow, with earlier obligations in view.
3. **ReplayPlayer**: the web application's timer.
4. Proofs: the theorems about SagaSystem restated for OrderSystem, by way of
   `OrderIsAssumedProvider`; today that step is made by the reader.

### Not modelled

* *Redaction and canonical JSON*: pure functions over strings and trees. Their
  one consequence for control, a receipt that becomes empty, is an action of
  the workflow.
* *Release scripts, quality gates, `.dagger`*: not part of the program that runs
  sagas.
* *Evaluation of the ecommerce example*: scripted or live drivers over the
  scenarios of OrderSystem, without state of its own between them.
* *Model calls*: prompts, replies as text, probabilities, HTTP failure
  categories (the decision activity drops them). Any proposal or failure is
  admitted instead.
* *The web application's* layout, wording and replay timer; its conclusions are
  in RunTrace.
* *Parsing of HTTP heads and paths*, and security headers: a head is a record of
  what decides the status.
* `project_state` of `temporal/journal.py`: only unit tests call it.
