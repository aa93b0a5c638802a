--------------------------- MODULE AgentDriver ---------------------------
(***************************************************************************)
(* The agent drivers of agents/ and the decision activity that calls them. *)
(* The native driver (pydanticai.py, openrouter.py) lets a model call one  *)
(* of the advertised tools; the choice drivers (choice.py, jev.py,         *)
(* openrouter_decisions.py) let one select among candidates of the host.   *)
(* Each is built for a manifest and splits its budget into caps for single *)
(* model requests.  A decision is attempted once (workflow.py:43).         *)
(***************************************************************************)
EXTENDS SagaManifest, Functions

CONSTANTS
  MaxTurns,      \* max_agent_turns of the saga input
  MaxOutput,     \* max_output_tokens of the settings
  MaxTimeout,    \* timeout_ms of the settings
  MaxCandidates, \* candidates a choice driver takes, 255 in the code
  FinishTool,    \* "finish_saga"
  NoArgs

VARIABLES
  driver,        \* worker -> "none", "native" or "choice"
  caps,          \* worker -> what a request may take, [tokens, ms]
  turn,          \* the decision activity
  turnsAt,       \* worker -> decisions it was given
  requestsAt     \* worker -> model requests it made

driverVars == <<driver, caps>>
turnVars == <<turn, turnsAt, requestsAt>>

ASSUME DriverAssumption ==
  /\ MaxTurns \in Nat \ {0} /\ MaxOutput \in Nat \ {0} /\ MaxTimeout \in Nat \ {0}
  /\ MaxCandidates \in Nat \ {0}
  /\ FinishTool \notin Names \cup {NoTool}

\* What may be proposed: a call with its arguments, or the end of the saga.
Finish == [tool |-> FinishTool, args |-> NoArgs]
NoProposal == [tool |-> NoTool, args |-> NoArgs]
Proposals == [tool : Names, args : Args] \cup {Finish}

NoCaps == [tokens |-> 0, ms |-> 0]
IdleTurn == [phase |-> "idle", worker |-> "nobody", available |-> {}, finish |-> FALSE,
             candidates |-> {}, requests |-> 0, proposal |-> NoProposal]

AgentInit ==
  /\ driver = [w \in Workers |-> "none"]
  /\ caps = [w \in Workers |-> NoCaps]
  /\ turn = IdleTurn
  /\ turnsAt = [w \in Workers |-> 0]
  /\ requestsAt = [w \in Workers |-> 0]

RequestLimit == 2   \* native_model_request_limit

Least(a, b) == IF a <= b THEN a ELSE b

\* A plausible fault: a turn's share is granted to each of its requests.
TurnCap(limit, turns) == limit \div turns

RequestCap(limit, turns) == (limit \div turns) \div RequestLimit

----------------------------------------------------------------------------
(***************************************************************************)
(* build_openrouter_driver: a budget whose share for a request rounds down *)
(* to zero is refused, although the manifest accepts it.                   *)
(***************************************************************************)
BuildNative(w) ==
  /\ context[w] # NoContext /\ driver[w] = "none"
  /\ LET m == context[w]
         tokens == RequestCap(m.tokens, m.turns)
         ms == RequestCap(m.elapsed, m.turns)
     IN IF tokens > 0 /\ ms > 0
          THEN /\ driver' = [driver EXCEPT ![w] = "native"]
               /\ caps' = [caps EXCEPT ![w] = [tokens |-> Least(MaxOutput, tokens),
                                               ms |-> Least(MaxTimeout, ms)]]
               /\ UNCHANGED <<registryVars, context>>
          ELSE GoDown(w) /\ UNCHANGED driverVars
  /\ UNCHANGED turnVars

TurnTime(m) == m.elapsed \div m.turns

\* build_jev_driver, build_openrouter_decisions_driver: their requests carry no
\* limit on tokens, which the token cap 0 stands for.
BuildChoice(w) ==
  /\ context[w] # NoContext /\ driver[w] = "none"
  /\ LET ms == TurnTime(context[w])
     IN IF ms > 0
          THEN /\ driver' = [driver EXCEPT ![w] = "choice"]
               /\ caps' = [caps EXCEPT ![w] = [tokens |-> 0, ms |-> Least(MaxTimeout, ms)]]
               /\ UNCHANGED <<registryVars, context>>
          ELSE GoDown(w) /\ UNCHANGED driverVars
  /\ UNCHANGED turnVars

Ready(w) == driver[w] # "none"

TurnsTaken == SumFunction(turnsAt)

\* _require_catalog, on the descriptors of the worker's own registry.
InCatalogue(w, A) ==
  LET m == context[w] IN
  /\ FinishTool \notin A
  /\ A \subseteq m.allowed
  /\ \A n \in A : Descriptor(defs[w][n]) = m.pinned[n]

----------------------------------------------------------------------------
\* The decision activity up to the first model request or candidate.
Decide(w, A, finish) ==
  /\ Ready(w) /\ turn.phase = "idle" /\ TurnsTaken < MaxTurns
  /\ turn' = [IdleTurn EXCEPT !.worker = w, !.available = A, !.finish = finish,
                !.phase = IF A \subseteq DOMAIN defs[w] /\ InCatalogue(w, A)
                            THEN "planning" ELSE "failed"]
  /\ turnsAt' = [turnsAt EXCEPT ![w] = @ + 1]
  /\ UNCHANGED <<registryVars, context, driverVars, requestsAt>>

Planning(kind) == turn.phase = "planning" /\ driver[turn.worker] = kind

FailTurn == turn' = [turn EXCEPT !.phase = "failed"]
Answer(p) == turn' = [turn EXCEPT !.phase = "answered", !.proposal = p]

Unspent == UNCHANGED <<registryVars, context, driverVars, turnsAt, requestsAt>>
Request ==
  /\ requestsAt' = [requestsAt EXCEPT ![turn.worker] = @ + 1]
  /\ UNCHANGED <<registryVars, context, driverVars, turnsAt>>

\* _require_current and choice._proposal_is_eligible.
MayPropose(p) == p.tool \in turn.available \/ (p = Finish /\ turn.finish)

\* The observation or the candidates hold private material or exceed a bound.
PayloadRefused == turn.phase = "planning" /\ turn.requests = 0 /\ FailTurn /\ Unspent

\* The reply is one call, of an advertised tool or of another.
NativeCall(p) ==
  /\ Planning("native")
  /\ IF MayPropose(p) THEN Answer(p) ELSE FailTurn
  /\ Request

\* A plausible fault: the validator asks again until it gets a call.
NativeRetryForever ==
  /\ Planning("native")
  /\ turn' = [turn EXCEPT !.requests = @ + 1]
  /\ Request

(***************************************************************************)
(* The reply is a text, or a call that the library does not take: the      *)
(* validator asks once more, within the limit on the requests of a run.    *)
(***************************************************************************)
NativeRetry ==
  /\ Planning("native")
  /\ IF turn.requests + 1 < RequestLimit
       THEN turn' = [turn EXCEPT !.requests = @ + 1]
       ELSE FailTurn
  /\ Request

\* Several calls, an HTTP or transport error, private or malformed arguments.
NativeFails == Planning("native") /\ FailTurn /\ Request

\* The factory's candidates: a single one is taken without asking anybody.
Acceptable(C) == C # {} /\ Cardinality(C) <= MaxCandidates /\ \A p \in C : MayPropose(p)

Candidates(C) ==
  /\ Planning("choice") /\ turn.candidates = {}
  /\ IF Acceptable(C) /\ Cardinality(C) > 1
       THEN turn' = [turn EXCEPT !.candidates = C]
       ELSE IF Acceptable(C) THEN \E p \in C : Answer(p) ELSE FailTurn
  /\ Unspent

\* Confident enough, normalised, and the most probable of the candidates.
Selected(p) ==
  /\ Planning("choice") /\ p \in turn.candidates
  /\ Answer(p) /\ Request

\* An error, an unknown choice, or probabilities that do not support it.
SelectionFails == Planning("choice") /\ turn.candidates # {} /\ FailTurn /\ Request

AgentTurn ==
  \/ PayloadRefused \/ NativeRetry \/ NativeFails \/ SelectionFails
  \/ \E p \in Proposals : NativeCall(p) \/ Selected(p)
  \/ \E C \in SUBSET Proposals : Candidates(C)

----------------------------------------------------------------------------
AgentTypeOK ==
  /\ driver \in [Workers -> {"none", "native", "choice"}]
  /\ caps \in [Workers -> [tokens : 0 .. MaxOutput, ms : 0 .. MaxTimeout]]
  /\ turn \in [phase : {"idle", "planning", "answered", "failed"},
               worker : Workers \cup {"nobody"}, available : SUBSET Names, finish : BOOLEAN,
               candidates : SUBSET Proposals, requests : 0 .. RequestLimit - 1,
               proposal : Proposals \cup {NoProposal}]
  /\ turn.phase # "idle" => turn.worker \in Workers
  /\ turnsAt \in [Workers -> Nat] /\ requestsAt \in [Workers -> Nat]

(***************************************************************************)
(* Every turn keeps to its share of the budget (openrouter.py:140,         *)
(* jev.py:182, openrouter_decisions.py:234): whichever workers bound to a  *)
(* manifest take the turns, whichever drivers they use and however often   *)
(* these ask again, the time granted to all their requests, times the      *)
(* turns of the manifest, is at most its time limit times the turns they   *)
(* took; so do the output tokens of the workers with the native driver,    *)
(* the only one that limits tokens.  The limits themselves are therefore   *)
(* kept as long as the workers take no more turns than the manifest has,   *)
(* which nothing compares with the max_agent_turns of the workflow.        *)
(***************************************************************************)
SpendStaysInBudget ==
  \A m \in Documents :
    LET W == {w \in Workers : context[w] = m}
        Native == {w \in W : driver[w] = "native"}
        Granted(c, S) == SumFunctionOnSet([w \in Workers |-> requestsAt[w] * c[w]], S)
        Turns(S) == SumFunctionOnSet(turnsAt, S)
    IN /\ Granted([w \in Workers |-> caps[w].tokens], Native) * m.turns <= Turns(Native) * m.tokens
       /\ Granted([w \in Workers |-> caps[w].ms], W) * m.turns <= Turns(W) * m.elapsed

=============================================================================
