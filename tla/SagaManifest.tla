-------------------------- MODULE SagaManifest --------------------------
(***************************************************************************)
(* The Saga Context Manifest of manifest.py: a worker reads a document,    *)
(* validates it, and binds it to its registry, which has to describe the   *)
(* allowed tools exactly as the document pinned them.                      *)
(*                                                                         *)
(* A document is a record: what its bytes are to the YAML parser (source), *)
(* whether it has the exact shape, distinct names and public texts, the    *)
(* four limits, the allowed tools with the descriptors whose digest is     *)
(* pinned, and the policy and invariant checks it names.                   *)
(***************************************************************************)
EXTENDS ToolRegistry

CONSTANTS
  Documents,         \* the documents a worker may be given
  PolicyChecks,      \* checks the application registers
  InvariantChecks,
  NoContext

VARIABLE
  context    \* worker -> the document it is bound to, or NoContext

ASSUME ManifestAssumption ==
  /\ NoContext \notin Documents
  /\ \A m \in Documents :
       /\ m.allowed \subseteq Names /\ DOMAIN m.pinned = m.allowed
       /\ m.turns \in Nat /\ m.calls \in Nat /\ m.elapsed \in Nat /\ m.tokens \in Nat

ManifestInit == context = [w \in Workers |-> NoContext]

\* At most 65536 bytes of safe YAML, one document, a bounded tree of JSON
\* values without aliases.
Parses(m) == m.source = "one bounded tree"

BudgetOK(m) ==
  /\ m.turns \in 1 .. 100 /\ m.calls \in 1 .. 100
  /\ m.elapsed \in m.turns .. 86400000
  /\ m.tokens \in m.turns .. 100000000

Validates(m) ==
  /\ m.exact /\ m.distinct
  /\ m.allowed # {}
  /\ BudgetOK(m)
  /\ ~m.private

\* ToolDescriptor.from_definition: what the agent is shown of a tool.
Descriptor(d) == [kind |-> d.kind, schema |-> d.schema]

Describes(D, m) ==
  /\ m.allowed \subseteq DOMAIN D
  /\ \A n \in m.allowed : Descriptor(D[n]) = m.pinned[n]

ChecksRegistered(m) ==
  m.policy \subseteq PolicyChecks /\ m.invariants \subseteq InvariantChecks

Resolves(D, m) == Describes(D, m) /\ ChecksRegistered(m)

\* The program of the worker ends with the exception, and its registry with it.
GoDown(w) ==
  /\ defs' = [defs EXCEPT ![w] = Nothing]
  /\ seal' = [seal EXCEPT ![w] = "gone"]
  /\ context' = [context EXCEPT ![w] = NoContext]

LoadContext(w, m) ==
  /\ seal[w] \in {"open", "frozen"} /\ context[w] = NoContext
  /\ IF Parses(m) /\ Validates(m) /\ Resolves(defs[w], m)
       THEN context' = [context EXCEPT ![w] = m] /\ UNCHANGED registryVars
       ELSE GoDown(w)

ManifestTypeOK == context \in [Workers -> Documents \cup {NoContext}]

(***************************************************************************)
(* The catalogue a worker was bound to is the one it works with: however   *)
(* many tools are registered after the manifest was loaded, and whichever  *)
(* registrations fail, the worker still describes each allowed tool as     *)
(* pinned (manifest.py:364; the drivers compare with it on every turn).    *)
(***************************************************************************)
PinnedCatalogueHolds ==
  \A w \in Workers :
    context[w] # NoContext => Describes(defs[w], context[w])

=============================================================================
