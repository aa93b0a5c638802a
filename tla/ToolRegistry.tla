-------------------------- MODULE ToolRegistry --------------------------
(***************************************************************************)
(* The tool registries of contracts/tools.py, one in each worker process.  *)
(* A registry is built from definitions at once or filled one by one; each *)
(* way checks the wiring of compensators and the graph of compensation     *)
(* dependencies, and a registration that fails the check is taken back.    *)
(*                                                                         *)
(* A definition is a record: name, kind, the compensator, the dependencies *)
(* and independence claims of an effect, the commands its schema accepts,   *)
(* and whether its texts and that schema pass the constructor's checks.    *)
(***************************************************************************)
EXTENDS Naturals, FiniteSets

CONSTANTS
  Workers,
  Names,          \* tool names
  Args,           \* command arguments
  Offered,        \* the definitions an application may register
  NoTool          \* "compensate_with = None"

VARIABLES
  defs,   \* worker -> the definitions registered there, by name
  seal    \* worker -> "absent", "open", "frozen", or "gone" with its process

registryVars == <<defs, seal>>

ASSUME RegistryAssumption ==
  /\ IsFiniteSet(Workers) /\ IsFiniteSet(Names)
  /\ NoTool \notin Names
  /\ \A d \in Offered :
       /\ d.name \in Names /\ d.kind \in {"read", "effect"}
       /\ d.comp \in Names \cup {NoTool}
       /\ d.deps \subseteq Names /\ d.indep \subseteq Names
       /\ d.schema \subseteq Args
       /\ d.proper \in BOOLEAN
       /\ d.kind = "read" => d.comp = NoTool /\ d.deps = {} /\ d.indep = {}

Nothing == [n \in {} |-> NoTool]

RegistryInit ==
  /\ defs = [w \in Workers |-> Nothing]
  /\ seal = [w \in Workers |-> "absent"]

----------------------------------------------------------------------------
\* __post_init__: bounded texts, strict frozen models, unique names.
WellFormed(d) == d.proper /\ d.comp # d.name /\ d.name \notin d.indep

EffectNames(D) == {n \in DOMAIN D : D[n].kind = "effect"}

WiringOK(D, complete) ==
  \A n \in EffectNames(D) :
    \/ D[n].comp = NoTool
    \/ D[n].comp \in EffectNames(D)
    \/ D[n].comp \notin DOMAIN D /\ ~complete

(***************************************************************************)
(* _graph_has_cycle: what is left of the effects after k rounds of removing*)
(* those that depend on none of the rest.                                  *)
(***************************************************************************)
LeftAfter(D) ==
  LET Left[k \in Nat] ==
        IF k = 0 THEN EffectNames(D)
                 ELSE {n \in Left[k - 1] : D[n].deps \cap Left[k - 1] # {}}
  IN Left

HasCycle(D) == LeftAfter(D)[Cardinality(DOMAIN D)] # {}

DependenciesOK(D, complete) ==
  /\ WiringOK(D, complete)
  /\ complete => \A n \in EffectNames(D) : D[n].deps \subseteq EffectNames(D)
  /\ ~HasCycle(D)

----------------------------------------------------------------------------
\* The definitions S, in whatever order: a duplicate name is an error.
Construct(w, S) ==
  /\ seal[w] = "absent"
  /\ \A d \in S : WellFormed(d)
  /\ \A c, d \in S : c.name = d.name => c = d
  /\ LET D == [n \in {d.name : d \in S} |-> CHOOSE d \in S : d.name = n]
     IN DependenciesOK(D, TRUE) /\ defs' = [defs EXCEPT ![w] = D]
  /\ seal' = [seal EXCEPT ![w] = "open"]

With(D, d) == [n \in DOMAIN D \cup {d.name} |-> IF n = d.name THEN d ELSE D[n]]
Without(D, n) == [m \in DOMAIN D \ {n} |-> D[m]]

\* A plausible fault: a read adds nothing to the graph, so nothing is checked.
ToleratesAnyRead(D, d) == d.kind = "read" \/ DependenciesOK(D, FALSE)

Tolerates(D, d) ==
  IF d.kind = "read" THEN WiringOK(D, FALSE) ELSE DependenciesOK(D, FALSE)

\* A plausible fault: the duplicate is found inside the try, so that the
\* handler of the failure deletes the definition that was there before.
RegisterInsideTry(w, d) ==
  /\ seal[w] = "open"
  /\ WellFormed(d)
  /\ LET D == With(defs[w], d)
     IN defs' = [defs EXCEPT ![w] =
                   IF d.name \notin DOMAIN defs[w] /\ Tolerates(D, d) THEN D ELSE Without(D, d.name)]
  /\ UNCHANGED seal

(***************************************************************************)
(* register_read and register_effect.  DuplicateToolError is raised before *)
(* the try, so it leaves the definition of that name alone.                *)
(***************************************************************************)
Register(w, d) ==
  /\ seal[w] = "open"
  /\ WellFormed(d)
  /\ d.name \notin DOMAIN defs[w]
  /\ LET D == With(defs[w], d)
     IN defs' = [defs EXCEPT ![w] = IF Tolerates(D, d) THEN D ELSE Without(D, d.name)]
  /\ UNCHANGED seal

Freeze(w) ==
  /\ seal[w] \in {"open", "frozen"}
  /\ DependenciesOK(defs[w], TRUE)
  /\ seal' = [seal EXCEPT ![w] = "frozen"]
  /\ UNCHANGED defs

RegistryNext ==
  \E w \in Workers :
    \/ \E S \in SUBSET Offered : Construct(w, S)
    \/ \E d \in Offered : Register(w, d)
    \/ Freeze(w)

----------------------------------------------------------------------------
Known(w, n) == n \in DOMAIN defs[w]

RegistryTypeOK ==
  /\ seal \in [Workers -> {"absent", "open", "frozen", "gone"}]
  /\ DOMAIN defs = Workers
  /\ \A w \in Workers :
       /\ DOMAIN defs[w] \subseteq Names
       /\ \A n \in DOMAIN defs[w] : defs[w][n] \in Offered /\ defs[w][n].name = n

\* Whichever effects are to be compensated, one of them waits for no other.
Acyclic(D) ==
  \A S \in (SUBSET EffectNames(D)) \ {{}} : \E n \in S : D[n].deps \cap S = {}

Complete(D) ==
  \A n \in EffectNames(D) :
    /\ D[n].comp \in EffectNames(D) \cup {NoTool}
    /\ D[n].deps \subseteq EffectNames(D)

(***************************************************************************)
(* A registry is sound after every sequence of calls (tools.py:196-253): a *)
(* compensator that is registered is an effect, whichever of the two came  *)
(* first; the compensations of any effects can be put in an order, though  *)
(* dependencies on tools not registered yet are taken on trust and may     *)
(* close a cycle later; and a frozen registry misses nothing.  A failed    *)
(* registration in between changes none of this.                           *)
(***************************************************************************)
RegistriesStaySound ==
  \A w \in Workers :
    /\ WiringOK(defs[w], FALSE)
    /\ Acyclic(defs[w])
    /\ seal[w] = "frozen" => Complete(defs[w])

=============================================================================
