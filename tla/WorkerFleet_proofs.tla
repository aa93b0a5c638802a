----------------------- MODULE WorkerFleet_proofs -----------------------
(***************************************************************************)
(* What holds of a fleet of workers for all definitions, documents and     *)
(* bounds: the catalogue a worker was bound to, the soundness of the       *)
(* registries, how far a definite answer can be trusted, and the spending  *)
(* of the agents against the budget of their manifest.                     *)
(***************************************************************************)
EXTENDS WorkerFleet, NaturalsInduction, WellFoundedInduction, FiniteSetTheorems, TLAPS

\* Induction over the naturals, for a set in place of a predicate: its least
\* exception would have a predecessor that is none.
LEMMA Inductive ==
  ASSUME NEW T, T \subseteq Nat, 0 \in T, \A n \in T : n + 1 \in T
  PROVE  \A n \in Nat : n \in T
<1> DEFINE C == {n \in Nat : n \notin T}
<1> SUFFICES ASSUME C # {} PROVE FALSE
  OBVIOUS
<1>1. PICK c \in C : \A n \in C : ~(<<n, c>> \in OpToRel(<, Nat))
  BY NatLessThanWellFounded, WFMin
<1>2. c \in Nat /\ c # 0
  OBVIOUS
<1>3. c - 1 \in Nat /\ c - 1 < c
  BY <1>2
<1>4. c - 1 \notin C
  BY <1>1, <1>2, <1>3 DEF OpToRel
<1>5. c - 1 \in T
  BY <1>3, <1>4
<1>6. (c - 1) + 1 = c
  BY <1>2
<1> QED BY <1>2, <1>5, <1>6

(***************************************************************************)
(* The rounds of _graph_has_cycle, which the model defines by recursion:   *)
(* after k rounds those effects are left from which a path of k steps      *)
(* along the dependencies starts.                                          *)
(***************************************************************************)
Rounds(D, F) ==
  F = [k \in Nat |-> IF k = 0 THEN EffectNames(D)
                              ELSE {n \in F[k - 1] : D[n].deps \cap F[k - 1] # {}}]

PathFrom(D, n, k, p) ==
  /\ p \in [0 .. k -> EffectNames(D)] /\ p[0] = n
  /\ \A i \in 1 .. k : p[i] \in D[p[i - 1]].deps

StartsPath(D, k) == {n \in EffectNames(D) : \E p : PathFrom(D, n, k, p)}

LEMMA RoundsArePaths ==
  ASSUME NEW D
  PROVE  Rounds(D, [k \in Nat |-> StartsPath(D, k)])
<1> DEFINE E == EffectNames(D)
<1>1. StartsPath(D, 0) = E
  <2>1. ASSUME NEW n \in E PROVE PathFrom(D, n, 0, [i \in 0 .. 0 |-> n])
    BY DEF PathFrom
  <2> QED BY <2>1 DEF StartsPath
<1>2. ASSUME NEW k \in Nat, k # 0
      PROVE  StartsPath(D, k) = {n \in StartsPath(D, k - 1) : D[n].deps \cap StartsPath(D, k - 1) # {}}
  <2> DEFINE j == k - 1
  <2>1. j \in Nat /\ k = j + 1
    BY <1>2
  <2>2. ASSUME NEW n \in StartsPath(D, k)
        PROVE  n \in StartsPath(D, j) /\ D[n].deps \cap StartsPath(D, j) # {}
    <3>1. PICK p : PathFrom(D, n, k, p)
      BY DEF StartsPath
    <3>2. n \in E /\ p \in [0 .. k -> E] /\ p[0] = n /\ \A i \in 1 .. k : p[i] \in D[p[i - 1]].deps
      BY <3>1 DEF StartsPath, PathFrom
    <3> DEFINE q == [i \in 0 .. j |-> p[i]]
               r == [i \in 0 .. j |-> p[i + 1]]
    <3>3. q \in [0 .. j -> E] /\ q[0] = n
      BY <2>1, <3>2
    <3>4. \A i \in 1 .. j : q[i] \in D[q[i - 1]].deps
      BY <2>1, <3>2
    <3>5. PathFrom(D, n, j, q)
      BY <3>3, <3>4 DEF PathFrom
    <3>6. r \in [0 .. j -> E] /\ r[0] = p[1] /\ p[1] \in E
      BY <2>1, <3>2
    <3>7. ASSUME NEW i \in 1 .. j PROVE r[i] \in D[r[i - 1]].deps
      <4>1. i + 1 \in 1 .. k /\ (i + 1) - 1 = i /\ (i - 1) + 1 = i /\ i \in 0 .. j /\ i - 1 \in 0 .. j
        BY <2>1
      <4>2. r[i] = p[i + 1] /\ r[i - 1] = p[i]
        BY <4>1
      <4> QED BY <3>2, <4>1, <4>2
    <3>8. PathFrom(D, p[1], j, r)
      BY <3>6, <3>7 DEF PathFrom
    <3>9. p[1] \in D[n].deps
      <4>1. 1 \in 1 .. k /\ 1 - 1 = 0
        BY <2>1
      <4> QED BY <3>2, <4>1
    <3>10. n \in StartsPath(D, j)
      BY <3>2, <3>5 DEF StartsPath
    <3>11. p[1] \in StartsPath(D, j)
      BY <3>6, <3>8 DEF StartsPath
    <3> QED BY <3>9, <3>10, <3>11
  <2>3. ASSUME NEW n \in E, NEW m \in D[n].deps \cap StartsPath(D, j)
        PROVE  n \in StartsPath(D, k)
    <3>1. PICK q : PathFrom(D, m, j, q)
      BY DEF StartsPath
    <3>2. q \in [0 .. j -> E] /\ q[0] = m /\ \A i \in 1 .. j : q[i] \in D[q[i - 1]].deps
      BY <3>1 DEF PathFrom
    <3> DEFINE p == [i \in 0 .. k |-> IF i = 0 THEN n ELSE q[i - 1]]
    <3>3. p \in [0 .. k -> E] /\ p[0] = n
      BY <2>1, <3>2
    <3>4. ASSUME NEW i \in 1 .. k PROVE p[i] \in D[p[i - 1]].deps
      <4>1. p[i] = q[i - 1]
        OBVIOUS
      <4>2. CASE i = 1
        <5>1. p[i - 1] = n /\ q[i - 1] = m
          BY <2>1, <3>2, <4>2
        <5> QED BY <4>1, <5>1
      <4>3. CASE i # 1
        <5>1. i - 1 \in 1 .. j /\ i - 1 \in 0 .. k /\ i - 1 # 0
          BY <2>1, <4>3
        <5>2. p[i - 1] = q[(i - 1) - 1]
          BY <5>1
        <5> QED BY <3>2, <4>1, <5>1, <5>2
      <4> QED BY <4>2, <4>3
    <3>5. PathFrom(D, n, k, p)
      BY <3>3, <3>4 DEF PathFrom
    <3> QED BY <3>5 DEF StartsPath
  <2>4. StartsPath(D, j) \subseteq E
    BY DEF StartsPath
  <2> QED BY <2>2, <2>3, <2>4
<1> QED BY <1>1, <1>2 DEF Rounds

\* What is left after any number of rounds includes every set of effects that
\* each depend on another of the set.
LEMMA NoCycle ==
  ASSUME NEW D, IsFiniteSet(DOMAIN D), ~HasCycle(D)
  PROVE  Acyclic(D)
<1>1. Rounds(D, LeftAfter(D))
  <2>1. LeftAfter(D) = CHOOSE F : Rounds(D, F)
    BY DEF LeftAfter, Rounds
  <2> QED BY <2>1, RoundsArePaths
<1> DEFINE F == LeftAfter(D)
<1> HIDE DEF F
<1>2. F[0] = EffectNames(D)
  BY <1>1 DEF F, Rounds
<1>3. \A k \in Nat : F[k + 1] = {n \in F[k] : D[n].deps \cap F[k] # {}}
  <2> TAKE k \in Nat
  <2>1. k + 1 \in Nat /\ k + 1 # 0 /\ (k + 1) - 1 = k
    OBVIOUS
  <2> QED BY <1>1, <2>1 DEF F, Rounds
<1> SUFFICES ASSUME NEW S \in (SUBSET EffectNames(D)) \ {{}},
                    \A n \in S : D[n].deps \cap S # {}
             PROVE  FALSE
  BY DEF Acyclic
<1> DEFINE T == {k \in Nat : S \subseteq F[k]}
<1>4. 0 \in T
  BY <1>2
<1>5. ASSUME NEW k \in T PROVE k + 1 \in T
  BY <1>3
<1>6. T \subseteq Nat
  OBVIOUS
<1> HIDE DEF T
<1>7. \A k \in Nat : k \in T
  BY <1>4, <1>5, <1>6, Inductive
<1>8. Cardinality(DOMAIN D) \in T
  BY <1>7, FS_CardinalityType
<1> QED BY <1>8 DEF HasCycle, F, T

\* What the checks of tools.py establish of the definitions they pass.
LEMMA Checked ==
  ASSUME NEW D, IsFiniteSet(DOMAIN D), NEW c \in BOOLEAN, DependenciesOK(D, c)
  PROVE  WiringOK(D, FALSE) /\ Acyclic(D) /\ (c => Complete(D))
<1>1. Acyclic(D)
  BY NoCycle DEF DependenciesOK
<1> QED BY <1>1 DEF DependenciesOK, WiringOK, Complete

\* The wiring and the order depend on what a registry has under its names.
LEMMA SameSoundness ==
  ASSUME NEW D, NEW E, DOMAIN D = DOMAIN E, \A n \in DOMAIN D : D[n] = E[n]
  PROVE  /\ EffectNames(D) = EffectNames(E)
         /\ WiringOK(D, FALSE) => WiringOK(E, FALSE)
         /\ Acyclic(D) => Acyclic(E)
<1>1. EffectNames(D) = EffectNames(E)
  BY DEF EffectNames
<1>2. \A n \in EffectNames(D) : D[n] = E[n]
  BY DEF EffectNames
<1> QED BY <1>1, <1>2 DEF WiringOK, Acyclic

----------------------------------------------------------------------------
(***************************************************************************)
(* The inductive invariant: a registry before it exists binds no manifest, *)
(* a registry is sound, and no context is unvalidated.                     *)
(***************************************************************************)
RegistryInv ==
  /\ RegistryTypeOK /\ ManifestTypeOK
  /\ \A w \in Workers : seal[w] = "absent" => context[w] = NoContext
  /\ RegistriesStaySound
  /\ \A w \in Workers : context[w] # NoContext => Validates(context[w])
  /\ PinnedCatalogueHolds

RegistrySteps ==
  \/ RegistryNext /\ UNCHANGED context
  \/ \E w \in Workers, m \in Documents : LoadContext(w, m)
  \/ \E w \in Workers : GoDown(w)
  \/ UNCHANGED <<registryVars, context>>

LEMMA EmptySound == WiringOK(Nothing, FALSE) /\ Acyclic(Nothing)
<1>1. EffectNames(Nothing) = {}
  BY DEF EffectNames, Nothing
<1> QED BY <1>1 DEF WiringOK, Acyclic

LEMMA RegistryInitial == FleetInit => RegistryInv
<1> SUFFICES ASSUME FleetInit PROVE RegistryInv OBVIOUS
<1>1. DOMAIN Nothing = {}
  BY DEF Nothing
<1>2. RegistryTypeOK
  BY <1>1 DEF FleetInit, RegistryInit, RegistryTypeOK
<1>3. RegistriesStaySound
  <2>1. \A w \in Workers : defs[w] = Nothing /\ seal[w] = "absent"
    BY DEF FleetInit, RegistryInit
  <2> QED BY <2>1, EmptySound DEF RegistriesStaySound
<1> QED
  BY <1>2, <1>3 DEF FleetInit, RegistryInit, ManifestInit, RegistryInv, ManifestTypeOK, PinnedCatalogueHolds

\* Registering a tool, whether it is kept or taken back, leaves the others alone.
LEMMA Registered ==
  ASSUME RegistryInv, NEW w \in Workers, NEW d \in Offered, Register(w, d)
  PROVE  /\ defs' = [defs EXCEPT ![w] = defs'[w]]
         /\ seal' = seal /\ seal[w] = "open"
         /\ DOMAIN defs[w] \subseteq DOMAIN defs'[w]
         /\ DOMAIN defs'[w] \subseteq DOMAIN defs[w] \cup {d.name}
         /\ \A n \in DOMAIN defs[w] : defs'[w][n] = defs[w][n]
         /\ d.name \in DOMAIN defs'[w] => defs'[w][d.name] = d
         /\ WiringOK(defs'[w], FALSE) /\ Acyclic(defs'[w])
<1> DEFINE D == With(defs[w], d)
           E == IF Tolerates(D, d) THEN D ELSE Without(D, d.name)
<1>1. /\ defs' = [defs EXCEPT ![w] = E] /\ seal' = seal /\ seal[w] = "open"
      /\ d.name \notin DOMAIN defs[w]
  BY DEF Register
<1>2. defs'[w] = E
  BY <1>1 DEF RegistryInv, RegistryTypeOK
<1>3. /\ DOMAIN D = DOMAIN defs[w] \cup {d.name}
      /\ \A n \in DOMAIN defs[w] : D[n] = defs[w][n]
      /\ D[d.name] = d
  BY <1>1 DEF With
<1>4. LET W == Without(D, d.name) IN
      DOMAIN W = DOMAIN defs[w] /\ \A n \in DOMAIN defs[w] : W[n] = defs[w][n]
  BY <1>1, <1>3 DEF Without
<1>5. WiringOK(defs[w], FALSE) /\ Acyclic(defs[w])
  BY DEF RegistryInv, RegistriesStaySound
<1>6. CASE ~Tolerates(D, d)
  <2>1. E = Without(D, d.name)
    BY <1>6
  <2> HIDE DEF D, E
  <2>2. DOMAIN E = DOMAIN defs[w] /\ \A n \in DOMAIN defs[w] : E[n] = defs[w][n]
    BY <1>4, <2>1
  <2>3. WiringOK(E, FALSE) /\ Acyclic(E)
    BY <1>5, <2>2, SameSoundness
  <2> QED BY <1>1, <1>2, <2>2, <2>3
<1>7. CASE Tolerates(D, d) /\ d.kind # "read"
  <2>1. E = D /\ DependenciesOK(D, FALSE)
    BY <1>7 DEF Tolerates
  <2> HIDE DEF D, E
  <2>2. IsFiniteSet(DOMAIN D)
    <3>1. DOMAIN D \subseteq Names
      BY <1>3, RegistryAssumption DEF RegistryInv, RegistryTypeOK
    <3> QED BY <3>1, RegistryAssumption, FS_Subset
  <2>3. WiringOK(D, FALSE) /\ Acyclic(D)
    BY <2>1, <2>2, Checked
  <2> QED BY <1>1, <1>2, <1>3, <2>1, <2>3
<1>8. CASE Tolerates(D, d) /\ d.kind = "read"
  <2>1. E = D /\ WiringOK(D, FALSE)
    BY <1>8 DEF Tolerates
  <2> HIDE DEF D, E
  <2>2. EffectNames(D) = EffectNames(defs[w])
    BY <1>1, <1>3, <1>8 DEF EffectNames
  <2>3. \A n \in EffectNames(D) : D[n] = defs[w][n]
    BY <1>3, <2>2 DEF EffectNames
  <2>4. Acyclic(D)
    BY <1>5, <2>2, <2>3 DEF Acyclic
  <2> QED BY <1>1, <1>2, <1>3, <2>1, <2>4
<1> QED
  BY <1>6, <1>7, <1>8

LEMMA RegistryStep == RegistryInv /\ RegistrySteps => RegistryInv'
<1> SUFFICES ASSUME RegistryInv, RegistrySteps PROVE RegistryInv' OBVIOUS
<1> USE DEF RegistryInv, RegistryTypeOK, ManifestTypeOK, PinnedCatalogueHolds
<1>1. ASSUME NEW w \in Workers, NEW S \in SUBSET Offered, Construct(w, S), UNCHANGED context
      PROVE  RegistryInv'
  <2> DEFINE D == [n \in {d.name : d \in S} |-> CHOOSE d \in S : d.name = n]
  <2>1. /\ seal[w] = "absent" /\ defs' = [defs EXCEPT ![w] = D]
        /\ seal' = [seal EXCEPT ![w] = "open"]
    BY <1>1 DEF Construct
  <2>2. \A n \in DOMAIN D : D[n] \in Offered /\ D[n].name = n /\ n \in Names
    BY RegistryAssumption
  <2> HIDE DEF D
  <2>3. RegistryTypeOK'
    <3>1. seal' \in [Workers -> {"absent", "open", "frozen", "gone"}] /\ DOMAIN defs' = Workers
      BY <2>1
    <3>2. \A v \in Workers :
            /\ DOMAIN defs'[v] \subseteq Names
            /\ \A n \in DOMAIN defs'[v] : defs'[v][n] \in Offered /\ defs'[v][n].name = n
      <4>1. defs'[w] = D /\ \A v \in Workers : v # w => defs'[v] = defs[v]
        BY <2>1
      <4> QED BY <4>1, <2>2
    <3> QED BY <3>1, <3>2
  <2>4. context[w] = NoContext
    BY <2>1
  <2>5. \A v \in Workers : v # w => defs'[v] = defs[v] /\ seal'[v] = seal[v]
    BY <2>1
  <2>6. seal'[w] = "open" /\ defs'[w] = D
    BY <2>1
  <2>7. RegistriesStaySound'
    <3>1. DependenciesOK(D, TRUE)
      BY <1>1 DEF Construct, D
    <3>2. IsFiniteSet(DOMAIN D)
      <4>1. DOMAIN D \subseteq Names
        BY <2>2
      <4> QED BY <4>1, RegistryAssumption, FS_Subset
    <3>3. WiringOK(D, FALSE) /\ Acyclic(D)
      BY <3>1, <3>2, Checked
    <3> QED BY <2>5, <2>6, <3>3 DEF RegistriesStaySound
  <2> QED
    BY <1>1, <2>3, <2>4, <2>5, <2>6, <2>7
<1>2. ASSUME NEW w \in Workers, NEW d \in Offered, Register(w, d), UNCHANGED context
      PROVE  RegistryInv'
  <2>1. /\ defs' = [defs EXCEPT ![w] = defs'[w]]
        /\ seal' = seal /\ seal[w] = "open"
        /\ DOMAIN defs[w] \subseteq DOMAIN defs'[w]
        /\ DOMAIN defs'[w] \subseteq DOMAIN defs[w] \cup {d.name}
        /\ \A n \in DOMAIN defs[w] : defs'[w][n] = defs[w][n]
        /\ d.name \in DOMAIN defs'[w] => defs'[w][d.name] = d
        /\ WiringOK(defs'[w], FALSE) /\ Acyclic(defs'[w])
    BY <1>2, Registered
  <2>2. \A v \in Workers : v # w => defs'[v] = defs[v]
    BY <2>1
  <2>3. RegistryTypeOK'
    <3>1. d.name \in Names
      BY RegistryAssumption
    <3>2. ASSUME NEW n \in DOMAIN defs'[w]
          PROVE  n \in Names /\ defs'[w][n] \in Offered /\ defs'[w][n].name = n
      <4>1. CASE n \in DOMAIN defs[w]
        BY <4>1, <2>1
      <4>2. CASE n = d.name
        BY <4>2, <3>1, <3>2, <2>1
      <4> QED BY <2>1, <3>2, <4>1, <4>2
    <3>3. DOMAIN defs' = Workers /\ seal' \in [Workers -> {"absent", "open", "frozen", "gone"}]
      BY <2>1
    <3> QED BY <2>2, <3>2, <3>3
  <2>4. ASSUME NEW v \in Workers, context[v] # NoContext
        PROVE  Describes(defs'[v], context[v])
    <3>1. CASE v = w
      <4>1. context[w].allowed \subseteq DOMAIN defs[w]
        BY <2>4, <3>1 DEF Describes
      <4> QED BY <2>1, <2>4, <3>1, <4>1 DEF Describes
    <3>2. CASE v # w
      BY <2>2, <2>4, <3>2
    <3> QED BY <3>1, <3>2
  <2>5. RegistriesStaySound'
    BY <2>1, <2>2 DEF RegistriesStaySound
  <2> QED
    BY <1>2, <2>1, <2>3, <2>4, <2>5
<1>3. ASSUME NEW w \in Workers, Freeze(w), UNCHANGED context
      PROVE  RegistryInv'
  <2>1. /\ DependenciesOK(defs[w], TRUE) /\ defs' = defs
        /\ seal' = [seal EXCEPT ![w] = "frozen"] /\ seal[w] # "absent"
    BY <1>3 DEF Freeze
  <2>2. IsFiniteSet(DOMAIN defs[w])
    BY RegistryAssumption, FS_Subset
  <2>3. Complete(defs[w])
    BY <2>1, <2>2, Checked
  <2>4. RegistriesStaySound'
    BY <2>1, <2>3 DEF RegistriesStaySound
  <2>5. RegistryTypeOK'
    BY <2>1
  <2> QED
    BY <1>3, <2>1, <2>4, <2>5
<1>4. ASSUME NEW w \in Workers, GoDown(w)
      PROVE  RegistryInv'
  <2>1. DOMAIN Nothing = {}
    BY DEF Nothing
  <2>2. /\ defs'[w] = Nothing /\ seal'[w] = "gone" /\ context'[w] = NoContext
        /\ DOMAIN defs' = Workers
        /\ \A v \in Workers : v # w => defs'[v] = defs[v] /\ seal'[v] = seal[v] /\ context'[v] = context[v]
    BY <1>4 DEF GoDown
  <2>3. seal' \in [Workers -> {"absent", "open", "frozen", "gone"}]
    BY <1>4 DEF GoDown
  <2>4. context' \in [Workers -> Documents \cup {NoContext}]
    BY <1>4 DEF GoDown
  <2>5. RegistryTypeOK'
    BY <2>1, <2>2, <2>3
  <2>6. RegistriesStaySound'
    BY <2>2, EmptySound DEF RegistriesStaySound
  <2> QED
    BY <2>2, <2>4, <2>5, <2>6
<1>5. ASSUME NEW w \in Workers, NEW m \in Documents, LoadContext(w, m)
      PROVE  RegistryInv'
  <2>1. CASE GoDown(w)
    BY <1>4, <2>1
  <2>2. CASE /\ Validates(m) /\ Resolves(defs[w], m)
             /\ context' = [context EXCEPT ![w] = m] /\ UNCHANGED registryVars
    <3>1. seal[w] \in {"open", "frozen"}
      BY <1>5 DEF LoadContext
    <3>2. /\ defs' = defs /\ seal' = seal /\ context'[w] = m
          /\ \A v \in Workers : v # w => context'[v] = context[v]
      BY <2>2 DEF registryVars
    <3>3. context' \in [Workers -> Documents \cup {NoContext}]
      BY <2>2
    <3>4. ASSUME NEW v \in Workers, context'[v] # NoContext
          PROVE  seal[v] # "absent" /\ Validates(context'[v]) /\ Describes(defs[v], context'[v])
      <4>1. CASE v = w
        BY <2>2, <3>1, <3>2, <4>1 DEF Resolves
      <4>2. CASE v # w
        <5>1. context'[v] = context[v]
          BY <3>2, <4>2
        <5> QED BY <3>4, <5>1
      <4> QED BY <4>1, <4>2
    <3> HIDE DEF RegistryTypeOK
    <3>5. RegistryTypeOK' /\ RegistriesStaySound'
      BY <3>2 DEF RegistryTypeOK, RegistriesStaySound
    <3> QED BY <3>2, <3>3, <3>4, <3>5
  <2> QED
    BY <1>5, <2>1, <2>2 DEF LoadContext
<1>6. CASE UNCHANGED <<registryVars, context>>
  BY <1>6 DEF registryVars, RegistriesStaySound
<1> QED
  BY <1>1, <1>2, <1>3, <1>4, <1>5, <1>6 DEF RegistrySteps, RegistryNext

\* What each step of the fleet does to the registries and the contexts.
LEMMA StepsOfRegistries == [FleetNext]_workVars => RegistrySteps
<1> SUFFICES ASSUME [FleetNext]_workVars PROVE RegistrySteps OBVIOUS
<1> USE DEF RegistrySteps
<1>1. CASE UNCHANGED workVars
  BY <1>1 DEF workVars
<1>2. CASE RegistryNext /\ UNCHANGED context
  BY <1>2
<1>3. ASSUME NEW w \in Workers, BuildNative(w) \/ BuildChoice(w) PROVE RegistrySteps
  BY <1>3 DEF BuildNative, BuildChoice
<1>4. ASSUME NEW w \in Workers, Execute(w) \/ Reconcile(w) PROVE RegistrySteps
  BY <1>4 DEF Execute, Reconcile, ExecuteRejected, ExecuteRead, ExecuteConfirmed, ExecuteRefused,
     ExecuteUnclear, ExecuteLost, ReconcileRejected, ReconcileEffect, ReconcileNoEffect,
     ReconcileOpen, Activity
<1>5. CASE AgentTurn
  BY <1>5 DEF AgentTurn, PayloadRefused, NativeRetry, NativeFails, SelectionFails, NativeCall,
     Selected, Candidates, Unspent, Request
<1>6. CASE CallTool \/ Undo \/ LateExecution \/ Exhausted
  BY <1>6 DEF CallTool, Undo, LateExecution, Exhausted, Activity
<1>7. ASSUME NEW w \in Workers, NEW A, NEW f, Decide(w, A, f) PROVE RegistrySteps
  BY <1>7 DEF Decide
<1> QED
  BY <1>1, <1>2, <1>3, <1>4, <1>5, <1>6, <1>7 DEF FleetNext

(***************************************************************************)
(* The catalogue a worker was bound to is the one it works with, whatever  *)
(* is registered or taken back afterwards (manifest.py:364).               *)
(***************************************************************************)
THEOREM PinnedCatalogue == FleetSpec => []PinnedCatalogueHolds
<1>1. RegistryInv /\ [FleetNext]_workVars => RegistryInv'
  BY RegistryStep, StepsOfRegistries
<1>2. RegistryInv => PinnedCatalogueHolds
  BY DEF RegistryInv
<1> QED
  BY RegistryInitial, <1>1, <1>2, PTL DEF FleetSpec

(***************************************************************************)
(* Every sequence of registrations, failed ones included, and whatever     *)
(* tools they leave out for the time being, keeps compensators effects and *)
(* their dependencies free of cycles (tools.py:196-253): the rounds of     *)
(* _graph_has_cycle (tools.py:308) find every cycle.                       *)
(***************************************************************************)
THEOREM RegistriesSound == FleetSpec => []RegistriesStaySound
<1>1. RegistryInv /\ [FleetNext]_workVars => RegistryInv'
  BY RegistryStep, StepsOfRegistries
<1>2. RegistryInv => RegistriesStaySound
  BY DEF RegistryInv
<1> QED
  BY RegistryInitial, <1>1, <1>2, PTL DEF FleetSpec

----------------------------------------------------------------------------
(***************************************************************************)
(* The decision activity proposes what was advertised.                     *)
(***************************************************************************)
TurnInv ==
  /\ AgentTypeOK
  /\ turn.available \subseteq DOMAIN Declared
  /\ turn.phase = "answered" => MayPropose(turn.proposal)
  /\ \A p \in turn.candidates : MayPropose(p)

LEMMA TurnInitial == FleetInit => TurnInv
<1> SUFFICES ASSUME FleetInit PROVE TurnInv OBVIOUS
<1>1. 0 \in 0 .. MaxOutput /\ 0 \in 0 .. MaxTimeout /\ 0 \in 0 .. RequestLimit - 1
  BY DriverAssumption DEF RequestLimit
<1>2. turn = IdleTurn /\ driver = [w \in Workers |-> "none"] /\ caps = [w \in Workers |-> NoCaps]
      /\ turnsAt = [w \in Workers |-> 0] /\ requestsAt = [w \in Workers |-> 0]
  BY DEF FleetInit, AgentInit
<1>3. IdleTurn.available = {} /\ IdleTurn.candidates = {} /\ IdleTurn.phase = "idle"
  BY DEF IdleTurn
<1>4. AgentTypeOK
  BY <1>1, <1>2, <1>3 DEF AgentTypeOK, IdleTurn, NoCaps
<1> QED
  BY <1>2, <1>3, <1>4 DEF TurnInv

LEMMA CapsInRange ==
  ASSUME NEW m \in Documents, Validates(m)
  PROVE  /\ RequestCap(m.tokens, m.turns) \in Int /\ RequestCap(m.elapsed, m.turns) \in Int
         /\ TurnTime(m) \in Int
<1>1. m.turns \in 1 .. 100 /\ m.tokens \in Nat /\ m.elapsed \in Nat
  BY ManifestAssumption DEF Validates, BudgetOK
<1>2. m.tokens \div m.turns \in Int /\ m.elapsed \div m.turns \in Int
  BY <1>1
<1> QED
  BY <1>2 DEF RequestCap, RequestLimit, TurnTime

LEMMA LeastBounded ==
  ASSUME NEW M \in Nat, NEW n \in Int, n > 0
  PROVE  Least(M, n) \in 0 .. M
BY DEF Least

LEMMA TurnStep == RegistryInv /\ TurnInv /\ [FleetNext]_workVars => TurnInv'
<1> SUFFICES ASSUME RegistryInv, TurnInv, [FleetNext]_workVars PROVE TurnInv' OBVIOUS
<1> USE DEF TurnInv
<1>1. CASE UNCHANGED <<driverVars, turnVars>>
  BY <1>1 DEF driverVars, turnVars, AgentTypeOK, MayPropose
<1>2. ASSUME NEW w \in Workers, BuildNative(w) PROVE TurnInv'
  <2>1. UNCHANGED turnVars
    BY <1>2 DEF BuildNative
  <2>2. driver' \in [Workers -> {"none", "native", "choice"}]
    BY <1>2 DEF BuildNative, driverVars, AgentTypeOK
  <2>3. caps' \in [Workers -> [tokens : 0 .. MaxOutput, ms : 0 .. MaxTimeout]]
    <3>1. CASE UNCHANGED driverVars
      BY <3>1 DEF driverVars, AgentTypeOK
    <3>2. CASE ~ UNCHANGED driverVars
      <4> DEFINE tokens == RequestCap(context[w].tokens, context[w].turns)
                 ms == RequestCap(context[w].elapsed, context[w].turns)
      <4>1. /\ tokens > 0 /\ ms > 0
            /\ caps' = [caps EXCEPT ![w] = [tokens |-> Least(MaxOutput, tokens),
                                            ms |-> Least(MaxTimeout, ms)]]
        BY <1>2, <3>2 DEF BuildNative
      <4>2. context[w] \in Documents /\ Validates(context[w])
        BY <1>2 DEF BuildNative, RegistryInv, ManifestTypeOK
      <4>3. tokens \in Int /\ ms \in Int
        BY <4>2, CapsInRange
      <4> HIDE DEF tokens, ms
      <4>4. Least(MaxOutput, tokens) \in 0 .. MaxOutput /\ Least(MaxTimeout, ms) \in 0 .. MaxTimeout
        BY <4>1, <4>3, LeastBounded, DriverAssumption
      <4> QED BY <4>1, <4>4 DEF AgentTypeOK
    <3> QED BY <3>1, <3>2
  <2> QED BY <2>1, <2>2, <2>3 DEF turnVars, AgentTypeOK, MayPropose
<1>3. ASSUME NEW w \in Workers, BuildChoice(w) PROVE TurnInv'
  <2>1. UNCHANGED turnVars
    BY <1>3 DEF BuildChoice
  <2>2. driver' \in [Workers -> {"none", "native", "choice"}]
    BY <1>3 DEF BuildChoice, driverVars, AgentTypeOK
  <2>3. caps' \in [Workers -> [tokens : 0 .. MaxOutput, ms : 0 .. MaxTimeout]]
    <3>1. CASE UNCHANGED driverVars
      BY <3>1 DEF driverVars, AgentTypeOK
    <3>2. CASE ~ UNCHANGED driverVars
      <4> DEFINE ms == TurnTime(context[w])
      <4>1. /\ ms > 0
            /\ caps' = [caps EXCEPT ![w] = [tokens |-> 0, ms |-> Least(MaxTimeout, ms)]]
        BY <1>3, <3>2 DEF BuildChoice
      <4>2. context[w] \in Documents /\ Validates(context[w])
        BY <1>3 DEF BuildChoice, RegistryInv, ManifestTypeOK
      <4>3. ms \in Int
        BY <4>2, CapsInRange
      <4> HIDE DEF ms
      <4>4. 0 \in 0 .. MaxOutput /\ Least(MaxTimeout, ms) \in 0 .. MaxTimeout
        BY <4>1, <4>3, LeastBounded, DriverAssumption
      <4> QED BY <4>1, <4>4 DEF AgentTypeOK
    <3> QED BY <3>1, <3>2
  <2> QED BY <2>1, <2>2, <2>3 DEF turnVars, AgentTypeOK, MayPropose
<1>4. ASSUME NEW w \in Workers, NEW A \in SUBSET DOMAIN Declared, NEW f \in BOOLEAN, Decide(w, A, f)
      PROVE  TurnInv'
  <2>1. /\ turn' = [IdleTurn EXCEPT !.worker = w, !.available = A, !.finish = f, !.phase = turn'.phase]
        /\ turn'.phase \in {"planning", "failed"}
    BY <1>4 DEF Decide, IdleTurn
  <2>2. /\ turn'.available = A /\ turn'.candidates = {}
        /\ turn'.worker = w /\ turn'.finish = f /\ turn'.requests = 0 /\ turn'.proposal = NoProposal
        /\ turn' = [phase |-> turn'.phase, worker |-> w, available |-> A, finish |-> f,
                    candidates |-> {}, requests |-> 0, proposal |-> NoProposal]
    BY <2>1 DEF IdleTurn
  <2>3. A \subseteq Names /\ 0 \in 0 .. RequestLimit - 1
    BY FleetAssumption DEF RequestLimit
  <2>4. turnsAt' \in [Workers -> Nat] /\ requestsAt' \in [Workers -> Nat] /\ UNCHANGED driverVars
    BY <1>4 DEF Decide, AgentTypeOK
  <2> QED BY <2>1, <2>2, <2>3, <2>4 DEF AgentTypeOK, driverVars
<1>5. CASE AgentTurn
  <2>1. UNCHANGED driverVars /\ UNCHANGED turnsAt
    BY <1>5 DEF AgentTurn, PayloadRefused, NativeRetry, NativeFails, SelectionFails, NativeCall,
       Selected, Candidates, Unspent, Request
  <2>2. turn.phase = "planning" /\ turn.worker \in Workers
    BY <1>5 DEF AgentTurn, PayloadRefused, NativeRetry, NativeFails, SelectionFails, NativeCall,
       Selected, Candidates, Planning, AgentTypeOK
  <2>3. requestsAt' \in [Workers -> Nat]
    BY <1>5, <2>2 DEF AgentTurn, PayloadRefused, NativeRetry, NativeFails, SelectionFails, NativeCall,
       Selected, Candidates, Unspent, Request, AgentTypeOK
  <2>4. CASE FailTurn
    BY <2>1, <2>2, <2>3, <2>4 DEF FailTurn, AgentTypeOK, MayPropose, driverVars
  <2>5. ASSUME NEW p \in Proposals, Answer(p), MayPropose(p) PROVE TurnInv'
    BY <2>1, <2>2, <2>3, <2>5 DEF Answer, AgentTypeOK, MayPropose, driverVars
  <2>6. ASSUME NEW C \in SUBSET Proposals, Candidates(C) PROVE TurnInv'
    <3>1. CASE Acceptable(C) /\ turn' = [turn EXCEPT !.candidates = C]
      BY <2>1, <2>2, <2>3, <3>1 DEF Acceptable, AgentTypeOK, MayPropose, driverVars
    <3>2. CASE Acceptable(C) /\ \E p \in C : Answer(p)
      BY <2>5, <3>2 DEF Acceptable
    <3> QED BY <2>4, <2>6, <3>1, <3>2 DEF Candidates
  <2>7. CASE NativeRetry
    <3>1. CASE turn' = [turn EXCEPT !.requests = @ + 1] /\ turn.requests + 1 < RequestLimit
      <4>1. turn.requests + 1 \in 0 .. RequestLimit - 1
        BY <3>1 DEF AgentTypeOK, RequestLimit
      <4> QED BY <2>1, <2>2, <2>3, <3>1, <4>1 DEF AgentTypeOK, MayPropose, driverVars
    <3> QED BY <2>4, <2>7, <3>1 DEF NativeRetry
  <2>8. ASSUME NEW p \in Proposals, NativeCall(p) PROVE TurnInv'
    BY <2>4, <2>5, <2>8 DEF NativeCall
  <2>9. ASSUME NEW p \in Proposals, Selected(p) PROVE TurnInv'
    BY <2>5, <2>9 DEF Selected
  <2> QED
    BY <1>5, <2>4, <2>6, <2>7, <2>8, <2>9 DEF AgentTurn, PayloadRefused, NativeFails, SelectionFails
<1>6. CASE CallTool \/ Undo
  <2>1. turn' = IdleTurn /\ UNCHANGED <<driverVars, turnsAt, requestsAt>>
    BY <1>6 DEF CallTool, Undo
  <2>2. IdleTurn.available = {} /\ IdleTurn.candidates = {} /\ IdleTurn.phase = "idle"
        /\ 0 \in 0 .. RequestLimit - 1
    BY DEF IdleTurn, RequestLimit
  <2> QED BY <2>1, <2>2 DEF AgentTypeOK, IdleTurn, driverVars
<1>7. ASSUME NEW w \in Workers, Execute(w) \/ Reconcile(w) PROVE TurnInv'
  <2>1. UNCHANGED <<driverVars, turnVars>>
    BY <1>7 DEF Execute, Reconcile, ExecuteRejected, ExecuteRead, ExecuteConfirmed, ExecuteRefused,
       ExecuteUnclear, ExecuteLost, ReconcileRejected, ReconcileEffect, ReconcileNoEffect,
       ReconcileOpen, Activity
  <2> QED BY <1>1, <2>1
<1>8. CASE \/ RegistryNext /\ UNCHANGED context /\ UNCHANGED driverVars /\ Setup
           \/ \E w \in Workers, m \in Documents : LoadContext(w, m) /\ UNCHANGED driverVars /\ Setup
           \/ LateExecution \/ Exhausted
           \/ UNCHANGED workVars
  BY <1>1, <1>8 DEF Setup, Activity, LateExecution, Exhausted, workVars
<1> QED
  BY <1>2, <1>3, <1>4, <1>5, <1>6, <1>7, <1>8 DEF FleetNext

----------------------------------------------------------------------------
(***************************************************************************)
(* A definition that serves the operation of a direction, at whichever     *)
(* worker: every execution that committed or may still commit has one.     *)
(***************************************************************************)
ServedBy(k, d) ==
  /\ d \in Offered /\ d.kind = "effect" /\ d.name = ToolName(k)
  /\ call.args \in d.schema
  /\ k = "forward" => call.kind = "effect" /\ d.comp = call.comp
  /\ k = "undo" => receipt = "agrees"

CallTypeOK ==
  /\ call \in [tool : Names \cup {NoTool}, args : Args \cup {NoArgs},
               kind : {"read", "effect"}, comp : Names \cup {NoTool}]
  /\ run \in [phase : {"idle", "running", "unresolved", "settled"},
              direction : Directions, attempts : 0 .. MaxAttempts]
  /\ said \in [Directions -> [answer : Answers, by : SomeDefinition]]
  /\ ledger \in [Directions -> [state : {"open", "committed", "refused"}, by : SomeDefinition]]
  /\ late \subseteq [direction : Directions, by : Offered]
  /\ receipt \in {"agrees", "differs"}
  /\ call.kind = "effect" => call.comp # NoTool

Denied(k) == said[k].answer \in {"failed", "no effect"}

\* What a denial says of a definition that serves the operation nevertheless.
Excused(k, d) ==
  /\ said[k].answer = "failed" => ~SameContract(said[k].by, d)
  /\ said[k].answer = "no effect" => OnlySchemaDiffers(said[k].by, d, k)

\* The operations of which the provider keeps a record.
Recorded(k) == k = "undo" \/ call.kind = "effect"

\* Where the two directions are: the undo begins with a committed effect.
PhaseInv ==
  /\ run.direction = "forward" =>
       /\ said["undo"].answer = "none" /\ ledger["undo"].state = "open"
       /\ \A x \in late : x.direction = "forward"
  /\ run.direction = "undo" => ledger["forward"].state = "committed"
  /\ run.phase \in {"running", "unresolved"} => said[run.direction].answer = "none"
  /\ \A k \in Directions : Confirmed(k) /\ Recorded(k) => ledger[k].state = "committed"

ServiceInv ==
  /\ \A k \in Directions : ledger[k].state = "committed" => ServedBy(k, ledger[k].by)
  /\ \A x \in late : ServedBy(x.direction, x.by)

\* A denial stays true of what is committed and of what may yet be.
DenialInv ==
  \A k \in Directions :
    Denied(k) =>
      /\ ledger[k].state = "committed" => Excused(k, ledger[k].by)
      /\ ledger[k].state # "refused" => \A x \in late : x.direction = k => Excused(k, x.by)

OperationInv == CallTypeOK /\ PhaseInv /\ ServiceInv /\ DenialInv

LEMMA OperationInitial == FleetInit => OperationInv
<1> SUFFICES ASSUME FleetInit PROVE OperationInv OBVIOUS
<1>1. /\ call = NoCall /\ run = IdleRun /\ late = {} /\ receipt = "agrees"
      /\ said = [k \in Directions |-> Untold] /\ ledger = [k \in Directions |-> Unwritten]
  BY DEF FleetInit
<1>2. CallTypeOK
  <2>1. 0 \in 0 .. MaxAttempts
    BY FleetAssumption
  <2>2. run \in [phase : {"idle", "running", "unresolved", "settled"},
                 direction : Directions, attempts : 0 .. MaxAttempts]
    BY <1>1, <2>1 DEF IdleRun, Directions
  <2> QED BY <1>1, <2>2 DEF CallTypeOK, NoCall, Untold, Unwritten, Answers, SomeDefinition
<1>3. PhaseInv
  BY <1>1 DEF PhaseInv, IdleRun, Untold, Unwritten, Directions, Confirmed
<1>4. ServiceInv /\ DenialInv
  BY <1>1 DEF ServiceInv, DenialInv, Denied, Untold, Unwritten
<1> QED BY <1>2, <1>3, <1>4 DEF OperationInv

\* A worker that does not serve an operation has another contract than any that does.
LEMMA Unserved ==
  ASSUME NEW d, NEW x, ServedBy(run.direction, x), SameContract(d, x), run.direction \in Directions
  PROVE  Serves(d)
BY DEF ServedBy, SameContract, Serves, Matches, Understands, Directions

\* A worker that has the tool of an operation and does not take its command
\* differs from one that serves it in the schema alone.
Misreads(d) ==
  /\ d # NoDefinition /\ d.kind = "effect" /\ d.name = ToolName(run.direction)
  /\ Matches(d) /\ ~Understands(d)

LEMMA Misread ==
  ASSUME NEW d, NEW x, ServedBy(run.direction, x), Misreads(d), run.direction \in Directions
  PROVE  OnlySchemaDiffers(d, x, run.direction)
BY DEF ServedBy, Misreads, OnlySchemaDiffers, Matches, Understands, Directions

\* What a worker has under the name of the tool, if it serves the operation.
LEMMA Serving ==
  ASSUME RegistryInv, CallTypeOK, NEW w \in Workers
  PROVE  /\ Definition(w) \in SomeDefinition
         /\ Serves(Definition(w)) /\ Definition(w).kind = "effect" =>
              ServedBy(run.direction, Definition(w))
         /\ Definition(w) # NoDefinition => Definition(w).name = ToolName(run.direction)
<1> DEFINE n == ToolName(run.direction)
<1>1. CASE Known(w, n)
  <2>1. Definition(w) = defs[w][n] /\ defs[w][n] \in Offered /\ defs[w][n].name = n
    BY <1>1 DEF Definition, Known, RegistryInv, RegistryTypeOK
  <2> QED
    BY <2>1 DEF SomeDefinition, Serves, Matches, Understands, ServedBy, CallTypeOK, Directions
<1>2. CASE ~Known(w, n)
  BY <1>2 DEF Definition, SomeDefinition, Serves
<1> QED BY <1>1, <1>2

LEMMA Committing ==
  ASSUME CallTypeOK, ServiceInv, NEW k \in Directions, NEW d, ServedBy(k, d), Commit(k, d)
  PROVE  /\ ledger' = [ledger EXCEPT ![k] = ledger'[k]]
         /\ ledger'[k].state = "committed" /\ ledger'[k] \in [state : {"open", "committed", "refused"}, by : SomeDefinition]
         /\ ledger[k].state # "refused"
         /\ ledger'[k].by = IF ledger[k].state = "open" THEN d ELSE ledger[k].by
BY DEF Commit, CallTypeOK, ServedBy, SomeDefinition

LEMMA Refusing ==
  ASSUME CallTypeOK, Refuse
  PROVE  /\ ledger' = [ledger EXCEPT ![run.direction] = ledger'[run.direction]]
         /\ ledger'[run.direction].state = "refused"
         /\ ledger'[run.direction] \in [state : {"open", "committed", "refused"}, by : SomeDefinition]
         /\ ledger[run.direction].state # "committed"
         /\ late' = {x \in late : x.direction # run.direction}
BY DEF Refuse, CallTypeOK

----------------------------------------------------------------------------
(***************************************************************************)
(* One lemma per kind of step on the operation.                            *)
(***************************************************************************)

\* The operation in progress is settled with nothing new at the provider.
LEMMA Settled ==
  ASSUME OperationInv, NEW a \in Answers, NEW d \in SomeDefinition,
         run.phase \in {"running", "unresolved"},
         Settle(a, d), UNCHANGED <<call, ledger, late, receipt>>,
         a = "failed" => ~Serves(d), a = "no effect" => Misreads(d),
         a \in {"succeeded", "effect"} => ~Recorded(run.direction)
  PROVE  OperationInv'
<1> USE DEF OperationInv
<1> DEFINE k == run.direction
<1>1. /\ k \in Directions
      /\ said' = [said EXCEPT ![k] = [answer |-> a, by |-> d]]
      /\ run' = [run EXCEPT !.phase = "settled"]
  BY DEF Settle, Tell, CallTypeOK
<1>2. /\ run'.phase = "settled" /\ run'.direction = k
      /\ said'[k].answer = a /\ said'[k].by = d
      /\ \A j \in Directions : j # k => said'[j] = said[j]
  BY <1>1 DEF CallTypeOK
<1>3. CallTypeOK'
  <2>1. run' \in [phase : {"idle", "running", "unresolved", "settled"},
                  direction : Directions, attempts : 0 .. MaxAttempts]
    BY <1>1 DEF CallTypeOK
  <2>2. said' \in [Directions -> [answer : Answers, by : SomeDefinition]]
    BY <1>1 DEF CallTypeOK
  <2> QED BY <2>1, <2>2 DEF CallTypeOK
<1>4. PhaseInv'
  <2>1. k = "forward" => said'["undo"].answer = "none"
    BY <1>2 DEF PhaseInv, Directions
  <2>2. ASSUME NEW j \in Directions, said'[j].answer \in {"succeeded", "effect"}, Recorded(j)
        PROVE  ledger[j].state = "committed"
    BY <1>2, <2>2 DEF PhaseInv, Confirmed
  <2>3. \A j \in Directions : Recorded(j)' = Recorded(j)
    BY DEF Recorded
  <2> QED BY <1>2, <2>1, <2>2, <2>3 DEF PhaseInv, Confirmed
<1>5. ServiceInv'
  BY DEF ServiceInv, ServedBy, ToolName
<1>6. DenialInv'
  <2>1. ASSUME NEW x, ServedBy(k, x)
        PROVE  /\ a = "failed" => ~SameContract(d, x)
               /\ a = "no effect" => OnlySchemaDiffers(d, x, k)
    BY <1>1, <2>1, Unserved, Misread
  <2>2. ASSUME NEW j \in Directions, NEW x, j = k => ServedBy(k, x), j # k => Excused(j, x)
        PROVE  Excused(j, x)'
    <3>1. CASE j = k
      BY <1>2, <2>1, <2>2, <3>1 DEF Excused, OnlySchemaDiffers
    <3>2. CASE j # k
      BY <1>2, <2>2, <3>2 DEF Excused, OnlySchemaDiffers
    <3> QED BY <3>1, <3>2
  <2>3. ASSUME NEW j \in Directions, Denied(j)', ledger[j].state = "committed"
        PROVE  Excused(j, ledger[j].by)'
    <3>1. j # k => Excused(j, ledger[j].by)
      BY <1>2, <2>3 DEF DenialInv, Denied
    <3> QED BY <2>2, <2>3, <3>1 DEF ServiceInv
  <2>4. ASSUME NEW j \in Directions, Denied(j)', ledger[j].state # "refused",
               NEW x \in late, x.direction = j
        PROVE  Excused(j, x.by)'
    <3>1. j # k => Excused(j, x.by)
      BY <1>2, <2>4 DEF DenialInv, Denied
    <3> QED BY <2>2, <2>4, <3>1 DEF ServiceInv
  <2> QED BY <2>3, <2>4 DEF DenialInv
<1> QED BY <1>3, <1>4, <1>5, <1>6

\* An execution that overran its attempt commits after all.
LEMMA Committed ==
  ASSUME OperationInv, LateExecution
  PROVE  OperationInv'
<1> USE DEF OperationInv
<1>1. PICK y \in late : Commit(y.direction, y.by) /\ late' = late \ {y}
  BY DEF LateExecution
<1> DEFINE k == y.direction
           d == y.by
<1>2. /\ k \in Directions /\ ServedBy(k, d) /\ Commit(k, d)
      /\ UNCHANGED <<call, run, said, receipt>>
      /\ k = run.direction \/ run.direction = "undo"
  BY <1>1 DEF CallTypeOK, ServiceInv, PhaseInv, LateExecution, Directions
<1>3. /\ ledger' = [ledger EXCEPT ![k] = ledger'[k]]
      /\ ledger'[k].state = "committed"
      /\ ledger'[k] \in [state : {"open", "committed", "refused"}, by : SomeDefinition]
      /\ ledger[k].state # "refused"
      /\ ledger'[k].by = IF ledger[k].state = "open" THEN d ELSE ledger[k].by
  BY <1>2, Committing
<1>4. \A j \in Directions : j # k => ledger'[j] = ledger[j]
  BY <1>3 DEF CallTypeOK
<1>5. CallTypeOK'
  BY <1>1, <1>2, <1>3 DEF CallTypeOK
<1>6. PhaseInv'
  <2>1. run.direction = "forward" => ledger'["undo"] = ledger["undo"]
    BY <1>2, <1>4 DEF Directions
  <2>2. \A j \in Directions : ledger[j].state = "committed" => ledger'[j].state = "committed"
    BY <1>3, <1>4
  <2> QED BY <1>1, <1>2, <2>1, <2>2 DEF PhaseInv, Confirmed, Recorded, Directions
<1>7. ServiceInv'
  <2>1. ServedBy(k, ledger'[k].by)
    BY <1>2, <1>3 DEF ServiceInv, CallTypeOK
  <2> QED BY <1>1, <1>2, <1>4, <2>1 DEF ServiceInv, ServedBy, ToolName
<1>8. DenialInv'
  <2>1. Denied(k) => Excused(k, ledger'[k].by)
    BY <1>1, <1>2, <1>3 DEF DenialInv, CallTypeOK
  <2>3. \A j \in Directions : Denied(j)' = Denied(j)
    BY <1>2 DEF Denied
  <2>4. ASSUME NEW j \in Directions, Denied(j)
        PROVE  /\ ledger'[j].state = "committed" => Excused(j, ledger'[j].by)
               /\ ledger'[j].state # "refused" => \A x \in late' : x.direction = j => Excused(j, x.by)
    BY <1>1, <1>3, <1>4, <2>1, <2>4 DEF DenialInv
  <2>5. ASSUME NEW j \in Directions, Denied(j)', ledger'[j].state = "committed"
        PROVE  Excused(j, ledger[j].by)'
    <3>1. Excused(j, ledger'[j].by)
      BY <2>3, <2>4, <2>5
    <3> QED BY <1>2, <3>1 DEF Excused, OnlySchemaDiffers
  <2>6. ASSUME NEW j \in Directions, Denied(j)', ledger'[j].state # "refused",
               NEW x, x \in late', x.direction = j
        PROVE  Excused(j, x.by)'
    <3>1. Excused(j, x.by)
      BY <2>3, <2>4, <2>6
    <3> QED BY <1>2, <3>1 DEF Excused, OnlySchemaDiffers
  <2> QED BY <2>5, <2>6 DEF DenialInv
<1> QED BY <1>5, <1>6, <1>7, <1>8

(***************************************************************************)
(* A worker that serves the operation takes it further: it may commit, it  *)
(* may leave an execution behind, and the saga hears nothing but success   *)
(* or an open end of it.                                                   *)
(***************************************************************************)
LEMMA Advanced ==
  ASSUME OperationInv, NEW d, NEW k, k = run.direction,
         run.phase \in {"running", "unresolved"},
         run' \in [phase : {"idle", "running", "unresolved", "settled"},
                   direction : Directions, attempts : 0 .. MaxAttempts],
         run'.direction = k, call' = call,
         ledger' = ledger \/ (ServedBy(k, d) /\ Commit(k, d)),
         late' = late \/ (ServedBy(k, d) /\ late' = late \cup {[direction |-> k, by |-> d]}),
         receipt' = receipt \/ (k = "forward" /\ receipt' \in {"agrees", "differs"}),
         \/ said' = said
         \/ /\ run'.phase = "settled"
            /\ \E a \in {"succeeded", "effect", "open"}, e \in SomeDefinition :
                 /\ said' = [said EXCEPT ![k] = [answer |-> a, by |-> e]]
                 /\ Recorded(k) /\ a # "open" => ledger'[k].state = "committed"
  PROVE  OperationInv'
<1> USE DEF OperationInv
<1>1. k \in Directions
  BY DEF CallTypeOK
<1>2. /\ \A j \in Directions : j # k => ledger'[j] = ledger[j] /\ said'[j] = said[j]
      /\ ledger' \in [Directions -> [state : {"open", "committed", "refused"}, by : SomeDefinition]]
      /\ ledger'[k] = ledger[k]
           \/ /\ ServedBy(k, d) /\ ledger[k].state # "refused" /\ ledger'[k].state = "committed"
              /\ ledger'[k].by = IF ledger[k].state = "open" THEN d ELSE ledger[k].by
  <2>1. CASE ledger' = ledger
    BY <1>1, <2>1 DEF CallTypeOK
  <2>2. CASE ServedBy(k, d) /\ Commit(k, d)
    <3>1. /\ ledger' = [ledger EXCEPT ![k] = ledger'[k]]
          /\ ledger'[k].state = "committed"
          /\ ledger'[k] \in [state : {"open", "committed", "refused"}, by : SomeDefinition]
          /\ ledger[k].state # "refused"
          /\ ledger'[k].by = IF ledger[k].state = "open" THEN d ELSE ledger[k].by
      BY <1>1, <2>2, Committing
    <3> QED BY <1>1, <2>2, <3>1 DEF CallTypeOK
  <2> QED BY <2>1, <2>2
<1>3. /\ said'[k].answer \notin {"failed", "no effect"}
      /\ said' \in [Directions -> [answer : Answers, by : SomeDefinition]]
  <2>1. CASE said' = said
    BY <1>1, <2>1 DEF PhaseInv, CallTypeOK
  <2>2. CASE said' # said
    <3>1. PICK a \in {"succeeded", "effect", "open"}, e \in SomeDefinition :
            said' = [said EXCEPT ![k] = [answer |-> a, by |-> e]]
      BY <2>2
    <3>2. a \in Answers /\ [answer |-> a, by |-> e] \in [answer : Answers, by : SomeDefinition]
      BY DEF Answers
    <3> QED BY <1>1, <3>1, <3>2 DEF CallTypeOK
  <2> QED BY <2>1, <2>2
<1>4. CallTypeOK'
  <2>2. late' \subseteq [direction : Directions, by : Offered]
    BY <1>1 DEF CallTypeOK, ServedBy
  <2>3. receipt' \in {"agrees", "differs"}
    BY DEF CallTypeOK
  <2> QED BY <1>2, <1>3, <2>2, <2>3 DEF CallTypeOK
<1>5. PhaseInv'
  <2>1. k = "forward" => /\ said'["undo"].answer = "none" /\ ledger'["undo"].state = "open"
                         /\ \A x \in late' : x.direction = "forward"
    BY <1>2 DEF PhaseInv, Directions
  <2>2. k = "undo" => ledger'["forward"].state = "committed"
    BY <1>2 DEF PhaseInv, Directions
  <2>3. run'.phase \in {"running", "unresolved"} => said'[k].answer = "none"
    BY DEF PhaseInv
  <2>4. ASSUME NEW j \in Directions, said'[j].answer \in {"succeeded", "effect"}, Recorded(j)
        PROVE  ledger'[j].state = "committed"
    <3>1. ledger[j].state = "committed" => ledger'[j].state = "committed"
      BY <1>2
    <3>2. CASE said'[j] = said[j]
      BY <2>4, <3>1, <3>2 DEF PhaseInv, Confirmed
    <3>3. CASE said'[j] # said[j]
      <4>1. PICK a \in {"succeeded", "effect", "open"}, e \in SomeDefinition :
              /\ said' = [said EXCEPT ![k] = [answer |-> a, by |-> e]]
              /\ Recorded(k) /\ a # "open" => ledger'[k].state = "committed"
        BY <3>3
      <4>2. j = k /\ said'[j].answer = a
        BY <1>1, <1>2, <3>3, <4>1 DEF CallTypeOK
      <4> QED BY <2>4, <4>1, <4>2
    <3> QED BY <3>2, <3>3
  <2>5. \A j \in Directions : Recorded(j)' = Recorded(j)
    BY DEF Recorded
  <2> QED BY <2>1, <2>2, <2>3, <2>4, <2>5 DEF PhaseInv, Confirmed
<1>6. ServiceInv'
  <2>1. ASSUME NEW j \in Directions, ledger'[j].state = "committed"
        PROVE  ServedBy(j, ledger'[j].by) /\ (j = k \/ k = "undo")
    <3>1. CASE ledger'[j] = ledger[j]
      BY <1>1, <2>1, <3>1 DEF ServiceInv, PhaseInv, Directions
    <3>2. CASE ledger'[j] # ledger[j]
      <4>1. j = k /\ ServedBy(k, d) /\ ledger'[k].by = IF ledger[k].state = "open" THEN d ELSE ledger[k].by
        BY <1>2, <3>2
      <4>2. ledger[k].state # "open" => ledger[k].state = "committed"
        BY <1>1, <1>2, <3>2, <4>1 DEF CallTypeOK
      <4> QED BY <1>1, <4>1, <4>2 DEF ServiceInv
    <3> QED BY <3>1, <3>2
  <2>2. ASSUME NEW x \in late'
        PROVE  ServedBy(x.direction, x.by) /\ x.direction \in Directions /\ (x.direction = k \/ k = "undo")
    BY <1>1, <2>2 DEF ServiceInv, CallTypeOK, PhaseInv, Directions
  <2>3. k = "undo" => receipt' = receipt
    OBVIOUS
  <2>4. k = "forward" \/ k = "undo"
    BY <1>1 DEF Directions
  <2>5. ASSUME NEW j \in Directions, ledger'[j].state = "committed"
        PROVE  j = "undo" => receipt' = receipt
    BY <2>1, <2>3, <2>4, <2>5
  <2>6. ASSUME NEW x \in late' PROVE x.direction = "undo" => receipt' = receipt
    BY <2>2, <2>3, <2>4, <2>6
  <2> QED BY <2>1, <2>2, <2>5, <2>6 DEF ServiceInv, ServedBy, ToolName
<1>7. DenialInv'
  <2>1. ASSUME NEW j \in Directions, j # k, NEW x \in late', x.direction = j PROVE x \in late
    BY <2>1
  <2>2. ASSUME NEW j \in Directions, said'[j].answer \in {"failed", "no effect"}
        PROVE  /\ j # k /\ said'[j] = said[j] /\ ledger'[j] = ledger[j] /\ Denied(j)
    BY <1>2, <1>3, <2>2 DEF Denied
  <2>4. ASSUME NEW j \in Directions, Denied(j)', ledger'[j].state = "committed"
        PROVE  Excused(j, ledger[j].by)'
    <3>1. /\ said'[j] = said[j] /\ ledger'[j] = ledger[j] /\ Excused(j, ledger[j].by)
      BY <2>2, <2>4 DEF DenialInv, Denied
    <3> QED BY <3>1 DEF Excused, OnlySchemaDiffers
  <2>5. ASSUME NEW j \in Directions, Denied(j)', ledger'[j].state # "refused",
               NEW x, x \in late', x.direction = j
        PROVE  Excused(j, x.by)'
    <3>1. j # k /\ said'[j] = said[j] /\ ledger'[j] = ledger[j] /\ Denied(j)
      BY <2>2, <2>5 DEF Denied
    <3>2. Excused(j, x.by)
      BY <2>1, <2>5, <3>1 DEF DenialInv
    <3> QED BY <3>1, <3>2 DEF Excused, OnlySchemaDiffers
  <2> QED BY <2>4, <2>5 DEF DenialInv
<1> QED BY <1>4, <1>5, <1>6, <1>7

\* The provider says that nothing happened, and the saga is told so.
LEMMA Refused ==
  ASSUME OperationInv, Refuse, NEW a \in {"failed", "no effect"}, NEW d \in SomeDefinition,
         run.phase \in {"running", "unresolved"},
         Settle(a, d), UNCHANGED <<call, receipt>>
  PROVE  OperationInv'
<1> USE DEF OperationInv
<1> DEFINE k == run.direction
<1>1. /\ k \in Directions
      /\ said' = [said EXCEPT ![k] = [answer |-> a, by |-> d]]
      /\ run' = [run EXCEPT !.phase = "settled"]
  BY DEF Settle, Tell, CallTypeOK
<1>2. /\ ledger' = [ledger EXCEPT ![k] = ledger'[k]]
      /\ ledger'[k].state = "refused"
      /\ ledger'[k] \in [state : {"open", "committed", "refused"}, by : SomeDefinition]
      /\ ledger[k].state # "committed"
      /\ late' = {x \in late : x.direction # k}
  BY Refusing
<1>3. /\ run'.phase = "settled" /\ run'.direction = k
      /\ said'[k].answer = a
      /\ \A j \in Directions : j # k => said'[j] = said[j] /\ ledger'[j] = ledger[j]
  BY <1>1, <1>2 DEF CallTypeOK
<1>4. CallTypeOK'
  <2>1. run' \in [phase : {"idle", "running", "unresolved", "settled"},
                  direction : Directions, attempts : 0 .. MaxAttempts]
    BY <1>1 DEF CallTypeOK
  <2>2. said' \in [Directions -> [answer : Answers, by : SomeDefinition]]
    BY <1>1 DEF CallTypeOK, Answers
  <2> QED BY <1>2, <2>1, <2>2 DEF CallTypeOK
<1>5. PhaseInv'
  <2>1. k = "forward" => said'["undo"].answer = "none" /\ ledger'["undo"].state = "open"
    BY <1>3 DEF PhaseInv, Directions
  <2>2. k = "undo" => ledger'["forward"].state = "committed"
    BY <1>3 DEF PhaseInv, Directions
  <2>3. \A x \in late' : x \in late
    BY <1>2
  <2>4. k = "forward" => said'["forward"].answer = a
    BY <1>3
  <2>5. ASSUME NEW j \in Directions, said'[j].answer \in {"succeeded", "effect"}, Recorded(j)
        PROVE  ledger'[j].state = "committed"
    BY <1>3, <2>5 DEF PhaseInv, Confirmed
  <2>6. \A j \in Directions : Recorded(j)' = Recorded(j)
    BY DEF Recorded
  <2> QED BY <1>1, <1>3, <2>1, <2>2, <2>3, <2>4, <2>5, <2>6 DEF PhaseInv, Confirmed
<1>6. ServiceInv'
  <2>1. ASSUME NEW j \in Directions, ledger'[j].state = "committed" PROVE ServedBy(j, ledger'[j].by)
    BY <1>2, <1>3, <2>1 DEF ServiceInv
  <2>2. ASSUME NEW x \in late' PROVE ServedBy(x.direction, x.by)
    BY <1>2, <2>2 DEF ServiceInv
  <2>3. call' = call /\ receipt' = receipt
    OBVIOUS
  <2> QED BY <2>1, <2>2, <2>3 DEF ServiceInv, ServedBy, ToolName
<1>7. DenialInv'
  <2>1. ASSUME NEW j \in Directions, Denied(j)', ledger'[j].state = "committed"
        PROVE  Excused(j, ledger[j].by)'
    <3>1. j # k /\ said'[j] = said[j] /\ ledger'[j] = ledger[j]
      BY <1>2, <1>3, <2>1
    <3>2. Excused(j, ledger[j].by)
      BY <2>1, <3>1 DEF DenialInv, Denied
    <3> QED BY <3>1, <3>2 DEF Excused, OnlySchemaDiffers
  <2>2. ASSUME NEW j \in Directions, Denied(j)', ledger'[j].state # "refused",
               NEW x, x \in late', x.direction = j
        PROVE  Excused(j, x.by)'
    <3>1. j # k /\ said'[j] = said[j] /\ ledger'[j] = ledger[j]
      BY <1>2, <1>3, <2>2
    <3>2. Excused(j, x.by)
      BY <1>2, <2>2, <3>1 DEF DenialInv, Denied
    <3> QED BY <3>1, <3>2 DEF Excused, OnlySchemaDiffers
  <2> QED BY <2>1, <2>2 DEF DenialInv
<1> QED BY <1>4, <1>5, <1>6, <1>7

----------------------------------------------------------------------------
\* The saga calls a tool it declared, under operation ids of its own.
LEMMA Called ==
  ASSUME TurnInv, OperationInv, CallTool
  PROVE  OperationInv'
<1> DEFINE p == turn.proposal
<1>1. /\ p \in Proposals /\ p # Finish /\ p.tool \in DOMAIN Declared
  <2>1. p \in Proposals \cup {NoProposal} /\ p # Finish /\ MayPropose(p)
    BY DEF CallTool, TurnInv, AgentTypeOK
  <2>2. p.tool \in DOMAIN Declared /\ p.tool \in Names
    BY <2>1, FleetAssumption DEF MayPropose, TurnInv
  <2>3. p # NoProposal
    BY <2>2, RegistryAssumption DEF NoProposal
  <2> QED BY <2>1, <2>2, <2>3
<1>2. p \in [tool : Names, args : Args]
  BY <1>1 DEF Proposals
<1>3. /\ call' = [tool |-> p.tool, args |-> p.args,
                   kind |-> Declared[p.tool].kind, comp |-> Declared[p.tool].comp]
      /\ run' = [phase |-> "running", direction |-> "forward", attempts |-> 0]
      /\ said' = [k \in Directions |-> Untold] /\ ledger' = [k \in Directions |-> Unwritten]
      /\ late' = {} /\ receipt' = "agrees"
  BY DEF CallTool, IdleRun
<1>4. CallTypeOK'
  <2>1. call' \in [tool : Names \cup {NoTool}, args : Args \cup {NoArgs},
                   kind : {"read", "effect"}, comp : Names \cup {NoTool}]
    BY <1>1, <1>2, <1>3, FleetAssumption
  <2>2. call'.kind = "effect" => call'.comp # NoTool
    BY <1>1, <1>3, FleetAssumption
  <2>3. run' \in [phase : {"idle", "running", "unresolved", "settled"},
                  direction : Directions, attempts : 0 .. MaxAttempts]
    BY <1>3, FleetAssumption DEF Directions
  <2>4. said' \in [Directions -> [answer : Answers, by : SomeDefinition]]
    BY <1>3 DEF Untold, Answers, SomeDefinition
  <2>5. ledger' \in [Directions -> [state : {"open", "committed", "refused"}, by : SomeDefinition]]
    BY <1>3 DEF Unwritten, SomeDefinition
  <2> QED BY <1>3, <2>1, <2>2, <2>3, <2>4, <2>5 DEF CallTypeOK
<1>5. PhaseInv'
  BY <1>3 DEF PhaseInv, Untold, Unwritten, Directions, Confirmed
<1>6. ServiceInv'
  BY <1>3 DEF ServiceInv, Unwritten
<1>7. DenialInv'
  BY <1>3 DEF DenialInv, Denied, Untold
<1> QED BY <1>4, <1>5, <1>6, <1>7 DEF OperationInv

\* The saga undoes an effect it was told of, and which the provider has.
LEMMA Undone ==
  ASSUME OperationInv, Undo
  PROVE  OperationInv'
<1> USE DEF OperationInv
<1>1. /\ run' = [phase |-> "running", direction |-> "undo", attempts |-> 0]
      /\ UNCHANGED <<call, said, ledger, late, receipt>>
      /\ call.kind = "effect" /\ run.direction = "forward" /\ Confirmed("forward")
  BY DEF Undo
<1>2. CallTypeOK'
  <2>1. run' \in [phase : {"idle", "running", "unresolved", "settled"},
                  direction : Directions, attempts : 0 .. MaxAttempts]
    BY <1>1, FleetAssumption DEF Directions
  <2> QED BY <1>1, <2>1 DEF CallTypeOK
<1>3. PhaseInv'
  BY <1>1 DEF PhaseInv, Confirmed, Recorded, Directions
<1>4. ServiceInv'
  BY <1>1 DEF ServiceInv, ServedBy, ToolName
<1>5. DenialInv'
  BY <1>1 DEF DenialInv, Denied, Excused, OnlySchemaDiffers
<1> QED BY <1>2, <1>3, <1>4, <1>5

\* One attempt of an activity at a worker.
LEMMA Attempted ==
  ASSUME RegistryInv, OperationInv, NEW w \in Workers, Execute(w) \/ Reconcile(w)
  PROVE  OperationInv'
<1> USE DEF OperationInv
<1> DEFINE k == run.direction
           d == Definition(w)
<1>1. /\ d \in SomeDefinition /\ k \in Directions
      /\ Serves(d) /\ d.kind = "effect" => ServedBy(k, d)
      /\ d # NoDefinition => d.name = ToolName(k)
  BY Serving DEF CallTypeOK
<1>2. run.phase \in {"running", "unresolved"}
  BY DEF Execute, Reconcile, ExecuteRejected, ExecuteRead, ExecuteConfirmed, ExecuteRefused,
     ExecuteUnclear, ExecuteLost, Executes, Running, ReconcileRejected, ReconcileEffect,
     ReconcileNoEffect, ReconcileOpen, ReconcileTarget, Reconciling
<1>3. ASSUME NEW a \in {"failed", "succeeded", "effect", "no effect", "open"}, Settle(a, d)
      PROVE  /\ run'.phase = "settled" /\ run'.direction = k
             /\ run' \in [phase : {"idle", "running", "unresolved", "settled"},
                          direction : Directions, attempts : 0 .. MaxAttempts]
             /\ said' = [said EXCEPT ![k] = [answer |-> a, by |-> d]]
  BY <1>3 DEF Settle, Tell, CallTypeOK
<1>4. CASE ExecuteRejected(w)
  <2>1. Settle("failed", d) /\ ~Serves(d) /\ UNCHANGED <<call, ledger, late, receipt>>
    BY <1>4 DEF ExecuteRejected
  <2> QED BY <1>1, <1>2, <2>1, Settled DEF Answers
<1>5. CASE ExecuteRead(w)
  <2>1. Settle("succeeded", d) /\ Serves(d) /\ d.kind = "read" /\ UNCHANGED <<call, ledger, late, receipt>>
    BY <1>5 DEF ExecuteRead
  <2>2. ~Recorded(k)
    BY <1>1, <2>1 DEF Serves, Matches, Directions, Recorded
  <2> QED BY <1>1, <1>2, <2>1, <2>2, Settled DEF Answers
<1>6. CASE ExecuteConfirmed(w)
  <2>1. /\ Settle("succeeded", d) /\ ServedBy(k, d) /\ Commit(k, d)
        /\ UNCHANGED <<call, late>>
        /\ receipt' = receipt \/ (k = "forward" /\ receipt' \in {"agrees", "differs"})
    BY <1>1, <1>6 DEF ExecuteConfirmed, Executes
  <2>2. ledger'[k].state = "committed"
    BY <1>1, <2>1, Committing
  <2> QED BY <1>1, <1>2, <1>3, <2>1, <2>2, Advanced
<1>7. CASE ExecuteRefused(w) \/ ReconcileNoEffect(w)
  <2>1. Refuse /\ UNCHANGED <<call, receipt>> /\ (Settle("failed", d) \/ Settle("no effect", d))
    BY <1>7 DEF ExecuteRefused, ReconcileNoEffect
  <2> QED BY <1>1, <1>2, <2>1, Refused
<1>8. CASE ExecuteUnclear(w)
  <2>1. /\ ledger' = ledger \/ (ServedBy(k, d) /\ Commit(k, d))
        /\ run' = [run EXCEPT !.phase = "unresolved"]
        /\ UNCHANGED <<call, said, late, receipt>>
    BY <1>1, <1>8 DEF ExecuteUnclear, Executes
  <2>2. /\ run' \in [phase : {"idle", "running", "unresolved", "settled"},
                      direction : Directions, attempts : 0 .. MaxAttempts]
        /\ run'.direction = k
    BY <2>1 DEF CallTypeOK
  <2> QED BY <1>1, <1>2, <2>1, <2>2, Advanced
<1>9. CASE ExecuteLost(w)
  <2>1. /\ ledger' = ledger \/ (ServedBy(k, d) /\ Commit(k, d))
        /\ late' = late \/ (ServedBy(k, d) /\ late' = late \cup {[direction |-> k, by |-> d]})
        /\ run' = [run EXCEPT !.attempts = @ + 1] /\ run.attempts < MaxAttempts
        /\ UNCHANGED <<call, said, receipt>>
    BY <1>1, <1>9 DEF ExecuteLost, Executes, Running, Retry, Execution
  <2>2. run.attempts + 1 \in 0 .. MaxAttempts
    BY <2>1, FleetAssumption DEF CallTypeOK
  <2>3. /\ run' \in [phase : {"idle", "running", "unresolved", "settled"},
                      direction : Directions, attempts : 0 .. MaxAttempts]
        /\ run'.direction = k
    BY <2>1, <2>2 DEF CallTypeOK
  <2> QED BY <1>1, <1>2, <2>1, <2>3, Advanced
<1>10. CASE ReconcileRejected(w)
  <2>1. Settle("no effect", d) /\ Misreads(d) /\ UNCHANGED <<call, ledger, late, receipt>>
    BY <1>1, <1>10 DEF ReconcileRejected, ReconcileTarget, Misreads
  <2> QED BY <1>1, <1>2, <2>1, Settled DEF Answers
<1>11. CASE ReconcileEffect(w)
  <2>1. /\ Settle("effect", d) /\ UNCHANGED <<call, ledger, late>>
        /\ ledger[k].state = "committed"
        /\ receipt' = receipt \/ (k = "forward" /\ receipt' \in {"agrees", "differs"})
    BY <1>1, <1>11 DEF ReconcileEffect
  <2>2. /\ run'.phase = "settled" /\ run'.direction = k
        /\ run' \in [phase : {"idle", "running", "unresolved", "settled"},
                     direction : Directions, attempts : 0 .. MaxAttempts]
        /\ said' = [said EXCEPT ![k] = [answer |-> "effect", by |-> d]]
    BY <1>3, <2>1
  <2> QED BY <1>1, <1>2, <2>1, <2>2, Advanced
<1>12. CASE ReconcileOpen(w)
  <2>1. Settle("open", d) /\ UNCHANGED <<call, ledger, late, receipt>>
    BY <1>12 DEF ReconcileOpen
  <2> QED BY <1>1, <1>2, <2>1, Settled DEF Answers
<1> QED
  BY <1>4, <1>5, <1>6, <1>7, <1>8, <1>9, <1>10, <1>11, <1>12 DEF Execute, Reconcile

\* The attempts are used up: the saga needs evidence, or the read has failed.
LEMMA Forsaken ==
  ASSUME OperationInv, Exhausted
  PROVE  OperationInv'
<1> USE DEF OperationInv
<1>1. UNCHANGED <<call, ledger, late, receipt>> /\ run.phase = "running"
  BY DEF Exhausted
<1>2. CASE call.kind = "effect"
  <2>1. run' = [run EXCEPT !.phase = "unresolved"] /\ said' = said
    BY <1>2 DEF Exhausted
  <2>2. /\ run' \in [phase : {"idle", "running", "unresolved", "settled"},
                      direction : Directions, attempts : 0 .. MaxAttempts]
        /\ run'.direction = run.direction
    BY <2>1 DEF CallTypeOK
  <2> QED BY <1>1, <2>1, <2>2, Advanced
<1>3. CASE call.kind # "effect"
  <2>1. Settle("failed", NoDefinition) /\ ~Serves(NoDefinition)
    BY <1>3 DEF Exhausted, Serves
  <2> QED BY <1>1, <2>1, Settled DEF Answers, SomeDefinition
<1> QED BY <1>2, <1>3

LEMMA OperationStep ==
  RegistryInv /\ TurnInv /\ OperationInv /\ [FleetNext]_workVars => OperationInv'
<1> SUFFICES ASSUME RegistryInv, TurnInv, OperationInv, [FleetNext]_workVars PROVE OperationInv'
  OBVIOUS
<1>1. CASE UNCHANGED fleetVars
  <2>1. UNCHANGED <<call, run, said, ledger, late, receipt>>
    BY <1>1 DEF fleetVars
  <2>2. CallTypeOK' /\ PhaseInv'
    BY <2>1 DEF OperationInv, CallTypeOK, PhaseInv, Confirmed, Recorded
  <2>3. ServiceInv'
    BY <2>1 DEF OperationInv, ServiceInv, ServedBy, ToolName
  <2>4. DenialInv'
    BY <2>1 DEF OperationInv, DenialInv, Denied, Excused, OnlySchemaDiffers
  <2> QED BY <2>2, <2>3, <2>4 DEF OperationInv
<1>2. CASE CallTool
  BY <1>2, Called
<1>3. CASE Undo
  BY <1>3, Undone
<1>4. CASE LateExecution
  BY <1>4, Committed
<1>5. CASE Exhausted
  BY <1>5, Forsaken
<1>6. ASSUME NEW w \in Workers, Execute(w) \/ Reconcile(w) PROVE OperationInv'
  BY <1>6, Attempted
<1>7. CASE UNCHANGED workVars
  BY <1>1, <1>7 DEF workVars
<1> QED
  BY <1>1, <1>2, <1>3, <1>4, <1>5, <1>6, <1>7 DEF FleetNext, Setup

----------------------------------------------------------------------------
(***************************************************************************)
(* The sum of a function over a finite set, which the library defines by   *)
(* recursion: the recursion has a solution on the subsets of at most n     *)
(* elements, for every n, and sums compare as their terms do.              *)
(***************************************************************************)

One(s) == CHOOSE x \in s : TRUE

\* The recursion of the sum of f, over the subsets of S with at most n elements.
Sums(f, X, h) ==
  h = [s \in X |-> IF s = {} THEN 0 ELSE f[One(s)] + h[s \ {One(s)}]]

Small(S, n) == {s \in SUBSET S : Cardinality(s) <= n}

\* What the library's definition comes to.
LEMMA SumUnfolded ==
  ASSUME NEW f, NEW S
  PROVE  SumFunctionOnSet(f, S) = (CHOOSE h : Sums(f, SUBSET S, h))[S]
BY DEF SumFunctionOnSet, FoldFunctionOnSet, MapThenFoldSet, Sums, One

\* Taking an element out of a finite set.
LEMMA Smaller ==
  ASSUME NEW S, IsFiniteSet(S), NEW s \in SUBSET S, s # {}
  PROVE  /\ One(s) \in s
         /\ IsFiniteSet(s) /\ Cardinality(s) \in Nat /\ Cardinality(s) # 0
         /\ s \ {One(s)} \in SUBSET S
         /\ Cardinality(s \ {One(s)}) = Cardinality(s) - 1
<1>1. One(s) \in s
  BY DEF One
<1>2. IsFiniteSet(s)
  BY FS_Subset
<1>3. Cardinality(s) \in Nat /\ Cardinality(s) # 0
  BY <1>2, FS_CardinalityType, FS_EmptySet
<1>4. Cardinality(s \ {One(s)}) = Cardinality(s) - 1
  BY <1>1, <1>2, FS_RemoveElement
<1> QED BY <1>1, <1>2, <1>3, <1>4

\* One more element is one more layer of the solution.
LEMMA SumsExist ==
  ASSUME NEW f, NEW S, IsFiniteSet(S)
  PROVE  \A n \in Nat : \E h : Sums(f, Small(S, n), h)
<1> DEFINE T == {n \in Nat : \E h : Sums(f, Small(S, n), h)}
<1>1. 0 \in T
  <2> DEFINE h == [s \in Small(S, 0) |-> 0]
  <2>1. ASSUME NEW s \in Small(S, 0), s # {} PROVE FALSE
    <3>1. s \in SUBSET S /\ Cardinality(s) <= 0
      BY DEF Small
    <3>2. Cardinality(s) \in Nat /\ Cardinality(s) # 0
      BY <2>1, <3>1, Smaller
    <3> QED BY <3>1, <3>2
  <2>2. Sums(f, Small(S, 0), h)
    BY <2>1 DEF Sums
  <2> QED BY <2>2
<1>2. ASSUME NEW n \in T PROVE n + 1 \in T
  <2>1. PICK h : Sums(f, Small(S, n), h)
    OBVIOUS
  <2>2. n \in Nat /\ n + 1 \in Nat
    OBVIOUS
  <2> DEFINE k == [s \in Small(S, n + 1) |-> IF s = {} THEN 0 ELSE f[One(s)] + h[s \ {One(s)}]]
  <2>3. ASSUME NEW s \in Small(S, n + 1)
        PROVE  k[s] = IF s = {} THEN 0 ELSE f[One(s)] + k[s \ {One(s)}]
    <3>1. CASE s = {}
      BY <3>1
    <3>2. CASE s # {}
      <4> DEFINE r == s \ {One(s)}
      <4>1. r \in Small(S, n) /\ r \in Small(S, n + 1)
        <5>1. /\ r \in SUBSET S /\ Cardinality(s) \in Nat /\ Cardinality(s) <= n + 1
              /\ Cardinality(r) = Cardinality(s) - 1
          BY <3>2, Smaller DEF Small
        <5> HIDE DEF r
        <5>2. Cardinality(r) <= n /\ Cardinality(r) <= n + 1
          BY <2>2, <5>1
        <5> QED BY <5>1, <5>2 DEF Small
      <4> HIDE DEF r
      <4>2. h[r] = IF r = {} THEN 0 ELSE f[One(r)] + h[r \ {One(r)}]
        BY <2>1, <4>1 DEF Sums
      <4>3. k[r] = IF r = {} THEN 0 ELSE f[One(r)] + h[r \ {One(r)}]
        BY <4>1
      <4>4. k[s] = f[One(s)] + h[r]
        BY <3>2 DEF r
      <4> HIDE DEF k
      <4> QED BY <3>2, <4>2, <4>3, <4>4 DEF r
    <3> QED BY <3>1, <3>2
  <2>4. k = [s \in Small(S, n + 1) |-> k[s]]
    OBVIOUS
  <2> HIDE DEF k
  <2>5. k = [s \in Small(S, n + 1) |-> IF s = {} THEN 0 ELSE f[One(s)] + k[s \ {One(s)}]]
    BY <2>3, <2>4
  <2>6. Sums(f, Small(S, n + 1), k)
    BY <2>5 DEF Sums
  <2> QED BY <2>2, <2>6
<1> HIDE DEF T
<1>3. T \subseteq Nat
  BY DEF T
<1>4. \A n \in Nat : n \in T
  BY <1>1, <1>2, <1>3, Inductive
<1> QED BY <1>4 DEF T

\* The library's sum satisfies its recursion.
LEMMA SumIs ==
  ASSUME NEW f, NEW S, IsFiniteSet(S)
  PROVE  \E h : Sums(f, SUBSET S, h) /\ SumFunctionOnSet(f, S) = h[S]
<1>1. Cardinality(S) \in Nat
  BY FS_CardinalityType
<1>2. ASSUME NEW s \in SUBSET S PROVE Cardinality(s) <= Cardinality(S)
  BY FS_Subset
<1>3. Small(S, Cardinality(S)) = SUBSET S
  BY <1>2 DEF Small
<1>4. \E h : Sums(f, SUBSET S, h)
  <2>1. \E h : Sums(f, Small(S, Cardinality(S)), h)
    BY <1>1, SumsExist
  <2> QED BY <1>3, <2>1
<1> DEFINE h == CHOOSE h : Sums(f, SUBSET S, h)
<1>5. Sums(f, SUBSET S, h)
  BY <1>4
<1>6. SumFunctionOnSet(f, S) = h[S]
  BY SumUnfolded
<1> HIDE DEF h
<1> QED BY <1>5, <1>6

\* Products of naturals are monotonic.
LEMMA Scaled ==
  ASSUME NEW a \in Nat, NEW b \in Nat, NEW c \in Nat, a <= b
  PROVE  a * c <= b * c
OBVIOUS

\* Two sums compare as their terms do, each scaled by a constant.
LEMMA SumsCompare ==
  ASSUME NEW S, IsFiniteSet(S), NEW f, NEW g, NEW p \in Nat, NEW q \in Nat,
         \A x \in S : f[x] \in Nat /\ g[x] \in Nat /\ f[x] * p <= g[x] * q
  PROVE  /\ SumFunctionOnSet(f, S) \in Nat /\ SumFunctionOnSet(g, S) \in Nat
         /\ SumFunctionOnSet(f, S) * p <= SumFunctionOnSet(g, S) * q
<1>1. PICK h : Sums(f, SUBSET S, h) /\ SumFunctionOnSet(f, S) = h[S]
  BY SumIs
<1>2. PICK k : Sums(g, SUBSET S, k) /\ SumFunctionOnSet(g, S) = k[S]
  BY SumIs
<1> DEFINE Fine(s) == h[s] \in Nat /\ k[s] \in Nat /\ h[s] * p <= k[s] * q
           T == {n \in Nat : \A s \in SUBSET S : Cardinality(s) = n => Fine(s)}
<1>3. Fine({})
  <2>1. {} \in SUBSET S
    OBVIOUS
  <2>2. h[{}] = 0 /\ k[{}] = 0
    BY <1>1, <1>2, <2>1 DEF Sums
  <2> QED BY <2>2
<1>4. 0 \in T
  <2>1. ASSUME NEW s \in SUBSET S, Cardinality(s) = 0 PROVE s = {}
    BY <2>1, Smaller
  <2> QED BY <1>3, <2>1
<1>5. ASSUME NEW n \in T PROVE n + 1 \in T
  <2> SUFFICES ASSUME NEW s \in SUBSET S, Cardinality(s) = n + 1 PROVE Fine(s)
    OBVIOUS
  <2>1. s # {} /\ n \in Nat
    BY FS_EmptySet
  <2> DEFINE x == One(s)
             r == s \ {x}
  <2>2. x \in S /\ r \in SUBSET S /\ Cardinality(r) = n
    BY <2>1, Smaller
  <2>3. Fine(r)
    BY <2>2
  <2>4. h[s] = f[x] + h[r] /\ k[s] = g[x] + k[r]
    BY <1>1, <1>2, <2>1 DEF Sums
  <2>5. f[x] \in Nat /\ g[x] \in Nat /\ f[x] * p <= g[x] * q
    BY <2>2
  <2> HIDE DEF x, r
  <2>6. h[s] \in Nat /\ k[s] \in Nat
    BY <2>3, <2>4, <2>5
  <2>7. (f[x] + h[r]) * p = f[x] * p + h[r] * p /\ (g[x] + k[r]) * q = g[x] * q + k[r] * q
    BY <2>3, <2>5
  <2>8. f[x] * p \in Nat /\ h[r] * p \in Nat /\ g[x] * q \in Nat /\ k[r] * q \in Nat
    BY <2>3, <2>5
  <2> QED BY <2>3, <2>4, <2>5, <2>6, <2>7, <2>8
<1> HIDE DEF T
<1>6. T \subseteq Nat
  BY DEF T
<1>7. Cardinality(S) \in T
  BY <1>4, <1>5, <1>6, FS_CardinalityType, Inductive
<1>8. Fine(S)
  BY <1>7 DEF T
<1> QED BY <1>1, <1>2, <1>8

----------------------------------------------------------------------------
(***************************************************************************)
(* What the workers spend.  A worker asks nothing before it has a driver,  *)
(* its caps are shares of the manifest it is bound to for good, and its    *)
(* requests, with those its present decision may still make, are at most   *)
(* two for each of its turns with the native driver and one with a choice. *)
(***************************************************************************)
Pending(w) == turn.phase = "planning" /\ turn.worker = w

SpendInv ==
  \A w \in Workers :
    /\ driver[w] = "none" => requestsAt[w] = 0 /\ ~Pending(w)
    /\ driver[w] # "none" => context[w] # NoContext
    /\ driver[w] = "native" =>
         /\ caps[w].tokens <= RequestCap(context[w].tokens, context[w].turns)
         /\ caps[w].ms <= RequestCap(context[w].elapsed, context[w].turns)
         /\ requestsAt[w] + (IF Pending(w) THEN RequestLimit - turn.requests ELSE 0)
              <= RequestLimit * turnsAt[w]
    /\ driver[w] = "choice" =>
         /\ caps[w].tokens = 0 /\ caps[w].ms <= TurnTime(context[w])
         /\ requestsAt[w] + (IF Pending(w) THEN 1 ELSE 0) <= turnsAt[w]

LEMMA SpendInitial == FleetInit => SpendInv
BY DEF FleetInit, AgentInit, SpendInv, Pending, IdleTurn

\* A worker builds its driver, and caps its requests, before its first decision.
LEMMA Built ==
  ASSUME RegistryInv, TurnInv, SpendInv, NEW w \in Workers, BuildNative(w) \/ BuildChoice(w)
  PROVE  SpendInv'
<1>1. /\ context[w] # NoContext /\ driver[w] = "none" /\ UNCHANGED turnVars
      /\ requestsAt[w] = 0 /\ ~Pending(w) /\ turnsAt[w] \in Nat
  BY DEF BuildNative, BuildChoice, SpendInv, TurnInv, AgentTypeOK
<1>2. /\ turn' = turn /\ turnsAt' = turnsAt /\ requestsAt' = requestsAt
      /\ \A v \in Workers : Pending(v)' = Pending(v)
  BY <1>1 DEF turnVars, Pending
<1>3. context[w] \in Documents /\ Validates(context[w])
  BY <1>1 DEF RegistryInv, ManifestTypeOK
<1>4. CASE GoDown(w) /\ UNCHANGED driverVars
  <2>1. /\ driver' = driver /\ caps' = caps
        /\ \A v \in Workers : v # w => context'[v] = context[v]
    BY <1>4 DEF GoDown, driverVars, RegistryInv, ManifestTypeOK
  <2>2. ASSUME NEW v \in Workers, driver[v] # "none" PROVE context'[v] = context[v]
    BY <1>1, <2>1, <2>2
  <2> QED BY <1>2, <2>1, <2>2 DEF SpendInv
<1>5. CASE UNCHANGED context /\ ~ UNCHANGED driverVars
  <2> DEFINE m == context[w]
  <2>1. /\ driver'[w] \in {"native", "choice"}
        /\ \A v \in Workers : v # w => driver'[v] = driver[v] /\ caps'[v] = caps[v]
        /\ driver'[w] = "native" =>
             /\ caps'[w].tokens = Least(MaxOutput, RequestCap(m.tokens, m.turns))
             /\ caps'[w].ms = Least(MaxTimeout, RequestCap(m.elapsed, m.turns))
        /\ driver'[w] = "choice" =>
             /\ caps'[w].tokens = 0 /\ caps'[w].ms = Least(MaxTimeout, TurnTime(m))
    BY <1>5 DEF BuildNative, BuildChoice, TurnInv, AgentTypeOK
  <2>2. ASSUME NEW M \in Nat, NEW n \in Int PROVE Least(M, n) <= n
    BY DEF Least
  <2>3. /\ RequestCap(m.tokens, m.turns) \in Int /\ RequestCap(m.elapsed, m.turns) \in Int
        /\ TurnTime(m) \in Int
    BY <1>3, CapsInRange
  <2>4. /\ driver'[w] = "native" =>
             /\ caps'[w].tokens <= RequestCap(m.tokens, m.turns)
             /\ caps'[w].ms <= RequestCap(m.elapsed, m.turns)
        /\ driver'[w] = "choice" => caps'[w].ms <= TurnTime(m)
    BY <2>1, <2>2, <2>3, DriverAssumption
  <2>5. /\ requestsAt[w] + (IF Pending(w) THEN RequestLimit - turn.requests ELSE 0)
             <= RequestLimit * turnsAt[w]
        /\ requestsAt[w] + (IF Pending(w) THEN 1 ELSE 0) <= turnsAt[w]
    BY <1>1 DEF RequestLimit
  <2> HIDE DEF m
  <2>6. ASSUME NEW v \in Workers
        PROVE  /\ driver'[v] = "none" => requestsAt'[v] = 0 /\ ~Pending(v)'
               /\ driver'[v] # "none" => context'[v] # NoContext
               /\ driver'[v] = "native" =>
                    /\ caps'[v].tokens <= RequestCap(context'[v].tokens, context'[v].turns)
                    /\ caps'[v].ms <= RequestCap(context'[v].elapsed, context'[v].turns)
                    /\ requestsAt'[v] + (IF Pending(v)' THEN RequestLimit - turn'.requests ELSE 0)
                         <= RequestLimit * turnsAt'[v]
               /\ driver'[v] = "choice" =>
                    /\ caps'[v].tokens = 0 /\ caps'[v].ms <= TurnTime(context'[v])
                    /\ requestsAt'[v] + (IF Pending(v)' THEN 1 ELSE 0) <= turnsAt'[v]
    <3>1. CASE v = w
      BY <1>1, <1>2, <1>5, <2>1, <2>4, <2>5, <3>1 DEF m
    <3>2. CASE v # w
      BY <1>2, <1>5, <2>1, <3>2 DEF SpendInv
    <3> QED BY <3>1, <3>2
  <2> QED BY <2>6 DEF SpendInv
<1>6. CASE UNCHANGED context /\ UNCHANGED driverVars
  BY <1>2, <1>6 DEF SpendInv, driverVars
<1> QED BY <1>4, <1>5, <1>6 DEF BuildNative, BuildChoice

\* A decision falls to a worker with a driver and grants it the requests of a turn.
LEMMA Decided ==
  ASSUME TurnInv, SpendInv, NEW w \in Workers, NEW A, NEW f, Decide(w, A, f)
  PROVE  SpendInv'
<1>1. /\ driver[w] # "none" /\ turn.phase = "idle"
      /\ turn'.worker = w /\ turn'.requests = 0
      /\ UNCHANGED <<context, driverVars, requestsAt>>
      /\ turnsAt'[w] = turnsAt[w] + 1
      /\ \A v \in Workers : v # w => turnsAt'[v] = turnsAt[v]
  BY DEF Decide, Ready, IdleTurn, TurnInv, AgentTypeOK
<1>2. driver' = driver /\ caps' = caps /\ context' = context /\ requestsAt' = requestsAt
  BY <1>1 DEF driverVars
<1>3. ASSUME NEW v \in Workers PROVE ~Pending(v) /\ (v # w => ~Pending(v)')
  BY <1>1 DEF Pending
<1>4. turnsAt[w] \in Nat /\ requestsAt[w] \in Nat
  BY DEF TurnInv, AgentTypeOK
<1>5. /\ driver[w] = "native" =>
           requestsAt[w] + (IF Pending(w)' THEN RequestLimit - turn'.requests ELSE 0)
             <= RequestLimit * turnsAt'[w]
      /\ driver[w] = "choice" =>
           requestsAt[w] + (IF Pending(w)' THEN 1 ELSE 0) <= turnsAt'[w]
  <2>1. /\ driver[w] = "native" => requestsAt[w] <= RequestLimit * turnsAt[w]
        /\ driver[w] = "choice" => requestsAt[w] <= turnsAt[w]
    BY <1>3, <1>4 DEF SpendInv
  <2> QED BY <1>1, <1>4, <2>1 DEF RequestLimit
<1>6. ASSUME NEW v \in Workers
      PROVE  /\ driver[v] = "none" => requestsAt[v] = 0 /\ ~Pending(v)'
             /\ driver[v] = "native" =>
                  requestsAt[v] + (IF Pending(v)' THEN RequestLimit - turn'.requests ELSE 0)
                    <= RequestLimit * turnsAt'[v]
             /\ driver[v] = "choice" =>
                  requestsAt[v] + (IF Pending(v)' THEN 1 ELSE 0) <= turnsAt'[v]
  <2>1. CASE v = w
    BY <1>1, <1>5, <2>1
  <2>2. CASE v # w
    BY <1>1, <1>3, <2>2 DEF SpendInv
  <2> QED BY <2>1, <2>2
<1> QED BY <1>2, <1>6 DEF SpendInv

\* What the rest of a decision does to the requests of its worker.
LEMMA TurnGoesOn ==
  ASSUME TurnInv, AgentTurn
  PROVE  /\ turn.phase = "planning" /\ turn.worker \in Workers /\ turn'.worker = turn.worker
         /\ UNCHANGED <<context, driver, caps, turnsAt>>
         /\ \/ /\ UNCHANGED requestsAt
               /\ turn'.phase # "planning" \/ turn'.requests = turn.requests
            \/ /\ requestsAt' = [requestsAt EXCEPT ![turn.worker] = @ + 1]
               /\ \/ turn'.phase # "planning"
                  \/ driver[turn.worker] = "native" /\ turn'.requests = turn.requests + 1
<1> USE DEF TurnInv, AgentTypeOK, Planning
<1>1. ASSUME FailTurn \/ \E p \in Proposals : Answer(p), turn.phase = "planning"
      PROVE  turn'.worker = turn.worker /\ turn'.phase # "planning"
  BY <1>1 DEF FailTurn, Answer
<1>2. CASE PayloadRefused
  BY <1>1, <1>2 DEF PayloadRefused, Unspent, driverVars
<1>3. CASE NativeRetry
  <2>1. CASE FailTurn
    BY <1>1, <1>3, <2>1 DEF NativeRetry, Request, driverVars
  <2>2. CASE turn' = [turn EXCEPT !.requests = @ + 1]
    BY <1>3, <2>2 DEF NativeRetry, Request, driverVars
  <2> QED BY <1>3, <2>1, <2>2 DEF NativeRetry
<1>4. CASE NativeFails \/ SelectionFails
  BY <1>1, <1>4 DEF NativeFails, SelectionFails, Request, driverVars
<1>5. ASSUME NEW p \in Proposals, NativeCall(p) \/ Selected(p) PROVE Answer(p) \/ FailTurn
  BY <1>5 DEF NativeCall, Selected
<1>6. CASE \E p \in Proposals : NativeCall(p) \/ Selected(p)
  BY <1>1, <1>5, <1>6 DEF NativeCall, Selected, Request, driverVars
<1>7. ASSUME NEW C \in SUBSET Proposals, Candidates(C)
      PROVE  /\ UNCHANGED <<context, driver, caps, turnsAt, requestsAt>>
             /\ turn.phase = "planning" /\ turn.worker \in Workers /\ turn'.worker = turn.worker
             /\ turn'.phase # "planning" \/ turn'.requests = turn.requests
  <2>1. CASE turn' = [turn EXCEPT !.candidates = C]
    BY <1>7, <2>1 DEF Candidates, Unspent, driverVars
  <2>2. CASE FailTurn \/ \E p \in Proposals : Answer(p)
    BY <1>1, <1>7, <2>2 DEF Candidates, Unspent, driverVars
  <2> QED BY <1>7, <2>1, <2>2 DEF Candidates
<1> QED BY <1>2, <1>3, <1>4, <1>6, <1>7 DEF AgentTurn

LEMMA Requested ==
  ASSUME TurnInv, SpendInv, AgentTurn
  PROVE  SpendInv'
<1>0. PICK w \in Workers : w = turn.worker
  BY TurnGoesOn
<1>1. /\ turn.phase = "planning" /\ turn.worker = w /\ turn'.worker = w
      /\ UNCHANGED <<context, driver, caps, turnsAt>>
      /\ \/ /\ UNCHANGED requestsAt
            /\ turn'.phase # "planning" \/ turn'.requests = turn.requests
         \/ /\ requestsAt' = [requestsAt EXCEPT ![w] = @ + 1]
            /\ \/ turn'.phase # "planning"
               \/ driver[w] = "native" /\ turn'.requests = turn.requests + 1
  BY <1>0, TurnGoesOn
<1>2. /\ turnsAt[w] \in Nat /\ requestsAt \in [Workers -> Nat] /\ turn.requests \in 0 .. 1
      /\ driver[w] \in {"none", "native", "choice"}
  BY <1>1 DEF TurnInv, AgentTypeOK, RequestLimit
<1>3. Pending(w) /\ (Pending(w)' <=> turn'.phase = "planning")
  BY <1>1 DEF Pending
<1>4. \A v \in Workers : v # w => ~Pending(v) /\ ~Pending(v)' /\ requestsAt'[v] = requestsAt[v]
  BY <1>1, <1>2 DEF Pending
<1>5. /\ driver[w] # "none"
      /\ driver[w] = "native" => requestsAt[w] + (RequestLimit - turn.requests) <= RequestLimit * turnsAt[w]
      /\ driver[w] = "choice" => requestsAt[w] + 1 <= turnsAt[w]
  BY <1>1, <1>3 DEF SpendInv
<1>6. /\ requestsAt[w] \in Nat
      /\ requestsAt'[w] = requestsAt[w] \/ requestsAt'[w] = requestsAt[w] + 1
      /\ \/ requestsAt'[w] = requestsAt[w] /\ (~Pending(w)' \/ turn'.requests = turn.requests)
         \/ /\ requestsAt'[w] = requestsAt[w] + 1
            /\ ~Pending(w)' \/ (driver[w] = "native" /\ turn'.requests = turn.requests + 1)
  BY <1>1, <1>2, <1>3
<1>7. /\ driver[w] = "native" =>
           requestsAt'[w] + (IF Pending(w)' THEN RequestLimit - turn'.requests ELSE 0)
             <= RequestLimit * turnsAt[w]
      /\ driver[w] = "choice" =>
           requestsAt'[w] + (IF Pending(w)' THEN 1 ELSE 0) <= turnsAt[w]
  BY <1>2, <1>5, <1>6 DEF RequestLimit
<1>8. ASSUME NEW v \in Workers, v # w
      PROVE  /\ driver[v] = "none" => requestsAt'[v] = 0 /\ ~Pending(v)'
             /\ driver[v] = "native" =>
                  requestsAt'[v] + (IF Pending(v)' THEN RequestLimit - turn'.requests ELSE 0)
                    <= RequestLimit * turnsAt[v]
             /\ driver[v] = "choice" =>
                  requestsAt'[v] + (IF Pending(v)' THEN 1 ELSE 0) <= turnsAt[v]
  <2>1. ~Pending(v) /\ ~Pending(v)' /\ requestsAt'[v] = requestsAt[v]
    BY <1>4, <1>8
  <2>2. /\ driver[v] = "none" => requestsAt[v] = 0
        /\ driver[v] = "native" => requestsAt[v] + 0 <= RequestLimit * turnsAt[v]
        /\ driver[v] = "choice" => requestsAt[v] + 0 <= turnsAt[v]
    BY <2>1 DEF SpendInv
  <2> QED BY <2>1, <2>2
<1> QED BY <1>1, <1>5, <1>7, <1>8 DEF SpendInv

LEMMA SpendStep == RegistryInv /\ TurnInv /\ SpendInv /\ [FleetNext]_workVars => SpendInv'
<1> SUFFICES ASSUME RegistryInv, TurnInv, SpendInv, [FleetNext]_workVars PROVE SpendInv' OBVIOUS
<1>1. CASE UNCHANGED <<context, driverVars, turnVars>>
  BY <1>1 DEF driverVars, turnVars, SpendInv, Pending
<1>2. ASSUME NEW w \in Workers, BuildNative(w) \/ BuildChoice(w) PROVE SpendInv'
  BY <1>2, Built
<1>3. ASSUME NEW w \in Workers, NEW A, NEW f, Decide(w, A, f) PROVE SpendInv'
  BY <1>3, Decided
<1>4. CASE AgentTurn
  BY <1>4, Requested
<1>5. CASE CallTool \/ Undo
  <2>1. /\ turn' = IdleTurn /\ UNCHANGED <<context, driverVars, turnsAt, requestsAt>>
        /\ turn.phase # "planning"
    BY <1>5 DEF CallTool, Undo
  <2>2. \A v \in Workers : ~Pending(v) /\ ~Pending(v)'
    BY <2>1 DEF Pending, IdleTurn
  <2> QED BY <2>1, <2>2 DEF SpendInv, driverVars
<1>6. ASSUME NEW w \in Workers, NEW m \in Documents, LoadContext(w, m), UNCHANGED driverVars, Setup
      PROVE  SpendInv'
  <2>1. context[w] = NoContext /\ \A v \in Workers : v # w => context'[v] = context[v]
    BY <1>6 DEF LoadContext, GoDown, RegistryInv, ManifestTypeOK
  <2>2. UNCHANGED <<driver, caps, turn, turnsAt, requestsAt>>
    BY <1>6 DEF driverVars, Setup, turnVars
  <2>3. \A v \in Workers : driver[v] # "none" => context'[v] = context[v]
    BY <2>1 DEF SpendInv
  <2> QED BY <2>2, <2>3 DEF SpendInv, Pending
<1>7. ASSUME NEW w \in Workers, Execute(w) \/ Reconcile(w) PROVE SpendInv'
  <2>1. UNCHANGED <<context, driverVars, turnVars>>
    BY <1>7 DEF Execute, Reconcile, ExecuteRejected, ExecuteRead, ExecuteConfirmed, ExecuteRefused,
       ExecuteUnclear, ExecuteLost, ReconcileRejected, ReconcileEffect, ReconcileNoEffect,
       ReconcileOpen, Activity
  <2> QED BY <1>1, <2>1
<1>8. CASE \/ RegistryNext /\ UNCHANGED context /\ UNCHANGED driverVars /\ Setup
           \/ LateExecution \/ Exhausted
           \/ UNCHANGED workVars
  BY <1>1, <1>8 DEF Setup, Activity, LateExecution, Exhausted, workVars
<1> QED
  BY <1>2, <1>3, <1>4, <1>5, <1>6, <1>7, <1>8 DEF FleetNext

----------------------------------------------------------------------------
\* A share of a share, taken twice as often, stays within the whole.
LEMMA SharesFit ==
  ASSUME NEW T \in Nat, NEW n \in Nat, n # 0, NEW c \in Nat
  PROVE  /\ c <= T \div n => c * n <= T
         /\ c <= RequestCap(T, n) => c * RequestLimit * n <= T
<1>1. (T \div n) \in Nat /\ (T \div n) * n <= T
  OBVIOUS
<1>2. ASSUME NEW a \in Nat, a <= T \div n PROVE a * n <= T
  <2>1. a * n <= (T \div n) * n
    BY <1>1, <1>2, Scaled
  <2> QED BY <1>1, <2>1
<1>3. ASSUME c <= RequestCap(T, n) PROVE c * RequestLimit <= T \div n
  <2> DEFINE q == T \div n
  <2>1. q \in Nat
    BY <1>1
  <2> HIDE DEF q
  <2>2. c <= q \div 2 => c * 2 <= q
    BY <2>1
  <2> QED BY <1>3, <2>2 DEF q, RequestCap, RequestLimit
<1>4. c * RequestLimit \in Nat
  BY DEF RequestLimit
<1> QED BY <1>2, <1>3, <1>4

\* A worker spends no more than the share of its turns.
LEMMA WorkerSpends ==
  ASSUME NEW r \in Nat, NEW t \in Nat, NEW c \in Nat, NEW n \in Nat, NEW T \in Nat, NEW k \in Nat,
         r <= k * t, c * k * n <= T
  PROVE  (r * c) * n <= t * T
<1>1. r * (c * n) <= (k * t) * (c * n)
  BY Scaled
<1>2. (c * k * n) * t <= T * t
  BY Scaled
<1>3. (k * t) * (c * n) = (c * k * n) * t /\ r * (c * n) = (r * c) * n /\ T * t = t * T
  OBVIOUS
<1>4. (r * c) * n \in Nat /\ (c * k * n) * t \in Nat /\ t * T \in Nat
  OBVIOUS
<1> QED BY <1>1, <1>2, <1>3, <1>4

----------------------------------------------------------------------------
FleetInv == RegistryInv /\ TurnInv /\ OperationInv

LEMMA FleetInvariant == FleetSpec => []FleetInv
<1>1. FleetInit => FleetInv
  BY RegistryInitial, TurnInitial, OperationInitial DEF FleetInv
<1>2. FleetInv /\ [FleetNext]_workVars => FleetInv'
  BY RegistryStep, StepsOfRegistries, TurnStep, OperationStep DEF FleetInv
<1> QED
  BY <1>1, <1>2, PTL DEF FleetSpec

(***************************************************************************)
(* Every variable of the fleet keeps its type (contracts.py, tools.py,     *)
(* activities.py), so no step indexes a registry, a manifest or an answer  *)
(* outside its domain, and the attempts stay below the configured maximum. *)
(***************************************************************************)
THEOREM FleetTypes == FleetSpec => []FleetTypeOK
<1>1. FleetInv => FleetTypeOK
  BY DEF FleetInv, RegistryInv, TurnInv, OperationInv, CallTypeOK, FleetTypeOK
<1> QED
  BY <1>1, FleetInvariant, PTL

(***************************************************************************)
(* A reported success is always true, and a denial is, now and later, of   *)
(* every fleet whose workers agree on the tool: where it is false, the     *)
(* worker that failed the operation lacked the tool or had another         *)
(* contract (activities.py:101), and the one that reconciled it had a      *)
(* schema that refuses the arguments (activities.py:120).  A fleet that is *)
(* skewed so may get a false denial: the theorem says in which ways only.  *)
(***************************************************************************)
THEOREM DefiniteAnswers == FleetSpec => []DefiniteAnswerIsTrue
<1>1. ASSUME FleetInv, NEW k \in Directions
      PROVE  /\ Confirmed(k) /\ Recorded(k) => ledger[k].state = "committed"
             /\ Denied(k) /\ ledger[k].state = "committed" => Excused(k, ledger[k].by)
  BY <1>1 DEF FleetInv, OperationInv, PhaseInv, DenialInv
<1>2. FleetInv => DefiniteAnswerIsTrue
  BY <1>1 DEF DefiniteAnswerIsTrue, Recorded, Denied, Excused
<1> QED
  BY <1>2, FleetInvariant, PTL

(***************************************************************************)
(* Every turn keeps to its share of a manifest's budget (openrouter.py:140,*)
(* jev.py:182): the time granted by all workers bound to it, and the       *)
(* tokens granted by those with the native driver, stand to the limits at  *)
(* most as the turns they took to the turns allowed.  So it is for every   *)
(* number of workers and turns, every mixture of drivers, and however the  *)
(* shares round; without more turns than allowed the limits are kept.      *)
(***************************************************************************)
THEOREM SpendInBudget == FleetSpec => []SpendStaysInBudget
<1>1. FleetSpec => []SpendInv
  <2>1. FleetInv /\ SpendInv /\ [FleetNext]_workVars => SpendInv'
    BY SpendStep DEF FleetInv
  <2> QED BY SpendInitial, FleetInvariant, <2>1, PTL DEF FleetSpec
<1>2. ASSUME FleetInv, SpendInv PROVE SpendStaysInBudget
  <2> USE DEF SpendStaysInBudget
  <2> TAKE m \in Documents
  <2> DEFINE W == {w \in Workers : context[w] = m}
             N == {w \in W : driver[w] = "native"}
             g(c) == [w \in Workers |-> requestsAt[w] * c[w]]
             tokens == [w \in Workers |-> caps[w].tokens]
             ms == [w \in Workers |-> caps[w].ms]
  <2>1. IsFiniteSet(W) /\ N \subseteq W /\ IsFiniteSet(N)
    <3>1. W \subseteq Workers /\ N \subseteq W
      OBVIOUS
    <3>2. IsFiniteSet(W)
      BY <3>1, FS_Subset, RegistryAssumption
    <3> QED BY <3>1, <3>2, FS_Subset
  <2>2. m.turns \in Nat /\ m.tokens \in Nat /\ m.elapsed \in Nat
    BY ManifestAssumption
  <2>3. ASSUME NEW w \in W
        PROVE  /\ w \in Workers /\ m.turns # 0
               /\ requestsAt[w] \in Nat /\ turnsAt[w] \in Nat
               /\ tokens[w] \in Nat /\ ms[w] \in Nat
               /\ g(tokens)[w] = requestsAt[w] * tokens[w] /\ g(ms)[w] = requestsAt[w] * ms[w]
               /\ (requestsAt[w] * tokens[w]) * m.turns <= turnsAt[w] * m.tokens
               /\ (requestsAt[w] * ms[w]) * m.turns <= turnsAt[w] * m.elapsed
    <3>1. w \in Workers /\ context[w] = m /\ context[w] # NoContext
      BY ManifestAssumption
    <3>2. m.turns # 0
      BY <1>2, <3>1 DEF FleetInv, RegistryInv, Validates, BudgetOK
    <3>3. /\ requestsAt[w] \in Nat /\ turnsAt[w] \in Nat
          /\ caps[w].tokens \in 0 .. MaxOutput /\ caps[w].ms \in 0 .. MaxTimeout
          /\ driver[w] \in {"none", "native", "choice"}
      BY <1>2, <3>1 DEF FleetInv, TurnInv, AgentTypeOK
    <3>4. tokens[w] = caps[w].tokens /\ ms[w] = caps[w].ms
      BY <3>1
    <3>5. g(tokens)[w] = requestsAt[w] * tokens[w] /\ g(ms)[w] = requestsAt[w] * ms[w]
      BY <3>1
    <3>6. tokens[w] \in Nat /\ ms[w] \in Nat
      BY <3>3, <3>4, DriverAssumption
    <3> HIDE DEF tokens, ms, g
    <3> DEFINE r == requestsAt[w]
               t == turnsAt[w]
    <3>7. /\ driver[w] = "none" => r = 0
          /\ driver[w] = "native" =>
               /\ tokens[w] <= RequestCap(m.tokens, m.turns) /\ ms[w] <= RequestCap(m.elapsed, m.turns)
               /\ r + (IF Pending(w) THEN RequestLimit - turn.requests ELSE 0) <= RequestLimit * t
          /\ driver[w] = "choice" =>
               /\ tokens[w] = 0 /\ ms[w] <= m.elapsed \div m.turns
               /\ r + (IF Pending(w) THEN 1 ELSE 0) <= t
      BY <1>2, <3>1, <3>4 DEF SpendInv, TurnTime
    <3>8. turn.requests \in 0 .. 1 /\ RequestLimit = 2
      BY <1>2 DEF FleetInv, TurnInv, AgentTypeOK, RequestLimit
    <3> HIDE DEF r, t
    <3>9. r \in Nat /\ t \in Nat
      BY <3>3 DEF r, t
    <3>10. /\ driver[w] = "native" => r <= RequestLimit * t
           /\ driver[w] = "choice" => r <= 1 * t
      BY <3>7, <3>8, <3>9
    <3>11. CASE driver[w] = "none"
      <4>1. r = 0
        BY <3>7, <3>11
      <4>2. 0 <= t * m.tokens /\ 0 <= t * m.elapsed
        BY <2>2, <3>9
      <4>3. (r * tokens[w]) * m.turns = 0 /\ (r * ms[w]) * m.turns = 0
        BY <2>2, <3>6, <4>1
      <4> QED BY <3>1, <3>2, <3>3, <3>5, <3>6, <4>2, <4>3 DEF r, t
    <3>12. CASE driver[w] = "native"
      <4>1. /\ tokens[w] * RequestLimit * m.turns <= m.tokens
            /\ ms[w] * RequestLimit * m.turns <= m.elapsed
        BY <2>2, <3>2, <3>6, <3>7, <3>12, SharesFit
      <4>2. RequestLimit \in Nat /\ r <= RequestLimit * t
        BY <3>8, <3>10, <3>12
      <4>3. (r * tokens[w]) * m.turns <= t * m.tokens
        BY <2>2, <3>6, <3>9, <4>1, <4>2, WorkerSpends
      <4>4. (r * ms[w]) * m.turns <= t * m.elapsed
        BY <2>2, <3>6, <3>9, <4>1, <4>2, WorkerSpends
      <4> QED BY <3>1, <3>2, <3>3, <3>5, <3>6, <4>3, <4>4 DEF r, t
    <3>13. CASE driver[w] = "choice"
      <4>1. tokens[w] <= m.tokens \div m.turns
        BY <2>2, <3>2, <3>7, <3>13
      <4>2. tokens[w] * m.turns <= m.tokens /\ ms[w] * m.turns <= m.elapsed
        BY <2>2, <3>2, <3>6, <3>7, <3>13, <4>1, SharesFit
      <4>3. tokens[w] * 1 * m.turns <= m.tokens /\ ms[w] * 1 * m.turns <= m.elapsed
        BY <2>2, <3>6, <4>2
      <4>4. 1 \in Nat /\ r <= 1 * t
        BY <3>10, <3>13
      <4>5. (r * tokens[w]) * m.turns <= t * m.tokens
        BY <2>2, <3>6, <3>9, <4>3, <4>4, WorkerSpends
      <4>6. (r * ms[w]) * m.turns <= t * m.elapsed
        BY <2>2, <3>6, <3>9, <4>3, <4>4, WorkerSpends
      <4> QED BY <3>1, <3>2, <3>3, <3>5, <3>6, <4>5, <4>6 DEF r, t
    <3> QED BY <3>3, <3>11, <3>12, <3>13
  <2>4. \A w \in W : g(tokens)[w] \in Nat /\ g(ms)[w] \in Nat
    BY <2>3
  <2> HIDE DEF W, N, g, tokens, ms
  <2>5. SumFunctionOnSet(g(tokens), N) * m.turns <= SumFunctionOnSet(turnsAt, N) * m.tokens
    <3>1. \A w \in N : /\ g(tokens)[w] \in Nat /\ turnsAt[w] \in Nat
                      /\ g(tokens)[w] * m.turns <= turnsAt[w] * m.tokens
      BY <2>1, <2>3, <2>4
    <3> QED BY <2>1, <2>2, <3>1, SumsCompare
  <2>6. SumFunctionOnSet(g(ms), W) * m.turns <= SumFunctionOnSet(turnsAt, W) * m.elapsed
    <3>1. \A w \in W : /\ g(ms)[w] \in Nat /\ turnsAt[w] \in Nat
                      /\ g(ms)[w] * m.turns <= turnsAt[w] * m.elapsed
      BY <2>3, <2>4
    <3> QED BY <2>1, <2>2, <3>1, SumsCompare
  <2> QED BY <2>5, <2>6 DEF W, N, g, tokens, ms
<1> QED
  BY <1>1, <1>2, FleetInvariant, PTL

=============================================================================
