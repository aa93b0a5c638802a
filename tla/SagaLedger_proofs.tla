------------------------ MODULE SagaLedger_proofs ------------------------
(***************************************************************************)
(* The published history and the journal tell the same story, for every    *)
(* set of tools and operators and all limits: the theorems of SagaLedger.  *)
(*                                                                         *)
(* Two definitions of the ledger recurse over data: the audit folds over   *)
(* the history, and the chain of causes is extended until nothing is added *)
(* to it.  Both are functions defined by recursion, so each is handled in  *)
(* two steps: the recursion has a solution, and whatever solution CHOOSE   *)
(* picks has the value that is needed.                                     *)
(***************************************************************************)
EXTENDS SagaLedger, AgenticSagaWorkflow_steps

----------------------------------------------------------------------------
(***************************************************************************)
(* The audit is a fold over the history.                                   *)
(***************************************************************************)

\* Induction over the naturals, for a set in place of a predicate: its least
\* exception would have a predecessor that is none.
LEMMA Inductive ==
  ASSUME NEW T, T \subseteq Nat, 0 \in T, \A n \in T : n + 1 \in T
  PROVE  \A n \in Nat : n \in T
<1> DEFINE C == {n \in Nat : n \notin T}
<1> SUFFICES ASSUME C # {} PROVE FALSE
  OBVIOUS
<1>1. PICK c \in C : \A n \in C : ~(<<n, c>> \in OpToRel(<, Nat))
  BY NatLessThanWellFounded, WFMin
<1>2. c \in Nat /\ c # 0
  OBVIOUS
<1>3. c - 1 \in Nat /\ c - 1 < c
  BY <1>2
<1>4. c - 1 \notin C
  BY <1>1, <1>2, <1>3 DEF OpToRel
<1>5. c - 1 \in T
  BY <1>3, <1>4
<1>6. (c - 1) + 1 = c
  BY <1>2
<1> QED BY <1>2, <1>5, <1>6

\* The maximum of a set of positions.
LEMMA Largest ==
  ASSUME NEW n \in Nat, NEW S, S \subseteq 1 .. n, S # {}
  PROVE  Max(S) \in S /\ \A y \in S : y <= Max(S)
<1>1. \E x \in S : \A y \in S : x >= y
  BY LargestIndex
<1>2. Max(S) \in S /\ \A y \in S : Max(S) >= y
  BY <1>1 DEF Max
<1> QED BY <1>2

LEMMA LargestIs ==
  ASSUME NEW n \in Nat, NEW S, S \subseteq 1 .. n, NEW x \in S, \A y \in S : y <= x
  PROVE  Max(S) = x
<1>1. Max(S) \in S /\ x <= Max(S) /\ Max(S) <= x
  BY Largest
<1>2. x \in 1 .. n /\ Max(S) \in 1 .. n
  BY <1>1
<1> QED BY <1>1, <1>2

\* The last position, and the positions before it.
LEMMA Uppermost ==
  ASSUME NEW n \in Nat
  PROVE  /\ 1 .. n + 1 # {} /\ Max(1 .. n + 1) = n + 1
         /\ (1 .. n + 1) \ {n + 1} = 1 .. n
<1>1. n + 1 \in 1 .. n + 1 /\ \A y \in 1 .. n + 1 : y <= n + 1
  OBVIOUS
<1>2. Max(1 .. n + 1) = n + 1
  <2>1. n + 1 \in Nat
    OBVIOUS
  <2> QED BY <1>1, <2>1, LargestIs
<1>3. \A x : x \in (1 .. n + 1) \ {n + 1} <=> x \in 1 .. n
  OBVIOUS
<1> QED BY <1>1, <1>2, <1>3

(***************************************************************************)
(* The solutions of the fold's recursion for the first n events.           *)
(***************************************************************************)
Upto(es, n, f) ==
  f = [s \in SUBSET (1 .. n) |->
         IF s = {} THEN << >> ELSE Audited(f[s \ {Max(s)}], es[Max(s)])]

AuditOf(es) == SX!FoldLeft(Audited, << >>, es)

LEMMA FoldUnfolded ==
  ASSUME NEW S, NEW es \in Seq(S)
  PROVE AuditOf(es) = (CHOOSE f : Upto(es, Len(es), f))[1 .. Len(es)]
<1>1. DOMAIN es = 1 .. Len(es)
  OBVIOUS
<1> QED BY <1>1 DEF AuditOf, SX!FoldLeft, SX!MapThenFoldSet, Upto, SX!Max, Max

\* The recursion of the fold has a solution for every length.
LEMMA UptoExists ==
  ASSUME NEW es
  PROVE  \A n \in Nat : \E f : Upto(es, n, f)
<1> DEFINE T == {n \in Nat : \E f : Upto(es, n, f)}
<1>1. 0 \in T
  <2> DEFINE f == [s \in SUBSET (1 .. 0) |-> << >>]
  <2>1. \A s \in SUBSET (1 .. 0) : s = {}
    OBVIOUS
  <2>2. Upto(es, 0, f)
    BY <2>1 DEF Upto
  <2> QED BY <2>2
<1>2. ASSUME NEW n \in T PROVE n + 1 \in T
  <2>1. PICK f : Upto(es, n, f)
    OBVIOUS
  <2> DEFINE g == [s \in SUBSET (1 .. n + 1) |->
                     IF n + 1 \in s THEN Audited(f[s \ {n + 1}], es[n + 1]) ELSE f[s]]
  <2>2. n \in Nat /\ n + 1 \in Nat
    OBVIOUS
  <2>3. ASSUME NEW s \in SUBSET (1 .. n + 1)
        PROVE  g[s] = IF s = {} THEN << >> ELSE Audited(g[s \ {Max(s)}], es[Max(s)])
    <3>1. CASE n + 1 \in s
      <4>1. Max(s) = n + 1
        <5>1. \A y \in s : y <= n + 1
          BY <2>2
        <5> QED BY <2>2, <3>1, <5>1, LargestIs
      <4>2. s \ {n + 1} \in SUBSET (1 .. n + 1) /\ n + 1 \notin s \ {n + 1}
        OBVIOUS
      <4>3. g[s \ {n + 1}] = f[s \ {n + 1}]
        BY <4>2
      <4>4. g[s] = Audited(f[s \ {n + 1}], es[n + 1])
        BY <3>1
      <4> HIDE DEF g
      <4> QED BY <3>1, <4>1, <4>3, <4>4
    <3>2. CASE n + 1 \notin s
      <4>1. s \in SUBSET (1 .. n)
        BY <2>2, <3>2
      <4>2. f[s] = IF s = {} THEN << >> ELSE Audited(f[s \ {Max(s)}], es[Max(s)])
        BY <2>1, <4>1 DEF Upto
      <4>3. s \ {Max(s)} \in SUBSET (1 .. n + 1) /\ n + 1 \notin s \ {Max(s)}
        BY <3>2
      <4>4. g[s \ {Max(s)}] = f[s \ {Max(s)}]
        BY <4>3
      <4>5. g[s] = f[s]
        BY <3>2
      <4> HIDE DEF g
      <4> QED BY <4>2, <4>4, <4>5
    <3> QED BY <3>1, <3>2
  <2>4. g = [s \in SUBSET (1 .. n + 1) |-> g[s]]
    OBVIOUS
  <2> HIDE DEF g
  <2>5. g = [s \in SUBSET (1 .. n + 1) |->
                 IF s = {} THEN << >> ELSE Audited(g[s \ {Max(s)}], es[Max(s)])]
    BY <2>3, <2>4
  <2>6. Upto(es, n + 1, g)
    BY <2>5 DEF Upto
  <2> QED BY <2>2, <2>6
<1> HIDE DEF T
<1>3. \A n \in Nat : n \in T
  <2>1. T \subseteq Nat
    BY DEF T
  <2> QED BY <1>1, <1>2, <2>1, Inductive
<1> QED BY <1>3 DEF T

\* Two histories that agree on a prefix agree on what it amounts to.
LEMMA UptoOfPrefix ==
  ASSUME NEW n \in Nat, NEW es, NEW f, Upto(es, n, f),
         NEW m \in Nat, NEW fs, NEW g, Upto(fs, m, g),
         NEW l \in Nat, l <= n, l <= m, \A i \in 1 .. l : es[i] = fs[i]
  PROVE  f[1 .. l] = g[1 .. l]
<1> DEFINE T == {k \in Nat : k <= l => f[1 .. k] = g[1 .. k]}
<1>1. 0 \in T
  <2>1. (1 .. 0) = {} /\ {} \in SUBSET (1 .. n) /\ {} \in SUBSET (1 .. m)
    OBVIOUS
  <2>2. f[{}] = << >> /\ g[{}] = << >>
    BY <2>1 DEF Upto
  <2> QED BY <2>1, <2>2
<1>2. ASSUME NEW k \in T PROVE k + 1 \in T
  <2> SUFFICES ASSUME k + 1 <= l PROVE f[1 .. k + 1] = g[1 .. k + 1]
    OBVIOUS
  <2>1. k \in Nat /\ k + 1 \in Nat /\ k <= l
    OBVIOUS
  <2>2. f[1 .. k] = g[1 .. k]
    BY <2>1
  <2>3. 1 .. k + 1 \in SUBSET (1 .. n) /\ 1 .. k + 1 \in SUBSET (1 .. m)
    BY <2>1
  <2>4. /\ 1 .. k + 1 # {} /\ Max(1 .. k + 1) = k + 1
        /\ (1 .. k + 1) \ {k + 1} = 1 .. k
    BY <2>1, Uppermost
  <2>6. f[1 .. k + 1] = Audited(f[1 .. k], es[k + 1])
    <3>1. f[1 .. k + 1] = Audited(f[(1 .. k + 1) \ {Max(1 .. k + 1)}], es[Max(1 .. k + 1)])
      BY <2>3, <2>4 DEF Upto
    <3> QED BY <2>4, <3>1
  <2>7. g[1 .. k + 1] = Audited(g[1 .. k], fs[k + 1])
    <3>1. g[1 .. k + 1] = Audited(g[(1 .. k + 1) \ {Max(1 .. k + 1)}], fs[Max(1 .. k + 1)])
      BY <2>3, <2>4 DEF Upto
    <3> QED BY <2>4, <3>1
  <2>8. es[k + 1] = fs[k + 1]
    BY <2>1
  <2> QED BY <2>2, <2>6, <2>7, <2>8
<1> HIDE DEF T
<1>3. l \in T
  <2>1. T \subseteq Nat
    BY DEF T
  <2> QED BY <1>1, <1>2, <2>1, Inductive
<1> QED BY <1>3 DEF T

LEMMA AuditOfNothing == AuditOf(<< >>) = << >>
<1> DEFINE f == CHOOSE f : Upto(<< >>, 0, f)
<1>1. Upto(<< >>, 0, f)
  BY UptoExists
<1>2. AuditOf(<< >>) = f[1 .. 0]
  <2>1. << >> \in Seq(Nat) /\ Len(<< >>) = 0
    OBVIOUS
  <2>2. AuditOf(<< >>) = (CHOOSE h : Upto(<< >>, Len(<< >>), h))[1 .. Len(<< >>)]
    BY <2>1, FoldUnfolded
  <2> QED BY <2>1, <2>2
<1> HIDE DEF f
<1>3. (1 .. 0) = {} /\ {} \in SUBSET (1 .. 0)
  OBVIOUS
<1>4. f[{}] = << >>
  BY <1>1, <1>3 DEF Upto
<1> QED BY <1>2, <1>3, <1>4

\* One more event is one more step of the audit.
LEMMA AuditOfAppended ==
  ASSUME NEW S, NEW es \in Seq(S), NEW e \in S
  PROVE  AuditOf(Append(es, e)) = Audited(AuditOf(es), e)
<1> DEFINE n  == Len(es)
           fs == Append(es, e)
           f  == CHOOSE f : Upto(es, n, f)
           g  == CHOOSE g : Upto(fs, n + 1, g)
<1>1. /\ n \in Nat /\ n + 1 \in Nat /\ fs \in Seq(S) /\ Len(fs) = n + 1
      /\ fs[n + 1] = e /\ \A i \in 1 .. n : es[i] = fs[i]
  OBVIOUS
<1>2. Upto(es, n, f) /\ Upto(fs, n + 1, g)
  BY <1>1, UptoExists
<1>3. AuditOf(es) = f[1 .. n] /\ AuditOf(fs) = g[1 .. n + 1]
  BY <1>1, FoldUnfolded
<1> HIDE DEF n, fs, f, g
<1>4. g[1 .. n] = f[1 .. n]
  <2>1. n <= n /\ n <= n + 1
    BY <1>1
  <2> QED BY <1>1, <1>2, <2>1, UptoOfPrefix
<1>5. g[1 .. n + 1] = Audited(g[1 .. n], e)
  <2>1. 1 .. n + 1 \in SUBSET (1 .. n + 1)
    OBVIOUS
  <2>2. /\ 1 .. n + 1 # {} /\ Max(1 .. n + 1) = n + 1
        /\ (1 .. n + 1) \ {n + 1} = 1 .. n
    BY <1>1, Uppermost
  <2>3. g[1 .. n + 1] = Audited(g[(1 .. n + 1) \ {Max(1 .. n + 1)}], fs[Max(1 .. n + 1)])
    BY <1>2, <2>1, <2>2 DEF Upto
  <2> QED BY <1>1, <2>2, <2>3
<1> QED BY <1>3, <1>4, <1>5 DEF fs

----------------------------------------------------------------------------
(***************************************************************************)
(* The events of the ledger.                                               *)
(***************************************************************************)

Outcomes == {"none", "succeeded", "failed", "unresolved", "pending",
             "confirmed_effect", "confirmed_no_effect"} \cup Verdicts

Events ==
  [kind : Kinds, before : Statuses, after : Statuses, step : Nat, undo : BOOLEAN,
   declared : {"none", "effect", "proof", "read"}, outcome : Outcomes, undone : Seq(Nat)]

PlainKinds == {"started", "agent_decision", "guard_rejected", "status_changed"}
UndoKinds == {"compensation_result", "human_resolved"}

(***************************************************************************)
(* Which operation an event can be about, by its kind.                     *)
(***************************************************************************)
Shaped(e) ==
  /\ e \in Events
  /\ e.kind \in PlainKinds \cup {"compensation_completed"} => e.step = 0 /\ ~e.undo
  /\ e.kind \in UndoKinds => e.undo
  /\ e.kind = "forward_result" => ~e.undo
  /\ e.kind # "forward_result" => e.declared = "none"

LEMMA PlainEvent ==
  ASSUME NEW k \in PlainKinds, NEW a \in Statuses, NEW b \in Statuses,
         NEW e, e = WorkflowEvent(k, a, b)
  PROVE  /\ Shaped(e) /\ e.kind = k /\ e.before = a /\ e.after = b
         /\ e.step = 0 /\ e.outcome = "none"
<1>1. << >> \in Seq(Nat)
  OBVIOUS
<1> QED BY <1>1 DEF WorkflowEvent, Shaped, Events, PlainKinds, UndoKinds, Kinds, Outcomes

LEMMA StatusEvent ==
  ASSUME NEW a \in Statuses, NEW b \in Statuses, NEW e, e = StatusChanged(a, b)
  PROVE  Shaped(e) /\ e.kind = "status_changed" /\ e.before = a /\ e.after = b
BY PlainEvent DEF StatusChanged, PlainKinds

LEMMA ForwardResultEvent ==
  ASSUME status \in Statuses, step \in Nat, tool \in Tools, NEW o \in Outcomes,
         NEW e, e = ForwardResult(o)
  PROVE  /\ Shaped(e) /\ e.kind = "forward_result" /\ e.before = status /\ e.after = status
         /\ e.step = step /\ ~e.undo /\ e.outcome = o /\ e.declared = Declared(tool)
<1>1. << >> \in Seq(Nat)
  OBVIOUS
<1>2. Declared(tool) \in {"none", "effect", "proof", "read"}
  BY DEF Declared
<1> QED BY <1>1, <1>2
        DEF ForwardResult, WorkflowEvent, Shaped, Events, PlainKinds, UndoKinds, Kinds

LEMMA ReconciliationEvent ==
  ASSUME status \in Statuses, step \in Nat, NEW o \in Outcomes,
         NEW e, e = ReconciliationResult(o)
  PROVE  /\ Shaped(e) /\ e.kind = "reconciliation_result"
         /\ e.before = status /\ e.after = status
         /\ e.step = step /\ e.undo = (pc = "reconciling_compensation") /\ e.outcome = o
<1>1. << >> \in Seq(Nat)
  OBVIOUS
<1> QED BY <1>1
        DEF ReconciliationResult, WorkflowEvent, Shaped, Events, PlainKinds, UndoKinds, Kinds

LEMMA CompensationEvent ==
  ASSUME status \in Statuses, step \in Nat, NEW o \in Outcomes,
         NEW e, e = CompensationResult(o)
  PROVE  /\ Shaped(e) /\ e.kind = "compensation_result"
         /\ e.before = status /\ e.after = status
         /\ e.step = step /\ e.undo /\ e.outcome = o
<1>1. << >> \in Seq(Nat)
  OBVIOUS
<1> QED BY <1>1
        DEF CompensationResult, WorkflowEvent, Shaped, Events, PlainKinds, UndoKinds, Kinds

LEMMA HumanEvent ==
  ASSUME NEW s \in Nat, NEW e, e = HumanResolution(s)
  PROVE  /\ Shaped(e) /\ e.kind = "human_resolved"
         /\ e.before = "human_required" /\ e.after = "compensating"
         /\ e.step = s /\ e.undo
<1>1. << >> \in Seq(Nat) /\ "human_required" \in Statuses /\ "compensating" \in Statuses
  BY DEF Statuses, Verdicts
<1> QED BY <1>1
        DEF HumanResolution, WorkflowEvent, Shaped, Events, PlainKinds, UndoKinds, Kinds, Outcomes

LEMMA CompletedEvent ==
  ASSUME NEW j \in Seq(Entries(Tools)), NEW v \in Verdicts,
         NEW e, e = CompensationCompleted(j, v)
  PROVE  /\ Shaped(e) /\ e.kind = "compensation_completed"
         /\ e.before = "compensating" /\ e.after = "compensating" /\ e.outcome = v
         /\ DOMAIN e.undone = 1 .. Len(j)
         /\ \A n \in DOMAIN e.undone : \E k \in DOMAIN j : e.undone[n] = j[k].step
<1> DEFINE steps == [i \in DOMAIN j |-> j[i].step]
           u == SX!Reverse(steps)
<1>1. Len(j) \in Nat /\ DOMAIN j = 1 .. Len(j) /\ \A i \in DOMAIN j : j[i].step \in Nat
  <2>1. \A i \in DOMAIN j : j[i] \in Entries(Tools)
    OBVIOUS
  <2> QED BY <2>1 DEF Entries
<1>2. steps \in Seq(Nat) /\ Len(steps) = Len(j) /\ \A i \in DOMAIN j : steps[i] = j[i].step
  BY <1>1
<1>3. u = [i \in 1 .. Len(j) |-> steps[(Len(j) - i) + 1]]
  BY <1>2 DEF SX!Reverse
<1>4. \A i \in 1 .. Len(j) : (Len(j) - i) + 1 \in 1 .. Len(j)
  BY <1>1
<1>5. \A i \in 1 .. Len(j) : u[i] = j[(Len(j) - i) + 1].step
  BY <1>1, <1>2, <1>3, <1>4
<1>6. DOMAIN u = 1 .. Len(j) /\ \A n \in DOMAIN u : \E k \in DOMAIN j : u[n] = j[k].step
  BY <1>1, <1>3, <1>4, <1>5
<1>7. u \in Seq(Nat)
  <2>1. \A i \in 1 .. Len(j) : steps[(Len(j) - i) + 1] \in Nat
    BY <1>1, <1>2, <1>4
  <2> QED BY <1>1, <1>3, <2>1
<1>8. e.undone = u
  BY DEF CompensationCompleted, WorkflowEvent
<1> HIDE DEF u, steps
<1>9. Shaped(e) /\ e.kind = "compensation_completed"
      /\ e.before = "compensating" /\ e.after = "compensating" /\ e.outcome = v
  <2>1. e = [kind |-> "compensation_completed", before |-> "compensating",
             after |-> "compensating", step |-> 0, undo |-> FALSE, declared |-> "none",
             outcome |-> v, undone |-> u]
    BY DEF CompensationCompleted, WorkflowEvent, u, steps
  <2>2. "compensating" \in Statuses /\ v \in Outcomes /\ "compensation_completed" \in Kinds
    BY DEF Statuses, Outcomes, Kinds
  <2>3. e \in Events
    BY <1>7, <2>1, <2>2 DEF Events
  <2> QED BY <2>1, <2>3 DEF Shaped, PlainKinds, UndoKinds
<1> QED BY <1>6, <1>8, <1>9

----------------------------------------------------------------------------
(***************************************************************************)
(* What a history says of itself, and of the journal.                      *)
(***************************************************************************)

ValidHistory(es, cur) ==
  /\ es \in Seq(Events) /\ \A i \in DOMAIN es : Shaped(es[i])
  /\ StatusChain(es)
  /\ es # << >> => es[Len(es)].after = cur /\ es[1].kind = "started"

UndoReported(es, s) == \E i \in DOMAIN es : es[i].kind = "compensation_result" /\ es[i].step = s

Linked(es) ==
  \A i \in DOMAIN es : es[i].kind = "human_resolved" => UndoReported(es, es[i].step)

Evidenced(es, j) ==
  \A k \in DOMAIN j :
    /\ j[k].state = "succeeded" => Confirmed(es, j[k].step)
    /\ j[k].state = "unresolved" => UndoReported(es, j[k].step)

Obligations(j) == [i \in DOMAIN j |-> [step |-> j[i].step, state |-> j[i].state]]

History(es, cur, j) ==
  /\ ValidHistory(es, cur) /\ Linked(es) /\ Evidenced(es, j)
  /\ AuditOf(es) = Obligations(j)

\* An event that the audit reads.
Confirms(e) ==
  \/ e.kind = "forward_result" /\ OutcomeKind(e) = "effect_confirmed"
  \/ e.kind = "reconciliation_result" /\ ~e.undo /\ OutcomeKind(e) = "reconcile_effect_confirmed"

LEMMA Appended ==
  ASSUME NEW S, NEW es \in Seq(S), NEW e \in S, NEW q, q = Append(es, e)
  PROVE  /\ q \in Seq(S) /\ q # << >>
         /\ Len(es) \in Nat /\ Len(q) = Len(es) + 1
         /\ DOMAIN es = 1 .. Len(es) /\ DOMAIN q = 1 .. Len(es) + 1
         /\ \A i \in DOMAIN es : i \in DOMAIN q /\ q[i] = es[i]
         /\ q[Len(es) + 1] = e
         /\ \A i \in DOMAIN q : i \in DOMAIN es \/ i = Len(es) + 1
OBVIOUS

\* A history goes on from the status it has reached.
LEMMA ValidAppended ==
  ASSUME NEW es, NEW e, ValidHistory(es, e.before), Shaped(e),
         es # << >> \/ e.kind = "started"
  PROVE  ValidHistory(Append(es, e), e.after)
<1> DEFINE q == Append(es, e)
           n == Len(es)
<1>0. es \in Seq(Events) /\ e \in Events
  BY DEF ValidHistory, Shaped
<1>1. /\ q \in Seq(Events) /\ q # << >>
      /\ n \in Nat /\ Len(q) = n + 1
      /\ DOMAIN es = 1 .. n /\ DOMAIN q = 1 .. n + 1
      /\ \A i \in DOMAIN es : i \in DOMAIN q /\ q[i] = es[i]
      /\ q[n + 1] = e
      /\ \A i \in DOMAIN q : i \in DOMAIN es \/ i = n + 1
  BY <1>0, Appended
<1>2. es # << >> => n >= 1
  BY <1>0
<1>3. es = << >> => n = 0
  OBVIOUS
<1> HIDE DEF q, n
<1>4. \A i \in DOMAIN q : Shaped(q[i])
  BY <1>1 DEF ValidHistory
<1>5. StatusChain(q)
  <2> SUFFICES ASSUME NEW i \in 1 .. Len(q) - 1 PROVE q[i].after = q[i + 1].before
    BY DEF StatusChain
  <2>1. i \in 1 .. n
    BY <1>1
  <2>2. CASE i = n
    <3>1. es # << >> /\ q[i] = es[n] /\ q[i + 1] = e
      BY <1>1, <1>3, <2>1, <2>2
    <3> QED BY <3>1 DEF ValidHistory, n
  <2>3. CASE i # n
    <3>1. i \in 1 .. n - 1 /\ i + 1 \in 1 .. n
      BY <1>1, <2>1, <2>3
    <3>2. es[i].after = es[i + 1].before
      BY <3>1 DEF ValidHistory, StatusChain, n
    <3> QED BY <1>1, <2>1, <3>1, <3>2
  <2> QED BY <2>2, <2>3
<1>6. q[1].kind = "started"
  <2>1. CASE es = << >>
    BY <1>1, <1>3, <2>1
  <2>2. CASE es # << >>
    <3>1. q[1] = es[1]
      BY <1>1, <1>2, <2>2
    <3> QED BY <2>2, <3>1 DEF ValidHistory
  <2> QED BY <2>1, <2>2
<1>7. ValidHistory(q, e.after)
  BY <1>1, <1>4, <1>5, <1>6 DEF ValidHistory
<1> QED BY <1>7 DEF q

\* Evidence is never lost.
LEMMA EvidenceStays ==
  ASSUME NEW es \in Seq(Events), NEW e \in Events, NEW s
  PROVE  /\ UndoReported(es, s) => UndoReported(Append(es, e), s)
         /\ Confirmed(es, s) => Confirmed(Append(es, e), s)
<1> DEFINE q == Append(es, e)
<1>1. \A i \in DOMAIN es : i \in DOMAIN q /\ q[i] = es[i]
  BY Appended
<1> HIDE DEF q
<1>2. UndoReported(es, s) => UndoReported(q, s)
  BY <1>1 DEF UndoReported
<1>3. \A i \in DOMAIN es : HumanResolved(es, i) => HumanResolved(q, i)
  BY <1>1 DEF HumanResolved
<1>4. Confirmed(es, s) => Confirmed(q, s)
  BY <1>1, <1>3 DEF Confirmed
<1> QED BY <1>2, <1>4 DEF q

LEMMA LinksStay ==
  ASSUME NEW es \in Seq(Events), NEW e \in Events, Linked(es),
         e.kind = "human_resolved" => UndoReported(es, e.step)
  PROVE  Linked(Append(es, e))
<1> DEFINE q == Append(es, e)
<1>1. /\ \A i \in DOMAIN q : i \in DOMAIN es \/ i = Len(es) + 1
      /\ \A i \in DOMAIN es : q[i] = es[i]
      /\ q[Len(es) + 1] = e
  BY Appended
<1>2. \A s : UndoReported(es, s) => UndoReported(q, s)
  BY EvidenceStays
<1> HIDE DEF q
<1>3. Linked(q)
  BY <1>1, <1>2 DEF Linked
<1> QED BY <1>3 DEF q

(***************************************************************************)
(* An event that leaves the obligations alone.                             *)
(***************************************************************************)
LEMMA PassingEvent ==
  ASSUME NEW es, NEW j, NEW e, History(es, e.before, j), Shaped(e),
         es # << >> \/ e.kind = "started",
         e.kind \notin UndoKinds, ~Confirms(e)
  PROVE  History(Append(es, e), e.after, j)
<1>1. ValidHistory(Append(es, e), e.after)
  BY ValidAppended DEF History
<1>2. es \in Seq(Events) /\ e \in Events
  BY DEF History, ValidHistory, Shaped
<1>3. Linked(Append(es, e))
  BY <1>2, LinksStay DEF History, UndoKinds
<1>4. Evidenced(Append(es, e), j)
  BY <1>2, EvidenceStays DEF History, Evidenced
<1>5. AuditOf(Append(es, e)) = Audited(AuditOf(es), e)
  BY <1>2, AuditOfAppended
<1>6. Audited(AuditOf(es), e) = AuditOf(es)
  BY DEF Audited, Confirms, UndoKinds
<1> QED BY <1>1, <1>3, <1>4, <1>5, <1>6 DEF History

(***************************************************************************)
(* An event that confirms an effect becomes an obligation.                 *)
(***************************************************************************)
LEMMA ConfirmingEvent ==
  ASSUME NEW es, es # << >>, NEW j \in Seq(Entries(Tools)), NEW t \in Tools, NEW e,
         History(es, e.before, j), Shaped(e), Confirms(e),
         \A i \in DOMAIN j : j[i].step < e.step
  PROVE  History(Append(es, e), e.after, RecordForward(j, e.step, t))
<1> DEFINE q == RecordForward(j, e.step, t)
<1>1. ValidHistory(Append(es, e), e.after)
  BY ValidAppended DEF History
<1>2. es \in Seq(Events) /\ e \in Events /\ e.step \in Nat
  BY DEF History, ValidHistory, Shaped, Events
<1>3. Linked(Append(es, e))
  BY <1>2, LinksStay DEF History, Confirms
<1>4. /\ Len(q) = Len(j) + 1
      /\ DOMAIN q = 1 .. Len(j) + 1 /\ DOMAIN j = 1 .. Len(j) /\ Len(j) \in Nat
      /\ \A i \in DOMAIN j : q[i] = j[i]
      /\ q[Len(j) + 1] = [step |-> e.step, tool |-> t, state |-> "pending"]
  BY <1>2, Recording
<1> HIDE DEF q
<1>5. \A i \in DOMAIN q : i \in DOMAIN j \/ i = Len(j) + 1
  BY <1>4
<1>6. Evidenced(Append(es, e), q)
  BY <1>2, <1>4, <1>5, EvidenceStays DEF History, Evidenced
<1>7. AuditOf(Append(es, e)) = Audited(Obligations(j), e)
  BY <1>2, AuditOfAppended DEF History
<1>8. Audited(Obligations(j), e) = Append(Obligations(j), [step |-> e.step, state |-> "pending"])
  BY DEF Audited, Confirms
<1>9. Append(Obligations(j), [step |-> e.step, state |-> "pending"]) = Obligations(q)
  BY <1>4, <1>5 DEF Obligations
<1> QED BY <1>1, <1>3, <1>6, <1>7, <1>8, <1>9 DEF History, q

(***************************************************************************)
(* An event about an undo moves the entry that it names.                   *)
(***************************************************************************)
\* The audit moves the entry that an undo names, as the journal does.
LEMMA AuditOfMark ==
  ASSUME NEW j \in Seq(Entries(Tools)), NEW e, e.kind \in UndoKinds, NEW st \in EntryStates,
         st = IF e.kind = "human_resolved" \/ e.outcome = "succeeded"
                THEN "succeeded" ELSE "unresolved"
  PROVE  Audited(Obligations(j), e) = Obligations(Mark(j, e.step, st))
<1> DEFINE p == Obligations(j)
           q == Mark(j, e.step, st)
<1>1. \A i \in DOMAIN j : j[i] \in Entries(Tools)
  OBVIOUS
<1>2. DOMAIN p = DOMAIN j
      /\ \A i \in DOMAIN j : p[i] = [step |-> j[i].step, state |-> j[i].state]
  BY DEF Obligations
<1>3. DOMAIN q = DOMAIN j
      /\ \A i \in DOMAIN j : q[i] = IF j[i].step = e.step THEN [j[i] EXCEPT !.state = st] ELSE j[i]
  BY DEF Mark
<1> HIDE DEF p, q
<1>4. Audited(p, e) = [i \in DOMAIN p |->
                        IF p[i].step # e.step THEN p[i] ELSE [p[i] EXCEPT !.state = st]]
  BY DEF Audited, UndoKinds
<1>5. ASSUME NEW i \in DOMAIN j
      PROVE  (IF p[i].step # e.step THEN p[i] ELSE [p[i] EXCEPT !.state = st])
               = [step |-> q[i].step, state |-> q[i].state]
  BY <1>1, <1>2, <1>3 DEF Entries
<1>6. Audited(p, e) = [i \in DOMAIN j |-> [step |-> q[i].step, state |-> q[i].state]]
  BY <1>2, <1>4, <1>5
<1>7. Audited(p, e) = Obligations(q)
  BY <1>3, <1>6 DEF Obligations
<1> QED BY <1>7 DEF p, q

LEMMA UndoEvent ==
  ASSUME NEW es, es # << >>, NEW j \in Seq(Entries(Tools)), Increasing(j),
         NEW i \in DOMAIN j, NEW e, History(es, e.before, j), Shaped(e),
         e.kind \in UndoKinds, e.step = j[i].step,
         e.kind = "human_resolved" => j[i].state = "unresolved",
         NEW st \in EntryStates,
         st = IF e.kind = "human_resolved" \/ e.outcome = "succeeded"
                THEN "succeeded" ELSE "unresolved"
  PROVE  History(Append(es, e), e.after, Mark(j, e.step, st))
<1> DEFINE q == Mark(j, e.step, st)
           fs == Append(es, e)
<1>1. ValidHistory(fs, e.after)
  BY ValidAppended DEF History
<1>2. es \in Seq(Events) /\ e \in Events
  BY DEF History, ValidHistory, Shaped
<1>3. Linked(fs)
  BY <1>2, LinksStay DEF History, Evidenced
<1>4. /\ DOMAIN q = DOMAIN j /\ q[i].state = st
      /\ \A k \in DOMAIN j : q[k].step = j[k].step
      /\ \A k \in DOMAIN j : k # i => q[k] = j[k]
  BY Marking
<1>5. /\ Len(es) + 1 \in DOMAIN fs /\ fs[Len(es) + 1] = e
      /\ Len(es) \in Nat /\ DOMAIN es = 1 .. Len(es)
      /\ \A k \in DOMAIN es : k \in DOMAIN fs /\ fs[k] = es[k]
  BY <1>2, Appended
<1>6. \A s : /\ UndoReported(es, s) => UndoReported(fs, s)
             /\ Confirmed(es, s) => Confirmed(fs, s)
  BY <1>2, EvidenceStays
<1>7. AuditOf(fs) = Obligations(q)
  <2>1. AuditOf(fs) = Audited(Obligations(j), e)
    BY <1>2, AuditOfAppended DEF History
  <2> QED BY <2>1, AuditOfMark
<1> HIDE DEF q, fs
<1>8. e.kind = "compensation_result" => UndoReported(fs, e.step)
  BY <1>5 DEF UndoReported
<1>9. st = "succeeded" => Confirmed(fs, e.step)
  <2>1. CASE e.kind = "compensation_result" /\ e.outcome = "succeeded"
    <3>1. /\ Direction(e) = "compensation" /\ CompensatesOperationId(e).step = e.step
          /\ OutcomeKind(e) = "effect_confirmed"
      BY <2>1 DEF Shaped, UndoKinds, Direction, CompensatesOperationId, OutcomeKind
    <3> QED BY <1>5, <3>1 DEF Confirmed
  <2>2. CASE e.kind = "human_resolved"
    <3>1. UndoReported(es, e.step)
      BY <2>2 DEF History, Evidenced
    <3>2. PICK k \in DOMAIN es : es[k].kind = "compensation_result" /\ es[k].step = e.step
      BY <3>1 DEF UndoReported
    <3>3. Shaped(es[k]) /\ es[k].undo /\ e.undo
      BY <2>2, <3>2 DEF History, ValidHistory, Shaped, UndoKinds
    <3>4. Direction(es[k]) = "compensation" /\ CompensatesOperationId(es[k]).step = e.step
      BY <3>2, <3>3 DEF Direction, CompensatesOperationId
    <3>5. OperationId(e) = OperationId(es[k])
      BY <2>2, <3>2, <3>3 DEF OperationId
    <3>6. k \in DOMAIN fs /\ fs[k] = es[k] /\ Len(es) + 1 > k
      BY <1>5
    <3>7. HumanResolved(fs, k)
      BY <1>5, <2>2, <3>5, <3>6 DEF HumanResolved
    <3> QED BY <3>4, <3>6, <3>7 DEF Confirmed
  <2> QED BY <2>1, <2>2 DEF UndoKinds
<1>10. st = "unresolved" => e.kind = "compensation_result"
  BY DEF UndoKinds
<1>11. Evidenced(fs, q)
  <2> SUFFICES ASSUME NEW k \in DOMAIN q
               PROVE  /\ q[k].state = "succeeded" => Confirmed(fs, q[k].step)
                      /\ q[k].state = "unresolved" => UndoReported(fs, q[k].step)
    BY DEF Evidenced
  <2>1. CASE k = i
    BY <1>4, <1>8, <1>9, <1>10, <2>1
  <2>2. CASE k # i
    BY <1>4, <1>6, <2>2 DEF History, Evidenced
  <2> QED BY <2>1, <2>2
<1>12. History(fs, e.after, q)
  BY <1>1, <1>3, <1>7, <1>11 DEF History
<1> QED BY <1>12 DEF fs, q

----------------------------------------------------------------------------
(***************************************************************************)
(* How a continuation carries the history to the end of an activation.     *)
(***************************************************************************)

(***************************************************************************)
(* How far a history has come: what its proofs say, and whether an unwind  *)
(* has been reported as finished.                                          *)
(***************************************************************************)
SomeProof(es) == \E i \in DOMAIN es : IsProof(es[i])
ProofsHold(es) == \A i \in DOMAIN es : IsProof(es[i]) => es[i].outcome = "succeeded"

IsCompleted(e) == e.kind = "compensation_completed"
NoneCompleted(es) == \A i \in DOMAIN es : ~IsCompleted(es[i])

Concluded(es, cur, j) ==
  /\ \A i \in DOMAIN es : IsCompleted(es[i]) =>
       /\ es[i].outcome = cur /\ es[i].undone # << >>
       /\ \A n \in DOMAIN es[i].undone :
            \E k \in DOMAIN j : es[i].undone[n] = j[k].step /\ j[k].state = "succeeded"
  /\ cur = "compensated_verified" => \E i \in DOMAIN es : IsCompleted(es[i])

Upright == {"running", "succeeded_verified"}

\* A history in the middle of an activation, n events long.
Ledger(es, cur, j, n, p) ==
  /\ es # << >> /\ Len(es) = n
  /\ History(es, cur, j) /\ NoneCompleted(es)
  /\ p => SomeProof(es)

\* The history at its end.
Result(es, j, p) ==
  /\ Len(es) = eventCount' /\ es # << >>
  /\ History(es, status', j) /\ Concluded(es, status', j)
  /\ pc' # "closed" => NoneCompleted(es)
  /\ status' \in Upright => ProofsHold(es)
  /\ p => SomeProof(es)
  /\ status' = "succeeded_verified" /\ Proofs # {} => SomeProof(es)

LEMMA Concatenations ==
  ASSUME NEW S, NEW es \in Seq(S)
  PROVE  /\ es \o << >> = es
         /\ \A a \in S : es \o <<a>> = Append(es, a)
         /\ \A a, b \in S : es \o <<a, b>> = Append(Append(es, a), b)
OBVIOUS

LEMMA Prefixed ==
  ASSUME NEW S, NEW es \in Seq(S), NEW a \in S, NEW c \in Seq(S)
  PROVE  <<a>> \o c \in Seq(S) /\ es \o (<<a>> \o c) = Append(es, a) \o c
<1>1. <<a>> \in Seq(S)
  OBVIOUS
<1>2. <<a>> \o c \in Seq(S)
  BY <1>1, ConcatProperties
<1>3. (es \o <<a>>) \o c = es \o (<<a>> \o c)
  BY <1>1, ConcatAssociative
<1>4. es \o <<a>> = Append(es, a)
  OBVIOUS
<1> QED BY <1>2, <1>3, <1>4

LEMMA HistoryAppended ==
  ASSUME NEW es \in Seq(Events), NEW e \in Events
  PROVE  /\ Append(es, e) # << >> /\ Len(Append(es, e)) = Len(es) + 1
         /\ SomeProof(es) \/ IsProof(e) => SomeProof(Append(es, e))
         /\ ProofsHold(es) /\ (IsProof(e) => e.outcome = "succeeded")
              => ProofsHold(Append(es, e))
         /\ NoneCompleted(es) /\ ~IsCompleted(e) => NoneCompleted(Append(es, e))
<1> DEFINE q == Append(es, e)
<1>1. /\ q # << >> /\ Len(q) = Len(es) + 1
      /\ \A i \in DOMAIN es : i \in DOMAIN q /\ q[i] = es[i]
      /\ q[Len(es) + 1] = e /\ Len(es) + 1 \in DOMAIN q
      /\ \A i \in DOMAIN q : i \in DOMAIN es \/ i = Len(es) + 1
  BY Appended
<1> HIDE DEF q
<1>2. SomeProof(es) \/ IsProof(e) => SomeProof(q)
  BY <1>1 DEF SomeProof
<1>3. ProofsHold(es) /\ (IsProof(e) => e.outcome = "succeeded") => ProofsHold(q)
  BY <1>1 DEF ProofsHold
<1>4. NoneCompleted(es) /\ ~IsCompleted(e) => NoneCompleted(q)
  BY <1>1 DEF NoneCompleted
<1> QED BY <1>1, <1>2, <1>3, <1>4 DEF q

\* A plain event in the middle of an activation.
LEMMA PlainStep ==
  ASSUME NEW es, NEW j, NEW n \in Nat, NEW p, NEW e,
         Ledger(es, e.before, j, n, p), Shaped(e), e.kind \in PlainKinds
  PROVE  /\ Ledger(Append(es, e), e.after, j, n + 1, p)
         /\ ProofsHold(es) => ProofsHold(Append(es, e))
         /\ SomeProof(es) => SomeProof(Append(es, e))
<1>1. es \in Seq(Events) /\ e \in Events
  BY DEF Ledger, History, ValidHistory, Shaped
<1>2. History(Append(es, e), e.after, j)
  BY PassingEvent DEF Ledger, PlainKinds, UndoKinds, Confirms
<1>3. ~IsProof(e) /\ ~IsCompleted(e)
  BY DEF PlainKinds, IsProof, IsCompleted
<1> QED BY <1>1, <1>2, <1>3, HistoryAppended DEF Ledger

(***************************************************************************)
(* The events of the continuations.                                        *)
(***************************************************************************)
\* The unwind goes on in silence, or ends with its report.
LEMMA EndPublished ==
  ASSUME TypeOK, NEW j \in Seq(Entries(Tools)), j # << >>, UnresolvedAt(j) = {},
         NEW v \in Verdicts, NEW n \in Nat, NEW p, NEW es,
         Ledger(es, "compensating", j, eventCount + n, p),
         NEW b, b = FALSE, Advance(j, b, v, n)
  PROVE  EndEvents(j, v) \in Seq(Events) /\ Result(es \o EndEvents(j, v), j, p)
<1>0. es \in Seq(Events) /\ eventCount \in Nat
  BY DEF Ledger, History, ValidHistory, TypeOK
<1>1. CASE \E i \in DOMAIN j : NextRequest(j, b, i)
  <2>1. EndEvents(j, v) = << >>
    BY <1>1 DEF EndEvents
  <2>2. pc' = "compensating" /\ status' = "compensating" /\ eventCount' = eventCount + n
    BY <1>1 DEF Advance
  <2>3. es \o EndEvents(j, v) = es
    BY <1>0, <2>1, Concatenations
  <2>4. Concluded(es, "compensating", j)
    BY DEF Ledger, NoneCompleted, Concluded
  <2>5. Result(es, j, p)
    BY <2>2, <2>4 DEF Ledger, Result, Upright
  <2> QED BY <2>1, <2>3, <2>5
<1>2. CASE \A i \in DOMAIN j : ~NextRequest(j, b, i)
  <2> DEFINE c == CompensationCompleted(j, v)
             s == StatusChanged("compensating", v)
             q == Append(Append(es, c), s)
  <2>1. EndEvents(j, v) = <<c, s>>
    BY <1>2 DEF EndEvents
  <2>2. pc' = "closed" /\ status' = v /\ eventCount' = eventCount + (n + 2)
    BY <1>2 DEF Advance, Close
  <2>3. \A k \in DOMAIN j : j[k].state = "succeeded"
    <3>1. PendingAt(j) = {}
      BY <1>2, FrontierExists DEF NextRequest
    <3>2. \A k \in DOMAIN j : j[k] \in Entries(Tools)
      OBVIOUS
    <3> QED BY <3>1, <3>2 DEF PendingAt, UnresolvedAt, Entries, EntryStates
  <2>4. /\ Shaped(c) /\ c.kind = "compensation_completed"
        /\ c.before = "compensating" /\ c.after = "compensating" /\ c.outcome = v
        /\ DOMAIN c.undone = 1 .. Len(j)
        /\ \A m \in DOMAIN c.undone : \E k \in DOMAIN j : c.undone[m] = j[k].step
    BY CompletedEvent
  <2>5. Shaped(s) /\ s.kind = "status_changed" /\ s.before = "compensating" /\ s.after = v
    BY StatusEvent DEF Statuses
  <2> HIDE DEF c, s
  <2>6. c \in Events /\ s \in Events
    BY <2>4, <2>5 DEF Shaped
  <2>7. es \o EndEvents(j, v) = q /\ EndEvents(j, v) \in Seq(Events)
    BY <1>0, <2>1, <2>6, Concatenations
  <2>8. History(Append(es, c), "compensating", j)
    BY <2>4, PassingEvent DEF Ledger, UndoKinds, Confirms
  <2>9. /\ Append(es, c) \in Seq(Events) /\ Append(es, c) # << >>
        /\ Len(Append(es, c)) = Len(es) + 1
        /\ \A i \in DOMAIN Append(es, c) : i \in DOMAIN es \/ i = Len(es) + 1
        /\ \A i \in DOMAIN es : Append(es, c)[i] = es[i]
        /\ Append(es, c)[Len(es) + 1] = c /\ Len(es) + 1 \in DOMAIN Append(es, c)
        /\ p => SomeProof(Append(es, c))
    BY <1>0, <2>6, Appended, HistoryAppended DEF Ledger
  <2>10. History(q, v, j)
    BY <2>5, <2>8, <2>9, PassingEvent DEF UndoKinds, Confirms
  <2>11. /\ q # << >> /\ Len(q) = Len(Append(es, c)) + 1
         /\ \A i \in DOMAIN q : i \in DOMAIN Append(es, c) \/ q[i] = s
         /\ \A i \in DOMAIN Append(es, c) : i \in DOMAIN q /\ q[i] = Append(es, c)[i]
         /\ p => SomeProof(q)
    <3>1. SomeProof(Append(es, c)) => SomeProof(q)
      BY <2>6, <2>9, HistoryAppended
    <3> DEFINE r == Append(es, c)
    <3>2. r \in Seq(Events) /\ q = Append(r, s)
      BY <2>9
    <3> HIDE DEF r, q
    <3>3. /\ q # << >> /\ Len(q) = Len(r) + 1
          /\ \A i \in DOMAIN q : i \in DOMAIN r \/ q[i] = s
          /\ \A i \in DOMAIN r : i \in DOMAIN q /\ q[i] = r[i]
      BY <2>6, <3>2, Appended
    <3> QED BY <2>9, <3>1, <3>3 DEF r
  <2> HIDE DEF q
  <2>12. c.undone # << >>
    BY <2>4
  <2>13. Concluded(q, v, j)
    <3>1. \A i \in DOMAIN q : IsCompleted(q[i]) => q[i] = c
      BY <2>5, <2>9, <2>11 DEF IsCompleted, Ledger, NoneCompleted
    <3>2. \E i \in DOMAIN q : IsCompleted(q[i])
      BY <2>4, <2>9, <2>11 DEF IsCompleted
    <3> QED BY <2>3, <2>4, <2>12, <3>1, <3>2 DEF Concluded
  <2>14. Len(q) = eventCount'
    <3>1. Len(es) = eventCount + n
      BY DEF Ledger
    <3> QED BY <1>0, <2>2, <2>9, <2>11, <3>1
  <2>15. v \notin Upright
    BY DEF Verdicts, Upright
  <2>16. Result(q, j, p)
    BY <2>2, <2>10, <2>11, <2>13, <2>14, <2>15 DEF Result, Upright
  <2> QED BY <2>7, <2>16
<1> QED BY <1>1, <1>2

LEMMA ClosePublished ==
  ASSUME TypeOK, NEW j, NEW n \in Nat, NEW p, NEW es,
         Ledger(es, status, j, eventCount + n, p),
         NEW v \in {"human_required", "aborted_clean", "succeeded_verified"}, Close(v, n + 1),
         v = "succeeded_verified" => ProofsHold(es) /\ (Proofs # {} => SomeProof(es))
  PROVE  /\ <<StatusChanged(status, v)>> \in Seq(Events)
         /\ Result(es \o <<StatusChanged(status, v)>>, j, p)
<1> DEFINE s == StatusChanged(status, v)
           q == Append(es, s)
<1>0. es \in Seq(Events) /\ eventCount \in Nat
  BY DEF Ledger, History, ValidHistory, TypeOK
<1>1. Shaped(s) /\ s.kind \in PlainKinds /\ s.before = status /\ s.after = v
  BY StatusEvent DEF TypeOK, Statuses, Verdicts, PlainKinds
<1> HIDE DEF s
<1>2. s \in Events
  BY <1>1 DEF Shaped
<1>3. <<s>> \in Seq(Events) /\ es \o <<s>> = q
  BY <1>0, <1>2, Concatenations
<1>4. /\ Ledger(q, v, j, eventCount + n + 1, p)
      /\ ProofsHold(es) => ProofsHold(q)
      /\ SomeProof(es) => SomeProof(q)
  <2>1. eventCount + n \in Nat
    BY <1>0
  <2> QED BY <1>1, <2>1, PlainStep
<1> HIDE DEF q
<1>5. pc' = "closed" /\ status' = v /\ eventCount' = eventCount + n + 1
  BY <1>0 DEF Close
<1>6. Concluded(q, v, j)
  BY <1>4 DEF Ledger, NoneCompleted, Concluded
<1>7. Result(q, j, p)
  BY <1>4, <1>5, <1>6 DEF Ledger, Result, Upright
<1> QED BY <1>3, <1>7 DEF s, q

LEMMA UnwindPublished ==
  ASSUME TypeOK, blocked = FALSE, NEW j \in Seq(Entries(Tools)), j # << >>,
         UnresolvedAt(j) = {}, NEW v \in Verdicts, NEW n \in Nat, NEW p, NEW es,
         Ledger(es, status, j, eventCount + n, p), Unwind(j, v, n)
  PROVE  UnwindEvents(j, v) \in Seq(Events) /\ Result(es \o UnwindEvents(j, v), j, p)
<1> DEFINE s == StatusChanged(status, "compensating")
           q == Append(es, s)
<1>0. es \in Seq(Events) /\ eventCount \in Nat /\ n + 1 \in Nat /\ eventCount + n \in Nat
      /\ eventCount + n + 1 = eventCount + (n + 1)
  BY DEF Ledger, History, ValidHistory, TypeOK
<1>1. Shaped(s) /\ s.kind \in PlainKinds /\ s.before = status /\ s.after = "compensating"
  BY StatusEvent DEF TypeOK, Statuses, Verdicts, PlainKinds
<1>2. UnwindEvents(j, v) = <<s>> \o EndEvents(j, v)
  BY DEF UnwindEvents
<1> HIDE DEF s
<1>3. Ledger(q, "compensating", j, eventCount + (n + 1), p)
  BY <1>0, <1>1, PlainStep
<1>4. s \in Events
  BY <1>1 DEF Shaped
<1>5. Advance(j, blocked, v, n + 1)
  BY DEF Unwind
<1>6. EndEvents(j, v) \in Seq(Events) /\ Result(q \o EndEvents(j, v), j, p)
  BY <1>0, <1>3, <1>5, EndPublished
<1>7. UnwindEvents(j, v) \in Seq(Events)
      /\ es \o UnwindEvents(j, v) = q \o EndEvents(j, v)
  <2> DEFINE c == EndEvents(j, v)
  <2>1. es \in Seq(Events) /\ s \in Events /\ c \in Seq(Events)
    BY <1>0, <1>4, <1>6
  <2> HIDE DEF c
  <2>2. <<s>> \o c \in Seq(Events) /\ es \o (<<s>> \o c) = Append(es, s) \o c
    BY <2>1, Prefixed
  <2> QED BY <1>2, <2>2 DEF c
<1> QED BY <1>6, <1>7

LEMMA StopPublished ==
  ASSUME TypeOK, blocked = FALSE, NEW j \in Seq(Entries(Tools)), UnresolvedAt(j) = {},
         NEW n \in Nat, NEW p, NEW es,
         Ledger(es, status, j, eventCount + n, p), Stop(j, n)
  PROVE  StopEvents(j) \in Seq(Events) /\ Result(es \o StopEvents(j), j, p)
<1>1. CASE j = << >>
  <2>1. Close("human_required", n + 1) /\ StopEvents(j) = <<StatusChanged(status, "human_required")>>
    BY <1>1 DEF Stop, StopEvents
  <2> QED BY <2>1, ClosePublished
<1>2. CASE j # << >>
  <2> DEFINE s == WorkflowEvent("guard_rejected", status, status)
             u == UnwindEvents(j, "compensated_verified")
  <2>0. es \in Seq(Events) /\ eventCount \in Nat /\ n + 1 \in Nat /\ eventCount + n \in Nat
        /\ eventCount + n + 1 = eventCount + (n + 1)
    BY DEF Ledger, History, ValidHistory, TypeOK
  <2>1. Shaped(s) /\ s.kind \in PlainKinds /\ s.before = status /\ s.after = status
    BY PlainEvent DEF TypeOK, PlainKinds
  <2>2. StopEvents(j) = <<s>> \o u /\ Unwind(j, "compensated_verified", n + 1)
    BY <1>2 DEF Stop, StopEvents
  <2> HIDE DEF s
  <2>3. Ledger(Append(es, s), status, j, eventCount + (n + 1), p)
    BY <2>0, <2>1, PlainStep
  <2>4. u \in Seq(Events) /\ Result(Append(es, s) \o u, j, p)
    BY <1>2, <2>0, <2>2, <2>3, UnwindPublished DEF Verdicts
  <2>5. s \in Events
    BY <2>1 DEF Shaped
  <2> HIDE DEF u
  <2>6. StopEvents(j) \in Seq(Events) /\ es \o StopEvents(j) = Append(es, s) \o u
    <3>1. <<s>> \o u \in Seq(Events) /\ es \o (<<s>> \o u) = Append(es, s) \o u
      <4>1. es \in Seq(Events) /\ u \in Seq(Events)
        BY <2>0, <2>4
      <4> QED BY ONLY <2>5, <4>1, Prefixed
    <3> QED BY <2>2, <3>1
  <2> QED BY <2>4, <2>6
<1> QED BY <1>1, <1>2

LEMMA FailurePublished ==
  ASSUME TypeOK, blocked = FALSE, NEW j \in Seq(Entries(Tools)), UnresolvedAt(j) = {},
         NEW n \in Nat, NEW p, NEW es,
         Ledger(es, status, j, eventCount + n, p), HandleForwardFailure(j, n)
  PROVE  FailureEvents(j) \in Seq(Events) /\ Result(es \o FailureEvents(j), j, p)
<1>1. CASE j = << >>
  <2>1. Close("aborted_clean", n + 1) /\ FailureEvents(j) = <<StatusChanged(status, "aborted_clean")>>
    BY <1>1 DEF HandleForwardFailure, FailureEvents
  <2> QED BY <2>1, ClosePublished
<1>2. CASE j # << >>
  <2>1. Unwind(j, "compensated_verified", n) /\ FailureEvents(j) = UnwindEvents(j, "compensated_verified")
    BY <1>2 DEF HandleForwardFailure, FailureEvents
  <2> QED BY <1>2, <2>1, UnwindPublished DEF Verdicts
<1> QED BY <1>1, <1>2

LEMMA BeforeHumanPublished ==
  ASSUME TypeOK, blocked = FALSE, NEW j \in Seq(Entries(Tools)), UnresolvedAt(j) = {},
         NEW n \in Nat, NEW p, NEW es,
         Ledger(es, status, j, eventCount + n, p), UnwindBeforeHuman(j, n)
  PROVE  BeforeHumanEvents(j) \in Seq(Events) /\ Result(es \o BeforeHumanEvents(j), j, p)
<1>1. CASE j = << >>
  <2>1. Close("human_required", n + 1)
        /\ BeforeHumanEvents(j) = <<StatusChanged(status, "human_required")>>
    BY <1>1 DEF UnwindBeforeHuman, BeforeHumanEvents
  <2> QED BY <2>1, ClosePublished
<1>2. CASE j # << >>
  <2>1. Unwind(j, "human_required", n) /\ BeforeHumanEvents(j) = UnwindEvents(j, "human_required")
    BY <1>2 DEF UnwindBeforeHuman, BeforeHumanEvents
  <2> QED BY <1>2, <2>1, UnwindPublished DEF Verdicts
<1> QED BY <1>1, <1>2

LEMMA TurnPublished ==
  ASSUME TypeOK, blocked = FALSE, status = "running",
         NEW j \in Seq(Entries(Tools)), UnresolvedAt(j) = {},
         NEW n \in Nat, NEW p, NEW es,
         Ledger(es, status, j, eventCount + n, p), ProofsHold(es), NextTurn(j, n)
  PROVE  TurnEvents(j) \in Seq(Events) /\ Result(es \o TurnEvents(j), j, p)
<1>1. CASE agentCalls < MaxAgentTurns
  <2>1. /\ TurnEvents(j) = << >>
        /\ pc' = "deciding" /\ status' = status /\ eventCount' = eventCount + n
    BY <1>1 DEF NextTurn, TurnEvents
  <2>2. es \in Seq(Events) /\ es \o << >> = es
    BY Concatenations DEF Ledger, History, ValidHistory
  <2>3. Concluded(es, status, j)
    BY DEF Ledger, NoneCompleted, Concluded
  <2>4. Result(es, j, p)
    BY <2>1, <2>3 DEF Ledger, Result
  <2> QED BY <2>1, <2>2, <2>4
<1>2. CASE ~(agentCalls < MaxAgentTurns)
  <2>1. Stop(j, n) /\ TurnEvents(j) = StopEvents(j)
    BY <1>2 DEF NextTurn, TurnEvents
  <2> QED BY <2>1, StopPublished
<1> QED BY <1>1, <1>2

----------------------------------------------------------------------------
(***************************************************************************)
(* The invariant, and the forward actions.                                 *)
(***************************************************************************)

LInv ==
  /\ Len(events) = eventCount
  /\ History(events, status, journal) /\ Concluded(events, status, journal)
  /\ pc # "closed" => NoneCompleted(events)
  /\ status \in Upright => ProofsHold(events)
  /\ freshProofs # {} => SomeProof(events)
  /\ status = "succeeded_verified" /\ Proofs # {} => SomeProof(events)

LEMMA ResultSuffices ==
  ASSUME Result(events', journal', freshProofs' # {})
  PROVE  LInv'
BY DEF Result, LInv

\* What a forward turn finds.
LEMMA ForwardFacts ==
  ASSUME IInv, LInv, pc \in ForwardPcs, pc # "created"
  PROVE  /\ TypeOK /\ blocked = FALSE /\ status = "running"
         /\ journal \in Seq(Entries(Tools)) /\ UnresolvedAt(journal) = {}
         /\ eventCount \in Nat /\ step \in Nat
         /\ events \in Seq(Events)
         /\ Ledger(events, status, journal, eventCount, freshProofs # {})
         /\ ProofsHold(events)
<1>1. /\ TypeOK /\ blocked = FALSE /\ status = "running"
      /\ journal \in Seq(Entries(Tools)) /\ UnresolvedAt(journal) = {}
      /\ eventCount \in Nat /\ step \in Nat /\ eventCount > 0
  BY RunningFacts DEF IInv, TypeOK, PlaceInv
<1>2. events \in Seq(Events) /\ events # << >>
  BY <1>1 DEF LInv, History, ValidHistory
<1>3. pc # "closed" /\ status \in Upright
  BY <1>1 DEF ForwardPcs, Upright
<1> QED BY <1>1, <1>2, <1>3 DEF LInv, Ledger

LEMMA AgentEvent ==
  ASSUME status \in Statuses
  PROVE  /\ Shaped(AgentDecision) /\ AgentDecision \in Events
         /\ AgentDecision.kind \in PlainKinds
         /\ AgentDecision.before = status /\ AgentDecision.after = status
<1>1. Shaped(AgentDecision) /\ AgentDecision.kind \in PlainKinds
      /\ AgentDecision.before = status /\ AgentDecision.after = status
  BY PlainEvent DEF AgentDecision, PlainKinds
<1> QED BY <1>1 DEF Shaped

\* Every action, with the events it publishes.
LEMMA StartPublishes ==
  ASSUME IInv, LInv, Start,
         Publish(<<WorkflowEvent("started", "running", "running")>> \o TurnEvents(journal))
  PROVE  LInv'
<1> DEFINE e == WorkflowEvent("started", "running", "running")
           p == freshProofs # {}
<1>1. /\ pc \in ForwardPcs /\ journal' = journal /\ freshProofs' = freshProofs
      /\ NextTurn(journal, 1)
  BY DEF Start, ForwardPcs, book, evidence
<1>2. /\ TypeOK /\ blocked = FALSE /\ status = "running"
      /\ journal \in Seq(Entries(Tools)) /\ UnresolvedAt(journal) = {}
      /\ eventCount = 0
  BY <1>1, RunningFacts DEF IInv, TypeOK, PlaceInv, Start
<1>3. events \in Seq(Events) /\ events = << >>
  BY <1>2 DEF LInv, History, ValidHistory
<1>4. Shaped(e) /\ e.kind = "started" /\ e.before = "running" /\ e.after = "running"
  BY PlainEvent DEF PlainKinds, Statuses, Verdicts
<1> HIDE DEF e, p
<1>5. e \in Events /\ ~IsProof(e) /\ ~IsCompleted(e)
  BY <1>4 DEF Shaped, IsProof, IsCompleted
<1>6. History(Append(events, e), "running", journal)
  BY <1>2, <1>4, PassingEvent DEF LInv, UndoKinds, Confirms
<1>7. /\ ProofsHold(events) /\ NoneCompleted(events) /\ ~SomeProof(events) /\ Len(events) = 0
      /\ ~p
  BY <1>3 DEF ProofsHold, NoneCompleted, SomeProof, LInv, p
<1>8. /\ Ledger(Append(events, e), status, journal, eventCount + 1, p)
      /\ ProofsHold(Append(events, e))
  BY <1>2, <1>3, <1>5, <1>6, <1>7, HistoryAppended DEF Ledger
<1>9. /\ TurnEvents(journal) \in Seq(Events)
      /\ Result(Append(events, e) \o TurnEvents(journal), journal, p)
  BY <1>1, <1>2, <1>8, TurnPublished
<1>10. events' = Append(events, e) \o TurnEvents(journal)
  BY <1>3, <1>5, <1>9, Prefixed DEF Publish, e
<1> QED BY <1>1, <1>9, <1>10, ResultSuffices DEF p

LEMMA StopPublishes ==
  ASSUME IInv, LInv,
         \/ DecisionFails /\ Publish(StopEvents(journal))
         \/ ProposalRejected /\ Publish(<<AgentDecision>> \o StopEvents(journal))
  PROVE  LInv'
<1> DEFINE p == freshProofs # {}
<1>1. pc \in ForwardPcs /\ pc # "created" /\ journal' = journal /\ freshProofs' = freshProofs
  BY DEF DecisionFails, ProposalRejected, ForwardPcs, book, evidence
<1>2. /\ TypeOK /\ blocked = FALSE /\ status = "running"
      /\ journal \in Seq(Entries(Tools)) /\ UnresolvedAt(journal) = {}
      /\ eventCount \in Nat /\ events \in Seq(Events)
      /\ Ledger(events, status, journal, eventCount, p)
  BY <1>1, ForwardFacts
<1> HIDE DEF p
<1>3. CASE DecisionFails /\ Publish(StopEvents(journal))
  <2>1. Stop(journal, 0) /\ eventCount + 0 = eventCount
    BY <1>2, <1>3 DEF DecisionFails
  <2>2. Result(events \o StopEvents(journal), journal, p)
    BY <1>2, <2>1, StopPublished
  <2> QED BY <1>1, <1>3, <2>2, ResultSuffices DEF Publish, p
<1>4. CASE ProposalRejected /\ Publish(<<AgentDecision>> \o StopEvents(journal))
  <2> DEFINE a == AgentDecision
             c == StopEvents(journal)
  <2>1. /\ Shaped(a) /\ a \in Events /\ a.kind \in PlainKinds
        /\ a.before = status /\ a.after = status
    BY <1>2, AgentEvent DEF TypeOK
  <2>2. Stop(journal, 1) /\ events' = events \o (<<a>> \o c)
    BY <1>4 DEF ProposalRejected, Publish
  <2> HIDE DEF a
  <2>3. Ledger(Append(events, a), status, journal, eventCount + 1, p)
    BY <1>2, <2>1, PlainStep
  <2>4. c \in Seq(Events) /\ Result(Append(events, a) \o c, journal, p)
    BY <1>2, <2>2, <2>3, StopPublished
  <2> HIDE DEF c
  <2>5. events' = Append(events, a) \o c
    BY <1>2, <2>1, <2>2, <2>4, Prefixed
  <2> QED BY <1>1, <2>4, <2>5, ResultSuffices DEF p
<1> QED BY <1>3, <1>4

LEMMA FinishPublishes ==
  ASSUME IInv, LInv, FinishProposed, Publish(<<AgentDecision>> \o FinishEvents)
  PROVE  LInv'
<1> DEFINE p == freshProofs # {}
           a == AgentDecision
           c == FinishEvents
<1>1. pc \in ForwardPcs /\ pc # "created" /\ journal' = journal /\ freshProofs' = freshProofs
  BY DEF FinishProposed, ForwardPcs, book, evidence
<1>2. /\ TypeOK /\ blocked = FALSE /\ status = "running"
      /\ journal \in Seq(Entries(Tools)) /\ UnresolvedAt(journal) = {}
      /\ eventCount \in Nat /\ events \in Seq(Events)
      /\ Ledger(events, status, journal, eventCount, p) /\ ProofsHold(events)
  BY <1>1, ForwardFacts
<1>3. /\ Shaped(a) /\ a \in Events /\ a.kind \in PlainKinds
      /\ a.before = status /\ a.after = status
  BY <1>2, AgentEvent DEF TypeOK
<1>4. events' = events \o (<<a>> \o c)
  BY DEF Publish
<1> HIDE DEF p, a
<1>5. /\ Ledger(Append(events, a), status, journal, eventCount + 1, p)
      /\ ProofsHold(Append(events, a))
      /\ SomeProof(events) => SomeProof(Append(events, a))
  BY <1>2, <1>3, PlainStep
<1>6. c \in Seq(Events) /\ Result(Append(events, a) \o c, journal, p)
  <2>1. CASE TerminalReady
    <3>1. Close("succeeded_verified", 1 + 1) /\ c = <<StatusChanged(status, "succeeded_verified")>>
      BY <2>1 DEF FinishProposed, FinishEvents
    <3>2. Proofs # {} => SomeProof(Append(events, a))
      BY <1>5, <2>1 DEF TerminalReady, LInv
    <3> QED BY <1>2, <1>5, <3>1, <3>2, ClosePublished
  <2>2. CASE ~TerminalReady
    <3>1. Stop(journal, 1) /\ c = StopEvents(journal)
      BY <2>2 DEF FinishProposed, FinishEvents
    <3> QED BY <1>2, <1>5, <3>1, StopPublished
  <2> QED BY <2>1, <2>2
<1> HIDE DEF c
<1>7. events' = Append(events, a) \o c
  BY <1>2, <1>3, <1>4, <1>6, Prefixed
<1> QED BY <1>1, <1>6, <1>7, ResultSuffices DEF p

LEMMA CallPublishes ==
  ASSUME IInv, LInv, ToolCalled, Publish(<<AgentDecision>>)
  PROVE  LInv'
<1> DEFINE p == freshProofs # {}
           a == AgentDecision
<1>1. /\ pc \in ForwardPcs /\ pc # "created" /\ journal' = journal /\ freshProofs' = freshProofs
      /\ pc' = "forward" /\ status' = status /\ eventCount' = eventCount + 1
  BY DEF ToolCalled, ForwardPcs, book, evidence
<1>2. /\ TypeOK /\ status = "running" /\ eventCount \in Nat /\ events \in Seq(Events)
      /\ Ledger(events, status, journal, eventCount, p) /\ ProofsHold(events)
  BY <1>1, ForwardFacts
<1>3. /\ Shaped(a) /\ a \in Events /\ a.kind \in PlainKinds
      /\ a.before = status /\ a.after = status
  BY <1>2, AgentEvent DEF TypeOK
<1>4. events' = Append(events, a)
  BY <1>2, <1>3, Concatenations DEF Publish
<1> HIDE DEF p, a
<1>5. /\ Ledger(events', status, journal, eventCount + 1, p) /\ ProofsHold(events')
  BY <1>2, <1>3, <1>4, PlainStep
<1>6. Result(events', journal', p)
  BY <1>1, <1>2, <1>5 DEF Ledger, Result, Concluded, NoneCompleted
<1> QED BY <1>1, <1>6, ResultSuffices DEF p

\* What the projection calls the outcome of an event.
LEMMA OutcomeKinds ==
  ASSUME NEW e
  PROVE  /\ e.kind = "reconciliation_result" =>
              (OutcomeKind(e) = "reconcile_effect_confirmed"
                 <=> e.outcome \in {"confirmed_effect", "reconcile_effect_confirmed"})
         /\ e.kind # "reconciliation_result" /\ e.declared = "proof"
              => OutcomeKind(e) = "read_observed"
         /\ e.kind # "reconciliation_result" /\ e.declared = "read"
              => OutcomeKind(e) # "effect_confirmed"
         /\ e.kind # "reconciliation_result" /\ e.declared \notin {"proof", "read"}
              => (OutcomeKind(e) = "effect_confirmed" <=> e.outcome = "succeeded")
BY DEF OutcomeKind

\* What the result of a forward call finds: its operation is new.
LEMMA CallFacts ==
  ASSUME IInv, LInv, pc \in {"forward", "reconciling"}
  PROVE  /\ TypeOK /\ blocked = FALSE /\ status = "running" /\ status \in Statuses
         /\ journal \in Seq(Entries(Tools)) /\ UnresolvedAt(journal) = {}
         /\ eventCount \in Nat /\ step \in Nat /\ tool \in Tools
         /\ pc = "reconciling" => tool \in Effects
         /\ \A i \in DOMAIN journal : journal[i].step < step
         /\ events \in Seq(Events) /\ events # << >>
         /\ Ledger(events, status, journal, eventCount, freshProofs # {})
         /\ ProofsHold(events)
<1>1. pc \in ForwardPcs /\ pc # "created"
  BY DEF ForwardPcs
<1>2. /\ \A i \in DOMAIN journal : journal[i].step < step
      /\ tool \in Tools /\ (pc = "reconciling" => tool \in Effects) /\ status \in Statuses
  BY DEF IInv, OperationIdsAreFresh, PlaceInv, TypeOK
<1> QED BY <1>1, <1>2, ForwardFacts DEF Ledger

\* An event of a forward call that confirms nothing.
LEMMA UnconfirmedEvent ==
  ASSUME NEW es, NEW j, NEW n \in Nat, NEW p, NEW e,
         Ledger(es, e.before, j, n, p), Shaped(e),
         e.kind \in {"forward_result", "reconciliation_result"}, ~Confirms(e)
  PROVE  /\ Ledger(Append(es, e), e.after, j, n + 1, p)
         /\ ProofsHold(es) /\ ~IsProof(e) => ProofsHold(Append(es, e))
<1>1. es \in Seq(Events) /\ e \in Events
  BY DEF Ledger, History, ValidHistory, Shaped
<1>2. History(Append(es, e), e.after, j)
  BY PassingEvent DEF Ledger, UndoKinds
<1>3. ~IsCompleted(e)
  BY DEF IsCompleted
<1> QED BY <1>1, <1>2, <1>3, HistoryAppended DEF Ledger

\* An event that confirms the call, with the evidence it leaves behind.
LEMMA ConfirmedEvent ==
  ASSUME IInv, LInv, pc \in {"forward", "reconciling"}, RecordForwardEvidence(step, tool),
         NEW e, Shaped(e), e.before = status, e.after = status, e.step = step,
         e.kind \in {"forward_result", "reconciliation_result"},
         Confirms(e) <=> tool \in Effects,
         IsProof(e) <=> tool \in Proofs, IsProof(e) => e.outcome = "succeeded"
  PROVE  /\ Ledger(Append(events, e), status, journal', eventCount + 1, freshProofs' # {})
         /\ ProofsHold(Append(events, e))
<1> DEFINE q == Append(events, e)
<1>1. /\ journal \in Seq(Entries(Tools)) /\ tool \in Tools
      /\ \A i \in DOMAIN journal : journal[i].step < step
      /\ events \in Seq(Events) /\ events # << >>
      /\ Ledger(events, status, journal, eventCount, freshProofs # {})
      /\ ProofsHold(events)
  BY CallFacts
<1>2. e \in Events /\ ~IsCompleted(e)
  BY DEF Shaped, IsCompleted
<1>3. /\ q # << >> /\ Len(q) = Len(events) + 1 /\ ProofsHold(q) /\ NoneCompleted(q)
      /\ SomeProof(events) \/ IsProof(e) => SomeProof(q)
  BY <1>1, <1>2, HistoryAppended DEF Ledger
<1>4. History(q, status, journal')
  <2>1. CASE tool \in Effects
    <3>1. journal' = RecordForward(journal, e.step, tool)
      BY <2>1 DEF RecordForwardEvidence
    <3> QED BY <1>1, <2>1, <3>1, ConfirmingEvent DEF Ledger
  <2>2. CASE tool \notin Effects
    <3>1. journal' = journal
      BY <2>2 DEF RecordForwardEvidence
    <3> QED BY <1>1, <2>2, <3>1, PassingEvent DEF Ledger, UndoKinds
  <2> QED BY <2>1, <2>2
<1>5. freshProofs' # {} => freshProofs # {} \/ tool \in Proofs
  BY DEF RecordForwardEvidence
<1> HIDE DEF q
<1>6. Ledger(q, status, journal', eventCount + 1, freshProofs' # {})
  BY <1>1, <1>3, <1>4, <1>5 DEF Ledger
<1> QED BY <1>3, <1>6 DEF q

LEMMA SuccessPublishes ==
  ASSUME IInv, LInv,
         \/ ForwardSucceeds /\ Publish(<<ForwardResult("succeeded")>> \o TurnEvents(journal'))
         \/ ReconciledEffect
            /\ Publish(<<ReconciliationResult("confirmed_effect")>> \o TurnEvents(journal'))
  PROVE  LInv'
<1> DEFINE p == freshProofs' # {}
           c == TurnEvents(journal')
<1>1. /\ pc \in {"forward", "reconciling"} /\ RecordForwardEvidence(step, tool)
      /\ NextTurn(journal', 1)
  BY DEF ForwardSucceeds, ReconciledEffect
<1>2. /\ TypeOK /\ blocked = FALSE /\ status = "running" /\ status \in Statuses
      /\ step \in Nat /\ tool \in Tools /\ events \in Seq(Events)
      /\ pc = "reconciling" => tool \in Effects
  BY <1>1, CallFacts
<1>3. journal' \in Seq(Entries(Tools)) /\ UnresolvedAt(journal') = {}
  BY <1>1, ConfirmedJournal DEF AllPending, UnresolvedAt
<1>4. tool \in Proofs => tool \notin Effects
  BY ToolsAssumption
<1>5. \E e : /\ Shaped(e) /\ e.before = status /\ e.after = status /\ e.step = step
             /\ e.kind \in {"forward_result", "reconciliation_result"}
             /\ Confirms(e) <=> tool \in Effects
             /\ IsProof(e) <=> tool \in Proofs
             /\ IsProof(e) => e.outcome = "succeeded"
             /\ events' = events \o (<<e>> \o c)
  <2>1. CASE ForwardSucceeds /\ Publish(<<ForwardResult("succeeded")>> \o c)
    <3> DEFINE e == ForwardResult("succeeded")
    <3>1. /\ Shaped(e) /\ e.kind = "forward_result" /\ e.before = status /\ e.after = status
          /\ e.step = step /\ ~e.undo /\ e.outcome = "succeeded" /\ e.declared = Declared(tool)
      BY <1>2, ForwardResultEvent DEF Outcomes
    <3>2. events' = events \o (<<e>> \o c)
      BY <2>1 DEF Publish
    <3> HIDE DEF e, c
    <3>3. (Confirms(e) <=> tool \in Effects) /\ (IsProof(e) <=> tool \in Proofs)
      <4>1. CASE tool \in Effects
        <5>1. e.declared = "effect" /\ OutcomeKind(e) = "effect_confirmed"
          BY <3>1, <4>1 DEF OutcomeKind, Declared
        <5> QED BY <1>4, <3>1, <4>1, <5>1 DEF Confirms, IsProof
      <4>2. CASE tool \notin Effects
        <5>1. e.declared = IF tool \in Proofs THEN "proof" ELSE "read"
          BY <3>1, <4>2 DEF Declared
        <5>2. OutcomeKind(e) # "effect_confirmed"
          BY <3>1, <5>1, OutcomeKinds
        <5> QED BY <3>1, <4>2, <5>1, <5>2 DEF Confirms, IsProof
      <4> QED BY <4>1, <4>2
    <3> QED BY <3>1, <3>2, <3>3
  <2>2. CASE ReconciledEffect /\ Publish(<<ReconciliationResult("confirmed_effect")>> \o c)
    <3> DEFINE e == ReconciliationResult("confirmed_effect")
    <3>1. /\ Shaped(e) /\ e.kind = "reconciliation_result" /\ e.before = status /\ e.after = status
          /\ e.step = step /\ ~e.undo /\ e.outcome = "confirmed_effect"
      <4>1. pc = "reconciling" /\ "confirmed_effect" \in Outcomes
        BY <2>2 DEF Outcomes, ReconciledEffect
      <4>2. /\ Shaped(e) /\ e.kind = "reconciliation_result"
            /\ e.before = status /\ e.after = status
            /\ e.step = step /\ e.undo = (pc = "reconciling_compensation")
            /\ e.outcome = "confirmed_effect"
        BY <1>2, <4>1, ReconciliationEvent
      <4> QED BY <4>1, <4>2
    <3>2. events' = events \o (<<e>> \o c)
      BY <2>2 DEF Publish
    <3> HIDE DEF e, c
    <3>3. Confirms(e) /\ ~IsProof(e) /\ tool \in Effects
      <4>1. tool \in Effects
        BY <1>2, <2>2 DEF ReconciledEffect
      <4>2. OutcomeKind(e) = "reconcile_effect_confirmed"
        BY <3>1, OutcomeKinds
      <4> QED BY <3>1, <4>1, <4>2 DEF Confirms, IsProof
    <3> QED BY <1>4, <3>1, <3>2, <3>3
  <2> QED BY <2>1, <2>2
<1>6. PICK e : /\ Shaped(e) /\ e.before = status /\ e.after = status /\ e.step = step
               /\ e.kind \in {"forward_result", "reconciliation_result"}
               /\ Confirms(e) <=> tool \in Effects
               /\ IsProof(e) <=> tool \in Proofs
               /\ IsProof(e) => e.outcome = "succeeded"
               /\ events' = events \o (<<e>> \o c)
  BY <1>5
<1>7. /\ Ledger(Append(events, e), status, journal', eventCount + 1, p)
      /\ ProofsHold(Append(events, e))
  BY <1>1, <1>6, ConfirmedEvent
<1> HIDE DEF p
<1>8. c \in Seq(Events) /\ Result(Append(events, e) \o c, journal', p)
  BY <1>1, <1>2, <1>3, <1>7, TurnPublished
<1>9. e \in Events
  BY <1>6 DEF Shaped
<1> HIDE DEF c
<1>10. events' = Append(events, e) \o c
  BY <1>2, <1>6, <1>8, <1>9, Prefixed
<1> QED BY <1>8, <1>10, ResultSuffices DEF p

\* A call that confirms nothing, up to the continuation of the activation.
LEMMA CallUnconfirmed ==
  ASSUME IInv, LInv, pc \in {"forward", "reconciling"},
         NEW e, Shaped(e), e.before = status, e.after = status,
         e.kind \in {"forward_result", "reconciliation_result"}, ~Confirms(e)
  PROVE  /\ Ledger(Append(events, e), status, journal, eventCount + 1, freshProofs # {})
         /\ ~IsProof(e) => ProofsHold(Append(events, e))
<1>1. /\ Ledger(events, status, journal, eventCount, freshProofs # {})
      /\ ProofsHold(events) /\ eventCount \in Nat
  BY CallFacts
<1> QED BY <1>1, UnconfirmedEvent

LEMMA FailurePublishes ==
  ASSUME IInv, LInv,
         \/ ForwardFails /\ Publish(<<ForwardResult("failed")>> \o FailureEvents(journal))
         \/ ReconciledNoEffect
            /\ Publish(<<ReconciliationResult("confirmed_no_effect")>> \o FailureEvents(journal))
  PROVE  LInv'
<1> DEFINE p == freshProofs # {}
           c == FailureEvents(journal)
<1>1. /\ pc \in {"forward", "reconciling"} /\ HandleForwardFailure(journal, 1)
      /\ journal' = journal /\ freshProofs' = freshProofs
  BY DEF ForwardFails, ReconciledNoEffect, book, evidence
<1>2. /\ TypeOK /\ blocked = FALSE /\ status \in Statuses
      /\ step \in Nat /\ tool \in Tools /\ events \in Seq(Events)
      /\ journal \in Seq(Entries(Tools)) /\ UnresolvedAt(journal) = {}
  BY <1>1, CallFacts
<1>3. \E e : /\ Shaped(e) /\ e.before = status /\ e.after = status
             /\ e.kind \in {"forward_result", "reconciliation_result"} /\ ~Confirms(e)
             /\ events' = events \o (<<e>> \o c)
  <2>1. CASE ForwardFails /\ Publish(<<ForwardResult("failed")>> \o c)
    <3> DEFINE e == ForwardResult("failed")
    <3>1. /\ Shaped(e) /\ e.kind = "forward_result" /\ e.before = status /\ e.after = status
          /\ e.outcome = "failed" /\ e.declared = Declared(tool)
      BY <1>2, ForwardResultEvent DEF Outcomes
    <3>2. events' = events \o (<<e>> \o c)
      BY <2>1 DEF Publish
    <3> HIDE DEF e, c
    <3>3. e.declared \in {"effect", "proof", "read"}
      BY <3>1 DEF Declared
    <3>4. OutcomeKind(e) # "effect_confirmed"
      BY <3>1, <3>3, OutcomeKinds
    <3> QED BY <3>1, <3>2, <3>4 DEF Confirms
  <2>2. CASE ReconciledNoEffect
             /\ Publish(<<ReconciliationResult("confirmed_no_effect")>> \o c)
    <3> DEFINE e == ReconciliationResult("confirmed_no_effect")
    <3>1. /\ Shaped(e) /\ e.kind = "reconciliation_result" /\ e.before = status /\ e.after = status
          /\ e.outcome = "confirmed_no_effect"
      BY <1>2, ReconciliationEvent DEF Outcomes
    <3>2. events' = events \o (<<e>> \o c)
      BY <2>2 DEF Publish
    <3> HIDE DEF e, c
    <3>3. OutcomeKind(e) # "reconcile_effect_confirmed"
      BY <3>1, OutcomeKinds
    <3> QED BY <3>1, <3>2, <3>3 DEF Confirms
  <2> QED BY <2>1, <2>2
<1>4. PICK e : /\ Shaped(e) /\ e.before = status /\ e.after = status
               /\ e.kind \in {"forward_result", "reconciliation_result"} /\ ~Confirms(e)
               /\ events' = events \o (<<e>> \o c)
  BY <1>3
<1>5. Ledger(Append(events, e), status, journal, eventCount + 1, p)
  BY <1>1, <1>4, CallUnconfirmed
<1> HIDE DEF p
<1>6. c \in Seq(Events) /\ Result(Append(events, e) \o c, journal, p)
  BY <1>1, <1>2, <1>5, FailurePublished
<1>7. e \in Events
  BY <1>4 DEF Shaped
<1> HIDE DEF c
<1>8. events' = Append(events, e) \o c
  BY <1>2, <1>4, <1>6, <1>7, Prefixed
<1> QED BY <1>1, <1>6, <1>8, ResultSuffices DEF p

LEMMA UnknownPublishes ==
  ASSUME IInv, LInv, ForwardUnknown, Publish(<<ForwardResult("unresolved")>>)
  PROVE  LInv'
<1> DEFINE p == freshProofs # {}
           e == ForwardResult("unresolved")
<1>1. /\ pc \in {"forward", "reconciling"} /\ tool \in Effects
      /\ journal' = journal /\ freshProofs' = freshProofs
      /\ pc' = "reconciling" /\ status' = status /\ eventCount' = eventCount + 1
  BY DEF ForwardUnknown, Await, book, evidence
<1>2. /\ status = "running" /\ status \in Statuses
      /\ step \in Nat /\ tool \in Tools /\ events \in Seq(Events)
  BY <1>1, CallFacts
<1>3. /\ Shaped(e) /\ e.kind = "forward_result" /\ e.before = status /\ e.after = status
      /\ e.outcome = "unresolved" /\ e.declared = Declared(tool)
  BY <1>2, ForwardResultEvent DEF Outcomes
<1>4. e.declared = "effect"
  BY <1>1, <1>3 DEF Declared
<1> HIDE DEF e
<1>5. ~Confirms(e) /\ ~IsProof(e)
  <2>1. OutcomeKind(e) # "effect_confirmed"
    BY <1>3, <1>4, OutcomeKinds
  <2> QED BY <1>3, <1>4, <2>1 DEF Confirms, IsProof
<1>6. /\ Ledger(Append(events, e), status, journal, eventCount + 1, p)
      /\ ProofsHold(Append(events, e))
  BY <1>1, <1>3, <1>5, CallUnconfirmed
<1>7. events' = Append(events, e)
  <2>1. e \in Events
    BY <1>3 DEF Shaped
  <2>2. events' = events \o <<e>>
    BY DEF Publish, e
  <2> QED BY <1>2, <2>1, <2>2, Concatenations
<1> HIDE DEF p
<1>8. Result(events', journal', p)
  BY <1>1, <1>2, <1>6, <1>7 DEF Ledger, Result, Concluded, NoneCompleted
<1> QED BY <1>1, <1>8, ResultSuffices DEF p

LEMMA StillUnknownPublishes ==
  ASSUME IInv, LInv, StillUnknown,
         \/ UnwindBeforeHuman(journal, 0) /\ Publish(BeforeHumanEvents(journal))
         \/ /\ UnwindBeforeHuman(journal, 1)
            /\ Publish(<<ReconciliationResult(Unclear)>> \o BeforeHumanEvents(journal))
  PROVE  LInv'
<1> DEFINE p == freshProofs # {}
           c == BeforeHumanEvents(journal)
<1>1. /\ pc \in {"forward", "reconciling"} /\ pc = "reconciling"
      /\ journal' = journal /\ freshProofs' = freshProofs
  BY DEF StillUnknown, book, evidence
<1>2. /\ TypeOK /\ blocked = FALSE /\ status \in Statuses /\ eventCount \in Nat
      /\ step \in Nat /\ tool \in Tools /\ events \in Seq(Events)
      /\ journal \in Seq(Entries(Tools)) /\ UnresolvedAt(journal) = {}
      /\ Ledger(events, status, journal, eventCount, p)
  BY <1>1, CallFacts
<1> HIDE DEF p
<1>3. CASE UnwindBeforeHuman(journal, 0) /\ Publish(c)
  <2>1. eventCount + 0 = eventCount
    BY <1>2
  <2>2. Result(events \o c, journal, p)
    BY <1>2, <1>3, <2>1, BeforeHumanPublished
  <2> QED BY <1>1, <1>3, <2>2, ResultSuffices DEF Publish, p
<1>4. CASE UnwindBeforeHuman(journal, 1) /\ Publish(<<ReconciliationResult(Unclear)>> \o c)
  <2> DEFINE e == ReconciliationResult(Unclear)
  <2>1. /\ Shaped(e) /\ e.kind = "reconciliation_result" /\ e.before = status /\ e.after = status
        /\ e.outcome = "pending"
    BY <1>2, ReconciliationEvent DEF Outcomes, Unclear
  <2>2. events' = events \o (<<e>> \o c)
    BY <1>4 DEF Publish
  <2> HIDE DEF e
  <2>3. ~Confirms(e)
    <3>1. OutcomeKind(e) # "reconcile_effect_confirmed"
      BY <2>1, OutcomeKinds
    <3> QED BY <2>1, <3>1 DEF Confirms
  <2>4. Ledger(Append(events, e), status, journal, eventCount + 1, p)
    BY <1>1, <2>1, <2>3, CallUnconfirmed DEF p
  <2>5. c \in Seq(Events) /\ Result(Append(events, e) \o c, journal, p)
    BY <1>2, <1>4, <2>4, BeforeHumanPublished
  <2>6. e \in Events
    BY <2>1 DEF Shaped
  <2> HIDE DEF c
  <2>7. events' = Append(events, e) \o c
    BY <1>2, <2>2, <2>5, <2>6, Prefixed
  <2> QED BY <1>1, <2>5, <2>7, ResultSuffices DEF p
<1> HIDE DEF c
<1> QED BY <1>3, <1>4 DEF c

----------------------------------------------------------------------------
(***************************************************************************)
(* The unwind.                                                             *)
(***************************************************************************)

\* An event about an undo in the middle of an activation.
LEMMA UndoRecorded ==
  ASSUME NEW es, NEW j \in Seq(Entries(Tools)), Increasing(j), NEW i \in DOMAIN j,
         NEW n \in Nat, NEW p, NEW e, Ledger(es, e.before, j, n, p), Shaped(e),
         e.kind \in UndoKinds, e.step = j[i].step,
         e.kind = "human_resolved" => j[i].state = "unresolved",
         NEW st \in EntryStates,
         st = IF e.kind = "human_resolved" \/ e.outcome = "succeeded"
                THEN "succeeded" ELSE "unresolved"
  PROVE  Ledger(Append(es, e), e.after, Mark(j, e.step, st), n + 1, p)
<1>1. es \in Seq(Events) /\ e \in Events /\ es # << >>
  BY DEF Ledger, History, ValidHistory, Shaped
<1>2. History(Append(es, e), e.after, Mark(j, e.step, st))
  BY <1>1, UndoEvent DEF Ledger
<1>3. ~IsCompleted(e)
  BY DEF IsCompleted, UndoKinds
<1> QED BY <1>1, <1>2, <1>3, HistoryAppended DEF Ledger

\* What the result of an undo, or of a resolution, finds.
LEMMA UndoFacts ==
  ASSUME IInv, LInv, pc \in UndoPcs \cup {"human"}
  PROVE  /\ TypeOK /\ journal \in Seq(Entries(Tools)) /\ Increasing(journal)
         /\ eventCount \in Nat /\ step \in Nat /\ goal \in Verdicts
         /\ status \in Statuses /\ (pc \in UndoPcs => status = "compensating")
         /\ pc = "human" => status = "human_required"
         /\ events \in Seq(Events)
         /\ Ledger(events, status, journal, eventCount, freshProofs # {})
         /\ \E i \in DOMAIN journal :
              /\ journal[i].step = step
              /\ journal[i].state = IF pc = "human" THEN "unresolved" ELSE "pending"
              /\ \A k \in DOMAIN journal : k # i => journal[k].state # "unresolved"
<1>1. /\ TypeOK /\ journal \in Seq(Entries(Tools)) /\ Increasing(journal)
      /\ eventCount \in Nat /\ step \in Nat /\ goal \in Verdicts /\ eventCount > 0
      /\ status \in Statuses /\ (pc \in UndoPcs => status = "compensating")
      /\ pc = "human" => status = "human_required"
  BY DEF IInv, TypeOK, JournalInv, PlaceInv, UndoPcs, WaitPcs
<1>2. events \in Seq(Events) /\ events # << >>
  BY <1>1 DEF LInv, History, ValidHistory
<1>3. Ledger(events, status, journal, eventCount, freshProofs # {})
  BY <1>2 DEF LInv, Ledger, UndoPcs
<1>4. \E i \in DOMAIN journal :
              /\ journal[i].step = step
              /\ journal[i].state = IF pc = "human" THEN "unresolved" ELSE "pending"
              /\ \A k \in DOMAIN journal : k # i => journal[k].state # "unresolved"
  <2>1. PICK i \in DOMAIN journal :
           /\ journal[i].step = step
           /\ journal[i].state = IF pc = "human" THEN "unresolved" ELSE "pending"
           /\ \A k \in DOMAIN journal : k > i => journal[k].state = "succeeded"
           /\ \A k \in DOMAIN journal : k < i => journal[k].state = "pending"
    <3>1. CASE pc = "human"
      BY <3>1, AwaitedDispute
    <3>2. CASE pc # "human"
      BY <3>2, AwaitedUndo
    <3> QED BY <3>1, <3>2
  <2>2. \A k \in DOMAIN journal : k \in Nat
    BY <1>1, JournalIndices
  <2>3. \A k \in DOMAIN journal : k # i => journal[k].state # "unresolved"
    <3> SUFFICES ASSUME NEW k \in DOMAIN journal, k # i PROVE journal[k].state # "unresolved"
      OBVIOUS
    <3>1. k > i \/ k < i
      BY <2>2
    <3> QED BY <2>1, <3>1
  <2> QED BY <2>1, <2>3
<1> QED BY <1>1, <1>2, <1>3, <1>4

LEMMA SettledJournal ==
  ASSUME NEW j \in Seq(Entries(Tools)), Increasing(j), NEW i \in DOMAIN j,
         \A k \in DOMAIN j : k # i => j[k].state # "unresolved"
  PROVE  LET q == Mark(j, j[i].step, "succeeded")
         IN  q \in Seq(Entries(Tools)) /\ q # << >> /\ UnresolvedAt(q) = {}
<1> DEFINE q == Mark(j, j[i].step, "succeeded")
<1>1. /\ q \in Seq(Entries(Tools)) /\ DOMAIN q = DOMAIN j
      /\ q[i].state = "succeeded"
      /\ \A k \in DOMAIN j : k # i => q[k] = j[k]
  <2>1. "succeeded" \in EntryStates
    BY DEF EntryStates
  <2> QED BY <2>1, Marking
<1> HIDE DEF q
<1>2. q # << >>
  BY <1>1
<1>3. UnresolvedAt(q) = {}
  BY <1>1 DEF UnresolvedAt
<1> QED BY <1>1, <1>2, <1>3 DEF q

(***************************************************************************)
(* An event that settles the awaited entry, and what the unwind does then. *)
(***************************************************************************)
LEMMA SettlePublished ==
  ASSUME IInv, LInv, pc \in UndoPcs \cup {"human"}, NEW i \in DOMAIN journal,
         \A k \in DOMAIN journal : k # i => journal[k].state # "unresolved",
         journal' = Mark(journal, journal[i].step, "succeeded"), blocked' = FALSE,
         NEW m \in Nat, Advance(journal', blocked', goal, m + 1),
         NEW p, NEW es, NEW e, Ledger(es, e.before, journal, eventCount + m, p),
         Shaped(e), e.after = "compensating", e.step = journal[i].step,
         \/ e.kind = "compensation_result" /\ e.outcome = "succeeded"
         \/ e.kind = "human_resolved" /\ journal[i].state = "unresolved"
  PROVE  /\ EndEvents(journal', goal) \in Seq(Events)
         /\ Result(Append(es, e) \o EndEvents(journal', goal), journal', p)
<1>1. /\ TypeOK /\ journal \in Seq(Entries(Tools)) /\ Increasing(journal)
      /\ eventCount \in Nat /\ goal \in Verdicts
  BY UndoFacts
<1>2. /\ journal' \in Seq(Entries(Tools)) /\ journal' # << >>
      /\ UnresolvedAt(journal') = {}
  BY <1>1, SettledJournal
<1>3. /\ eventCount + m \in Nat /\ m + 1 \in Nat
      /\ (eventCount + m) + 1 = eventCount + (m + 1)
  BY <1>1
<1>4. Ledger(Append(es, e), "compensating", journal', eventCount + (m + 1), p)
  <2> DEFINE st == "succeeded"
  <2>1. st \in EntryStates /\ e.kind \in UndoKinds
    BY DEF EntryStates, UndoKinds
  <2>2. st = IF e.kind = "human_resolved" \/ e.outcome = "succeeded"
               THEN "succeeded" ELSE "unresolved"
    OBVIOUS
  <2>3. e.kind = "human_resolved" => journal[i].state = "unresolved"
    OBVIOUS
  <2> HIDE DEF st
  <2>4. Ledger(Append(es, e), e.after, Mark(journal, e.step, st), (eventCount + m) + 1, p)
    BY <1>1, <1>3, <2>1, <2>2, <2>3, UndoRecorded
  <2> QED BY <1>3, <2>4 DEF st
<1> QED BY <1>1, <1>2, <1>3, <1>4, EndPublished

\* An event that puts the awaited entry in dispute, and the pause.
LEMMA DisputePublished ==
  ASSUME IInv, LInv, pc \in UndoPcs, NEW m \in Nat, Disputed(m + 1),
         NEW o \in {"failed", "unresolved"},
         NEW p, NEW es, Ledger(es, status, journal, eventCount + m, p)
  PROVE  DisputeEvents(o) \in Seq(Events) /\ Result(es \o DisputeEvents(o), journal', p)
<1> DEFINE c == CompensationResult(o)
           s == StatusChanged(status, "human_required")
           r == Append(es, c)
           q == Append(r, s)
<1>1. /\ TypeOK /\ journal \in Seq(Entries(Tools)) /\ Increasing(journal)
      /\ eventCount \in Nat /\ step \in Nat /\ status \in Statuses
  BY UndoFacts
<1>2. PICK i \in DOMAIN journal : journal[i].step = step
  BY UndoFacts
<1>3. /\ journal' = Mark(journal, step, "unresolved")
      /\ pc' = "human" /\ status' = "human_required"
      /\ eventCount' = eventCount + (m + 1) + 1
  BY DEF Disputed, WaitForHuman
<1>4. /\ Shaped(c) /\ c.kind = "compensation_result" /\ c.before = status /\ c.after = status
      /\ c.step = step /\ c.outcome = o
  BY <1>1, CompensationEvent DEF Outcomes
<1>5. Shaped(s) /\ s.kind \in PlainKinds /\ s.before = status /\ s.after = "human_required"
  BY <1>1, StatusEvent DEF Statuses, Verdicts, PlainKinds
<1>6. DisputeEvents(o) = <<c, s>>
  BY DEF DisputeEvents
<1> HIDE DEF c, s
<1>7. es \in Seq(Events) /\ c \in Events /\ s \in Events
  BY <1>4, <1>5 DEF Shaped, Ledger, History, ValidHistory
<1>8. DisputeEvents(o) \in Seq(Events) /\ es \o DisputeEvents(o) = q
  BY <1>6, <1>7, Concatenations
<1>9. eventCount + m \in Nat /\ (eventCount + m) + 1 \in Nat
  BY <1>1
<1> HIDE DEF q
<1>10. Ledger(r, status, journal', (eventCount + m) + 1, p)
  <2> DEFINE st == "unresolved"
  <2>1. st \in EntryStates /\ c.kind \in UndoKinds /\ c.kind # "human_resolved"
    BY <1>4 DEF EntryStates, UndoKinds
  <2>2. st = IF c.kind = "human_resolved" \/ c.outcome = "succeeded"
               THEN "succeeded" ELSE "unresolved"
    BY <1>4
  <2> HIDE DEF st
  <2>3. Ledger(Append(es, c), c.after, Mark(journal, c.step, st), (eventCount + m) + 1, p)
    BY <1>1, <1>2, <1>4, <1>9, <2>1, <2>2, UndoRecorded
  <2> QED BY <1>3, <1>4, <2>3 DEF st
<1> HIDE DEF r
<1>11. Ledger(q, "human_required", journal', ((eventCount + m) + 1) + 1, p)
  BY <1>5, <1>9, <1>10, PlainStep DEF q
<1>12. ((eventCount + m) + 1) + 1 = eventCount'
  BY <1>1, <1>3
<1>13. Concluded(q, "human_required", journal')
  BY <1>11 DEF Ledger, NoneCompleted, Concluded
<1>14. Result(q, journal', p)
  BY <1>3, <1>11, <1>12, <1>13 DEF Ledger, Result, Upright
<1> QED BY <1>8, <1>14

LEMMA PrefixedTwice ==
  ASSUME NEW S, NEW es \in Seq(S), NEW a \in S, NEW b \in S, NEW c \in Seq(S)
  PROVE  es \o (<<a, b>> \o c) = Append(Append(es, a), b) \o c
<1>1. <<a, b>> \in Seq(S)
  OBVIOUS
<1>2. es \o <<a, b>> = Append(Append(es, a), b)
  BY Concatenations
<1>3. (es \o <<a, b>>) \o c = es \o (<<a, b>> \o c)
  BY <1>1, ConcatAssociative
<1> QED BY <1>2, <1>3

LEMMA SettlementPublishes ==
  ASSUME IInv, LInv,
         \/ CompensationSucceeds
            /\ Publish(<<CompensationResult("succeeded")>> \o EndEvents(journal', goal))
         \/ ReconciledUndo
            /\ Publish(<<ReconciliationResult("confirmed_effect"),
                         CompensationResult("succeeded")>> \o EndEvents(journal', goal))
  PROVE  LInv'
<1> DEFINE p == freshProofs # {}
           c == EndEvents(journal', goal)
           e == CompensationResult("succeeded")
<1>1. /\ pc \in UndoPcs \cup {"human"} /\ pc \in UndoPcs
      /\ journal' = Mark(journal, step, "succeeded") /\ blocked' = FALSE
      /\ freshProofs' = freshProofs
  BY DEF CompensationSucceeds, ReconciledUndo, Undone, UndoPcs, evidence
<1>2. /\ eventCount \in Nat /\ step \in Nat /\ status \in Statuses /\ status = "compensating"
      /\ events \in Seq(Events)
      /\ Ledger(events, status, journal, eventCount, p)
  BY <1>1, UndoFacts
<1>3. PICK i \in DOMAIN journal :
        /\ journal[i].step = step
        /\ \A k \in DOMAIN journal : k # i => journal[k].state # "unresolved"
  BY <1>1, UndoFacts
<1>4. /\ Shaped(e) /\ e.kind = "compensation_result" /\ e.before = status /\ e.after = status
      /\ e.step = step /\ e.outcome = "succeeded"
  BY <1>2, CompensationEvent DEF Outcomes
<1>5. e \in Events
  BY <1>4 DEF Shaped
<1> HIDE DEF p, e
<1>6. CASE CompensationSucceeds /\ Publish(<<e>> \o c)
  <2>1. Advance(journal', blocked', goal, 0 + 1) /\ eventCount + 0 = eventCount
    BY <1>2, <1>6 DEF CompensationSucceeds, Undone
  <2>2. c \in Seq(Events) /\ Result(Append(events, e) \o c, journal', p)
    <3> DEFINE m == 0
    <3>1. m \in Nat /\ Advance(journal', blocked', goal, m + 1)
          /\ Ledger(events, e.before, journal, eventCount + m, p)
      BY <1>2, <1>4, <2>1
    <3> HIDE DEF m
    <3> QED BY <1>1, <1>2, <1>3, <1>4, <3>1, SettlePublished
  <2> HIDE DEF c
  <2>3. events' = Append(events, e) \o c
    <3>1. events \in Seq(Events) /\ c \in Seq(Events)
      BY <1>2, <2>2
    <3>2. events \o (<<e>> \o c) = Append(events, e) \o c
      BY ONLY <1>5, <3>1, Prefixed
    <3> QED BY <1>6, <3>2 DEF Publish
  <2> QED BY <1>1, <2>2, <2>3, ResultSuffices DEF p
<1>7. CASE ReconciledUndo
           /\ Publish(<<ReconciliationResult("confirmed_effect"), e>> \o c)
  <2> DEFINE r == ReconciliationResult("confirmed_effect")
             es == Append(events, r)
  <2>1. Advance(journal', blocked', goal, 1 + 1) /\ pc = "reconciling_compensation"
    BY <1>7 DEF ReconciledUndo, Undone
  <2>2. /\ Shaped(r) /\ r.kind = "reconciliation_result"
        /\ r.before = status /\ r.after = status /\ r.undo
    <3>1. "confirmed_effect" \in Outcomes
      BY DEF Outcomes
    <3>2. /\ Shaped(r) /\ r.kind = "reconciliation_result"
          /\ r.before = status /\ r.after = status
          /\ r.undo = (pc = "reconciling_compensation")
      BY <1>2, <3>1, ReconciliationEvent
    <3> QED BY <2>1, <3>2
  <2>3. events' = events \o (<<r, e>> \o c)
    BY <1>7 DEF Publish
  <2> HIDE DEF r
  <2>4. r \in Events /\ ~Confirms(r)
    BY <2>2 DEF Shaped, Confirms
  <2>5. Ledger(es, status, journal, eventCount + 1, p)
    BY <1>2, <2>2, <2>4, UnconfirmedEvent
  <2> HIDE DEF es
  <2>6. c \in Seq(Events) /\ Result(Append(es, e) \o c, journal', p)
    <3> DEFINE m == 1
    <3>1. m \in Nat /\ Advance(journal', blocked', goal, m + 1)
          /\ Ledger(es, e.before, journal, eventCount + m, p)
      BY <1>4, <2>1, <2>5
    <3> HIDE DEF m
    <3> QED BY <1>1, <1>2, <1>3, <1>4, <3>1, SettlePublished
  <2> HIDE DEF c
  <2>7. events' = Append(es, e) \o c
    <3>1. events \o (<<r, e>> \o c) = Append(Append(events, r), e) \o c
      <4>1. events \in Seq(Events) /\ r \in Events /\ e \in Events /\ c \in Seq(Events)
        BY <1>2, <1>5, <2>4, <2>6
      <4> QED BY ONLY <4>1, PrefixedTwice
    <3> QED BY <2>3, <3>1 DEF es
  <2> QED BY <1>1, <2>6, <2>7, ResultSuffices DEF p
<1> HIDE DEF c
<1> QED BY <1>6, <1>7 DEF c, e

LEMMA DisputePublishes ==
  ASSUME IInv, LInv,
         \/ CompensationRefused /\ Publish(DisputeEvents("failed"))
         \/ UndoUnproven /\ Disputed(1) /\ Publish(DisputeEvents("unresolved"))
         \/ /\ UndoUnproven /\ Disputed(2)
            /\ \E o \in {Unclear, "confirmed_no_effect"} :
                 Publish(<<ReconciliationResult(o)>> \o DisputeEvents("unresolved"))
  PROVE  LInv'
<1> DEFINE p == freshProofs # {}
<1>1. pc \in UndoPcs /\ freshProofs' = freshProofs
  BY DEF CompensationRefused, UndoUnproven, Disputed, UndoPcs, evidence
<1>2. /\ eventCount \in Nat /\ step \in Nat /\ status \in Statuses
      /\ events \in Seq(Events)
      /\ Ledger(events, status, journal, eventCount, p)
      /\ eventCount + 0 = eventCount
  BY <1>1, UndoFacts
<1> HIDE DEF p
<1>3. CASE \E o \in {"failed", "unresolved"} : Disputed(1) /\ Publish(DisputeEvents(o))
  <2>1. PICK o \in {"failed", "unresolved"} : Disputed(1) /\ Publish(DisputeEvents(o))
    BY <1>3
  <2>2. Result(events \o DisputeEvents(o), journal', p)
    <3> DEFINE m == 0
    <3>1. m \in Nat /\ Disputed(m + 1) /\ Ledger(events, status, journal, eventCount + m, p)
      BY <1>2, <2>1
    <3> HIDE DEF m
    <3> QED BY <1>1, <3>1, DisputePublished
  <2> QED BY <1>1, <2>1, <2>2, ResultSuffices DEF Publish, p
<1>4. CASE /\ UndoUnproven /\ Disputed(2)
           /\ \E o \in {Unclear, "confirmed_no_effect"} :
                Publish(<<ReconciliationResult(o)>> \o DisputeEvents("unresolved"))
  <2>1. PICK o \in {"pending", "confirmed_no_effect"} :
          Publish(<<ReconciliationResult(o)>> \o DisputeEvents("unresolved"))
    BY <1>4 DEF Unclear
  <2> DEFINE r == ReconciliationResult(o)
             c == DisputeEvents("unresolved")
             es == Append(events, r)
  <2>2. /\ Shaped(r) /\ r.kind = "reconciliation_result"
        /\ r.before = status /\ r.after = status /\ r.undo
    <3>1. pc = "reconciling_compensation" /\ o \in Outcomes
      BY <1>4 DEF UndoUnproven, Outcomes
    <3> QED BY <1>2, <3>1, ReconciliationEvent
  <2>3. events' = events \o (<<r>> \o c)
    BY <2>1 DEF Publish
  <2> HIDE DEF r
  <2>4. r \in Events /\ ~Confirms(r)
    BY <2>2 DEF Shaped, Confirms
  <2>5. Ledger(es, status, journal, eventCount + 1, p)
    BY <1>2, <2>2, <2>4, UnconfirmedEvent
  <2> HIDE DEF es
  <2>6. c \in Seq(Events) /\ Result(es \o c, journal', p)
    <3> DEFINE m == 1
    <3>1. m \in Nat /\ Disputed(m + 1) /\ Ledger(es, status, journal, eventCount + m, p)
      BY <1>4, <2>5
    <3> HIDE DEF m
    <3> QED BY <1>1, <3>1, DisputePublished
  <2> HIDE DEF c
  <2>7. events' = es \o c
    BY <1>2, <2>3, <2>4, <2>6, Prefixed DEF es
  <2> QED BY <1>1, <2>6, <2>7, ResultSuffices DEF p
<1> QED BY <1>3, <1>4 DEF CompensationRefused

LEMMA ResolutionPublishes ==
  ASSUME IInv, LInv, NEW o \in Operators, PublishResolution(o)
  PROVE  LInv'
<1> DEFINE p == freshProofs # {}
           c == EndEvents(journal', goal)
           e == HumanResolution(desk[o].step)
<1>1. /\ pc \in UndoPcs \cup {"human"} /\ pc = "human"
      /\ journal' = Mark(journal, desk[o].step, "succeeded") /\ blocked' = FALSE
      /\ Advance(journal', blocked', goal, 1)
      /\ freshProofs' = freshProofs
      /\ CanResolve(journal, desk[o].step)
  BY DEF PublishResolution, Resolve, evidence
<1>2. /\ eventCount \in Nat /\ step \in Nat /\ status = "human_required"
      /\ events \in Seq(Events)
      /\ Ledger(events, status, journal, eventCount, p)
      /\ eventCount + 0 = eventCount
  BY <1>1, UndoFacts
<1>3. PICK i \in DOMAIN journal :
        /\ journal[i].step = step /\ journal[i].state = "unresolved"
        /\ \A k \in DOMAIN journal : k # i => journal[k].state # "unresolved"
  BY <1>1, UndoFacts
<1>4. journal[i].step = desk[o].step
  BY <1>1, <1>3 DEF CanResolve
<1>5. /\ Shaped(e) /\ e.kind = "human_resolved"
      /\ e.before = status /\ e.after = "compensating" /\ e.step = journal[i].step
  <2>1. desk[o].step \in Nat
    BY <1>2, <1>3, <1>4
  <2> QED BY <1>2, <1>4, <2>1, HumanEvent
<1>6. e \in Events
  BY <1>5 DEF Shaped
<1>7. events' = events \o (<<e>> \o c)
  BY DEF PublishResolution, Publish
<1> HIDE DEF p, e
<1>8. c \in Seq(Events) /\ Result(Append(events, e) \o c, journal', p)
  <2> DEFINE m == 0
  <2>1. m \in Nat /\ Advance(journal', blocked', goal, m + 1)
        /\ Ledger(events, e.before, journal, eventCount + m, p)
    BY <1>1, <1>2, <1>5
  <2> HIDE DEF m
  <2> QED BY <1>1, <1>3, <1>4, <1>5, <2>1, SettlePublished
<1> HIDE DEF c
<1>9. events' = Append(events, e) \o c
  BY <1>2, <1>6, <1>7, <1>8, Prefixed
<1> QED BY <1>1, <1>8, <1>9, ResultSuffices DEF p

\* A step that publishes nothing changes nothing that the history tells.
LEMMA NothingPublished ==
  ASSUME IInv, LInv, Unpublished \/ UNCHANGED ledgerVars
  PROVE  LInv'
<1>1. UNCHANGED events
  BY DEF Unpublished, ledgerVars
<1>2. UNCHANGED <<status, eventCount, journal, freshProofs>>
      /\ (pc = "closed" => pc' = "closed")
  <2>1. CASE EmptyReceipt \/ CompensationUnknown \/ CancelWhileWaiting
    <3>1. eventCount + 0 = eventCount
      BY DEF IInv, TypeOK
    <3> QED BY <2>1, <3>1 DEF EmptyReceipt, CompensationUnknown, CancelWhileWaiting, Fail,
                              Await, book, evidence
  <2>2. ASSUME NEW o \in Operators,
               \/ ReadState(o) \/ SubmitAccepted(o) \/ SubmitRejected(o)
               \/ VerificationFails(o) \/ Conflict(o)
        PROVE  UNCHANGED <<status, eventCount, journal, freshProofs>>
               /\ (pc = "closed" => pc' = "closed")
    <3>1. CASE Conflict(o)
      BY <3>1 DEF Conflict, Fail, book, evidence, Awaits
    <3>2. CASE ~Conflict(o)
      BY <2>2, <3>2 DEF ReadState, SubmitAccepted, SubmitRejected, VerificationFails,
                         control, book, evidence
    <3> QED BY <3>1, <3>2
  <2>3. CASE Rest \/ UNCHANGED vars
    BY <2>3 DEF Rest, vars, control, book, evidence
  <2> QED BY <2>1, <2>2, <2>3 DEF Unpublished, ledgerVars
<1> QED BY <1>1, <1>2 DEF LInv

LEMMA LedgerRefines == LedgerNext => Next
BY DEF LedgerNext, PublishForward, PublishReconciliation, PublishBackward, PublishResolution,
       Unpublished, Next, Forward, Backward, Human

\* The history stays in step with the journal.
LEMMA LedgerInductive == IInv /\ LInv /\ [LedgerNext]_ledgerVars => IInv' /\ LInv'
<1> SUFFICES ASSUME IInv, LInv, [LedgerNext]_ledgerVars PROVE IInv' /\ LInv'
  OBVIOUS
<1>1. IInv'
  BY LedgerRefines, NextIInv DEF ledgerVars
<1>2. CASE PublishForward
  BY <1>1, <1>2, StartPublishes, StopPublishes, CallPublishes, FinishPublishes, SuccessPublishes,
     FailurePublishes, UnknownPublishes DEF PublishForward
<1>3. CASE PublishReconciliation
  BY <1>1, <1>3, SuccessPublishes, FailurePublishes, StillUnknownPublishes DEF PublishReconciliation
<1>4. CASE PublishBackward
  BY <1>1, <1>4, SettlementPublishes, DisputePublishes DEF PublishBackward
<1>5. CASE \E o \in Operators : PublishResolution(o)
  BY <1>1, <1>5, ResolutionPublishes
<1>6. CASE Unpublished \/ UNCHANGED ledgerVars
  BY <1>1, <1>6, NothingPublished
<1> QED BY <1>1, <1>2, <1>3, <1>4, <1>5, <1>6 DEF LedgerNext

LEMMA LedgerBegins == LedgerInit => IInv /\ LInv
<1> SUFFICES ASSUME LedgerInit PROVE IInv /\ LInv
  OBVIOUS
<1>1. IInv /\ journal = << >> /\ events = << >> /\ eventCount = 0 /\ status = "running"
      /\ freshProofs = {}
  BY InitIInv DEF LedgerInit, Init
<1>2. AuditOf(events) = Obligations(journal)
  <2>1. Obligations(journal) = << >>
    BY <1>1 DEF Obligations
  <2> QED BY <1>1, <2>1, AuditOfNothing
<1>3. History(events, status, journal)
  BY <1>1, <1>2 DEF History, ValidHistory, StatusChain, Linked, Evidenced
<1>4. Len(events) = 0 /\ DOMAIN events = {}
  BY <1>1
<1> QED BY <1>1, <1>3, <1>4 DEF LInv, Concluded, NoneCompleted, ProofsHold, Upright

(***************************************************************************)
(* At every await the published history is the whole story of the journal: *)
(* an unbroken chain of statuses up to the published one, an obligation    *)
(* for every confirmed effect in the state its events left it in, and the  *)
(* evidence for every settled one.                                         *)
(***************************************************************************)
THEOREM LedgerInvariance == LedgerSpec => [](IInv /\ LInv)
BY LedgerBegins, LedgerInductive, PTL DEF LedgerSpec

----------------------------------------------------------------------------
(***************************************************************************)
(* What the readers of the history make of it.                             *)
(***************************************************************************)

LEMMA LedgerTyped == ASSUME IInv, LInv PROVE LedgerTypeOK
<1>1. events \in Seq(Events) /\ TypeOK /\ Len(events) = eventCount
  BY DEF IInv, LInv, History, ValidHistory
<1>2. \A i \in DOMAIN events : events[i] \in Events
  BY <1>1
<1> QED BY <1>1, <1>2 DEF LedgerTypeOK, Events

\* The events are typed, and their number is the sequence number that
\* proposals and resolutions are checked against (LedgerTypeOK).
THEOREM LedgerTypes == LedgerSpec => []LedgerTypeOK
<1>1. IInv /\ LInv => LedgerTypeOK
  BY LedgerTyped
<1> QED BY <1>1, LedgerInvariance, PTL

LEMMA ExportAccepted == ASSUME IInv, LInv PROVE ExportIsValid
<1> SUFFICES ASSUME pc # "created" PROVE ValidRunTrace(events, status)
  BY DEF ExportIsValid
<1>1. /\ events \in Seq(Events) /\ events # << >>
      /\ \A i \in DOMAIN events : Shaped(events[i])
      /\ StatusChain(events) /\ events[Len(events)].after = status
      /\ events[1].kind = "started"
  <2>1. Len(events) > 0
    BY DEF IInv, PlaceInv, LInv
  <2> QED BY <2>1 DEF LInv, History, ValidHistory
<1>2. ProofSources(events)
  <2> SUFFICES ASSUME NEW i \in DOMAIN events, IsProof(events[i]) PROVE i - 1 >= 1
    BY DEF ProofSources, TraceProofs
  <2>1. i \in Nat /\ i >= 1
    BY <1>1
  <2>2. i # 1
    BY <1>1 DEF IsProof
  <2> QED BY <2>1, <2>2
<1> QED BY <1>1, <1>2 DEF ValidRunTrace, OutcomeIsLast

\* Whenever the state is exported, the validators of the trace contract
\* accept the projection (ExportIsValid).
THEOREM ExportValid == LedgerSpec => []ExportIsValid
<1>1. IInv /\ LInv => ExportIsValid
  BY ExportAccepted
<1> QED BY <1>1, LedgerInvariance, PTL

\* An audit of the history alone finds the obligations that a query returns,
\* in the same states and the same order (AuditAgreesWithQueries).
THEOREM AuditAgrees == LedgerSpec => []AuditAgreesWithQueries
<1>1. IInv /\ LInv => AuditAgreesWithQueries
  BY DEF IInv, JournalInv, LInv, History, AuditAgreesWithQueries, AuditOf, Obligations
<1> QED BY <1>1, LedgerInvariance, PTL

\* The last position found is one of those found.
LEMMA LastFound ==
  ASSUME NEW S, NEW es \in Seq(S), NEW found, found \subseteq DOMAIN es, found # {}
  PROVE  LastOf(found) \in found /\ LastOf(found) # 0
<1>1. Len(es) \in Nat /\ found \subseteq 1 .. Len(es)
  OBVIOUS
<1>2. Max(found) \in found
  BY <1>1, Largest
<1> QED BY <1>1, <1>2 DEF LastOf

LEMMA RecoveryVerified ==
  ASSUME LInv, status = "compensated_verified"
  PROVE  RecoveryCompleted(events, status)
<1> DEFINE found == {i \in DOMAIN events : events[i].kind = "compensation_completed"}
           r == LastOf(found)
<1>1. events \in Seq(Events)
  BY DEF LInv, History, ValidHistory
<1>2. found # {} /\ found \subseteq DOMAIN events
  BY DEF LInv, Concluded, IsCompleted
<1>3. r \in found /\ r # 0
  BY <1>1, <1>2, LastFound
<1>4. /\ events[r].outcome = status /\ events[r].undone # << >>
      /\ \A n \in DOMAIN events[r].undone :
            \E k \in DOMAIN journal :
              events[r].undone[n] = journal[k].step /\ journal[k].state = "succeeded"
  BY <1>3 DEF LInv, Concluded, IsCompleted
<1>5. \A n \in DOMAIN events[r].undone : Confirmed(events, events[r].undone[n])
  BY <1>4 DEF LInv, History, Evidenced
<1> QED BY <1>3, <1>4, <1>5 DEF RecoveryCompleted

LEMMA SuccessVerified ==
  ASSUME LInv, status = "succeeded_verified", Proofs # {}
  PROVE  ProofCompleted(events, status)
<1> DEFINE found == {i \in DOMAIN events : IsProof(events[i])}
           r == LastOf(found)
<1>1. events \in Seq(Events)
  BY DEF LInv, History, ValidHistory
<1>2. found # {} /\ found \subseteq DOMAIN events
  BY DEF LInv, SomeProof
<1>3. r \in found
  BY <1>1, <1>2, LastFound
<1>4. events[r].outcome = "succeeded"
  BY <1>3 DEF LInv, ProofsHold, Upright
<1> DEFINE proof == [source |-> r, evaluatedAt |-> r - 1, target |-> "succeeded_verified",
                     valid |-> events[r].outcome = "succeeded"]
<1>5. proof \in TraceProofs(events)
  BY <1>3 DEF TraceProofs
<1>6. proof.source = r /\ proof.valid /\ proof.target = status
  BY <1>4
<1> HIDE DEF proof
<1> QED BY <1>5, <1>6 DEF ProofCompleted

LEMMA OnlyVerified ==
  ASSUME NEW es, NEW outcome, TerminalVerified(es, outcome)
  PROVE  outcome \in {"succeeded_verified", "compensated_verified"}
<1>1. CASE outcome # "compensated_verified"
  <2>1. PICK p \in TraceProofs(es) : p.target = outcome
    BY <1>1 DEF TerminalVerified, ProofCompleted
  <2> QED BY <2>1 DEF TraceProofs
<1> QED BY <1>1

(***************************************************************************)
(* The recorder calls an outcome verified exactly when the workflow does   *)
(* (VerifiedMeansVerified), in a saga that declares a proof tool.  Without *)
(* one the workflow finishes as soon as the required tools have succeeded, *)
(* and the recorder has no proof to show for it.                           *)
(***************************************************************************)
THEOREM VerifiedOutcomes ==
  ASSUME Proofs # {}
  PROVE  LedgerSpec => []VerifiedMeansVerified
<1>1. IInv /\ LInv => VerifiedMeansVerified
  BY RecoveryVerified, SuccessVerified, OnlyVerified DEF VerifiedMeansVerified, TerminalVerified
<1> QED BY <1>1, LedgerInvariance, PTL

----------------------------------------------------------------------------
(***************************************************************************)
(* The chain around an event.                                              *)
(***************************************************************************)

(***************************************************************************)
(* The recursion of CausalIds: it has a solution (the least closed set     *)
(* above its argument), and two unfoldings reach it from any event.        *)
(***************************************************************************)
AllIds(es) == UNION {IdsOf(es[k]) : k \in DOMAIN es}

Widened(es, ids) == ids \cup UNION {IdsOf(es[k]) : k \in TouchedBy(es, ids)}

Extending(es, g) ==
  g = [ids \in SUBSET AllIds(es) |->
         IF Widened(es, ids) = ids THEN ids ELSE g[Widened(es, ids)]]

Doing(s) == [step |-> s, undo |-> FALSE]
Undoing(s) == [step |-> s, undo |-> TRUE]

LEMMA Widening ==
  ASSUME NEW es, NEW c \in SUBSET AllIds(es)
  PROVE  /\ c \subseteq Widened(es, c) /\ Widened(es, c) \in SUBSET AllIds(es)
         /\ \A ids \in SUBSET c : Widened(es, ids) \subseteq Widened(es, c)
<1>1. c \subseteq Widened(es, c)
  BY DEF Widened
<1>2. Widened(es, c) \in SUBSET AllIds(es)
  BY DEF Widened, AllIds, TouchedBy
<1>3. ASSUME NEW ids \in SUBSET c PROVE Widened(es, ids) \subseteq Widened(es, c)
  <2>1. TouchedBy(es, ids) \subseteq TouchedBy(es, c)
    BY DEF TouchedBy
  <2> QED BY <2>1 DEF Widened
<1> QED BY <1>1, <1>2, <1>3

LEMMA ExtendingExists ==
  ASSUME NEW es
  PROVE  \E g : Extending(es, g)
<1> DEFINE U == AllIds(es)
           Above(ids) == {c \in SUBSET U : ids \subseteq c /\ Widened(es, c) = c}
           least(ids) == {x \in U : \A c \in Above(ids) : x \in c}
           g == [ids \in SUBSET U |-> least(ids)]
<1>1. ASSUME NEW ids \in SUBSET U
      PROVE  g[ids] = IF Widened(es, ids) = ids THEN ids ELSE g[Widened(es, ids)]
  <2>1. Widened(es, ids) \in SUBSET U /\ ids \subseteq Widened(es, ids)
    BY Widening
  <2>2. CASE Widened(es, ids) = ids
    <3>1. ids \in Above(ids) /\ \A c \in Above(ids) : ids \subseteq c
      BY <2>2
    <3>2. least(ids) = ids
      BY <3>1
    <3> QED BY <2>2, <3>2
  <2>3. Above(Widened(es, ids)) = Above(ids)
    <3>1. ASSUME NEW c \in Above(ids) PROVE Widened(es, ids) \subseteq c
      BY Widening
    <3> QED BY <2>1, <3>1
  <2>4. least(ids) = least(Widened(es, ids))
    BY <2>3
  <2> QED BY <2>1, <2>2, <2>4
<1>2. g = [ids \in SUBSET U |-> g[ids]]
  OBVIOUS
<1> HIDE DEF g
<1>3. Extending(es, g)
  BY <1>1, <1>2 DEF Extending
<1> QED BY <1>3

LEMMA CausalUnfolded ==
  ASSUME NEW es, NEW i
  PROVE  CausalIds(es, i) = (CHOOSE g : Extending(es, g))[IdsOf(es[i])]
BY DEF CausalIds, Extending, AllIds, Widened

(***************************************************************************)
(* The ids of an event.                                                    *)
(***************************************************************************)
LEMMA IdsOfEvent ==
  ASSUME NEW e, Shaped(e)
  PROVE  /\ \A id \in IdsOf(e) : id.step = e.step
         /\ e.step # 0 =>
              \/ e.kind \in {"forward_result", "reconciliation_result"}
                 /\ IdsOf(e) = {Doing(e.step)}
              \/ e.kind = "compensation_result"
                 /\ IdsOf(e) = {Doing(e.step), Undoing(e.step)}
              \/ e.kind = "human_resolved" /\ IdsOf(e) = {Undoing(e.step)}
<1>1. /\ e.step \in Nat /\ e.undo \in BOOLEAN
      /\ e.kind \in PlainKinds \cup UndoKinds
                      \cup {"forward_result", "reconciliation_result", "compensation_completed"}
  BY DEF Shaped, Events, Kinds, PlainKinds, UndoKinds
<1>2. CASE e.kind \in PlainKinds \cup {"compensation_completed"}
  <2>1. e.step = 0 /\ ~e.undo
    BY <1>2 DEF Shaped
  <2>2. OperationId(e).step = 0 /\ CompensatesOperationId(e).step = 0
    BY <2>1 DEF OperationId, CompensatesOperationId
  <2> QED BY <2>1, <2>2 DEF IdsOf
<1>3. CASE e.kind = "forward_result"
  <2>1. ~e.undo
    BY <1>3 DEF Shaped
  <2>2. OperationId(e) = Doing(e.step) /\ CompensatesOperationId(e) = Doing(0)
    BY <2>1 DEF OperationId, CompensatesOperationId, Doing
  <2> QED BY <1>3, <2>2 DEF IdsOf, Doing
<1>4. CASE e.kind = "reconciliation_result"
  <2>1. OperationId(e) = Doing(e.step)
    BY <1>4 DEF OperationId, Doing
  <2>2. CompensatesOperationId(e) \in {Doing(0), Doing(e.step)}
    BY <1>1, <1>4 DEF CompensatesOperationId, Doing
  <2> QED BY <1>4, <2>1, <2>2 DEF IdsOf, Doing
<1>5. CASE e.kind = "compensation_result"
  <2>1. e.undo
    BY <1>5 DEF Shaped, UndoKinds
  <2>2. OperationId(e) = Undoing(e.step) /\ CompensatesOperationId(e) = Doing(e.step)
    BY <1>5, <2>1 DEF OperationId, CompensatesOperationId, Doing, Undoing
  <2> QED BY <1>5, <2>2 DEF IdsOf, Doing, Undoing
<1>6. CASE e.kind = "human_resolved"
  <2>1. e.undo
    BY <1>6 DEF Shaped, UndoKinds
  <2>2. OperationId(e) = Undoing(e.step) /\ CompensatesOperationId(e) = Doing(0)
    BY <1>6, <2>1 DEF OperationId, CompensatesOperationId, Doing, Undoing
  <2> QED BY <1>6, <2>2 DEF IdsOf, Doing, Undoing
<1> QED BY <1>1, <1>2, <1>3, <1>4, <1>5, <1>6 DEF UndoKinds

(***************************************************************************)
(* What is reached from an event with a step of its own.                   *)
(***************************************************************************)
LEMMA ReachedIds ==
  ASSUME NEW es, \A k \in DOMAIN es : Shaped(es[k]), NEW i \in DOMAIN es, es[i].step # 0
  PROVE  LET r == CausalIds(es, i)
             s == es[i].step
         IN  /\ IdsOf(es[i]) \subseteq r /\ r \subseteq {Doing(s), Undoing(s)}
             /\ Widened(es, r) = r
<1> DEFINE s == es[i].step
           g == CHOOSE g : Extending(es, g)
           U == AllIds(es)
           a == IdsOf(es[i])
           b == Widened(es, a)
           both == {Doing(s), Undoing(s)}
<1>1. g = [ids \in SUBSET U |-> IF Widened(es, ids) = ids THEN ids ELSE g[Widened(es, ids)]]
  BY ExtendingExists DEF Extending
<1>2. CausalIds(es, i) = g[a]
  BY CausalUnfolded
<1> HIDE DEF g
<1>3. a \in SUBSET U /\ a # {} /\ a \subseteq both
  <2>1. a # {} /\ a \subseteq both
    BY IdsOfEvent
  <2> QED BY <2>1 DEF AllIds
<1>4. \A ids \in SUBSET both : Widened(es, ids) \subseteq both
  <2> SUFFICES ASSUME NEW ids \in SUBSET both, NEW k \in DOMAIN es,
                      IdsOf(es[k]) \cap ids # {}, NEW id \in IdsOf(es[k])
               PROVE  id \in both
    BY DEF Widened, TouchedBy
  <2>1. es[k].step = s
    BY IdsOfEvent DEF Doing, Undoing
  <2> QED BY <2>1, IdsOfEvent
<1>5. b \in SUBSET U /\ a \subseteq b /\ b \subseteq both
  BY <1>3, <1>4, Widening
<1>6. b # a => b = both
  <2>1. Doing(s) # Undoing(s)
    BY DEF Doing, Undoing
  <2> QED BY <1>3, <1>5
<1>7. Widened(es, b) \in SUBSET U /\ b \subseteq Widened(es, b) /\ Widened(es, b) \subseteq both
  BY <1>4, <1>5, Widening
<1> HIDE DEF a, b, both, U
<1>8. CASE b = a
  <2>1. g[a] = a
    BY <1>1, <1>3, <1>8 DEF b
  <2> QED BY <1>2, <1>3, <1>8, <2>1 DEF a, b, both
<1>9. CASE b # a
  <2>1. Widened(es, b) = b
    BY <1>6, <1>7, <1>9
  <2>2. g[a] = g[b]
    BY <1>1, <1>3, <1>9 DEF b
  <2>3. g[b] = b
    BY <1>1, <1>5, <2>1
  <2> QED BY <1>2, <1>5, <2>1, <2>2, <2>3 DEF a, both
<1> QED BY <1>8, <1>9

\* The chain around an event is everything that happened to its step.
LEMMA ChainFound ==
  ASSUME NEW es, \A k \in DOMAIN es : Shaped(es[k]), Linked(es),
         NEW i \in DOMAIN es, es[i].step # 0
  PROVE  CausalEvents(es, i) = {k \in DOMAIN es : es[k].step = es[i].step}
<1> DEFINE s == es[i].step
           r == CausalIds(es, i)
<1>1. IdsOf(es[i]) \subseteq r /\ r \subseteq {Doing(s), Undoing(s)} /\ Widened(es, r) = r
  BY ReachedIds
<1> HIDE DEF r
<1>2. ASSUME NEW k \in TouchedBy(es, r) PROVE IdsOf(es[k]) \subseteq r
  BY <1>1, <1>2 DEF Widened
<1>3. ASSUME NEW k \in DOMAIN es, es[k].step = s
      PROVE  \/ Doing(s) \in IdsOf(es[k])
             \/ /\ IdsOf(es[k]) = {Undoing(s)}
                /\ \E m \in DOMAIN es : IdsOf(es[m]) = {Doing(s), Undoing(s)}
  <2>1. CASE es[k].kind = "human_resolved"
    <3>1. PICK m \in DOMAIN es : es[m].kind = "compensation_result" /\ es[m].step = s
      BY <1>3, <2>1 DEF Linked, UndoReported
    <3> QED BY <1>3, <2>1, <3>1, IdsOfEvent
  <2>2. CASE es[k].kind # "human_resolved"
    BY <1>3, <2>2, IdsOfEvent
  <2> QED BY <2>1, <2>2
<1>4. Doing(s) \in r
  <2>1. CASE Doing(s) \in IdsOf(es[i])
    BY <1>1, <2>1
  <2>2. CASE Doing(s) \notin IdsOf(es[i])
    <3>1. IdsOf(es[i]) = {Undoing(s)}
          /\ \E m \in DOMAIN es : IdsOf(es[m]) = {Doing(s), Undoing(s)}
      BY <1>3, <2>2
    <3>2. PICK m \in DOMAIN es : IdsOf(es[m]) = {Doing(s), Undoing(s)}
      BY <3>1
    <3>3. m \in TouchedBy(es, r)
      BY <1>1, <3>1, <3>2 DEF TouchedBy
    <3> QED BY <1>2, <3>2, <3>3
  <2> QED BY <2>1, <2>2
<1>5. ASSUME NEW k \in DOMAIN es, es[k].step = s PROVE k \in TouchedBy(es, r)
  <2>1. CASE Doing(s) \in IdsOf(es[k])
    BY <1>4, <2>1 DEF TouchedBy
  <2>2. CASE Doing(s) \notin IdsOf(es[k])
    <3>1. IdsOf(es[k]) = {Undoing(s)}
          /\ \E m \in DOMAIN es : IdsOf(es[m]) = {Doing(s), Undoing(s)}
      BY <1>3, <1>5, <2>2
    <3>2. PICK m \in DOMAIN es : IdsOf(es[m]) = {Doing(s), Undoing(s)}
      BY <3>1
    <3>3. m \in TouchedBy(es, r)
      BY <1>4, <3>2 DEF TouchedBy
    <3>4. Undoing(s) \in r
      BY <1>2, <3>2, <3>3
    <3> QED BY <3>1, <3>4 DEF TouchedBy
  <2> QED BY <2>1, <2>2
<1>6. ASSUME NEW k \in TouchedBy(es, r) PROVE k \in DOMAIN es /\ es[k].step = s
  <2>1. k \in DOMAIN es /\ \E id \in IdsOf(es[k]) : id \in {Doing(s), Undoing(s)}
    BY <1>1, <1>6 DEF TouchedBy
  <2> QED BY <2>1, IdsOfEvent DEF Doing, Undoing
<1> QED BY <1>5, <1>6 DEF CausalEvents, r

\* The chain the recorder isolates around an event is the life of one
\* obligation, in every state of the history (ChainIsOneObligation).
THEOREM ChainsAreObligations == LedgerSpec => []ChainIsOneObligation
<1>1. IInv /\ LInv => ChainIsOneObligation
  BY ChainFound DEF LInv, History, ValidHistory, ChainIsOneObligation
<1> QED BY <1>1, LedgerInvariance, PTL
\* Publishing adds nothing to what the workflow does: the ledger implements
\* it, and with it the contract of a saga.
THEOREM LedgerIsTheWorkflow == LedgerSpec => Spec /\ ImplementsContract
<1>1. LedgerInit => Init
  BY DEF LedgerInit
<1>2. [LedgerNext]_ledgerVars => [Next]_vars
  BY LedgerRefines DEF ledgerVars
<1> QED BY <1>1, <1>2, Refinement, PTL DEF LedgerSpec, Spec

============================================================================
