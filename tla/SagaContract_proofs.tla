---------------------- MODULE SagaContract_proofs ----------------------
(***************************************************************************)
(* The contract of a saga keeps its own promises, for any number of        *)
(* obligations.                                                            *)
(***************************************************************************)
EXTENDS SagaContract, TLAPS

ByPhase ==
  /\ phase = "forward" => Owed = DOMAIN obligations
  /\ phase = "unwinding" => \A i \in DOMAIN obligations : obligations[i] # "unresolved"
  /\ phase # "closed" => verdict = "none"

IInv == TypeOK /\ NewestFirst /\ VerdictMeansIt /\ ByPhase

LEMMA InitIInv == Init => IInv
BY DEF Init, IInv, TypeOK, NewestFirst, VerdictMeansIt, ByPhase, Owed, Verdicts

\* Replacing one obligation keeps the others where they are.
LEMMA Replacing ==
  ASSUME NEW o \in Seq(ObligationStates), NEW i \in DOMAIN o, NEW st \in ObligationStates,
         NEW p, p = [o EXCEPT ![i] = st]
  PROVE  /\ p \in Seq(ObligationStates)
         /\ DOMAIN p = DOMAIN o
         /\ p[i] = st
         /\ \A k \in DOMAIN o : k # i => p[k] = o[k]
OBVIOUS

LEMMA NextIInv == IInv /\ [Next]_vars => IInv'
<1> SUFFICES ASSUME IInv, [Next]_vars PROVE IInv'
  OBVIOUS
<1> USE DEF IInv, TypeOK, ObligationStates, Verdicts
<1>1. CASE Incur
  <2>1. /\ Len(obligations') = Len(obligations) + 1
        /\ DOMAIN obligations' = 1 .. Len(obligations) + 1
        /\ DOMAIN obligations = 1 .. Len(obligations)
        /\ \A i \in DOMAIN obligations' : obligations'[i] = "pending"
    BY <1>1 DEF Incur, ByPhase, Owed
  <2>2. TypeOK'
    BY <1>1 DEF Incur
  <2>3. NewestFirst' /\ VerdictMeansIt' /\ ByPhase'
    BY <1>1, <2>1 DEF Incur, NewestFirst, VerdictMeansIt, ByPhase, Owed
  <2> QED BY <2>2, <2>3
<1>2. CASE GiveUp
  BY <1>2 DEF GiveUp, NewestFirst, VerdictMeansIt, ByPhase, Owed
<1>3. CASE ConcludeForward
  BY <1>3 DEF ConcludeForward, NewestFirst, VerdictMeansIt, ByPhase, Owed, Settled
<1>4. CASE Settle
  <2>1. PICK i \in DOMAIN obligations :
          Newest(i) /\ obligations' = [obligations EXCEPT ![i] = "succeeded"]
    BY <1>4 DEF Settle
  <2>2. /\ obligations' \in Seq(ObligationStates)
        /\ DOMAIN obligations' = DOMAIN obligations
        /\ obligations'[i] = "succeeded"
        /\ \A k \in DOMAIN obligations : k # i => obligations'[k] = obligations[k]
    BY <2>1, Replacing
  <2>3. /\ phase = "unwinding" /\ GoOnOrConclude
        /\ \A k \in DOMAIN obligations : obligations[k] # "unresolved"
    BY <1>4 DEF Settle, ByPhase
  <2>4. NewestFirst'
    <3> SUFFICES ASSUME NEW a \in DOMAIN obligations, NEW b \in DOMAIN obligations,
                        a < b, obligations'[a] # "pending"
                 PROVE  obligations'[b] = "succeeded"
      BY <2>2 DEF NewestFirst
    <3>1. CASE b = i
      BY <3>1, <2>2
    <3>2. CASE b # i /\ a = i
      BY <3>2, <2>1, <2>2, <2>3 DEF Newest, Owed
    <3>3. CASE b # i /\ a # i
      BY <3>3, <2>2 DEF NewestFirst
    <3> QED BY <3>1, <3>2, <3>3
  <2>5. VerdictMeansIt' /\ ByPhase' /\ TypeOK'
    BY <2>2, <2>3 DEF GoOnOrConclude, VerdictMeansIt, ByPhase, Settled, Owed
  <2> QED BY <2>4, <2>5
<1>5. CASE Dispute
  <2>1. PICK i \in DOMAIN obligations :
          Newest(i) /\ obligations' = [obligations EXCEPT ![i] = "unresolved"]
    BY <1>5 DEF Dispute
  <2>2. /\ obligations' \in Seq(ObligationStates)
        /\ DOMAIN obligations' = DOMAIN obligations
        /\ obligations'[i] = "unresolved"
        /\ \A k \in DOMAIN obligations : k # i => obligations'[k] = obligations[k]
    BY <2>1, Replacing
  <2>3. \A k \in DOMAIN obligations : obligations[k] # "unresolved"
    BY <1>5 DEF Dispute, ByPhase
  <2>4. NewestFirst'
    <3> SUFFICES ASSUME NEW a \in DOMAIN obligations, NEW b \in DOMAIN obligations,
                        a < b, obligations'[a] # "pending"
                 PROVE  obligations'[b] = "succeeded"
      BY <2>2 DEF NewestFirst
    <3>1. CASE b = i
      BY <3>1, <2>1, <2>2 DEF NewestFirst, Newest, Owed
    <3>2. CASE b # i /\ a = i
      BY <3>2, <2>1, <2>2, <2>3 DEF Newest, Owed
    <3>3. CASE b # i /\ a # i
      BY <3>3, <2>2 DEF NewestFirst
    <3> QED BY <3>1, <3>2, <3>3
  <2>5. VerdictMeansIt' /\ ByPhase' /\ TypeOK'
    BY <1>5, <2>2 DEF Dispute, VerdictMeansIt, ByPhase, Owed
  <2> QED BY <2>4, <2>5
<1>6. CASE Adjudicate
  <2>1. PICK i \in DOMAIN obligations :
          obligations[i] = "unresolved" /\ obligations' = [obligations EXCEPT ![i] = "succeeded"]
    BY <1>6 DEF Adjudicate
  <2>2. /\ obligations' \in Seq(ObligationStates)
        /\ DOMAIN obligations' = DOMAIN obligations
        /\ obligations'[i] = "succeeded"
        /\ \A k \in DOMAIN obligations : k # i => obligations'[k] = obligations[k]
    BY <2>1, Replacing
  <2>3. phase = "paused" /\ GoOnOrConclude
    BY <1>6 DEF Adjudicate
  <2>4. \A k \in DOMAIN obligations : k # i => obligations[k] # "unresolved"
    <3> SUFFICES ASSUME NEW k \in DOMAIN obligations, k # i, obligations[k] = "unresolved"
                 PROVE  FALSE
      OBVIOUS
    <3>1. k < i \/ i < k
      OBVIOUS
    <3> QED BY <3>1, <2>1 DEF NewestFirst
  <2>5. NewestFirst'
    BY <2>1, <2>2 DEF NewestFirst
  <2>6. VerdictMeansIt' /\ ByPhase' /\ TypeOK'
    BY <2>2, <2>3, <2>4 DEF GoOnOrConclude, VerdictMeansIt, ByPhase, Settled, Owed
  <2> QED BY <2>5, <2>6
<1>7. CASE Abandon
  BY <1>7 DEF Abandon, NewestFirst, VerdictMeansIt, ByPhase, Owed
<1>8. CASE UNCHANGED vars
  BY <1>8 DEF vars, NewestFirst, VerdictMeansIt, ByPhase, Owed, Settled
<1> QED BY <1>1, <1>2, <1>3, <1>4, <1>5, <1>6, <1>7, <1>8 DEF Next

(***************************************************************************)
(* Obligations are settled newest first and at most one is in dispute.     *)
(***************************************************************************)
THEOREM ContractNewestFirst == Spec => []NewestFirst
<1>1. IInv => NewestFirst
  BY DEF IInv
<1> QED BY InitIInv, NextIInv, <1>1, PTL DEF Spec

(***************************************************************************)
(* The verdict of a closed saga is true of its obligations.                *)
(***************************************************************************)
THEOREM ContractVerdict == Spec => []VerdictMeansIt
<1>1. IInv => VerdictMeansIt
  BY DEF IInv
<1> QED BY InitIInv, NextIInv, <1>1, PTL DEF Spec

========================================================================
