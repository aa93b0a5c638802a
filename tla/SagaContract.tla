------------------------- MODULE SagaContract --------------------------
(***************************************************************************)
(* What a saga promises, whoever drives it: obligations are incurred only  *)
(* by forward work, forward work never resumes once it was given up,       *)
(* obligations are settled newest first, an obligation whose undo cannot   *)
(* be proven pauses the saga until somebody else settles it, and the       *)
(* verdict published at the end is true of the obligations.                *)
(***************************************************************************)
EXTENDS Naturals, Sequences

VARIABLES
  phase,        \* forward work, unwinding, paused for a human, or closed
  obligations,  \* one entry per confirmed effect, oldest first
  verdict       \* what the saga reported when it closed

vars == <<phase, obligations, verdict>>

ObligationStates == {"pending", "succeeded", "unresolved"}
Verdicts == {"none", "succeeded_verified", "compensated_verified",
             "aborted_clean", "human_required", "cancelled"}

Owed == {i \in DOMAIN obligations : obligations[i] = "pending"}
Newest(i) == i \in Owed /\ \A k \in Owed : k <= i
Settled(o) == \A i \in DOMAIN o : o[i] = "succeeded"

Init ==
  /\ phase = "forward"
  /\ obligations = << >>
  /\ verdict = "none"

\* A forward effect is confirmed; the same step may also give the goal up.
Incur ==
  /\ phase = "forward"
  /\ obligations' = Append(obligations, "pending")
  /\ phase' \in {"forward", "unwinding"}
  /\ UNCHANGED verdict

GiveUp ==
  /\ phase = "forward"
  /\ obligations # << >>
  /\ phase' = "unwinding"
  /\ UNCHANGED <<obligations, verdict>>

\* The goal is reached, or nothing was done that would have to be undone.
ConcludeForward ==
  /\ phase = "forward"
  /\ phase' = "closed"
  /\ \/ verdict' = "succeeded_verified"
     \/ obligations = << >> /\ verdict' \in {"aborted_clean", "human_required"}
  /\ UNCHANGED obligations

\* An undo ends the unwind only when no obligation is left.
GoOnOrConclude ==
  \/ phase' = "unwinding" /\ UNCHANGED verdict
  \/ /\ Settled(obligations')
     /\ phase' = "closed"
     /\ verdict' \in {"compensated_verified", "human_required"}

Settle ==
  /\ phase = "unwinding"
  /\ \E i \in DOMAIN obligations :
       Newest(i) /\ obligations' = [obligations EXCEPT ![i] = "succeeded"]
  /\ GoOnOrConclude

Dispute ==
  /\ phase = "unwinding"
  /\ \E i \in DOMAIN obligations :
       Newest(i) /\ obligations' = [obligations EXCEPT ![i] = "unresolved"]
  /\ phase' = "paused"
  /\ UNCHANGED verdict

Adjudicate ==
  /\ phase = "paused"
  /\ \E i \in DOMAIN obligations :
       /\ obligations[i] = "unresolved"
       /\ obligations' = [obligations EXCEPT ![i] = "succeeded"]
  /\ GoOnOrConclude

\* Whoever started the saga may cancel it while it waits.
Abandon ==
  /\ phase = "paused"
  /\ phase' = "closed"
  /\ verdict' = "cancelled"
  /\ UNCHANGED obligations

Next ==
  \/ Incur
  \/ GiveUp
  \/ ConcludeForward
  \/ Settle
  \/ Dispute
  \/ Adjudicate
  \/ Abandon

Spec == Init /\ [][Next]_vars

(***************************************************************************)
(* Type invariant of the contract.                                         *)
(***************************************************************************)
TypeOK ==
  /\ phase \in {"forward", "unwinding", "paused", "closed"}
  /\ obligations \in Seq(ObligationStates)
  /\ verdict \in Verdicts

(***************************************************************************)
(* Newest first: an obligation is touched only when every later one is     *)
(* settled, so at most one undo is ever in doubt.                          *)
(***************************************************************************)
NewestFirst ==
  \A i, k \in DOMAIN obligations :
    i < k /\ obligations[i] # "pending" => obligations[k] = "succeeded"

(***************************************************************************)
(* The verdict is true: a saga that reports a completed compensation has   *)
(* settled everything, one that reports a clean abort owed nothing, and a  *)
(* successful one has undone nothing.                                      *)
(***************************************************************************)
VerdictMeansIt ==
  /\ verdict = "compensated_verified" => Settled(obligations)
  /\ verdict = "human_required" => Settled(obligations)
  /\ verdict = "aborted_clean" => obligations = << >>
  /\ verdict = "succeeded_verified" => \A i \in DOMAIN obligations : obligations[i] = "pending"

========================================================================
