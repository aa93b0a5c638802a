---------------------- MODULE CompensationJournal ----------------------
(***************************************************************************)
(* The journal of proven forward obligations of temporal/journal.py, as    *)
(* operators over a sequence of entries.  An entry stands for one          *)
(* CompensationRecord: `step' identifies the forward operation (the event  *)
(* sequence its proposal was based on, from which both operation ids of    *)
(* the record are derived), `tool' names the forward tool (and, through    *)
(* the tool declaration, the compensation tool), and `state' is the state  *)
(* of the undo.  Receipts, arguments and reason texts are abstracted away. *)
(***************************************************************************)
EXTENDS Naturals, Sequences

EntryStates == {"pending", "succeeded", "unresolved"}

Entries(Tool) == [step : Nat, tool : Tool, state : EntryStates]

PendingAt(j) == {i \in DOMAIN j : j[i].state = "pending"}

UnresolvedAt(j) == {i \in DOMAIN j : j[i].state = "unresolved"}

\* A plausible fault: the obligations are undone in forward order.
OldestPending(j, i) == i \in PendingAt(j) /\ \A k \in PendingAt(j) : i <= k

(***************************************************************************)
(* next_request: the frontier of the unwind is the newest pending entry.   *)
(***************************************************************************)
IsFrontier(j, i) == i \in PendingAt(j) /\ \A k \in PendingAt(j) : k <= i

Contains(j, s) == \E i \in DOMAIN j : j[i].step = s

\* A plausible fault: one obligation per tool, the latest call wins.
RecordByTool(j, s, t) ==
  IF \E i \in DOMAIN j : j[i].tool = t
    THEN [i \in DOMAIN j |-> IF j[i].tool = t THEN [j[i] EXCEPT !.step = s] ELSE j[i]]
    ELSE Append(j, [step |-> s, tool |-> t, state |-> "pending"])

(***************************************************************************)
(* record_forward_success: a confirmed effect is appended as a pending     *)
(* obligation, once per operation id.                                      *)
(***************************************************************************)
RecordForward(j, s, t) ==
  IF Contains(j, s)
    THEN j
    ELSE Append(j, [step |-> s, tool |-> t, state |-> "pending"])

(***************************************************************************)
(* The rewriting of _updated and _human_resolved: the entry of operation s *)
(* moves to state st, every other entry is kept.                           *)
(***************************************************************************)
Mark(j, s, st) ==
  [i \in DOMAIN j |-> IF j[i].step = s THEN [j[i] EXCEPT !.state = st] ELSE j[i]]

\* A plausible fault: any obligation that is still open may be resolved.
CanResolveOpen(j, s) == \E i \in DOMAIN j : j[i].state # "succeeded" /\ j[i].step = s

\* A plausible fault: some entry is unresolved, whichever it is.
CanResolveAny(j, s) == UnresolvedAt(j) # {} /\ Contains(j, s)

(***************************************************************************)
(* can_resolve: a human may resolve exactly an unresolved compensation.    *)
(***************************************************************************)
CanResolve(j, s) == \E i \in DOMAIN j : j[i].state = "unresolved" /\ j[i].step = s

========================================================================
