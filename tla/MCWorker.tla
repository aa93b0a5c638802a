---------------------------- MODULE MCWorker ----------------------------
(***************************************************************************)
(* Two workers that may register different definitions of three tools: the *)
(* older charge depends on the refund, which depends on the charge, and a  *)
(* refund that is a read undoes nothing.  One manifest pins the charge and *)
(* the check, the other only the check for a single turn, and its time is  *)
(* too short for the native driver; the saga may take a second turn there. *)
(***************************************************************************)
EXTENDS WorkerFleet, TLC

CONSTANTS charge, refund, check, plain

MCNames == {charge, refund, check}
MCArgs == {plain}

Tool(n, k, c, s) == [name |-> n, kind |-> k, comp |-> c, deps |-> {}, indep |-> {},
                     schema |-> s, proper |-> TRUE]

Charge == Tool(charge, "effect", refund, {plain})
OldCharge == [Tool(charge, "effect", refund, {}) EXCEPT !.deps = {refund}]
Refund == [Tool(refund, "effect", NoTool, {plain}) EXCEPT !.deps = {charge}]
RefundRead == Tool(refund, "read", NoTool, {plain})
Check == Tool(check, "read", NoTool, {plain})

MCOffered == {Charge, OldCharge, Refund, RefundRead, Check}

Manifest(S, turns, elapsed, tokens) ==
  [source |-> "one bounded tree", exact |-> TRUE, distinct |-> TRUE, private |-> FALSE,
   allowed |-> {d.name : d \in S},
   pinned |-> [n \in {d.name : d \in S} |-> Descriptor(CHOOSE d \in S : d.name = n)],
   policy |-> {}, invariants |-> {}, turns |-> turns, calls |-> 2,
   elapsed |-> elapsed, tokens |-> tokens]

MCDocuments == {Manifest({Charge, Check}, 2, 5, 4), Manifest({Check}, 1, 1, 9)}

MCDeclared == [t \in {charge, check} |->
  IF t = charge THEN [kind |-> "effect", comp |-> refund] ELSE [kind |-> "read", comp |-> NoTool]]

MCSymmetry == Permutations(Workers)

=============================================================================
