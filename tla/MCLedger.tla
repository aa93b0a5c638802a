--------------------------- MODULE MCLedger ----------------------------
(***************************************************************************)
(* The instance of MCWorkflow, for the ledger.                             *)
(***************************************************************************)
EXTENDS SagaLedger

CONSTANTS reserve, charge, verify

MCTools == {reserve, charge, verify}
MCEffects == {reserve, charge}
MCProofs == {verify}
MCRequired == {charge, verify}
MCPrerequisites == [t \in MCTools |-> IF t = reserve THEN {} ELSE {reserve}]
MCMaxCalls == [t \in MCTools |-> IF t = reserve THEN 1 ELSE 2]

========================================================================
