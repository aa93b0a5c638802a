--------------------------- MODULE MCSystem ----------------------------
(***************************************************************************)
(* The tools of MCWorkflow, with business activities and a provider.       *)
(***************************************************************************)
EXTENDS SagaSystem, TLC

CONSTANTS reserve, charge, verify

MCTools == {reserve, charge, verify}
MCEffects == {reserve, charge}
MCProofs == {verify}
MCRequired == {charge, verify}
MCPrerequisites == (reserve :> {} @@ charge :> {reserve} @@ verify :> {reserve})
MCMaxCalls == (reserve :> 1 @@ charge :> 2 @@ verify :> 2)

========================================================================
