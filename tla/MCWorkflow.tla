-------------------------- MODULE MCWorkflow ---------------------------
(***************************************************************************)
(* The order saga of examples/ecommerce cut down: two effects, the second  *)
(* of which needs the first, and a proof read that the finish requires.    *)
(***************************************************************************)
EXTENDS AgenticSagaWorkflow, TLC

CONSTANTS reserve, charge, verify

MCTools == {reserve, charge, verify}
MCEffects == {reserve, charge}
MCProofs == {verify}
MCRequired == {charge, verify}
MCPrerequisites == (reserve :> {} @@ charge :> {reserve} @@ verify :> {reserve})
MCMaxCalls == (reserve :> 1 @@ charge :> 2 @@ verify :> 2)

Colleagues == Permutations(Operators)

========================================================================
