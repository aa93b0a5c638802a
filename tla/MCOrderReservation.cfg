SPECIFICATION OrderSpec
CONSTANTS
  NoTool = NoTool
  Tools <- MCTools
  Effects <- MCEffects
  Proofs <- MCProofs
  Required <- MCTools
  Prerequisites <- MCPrerequisites
  MaxCalls <- MCMaxCalls
  MaxToolCalls = 4
  MaxAgentTurns = 6
  Operators = {o1}
  EmptyReceipts = FALSE
  Scenarios <- MCScenarios
  LossyOps <- AllOps
  Versions = {1, 2}
  MaxAttempts = 2
INVARIANTS
  VerdictTrueOfOrder
