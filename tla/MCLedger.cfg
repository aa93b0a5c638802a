SPECIFICATION LedgerSpec
CONSTANTS
  reserve = reserve
  charge = charge
  verify = verify
  NoTool = NoTool
  Tools <- MCTools
  Effects <- MCEffects
  Proofs <- MCProofs
  Required <- MCRequired
  Prerequisites <- MCPrerequisites
  MaxCalls <- MCMaxCalls
  MaxToolCalls = 3
  MaxAgentTurns = 4
  Operators = {o1}
  EmptyReceipts = TRUE
INVARIANTS
  LedgerTypeOK
  ExportIsValid
  AuditAgreesWithQueries
  VerifiedMeansVerified
  ChainIsOneObligation
