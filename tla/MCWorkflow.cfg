SPECIFICATION Spec
CONSTANTS
  reserve = reserve
  charge = charge
  verify = verify
  NoTool = NoTool
  Tools <- MCTools
  Effects <- MCEffects
  Proofs <- MCProofs
  Required <- MCRequired
  Prerequisites <- MCPrerequisites
  MaxCalls <- MCMaxCalls
  MaxToolCalls = 5
  MaxAgentTurns = 5
  Operators = {o1, o2}
  EmptyReceipts = TRUE
SYMMETRY Colleagues
INVARIANTS
  TypeOK
  OperationIdsAreFresh
  UnwindAwaitsItsFrontier
  QueriesTellTheTruth
  VerdictIsTrue
PROPERTIES
  JournalKeepsItsWord
  ResolutionsApplyToTheirPause
  ForwardWorkIsOver
  ImplementsContract
