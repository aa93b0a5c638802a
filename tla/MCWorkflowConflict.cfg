SPECIFICATION Spec
CONSTANTS
  reserve = reserve
  charge = charge
  verify = verify
  NoTool = NoTool
  Tools <- MCTools
  Effects <- MCEffects
  Proofs <- MCProofs
  Required <- MCRequired
  Prerequisites <- MCPrerequisites
  MaxCalls <- MCMaxCalls
  MaxToolCalls = 3
  MaxAgentTurns = 3
  Operators = {o1, o2}
  EmptyReceipts = FALSE
SYMMETRY Colleagues
INVARIANTS
  DecisionsNeverHaltTheSaga
