\* Two workers, two decisions, two attempts of a business activity.
SPECIFICATION FleetSpec
CONSTANTS
  charge = charge
  refund = refund
  check = check
  plain = plain
  NoTool = NoTool
  NoArgs = NoArgs
  NoContext = NoContext
  NoDefinition = NoDefinition
  FinishTool = finish_saga
  Workers = {w1, w2}
  MaxTurns = 2
  MaxOutput = 3
  MaxTimeout = 3
  MaxCandidates = 2
  MaxAttempts = 2
  PolicyChecks = {}
  InvariantChecks = {}
  Names <- MCNames
  Args <- MCArgs
  Offered <- MCOffered
  Declared <- MCDeclared
  Documents <- MCDocuments
SYMMETRY MCSymmetry
CHECK_DEADLOCK FALSE
INVARIANTS
  FleetTypeOK
  PinnedCatalogueHolds
  RegistriesStaySound
  DefiniteAnswerIsTrue
  SpendStaysInBudget
