\* Two connections, one handler slot, at most one failing thread start.
SPECIFICATION DemoSpec
CONSTANTS
  first = first
  second = second
  script = script
  index = index
  Requests = {r1, r2}
  Handlers = 1
  ThreadFaults = 1
  Recordings <- MCRecordings
  Assets <- MCAssets
  Nested <- MCNested
  Index = index
  Files <- MCFiles
  Leftovers <- MCLeftovers
CHECK_DEADLOCK FALSE
INVARIANTS
  DemoTypeOK
  NothingLeftAfterFailure
  DescriptorsAreReturned
  SlotsAreAccounted
  ShutdownLeavesNothing
  ServesOnlyTheVerifiedSite
  SuccessIsClean
PROPERTIES
  DeadlineSparesAnswers
  ShutdownReturns
  SilentClientsAreDropped
