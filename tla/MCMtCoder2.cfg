SPECIFICATION FairSpec
CONSTANTS
  ThreadsMax = 2
  NumThreadsMax = 2
  ExtraBlocks = 0
  MaxInput = 4
  MaxCalls = 2
  EarlyReuse = FALSE
  Faults <- AllFaults
INVARIANTS
  TypeOK RightsExclusive RingSafe NoStragglers
PROPERTIES
  ImplementsPipeline CallReturns
