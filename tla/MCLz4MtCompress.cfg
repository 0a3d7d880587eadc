SPECIFICATION FairSpec
CONSTANTS
  NumThreads = 3
  Faults <- AllFaults
  MaxInput = 3
  MaxCalls = 2
INVARIANTS
  TypeOK
PROPERTIES
  FramesSound ImplementsPipeline CallReturns
