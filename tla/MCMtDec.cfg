SPECIFICATION FairSpec
CONSTANTS
  ThreadsMax = 3
  InBufSize = 2
  OutBlockMax = 2
  Inputs <- MCInputs
  Faults = {"read", "write", "progress", "thread", "memory", "last"}
  MaxFaults = 1
  MaxCalls = 2
INVARIANTS
  TypeOK
  RightsExclusive
  NothingLost
PROPERTIES
  ImplementsDecoder
  CallReturns
