SPECIFICATION Spec
CONSTANTS
  ThreadsMax = 2
  NumThreadsMax = 2
  ExtraBlocks = 0
  MaxInput = 4
  MaxCalls = 2
  EarlyReuse = TRUE
  Faults <- NoFaults
INVARIANT
  ResultSound
