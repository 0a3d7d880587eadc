SPECIFICATION Spec
CONSTANTS
  ThreadsMax = 3
  InBufSize = 2
  OutBlockMax = 2
  Inputs <- MCInputs
  Faults = {"read", "write", "progress", "thread", "memory", "last"}
  MaxFaults = 1
  MaxCalls = 1
INVARIANT
  FinishedIsMarked
