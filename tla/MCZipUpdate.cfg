SPECIFICATION FairSpec
CONSTANTS
  Requests <- MCRequests
  NumThreads = 2
  Pools = {0, 2}
  BlockSize = 2
  Sizes = {1, 3}
  NumMethods = 2
  SeqModes = {FALSE}
  Faults = {"stream", "code", "write", "close"}
  MaxFaults = 1
INVARIANTS
  TypeOK
  NoInternalError
  PoolSound
  ArchiveRight
PROPERTIES
  UpdateReturns
