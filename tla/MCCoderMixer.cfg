SPECIFICATION FairSpec
CONSTANTS
  N = 3
  Main = 1
  MaxSize = 2
  MaxBytes = 2
  MaxCalls = 2
  Faults <- OneFault
INVARIANTS
  TypeOK PipeSound ReturnSound
PROPERTIES
  ImplementsChannel CodeReturns
