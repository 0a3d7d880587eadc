SPECIFICATION Spec
CONSTANTS
  Files <- Archive
  Requests <- SomeRequests
  MaxBlock = 3
  Stops = TRUE
  CallbackFaults = TRUE
  PartialWrites = TRUE
  Coders = {"returns", "flushes", "goesOn"}
INVARIANTS
  TypeOK Reported DataInPlace OkIsComplete
PROPERTY
  StopIsFinal
