SPECIFICATION Spec
CONSTANTS
  Files <- Archive
  Requests <- SomeRequests
  MaxBlock = 3
  Stops = TRUE
  CallbackFaults = FALSE
  PartialWrites = FALSE
  Coders = {"returns"}
INVARIANT
  StopIsSuccess
