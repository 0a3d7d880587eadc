SPECIFICATION Spec
CONSTANTS
  Files <- Archive
  Requests <- SomeRequests
  MaxBlock = 3
  Stops = FALSE
  CallbackFaults = FALSE
  PartialWrites = TRUE
  Coders = {"returns"}
INVARIANT
  DeliveredOnce
