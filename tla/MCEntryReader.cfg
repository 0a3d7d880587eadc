SPECIFICATION EntryFairSpec
CONSTANTS
  Size = 4
  Lengths <- AnyLength
  MaxChunk = 2
  Capacity = 2
  Scratch = 2
  MaxRead = 3
  DecodeFaults = TRUE
INVARIANTS
  EntryTypeOK AnswersRight WorkerInHand
PROPERTY
  CallsReturn
