SPECIFICATION StreamsSpec
CONSTANTS
  MaxEntries = 2
  MaxBytes = 4
  MaxChunk = 2
  HandleSpace = 3
  BodyEntries = 1
  BodyBytes = 5
  MaxRequests = 3
  MaxFetches = 2
  Sizes <- MCSizes
INVARIANTS BooksKept SequentialReadsAreComplete
PROPERTIES TakenBodyIsStreamed
CHECK_DEADLOCK FALSE
