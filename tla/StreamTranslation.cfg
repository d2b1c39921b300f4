CONSTANTS
  None = None
  Options <- SomeOptions
  Chunks <- SomeChunks
  Events <- SomeEvents
  Allowed <- Declared
  Schema <- FullObject
  MinCalls = 0
  MaxCalls = 2
  MaxFrames = 5
SPECIFICATION Spec
INVARIANTS
  TypeOK
  
  BlocksWellFormed
  FragmentsDelivered
  StrictStopsAreValid
CHECK_DEADLOCK FALSE
