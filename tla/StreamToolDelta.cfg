CONSTANTS
  None = None
  Options <- SomeOptions
  Chunks <- MixedChunks
  Events <- SomeEvents
  Allowed <- Declared
  Schema <- FullObject
  MinCalls = 0
  MaxCalls = 2
  MaxFrames = 4
SPECIFICATION Spec
INVARIANT
  FragmentsDelivered
CHECK_DEADLOCK FALSE
