CONSTANTS
  Chunks <- MixedChunks
  RequirePass = FALSE
  IdleTimeout = TRUE
  MaxRequest = 3
  MaxPending = 3
  MaxCommands = 4
  MaxPosted = 1
SPECIFICATION Spec
PROPERTIES IdleMeansIdle
