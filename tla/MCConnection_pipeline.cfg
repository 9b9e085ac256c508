CONSTANTS
  Chunks <- MixedChunks
  RequirePass = TRUE
  IdleTimeout = TRUE
  MaxRequest = 3
  MaxPending = 3
  MaxCommands = 5
  MaxPosted = 2
SPECIFICATION FairSpec
INVARIANTS NeverStuck OneOperationEach PendingExact AnswersInOrder AllAnswered NothingBeforeAuth
PROPERTIES ClosingIsFinal ClosingEnds ReadsAgain HandlersEnd
