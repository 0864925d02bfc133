SPECIFICATION FairSpec
CONSTANTS
  Commands = {c1, c2}
  Callers = {d1, d2}
  Projectors = {p1, p2}
  NoCommand = NoCommand
  Backlog = 3
  ReadLimit = 2
  MaxPerCommand = 2
  MaxLog = 5
INVARIANTS
  ReceiptsMatchLog
  AnswersAreReceipts
  DecidesOnWholeLog
  PublishesLogOnce
PROPERTY
  ReceiptsAreFinal
  EveryDispatchAnswered
