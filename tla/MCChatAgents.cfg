SPECIFICATION ChatsSpec
CONSTANTS
  Messages = {m1, m2}
  NoMessage = none
  MaxUndelivered = 2
  MaxVersion = 2
  MaxFaults = 1
  MaxTurns = 3
  MaxControls = 2
CHECK_DEADLOCK FALSE
SYMMETRY Symmetry
INVARIANTS DeliveredOnce AnswerOnItsWay DeletedWholeOrNotAtAll
