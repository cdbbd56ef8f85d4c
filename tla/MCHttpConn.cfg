SPECIFICATION Spec
CONSTANTS
  Requests <- MCRequests
  BodyLength = 2
  BufferSize = 14
  HeaderSize = 3
  FileSize = 2
  MaxRounds = 3
INVARIANTS TypeOK IsAnswered NotAnsweredEarly AnswerIsRight WholeUnlessCut MappedWhileSent
CHECK_DEADLOCK FALSE
