SPECIFICATION Spec
CONSTANTS
  Room = 8
  MaxPiece = 3
INVARIANTS AnalyserIgnoresCuts CgiRunsFirstLine
CHECK_DEADLOCK FALSE
