SPECIFICATION FairSpec
CONSTANTS
  N = 2
  MaxClients = 2
  PipeSize = 2
INVARIANTS TypeOK PidIsOurs ParentLast ZombieSeen NoticesCovered
PROPERTIES TermStops
CHECK_DEADLOCK FALSE
