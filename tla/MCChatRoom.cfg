SPECIFICATION Spec
CONSTANTS
  Pids = {p1, p2}
  None = None
  UserLimit = 2
  PipeSize = 1
  MaxBacklog = 1
  MaxInput = 1
SYMMETRY MCSymmetry
INVARIANTS TypeOK UsersAreChildren ZombieSeen
CHECK_DEADLOCK FALSE
