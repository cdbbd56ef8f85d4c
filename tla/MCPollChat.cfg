SPECIFICATION Spec
CONSTANTS
  Fds = {f1, f2}
  None = None
  Unset = Unset
  UserLimit = 2
  MaxBacklog = 1
  MaxInput = 1
INVARIANTS EntriesAreOpen PointerIsAnothers
PROPERTIES LeftIsRemoved DueIsSent
CHECK_DEADLOCK FALSE
