SPECIFICATION Spec
CONSTANTS
  Clients = {c1, c2, c3}
  Fds <- MCFds
  Workers = {w1, w2}
  MaxUsers = 2
  MaxRequests = 1
  RequestSize = 2
  Free = Free
SYMMETRY MCSymmetry
INVARIANTS TypeOK OneResponsible SockIsDescriptor NothingStale
CHECK_DEADLOCK FALSE
