SPECIFICATION FairSpec
CONSTANTS
  Clients = {c1, c2}
  Fds <- MCFds
  Workers = {w1, w2}
  MaxUsers = 2
  MaxRequests = 1
  RequestSize = 2
  Free = Free
PROPERTIES InputIsSeen
CHECK_DEADLOCK FALSE
