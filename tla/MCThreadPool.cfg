SPECIFICATION FairSpec
CONSTANTS
  Producers = {p1, p2}
  Workers = {w1, w2}
  Requests = {r1, r2, r3}
  MaxRequests = 2
  NoRequest = NoRequest
  NoThread = NoThread
INVARIANTS TypeOK MutualExclusion NoLostWakeup ExactlyOnce
PROPERTIES ImplementsTaskQueue AcceptedIsFinished
CHECK_DEADLOCK FALSE
