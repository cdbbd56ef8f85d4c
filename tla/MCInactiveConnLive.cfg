SPECIFICATION FairSpec
CONSTANTS
  Fds = {f1}
  Timers = {t1,t2}
  Null = Null
  Bad = Bad
  TimeSlot = 1
  WheelLife = 3
  WheelSize = 2
  Containers = {"list", "wheel"}
  MaxBacklog = 1
  MaxInput = 2
  PipeSize = 2
PROPERTIES IdleIsClosed
CHECK_DEADLOCK FALSE
