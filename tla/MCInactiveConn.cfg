SPECIFICATION Spec
CONSTANTS
  Fds = {f1, f2}
  Timers = {t1, t2, t3}
  Null = Null
  Bad = Bad
  TimeSlot = 1
  WheelLife = 2
  WheelSize = 2
  Containers = {"list", "wheel"}
  MaxBacklog = 1
  MaxInput = 1
  PipeSize = 1
SYMMETRY MCSymmetry
INVARIANTS TypeOK ContainerWellFormed TimerPerConnection AlarmAlive
PROPERTIES ImplementsIdleConnections
CHECK_DEADLOCK FALSE
