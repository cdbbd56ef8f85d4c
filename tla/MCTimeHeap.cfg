SPECIFICATION HeapSpec
CONSTANTS
  Timers = {t1, t2, t3, t4, t5}
  Null = Null
  MaxTime = 2
  MaxCapacity = 5
SYMMETRY MCSymmetry
INVARIANTS HeapOrdered
 
CHECK_DEADLOCK FALSE
