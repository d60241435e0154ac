SPECIFICATION Spec
CONSTANTS
  Keys = {k1}
  Values = {v1}
  Objects = {o1, o2}
  MaxTime = 2
  MaxPending = 1
  None = None
PROPERTIES RemovedAtItsDeadline
