\* One pod, one partition, one restart.
CONSTANTS
  c1 = c1  c2 = c2  t1 = t1  t2 = t2
  Pods = {c1}
  Partitions = {t1}
  None = None
  MaxLog <- JustTwo
  MaxFaults = 1
CHECK_DEADLOCK FALSE
SPECIFICATION Spec
INVARIANT FailedIsReprocessed
