\* Two pods, two partitions, two faults.
CONSTANTS
  c1 = c1  c2 = c2  t1 = t1  t2 = t2
  Pods = {c1, c2}
  Partitions = {t1, t2}
  None = None
  MaxLog <- TwoAndOne
  MaxFaults = 2
CHECK_DEADLOCK FALSE
SPECIFICATION FairSpec
INVARIANTS ConsumerTypeOK CommittedWasTried
PROPERTIES TriedInOrder CommittedNeverRegresses EveryEventIsTried
