\* One pod of three workers, any environment, four calls, three troubles.
CONSTANTS
  p1 = p1  w1 = w1  w2 = w2  w3 = w3
  Pods = {p1}
  Workers = {w1, w2, w3}
  FailureThreshold = 3
  Null = Null
  MaxCalls = 4
  MaxTroubles = 3
CHECK_DEADLOCK FALSE
SPECIFICATION Spec
INVARIANTS PodsTypeOK OneConsumerPerPod
PROPERTIES RefusalRestartsNobody ServesAgain
