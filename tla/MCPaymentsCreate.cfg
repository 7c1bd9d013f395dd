\* Creation: one key, an amount that does not fit its currency, lost events, a crash.
CONSTANTS
  r1 = r1  r2 = r2  w1 = w1  w2 = w2
  p1 = p1  p2 = p2  p3 = p3  k1 = k1
  m1 = m1  frac = frac
  ref1 = ref1  reason1 = reason1  reason2 = reason2  x1 = x1  x2 = x2
  Null = Null
  Replicas = {r1, r2}
  Workers = {w1, w2}
  HomeOf <- Home
  Keys = {k1}
  Payloads = {m1, frac}
  Fractional = {frac}
  References = {ref1}
  Reasons = {reason1}
  PaymentIds = {p1, p2, p3}
  Suffixes = {x1, x2}
  CreateRequests <- MCCreateRequests
  UpdateRequests <- NoUpdates
  BrokerAnswers = {TRUE, FALSE}
  MaxRetries = 3
  MaxCreates = 3
  MaxUpdates = 0
  MaxCrashes = 1
CHECK_DEADLOCK FALSE
SPECIFICATION Spec
SYMMETRY Names
INVARIANTS TypeOK SameKeySamePayment AcknowledgedIsStored CommittedIsAnnounced
PROPERTY ImplementsLedger
