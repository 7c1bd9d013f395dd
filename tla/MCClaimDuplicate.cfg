\* Two concurrent requests with one key, on one replica, with no fault.
CONSTANTS
  r1 = r1  r2 = r2  w1 = w1  w2 = w2
  p1 = p1  p2 = p2  p3 = p3  k1 = k1
  m1 = m1  frac = frac
  ref1 = ref1  reason1 = reason1  reason2 = reason2  x1 = x1  x2 = x2
  Null = Null
  Replicas = {r1}
  Workers = {w1, w2}
  HomeOf <- HomeOfBoth
  Keys = {k1}
  Payloads = {m1, frac}
  Fractional = {frac}
  References = {ref1}
  Reasons = {reason1}
  PaymentIds = {p1, p2, p3}
  Suffixes = {x1}
  CreateRequests <- KeyedRequest
  UpdateRequests <- NoUpdates
  BrokerAnswers = {TRUE}
  MaxRetries = 3
  MaxCreates = 2
  MaxUpdates = 0
  MaxCrashes = 0
CHECK_DEADLOCK FALSE
SPECIFICATION Spec
INVARIANT DuplicateIsAnsweredAlike
