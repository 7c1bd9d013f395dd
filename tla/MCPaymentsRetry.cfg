\* Updates of two payments and their retries by two schedulers, Kafka down.
CONSTANTS
  r1 = r1  r2 = r2  w1 = w1  w2 = w2
  p1 = p1  p2 = p2  p3 = p3  k1 = k1
  m1 = m1  frac = frac
  ref1 = ref1  reason1 = reason1  reason2 = reason2  x1 = x1  x2 = x2
  Null = Null
  Replicas = {r1, r2}
  Workers = {w1}
  HomeOf <- HomeOfOne
  Keys = {k1}
  Payloads = {m1, frac}
  Fractional = {frac}
  References = {ref1}
  Reasons = {reason1, reason2}
  PaymentIds = {p1, p2}
  Suffixes = {x1}
  CreateRequests <- PlainRequest
  UpdateRequests <- FailRequests
  BrokerAnswers = {FALSE}
  MaxRetries = 1
  MaxCreates = 2
  MaxUpdates = 3
  MaxCrashes = 1
CHECK_DEADLOCK FALSE
SPECIFICATION FairSpec
INVARIANT CommittedIsAnnounced
PROPERTIES ImplementsLedger LegalTransitions NothingForgotten FailedIsRequeued
