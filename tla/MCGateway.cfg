\* A payer and a reader, one end of the process.
CONSTANTS
  c1 = c1  c2 = c2  k1 = k1
  p1 = p1  p2 = p2
  Null = Null
  Clients = {c1, c2}
  Readers = {c2}
  Keys = {k1}
  PaymentIds = {p1, p2}
  KeyOf <- MCKeyOf
  Tries <- MCTries
  RequiresToken = FALSE
  MaxRetries = 3
  MaxExits = 1
CHECK_DEADLOCK FALSE
SPECIFICATION FairSpec
INVARIANTS GatewayTypeOK KeyPaysOnce PaidIsStored RefusedIsNotPaid
PROPERTY ProbesAreDecided
