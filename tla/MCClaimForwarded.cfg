\* The payments service as its SecurityConfig has it, no fault.
CONSTANTS
  c1 = c1  c2 = c2  k1 = k1
  p1 = p1  p2 = p2
  Null = Null
  Clients = {c1, c2}
  Readers = {c2}
  Keys = {k1}
  PaymentIds = {p1, p2}
  KeyOf <- MCKeyOf
  Tries <- MCTries
  RequiresToken = TRUE
  MaxRetries = 3
  MaxExits = 0
CHECK_DEADLOCK FALSE
SPECIFICATION Spec
INVARIANT AcceptedIsNotForbidden
