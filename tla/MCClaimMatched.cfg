\* A file with a column clearing_reference, no fault.
CONSTANTS
  d1 = d1  w1 = w1  w2 = w2
  Null = Null
  Garbled = Garbled
  Workers = {w1, w2}
  Dates = {d1}
  Refs = {1, 2, 3}
  Payment <- MCPayment
  Files <- NamedFile
  RoundedUp <- MCRoundedUp
  Digits <- MCDigits
  BatchSize = 2
  MaxAttempts = 3
  MaxTriggers = 3
  MaxFaults = 0
CHECK_DEADLOCK FALSE
SPECIFICATION Spec
INVARIANT AgreementIsMatched
