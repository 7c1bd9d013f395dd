\* Three POSTs for one date, two database failures or killed workers.
CONSTANTS
  d1 = d1  w1 = w1  w2 = w2
  Null = Null
  Garbled = Garbled
  Workers = {w1, w2}
  Dates = {d1}
  Refs = {1, 2, 3}
  Payment <- MCPayment
  Files <- MCFiles
  RoundedUp <- MCRoundedUp
  Digits <- MCDigits
  BatchSize = 2
  MaxAttempts = 3
  MaxTriggers = 3
  MaxFaults = 2
CHECK_DEADLOCK FALSE
SPECIFICATION FairSpec
INVARIANTS ReconciliationTypeOK CompletedAddsUp MatchesAgree OneExecutionPerDate AnsweredIsCompleted
PROPERTIES ImplementsRunLedger ReadersMayRely RunsFinish
