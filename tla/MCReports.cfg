\* One client over three dates; pages of one run, or of two records although it asks for three.
CONSTANTS
  l1 = l1  l2 = l2
  Dates = {1, 2, 3}
  Clients = {c1}
  Rows <- MCRows
  Limit = 1
  MaxLimit = 2
  PerPage = 3
  MaxPerPage = 2
  MaxDays = 1
CHECK_DEADLOCK FALSE
SPECIFICATION Spec
INVARIANTS ReportsTypeOK ListMissesNoRun WalkIsExact AuditAgrees
