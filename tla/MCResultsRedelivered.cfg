SPECIFICATION Spec
CONSTANTS
  e1 = e1
  e2 = e2
  e3 = e3
  Emails <- MCEmails
  DefaultLimit = 2
  Limits = {1, 2, 9}
  MaxI64 = 7
  MaxDuplicates = 1
INVARIANTS
  ShowsAllEmails
CHECK_DEADLOCK FALSE
