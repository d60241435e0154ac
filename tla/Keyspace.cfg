SPECIFICATION FairSpec
CONSTANTS
  Keys = {k1, k2}
  Values = {v1, v2}
  Objects = {o1, o2, o3}
  MaxTime = 1
  MaxPending = 1
  None = None
INVARIANTS DeadlineCovered NoOversleep
PROPERTIES SetVisibleOrExpired DeadlineActedOn
CHECK_DEADLOCK TRUE
