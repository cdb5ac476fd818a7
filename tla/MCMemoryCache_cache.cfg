CONSTANTS
  t1 = t1
  t2 = t2
  t3 = t3
  v1 = v1
  v2 = v2
  Tabs = {t1, t2, t3}
  Nameless = {t3}
  Viewers = {v1, v2}
  Limit = 2
  Minute = 2
  Hour = 3
  ListTTL = 2
  AnswerTTL = 1
  MaxRun = 1
  MaxTime = 6
SPECIFICATION Spec
CHECK_DEADLOCK FALSE
INVARIANTS
  RefusedMeansFull
  OverrunBounded
  RecentIsFresh
