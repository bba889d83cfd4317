SPECIFICATION FairSpec
CONSTANTS
  t1 = t1  t2 = t2  t3 = t3
  Timers = {t1, t2, t3}
  NULL = NULL
  Ms = {10, 20, 50}
  SizeMs = 15
INVARIANTS TypeOK WalkSafe OnTime
PROPERTIES Fires
