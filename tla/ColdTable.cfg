SPECIFICATION FairSpec
CONSTANTS
  k1 = k1
  d1 = d1
  Keys = {k1}
  DirOf <- OneDir
  Sizes = {1}
  RetainDays = 1
  AuditDays = 1
  MaxTime = 4
INVARIANTS TypeOK StoredUnlessPurged ReviewIsOld
PROPERTIES CleanRunStampsAbsent RunEnds
CHECK_DEADLOCK FALSE
