SPECIFICATION FairSpec
CONSTANTS
  Thread = {t1, t2}
  Key = {2, 4, 5}
  Val = {v1, v2}
  NULL = NULL
  INITIAL_SIZE = 2
INVARIANTS TypeOK ExactUnlessReplaced SizeCoversEntries StuckOnlyWhenCounted
PROPERTIES CallReturns
CHECK_DEADLOCK FALSE
