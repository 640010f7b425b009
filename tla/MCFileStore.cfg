SPECIFICATION FairSpec
CONSTANTS
  Thread = {t1, t2}
  FileLen = 2
  MaxUploads = 3
  MaxRestarts = 1
INVARIANTS TypeOK AnnouncedIntact
 
CHECK_DEADLOCK FALSE
