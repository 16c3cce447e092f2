\* One id: ids do not meet.  Both sides may ask for it, and one local program connects.
\* Three threads at a time: a place is used again when its thread has ended.
SPECIFICATION FairSpec
CONSTANTS
  Id = {i}
  Thread = {t1, t2, t3}
  NoThread = none
  MaxInit = 1
  MaxLocal = 1
CONSTRAINT UsedOnce
INVARIANTS EntriesAgree OpenIsListed
PROPERTIES RequestAnswered
CHECK_DEADLOCK FALSE
