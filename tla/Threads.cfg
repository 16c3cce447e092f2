\* Two servers, one after the other or one in place of the other.
SPECIFICATION FairSpec
CONSTANTS
  Thread = {t1, t2}
  NoThread = none
INVARIANTS ThreadOutlivesItsWork NothingRunsAfterClose
PROPERTIES StoppedEnds CloseReturns
CHECK_DEADLOCK FALSE
