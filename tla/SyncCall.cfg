\* Three calls, two keys: calls that meet on a key and calls that do not.  Two
\* messages: a second answer to one call, answers to several, stray messages.
SPECIFICATION SyncFairSpec
CONSTANTS
  Call = {c1, c2, c3}
  Key = {k1, k2}
  Data = {d}
  Empty = empty
  MaxMsg = 2
INVARIANTS
  ListedIsInCall
  NoSpuriousReturn
PROPERTIES
  AnsweredReturns
  StopWaitsForLateOnly
CHECK_DEADLOCK FALSE
