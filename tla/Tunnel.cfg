\* One pair, one negotiation at a time, of every type; the server may choose the type
\* from what the clients announced (local or relay, or nothing in common), one of which may
\* have announced nothing.
SPECIFICATION FairSpec
CONSTANTS
  Session = {a, b}
  Type = {"LOCAL_TCP", "LOCAL_UDP", "EXTERNAL", "UNKNOWN"}
  Announced <- MCAnnounced
  Silent = {a}
  MaxInit = 1
  MaxAnnounce = 1
  MaxLink = 2
INVARIANTS
  EndsNameEachOther
  ConnectedIsForgotten
  PointersHold
PROPERTIES
  StepLeaves
  TunnelConnectEnds
CHECK_DEADLOCK FALSE
