\* Two connections and one connect attempt at a time; no symmetry under liveness.
SPECIFICATION FairSpec
CONSTANTS
  Conn = {c1, c2}
  Thread = {t1}
  Caller = {}
  Peer = {p}
  Coordinator = coordinator
  CoordinatorIPC = ipcCoordinator
  Self = self
  NoName = none
  NoCounter = nocounter
  MaxTry = 1
  Removable = {p, coordinator, self}
PROPERTIES
  DeadModuleLeaves
  RequestServed
CHECK_DEADLOCK FALSE
