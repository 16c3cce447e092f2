\* Two connections that may bear the same name, two connect attempts at once,
\* one user thread: enough for every step of one connection to meet every step of
\* the disconnection of another.
SPECIFICATION Spec
CONSTANTS
  Conn = {c1, c2}
  Thread = {t1, t2}
  Caller = {u}
  Peer = {p}
  Coordinator = coordinator
  CoordinatorIPC = ipcCoordinator
  Self = self
  NoName = none
  NoCounter = nocounter
  MaxTry = 1
  Removable = {p, coordinator, self}
SYMMETRY Symmetry
INVARIANTS
  TypeOK
  RegisteredIsOwned
  ConnectedModulesBacked
CHECK_DEADLOCK FALSE
