\* Two connections: two clients of one user or of two, two sessions of one client, or a
\* reconnection; one call of another kind meets each of their steps.
CONSTANTS
  Client = {c1, c2}
  User = {u1, u2}
  Password = {p1}
  NoPassword = NoPassword
  NoClient = NoClient
  MaxConn = 2
  MaxConnect = 2
  MaxStart = 2
  MaxCall = 1
SYMMETRY Symmetry
SPECIFICATION FairSpec
INVARIANTS WantedIsPursued PeersListed ListedShareSession
CHECK_DEADLOCK FALSE
