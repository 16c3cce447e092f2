\* Two connections, which may cross, with every order of the
\* four random values.
SPECIFICATION ArbitrationSpec
CONSTANTS
  Conn = {k1, k2}
  Node = {a, b}
  Nobody = nobody
  Draws <- OrdersUpToSymmetry
INVARIANTS
  AgreedVerdict
  ContestedWins
CHECK_DEADLOCK FALSE
