\* Two objects over two descriptors: the second may get the number that the first
\* one still holds, be accepted by it, or take over its socket.
SPECIFICATION FairSpec
CONSTANTS
  Obj = {1, 2}
  Fd = {1, 2}
  Sender = {1, 2}
  Port = {1, 2}
  MsgLen = 2
  MaxSock = 2
  MaxIn = 1
INVARIANTS
  SendsWhole
  OwnSocket
  ToldPortKept
PROPERTY
  CloseWakes
CHECK_DEADLOCK FALSE
