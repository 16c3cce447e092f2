\* Two threads of the initiating side send two messages, one of the accepting side sends
\* one; blocks of 2 and buffers of 4 bytes give a padded and an exact last frame.
CONSTANTS
  Initiating = {t1, t2}
  Accepting = {t3}
  Lengths = {3, 8}
  AES_BLOCK_SIZE = 2
  MAX_BUFFER_LEN = 4
  MaxMessage <- MCMaxMessage
SPECIFICATION FairSpec
INVARIANTS EncryptedOnly ModesAgree MessagesWhole
PROPERTIES HandshakeEnds SentArrives
CHECK_DEADLOCK FALSE
