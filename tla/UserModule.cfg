\* Two clients and a server: a is connected at the start, b creates its module late; three
\* events let a client leave, return as a new session and change between two calls.
SPECIFICATION FairSpec
CONSTANTS
  Session = {a, b}
  Server = srv
  Late = {b}
  Early = {a}
  PeerOf = b
  MaxEvents = 3
PROPERTIES
  NamesSettle
  ViewSettles
CHECK_DEADLOCK FALSE
