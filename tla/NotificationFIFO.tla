--------------------------- MODULE NotificationFIFO ---------------------------
(***************************************************************************)
(* What Application promises the modules that notify the user: until the   *)
(* library is closed, every notification reaches the callbacks exactly     *)
(* once, in the order in which they were added; closing drops what is      *)
(* pending, and nothing is delivered afterwards.                           *)
(***************************************************************************)
EXTENDS Sequences

CONSTANT Msg            \* notification messages; each is a new object

VARIABLES sent,         \* the messages added so far
          pending,      \* those waiting for their callback, oldest first
          handled,      \* those whose callback was called, in that order
          closed

fifo == <<sent, pending, handled, closed>>

FInit == sent = {} /\ pending = <<>> /\ handled = <<>> /\ closed = FALSE

Send(m) ==
  /\ m \notin sent
  /\ sent' = sent \cup {m}
  /\ pending' = Append(pending, m)
  /\ UNCHANGED <<handled, closed>>

Deliver ==
  /\ ~closed
  /\ pending # <<>>
  /\ handled' = Append(handled, Head(pending))
  /\ pending' = Tail(pending)
  /\ UNCHANGED <<sent, closed>>

Close ==
  /\ ~closed
  /\ closed' = TRUE
  /\ pending' = <<>>
  /\ UNCHANGED <<sent, handled>>

FNext == (\E m \in Msg : Send(m)) \/ Deliver \/ Close

FSpec == FInit /\ [][FNext]_fifo

(* Notifications do not wait for ever while the library is open *)
FFairSpec == FSpec /\ WF_fifo(Deliver)
=============================================================================
