--------------------------- MODULE NotificationQueue ---------------------------
(***************************************************************************)
(* Application: the queue of notification messages and the thread that     *)
(* hands them to the user's callbacks, from the library's start (the       *)
(* thread runs) to its closing.  Any thread may add a message; the user's  *)
(* thread closes the library.                                              *)
(*                                                                         *)
(* Semaphore::Wait takes the semaphore and posts it again, so the thread   *)
(* holds nothing when it locks m_csMessages, and Release takes one count   *)
(* whatever the number of messages was.  MaxCount is the count beyond      *)
(* which Set does nothing: 1 on Windows, SEM_VALUE_MAX elsewhere.          *)
(***************************************************************************)
EXTENDS Naturals, Sequences

CONSTANTS Msg, MaxCount

ASSUME MaxCountAssumption == MaxCount \in Nat \ {0}

VARIABLES
  sent,         \* the messages added so far
  m_messages,
  m_semaphore,
  m_state,      \* of the Thread: "running", "stop_pending", "stopped"
  pc,           \* where the thread is
  messages,     \* its local copy
  handled,      \* the messages whose HandleMessage was called, in that order
  m_bInit,
  jpc           \* where the thread that closes the library is

queue == <<sent, m_messages, m_semaphore>>
thread == <<pc, messages, handled>>
user == <<m_bInit, jpc>>
vars == <<queue, m_state, thread, user>>

-----------------------------------------------------------------------------
Set == m_semaphore' = IF m_semaphore < MaxCount THEN m_semaphore + 1 ELSE m_semaphore

Release == m_semaphore' = IF m_semaphore > 0 THEN m_semaphore - 1 ELSE 0

(* Mutant: the semaphore is not set *)
AddNotifycationMessageUnset(m) ==
  /\ m \notin sent
  /\ sent' = sent \cup {m}
  /\ m_messages' = Append(m_messages, m)
  /\ UNCHANGED <<m_semaphore, m_state, thread, user>>

AddNotifycationMessage(m) ==
  /\ m \notin sent
  /\ sent' = sent \cup {m}
  /\ m_messages' = Append(m_messages, m)
  /\ Set
  /\ UNCHANGED <<m_state, thread, user>>

-----------------------------------------------------------------------------
(* Application::ThreadFunc *)

(* Mutant: the thread looks for THREAD_STOPPED instead of THREAD_STOP_PENDING *)
IsStopStopped == m_state = "stopped"

IsStop == m_state = "stop_pending"

TestStop ==
  /\ pc = "loop"
  /\ pc' = IF IsStop THEN "onstop" ELSE "wait"
  /\ UNCHANGED <<queue, m_state, messages, handled, user>>

(* Semaphore::Wait takes the count, or gives up; then the post *)
WaitTake ==
  /\ pc = "wait"
  /\ m_semaphore > 0
  /\ m_semaphore' = m_semaphore - 1
  /\ pc' = "post"
  /\ UNCHANGED <<sent, m_messages, m_state, messages, handled, user>>

WaitTimeout ==
  /\ pc = "wait"
  /\ m_semaphore = 0
  /\ pc' = "loop"
  /\ UNCHANGED <<queue, m_state, messages, handled, user>>

WaitPost ==
  /\ pc = "post"
  /\ Set
  /\ pc' = "lock"
  /\ UNCHANGED <<sent, m_messages, m_state, messages, handled, user>>

(* Mutant: m_messages is not cleared *)
TakeMessagesKeep ==
  /\ pc = "lock"
  /\ messages' = m_messages
  /\ Release
  /\ pc' = "handle"
  /\ UNCHANGED <<sent, m_messages, m_state, handled, user>>

(* The region under m_csMessages *)
TakeMessages ==
  /\ pc = "lock"
  /\ messages' = m_messages
  /\ m_messages' = <<>>
  /\ Release
  /\ pc' = "handle"
  /\ UNCHANGED <<sent, m_state, handled, user>>

HandleMessage ==
  /\ pc = "handle"
  /\ messages # <<>>
  /\ handled' = Append(handled, Head(messages))
  /\ messages' = Tail(messages)
  /\ UNCHANGED <<queue, m_state, pc, user>>

EndBatch ==
  /\ pc = "handle"
  /\ messages = <<>>
  /\ pc' = "loop"
  /\ UNCHANGED <<queue, m_state, messages, handled, user>>

(* OnStop deletes what is queued; then ThreadProc's last block *)
OnStop ==
  /\ pc = "onstop"
  /\ m_messages' = <<>>
  /\ pc' = "stopping"
  /\ UNCHANGED <<sent, m_semaphore, m_state, messages, handled, user>>

ThreadProcEnd ==
  /\ pc = "stopping"
  /\ m_state' = "stopped"
  /\ pc' = "done"
  /\ UNCHANGED <<queue, messages, handled, user>>

ThreadFunc ==
  \/ TestStop
  \/ WaitTake
  \/ WaitTimeout
  \/ WaitPost
  \/ TakeMessages
  \/ HandleMessage
  \/ EndBatch
  \/ OnStop
  \/ ThreadProcEnd

-----------------------------------------------------------------------------
(* The user's thread: InitLibrary, and CloseLibrary's Deinit with Thread::Join *)

InitLibrary ==
  /\ jpc = "idle"
  /\ ~m_bInit
  /\ m_bInit' = TRUE
  /\ UNCHANGED <<queue, m_state, thread, jpc>>

(* A stopped thread is not joined again *)
Deinit ==
  /\ jpc = "idle"
  /\ m_bInit
  /\ IF m_state = "stopped"
     THEN m_bInit' = FALSE /\ UNCHANGED <<jpc, m_state>>
     ELSE jpc' = "stop" /\ m_state' = "stop_pending" /\ UNCHANGED m_bInit
  /\ UNCHANGED <<queue, thread>>

Stop ==
  /\ jpc = "stop"
  /\ jpc' = "join"
  /\ Set
  /\ UNCHANGED <<sent, m_messages, m_state, thread, m_bInit>>

WaitStop ==
  /\ jpc = "join"
  /\ m_state = "stopped"
  /\ jpc' = "idle"
  /\ m_bInit' = FALSE
  /\ UNCHANGED <<queue, m_state, thread>>

-----------------------------------------------------------------------------
Init ==
  /\ sent = {}
  /\ m_messages = <<>>
  /\ m_semaphore = 0
  /\ m_state = "running"
  /\ pc = "loop"
  /\ messages = <<>>
  /\ handled = <<>>
  /\ m_bInit = FALSE
  /\ jpc = "idle"

Next ==
  \/ \E m \in Msg : AddNotifycationMessage(m)
  \/ ThreadFunc
  \/ InitLibrary \/ Deinit \/ Stop \/ WaitStop

Spec == Init /\ [][Next]_vars

(* Callbacks return and both threads are scheduled; nobody has to notify or to
   close the library *)
FairSpec == Spec /\ WF_vars(ThreadFunc) /\ WF_vars(Stop \/ WaitStop)

-----------------------------------------------------------------------------
TypeOK ==
  /\ sent \subseteq Msg
  /\ m_messages \in Seq(Msg)
  /\ m_semaphore \in 0..MaxCount
  /\ m_state \in {"running", "stop_pending", "stopped"}
  /\ pc \in {"loop", "wait", "post", "lock", "handle", "onstop", "stopping", "done"}
  /\ messages \in Seq(Msg)
  /\ handled \in Seq(Msg)
  /\ m_bInit \in BOOLEAN
  /\ jpc \in {"idle", "stop", "join"}

(* No lost wakeup: while messages are queued the semaphore is set, or the thread
   is between the two halves of Wait and is about to take them, although Set may
   do nothing, Release takes a single count for a batch of any size, and the
   messages come from any thread between any two steps of ThreadFunc.          *)
WakeupPending == m_messages # <<>> => m_semaphore > 0 \/ pc = "post"

(* CloseLibrary returns: the Set of Stop and the state STOP_PENDING end the
   thread wherever it is *)
CloseReturns == (jpc # "idle") ~> (jpc = "idle")

(* The queue is what NotificationFIFO says: the local copy and the shared vector
   together are the pending messages, in order, none lost and none twice until
   OnStop drops them, and none waits for ever.                                 *)
FIFO == INSTANCE NotificationFIFO WITH
          pending <- messages \o m_messages,
          closed <- pc \in {"stopping", "done"}

ImplementsFIFO == FIFO!FFairSpec
=============================================================================
