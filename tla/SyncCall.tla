------------------------------- MODULE SyncCall -------------------------------
(***************************************************************************)
(* Synchronous messages of TwainetModule: SendSyncMsg puts a WaitData from *)
(* its own stack on m_waitingList and waits on its semaphore; OnMessage,   *)
(* on a connector's thread, hands a message to the waiting call with the   *)
(* same message name and sender, or to the notification queue; ManagerStop,*)
(* on the managers thread, wakes the waiting calls and polls until the     *)
(* list is empty before the module is deleted.                             *)
(*                                                                         *)
(* A call is one activation of SendSyncMsg.  Its key is the message name   *)
(* and the sender it waits for.  One step is one region under m_cs, or the *)
(* code between two of them.                                               *)
(***************************************************************************)
EXTENDS Naturals, FiniteSets

CONSTANTS Call,         \* activations of SendSyncMsg
          Key,          \* pairs of a message name and a sender
          Data,         \* contents of messages
          Empty,        \* the empty content
          MaxMsg        \* messages the peers send, at most

ASSUME SyncAssumption == Key # {} /\ Empty \notin Data /\ MaxMsg \in Nat

VARIABLES
  call_pc,              \* where each call is
  key,                  \* its m_messageName and m_from
  m_data,               \* of its WaitData
  wait_semaphore,       \* m_semaphore of its WaitData
  result,               \* what it gave to its caller
  m_waitingList,        \* the calls whose WaitData is on the list
  mpc,                  \* ManagerStop: "running", "drain", "stopped"
  received,             \* messages received so far
  notified,             \* those that went to the notification queue
  late                  \* history: the calls made while ManagerStop was waiting

call == <<call_pc, key, m_data, wait_semaphore, result>>
syncVars == <<call, m_waitingList, mpc, received, notified, late>>

(* std::find on m_waitingList *)
Waiting(k) == {c \in m_waitingList : key[c] = k}

-----------------------------------------------------------------------------
(* Mutant: two threads may wait for the same message *)
RegisterAlways(c, k) ==
  /\ call_pc[c] = "idle"
  /\ mpc # "stopped"
  /\ key' = [key EXCEPT ![c] = k]
  /\ m_waitingList' = m_waitingList \cup {c}
  /\ call_pc' = [call_pc EXCEPT ![c] = "send"]
  /\ UNCHANGED <<m_data, wait_semaphore, result, mpc, received, notified, late>>

(* The first region of SendSyncMsg.  Nothing keeps a thread from calling it
   until the module is deleted.                                              *)
Register(c, k) ==
  /\ call_pc[c] = "idle"
  /\ mpc # "stopped"
  /\ key' = [key EXCEPT ![c] = k]
  /\ IF Waiting(k) # {}
     THEN call_pc' = [call_pc EXCEPT ![c] = "refused"] /\ UNCHANGED m_waitingList
     ELSE call_pc' = [call_pc EXCEPT ![c] = "send"] /\ m_waitingList' = m_waitingList \cup {c}
  /\ late' = IF mpc = "drain" THEN late \cup {c} ELSE late
  /\ UNCHANGED <<m_data, wait_semaphore, result, mpc, received, notified>>

(* Mutant: the semaphore is cleared before the wait *)
SendMsgRelease(c) ==
  /\ call_pc[c] = "send"
  /\ call_pc' = [call_pc EXCEPT ![c] = "wait"]
  /\ wait_semaphore' = [wait_semaphore EXCEPT ![c] = 0]
  /\ UNCHANGED <<key, m_data, result, m_waitingList, mpc, received, notified, late>>

SendMsg(c) ==
  /\ call_pc[c] = "send"
  /\ call_pc' = [call_pc EXCEPT ![c] = "wait"]
  /\ UNCHANGED <<key, m_data, wait_semaphore, result, m_waitingList, mpc, received,
                 notified, late>>

(* Mutant: Wait with a timeout that is ignored *)
WaitIgnoringTimeout(c) ==
  /\ call_pc[c] = "wait"
  /\ call_pc' = [call_pc EXCEPT ![c] = "erase"]
  /\ UNCHANGED <<key, m_data, wait_semaphore, result, m_waitingList, mpc, received,
                 notified, late>>

(* Semaphore::Wait(INFINITE) takes the count and posts it again; nobody else
   waits on this semaphore                                                   *)
Wait(c) ==
  /\ call_pc[c] = "wait"
  /\ wait_semaphore[c] > 0
  /\ call_pc' = [call_pc EXCEPT ![c] = "erase"]
  /\ UNCHANGED <<key, m_data, wait_semaphore, result, m_waitingList, mpc, received,
                 notified, late>>

(* The second region: the entry found by its key is erased *)
Unregister(c) ==
  /\ call_pc[c] = "erase"
  /\ call_pc' = [call_pc EXCEPT ![c] = "copy"]
  /\ IF Waiting(key[c]) = {}
     THEN UNCHANGED m_waitingList
     ELSE \E d \in Waiting(key[c]) : m_waitingList' = m_waitingList \ {d}
  /\ UNCHANGED <<key, m_data, wait_semaphore, result, mpc, received, notified, late>>

(* The data is copied and the stack frame with the WaitData is gone *)
Return(c) ==
  /\ call_pc[c] = "copy"
  /\ call_pc' = [call_pc EXCEPT ![c] = "done"]
  /\ result' = [result EXCEPT ![c] = m_data[c]]
  /\ UNCHANGED <<key, m_data, wait_semaphore, m_waitingList, mpc, received, notified,
                 late>>

(* What Twainet::SendSyncMessage tells its caller: an answer without content, like
   the stop of the module and a refused call, counts as none                   *)
SendSyncMessage(c) == call_pc[c] = "done" /\ result[c] # Empty

-----------------------------------------------------------------------------
(* TwainetModule::OnMessage.  A peer may send a message of any name at any
   time, once the connections of the module are open                        *)
OnMessage(k, d) ==
  /\ mpc # "stopped"
  /\ received < MaxMsg
  /\ received' = received + 1
  /\ IF Waiting(k) # {}
     THEN /\ \E c \in Waiting(k) :
               /\ m_data' = [m_data EXCEPT ![c] = IF d = Empty THEN @ ELSE d]
               /\ wait_semaphore' = [wait_semaphore EXCEPT ![c] = @ + 1]
          /\ UNCHANGED notified
     ELSE /\ notified' = notified + 1
          /\ UNCHANGED <<m_data, wait_semaphore>>
  /\ UNCHANGED <<call_pc, key, result, m_waitingList, mpc, late>>

-----------------------------------------------------------------------------
(* Mutant: only the calls that have sent their message are woken *)
ManagerStopSent ==
  /\ mpc = "running"
  /\ mpc' = "drain"
  /\ wait_semaphore' = [c \in Call |-> IF c \in m_waitingList /\ call_pc[c] = "wait"
                                    THEN wait_semaphore[c] + 1 ELSE wait_semaphore[c]]
  /\ UNCHANGED <<call_pc, key, m_data, result, m_waitingList, received, notified, late>>

(* The first region of ManagerStop *)
ManagerStop ==
  /\ mpc = "running"
  /\ mpc' = "drain"
  /\ wait_semaphore' = [c \in Call |-> IF c \in m_waitingList
                                    THEN wait_semaphore[c] + 1 ELSE wait_semaphore[c]]
  /\ UNCHANGED <<call_pc, key, m_data, result, m_waitingList, received, notified, late>>

(* Its loop ends; the module is stopped and deleted *)
Drained ==
  /\ mpc = "drain"
  /\ m_waitingList = {}
  /\ mpc' = "stopped"
  /\ UNCHANGED <<call, m_waitingList, received, notified, late>>

-----------------------------------------------------------------------------
SyncInit ==
  /\ call_pc = [c \in Call |-> "idle"]
  /\ key = [c \in Call |-> CHOOSE k \in Key : TRUE]
  /\ m_data = [c \in Call |-> Empty]
  /\ wait_semaphore = [c \in Call |-> 0]
  /\ result = [c \in Call |-> Empty]
  /\ m_waitingList = {}
  /\ mpc = "running"
  /\ received = 0
  /\ notified = 0
  /\ late = {}

CallStep(c) == SendMsg(c) \/ Wait(c) \/ Unregister(c) \/ Return(c)

SyncNext ==
  \/ \E c \in Call : CallStep(c) \/ \E k \in Key : Register(c, k)
  \/ \E k \in Key, d \in Data \cup {Empty} : OnMessage(k, d)
  \/ ManagerStop
  \/ Drained

SyncSpec == SyncInit /\ [][SyncNext]_syncVars

(* Threads inside SendSyncMsg and the managers thread go on; peers need not
   answer and the module need not be deleted *)
SyncFairSpec == SyncSpec /\ (\A c \in Call : WF_syncVars(CallStep(c))) /\ WF_syncVars(Drained)

-----------------------------------------------------------------------------
InCall == {"send", "wait", "erase"}

SyncTypeOK ==
  /\ call_pc \in [Call -> InCall \cup {"idle", "copy", "done", "refused"}]
  /\ key \in [Call -> Key]
  /\ m_data \in [Call -> Data \cup {Empty}]
  /\ wait_semaphore \in [Call -> 0..MaxMsg + 1]
  /\ result \in [Call -> Data \cup {Empty}]
  /\ m_waitingList \subseteq Call
  /\ mpc \in {"running", "drain", "stopped"}
  /\ received \in 0..MaxMsg
  /\ notified \in 0..MaxMsg
  /\ late \subseteq Call

(* m_waitingList holds the WaitData of exactly the calls between their two
   regions: it never points into a stack frame that is gone, and a call that may
   still wait is never off the list, where no answer and no stop could wake it.
   The entry is erased by its key, so this rests on one call per key.           *)
ListedIsInCall == \A c \in Call : c \in m_waitingList <=> call_pc[c] \in InCall

(* A message that is handed to a waiting call ends that call, even when more
   messages, other calls and the stop of the module come in between             *)
AnsweredReturns ==
  \A c \in Call : (call_pc[c] \in InCall /\ wait_semaphore[c] > 0) ~> (call_pc[c] = "done")

(* Every call that was on the list when ManagerStop set the semaphores returns:
   the deletion of the module waits only for calls made after that              *)
StopWaitsForLateOnly ==
  (mpc = "drain") ~> (mpc = "stopped" \/ m_waitingList \cap late # {})

(* What ends a call without an answer is the stop of the module only: a call
   that returns while the module runs was handed a message, and so was, even while
   the module stops, one whose caller is told that there is an answer.  And the
   state is well typed, the semaphores within what the messages account for.    *)
NoSpuriousReturn ==
  /\ SyncTypeOK
  /\ mpc = "running" => Cardinality({c \in Call : call_pc[c] \in {"erase", "copy", "done"}})
                          <= received - notified
  /\ Cardinality({c \in Call : SendSyncMessage(c)}) <= received - notified
=============================================================================
