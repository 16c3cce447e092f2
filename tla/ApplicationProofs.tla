--------------------------- MODULE ApplicationProofs ---------------------------
(***************************************************************************)
(* Proofs about the two ways a message reaches the user of a module: the   *)
(* notification queue, for any set of messages and any maximal count of    *)
(* the semaphore (the Windows build, 1, and the POSIX ones alike), and the *)
(* synchronous messages, for any number of calls, keys and messages.       *)
(***************************************************************************)
EXTENDS NotificationQueue, SyncCall, SequenceTheorems, FiniteSetTheorems, TLAPS

(* ThreadFunc's local vector is empty outside of the loop over it *)
BatchEmpty == pc # "handle" => messages = <<>>

QInv == TypeOK /\ BatchEmpty /\ WakeupPending

-----------------------------------------------------------------------------
(* Removing the head of the first of two sequences removes that of both *)
LEMMA HeadTailConcat ==
  ASSUME NEW S, NEW s \in Seq(S), NEW t \in Seq(S), s # <<>>
  PROVE  /\ s \o t # <<>>
         /\ Head(s \o t) = Head(s)
         /\ Tail(s \o t) = Tail(s) \o t
<1> DEFINE u == s \o t
           v == Tail(s) \o t
<1>1. /\ s \in Seq(S) /\ Len(s) \in Nat /\ Len(s) > 0
      /\ Tail(s) \in Seq(S) /\ Len(Tail(s)) = Len(s) - 1
      /\ \A i \in 1..Len(Tail(s)) : Tail(s)[i] = s[i + 1]
  BY HeadTailProperties, EmptySeq
<1>2. /\ u \in Seq(S) /\ Len(u) = Len(s) + Len(t)
      /\ \A i \in 1..Len(u) : u[i] = IF i <= Len(s) THEN s[i] ELSE t[i - Len(s)]
  BY ConcatProperties
<1>3. /\ v \in Seq(S) /\ Len(v) = Len(Tail(s)) + Len(t)
      /\ \A i \in 1..Len(v) :
           v[i] = IF i <= Len(Tail(s)) THEN Tail(s)[i] ELSE t[i - Len(Tail(s))]
  BY <1>1, ConcatProperties
<1>4. Len(t) \in Nat /\ Len(u) \in Nat /\ Len(u) > 0
  BY <1>1, <1>2
<1>5. u # <<>>
  BY <1>4
<1>6. Head(u) = Head(s)
  BY <1>1, <1>2, <1>4, <1>5
<1>7. /\ Tail(u) \in Seq(S) /\ Len(Tail(u)) = Len(u) - 1
      /\ \A i \in 1..Len(Tail(u)) : Tail(u)[i] = u[i + 1]
  BY <1>2, <1>5, HeadTailProperties
<1>8. Len(Tail(u)) = Len(v)
  BY <1>1, <1>2, <1>3, <1>4, <1>7
<1>9. ASSUME NEW i \in 1..Len(v) PROVE Tail(u)[i] = v[i]
  <2>1. i + 1 \in 1..Len(u) /\ Tail(u)[i] = u[i + 1]
    BY <1>4, <1>7, <1>8, <1>9
  <2>2. CASE i <= Len(Tail(s))
    <3>1. i \in 1..Len(Tail(s)) /\ i + 1 <= Len(s)
      BY <1>1, <1>9, <2>2
    <3> QED
      BY <1>1, <1>2, <1>3, <1>9, <2>1, <2>2, <3>1
  <2>3. CASE ~(i <= Len(Tail(s)))
    <3>1. ~(i + 1 <= Len(s)) /\ (i + 1) - Len(s) = i - Len(Tail(s))
      BY <1>1, <1>9, <2>3
    <3> QED
      BY <1>2, <1>3, <1>9, <2>1, <2>3, <3>1
  <2> QED
    BY <2>2, <2>3
<1>10. Tail(u) = v
  BY <1>3, <1>7, <1>8, <1>9, SeqEqual
<1> QED
  BY <1>5, <1>6, <1>10

(* Appending to the second of two sequences appends to both *)
LEMMA AppendConcat ==
  ASSUME NEW S, NEW s \in Seq(S), NEW t \in Seq(S), NEW m \in S
  PROVE  s \o Append(t, m) = Append(s \o t, m)
<1>1. /\ Append(t, m) = t \o <<m>>
      /\ s \o t \in Seq(S)
      /\ <<m>> \in Seq(S)
  BY AppendIsConcat, ConcatProperties
<1>2. Append(s \o t, m) = (s \o t) \o <<m>>
  BY <1>1, AppendIsConcat
<1> QED
  BY <1>1, <1>2, ConcatAssociative

-----------------------------------------------------------------------------
(* Every step of the notifying, the closing and the notification thread keeps
   the types, the emptiness of the local vector and the wakeup *)
LEMMA QueueStep == QInv /\ [Next]_vars => QInv'
<1> SUFFICES ASSUME QInv, [Next]_vars PROVE QInv'
  OBVIOUS
<1> USE MaxCountAssumption
    DEF QInv, TypeOK, BatchEmpty, WakeupPending, queue, thread, user
<1>1. ASSUME NEW m \in Msg, AddNotifycationMessage(m) PROVE QInv'
  BY <1>1 DEF AddNotifycationMessage, Set
<1>2. CASE TestStop
  BY <1>2 DEF TestStop, IsStop
<1>3. CASE WaitTake
  BY <1>3 DEF WaitTake
<1>4. CASE WaitTimeout
  BY <1>4 DEF WaitTimeout
<1>5. CASE WaitPost
  BY <1>5 DEF WaitPost, Set
<1>6. CASE TakeMessages
  BY <1>6 DEF TakeMessages, Release
<1>7. CASE HandleMessage
  <2>1. Head(messages) \in Msg /\ Tail(messages) \in Seq(Msg)
    BY <1>7, HeadTailProperties DEF HandleMessage
  <2> QED
    BY <1>7, <2>1 DEF HandleMessage
<1>8. CASE EndBatch
  BY <1>8 DEF EndBatch
<1>9. CASE OnStop
  BY <1>9 DEF OnStop
<1>10. CASE ThreadProcEnd
  BY <1>10 DEF ThreadProcEnd
<1>11. CASE InitLibrary
  BY <1>11 DEF InitLibrary
<1>12. CASE Deinit
  BY <1>12 DEF Deinit
<1>13. CASE Stop
  BY <1>13 DEF Stop, Set
<1>14. CASE WaitStop
  BY <1>14 DEF WaitStop
<1>15. CASE UNCHANGED vars
  BY <1>15 DEF vars
<1> QED
  BY <1>1, <1>2, <1>3, <1>4, <1>5, <1>6, <1>7, <1>8, <1>9, <1>10, <1>11, <1>12,
     <1>13, <1>14, <1>15
  DEF Next, ThreadFunc

(* The queue starts empty, with the thread at its loop *)
LEMMA QueueInit == Init => QInv
<1> SUFFICES ASSUME Init PROVE QInv
  OBVIOUS
<1>1. m_semaphore \in 0..MaxCount
  BY MaxCountAssumption DEF Init
<1>2. m_messages \in Seq(Msg) /\ messages \in Seq(Msg) /\ handled \in Seq(Msg)
  BY DEF Init
<1> QED
  BY <1>1, <1>2 DEF Init, QInv, TypeOK, BatchEmpty, WakeupPending

(* No notification waits in m_messages without the semaphore that makes
   ThreadFunc look at it, whatever the semaphore's maximal count. *)
THEOREM NoLostWakeup == Spec => []WakeupPending
<1>1. QInv => WakeupPending
  BY DEF QInv
<1> QED
  BY QueueInit, QueueStep, <1>1, PTL DEF Spec

-----------------------------------------------------------------------------
(* A step of Application is a step of the abstract queue or changes nothing of it *)
LEMMA FIFOStep == QInv /\ QInv' /\ [Next]_vars => [FIFO!FNext]_(FIFO!fifo)
<1> SUFFICES ASSUME QInv, QInv', [Next]_vars PROVE [FIFO!FNext]_(FIFO!fifo)
  OBVIOUS
<1> USE DEF QInv, TypeOK, BatchEmpty, queue, thread, user
<1>1. ASSUME NEW m \in Msg, AddNotifycationMessage(m) PROVE FIFO!FNext
  <2>1. messages \o Append(m_messages, m) = Append(messages \o m_messages, m)
    BY AppendConcat
  <2>2. FIFO!Send(m)
    BY <1>1, <2>1 DEF AddNotifycationMessage, FIFO!Send
  <2> QED
    BY <2>2 DEF FIFO!FNext
<1>2. CASE \/ TestStop \/ WaitTake \/ WaitTimeout \/ WaitPost \/ EndBatch
           \/ ThreadProcEnd \/ InitLibrary \/ Deinit \/ Stop \/ WaitStop
           \/ UNCHANGED vars
  <2>1. UNCHANGED <<sent, m_messages, messages, handled>>
    BY <1>2 DEF TestStop, WaitTake, WaitTimeout, WaitPost, EndBatch, ThreadProcEnd,
                InitLibrary, Deinit, Stop, WaitStop, vars
  <2>2. (pc' \in {"stopping", "done"}) = (pc \in {"stopping", "done"})
    <3>1. CASE TestStop \/ WaitTake \/ WaitTimeout \/ WaitPost \/ EndBatch
      BY <3>1 DEF TestStop, WaitTake, WaitTimeout, WaitPost, EndBatch
    <3>2. CASE ThreadProcEnd
      BY <3>2 DEF ThreadProcEnd
    <3>3. CASE InitLibrary \/ Deinit \/ Stop \/ WaitStop \/ UNCHANGED vars
      BY <3>3 DEF InitLibrary, Deinit, Stop, WaitStop, vars
    <3> QED
      BY <1>2, <3>1, <3>2, <3>3
  <2> QED
    BY <2>1, <2>2 DEF FIFO!fifo
<1>3. CASE TakeMessages
  <2>1. /\ messages = <<>> /\ messages' = m_messages /\ m_messages' = <<>>
    BY <1>3 DEF TakeMessages
  <2>2. <<>> \o m_messages = m_messages /\ m_messages \o <<>> = m_messages
    BY ConcatEmptySeq
  <2> QED
    BY <1>3, <2>1, <2>2 DEF TakeMessages, FIFO!fifo
<1>4. CASE HandleMessage
  <2>1. /\ messages \o m_messages # <<>>
        /\ Head(messages \o m_messages) = Head(messages)
        /\ Tail(messages \o m_messages) = Tail(messages) \o m_messages
    BY <1>4, HeadTailConcat DEF HandleMessage
  <2>2. FIFO!Deliver
    BY <1>4, <2>1 DEF HandleMessage, FIFO!Deliver
  <2> QED
    BY <2>2 DEF FIFO!FNext
<1>5. CASE OnStop
  <2>1. <<>> \o <<>> = <<>>
    BY ConcatEmptySeq
  <2>2. messages' \o m_messages' = <<>>
    BY <1>5, <2>1 DEF OnStop
  <2>3. FIFO!Close
    BY <1>5, <2>2 DEF OnStop, FIFO!Close
  <2> QED
    BY <2>3 DEF FIFO!FNext
<1> QED
  BY <1>1, <1>2, <1>3, <1>4, <1>5 DEF Next, ThreadFunc

(* Application implements the abstract queue: until the library is closed, every
   notification is handed to the callbacks once, in the order they were added. *)
THEOREM QueueIsFIFO == Spec => FIFO!FSpec
<1>1. Init => FIFO!FInit
  BY ConcatEmptySeq DEF Init, FIFO!FInit
<1> QED
  BY <1>1, QueueInit, QueueStep, FIFOStep, PTL DEF Spec, FIFO!FSpec

-----------------------------------------------------------------------------
(* Synchronous messages *)

(* One call per message name and sender *)
UniqueKey ==
  \A c \in m_waitingList, d \in m_waitingList : key[c] = key[d] => c = d

LInv ==
  /\ call_pc \in [Call -> InCall \cup {"idle", "copy", "done", "refused"}]
  /\ key \in [Call -> Key]
  /\ m_waitingList \subseteq Call
  /\ UniqueKey
  /\ ListedIsInCall

(* The list and the places of the calls stay in step *)
LEMMA ListStep == LInv /\ [SyncNext]_syncVars => LInv'
<1> SUFFICES ASSUME LInv, [SyncNext]_syncVars PROVE LInv'
  OBVIOUS
<1> USE DEF LInv, InCall, call
<1>1. ASSUME NEW c \in Call, NEW k \in Key, Register(c, k) PROVE LInv'
  <2>1. c \notin m_waitingList
    BY <1>1 DEF Register, ListedIsInCall
  <2>2. CASE Waiting(k) # {}
    BY <1>1, <2>1, <2>2 DEF Register, UniqueKey, ListedIsInCall
  <2>3. CASE Waiting(k) = {}
    <3>1. \A d \in m_waitingList : key[d] # k
      BY <2>3 DEF Waiting
    <3>2. UniqueKey'
      BY <1>1, <2>1, <2>3, <3>1 DEF Register, UniqueKey
    <3> QED
      BY <1>1, <2>1, <2>3, <3>2 DEF Register, ListedIsInCall
  <2> QED
    BY <2>2, <2>3
<1>2. ASSUME NEW c \in Call, SendMsg(c) \/ Wait(c) PROVE LInv'
  BY <1>2 DEF SendMsg, Wait, UniqueKey, ListedIsInCall
<1>3. ASSUME NEW c \in Call, Unregister(c) PROVE LInv'
  <2>1. Waiting(key[c]) = {c}
    BY <1>3 DEF Unregister, Waiting, UniqueKey, ListedIsInCall
  <2>2. m_waitingList' = m_waitingList \ {c}
    BY <1>3, <2>1 DEF Unregister
  <2> QED
    BY <1>3, <2>2 DEF Unregister, UniqueKey, ListedIsInCall
<1>4. ASSUME NEW c \in Call, Return(c) PROVE LInv'
  BY <1>4 DEF Return, UniqueKey, ListedIsInCall
<1>5. ASSUME NEW k \in Key, NEW d \in Data \cup {Empty}, OnMessage(k, d) PROVE LInv'
  BY <1>5 DEF OnMessage, UniqueKey, ListedIsInCall
<1>6. CASE ManagerStop \/ Drained \/ UNCHANGED syncVars
  BY <1>6 DEF ManagerStop, Drained, syncVars, UniqueKey, ListedIsInCall
<1> QED
  BY <1>1, <1>2, <1>3, <1>4, <1>5, <1>6 DEF SyncNext, CallStep

(* SendSyncMsg never leaves the address of a WaitData that is gone on the list,
   and never waits without being on it; erasing by key removes its own entry. *)
THEOREM ListedInCall == SyncSpec => []ListedIsInCall
<1>1. SyncInit => LInv
  BY SyncAssumption DEF SyncInit, LInv, InCall, UniqueKey, ListedIsInCall
<1>2. LInv => ListedIsInCall
  BY DEF LInv
<1> QED
  BY <1>1, <1>2, ListStep, PTL DEF SyncSpec

-----------------------------------------------------------------------------
(* Messages handed to a call *)
Handed == received - notified

(* The calls whose semaphore was set, and those with an answer in their WaitData *)
Posted == {c \in Call : wait_semaphore[c] > 0}
Answered == {c \in Call : m_data[c] # Empty}
Bounded(S) == IsFiniteSet(S) /\ Cardinality(S) <= Handed

CountType ==
  /\ m_data \in [Call -> Data \cup {Empty}]
  /\ wait_semaphore \in [Call -> Nat]
  /\ result \in [Call -> Data \cup {Empty}]
  /\ mpc \in {"running", "drain", "stopped"}
  /\ received \in 0..MaxMsg /\ notified \in Nat /\ notified <= received
  /\ late \subseteq Call

(* A semaphore counts the messages of its call, and once the stop of the module *)
PostsAccounted ==
  \A c \in Call : wait_semaphore[c] <= Handed + (IF mpc = "running" THEN 0 ELSE 1)

(* A call is past its wait only after a post, and gives its caller what its WaitData has *)
PastWait == \A c \in Call :
  /\ call_pc[c] \in {"erase", "copy", "done"} => wait_semaphore[c] > 0
  /\ result[c] # Empty => m_data[c] # Empty

CInv ==
  /\ CountType /\ PostsAccounted /\ PastWait
  /\ mpc = "running" => Bounded(Posted)
  /\ Bounded(Answered)

LEMMA OneMore ==
  ASSUME NEW S, NEW T, NEW x, T \subseteq S \cup {x}, IsFiniteSet(S), NEW n \in Nat,
         Cardinality(S) <= n
  PROVE  IsFiniteSet(T) /\ Cardinality(T) <= n + 1
<1>1. /\ IsFiniteSet(S \cup {x}) /\ Cardinality(S) \in Nat
      /\ Cardinality(S \cup {x}) = Cardinality(S) \/ Cardinality(S \cup {x}) = Cardinality(S) + 1
  BY FS_AddElement, FS_CardinalityType
<1>2. IsFiniteSet(T) /\ Cardinality(T) <= Cardinality(S \cup {x}) /\ Cardinality(T) \in Nat
  BY <1>1, FS_Subset, FS_CardinalityType
<1> QED
  BY <1>1, <1>2

(* Steps that hand out no message and post on no semaphore *)
LEMMA CountSame ==
  ASSUME CInv, CountType', UNCHANGED <<m_data, wait_semaphore, received, notified>>,
         mpc' = mpc \/ mpc' # "running", PastWait'
  PROVE  CInv'
<1>1. PostsAccounted'
  BY DEF CInv, CountType, PostsAccounted, Handed
<1>2. Posted' = Posted /\ Answered' = Answered /\ Handed' = Handed
  BY DEF Posted, Answered, Handed
<1> QED
  BY <1>1, <1>2 DEF CInv, Bounded

LEMMA CountStep == LInv /\ CInv /\ [SyncNext]_syncVars => CInv'
<1> SUFFICES ASSUME LInv, CInv, [SyncNext]_syncVars PROVE CInv'
  OBVIOUS
<1>0. /\ call_pc \in [Call -> InCall \cup {"idle", "copy", "done", "refused"}]
      /\ CountType /\ PastWait /\ PostsAccounted /\ MaxMsg \in Nat
      /\ m_waitingList \subseteq Call
  BY SyncAssumption DEF LInv, CInv
<1> USE DEF call
<1>1. ASSUME NEW c \in Call, NEW k \in Key, Register(c, k) PROVE CInv'
  <2>1. CountType'
    BY <1>0, <1>1 DEF Register, CountType
  <2>2. PastWait'
    BY <1>0, <1>1 DEF Register, PastWait
  <2> QED
    BY <1>1, <2>1, <2>2, CountSame DEF Register
<1>2. ASSUME NEW c \in Call, SendMsg(c) \/ Wait(c) \/ Unregister(c) \/ Return(c) PROVE CInv'
  <2>1. CountType'
    BY <1>0, <1>2 DEF SendMsg, Wait, Unregister, Return, CountType
  <2>2. PastWait'
    BY <1>0, <1>2 DEF SendMsg, Wait, Unregister, Return, PastWait, CountType
  <2> QED
    BY <1>2, <2>1, <2>2, CountSame DEF SendMsg, Wait, Unregister, Return
<1>3. ASSUME NEW k \in Key, NEW d \in Data \cup {Empty}, OnMessage(k, d) PROVE CInv'
  <2>0. received' = received + 1 /\ received < MaxMsg /\ mpc' = mpc
        /\ call_pc' = call_pc /\ result' = result /\ late' = late
    BY <1>3 DEF OnMessage
  <2>1. CASE Waiting(k) # {}
    <3>1. PICK c \in Waiting(k) :
            /\ m_data' = [m_data EXCEPT ![c] = IF d = Empty THEN @ ELSE d]
            /\ wait_semaphore' = [wait_semaphore EXCEPT ![c] = @ + 1]
      BY <1>3, <2>1 DEF OnMessage
    <3>2. c \in Call /\ notified' = notified
      BY <1>0, <1>3, <2>1 DEF OnMessage, Waiting
    <3>3. Handed' = Handed + 1 /\ Handed \in Nat
      BY <1>0, <2>0, <3>2 DEF Handed, CountType
    <3>4. /\ CountType' /\ PastWait'
          /\ \A b \in Call \ {c} : wait_semaphore'[b] = wait_semaphore[b] /\ m_data'[b] = m_data[b]
          /\ wait_semaphore'[c] = wait_semaphore[c] + 1
      BY <1>0, <2>0, <3>1, <3>2 DEF CountType, PastWait
    <3>5. PostsAccounted'
      BY <1>0, <2>0, <3>2, <3>3, <3>4 DEF PostsAccounted, CountType
    <3>6. Posted' \subseteq Posted \cup {c} /\ Answered' \subseteq Answered \cup {c}
      BY <3>4 DEF Posted, Answered
    <3>7. Bounded(Answered)'
      BY <3>3, <3>6, OneMore DEF CInv, Bounded
    <3>8. mpc = "running" => Bounded(Posted)'
      BY <3>3, <3>6, OneMore DEF CInv, Bounded
    <3> QED
      BY <2>0, <3>4, <3>5, <3>7, <3>8 DEF CInv
  <2>2. CASE Waiting(k) = {}
    <3>1. notified' = notified + 1 /\ m_data' = m_data /\ wait_semaphore' = wait_semaphore
      BY <1>3, <2>2 DEF OnMessage
    <3>2. Handed' = Handed
      BY <1>0, <2>0, <3>1 DEF Handed, CountType
    <3>3. CountType' /\ PastWait' /\ PostsAccounted'
      BY <1>0, <2>0, <3>1, <3>2 DEF CountType, PastWait, PostsAccounted
    <3>4. Posted' = Posted /\ Answered' = Answered
      BY <3>1 DEF Posted, Answered
    <3> QED
      BY <2>0, <3>2, <3>3, <3>4 DEF CInv, Bounded
  <2> QED
    BY <2>1, <2>2
<1>4. CASE ManagerStop
  <2>0. /\ mpc = "running" /\ mpc' = "drain"
        /\ UNCHANGED <<call_pc, key, m_data, result, received, notified, late>>
        /\ wait_semaphore' = [c \in Call |-> IF c \in m_waitingList
                                          THEN wait_semaphore[c] + 1 ELSE wait_semaphore[c]]
    BY <1>4 DEF ManagerStop
  <2>1. CountType' /\ PastWait'
    BY <1>0, <2>0 DEF CountType, PastWait
  <2>2. PostsAccounted'
    BY <1>0, <2>0 DEF PostsAccounted, Handed, CountType
  <2>3. Answered' = Answered /\ Handed' = Handed
    BY <2>0 DEF Answered, Handed
  <2> QED
    BY <2>0, <2>1, <2>2, <2>3 DEF CInv, Bounded
<1>5. CASE Drained
  <2>1. CountType' /\ PastWait'
    BY <1>0, <1>5 DEF Drained, CountType, PastWait
  <2> QED
    BY <1>5, <2>1, CountSame DEF Drained
<1>6. CASE UNCHANGED syncVars
  <2>1. CountType' /\ PastWait'
    BY <1>0, <1>6 DEF syncVars, CountType, PastWait
  <2> QED
    BY <1>6, <2>1, CountSame DEF syncVars
<1> QED
  BY <1>1, <1>2, <1>3, <1>4, <1>5, <1>6 DEF SyncNext, CallStep

(* SendSyncMsg waits without a limit: what lets a call past its wait is a message of its key
   or the stop of the module, never a message twice and never an answer of another call. *)
THEOREM ReturnsAccounted == SyncSpec => []NoSpuriousReturn
<1>1. SyncInit => LInv /\ CInv
  <2> SUFFICES ASSUME SyncInit PROVE LInv /\ CInv
    OBVIOUS
  <2>1. LInv
    BY SyncAssumption DEF SyncInit, LInv, InCall, UniqueKey, ListedIsInCall
  <2>2. Posted = {} /\ Answered = {} /\ Handed = 0
    BY DEF SyncInit, Posted, Answered, Handed
  <2>3. Bounded(Posted) /\ Bounded(Answered)
    BY <2>2, FS_EmptySet DEF Bounded
  <2>4. CountType /\ PostsAccounted /\ PastWait
    BY <2>2, SyncAssumption DEF SyncInit, CountType, PostsAccounted, PastWait
  <2> QED
    BY <2>1, <2>3, <2>4 DEF CInv
<1>2. LInv /\ CInv => NoSpuriousReturn
  <2> SUFFICES ASSUME LInv, CInv PROVE NoSpuriousReturn
    OBVIOUS
  <2>0. CountType /\ PastWait /\ PostsAccounted /\ MaxMsg \in Nat
    BY SyncAssumption DEF CInv
  <2>1. SyncTypeOK
    <3>1. \A c \in Call : wait_semaphore[c] \in 0..MaxMsg + 1
      BY <2>0 DEF CountType, PostsAccounted, Handed
    <3>2. wait_semaphore \in [Call -> 0..MaxMsg + 1]
      BY <2>0, <3>1 DEF CountType
    <3>3. notified \in 0..MaxMsg
      BY <2>0 DEF CountType
    <3> QED
      BY <2>0, <3>2, <3>3 DEF SyncTypeOK, LInv, CountType
  <2>2. ASSUME NEW S, NEW T, S \subseteq T, Bounded(T) PROVE Cardinality(S) <= received - notified
    <3>1. IsFiniteSet(S) /\ Cardinality(S) <= Cardinality(T)
      BY <2>2, FS_Subset DEF Bounded
    <3>2. Cardinality(S) \in Nat /\ Cardinality(T) \in Nat /\ received - notified \in Int
      BY <2>0, <2>2, <3>1, FS_CardinalityType DEF Bounded, CountType
    <3> QED
      BY <2>2, <3>1, <3>2 DEF Bounded, Handed
  <2>3. {c \in Call : call_pc[c] \in {"erase", "copy", "done"}} \subseteq Posted
    BY <2>0 DEF PastWait, Posted
  <2>4. {c \in Call : SendSyncMessage(c)} \subseteq Answered
    BY <2>0 DEF PastWait, Answered, SendSyncMessage
  <2>5. mpc = "running" => Cardinality({c \in Call : call_pc[c] \in {"erase", "copy", "done"}})
                             <= received - notified
    BY <2>2, <2>3 DEF CInv
  <2>6. Cardinality({c \in Call : SendSyncMessage(c)}) <= received - notified
    BY <2>2, <2>4 DEF CInv
  <2> QED
    BY <2>1, <2>5, <2>6 DEF NoSpuriousReturn
<1> QED
  BY <1>1, <1>2, ListStep, CountStep, PTL DEF SyncSpec
=============================================================================
