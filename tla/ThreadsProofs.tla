----------------------------- MODULE ThreadsProofs -----------------------------
(***************************************************************************)
(* Proofs about Threads, for any number of listen threads.                 *)
(***************************************************************************)
EXTENDS Threads, TLAPS

UserPc == {"idle", "new", "stop", "close", "add", "starting", "closing", "closed"}
MgrPc == {"round", "delete", "managers", "join", "joining", "waiting", "ended"}
UserType == [pc : UserPc, t : Thread \cup {NoThread}, then : {"idle", "new"}]
MgrType == [pc : MgrPc, t : Thread \cup {NoThread}, list : SUBSET Thread,
            then : {"round", "managers"}]

(* The thread is between its first line and the end of OnStop *)
Working == {"onStart", "create", "bind", "loop", "accept", "exchange", "onStop",
            "stopping"}

(* The places of the user's and of the managers thread; what they work on is an object *)
PlacesOK ==
  /\ user \in UserType
  /\ mgr \in MgrType
  /\ user.pc \in {"stop", "close"} => user.t \in Thread
  /\ mgr.pc \in {"joining", "waiting"} => mgr.t \in Thread

(* m_state, the handle and the semaphores say where the thread is *)
StateTrue ==
  \A t \in Thread :
    /\ m_state[t] = "STOPPED" => proc[t] \in {"none", "stopped", "ended"}
    /\ m_state[t] = "RUNNING" => proc[t] \notin {"none", "created"}
    /\ ~m_handle[t] => proc[t] \in {"none", "ended"}
    /\ proc[t] \in {"none", "created"} => m_startSemaphore[t] = 0
    /\ proc[t] # "ended" => m_stopSemaphore[t] = 0

(* Start was called for it *)
Used(t) == m_state[t] # "STOPPED" \/ proc[t] # "none"

(* Only an object that was started is listed, kept by the module or deleted *)
ListedUsed ==
  /\ \A t \in m_threads \cup freed \cup mgr.list : Used(t)
  /\ m_serverThread # NoThread => Used(m_serverThread)

(* What the managers thread deletes, or has deleted, is past the end of OnStop *)
DeletedQuiet ==
  \A t \in freed \cup mgr.list : proc[t] \in {"none", "stopped", "ended"}

WorkInv ==
  /\ TypeOK /\ PlacesOK /\ StateTrue /\ ListedUsed /\ DeletedQuiet
  /\ broken \notin {"ThreadProc", "OnStart", "ThreadFunc", "OnStop"}

(* A thread that has not run yet is the one that Start waits for *)
CreatedAwaited ==
  \A t \in Thread : proc[t] = "created" => user.pc = "starting" /\ user.t = t

(* The order of closing: the managers are stopped while the user waits, and the
   ThreadManager is gone when CloseLibrary returns *)
ClosingOrder ==
  /\ mgr.pc \in {"managers", "join", "joining", "waiting"} => user.pc = "closing"
  /\ mgr.then = "managers" => user.pc \in {"closing", "closed"}
  /\ "threads" \notin manages => user.pc \in {"closing", "closed"} /\ ~ManagerLocked
  /\ user.pc = "closed" => "threads" \notin manages /\ mgr.pc = "ended"
  /\ "threads" \in manages /\ ~ManagerLocked => missed = {}

(* A thread at work is listed from its OnStart on; when ManagerStop has begun, one that is
   not was missed, and when it is over, every one was *)
WorkingListed ==
  \A t \in Thread :
    /\ proc[t] \in Working \ {"onStart"} => t \in m_threads \cup missed
    /\ ManagerLocked /\ proc[t] = "onStart" => t \in m_threads \cup missed
    /\ "threads" \notin manages /\ proc[t] \in Working => t \in missed

CloseInv == CreatedAwaited /\ ClosingOrder /\ WorkingListed

-----------------------------------------------------------------------------
(* The thread of an object, at its last lines or before, takes a step *)
LEMMA ProcWork ==
  ASSUME WorkInv, NEW t \in Thread,
         ProcStep(t) \/ Accept(t) \/ ExchangeEnds(t) \/ AcceptFails(t)
  PROVE  WorkInv'
<1> USE ThreadsAssumption
    DEF WorkInv, TypeOK, PlacesOK, StateTrue, Used, ListedUsed, DeletedQuiet, State, Proc, object,
        history, Uses, UserType, UserPc, MgrType, MgrPc
<1>1. CASE ThreadProcRun(t)
  BY <1>1 DEF ThreadProcRun
<1>2. CASE OnStart(t)
  BY <1>2 DEF OnStart
<1>3. CASE CreateSocket(t)
  BY <1>3 DEF CreateSocket
<1>4. CASE Bind(t)
  BY <1>4 DEF Bind
<1>5. CASE OnErrorListener(t)
  BY <1>5 DEF OnErrorListener, AddThread
<1>6. CASE TestStop(t)
  BY <1>6 DEF TestStop
<1>7. CASE Accept(t)
  BY <1>7 DEF Accept
<1>12. CASE ExchangeEnds(t)
  BY <1>12 DEF ExchangeEnds
<1>8. CASE AcceptFails(t)
  BY <1>8 DEF AcceptFails
<1>9. CASE OnStop(t)
  BY <1>9 DEF OnStop, StopThread
<1>10. CASE ThreadProcStopped(t)
  BY <1>10 DEF ThreadProcStopped
<1>11. CASE ThreadProcEnd(t)
  BY <1>11 DEF ThreadProcEnd
<1> QED
  BY <1>1, <1>2, <1>3, <1>4, <1>5, <1>6, <1>7, <1>8, <1>9, <1>10, <1>11, <1>12 DEF ProcStep

(* ... and the user's thread *)
LEMMA UserWork ==
  ASSUME WorkInv, UserStep \/ StartServer \/ StopServer \/ CloseLibrary
  PROVE  WorkInv'
<1> USE ThreadsAssumption
    DEF WorkInv, TypeOK, PlacesOK, StateTrue, Used, ListedUsed, DeletedQuiet, State, Proc, object,
        history, Uses, UserType, UserPc, MgrType, MgrPc
<1>1. CASE StartServer \/ StopServer \/ CloseLibrary \/ NoNewThread
  BY <1>1 DEF StartServer, StopServer, CloseLibrary, NoNewThread
<1>2. CASE UserStop
  BY <1>2 DEF UserStop, StopThread
<1>3. CASE UserClose
  BY <1>3 DEF UserClose, Close
<1>4. CASE UserAdd
  <2>1. /\ user'.pc = user.then /\ user'.t = NoThread /\ user'.then = "idle"
        /\ user' \in UserType
    BY <1>4 DEF UserAdd
  <2>2. m_threads' \subseteq m_threads \cup ({m_serverThread} \ {NoThread})
    BY <1>4 DEF UserAdd, AddThread
  <2> QED
    BY <1>4, <2>1, <2>2 DEF UserAdd
<1>5. CASE StartReturns
  BY <1>5 DEF StartReturns
<1>6. ASSUME NEW t \in Thread, NewThread(t) PROVE WorkInv'
  <2>1. /\ user'.pc \in {"starting", "idle"} /\ user'.t = t
        /\ user' \in UserType
    BY <1>6 DEF NewThread
  <2>2. /\ m_state' = [m_state EXCEPT ![t] = "START_PENDING"]
        /\ m_startSemaphore' = [m_startSemaphore EXCEPT ![t] = 0]
        /\ m_stopSemaphore' = [m_stopSemaphore EXCEPT ![t] = 0]
    BY <1>6 DEF NewThread, Start
  <2>3. ~Used(t)
    BY <1>6 DEF NewThread
  <2>4. \/ proc' = [proc EXCEPT ![t] = "created"] /\ m_handle' = [m_handle EXCEPT ![t] = TRUE]
        \/ UNCHANGED <<proc, m_handle>>
    BY <1>6 DEF NewThread, Start
  <2>5. TypeOK' /\ PlacesOK' /\ StateTrue'
    <3>1. TypeOK'
      <4>1. m_handle' \in [Thread -> BOOLEAN] /\ proc' \in [Thread -> Proc]
        BY <2>4
      <4>2. /\ m_state' \in [Thread -> State] /\ m_startSemaphore' \in [Thread -> 0..1]
            /\ m_stopSemaphore' \in [Thread -> 0..1]
        BY <2>2
      <4> QED
        BY <1>6, <4>1, <4>2 DEF NewThread
    <3>2. PlacesOK'
      BY <1>6, <2>1 DEF NewThread
    <3>3. StateTrue'
      BY <1>6, <2>2, <2>4 DEF NewThread
    <3> QED
      BY <3>1, <3>2, <3>3
  <2>6. ListedUsed' /\ DeletedQuiet'
    BY <1>6, <2>2, <2>3, <2>4 DEF NewThread
  <2> QED
    BY <1>6, <2>5, <2>6 DEF NewThread
<1> QED
  BY <1>1, <1>2, <1>3, <1>4, <1>5, <1>6 DEF UserStep

(* ... and the managers thread *)
LEMMA MgrWork ==
  ASSUME WorkInv, MgrStep
  PROVE  WorkInv'
<1> USE ThreadsAssumption DEF WorkInv, object, history, Uses
<1>1. CASE ManagerFunc
  <2>1. mgr'.pc = "delete" /\ mgr'.list = {t \in m_threads : m_state[t] = "STOPPED"}
    BY <1>1 DEF ManagerFunc, IsStopped, PlacesOK, MgrType
  <2>2. PlacesOK'
    BY <1>1 DEF ManagerFunc, PlacesOK, MgrType, MgrPc, TypeOK
  <2>3. TypeOK' /\ StateTrue'
    BY <1>1, <2>1 DEF ManagerFunc, TypeOK, StateTrue
  <2>4. ListedUsed' /\ DeletedQuiet'
    BY <1>1, <2>1 DEF ManagerFunc, ListedUsed, DeletedQuiet, Used, StateTrue, TypeOK
  <2> QED
    BY <1>1, <2>2, <2>3, <2>4 DEF ManagerFunc
<1>2. CASE StopManagers \/ ManagerStop \/ Joined \/ ManagersEnd
  <2>1. mgr'.list = mgr.list
    BY <1>2 DEF StopManagers, ManagerStop, Joined, ManagersEnd, PlacesOK, MgrType
  <2>2. PlacesOK'
    <3>1. CASE StopManagers
      BY <3>1 DEF StopManagers, PlacesOK, MgrType, MgrPc
    <3>2. CASE ManagerStop
      BY <3>2 DEF ManagerStop, PlacesOK, MgrType, MgrPc
    <3>3. CASE Joined
      BY <3>3 DEF Joined, PlacesOK, MgrType, MgrPc
    <3>4. CASE ManagersEnd
      BY <3>4 DEF ManagersEnd, PlacesOK, MgrType, MgrPc, UserType, UserPc
    <3> QED
      BY <1>2, <3>1, <3>2, <3>3, <3>4
  <2>3. /\ manages' \subseteq manages
        /\ UNCHANGED <<object, proc, socket, freed, m_threads, m_serverThread, broken>>
    BY <1>2 DEF StopManagers, ManagerStop, Joined, ManagersEnd
  <2> QED
    BY <2>1, <2>2, <2>3 DEF TypeOK, StateTrue, ListedUsed, DeletedQuiet, Used
<1>3. CASE DeleteModule
  BY <1>3 DEF DeleteModule, StopThread, Close, AddThread, TypeOK, PlacesOK, StateTrue, ListedUsed,
              DeletedQuiet, Used, State
<1>4. CASE JoinStop
  <2>1. mgr.t \in Thread /\ mgr'.list = mgr.list
    BY <1>4 DEF JoinStop, PlacesOK, MgrType
  <2>2. PlacesOK'
    BY <1>4 DEF JoinStop, PlacesOK, MgrType, MgrPc
  <2> QED
    BY <1>4, <2>1, <2>2 DEF JoinStop, StopThread, Close, TypeOK, StateTrue, ListedUsed,
                            DeletedQuiet, Used, State
<1>5. CASE JoinReturns
  <2>1. mgr.t \in Thread /\ proc[mgr.t] = "ended" /\ mgr'.list = mgr.list \cup {mgr.t}
    BY <1>5 DEF JoinReturns, WaitStop, PlacesOK, MgrType
  <2>2. PlacesOK'
    BY <1>5, <2>1 DEF JoinReturns, PlacesOK, MgrType, MgrPc
  <2> QED
    BY <1>5, <2>1, <2>2 DEF JoinReturns, TypeOK, StateTrue, ListedUsed, DeletedQuiet, Used
<1>6. ASSUME NEW t \in Thread, Delete(t) PROVE WorkInv'
  <2>1. t \in mgr.list /\ mgr'.list = mgr.list \ {t}
    BY <1>6 DEF Delete, PlacesOK, MgrType
  <2>2. PlacesOK'
    BY <1>6 DEF Delete, PlacesOK, MgrType, MgrPc
  <2>3. TypeOK' /\ StateTrue'
    BY <1>6, <2>1 DEF Delete, TypeOK, StateTrue
  <2>4. ListedUsed' /\ DeletedQuiet'
    BY <1>6, <2>1 DEF Delete, ListedUsed, DeletedQuiet, Used
  <2> QED
    BY <1>6, <2>2, <2>3, <2>4 DEF Delete
<1>7. ASSUME NEW t \in Thread, Join(t) PROVE WorkInv'
  <2>1. CASE JoinsNothing(t)
    <3>1. mgr'.list = mgr.list \cup {t} /\ PlacesOK'
      BY <1>7, <2>1 DEF Join, PlacesOK, MgrType, MgrPc
    <3>2. proc[t] \in {"none", "stopped", "ended"} /\ t \in m_threads
      BY <1>7, <2>1 DEF Join, JoinsNothing, IsStopped, StateTrue
    <3> QED
      BY <1>7, <2>1, <3>1, <3>2 DEF Join, TypeOK, StateTrue, ListedUsed, DeletedQuiet, Used
  <2>2. CASE ~JoinsNothing(t)
    <3>1. mgr'.list = mgr.list /\ PlacesOK'
      BY <1>7, <2>2 DEF Join, PlacesOK, MgrType, MgrPc
    <3> QED
      BY <1>7, <2>2, <3>1 DEF Join, StopThread, TypeOK, StateTrue, ListedUsed, DeletedQuiet,
                              Used, State
  <2> QED
    BY <2>1, <2>2
<1> QED
  BY <1>1, <1>2, <1>3, <1>4, <1>5, <1>6, <1>7 DEF MgrStep

LEMMA WorkStep == WorkInv /\ [Next]_vars => WorkInv'
<1> SUFFICES ASSUME WorkInv, [Next]_vars PROVE WorkInv'
  OBVIOUS
<1>1. CASE UNCHANGED vars
  BY <1>1 DEF vars, object, history, WorkInv, TypeOK, PlacesOK, StateTrue, Used, ListedUsed,
              DeletedQuiet
<1> QED
  BY <1>1, ProcWork, UserWork, MgrWork DEF Next

LEMMA WorkInit == Init => WorkInv
  BY ThreadsAssumption
     DEF Init, WorkInv, TypeOK, PlacesOK, StateTrue, Used, ListedUsed, DeletedQuiet, State, Proc,
         UserType, UserPc, MgrType, MgrPc

LEMMA WorkAlways == Spec => []WorkInv
  BY WorkInit, WorkStep, PTL DEF Spec

(* However many servers are started, stopped and replaced, and whenever the library is closed:
   the managers thread deletes no thread that is before the end of its OnStop.  And the
   state stays well typed.                                                             *)
THEOREM OutlivesItsWork == Spec => []ThreadOutlivesItsWork
<1>1. WorkInv => ThreadOutlivesItsWork
  BY DEF WorkInv, ThreadOutlivesItsWork
<1> QED
  BY <1>1, WorkAlways, PTL

-----------------------------------------------------------------------------
(* Closing the library: the thread of an object takes a step *)
LEMMA ProcClose ==
  ASSUME WorkInv, CloseInv, NEW t \in Thread,
         ProcStep(t) \/ Accept(t) \/ ExchangeEnds(t) \/ AcceptFails(t)
  PROVE  CloseInv'
<1> USE DEF CloseInv, CreatedAwaited, ClosingOrder, WorkingListed, ManagerLocked, Working,
            history
<1>0. proc \in [Thread -> Proc] /\ m_threads \subseteq Thread
  BY DEF WorkInv, TypeOK
<1>1. CASE ThreadProcRun(t)
  BY <1>0, <1>1 DEF ThreadProcRun
<1>2. CASE OnStart(t)
  BY <1>0, <1>2 DEF OnStart
<1>3. CASE \/ CreateSocket(t) \/ Bind(t) \/ TestStop(t)
           \/ Accept(t) \/ ExchangeEnds(t) \/ AcceptFails(t)
  BY <1>0, <1>3 DEF CreateSocket, Bind, TestStop, Accept, ExchangeEnds, AcceptFails
<1>4. CASE OnErrorListener(t)
  <2>1. m_threads \subseteq m_threads'
    BY <1>4 DEF OnErrorListener, AddThread
  <2> QED
    BY <1>0, <1>4, <2>1 DEF OnErrorListener
<1>5. CASE OnStop(t) \/ ThreadProcStopped(t) \/ ThreadProcEnd(t)
  BY <1>0, <1>5 DEF OnStop, ThreadProcStopped, ThreadProcEnd
<1> QED
  BY <1>1, <1>2, <1>3, <1>4, <1>5 DEF ProcStep

LEMMA UserClosing ==
  ASSUME WorkInv, CloseInv, UserStep \/ StartServer \/ StopServer \/ CloseLibrary
  PROVE  CloseInv'
<1> USE DEF CloseInv, CreatedAwaited, ClosingOrder, WorkingListed, ManagerLocked, Working,
            history
<1>0. /\ proc \in [Thread -> Proc] /\ m_threads \subseteq Thread
      /\ user \in UserType
  BY DEF WorkInv, TypeOK, PlacesOK
<1> USE <1>0 DEF UserType
<1>1. CASE StartServer \/ StopServer \/ CloseLibrary \/ NoNewThread
  BY <1>1 DEF StartServer, StopServer, CloseLibrary, NoNewThread
<1>2. CASE UserStop \/ UserClose
  BY <1>2 DEF UserStop, UserClose
<1>3. CASE UserAdd
  <2>1. m_threads \subseteq m_threads'
    BY <1>3 DEF UserAdd, AddThread
  <2> QED
    BY <1>3, <2>1 DEF UserAdd
<1>4. CASE StartReturns
  <2>1. \A t \in Thread : proc[t] # "created"
    BY <1>4 DEF StartReturns, WaitRun, WorkInv, StateTrue
  <2> QED
    BY <1>4, <2>1 DEF StartReturns
<1>5. ASSUME NEW t \in Thread, NewThread(t) PROVE CloseInv'
  <2>1. /\ \/ proc' = [proc EXCEPT ![t] = "created"] /\ user'.pc = "starting"
           \/ proc' = proc /\ user'.pc = "idle"
        /\ user'.t = t /\ user.pc = "new"
    BY <1>5 DEF NewThread, Start
  <2> QED
    BY <1>5, <2>1 DEF NewThread
<1> QED
  BY <1>1, <1>2, <1>3, <1>4, <1>5 DEF UserStep

LEMMA MgrClosing ==
  ASSUME WorkInv, CloseInv, MgrStep
  PROVE  CloseInv'
<1> USE DEF CloseInv, CreatedAwaited, ClosingOrder, WorkingListed, ManagerLocked, Working,
            history
<1>0. /\ proc \in [Thread -> Proc] /\ m_threads \subseteq Thread
      /\ mgr \in MgrType /\ user \in UserType
  BY DEF WorkInv, TypeOK, PlacesOK
<1> USE <1>0 DEF MgrType
<1>1. CASE ManagerFunc
  BY <1>1 DEF ManagerFunc, IsStopped, WorkInv, StateTrue
<1>2. CASE StopManagers
  BY <1>2 DEF StopManagers
<1>3. CASE ManagerStop
  BY <1>3 DEF ManagerStop
<1>4. CASE Joined
  BY <1>4 DEF Joined
<1>5. CASE ManagersEnd
  BY <1>5 DEF ManagersEnd, UserType
<1>6. CASE DeleteModule
  <2>1. m_threads \subseteq m_threads'
    BY <1>6 DEF DeleteModule, AddThread
  <2> QED
    BY <1>6, <2>1 DEF DeleteModule
<1>7. CASE JoinStop
  BY <1>7 DEF JoinStop
<1>8. CASE JoinReturns
  BY <1>8 DEF JoinReturns, WaitStop
<1>9. ASSUME NEW t \in Thread, Delete(t) PROVE CloseInv'
  <2>1. mgr'.pc \in {"delete", mgr.then} /\ mgr'.then = mgr.then /\ mgr.pc = "delete"
    BY <1>9 DEF Delete
  <2> QED
    BY <1>9, <2>1 DEF Delete
<1>10. ASSUME NEW t \in Thread, Join(t) PROVE CloseInv'
  BY <1>10 DEF Join, JoinsNothing, IsStopped, WorkInv, StateTrue
<1> QED
  BY <1>1, <1>2, <1>3, <1>4, <1>5, <1>6, <1>7, <1>8, <1>9, <1>10 DEF MgrStep

LEMMA CloseStep == WorkInv /\ CloseInv /\ [Next]_vars => CloseInv'
<1> SUFFICES ASSUME WorkInv, CloseInv, [Next]_vars PROVE CloseInv'
  OBVIOUS
<1>1. CASE UNCHANGED vars
  BY <1>1 DEF vars, object, history, CloseInv, CreatedAwaited, ClosingOrder, WorkingListed,
              ManagerLocked
<1> QED
  BY <1>1, ProcClose, UserClosing, MgrClosing DEF Next

(* When CloseLibrary has returned, every thread has come to its end, or had not listed itself
   when ManagerStop took the list: ManagersContainer::Join leaves no other behind.       *)
THEOREM NothingRuns == Spec => []NothingRunsAfterClose
<1>1. Init => CloseInv
  BY DEF Init, CloseInv, CreatedAwaited, ClosingOrder, WorkingListed, ManagerLocked, Working
<1>2. WorkInv /\ CloseInv => NothingRunsAfterClose
  BY DEF WorkInv, TypeOK, Proc, CloseInv, CreatedAwaited, ClosingOrder, WorkingListed, Working,
         NothingRunsAfterClose
<1> QED
  BY <1>1, <1>2, CloseStep, WorkAlways, PTL DEF Spec
=============================================================================
