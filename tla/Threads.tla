-------------------------------- MODULE Threads --------------------------------
(***************************************************************************)
(* The life of the thread objects of the library (Thread, ThreadImpl,      *)
(* ThreadManager, ManagersContainer), followed on the threads whose life   *)
(* is the hardest: the listen threads that a module starts, keeps in       *)
(* m_serverThread, stops and hands to the ThreadManager, while each of     *)
(* them also lists itself there and is deleted by the managers thread when *)
(* it has stopped.                                                         *)
(*                                                                         *)
(* Three kinds of threads take steps: the user's, which starts and stops   *)
(* the server and at last closes the library, the threads of the objects,  *)
(* and the managers thread.  A use of an object that was deleted is        *)
(* undefined: the model stops there and keeps the place in broken.         *)
(***************************************************************************)
EXTENDS Integers, FiniteSets

CONSTANTS Thread,     \* the listen threads the user may create, each once
          NoThread    \* the null pointer

ASSUME ThreadsAssumption == NoThread \notin Thread

VARIABLES
  m_state,         \* Thread::m_state
  m_handle,        \* pthread_create has given the object a handle
  proc,            \* where the thread of an object is
  m_startSemaphore, m_stopSemaphore,
  socket,          \* the listening socket of a thread: none, open or closed
  freed,           \* objects that were deleted
  m_threads,       \* the ThreadManager's list
  m_serverThread,  \* the module's pointer
  user,            \* where the user's thread is, and the object it works on
  mgr,             \* where the managers thread is, and the objects it works on
  manages,         \* the managers that are not yet stopped
  stopped,         \* history: objects whose Stop was called by their owner
  missed,          \* history: threads that had not listed themselves when ManagerStop ran
  broken           \* the place where an object was used after its end, or "no"

object == <<m_state, m_handle, m_startSemaphore, m_stopSemaphore>>
history == <<stopped, missed>>
vars == <<object, proc, socket, freed, m_threads, m_serverThread, user, mgr, manages,
          history, broken>>

State == {"STOPPED", "START_PENDING", "RUNNING", "STOP_PENDING"}
Proc == {"none", "created", "onStart", "create", "bind", "loop", "accept", "exchange",
         "onStop", "stopping", "stopped", "ended"}

(* nothing undefined has happened *)
Live == broken = "no"

(* A place works on t: what it does is undefined when t is deleted *)
Uses(t, place) == broken' = IF t \in freed THEN place ELSE broken

(* the lock of m_threads, which ManagerStop keeps while it joins *)
ManagerLocked == mgr.pc \in {"join", "joining", "waiting"}

-----------------------------------------------------------------------------
(* Thread *)

(* StopThread, under m_cs, which the end of ThreadProc holds too *)
StopThread(t) ==
  /\ proc[t] # "stopped"
  /\ m_state' = [m_state EXCEPT ![t] = IF @ = "STOPPED" THEN @ ELSE "STOP_PENDING"]

(* ThreadManager::AddThread, by a thread that does not hold the lock *)
AddThread(t) ==
  /\ ~ManagerLocked
  /\ m_threads' = m_threads \cup {t}

(* Thread::Start, up to pthread_create, which may fail *)
Start(t) ==
  /\ m_state[t] = "STOPPED"
  /\ m_startSemaphore' = [m_startSemaphore EXCEPT ![t] = 0]
  /\ m_stopSemaphore' = [m_stopSemaphore EXCEPT ![t] = 0]
  /\ m_state' = [m_state EXCEPT ![t] = "START_PENDING"]
  /\ \/ proc' = [proc EXCEPT ![t] = "created"] /\ m_handle' = [m_handle EXCEPT ![t] = TRUE]
     \/ UNCHANGED <<proc, m_handle>>

(* WaitRun of Start: the caller polls until the thread is or was running *)
WaitRun(t) == m_state[t] = "RUNNING" \/ m_startSemaphore[t] > 0

(* ThreadProc: RUNNING, whatever the state was, and the semaphore *)
ThreadProcRun(t) ==
  /\ Live /\ proc[t] = "created"
  /\ m_state' = [m_state EXCEPT ![t] = "RUNNING"]
  /\ m_startSemaphore' = [m_startSemaphore EXCEPT ![t] = @ + 1]
  /\ proc' = [proc EXCEPT ![t] = "onStart"]
  /\ Uses(t, "ThreadProc")
  /\ UNCHANGED <<m_handle, m_stopSemaphore, socket, freed, m_threads, m_serverThread, user,
                 mgr, manages, history>>

(* ThreadImpl::OnStart *)
OnStart(t) ==
  /\ Live /\ proc[t] = "onStart"
  /\ ~ManagerLocked
  /\ m_threads' = m_threads \cup {t}
  /\ proc' = [proc EXCEPT ![t] = "create"]
  /\ Uses(t, "OnStart")
  /\ UNCHANGED <<object, socket, freed, m_serverThread, user, mgr, manages, history>>

(* ListenThread::ThreadFunc: the socket *)
CreateSocket(t) ==
  /\ Live /\ proc[t] = "create"
  /\ socket' = [socket EXCEPT ![t] = "open"]
  /\ proc' = [proc EXCEPT ![t] = "bind"]
  /\ Uses(t, "ThreadFunc")
  /\ UNCHANGED <<object, freed, m_threads, m_serverThread, user, mgr, manages, history>>

Bind(t) ==
  /\ Live /\ proc[t] = "bind" /\ socket[t] = "open"
  /\ proc' = [proc EXCEPT ![t] = "loop"]
  /\ Uses(t, "ThreadFunc")
  /\ UNCHANGED <<object, socket, freed, m_threads, m_serverThread, user, mgr, manages, history>>

(* Bind or Listen fails, always on a socket that Stop closed, and onErrorListener of the
   module hands over and forgets the thread the module has now, whichever it is        *)
OnErrorListener(t) ==
  /\ Live /\ proc[t] = "bind"
  /\ IF m_serverThread = NoThread
     THEN broken' = "onErrorListener" /\ UNCHANGED m_threads
     ELSE Uses(m_serverThread, "onErrorListener") /\ AddThread(m_serverThread)
  /\ m_serverThread' = NoThread
  /\ socket' = [socket EXCEPT ![t] = "none"]
  /\ proc' = [proc EXCEPT ![t] = "onStop"]
  /\ UNCHANGED <<object, freed, user, mgr, manages, history>>

(* the mutant of TestStop that looks at nothing: only the socket ends the loop *)
TestStopNever(t) ==
  /\ Live /\ proc[t] = "loop"
  /\ proc' = [proc EXCEPT ![t] = "accept"]
  /\ Uses(t, "ThreadFunc")
  /\ UNCHANGED <<object, socket, freed, m_threads, m_serverThread, user, mgr, manages, history>>

(* while(!IsStop()) *)
TestStop(t) ==
  /\ Live /\ proc[t] = "loop"
  /\ proc' = [proc EXCEPT ![t] = IF m_state[t] = "STOP_PENDING" THEN "onStop" ELSE "accept"]
  /\ Uses(t, "ThreadFunc")
  /\ UNCHANGED <<object, socket, freed, m_threads, m_serverThread, user, mgr, manages, history>>

(* a connection was accepted: the constructor of its SecureTCPSocket exchanges the keys
   here, on the listen thread, and waits for the peer without a time limit            *)
Accept(t) ==
  /\ Live /\ proc[t] = "accept" /\ socket[t] = "open"
  /\ proc' = [proc EXCEPT ![t] = "exchange"]
  /\ Uses(t, "ThreadFunc")
  /\ UNCHANGED <<object, socket, freed, m_threads, m_serverThread, user, mgr, manages, history>>

(* the peer has answered, or has gone: the connector is announced, whatever the exchange
   gave; nobody but the peer can bring this about                                       *)
ExchangeEnds(t) ==
  /\ Live /\ proc[t] = "exchange"
  /\ proc' = [proc EXCEPT ![t] = "loop"]
  /\ Uses(t, "ThreadFunc")
  /\ UNCHANGED <<object, socket, freed, m_threads, m_serverThread, user, mgr, manages, history>>

(* Accept of a closed socket, or one that fails: an ErrorMessage nobody subscribes to *)
AcceptFails(t) ==
  /\ Live /\ proc[t] = "accept"
  /\ socket' = [socket EXCEPT ![t] = "none"]
  /\ proc' = [proc EXCEPT ![t] = "onStop"]
  /\ Uses(t, "ThreadFunc")
  /\ UNCHANGED <<object, freed, m_threads, m_serverThread, user, mgr, manages, history>>

(* ThreadImpl::OnStop: RemoveThread, which is StopThread *)
OnStop(t) ==
  /\ Live /\ proc[t] = "onStop"
  /\ StopThread(t)
  /\ proc' = [proc EXCEPT ![t] = "stopping"]
  /\ Uses(t, "OnStop")
  /\ UNCHANGED <<m_handle, m_startSemaphore, m_stopSemaphore, socket, freed, m_threads,
                 m_serverThread, user, mgr, manages, history>>

(* the end of ThreadProc: the state, which IsStopped reads without the lock ... *)
ThreadProcStopped(t) ==
  /\ Live /\ proc[t] = "stopping"
  /\ m_state' = [m_state EXCEPT ![t] = "STOPPED"]
  /\ proc' = [proc EXCEPT ![t] = "stopped"]
  /\ Uses(t, "ThreadProc")
  /\ UNCHANGED <<m_handle, m_startSemaphore, m_stopSemaphore, socket, freed, m_threads,
                 m_serverThread, user, mgr, manages, history>>

(* ... and the semaphore and the unlocking *)
ThreadProcEnd(t) ==
  /\ Live /\ proc[t] = "stopped"
  /\ m_stopSemaphore' = [m_stopSemaphore EXCEPT ![t] = @ + 1]
  /\ proc' = [proc EXCEPT ![t] = "ended"]
  /\ Uses(t, "Set")
  /\ UNCHANGED <<m_state, m_handle, m_startSemaphore, socket, freed, m_threads,
                 m_serverThread, user, mgr, manages, history>>

-----------------------------------------------------------------------------
(* ListenThread::Stop, in two steps of its caller: StopThread, then Close if there is a
   socket                                                                             *)
Close(t) == socket' = [socket EXCEPT ![t] = IF @ = "open" THEN "closed" ELSE @]

(* StartServer or StopServer of the module, or its destructor on the managers thread *)
StartServer ==
  /\ Live /\ user.pc = "idle" /\ "module" \in manages
  /\ user' = IF m_serverThread = NoThread THEN [user EXCEPT !.pc = "new"]
             ELSE [pc |-> "stop", t |-> m_serverThread, then |-> "new"]
  /\ UNCHANGED <<object, proc, socket, freed, m_threads, m_serverThread, mgr, manages,
                 history, broken>>

StopServer ==
  /\ Live /\ user.pc = "idle" /\ "module" \in manages
  /\ m_serverThread # NoThread
  /\ user' = [pc |-> "stop", t |-> m_serverThread, then |-> "idle"]
  /\ UNCHANGED <<object, proc, socket, freed, m_threads, m_serverThread, mgr, manages,
                 history, broken>>

UserStop ==
  /\ Live /\ user.pc = "stop"
  /\ StopThread(user.t)
  /\ stopped' = stopped \cup {user.t}
  /\ user' = [user EXCEPT !.pc = "close"]
  /\ Uses(user.t, "Stop")
  /\ UNCHANGED <<m_handle, m_startSemaphore, m_stopSemaphore, proc, socket, freed, m_threads,
                 m_serverThread, mgr, manages, missed>>

UserClose ==
  /\ Live /\ user.pc = "close"
  /\ Close(user.t)
  /\ user' = [user EXCEPT !.pc = "add"]
  /\ Uses(user.t, "Stop")
  /\ UNCHANGED <<object, proc, freed, m_threads, m_serverThread, mgr, manages, history>>

(* the pointer is read again: onErrorListener may have forgotten it *)
UserAdd ==
  /\ Live /\ user.pc = "add"
  /\ IF m_serverThread = NoThread
     THEN broken' = "AddThread" /\ UNCHANGED m_threads
     ELSE AddThread(m_serverThread) /\ Uses(m_serverThread, "AddThread")
  /\ m_serverThread' = NoThread
  /\ user' = [user EXCEPT !.pc = user.then, !.t = NoThread, !.then = "idle"]
  /\ UNCHANGED <<object, proc, socket, freed, mgr, manages, history>>

(* a new listen thread, and its Start *)
NewThread(t) ==
  /\ Live /\ user.pc = "new"
  /\ t \notin freed /\ proc[t] = "none" /\ m_state[t] = "STOPPED"
  /\ m_serverThread' = t
  /\ Start(t)
  /\ user' = [user EXCEPT !.pc = IF proc'[t] = "created" THEN "starting" ELSE "idle", !.t = t]
  /\ UNCHANGED <<socket, freed, m_threads, mgr, manages, history, broken>>

(* no thread is left: the user is done *)
NoNewThread ==
  /\ Live /\ user.pc = "new"
  /\ \A t \in Thread : m_state[t] # "STOPPED" \/ proc[t] # "none" \/ t \in freed
  /\ user' = [user EXCEPT !.pc = "idle"]
  /\ UNCHANGED <<object, proc, socket, freed, m_threads, m_serverThread, mgr, manages,
                 history, broken>>

StartReturns ==
  /\ Live /\ user.pc = "starting" /\ WaitRun(user.t)
  /\ user' = [user EXCEPT !.pc = "idle", !.t = NoThread]
  /\ Uses(user.t, "WaitRun")
  /\ UNCHANGED <<object, proc, socket, freed, m_threads, m_serverThread, mgr, manages, history>>

(* CloseLibrary: ManagersContainer::Join sets m_isExit and waits for the managers thread *)
CloseLibrary ==
  /\ Live /\ user.pc = "idle" /\ mgr.pc = "round"
  /\ user' = [user EXCEPT !.pc = "closing"]
  /\ UNCHANGED <<object, proc, socket, freed, m_threads, m_serverThread, mgr, manages,
                 history, broken>>

-----------------------------------------------------------------------------
(* The managers thread *)

(* the mutant of IsStopped that takes a thread asked to stop for one that has *)
IsStoppedPending(t) == m_state[t] \in {"STOPPED", "STOP_PENDING"}

IsStopped(t) == m_state[t] = "STOPPED"

(* ThreadManager::ManagerFunc: the stopped threads leave the list and are deleted *)
ManagerFunc ==
  /\ Live /\ mgr.pc = "round" /\ user.pc # "closing"
  /\ \E t \in m_threads : IsStopped(t)
  /\ mgr' = [mgr EXCEPT !.pc = "delete", !.list = {t \in m_threads : IsStopped(t)}]
  /\ m_threads' = {t \in m_threads : ~IsStopped(t)}
  /\ broken' = IF m_threads \cap freed # {} THEN "CheckThread" ELSE broken
  /\ UNCHANGED <<object, proc, socket, freed, m_serverThread, user, manages, history>>

Delete(t) ==
  /\ Live /\ mgr.pc = "delete" /\ t \in mgr.list
  /\ freed' = freed \cup {t}
  /\ mgr' = [mgr EXCEPT !.list = @ \ {t}, !.pc = IF mgr.list = {t} THEN mgr.then ELSE @]
  /\ Uses(t, "Delete")
  /\ UNCHANGED <<object, proc, socket, m_threads, m_serverThread, user, manages, history>>

(* ManagersContainer::ThreadFunc, after its loop: the managers are stopped and deleted in
   the order of their addresses, here any                                              *)
StopManagers ==
  /\ Live /\ mgr.pc = "round" /\ user.pc = "closing"
  /\ mgr' = [mgr EXCEPT !.pc = "managers", !.then = "managers"]
  /\ UNCHANGED <<object, proc, socket, freed, m_threads, m_serverThread, user, manages,
                 history, broken>>

(* the destructor of the module; an AddThread after the ThreadManager's end goes to a
   second one, which no managers thread runs                                        *)
DeleteModule ==
  /\ Live /\ mgr.pc = "managers" /\ "module" \in manages
  /\ manages' = manages \ {"module"}
  /\ IF m_serverThread = NoThread
     THEN UNCHANGED <<m_state, socket, m_threads, stopped, broken>>
     ELSE /\ StopThread(m_serverThread) /\ Close(m_serverThread)
          /\ stopped' = stopped \cup {m_serverThread}
          /\ Uses(m_serverThread, "~ClientServerModule")
          /\ IF "threads" \in manages THEN AddThread(m_serverThread)
             ELSE UNCHANGED m_threads
  /\ m_serverThread' = NoThread
  /\ UNCHANGED <<m_handle, m_startSemaphore, m_stopSemaphore, proc, freed, user, mgr, missed>>

(* ThreadManager::ManagerStop: m_threads is locked from here on *)
ManagerStop ==
  /\ Live /\ mgr.pc = "managers" /\ "threads" \in manages
  /\ mgr' = [mgr EXCEPT !.pc = "join"]
  /\ missed' = {t \in Thread : proc[t] = "onStart" /\ t \notin m_threads}
  /\ UNCHANGED <<object, proc, socket, freed, m_threads, m_serverThread, user, manages,
                 stopped, broken>>

(* the mutant of JoinsNothing that forgets a thread that could not be created *)
JoinsNothingStopped(t) == IsStopped(t)

JoinsNothing(t) == ~m_handle[t] \/ IsStopped(t)

(* Join of the next thread: nothing for one without a handle or that is STOPPED, else its
   Stop                                                                                 *)
Join(t) ==
  /\ Live /\ mgr.pc = "join" /\ t \in m_threads
  /\ Uses(t, "Join")
  /\ IF JoinsNothing(t)
     THEN /\ mgr' = [mgr EXCEPT !.list = @ \cup {t}]
          /\ m_threads' = m_threads \ {t}
          /\ UNCHANGED m_state
     ELSE /\ m_state[t] = "START_PENDING" => WaitRun(t)
          /\ StopThread(t)
          /\ mgr' = [mgr EXCEPT !.pc = "joining", !.t = t]
          /\ UNCHANGED m_threads
  /\ UNCHANGED <<m_handle, m_startSemaphore, m_stopSemaphore, proc, socket, freed,
                 m_serverThread, user, manages, history>>

JoinStop ==
  /\ Live /\ mgr.pc = "joining"
  /\ StopThread(mgr.t) /\ Close(mgr.t)
  /\ mgr' = [mgr EXCEPT !.pc = "waiting"]
  /\ UNCHANGED <<m_handle, m_startSemaphore, m_stopSemaphore, proc, freed, m_threads,
                 m_serverThread, user, manages, history, broken>>

(* the mutant of WaitStop that gives up after the first timeout *)
WaitStopOnce(t) == TRUE

(* WaitStop, polled, and pthread_join *)
WaitStop(t) == (m_state[t] = "STOPPED" \/ m_stopSemaphore[t] > 0) /\ proc[t] = "ended"

JoinReturns ==
  /\ Live /\ mgr.pc = "waiting" /\ WaitStop(mgr.t)
  /\ m_handle' = [m_handle EXCEPT ![mgr.t] = FALSE]
  /\ m_threads' = m_threads \ {mgr.t}
  /\ mgr' = [mgr EXCEPT !.pc = "join", !.t = NoThread, !.list = @ \cup {mgr.t}]
  /\ UNCHANGED <<m_state, m_startSemaphore, m_stopSemaphore, proc, socket, freed,
                 m_serverThread, user, manages, history, broken>>

(* all are joined: they are deleted, and the ThreadManager after them *)
Joined ==
  /\ Live /\ mgr.pc = "join" /\ m_threads = {}
  /\ manages' = manages \ {"threads"}
  /\ mgr' = [mgr EXCEPT !.pc = IF mgr.list = {} THEN "managers" ELSE "delete"]
  /\ UNCHANGED <<object, proc, socket, freed, m_threads, m_serverThread, user, history, broken>>

(* the managers thread ends, and CloseLibrary returns *)
ManagersEnd ==
  /\ Live /\ mgr.pc = "managers" /\ manages = {}
  /\ mgr' = [mgr EXCEPT !.pc = "ended"]
  /\ user' = [user EXCEPT !.pc = "closed"]
  /\ UNCHANGED <<object, proc, socket, freed, m_threads, m_serverThread, manages, history, broken>>

-----------------------------------------------------------------------------
Init ==
  /\ m_state = [t \in Thread |-> "STOPPED"]
  /\ m_handle = [t \in Thread |-> FALSE]
  /\ proc = [t \in Thread |-> "none"]
  /\ m_startSemaphore = [t \in Thread |-> 0] /\ m_stopSemaphore = [t \in Thread |-> 0]
  /\ socket = [t \in Thread |-> "none"]
  /\ freed = {} /\ m_threads = {} /\ m_serverThread = NoThread
  /\ user = [pc |-> "idle", t |-> NoThread, then |-> "idle"]
  /\ mgr = [pc |-> "round", t |-> NoThread, list |-> {}, then |-> "round"]
  /\ manages = {"module", "threads"}
  /\ stopped = {} /\ missed = {} /\ broken = "no"

(* what the thread of an object does by itself; a connection may or may not come, and who
   makes one may or may not take its part in the exchange                                *)
ProcStep(t) ==
  \/ ThreadProcRun(t) \/ OnStart(t) \/ CreateSocket(t) \/ Bind(t) \/ OnErrorListener(t)
  \/ TestStop(t) \/ OnStop(t) \/ ThreadProcStopped(t) \/ ThreadProcEnd(t)
  \/ socket[t] = "closed" /\ AcceptFails(t)

UserStep ==
  \/ UserStop \/ UserClose \/ UserAdd \/ NoNewThread \/ StartReturns
  \/ \E t \in Thread : NewThread(t)

MgrStep ==
  \/ ManagerFunc \/ StopManagers \/ DeleteModule \/ ManagerStop \/ JoinStop \/ JoinReturns
  \/ Joined \/ ManagersEnd \/ \E t \in Thread : Delete(t) \/ Join(t)

Next ==
  \/ UserStep \/ MgrStep \/ StartServer \/ StopServer \/ CloseLibrary
  \/ \E t \in Thread : ProcStep(t) \/ Accept(t) \/ ExchangeEnds(t) \/ AcceptFails(t)

Spec == Init /\ [][Next]_vars

(* every thread of the process is scheduled *)
FairSpec ==
  /\ Spec
  /\ WF_vars(UserStep) /\ WF_vars(MgrStep)
  /\ \A t \in Thread : WF_vars(ProcStep(t))

-----------------------------------------------------------------------------
(* Every variable holds a value of its type; a semaphore that Start emptied and the thread
   sets once never counts further than one.                                             *)
TypeOK ==
  /\ m_state \in [Thread -> State] /\ m_handle \in [Thread -> BOOLEAN]
  /\ proc \in [Thread -> Proc] /\ socket \in [Thread -> {"none", "open", "closed"}]
  /\ m_startSemaphore \in [Thread -> 0..1] /\ m_stopSemaphore \in [Thread -> 0..1]
  /\ freed \subseteq Thread /\ m_threads \subseteq Thread /\ mgr.list \subseteq Thread
  /\ m_serverThread \in Thread \cup {NoThread}
  /\ manages \subseteq {"module", "threads"}

(* The managers thread may delete a thread as soon as it reads STOPPED: the last lines of
   ThreadProc, the caller of Start and the module that still has the pointer may all come too
   late, and the module may even list the object again.  But the work of the thread itself,
   from its first line to the end of OnStop, never meets an object that is gone.  And the
   state is well typed.                                                                     *)
ThreadOutlivesItsWork ==
  TypeOK /\ broken \notin {"ThreadProc", "OnStart", "ThreadFunc", "OnStop"}

(* When CloseLibrary has returned, no thread is left at work but those that had not yet
   listed themselves when the ThreadManager was stopped: OnStart comes after Start returns. *)
NothingRunsAfterClose ==
  user.pc = "closed" /\ Live =>
    \A t \in Thread : proc[t] \in {"none", "stopped", "ended"} \/ t \in missed

(* ManagerStop joins, with the lock of m_threads, a thread that waits for that lock: one
   that was handed over before its OnStart, or one whose Bind fails because Join closed its
   socket, so that onErrorListener has a thread to hand over.                             *)
JoinDeadlock ==
  /\ mgr.pc = "waiting"
  /\ \/ proc[mgr.t] = "onStart"
     \/ proc[mgr.t] = "bind" /\ socket[mgr.t] = "closed" /\ m_serverThread # NoThread

(* The peer of a connection that t accepted keeps it in the exchange for ever *)
HeldByPeer(t) == <>[](proc[t] = "exchange")

(* ... and the managers thread, which joins t with the lock of m_threads, with it *)
JoinHeldByPeer ==
  \E t \in Thread : HeldByPeer(t) /\ <>[](mgr.pc = "waiting" /\ mgr.t = t)

(* A server that was stopped ends: Stop sets the state before it closes the socket, and the
   thread looks at the state after it has made the socket and after every exchange, so one
   of the two is seen.  Only a silent peer prevents it, and holds that one server, or, when
   the library closes, also one that waits for the lock of m_threads.                       *)
StoppedEnds ==
  \A t \in Thread :
    \/ (t \in stopped) ~> (proc[t] \in {"none", "ended"} \/ broken # "no" \/ JoinDeadlock)
    \/ HeldByPeer(t) \/ JoinHeldByPeer

(* CloseLibrary returns, unless it meets a server before its OnStart or before its Bind, or
   joins one that a silent peer holds, which closing the listening socket does not wake.    *)
CloseReturns ==
  \/ (user.pc = "closing") ~> (user.pc = "closed" \/ broken # "no" \/ JoinDeadlock)
  \/ JoinHeldByPeer
=============================================================================
