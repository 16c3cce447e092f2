------------------------------ MODULE IPCModule ------------------------------
(***************************************************************************)
(* The registry of one IPC module that is not the coordinator: the class   *)
(* IPCModule with its IPCSignalHandler, at the granularity of its locks.   *)
(*                                                                         *)
(* Threads that touch the registry:                                        *)
(*   - one thread per connection (Conn), which runs IPCHandler::onMessage; *)
(*   - ConnectThreads (Thread), which end in a connector or in             *)
(*     onErrorConnect;                                                     *)
(*   - user threads (Caller), which call ConnectTo;                        *)
(*   - the single managers thread, which collects finished connectors,     *)
(*     runs onDisconnected for each, and serves the request to connect to  *)
(*     the coordinator again.                                              *)
(* Every step below is one lock region (ObjectManager::m_cs,               *)
(* m_csConnectors, m_csRequest) together with the unlocked code next to it *)
(* that touches no other shared variable.                                  *)
(*                                                                         *)
(* The peers are the environment: they connect, send their name and their  *)
(* module state, and drop the connection whenever they like.  The          *)
(* coordinator sends additions to and removals from the module list.       *)
(***************************************************************************)
EXTENDS Naturals, FiniteSets

CONSTANTS Conn,         \* connectors; each has its own GUID, m_connectorId
          Thread,       \* ConnectThreads that may run at once
          Caller,       \* user threads calling ConnectTo
          Peer,         \* names of ordinary modules
          Coordinator,  \* the name the coordinator gives itself
          CoordinatorIPC, \* the id "IPCCoordinator" a connection to it has first
          Self,         \* this module's own name
          NoName,       \* the empty m_coordinatorName
          NoCounter,    \* no TryConnectCounter for a name
          MaxTry,       \* m_maxTryConnectCount
          Removable     \* names the coordinator may take off the list; with Self,
                        \* other processes use this module's name too

Name == Peer \cup {Coordinator}

Id == Name \cup {CoordinatorIPC, Self}

ASSUME NamesDiffer ==
  /\ Coordinator \notin Peer
  /\ CoordinatorIPC \notin Name
  /\ Self \notin Name
  /\ CoordinatorIPC # Self
  /\ NoName \notin Id

ASSUME CounterAssumption == MaxTry \in Nat /\ NoCounter \notin Nat

ASSUME RemovableAssumption == Removable \subseteq Name \cup {Self}

VARIABLES
  listener,             \* the listening thread: "starting", "listening", "failed"
  m_isExit,
  m_modules,            \* names of the connected modules
  m_connectors,         \* name |-> ids of the connectors registered under it
  m_ipcObject,          \* name |-> what the list of available modules holds
  m_tryConnectCounters, \* name |-> m_count, or NoCounter
  m_coordinatorName,
  m_bConnectToCoordinatorRequest,
  pc,                   \* where each connector's thread is
  m_id,                 \* the name each connector goes by
  m_open,               \* the connector's socket is open
  m_isExist,            \* the peer's name was already registered
  m_bConnected,
  port,                 \* the listening port the connector announced
  tpc, target, m_count, \* each ConnectThread: place, m_moduleName, counter copy
  calling,              \* the name a user thread has checked and will connect to
  mpc, todo, cur        \* managers thread: place, disconnected list, current id

registry == <<m_modules, m_connectors, m_ipcObject, m_tryConnectCounters,
              m_coordinatorName, m_bConnectToCoordinatorRequest>>
connectors == <<pc, m_id, m_open, m_isExist, m_bConnected, port>>
threads == <<tpc, target, m_count>>
manager == <<mpc, todo, cur>>
vars == <<listener, m_isExit, registry, connectors, threads, calling, manager>>

(* An IPCObject of m_ipcObject, compared by its name only: none, one with a listening
   port, one with port 0                                                          *)
Entry == {"absent", "listening", "noport"}

(* The m_count of a name's TryConnectCounter, which is compared by the name only *)
TryConnectCounter == 0..MaxTry \cup {NoCounter}

Running == {"starting", "loop", "module", "push", "counter", "named", "settled"}
Place == Running \cup {"free", "stopped", "reaped"}

-----------------------------------------------------------------------------
(* IPCModule::ConnectTo, ConnectToCoordinator and the ConnectThread          *)

StartConnectThread(name) ==
  \E t \in Thread :
    /\ tpc[t] = "free"
    /\ tpc' = [tpc EXCEPT ![t] = "connect"]
    /\ target' = [target EXCEPT ![t] = name]
    /\ UNCHANGED m_count

(* The ConnectThread ends; its slot is as new *)
EndConnectThread(t) ==
  /\ tpc' = [tpc EXCEPT ![t] = "free"]
  /\ target' = [target EXCEPT ![t] = CoordinatorIPC]
  /\ m_count' = [m_count EXCEPT ![t] = 0]

(* Mutant: the test of m_isExit is inverted *)
ConnectToCoordinatorAfterExit ==
  IF ~m_isExit THEN UNCHANGED threads ELSE StartConnectThread(CoordinatorIPC)

ConnectToCoordinator ==
  IF m_isExit THEN UNCHANGED threads ELSE StartConnectThread(CoordinatorIPC)

(* The conditions under which ConnectTo does not end in OnConnectFailed *)
MayConnectTo(name) ==
  /\ ~m_isExit
  /\ m_tryConnectCounters[name] = NoCounter
  /\ m_ipcObject[name] # "absent"
  /\ name \notin m_modules

(* ObjectManager::AddObject keeps an entry that is already there *)
AddCounter(name) ==
  m_tryConnectCounters' =
    [m_tryConnectCounters EXCEPT ![name] = IF @ = NoCounter THEN 0 ELSE @]

ConnectTo(u, name) ==
  /\ calling[u] = NoName
  /\ MayConnectTo(name)
  /\ calling' = [calling EXCEPT ![u] = name]
  /\ UNCHANGED <<listener, m_isExit, registry, connectors, threads, manager>>

ConnectToStart(u) ==
  /\ calling[u] # NoName
  /\ AddCounter(calling[u])
  /\ StartConnectThread(calling[u])
  /\ calling' = [calling EXCEPT ![u] = NoName]
  /\ UNCHANGED <<listener, m_isExit, m_modules, m_connectors, m_ipcObject,
                 m_coordinatorName, m_bConnectToCoordinatorRequest,
                 connectors, manager>>

(* AddConnector up to Thread::Start; the connector's own thread runs OnStart *)
AddConnector(c, id) ==
  /\ pc[c] = "free"
  /\ pc' = [pc EXCEPT ![c] = "starting"]
  /\ m_id' = [m_id EXCEPT ![c] = id]
  /\ m_open' = [m_open EXCEPT ![c] = TRUE]
  /\ UNCHANGED <<m_isExist, m_bConnected, port>>

Connected(t) ==
  /\ tpc[t] = "connect"
  /\ EndConnectThread(t)
  /\ IF m_isExit THEN UNCHANGED connectors
                 ELSE \E c \in Conn : AddConnector(c, target[t])
  /\ UNCHANGED <<listener, m_isExit, registry, calling, manager>>

(* IPCSignalHandler::onErrorConnect: the coordinator's case sets the request;
   the other one reads the counter, calls ConnectTo and updates the counter  *)
OnErrorConnect(t) ==
  /\ tpc[t] = "connect"
  /\ \/ /\ target[t] = CoordinatorIPC
        /\ m_bConnectToCoordinatorRequest' =
             (m_bConnectToCoordinatorRequest \/ ~m_isExit)
        /\ EndConnectThread(t)
     \/ /\ target[t] # CoordinatorIPC
        /\ m_count' = [m_count EXCEPT ![t] =
             IF m_tryConnectCounters[target[t]] = NoCounter
             THEN 0 ELSE m_tryConnectCounters[target[t]]]
        /\ tpc' = [tpc EXCEPT ![t] = "retry"]
        /\ UNCHANGED <<m_bConnectToCoordinatorRequest, target>>
  /\ UNCHANGED <<listener, m_isExit, m_modules, m_connectors, m_ipcObject,
                 m_tryConnectCounters, m_coordinatorName, connectors, calling,
                 manager>>

(* Mutant: one try too many *)
MayRetryOnceMore(t) == m_count[t] <= MaxTry /\ ~m_isExit

MayRetry(t) == m_count[t] < MaxTry /\ ~m_isExit

OnErrorConnectRetry(t) ==
  /\ tpc[t] = "retry"
  /\ IF MayRetry(t)
     THEN /\ tpc' = [tpc EXCEPT ![t] = IF MayConnectTo(target[t])
                                       THEN "start" ELSE "update"]
          /\ UNCHANGED <<m_tryConnectCounters, target, m_count>>
     ELSE /\ EndConnectThread(t)
          /\ m_tryConnectCounters' =
               [m_tryConnectCounters EXCEPT ![target[t]] = NoCounter]
  /\ UNCHANGED <<listener, m_isExit, m_modules, m_connectors, m_ipcObject,
                 m_coordinatorName, m_bConnectToCoordinatorRequest, connectors,
                 calling, manager>>

OnErrorConnectStart(t) ==
  /\ tpc[t] = "start"
  /\ AddCounter(target[t])
  /\ \E s \in Thread :
       /\ tpc[s] = "free"
       /\ tpc' = [tpc EXCEPT ![s] = "connect", ![t] = "update"]
       /\ target' = [target EXCEPT ![s] = target[t]]
  /\ UNCHANGED <<listener, m_isExit, m_modules, m_connectors, m_ipcObject,
                 m_coordinatorName, m_bConnectToCoordinatorRequest, m_count,
                 connectors, calling, manager>>

(* UpdateObject changes an entry only if it is there *)
OnErrorConnectUpdate(t) ==
  /\ tpc[t] = "update"
  /\ EndConnectThread(t)
  /\ m_tryConnectCounters' = [m_tryConnectCounters EXCEPT ![target[t]] =
                                IF @ = NoCounter THEN @ ELSE m_count[t] + 1]
  /\ UNCHANGED <<listener, m_isExit, m_modules, m_connectors, m_ipcObject,
                 m_coordinatorName, m_bConnectToCoordinatorRequest, connectors,
                 calling, manager>>

-----------------------------------------------------------------------------
(* The listening thread                                                      *)

OnCreatedListener ==
  /\ listener = "starting"
  /\ listener' = "listening"
  /\ m_ipcObject' = [m_ipcObject EXCEPT ![Self] = "listening"]
  /\ ConnectToCoordinator
  /\ UNCHANGED <<m_isExit, m_modules, m_connectors, m_tryConnectCounters,
                 m_coordinatorName, m_bConnectToCoordinatorRequest, connectors,
                 calling, manager>>

OnErrorListener ==
  /\ listener = "starting"
  /\ listener' = "failed"
  /\ m_isExit' = TRUE
  /\ UNCHANGED <<registry, connectors, threads, calling, manager>>

(* An accepted connector first goes by this module's own name *)
Accept(c) ==
  /\ listener = "listening"
  /\ ~m_isExit
  /\ AddConnector(c, Self)
  /\ UNCHANGED <<listener, m_isExit, registry, threads, calling, manager>>

-----------------------------------------------------------------------------
(* A connector's thread: OnStart, the handlers of its messages, OnStop       *)

(* OnStart sends ModuleName with the port getListenPort finds: that of this
   module's own entry in m_ipcObject, or 0 if it has none                    *)
OnStart(c) ==
  /\ pc[c] = "starting"
  /\ pc' = [pc EXCEPT ![c] = "loop"]
  /\ port' = [port EXCEPT ![c] =
       IF m_ipcObject[Self] = "listening" THEN "listening" ELSE "noport"]
  /\ UNCHANGED <<listener, m_isExit, registry, m_id, m_open, m_isExist,
                 m_bConnected, threads, calling, manager>>

(* The names a peer may send on a connection, from how it was opened *)
NameOf(id) ==
  CASE id = CoordinatorIPC -> {Coordinator}
    [] id = Self -> Peer
    [] OTHER -> {id}

(* IPCHandler::onMessage(ModuleName), up to its AddIPCObject signal.  A
   refused access id closes the socket and the handler goes on.              *)
OnModuleName(c, name, granted) ==
  /\ pc[c] = "loop"
  /\ m_open[c]
  /\ name \in NameOf(m_id[c])
  /\ m_id[c] = CoordinatorIPC => granted
  /\ pc' = [pc EXCEPT ![c] = "module"]
  /\ m_id' = [m_id EXCEPT ![c] = name]
  /\ m_open' = [m_open EXCEPT ![c] = granted]
  /\ m_ipcObject' = [m_ipcObject EXCEPT ![name] =
                       IF @ = "absent" THEN "listening" ELSE @]
  /\ UNCHANGED <<listener, m_isExit, m_modules, m_connectors,
                 m_tryConnectCounters, m_coordinatorName,
                 m_bConnectToCoordinatorRequest, m_isExist, m_bConnected, port,
                 threads, calling, manager>>

(* IPCSignalHandler::onModuleName, its first lock region *)
AddModule(c) ==
  /\ pc[c] = "module"
  /\ pc' = [pc EXCEPT ![c] = "push"]
  /\ m_isExist' = [m_isExist EXCEPT ![c] = m_id[c] \in m_modules]
  /\ m_modules' = m_modules \cup {m_id[c]}
  /\ UNCHANGED <<listener, m_isExit, m_connectors, m_ipcObject,
                 m_tryConnectCounters, m_coordinatorName,
                 m_bConnectToCoordinatorRequest, m_id, m_open, m_bConnected,
                 port, threads, calling, manager>>

(* its second lock region, under m_csConnectors *)
PushConnector(c) ==
  /\ pc[c] = "push"
  /\ pc' = [pc EXCEPT ![c] = "counter"]
  /\ m_connectors' = [m_connectors EXCEPT ![m_id[c]] = @ \cup {c}]
  /\ UNCHANGED <<listener, m_isExit, m_modules, m_ipcObject,
                 m_tryConnectCounters, m_coordinatorName,
                 m_bConnectToCoordinatorRequest, m_id, m_open, m_isExist,
                 m_bConnected, port, threads, calling, manager>>

(* IPCConnector::OnConnected, if it runs, and IPCSignalHandler::onConnected, which
   stores the peer's name in m_coordinatorName because m_bWithCoordinator is
   !m_isCoordinator                                                          *)
SetConnected(c, runs) == m_bConnected' = [m_bConnected EXCEPT ![c] = @ \/ runs]
OnConnected(c, runs) ==
  /\ SetConnected(c, runs)
  /\ m_coordinatorName' = IF runs THEN m_id[c] ELSE m_coordinatorName

(* its third one, and the rest of onMessage(ModuleName): ModuleState is sent
   and, for a new name, OnConnected runs                                     *)
FinishModuleName(c) ==
  /\ pc[c] = "counter"
  /\ pc' = [pc EXCEPT ![c] = "named"]
  /\ m_tryConnectCounters' =
       [m_tryConnectCounters EXCEPT ![m_id[c]] = NoCounter]
  /\ OnConnected(c, ~m_isExist[c])
  /\ UNCHANGED <<listener, m_isExit, m_modules, m_connectors, m_ipcObject,
                 m_bConnectToCoordinatorRequest, m_id, m_open, m_isExist, port,
                 threads, calling, manager>>

(* IPCHandler::onMessage(ModuleState).  exist is the peer's flag; which
   siblings answer the query and how the random values compare is open here. *)
OnModuleState(c, exist, verdict) ==
  /\ pc[c] = "named"
  /\ m_open[c]
  /\ LET sibling == \E d \in Conn \ {c} : pc[d] # "free" /\ m_id[d] = m_id[c]
         stop == exist /\ (m_isExist[c] \/ ~sibling \/ verdict = "larger")
         connected == exist /\ ~stop /\ verdict = "smaller"
     IN  /\ m_open' = [m_open EXCEPT ![c] = ~stop]
         /\ OnConnected(c, connected)
  /\ pc' = [pc EXCEPT ![c] = "settled"]
  /\ UNCHANGED <<listener, m_isExit, m_modules, m_connectors, m_ipcObject,
                 m_tryConnectCounters, m_bConnectToCoordinatorRequest, m_id,
                 m_isExist, port, threads, calling, manager>>

(* Messages of the coordinator about the list of available modules.  Its
   entry for this module has a port this module announced on some connection. *)
Announced == {port[d] : d \in {e \in Conn : pc[e] \notin {"free", "starting"}}}

OnAddIPCObject(c, name, entry) ==
  /\ pc[c] \in {"named", "settled"}
  /\ m_open[c]
  /\ m_id[c] = Coordinator
  /\ IF name = Self THEN entry \in Announced ELSE entry = "listening"
  /\ m_ipcObject[name] = "absent"
  /\ m_ipcObject' = [m_ipcObject EXCEPT ![name] = entry]
  /\ UNCHANGED <<listener, m_isExit, m_modules, m_connectors,
                 m_tryConnectCounters, m_coordinatorName,
                 m_bConnectToCoordinatorRequest, connectors, threads, calling,
                 manager>>

OnRemoveIPCObject(c, name) ==
  /\ pc[c] \in {"named", "settled"}
  /\ m_open[c]
  /\ m_id[c] = Coordinator
  /\ m_ipcObject' = [m_ipcObject EXCEPT ![name] = "absent"]
  /\ UNCHANGED <<listener, m_isExit, m_modules, m_connectors,
                 m_tryConnectCounters, m_coordinatorName,
                 m_bConnectToCoordinatorRequest, connectors, threads, calling,
                 manager>>

(* The connection is lost, or IPCCheckerThread closes one that sent no name *)
Drop(c) ==
  /\ pc[c] \in Running
  /\ m_open[c]
  /\ m_open' = [m_open EXCEPT ![c] = FALSE]
  /\ UNCHANGED <<listener, m_isExit, registry, pc, m_id, m_isExist,
                 m_bConnected, port, threads, calling, manager>>

(* Recv fails between two messages: the loop ends, OnStop runs, STOPPED *)
OnStop(c) ==
  /\ pc[c] \in {"loop", "named", "settled"}
  /\ ~m_open[c]
  /\ pc' = [pc EXCEPT ![c] = "stopped"]
  /\ m_bConnected' = [m_bConnected EXCEPT ![c] = FALSE]
  /\ UNCHANGED <<listener, m_isExit, registry, m_id, m_open, m_isExist, port,
                 threads, calling, manager>>

StopConnection(name) == m_open' = [c \in Conn |-> m_open[c] /\ m_id[c] # name]

DisconnectModule(name) ==
  /\ \E c \in Conn : pc[c] \in Running /\ m_open[c] /\ m_id[c] = name
  /\ StopConnection(name)
  /\ UNCHANGED <<listener, m_isExit, registry, pc, m_id, m_isExist,
                 m_bConnected, port, threads, calling, manager>>

Exit == m_isExit' = TRUE

(* The user deletes the module; ManagerStop of its managers is not modelled here *)
DeleteModule ==
  /\ ~m_isExit
  /\ Exit
  /\ UNCHANGED <<listener, registry, connectors, threads, calling, manager>>

-----------------------------------------------------------------------------
(* The managers thread                                                       *)

IsStopped(c) == pc[c] = "stopped"

(* ConnectorManager::ManagerFunc collects the stopped connectors; what is left of
   one is its id                                                             *)
CheckConnections ==
  /\ mpc = "idle"
  /\ todo = {}
  /\ \E c \in Conn : IsStopped(c)
  /\ todo' = {c \in Conn : IsStopped(c)}
  /\ pc' = [c \in Conn |-> IF IsStopped(c) THEN "reaped" ELSE pc[c]]
  /\ m_isExist' = [c \in Conn |-> m_isExist[c] /\ ~IsStopped(c)]
  /\ UNCHANGED <<listener, m_isExit, registry, m_id, m_open, m_bConnected, port,
                 threads, calling, mpc, cur>>

(* Mutant: the last connector of a name goes and the name is not taken out *)
IsModuleDeleteNever(c) == FALSE

(* onDisconnected erases the last connector registered under its name *)
IsModuleDelete(c) ==
  /\ m_id[c] \in Name
  /\ m_connectors[m_id[c]] # {}
  /\ m_connectors[m_id[c]] \subseteq {c}

(* Mutant: a connector's id is erased only if it is the last one *)
EraseLast(c) ==
  [n \in Name |-> IF n = m_id[c] /\ m_connectors[n] = {c} THEN {} ELSE m_connectors[n]]

(* it1 of onDisconnected is erased if it is found *)
Erase(c) ==
  [n \in Name |-> IF n = m_id[c] THEN m_connectors[n] \ {c} ELSE m_connectors[n]]

(* ... and signals each of them; onDisconnected's region under m_csConnectors.
   CheckFireConnector is FALSE for every module without client or server.    *)
OnDisconnected(c) ==
  /\ mpc = "idle"
  /\ c \in todo
  /\ todo' = todo \ {c}
  /\ m_connectors' = Erase(c)
  /\ IF IsModuleDelete(c)
     THEN mpc' = "remove" /\ cur' = m_id[c]
     ELSE UNCHANGED <<mpc, cur>>
  /\ UNCHANGED <<listener, m_isExit, m_modules, m_ipcObject,
                 m_tryConnectCounters, m_coordinatorName,
                 m_bConnectToCoordinatorRequest, connectors, threads, calling>>

RemoveModule ==
  /\ mpc = "remove"
  /\ mpc' = "coordinator"
  /\ m_modules' = m_modules \ {cur}
  /\ UNCHANGED <<listener, m_isExit, m_connectors, m_ipcObject,
                 m_tryConnectCounters, m_coordinatorName,
                 m_bConnectToCoordinatorRequest, connectors, threads, calling,
                 todo, cur>>

(* The loss of the coordinator empties m_ipcObject of local names, this
   module's own one included, and requests a new connection                  *)
CheckCoordinatorLost ==
  /\ mpc = "coordinator"
  /\ mpc' = "idle"
  /\ cur' = NoName
  /\ IF cur \in {CoordinatorIPC, m_coordinatorName}
     THEN /\ m_ipcObject' = [n \in Name \cup {Self} |-> "absent"]
          /\ m_bConnectToCoordinatorRequest' = TRUE
     ELSE UNCHANGED <<m_ipcObject, m_bConnectToCoordinatorRequest>>
  /\ UNCHANGED <<listener, m_isExit, m_modules, m_connectors,
                 m_tryConnectCounters, m_coordinatorName, connectors, threads,
                 calling, todo>>

(* IPCModule::ManagerFunc once m_connectTimeout has passed, under m_csRequest *)
ManagerFunc ==
  /\ mpc = "idle"
  /\ todo = {}
  /\ m_bConnectToCoordinatorRequest
  /\ ConnectToCoordinator
  /\ m_bConnectToCoordinatorRequest' = FALSE
  /\ UNCHANGED <<listener, m_isExit, m_modules, m_connectors, m_ipcObject,
                 m_tryConnectCounters, m_coordinatorName, connectors, calling,
                 manager>>

-----------------------------------------------------------------------------
(* IPCModule::Start has started the listening thread *)
Start == listener = "starting"

Init ==
  /\ Start
  /\ m_isExit = FALSE
  /\ m_modules = {}
  /\ m_connectors = [n \in Name |-> {}]
  /\ m_ipcObject = [n \in Name \cup {Self} |-> "absent"]
  /\ m_tryConnectCounters = [n \in Name |-> NoCounter]
  /\ m_coordinatorName = NoName
  /\ m_bConnectToCoordinatorRequest = FALSE
  /\ pc = [c \in Conn |-> "free"]
  /\ m_id = [c \in Conn |-> Self]
  /\ m_open = [c \in Conn |-> FALSE]
  /\ m_isExist = [c \in Conn |-> FALSE]
  /\ m_bConnected = [c \in Conn |-> FALSE]
  /\ port = [c \in Conn |-> "noport"]
  /\ tpc = [t \in Thread |-> "free"]
  /\ target = [t \in Thread |-> CoordinatorIPC]
  /\ m_count = [t \in Thread |-> 0]
  /\ calling = [u \in Caller |-> NoName]
  /\ mpc = "idle"
  /\ todo = {}
  /\ cur = NoName

ConnectorStep(c) ==
  \/ OnStart(c)
  \/ \E name \in Name, granted \in BOOLEAN : OnModuleName(c, name, granted)
  \/ AddModule(c)
  \/ PushConnector(c)
  \/ FinishModuleName(c)
  \/ \E exist \in BOOLEAN, verdict \in {"smaller", "equal", "larger"} :
       OnModuleState(c, exist, verdict)
  \/ OnStop(c)

ListMessage(c) ==
  \/ \E name \in Name \cup {Self}, entry \in Entry : OnAddIPCObject(c, name, entry)
  \/ \E name \in Removable : OnRemoveIPCObject(c, name)

ConnectThreadStep(t) ==
  \/ Connected(t)
  \/ OnErrorConnect(t)
  \/ OnErrorConnectRetry(t)
  \/ OnErrorConnectStart(t)
  \/ OnErrorConnectUpdate(t)

CallerStep(u) ==
  \/ \E name \in Name : ConnectTo(u, name)
  \/ ConnectToStart(u)

ManagerStep ==
  \/ CheckConnections
  \/ \E c \in Conn : OnDisconnected(c)
  \/ RemoveModule
  \/ CheckCoordinatorLost
  \/ ManagerFunc

Next ==
  \/ OnCreatedListener
  \/ OnErrorListener
  \/ \E c \in Conn : Accept(c) \/ ConnectorStep(c) \/ ListMessage(c) \/ Drop(c)
  \/ \E t \in Thread : ConnectThreadStep(t)
  \/ \E u \in Caller : CallerStep(u)
  \/ \E name \in Name : DisconnectModule(name)
  \/ DeleteModule
  \/ ManagerStep

Spec == Init /\ [][Next]_vars

(* The threads of the program keep running, a ConnectThread's connect() returns
   and the 10 second wait of the request ends; every round of the managers
   thread visits every manager.  Peers and users owe nothing.                  *)
Fairness ==
  /\ \A c \in Conn : /\ WF_vars(OnStart(c))
                     /\ WF_vars(AddModule(c) \/ PushConnector(c) \/ FinishModuleName(c))
                     /\ WF_vars(OnStop(c))
  /\ \A t \in Thread : WF_vars(ConnectThreadStep(t))
  /\ WF_vars(CheckConnections)
  /\ WF_vars(\E c \in Conn : OnDisconnected(c))
  /\ WF_vars(RemoveModule \/ CheckCoordinatorLost)
  /\ WF_vars(ManagerFunc)

FairSpec == Spec /\ Fairness

-----------------------------------------------------------------------------
TypeOK ==
  /\ listener \in {"starting", "listening", "failed"}
  /\ m_isExit \in BOOLEAN
  /\ m_modules \subseteq Name
  /\ m_connectors \in [Name -> SUBSET Conn]
  /\ m_ipcObject \in [Name \cup {Self} -> Entry]
  /\ m_tryConnectCounters \in [Name -> TryConnectCounter]
  /\ m_coordinatorName \in Name \cup {NoName}
  /\ m_bConnectToCoordinatorRequest \in BOOLEAN
  /\ pc \in [Conn -> Place]
  /\ m_id \in [Conn -> Id]
  /\ m_open \in [Conn -> BOOLEAN]
  /\ m_isExist \in [Conn -> BOOLEAN]
  /\ m_bConnected \in [Conn -> BOOLEAN]
  /\ port \in [Conn -> {"listening", "noport"}]
  /\ tpc \in [Thread -> {"free", "connect", "retry", "start", "update"}]
  /\ target \in [Thread -> Name \cup {CoordinatorIPC}]
  /\ m_count \in [Thread -> 0..MaxTry]
  /\ calling \in [Caller -> Name \cup {NoName}]
  /\ mpc \in {"idle", "remove", "coordinator"}
  /\ todo \subseteq Conn
  /\ cur \in Name \cup {NoName}

(* A connector is registered only under the name it goes by, from the moment its
   thread pushed it until the managers thread has handled its disconnection: the
   map never keeps the id of a connector whose Disconnected signal is over.   *)
Registered(c) == pc[c] \in {"counter", "named", "settled", "stopped"} \/ c \in todo

RegisteredIsOwned ==
  \A n \in Name : \A c \in m_connectors[n] : m_id[c] = n /\ Registered(c)

(* No ghost among the connected modules: a name in m_modules, which ConnectTo,
   GetTargetPath and the users' module list rely on, is backed by a connector that
   is registered or about to be, or the managers thread is about to remove it.  *)
ConnectedModulesBacked ==
  \A n \in m_modules :
    \/ m_connectors[n] # {}
    \/ \E c \in Conn : pc[c] = "push" /\ m_id[c] = n
    \/ mpc = "remove" /\ cur = n

Alive(n) == \E c \in Conn : pc[c] \in Running /\ m_id[c] = n

(* A module whose last connection ended leaves the list of connected modules,
   unless it connects again or this module exits *)
DeadModuleLeaves ==
  \A n \in Name :
    (n \in m_modules /\ ~Alive(n)) ~> (n \notin m_modules \/ Alive(n) \/ m_isExit)

(* A request to connect to the coordinator leads to an attempt *)
RequestServed ==
  m_bConnectToCoordinatorRequest ~>
    (m_isExit \/ \E t \in Thread : tpc[t] = "connect" /\ target[t] = CoordinatorIPC)
=============================================================================
