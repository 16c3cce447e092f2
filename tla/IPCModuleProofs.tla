--------------------------- MODULE IPCModuleProofs ---------------------------
(***************************************************************************)
(* Proofs about IPCModule, for any number of connections, connect threads, *)
(* callers and peers and any m_maxTryConnectCount.                         *)
(***************************************************************************)
EXTENDS IPCModule, TLAPS

(* From the first lock region of onModuleName on, a connector goes by a peer's
   name; before it, by the id its connection was opened with.               *)
NamedConnectors ==
  \A c \in Conn : pc[c] \in {"module", "push", "counter", "named", "settled"}
                    => m_id[c] \in Name

(* onErrorConnect is past its test of m_maxTryConnectCount *)
CountersBounded ==
  \A t \in Thread : tpc[t] \in {"start", "update"} => m_count[t] < MaxTry

TypeInv == TypeOK /\ NamedConnectors /\ CountersBounded

(* What the managers thread is about to signal has been taken off the list *)
TodoReaped == \A c \in todo : pc[c] = "reaped"

IInv ==
  /\ TypeInv
  /\ TodoReaped
  /\ RegisteredIsOwned
  /\ ConnectedModulesBacked

-----------------------------------------------------------------------------
(* AddCounter keeps the counters within their bound *)
LEMMA CounterAdded ==
  ASSUME NEW name, AddCounter(name),
         m_tryConnectCounters \in [Name -> TryConnectCounter]
  PROVE  m_tryConnectCounters' \in [Name -> TryConnectCounter]
<1>1. 0 \in 0..MaxTry
  BY CounterAssumption
<1> QED
  BY <1>1 DEF AddCounter, TryConnectCounter

(* Type correctness of the registry, with the bound of the retry counter, is
   preserved by every step of every thread.                                  *)
LEMMA TypeStep == TypeInv /\ [Next]_vars => TypeInv'
<1> SUFFICES ASSUME TypeInv, [Next]_vars PROVE TypeInv'
  OBVIOUS
<1> USE NamesDiffer, CounterAssumption, RemovableAssumption
    DEF TypeInv, TypeOK, NamedConnectors, CountersBounded, Id, Name, Entry, Place,
        Running, TryConnectCounter, registry, connectors, threads, manager
<1>1. CASE OnCreatedListener
  BY <1>1 DEF OnCreatedListener, ConnectToCoordinator, StartConnectThread
<1>2. CASE OnErrorListener
  BY <1>2 DEF OnErrorListener
<1>3. ASSUME NEW c \in Conn, Accept(c) PROVE TypeInv'
  BY <1>3 DEF Accept, AddConnector
<1>4. ASSUME NEW c \in Conn, ConnectorStep(c) PROVE TypeInv'
  <2>1. CASE OnStart(c)
    BY <2>1 DEF OnStart
  <2>2. ASSUME NEW name \in Name, NEW granted \in BOOLEAN,
               OnModuleName(c, name, granted)
        PROVE  TypeInv'
    BY <2>2 DEF OnModuleName
  <2>3. CASE AddModule(c)
    BY <2>3 DEF AddModule
  <2>4. CASE PushConnector(c)
    BY <2>4 DEF PushConnector
  <2>5. CASE FinishModuleName(c)
    BY <2>5 DEF FinishModuleName, OnConnected, SetConnected
  <2>6. ASSUME NEW exist \in BOOLEAN, NEW verdict \in {"smaller", "equal", "larger"},
               OnModuleState(c, exist, verdict)
        PROVE  TypeInv'
    BY <2>6 DEF OnModuleState, OnConnected, SetConnected
  <2>7. CASE OnStop(c)
    BY <2>7 DEF OnStop
  <2> QED
    BY <1>4, <2>1, <2>2, <2>3, <2>4, <2>5, <2>6, <2>7 DEF ConnectorStep
<1>5. ASSUME NEW c \in Conn, ListMessage(c) PROVE TypeInv'
  BY <1>5 DEF ListMessage, OnAddIPCObject, OnRemoveIPCObject
<1>6. ASSUME NEW c \in Conn, Drop(c) PROVE TypeInv'
  BY <1>6 DEF Drop
<1>7. ASSUME NEW t \in Thread, ConnectThreadStep(t) PROVE TypeInv'
  <2>1. CASE Connected(t)
    <3>1. /\ tpc' \in [Thread -> {"free", "connect", "retry", "start", "update"}]
          /\ target' \in [Thread -> Name \cup {CoordinatorIPC}]
          /\ m_count' \in [Thread -> 0..MaxTry]
          /\ CountersBounded'
      BY <2>1 DEF Connected, EndConnectThread
    <3>2. CASE m_isExit
      BY <2>1, <3>1, <3>2 DEF Connected
    <3>3. ASSUME NEW c \in Conn, ~m_isExit, AddConnector(c, target[t])
          PROVE  TypeInv'
      BY <2>1, <3>1, <3>3 DEF Connected, AddConnector
    <3> QED
      BY <2>1, <3>2, <3>3 DEF Connected
  <2>2. CASE OnErrorConnect(t)
    <3>1. CASE target[t] = CoordinatorIPC
      <4>1. /\ tpc' \in [Thread -> {"free", "connect", "retry", "start", "update"}]
            /\ target' \in [Thread -> Name \cup {CoordinatorIPC}]
            /\ m_count' \in [Thread -> 0..MaxTry]
            /\ CountersBounded'
        BY <2>2, <3>1 DEF OnErrorConnect, EndConnectThread
      <4> QED
        BY <2>2, <3>1, <4>1 DEF OnErrorConnect
    <3>2. CASE target[t] # CoordinatorIPC
      <4>1. target[t] \in Name
        BY <3>2
      <4>2. m_tryConnectCounters[target[t]] \in 0..MaxTry \cup {NoCounter}
        BY <4>1
      <4>3. m_count' \in [Thread -> 0..MaxTry]
        BY <2>2, <3>2, <4>2 DEF OnErrorConnect
      <4>4. CountersBounded'
        BY <2>2, <3>2 DEF OnErrorConnect
      <4> QED
        BY <2>2, <3>2, <4>3, <4>4 DEF OnErrorConnect
    <3> QED
      BY <3>1, <3>2
  <2>3. CASE OnErrorConnectRetry(t)
    BY <2>3 DEF OnErrorConnectRetry, EndConnectThread, MayRetry
  <2>4. CASE OnErrorConnectStart(t)
    <3>1. m_tryConnectCounters' \in [Name -> TryConnectCounter]
      BY <2>4, CounterAdded DEF OnErrorConnectStart
    <3>2. PICK s \in Thread :
            /\ tpc[s] = "free"
            /\ tpc' = [tpc EXCEPT ![s] = "connect", ![t] = "update"]
            /\ target' = [target EXCEPT ![s] = target[t]]
      BY <2>4 DEF OnErrorConnectStart
    <3>3. CountersBounded'
      BY <2>4, <3>2 DEF OnErrorConnectStart
    <3> QED
      BY <2>4, <3>1, <3>2, <3>3 DEF OnErrorConnectStart
  <2>5. CASE OnErrorConnectUpdate(t)
    <3>1. m_count[t] + 1 \in 0..MaxTry
      BY <2>5 DEF OnErrorConnectUpdate
    <3>2. m_tryConnectCounters' \in [Name -> TryConnectCounter]
      BY <2>5, <3>1 DEF OnErrorConnectUpdate
    <3>3. /\ tpc' \in [Thread -> {"free", "connect", "retry", "start", "update"}]
          /\ target' \in [Thread -> Name \cup {CoordinatorIPC}]
          /\ m_count' \in [Thread -> 0..MaxTry]
          /\ CountersBounded'
      BY <2>5 DEF OnErrorConnectUpdate, EndConnectThread
    <3> QED
      BY <2>5, <3>2, <3>3 DEF OnErrorConnectUpdate
  <2> QED
    BY <1>7, <2>1, <2>2, <2>3, <2>4, <2>5 DEF ConnectThreadStep
<1>8. ASSUME NEW u \in Caller, CallerStep(u) PROVE TypeInv'
  BY <1>8 DEF CallerStep, ConnectTo, ConnectToStart, AddCounter, StartConnectThread
<1>9. ASSUME NEW name \in Name, DisconnectModule(name) PROVE TypeInv'
  BY <1>9 DEF DisconnectModule, StopConnection
<1>10. CASE DeleteModule
  BY <1>10 DEF DeleteModule, Exit
<1>11. CASE ManagerStep
  <2>1. CASE CheckConnections
    BY <2>1 DEF CheckConnections, IsStopped
  <2>2. ASSUME NEW c \in Conn, OnDisconnected(c) PROVE TypeInv'
    BY <2>2 DEF OnDisconnected, Erase, IsModuleDelete
  <2>3. CASE RemoveModule
    BY <2>3 DEF RemoveModule
  <2>4. CASE CheckCoordinatorLost
    BY <2>4 DEF CheckCoordinatorLost
  <2>5. CASE ManagerFunc
    BY <2>5 DEF ManagerFunc, ConnectToCoordinator, StartConnectThread
  <2> QED
    BY <1>11, <2>1, <2>2, <2>3, <2>4, <2>5 DEF ManagerStep
<1>12. CASE UNCHANGED vars
  BY <1>12 DEF vars
<1> QED
  BY <1>1, <1>2, <1>3, <1>4, <1>5, <1>6, <1>7, <1>8, <1>9, <1>10, <1>11, <1>12
  DEF Next

(* The retry counters and the typing hold initially. *)
LEMMA TypeInit == Init => TypeInv
<1> SUFFICES ASSUME Init PROVE TypeInv
  OBVIOUS
<1> USE NamesDiffer, CounterAssumption DEF Init, Start, Id, Name, Entry, Place, Running, TryConnectCounter
<1>1. NamedConnectors /\ CountersBounded
  BY DEF NamedConnectors, CountersBounded
<1>2. m_count \in [Thread -> 0..MaxTry]
  OBVIOUS
<1>3. m_tryConnectCounters \in [Name -> TryConnectCounter]
  OBVIOUS
<1>4. /\ pc \in [Conn -> Place]
      /\ m_id \in [Conn -> Id]
      /\ m_open \in [Conn -> BOOLEAN]
      /\ m_isExist \in [Conn -> BOOLEAN]
      /\ m_bConnected \in [Conn -> BOOLEAN]
      /\ port \in [Conn -> {"listening", "noport"}]
  OBVIOUS
<1>5. /\ m_connectors \in [Name -> SUBSET Conn]
      /\ m_ipcObject \in [Name \cup {Self} -> Entry]
      /\ tpc \in [Thread -> {"free", "connect", "retry", "start", "update"}]
      /\ target \in [Thread -> Name \cup {CoordinatorIPC}]
      /\ calling \in [Caller -> Name \cup {NoName}]
  OBVIOUS
<1> QED
  BY <1>1, <1>2, <1>3, <1>4, <1>5 DEF TypeInv, TypeOK

(* Type correctness: among others, m_modules and m_coordinatorName hold only
   names that peers sent, and no retry counter passes m_maxTryConnectCount. *)
THEOREM TypeCorrect == Spec => []TypeOK
<1>1. TypeInv => TypeOK
  BY DEF TypeInv
<1> QED
  BY TypeInit, TypeStep, <1>1, PTL DEF Spec

-----------------------------------------------------------------------------
(* The steps that leave alone everything the registry invariant speaks of *)
LEMMA Untouched ==
  ASSUME IInv, TypeInv', UNCHANGED <<m_modules, m_connectors, pc, m_id, manager>>
  PROVE  IInv'
BY DEF IInv, TodoReaped, RegisteredIsOwned, ConnectedModulesBacked, Registered,
       manager

(* A step of connector c that moves it between two places in which it is, or in
   which it is not yet, registered, and keeps its name *)
LEMMA MoveConnector ==
  ASSUME IInv, TypeInv', NEW c \in Conn, NEW place,
         UNCHANGED <<m_modules, m_connectors, m_id, manager>>,
         pc[c] # "reaped",
         pc' = [pc EXCEPT ![c] = place],
         \/ /\ pc[c] \in {"free", "starting", "loop"}
            /\ place \in {"starting", "loop", "stopped"}
         \/ /\ pc[c] \in {"counter", "named", "settled"}
            /\ place \in {"counter", "named", "settled", "stopped"}
  PROVE  IInv'
<1> USE DEF IInv, TypeInv, TypeOK, TodoReaped, RegisteredIsOwned,
            ConnectedModulesBacked, Registered, manager
<1>1. TodoReaped'
  OBVIOUS
<1>2. RegisteredIsOwned'
  OBVIOUS
<1>3. ConnectedModulesBacked'
  OBVIOUS
<1> QED
  BY <1>1, <1>2, <1>3

(* Every step of every thread keeps the registry and the connectors in step *)
LEMMA RegistryStep == IInv /\ [Next]_vars => IInv'
<1> SUFFICES ASSUME IInv, [Next]_vars PROVE IInv'
  OBVIOUS
<1>0. TypeInv /\ TypeInv'
  BY TypeStep DEF IInv
<1>1. ASSUME UNCHANGED <<m_modules, m_connectors, pc, m_id, manager>> PROVE IInv'
  BY <1>0, <1>1, Untouched
<1>2. CASE OnCreatedListener \/ OnErrorListener \/ DeleteModule
  BY <1>1, <1>2 DEF OnCreatedListener, OnErrorListener, DeleteModule, registry, connectors
<1>3. ASSUME NEW c \in Conn, NEW id, AddConnector(c, id),
             UNCHANGED <<m_modules, m_connectors, manager>>
      PROVE  IInv'
  <2> USE <1>0, <1>3 DEF IInv, TypeInv, TypeOK, AddConnector, Registered, manager
  <2>1. TodoReaped'
    BY DEF TodoReaped
  <2>2. RegisteredIsOwned'
    BY DEF RegisteredIsOwned, TodoReaped
  <2>3. ConnectedModulesBacked'
    BY DEF ConnectedModulesBacked, TodoReaped
  <2> QED
    BY <2>1, <2>2, <2>3
<1>4. ASSUME NEW c \in Conn, Accept(c) PROVE IInv'
  BY <1>3, <1>4 DEF Accept, registry
<1>5. ASSUME NEW c \in Conn, ConnectorStep(c) PROVE IInv'
  <2>1. CASE OnStart(c)
    BY <1>0, <2>1, MoveConnector DEF OnStart, registry
  <2>2. ASSUME NEW name \in Name, NEW granted \in BOOLEAN,
               OnModuleName(c, name, granted)
        PROVE  IInv'
    <3> USE <1>0, <2>2 DEF IInv, TypeInv, TypeOK, OnModuleName, Registered, manager
    <3>1. TodoReaped'
      BY DEF TodoReaped
    <3>2. RegisteredIsOwned'
      BY DEF RegisteredIsOwned, TodoReaped
    <3>3. ConnectedModulesBacked'
      BY DEF ConnectedModulesBacked, TodoReaped
    <3> QED
      BY <3>1, <3>2, <3>3
  <2>3. CASE AddModule(c)
    <3> USE <1>0, <2>3 DEF IInv, TypeInv, TypeOK, AddModule, Registered, manager
    <3>1. TodoReaped'
      BY DEF TodoReaped
    <3>2. RegisteredIsOwned'
      BY DEF RegisteredIsOwned, TodoReaped
    <3>3. ConnectedModulesBacked'
      BY DEF ConnectedModulesBacked, TodoReaped
    <3> QED
      BY <3>1, <3>2, <3>3
  <2>4. CASE PushConnector(c)
    <3> USE <1>0, <2>4 DEF IInv, TypeInv, TypeOK, PushConnector, Registered, manager
    <3>1. TodoReaped'
      BY DEF TodoReaped
    <3>2. RegisteredIsOwned'
      BY DEF RegisteredIsOwned, TodoReaped
    <3>3. ConnectedModulesBacked'
      BY DEF ConnectedModulesBacked, TodoReaped
    <3> QED
      BY <3>1, <3>2, <3>3
  <2>5. CASE FinishModuleName(c)
    BY <1>0, <2>5, MoveConnector DEF FinishModuleName, manager
  <2>6. ASSUME NEW exist \in BOOLEAN, NEW verdict \in {"smaller", "equal", "larger"},
               OnModuleState(c, exist, verdict)
        PROVE  IInv'
    BY <1>0, <2>6, MoveConnector DEF OnModuleState, manager
  <2>7. CASE OnStop(c)
    BY <1>0, <2>7, MoveConnector DEF OnStop, registry
  <2> QED
    BY <1>5, <2>1, <2>2, <2>3, <2>4, <2>5, <2>6, <2>7 DEF ConnectorStep
<1>6. ASSUME NEW c \in Conn, ListMessage(c) PROVE IInv'
  BY <1>1, <1>6 DEF ListMessage, OnAddIPCObject, OnRemoveIPCObject, connectors
<1>7. ASSUME NEW c \in Conn, Drop(c) PROVE IInv'
  BY <1>1, <1>7 DEF Drop, registry
<1>8. ASSUME NEW t \in Thread, ConnectThreadStep(t) PROVE IInv'
  <2>1. CASE Connected(t)
    <3>1. CASE m_isExit
      BY <1>1, <2>1, <3>1 DEF Connected, registry, connectors
    <3>2. CASE ~m_isExit
      BY <1>3, <2>1, <3>2 DEF Connected, registry
    <3> QED
      BY <3>1, <3>2
  <2>2. CASE \/ OnErrorConnect(t) \/ OnErrorConnectRetry(t)
             \/ OnErrorConnectStart(t) \/ OnErrorConnectUpdate(t)
    BY <1>1, <2>2 DEF OnErrorConnect, OnErrorConnectRetry, OnErrorConnectStart,
                      OnErrorConnectUpdate, connectors
  <2> QED
    BY <1>8, <2>1, <2>2 DEF ConnectThreadStep
<1>9. ASSUME NEW u \in Caller, CallerStep(u) PROVE IInv'
  BY <1>1, <1>9 DEF CallerStep, ConnectTo, ConnectToStart, registry, connectors
<1>10. ASSUME NEW name \in Name, DisconnectModule(name) PROVE IInv'
  BY <1>1, <1>10 DEF DisconnectModule, registry
<1>11. CASE ManagerStep
  <2>1. CASE CheckConnections
    <3> USE <1>0, <2>1 DEF IInv, TypeInv, TypeOK, CheckConnections, IsStopped,
                           Registered, registry
    <3>1. TodoReaped'
      BY DEF TodoReaped
    <3>2. RegisteredIsOwned'
      BY DEF RegisteredIsOwned, TodoReaped
    <3>3. ConnectedModulesBacked'
      BY DEF ConnectedModulesBacked, TodoReaped
    <3> QED
      BY <3>1, <3>2, <3>3
  <2>2. ASSUME NEW c \in Conn, OnDisconnected(c) PROVE IInv'
    <3> USE <1>0, <2>2 DEF IInv, TypeInv, TypeOK, OnDisconnected, Erase, Registered,
                           connectors
    <3>1. TodoReaped'
      BY DEF TodoReaped
    <3>2. RegisteredIsOwned'
      BY DEF RegisteredIsOwned, TodoReaped
    <3>3. ASSUME NEW n \in m_modules'
          PROVE  \/ m_connectors'[n] # {}
                 \/ \E d \in Conn : pc'[d] = "push" /\ m_id'[d] = n
                 \/ mpc' = "remove" /\ cur' = n
      <4>1. n \in m_modules /\ n \in Name
        BY <3>3
      <4>2. m_connectors'[n] = IF n = m_id[c] THEN m_connectors[n] \ {c}
                                             ELSE m_connectors[n]
        BY <4>1
      <4>3. \/ m_connectors[n] # {}
            \/ \E d \in Conn : pc'[d] = "push" /\ m_id'[d] = n
        BY <4>1 DEF ConnectedModulesBacked
      <4>4. CASE n = m_id[c] /\ m_connectors[n] # {} /\ m_connectors[n] \subseteq {c}
        BY <4>1, <4>4 DEF IsModuleDelete
      <4> QED
        BY <4>2, <4>3, <4>4
    <3> QED
      BY <3>1, <3>2, <3>3 DEF ConnectedModulesBacked
  <2>3. CASE RemoveModule
    <3> USE <1>0, <2>3 DEF IInv, TypeInv, TypeOK, RemoveModule, Registered, connectors
    <3>1. TodoReaped' /\ RegisteredIsOwned'
      BY DEF TodoReaped, RegisteredIsOwned
    <3>2. ConnectedModulesBacked'
      BY DEF ConnectedModulesBacked
    <3> QED
      BY <3>1, <3>2
  <2>4. CASE CheckCoordinatorLost
    <3> USE <1>0, <2>4 DEF IInv, TypeInv, TypeOK, CheckCoordinatorLost, Registered,
                           connectors
    <3>1. TodoReaped' /\ RegisteredIsOwned'
      BY DEF TodoReaped, RegisteredIsOwned
    <3>2. ConnectedModulesBacked'
      BY DEF ConnectedModulesBacked
    <3> QED
      BY <3>1, <3>2
  <2>5. CASE ManagerFunc
    BY <1>1, <2>5 DEF ManagerFunc, connectors
  <2> QED
    BY <1>11, <2>1, <2>2, <2>3, <2>4, <2>5 DEF ManagerStep
<1>12. CASE UNCHANGED vars
  BY <1>1, <1>12 DEF vars, registry, connectors
<1> QED
  BY <1>2, <1>4, <1>5, <1>6, <1>7, <1>8, <1>9, <1>10, <1>11, <1>12 DEF Next

(* The registry is empty when the module starts *)
LEMMA RegistryInit == Init => IInv
<1> SUFFICES ASSUME Init PROVE IInv
  OBVIOUS
<1>1. TypeInv
  BY TypeInit
<1>2. TodoReaped /\ RegisteredIsOwned /\ ConnectedModulesBacked
  BY DEF Init, TodoReaped, RegisteredIsOwned, ConnectedModulesBacked
<1> QED
  BY <1>1, <1>2 DEF IInv

(* m_connectors never holds an id whose onDisconnected is over, nor one under a
   name its connector does not go by. *)
THEOREM RegisteredOwned == Spec => []RegisteredIsOwned
<1>1. IInv => RegisteredIsOwned
  BY DEF IInv
<1> QED
  BY RegistryInit, RegistryStep, <1>1, PTL DEF Spec

(* m_modules never keeps a name that no connector stands behind and that the
   managers thread is not about to remove. *)
THEOREM ModulesBacked == Spec => []ConnectedModulesBacked
<1>1. IInv => ConnectedModulesBacked
  BY DEF IInv
<1> QED
  BY RegistryInit, RegistryStep, <1>1, PTL DEF Spec
=============================================================================
