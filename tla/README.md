# TLA+ models of twainet

twainet is a C++ library that lets processes on one or several machines exchange
messages: modules on one machine connect to each other over local TCP sockets with the
help of a coordinator, modules on several machines through a client-server connection
and through tunnels. The library hands everything that happens to the user in callbacks
of one notification thread.

This directory holds TLA+ models of the parts of the library that are concurrent, the
TLC configurations that check them, and TLAPS proofs of their main invariants. Source
paths below are relative to `src/src/cpp/`.

## 1. The system

### Parts

| Part | State | Operations | Talks to |
|---|---|---|---|
| IPC module registry: `IPCModule`, `IPCSignalHandler` (`lib/ipc_lib/module`) | `m_modules` (connected names), `m_connectors` (ids per name), `m_ipcObject` (names available to connect, with ports), `m_tryConnectCounters`, `m_coordinatorName`, the request to reconnect, `m_isExit` | ConnectTo, DisconnectModule, SendMsg, ManagerFunc, the handlers of the connectors' signals | connectors by signals, managers thread |
| IPC connector: `IPCConnector`, `IPCHandler` (`lib/ipc_lib/connector`) | id, random value, `m_isExist`, `m_bConnected`, `m_internalConnections` | handshake ModuleName / ModuleState, list messages Add/Remove/UpdateIPCObject, IPCMessage, internal-connection statuses | its peer by messages, its siblings and its module by signals |
| Connector layer: `ConnectorManager`, `ConnectThread`, `ListenThread`, signals (`lib/connector_lib`) | list of connectors, subscriptions | AddConnection, StopConnection, reaping of finished connectors | IPC module, managers thread |
| Threads: `Thread`, `ThreadManager`, `ManagersContainer` (`lib/thread_lib`) | `m_state` of every thread, list of threads, list of managers | Start, Join, StopThread, one polling thread that runs `ManagerFunc` of every manager | everything |
| Client-server: `ClientServerModule` and connectors (`lib/client_server_lib`) | `m_ownSessionId`, the request to reconnect, `m_userPasswords`, `m_serverThread`, names of the other clients | Connect, Disconnect, login, StartServer, StopServer, lists of names | IPC module |
| Tunnels: `TunnelModule`, signal handlers, relay and external threads (`lib/tunnel_lib`) | `m_tunnels` (negotiations of a client), `m_servers`, `m_tunnelsStep` (of the server), types of the pairs | create a tunnel through the server, accept one, relay, time limits | client-server, threads |
| Internal connections: `IPCConnector`, `InternalConnector` (`lib/ipc_lib/connector`) | `m_internalConnections` of each end, listen threads | request, open, close, forward | IPC connection, local programs |
| Notification queue: `Application` (`lib/twainet/application`) | `m_messages`, semaphore, `m_bInit` | Init, Deinit, AddNotifycationMessage, the thread | every thread that notifies; user callbacks |
| Synchronous messages: `TwainetModule` (`lib/twainet/module`) | `m_waitingList` | SendSyncMsg, OnMessage, ManagerStop | connectors' threads, user threads, managers thread |
| Sockets, proxy, AES/RSA (`lib/connector_lib/socket`, `common`) | descriptors, keys | bind, listen, accept, connect, send, receive, close; way through a proxy; exchange of keys | operating system, UDT, proxy |
| Modules of an application: `Module`, `DefaultApplication` (`include`), notification messages (`lib/twainet/message`) | handles of the modules, names of the clients | Create, callbacks, ClientName and ClientNameList messages | the C API, the notification thread |
| Daemon, remote terminal (`apps`), JavaScript connector (`src/js`) | configuration | programs on top of the API | the API |

### What is hard about it

- *Two locks for one fact.* That a module is connected is kept in `m_modules` and in
  `m_connectors`, under different locks, and both are changed by every connection's own
  thread and by the managers thread.
- *Polling.* Connectors end on their own threads; only the managers thread notices and
  runs their Disconnected signals, later and in any order with new connections.
- *Crossing connections.* Two modules may connect to each other at the same time; each
  end draws random values and closes one of the two, each with its own view.
- *Counters and requests shared by threads* that read them in one lock region and write
  them back in another: retries of a connection, the request for the coordinator.
- *A thread that takes everything at once.* The notification thread copies the whole
  queue and lowers a saturating semaphore by one.
- *Stack data on shared lists.* SendSyncMsg lists an object of its own stack and erases
  it by value.
- *Deletion* of modules, threads and connectors while others still use them.
- *Numbers that come back.* A socket object keeps its descriptor after it closed it, and
  closes it again; by then the number may belong to another connection.
- *A negotiation of three parties* with threads of its own on each of them, time limits
  of a minute, and messages and errors of an earlier negotiation that come late.
- *Modes of a stream.* Both ends start to encrypt by their own count of messages.
- *Two calls for one answer.* A list is asked for its size and then for its elements.

`PROJECT.json` lists these as hazards, each with its line.

### What makes each part correct

- Registry: a name is in the list of connected modules exactly while somebody stands
  behind it; no id of a dead connector stays; the loss of a module is noticed; a
  requested reconnection happens; retries are bounded; the announced port is the
  listening one.
- Handshake: at most one connection between two modules stays, and at least one does.
- Notification queue: every notification reaches the user once and in order until the
  library is closed; no wakeup is lost; closing returns.
- Synchronous messages: the waiting list never points to a dead stack frame; an answered
  call returns; a call never returns unanswered while its module runs; a module that is
  deleted goes away.
- Threads: no thread is deleted while it runs; a stopped one ends; Join returns.
- Client-server: a client that wants a server pursues it; lists show the clients of the
  same user that have a session, and messages reach the module they name.
- Tunnels: both ends belong together; a negotiation ends, and with it its threads.
- Encrypted connections: nothing in clear, whole messages, no end left waiting.
- Internal connections: both ends agree, and whoever asked is answered.
- Sockets: an object reaches its own socket only, writes whole messages, is found at the
  port it announced, and closing it wakes whoever is blocked in it.
- Modules of an application: what the callbacks said agrees in the end with what is
  connected, and so do the names.

## 2. The modules

One step of a model is one region under a lock together with the unlocked code next to
it that touches nothing another thread can see. Variables keep the names of the fields
they stand for; `pc`, `tpc`, `mpc`, `jpc` are the places of threads between regions.

### IPCModule

A module that is not the coordinator, against an environment of peers.

| TLA+ | Code |
|---|---|
| `Conn`, `pc`, `m_id`, `m_open`, `m_isExist`, `m_bConnected`, `port` | connectors and their threads |
| `OnStart`, `OnStop` | `IPCConnector::OnStart`, `OnStop` |
| `OnModuleName`, `AddModule`, `PushConnector`, `FinishModuleName` | `IPCHandler::onMessage(ModuleName)` with `IPCSignalHandler::onAddIPCObject` and the three lock regions of `onModuleName`, then `onConnected` |
| `OnModuleState` | `IPCHandler::onMessage(ModuleState)`; the peer's flag and the comparison of random values are open |
| `OnAddIPCObject`, `OnRemoveIPCObject` | list messages of the coordinator |
| `Accept`, `OnCreatedListener`, `OnErrorListener` | `ListenThread` and its signals |
| `ConnectTo`, `ConnectToStart`, `Connected`, `OnErrorConnect*` | `IPCModule::ConnectTo`, `ConnectThread`, `onErrorConnect` (three regions: read, retry, write back) |
| `CheckConnections`, `OnDisconnected`, `RemoveModule`, `CheckCoordinatorLost`, `ManagerFunc` | the managers thread: `ConnectorManager::ManagerFunc`, the regions of `onDisconnected`, `IPCModule::ManagerFunc`; sequential, as it is one thread |
| `Drop` | the peer goes, or `IPCCheckerThread` closes a connection that sent no name |
| `DisconnectModule`, `Exit`, `DeleteModule` | the calls of these names, the last one the user's in the C API |

Abstractions: names are model values and a port is "listening" or "noport" (the default
0). `m_countConnect` is left out: a module has a single listening port in its table, so
the loop over ports never gets past the first. `m_coordinatorName` is written by
connectors' threads and read by the managers thread without a lock; the accesses are
taken as atomic. The ten seconds of `m_connectTimeout` are a step that may come at any
time. What a module does after `Exit` except to refuse new work (its teardown) is not
modelled. A connector whose access id is refused closes its socket and goes on with its
handler, as in the code.

### IPCArbitration

Two ordinary modules and both ends of every connection between them: `IPCModule` leaves
open what the peer answers, this module has the peer. `apc` is the progress of
`ConnectorManager::AddConnection` (siblings subscribe to each other, the thread starts,
the connector is listed: three regions, run by a connect thread or by the one
`ListenThread`), `pc` that of the connector's own thread, which runs from the second of
them on. `BeginModuleName` and `FinishModuleName` are `onMessage(ModuleName)` up to and
from `AddObject`, with `AddObject`'s registration between them. `subs` are the siblings
that answer the query of `onMessage(ModuleState)`; a sibling answers only once it goes
by the peer's name (`m_named`): an accepted one does after its ModuleName, the
initiator's own from the start. A reaped connector answers until `Delete`. `m_rand` is
drawn from `Draws`, functions without equal values, as GUIDs are. `inbox` is the TCP
stream; a close may cut off what was not read (`OnStop` and the next read are both
possible). Failed attempts, peers that go away and the coordinator are in `IPCModule`
only. `m_id` of a sibling is read without a lock; the access is taken as atomic.

### NotificationFIFO, NotificationQueue

`NotificationFIFO` is the promise: a sequence of pending notifications, `Notify` at one
end, `Handle` at the other, `Close` dropping the rest; weak fairness of `Handle`.
`NotificationQueue` is `Application`: `AddNotifycationMessage`, every step of
`ThreadFunc` with the two halves of `Semaphore::Wait`, `OnStop`, the end of
`Thread::ThreadProc`, and the user's `InitLibrary`, `Deinit` with `Join`'s two steps.
The refinement mapping is `pending <- messages \o m_messages`, `closed <- ` the thread
is past `OnStop`. `Semaphore::Wait` builds its time limit from its argument alone and
not from the clock, so on POSIX it is over at once: a poll, which is what `WaitTimeout`
says. `MaxCount` is 1 on Windows and `SEM_VALUE_MAX` elsewhere.

### SyncCall

Calls of `SendSyncMsg` in their two regions with the wait between them, `OnMessage` for
a peer's message of any name, `ManagerStop` in its two parts. `late` is a history
variable: the calls made while `ManagerStop` was waiting.

### ClientServer

A server, its clients, and connections `conn[k]` with a connector at each end; `k` is
also the session id, which the server draws anew for each login. `cli` and `srv` are how
far the two connectors are, `toCli` and `toSrv` the stream.

| TLA+ | Code |
|---|---|
| `ConnectToServer`, `Connect`, `Disconnect`, `DisconnectReturns` | the API calls with `ClientServerModule::Connect`, `Disconnect` |
| `OnErrorConnect`, `OnAddClientServerConnector`, `AddConnection` | the connect thread, `ConnectorManager::AddConnection` |
| `OnLogin`, `OnLoginFailure`, `OnLoginResult`, `SetOwnSession`, `SetSession`, `OnSecondLogin` | the login; the test of `m_ownSessionId` and its assignment are two steps, as they have no lock |
| `OnServerName`, `OnClientName`, `OnClientNamed`, `OnIPCObject`, `Told` | names of both ends and the lists of objects |
| `OnServerDisconnected`, `OnFireConnector`, `Dropped`, `ManagerFunc` | the managers thread: end of a connection, request and reconnection |
| `StartServer`, `StopServer`, `SetUsersList`, `RemoveUser`, `DisconnectFromClient` | the calls of the server's user |
| `GetTargetPath`, `PassedOn`, `Heard`, `Reached`, `ReachedByAnswer` | where a message of a client, and its answer, goes (no state of its own) |

### Tunnel

Two clients and their server. `m_tunnels[s][e]` is the `TunnelConnect` of client `s` for
`e`, `m_servers` the relay and external servers, `link` the tunnel connections with their
two ends; `stale` counts listen threads of earlier negotiations that may still report.
The steps of the negotiation carry the names of the handlers of `ClientSignalHandler`
and `ServerSignalHandler`; those of the threads are `RelayListen`, `RelayPair`,
`ExternalListen`, `ExternalProbe`, `ConnectLocalTCP`, `ConnectUDT`, `ConnectRelay`.
`CheckTunnelAvailableType` is true of a client that never announced its types (`Silent`).
`CheckTunnels`, `CheckServers`, `CheckSteps` are the three loops of
`TunnelModule::CheckTunnels`; the 60 seconds may be over at any time. `ConnectionEnds` is
the end of a tunnel connection at both ends (`OnStop` of the connectors). `crash` records
that a handler used a pointer that was 0, `checker` that the managers thread and a relay
thread wait for each other's locks.

### SecureConnection, Base64

`pc` is the initiator's connect thread, on its way through a proxy (if `UseProxy` was
called) and through `PerformSslVerify`; `acc` the acceptor's listen thread. A frame keeps
the length of its text and of its cipher text, as `GetEncriptedDataLen`, `AESEncrypt` and
`AESDecrypt` compute them; messages are sequences of bytes that know which message they
belong to. `SendData`, `SendFrame`, `RecvFrame`, `OnData` are `IPCConnector::SendData`,
one turn of `SecureSocket::Send`, `SecureSocket::Recv` and one message of
`IPCConnector::ThreadFunc`. `ConnectClear` is a peer that connects with a socket that
exchanges no keys (external): the acceptor's exchange then reads what the peer sends as
the exchange's own items, fails on the live connection at whichever of them
(`AcceptRefuses`), and the connector that is made reads and writes in clear. `Base64` gives the functions of `utils/base64.cpp` as
operators; `MCSecureConnection` assumes, and TLC evaluates, that decoding inverts
encoding and that only canonical texts decode, for the inputs named there.

### Threads

`ThreadProc*`, `OnStart`, `Bind`, `TestStop`, `Accept`, `ExchangeEnds`, `OnStop` are a
thread of an object from its first line to its last, `StartServer`, `StopServer`, `CloseLibrary` with
the steps after them the user's thread, `ManagerFunc`, `Delete`, `ManagerStop`, `Join*`
the managers thread. The threads followed are the listen threads of a server, which the
module keeps in `m_serverThread` and gives to the `ThreadManager`, while each lists
itself there too. Between `Accept` and `ExchangeEnds` the thread is in the constructor of
the accepted socket, in the exchange of keys, whose `Recv` has no time limit: neither
`Stop` nor the closing of the listening socket ends it, only the peer. `broken` names the first use of a deleted object and ends the
behaviour, as what follows is undefined.

### InternalConnection

Both sides of one IPC connection. `m_internalConnections[s][id]` is an entry of side `s`,
`thread` the connect and listen threads, `running` and `ended` the internal connectors
and those that ended and were not yet reported. The actors of a side are the thread of
its IPC connector (`Reader`), a thread of the user, the managers thread and its connect
and listen threads.

`ObjectManager` locks each of its operations alone, and a handler gets a copy of an entry
in one and writes it back in another. So no handler is one step: an action that bears a
handler's name does its first lock region and puts the others, with the copies they use,
into `todo` of the actor, and `UpdateObject`, `DestroyObject`, `TellModule`, `toMessage`,
`StopListener`, `StartThread`, `AddConnection`, `StopConnection` do them one by one.

| TLA+ | Code |
|---|---|
| `CreateInternalConnection`, `onInitInternalConnectionMessage` | `IPCModule::CreateInternalConnection` and the connector's handler of its signal |
| `OnInit`, `OnOpen`, `OnClose`, `OnExistOrFailed` | `IPCHandler::onMessage` of the request and of each status |
| `ConnectSucceeds`, `onErrorConnect` | the connect thread |
| `onCreatedListener`, `onErrorListener`, `TestStop`, `LocalConnect`, `AcceptFails` | the listen thread; `onAddConnector` is the handler of either thread's connector |
| `ConnectorEnds`, `onDisconnected`, `ManagerStop` | the internal connectors and the managers thread |
| `Cut`, `OnStop`, `ManagerForgotten`, `Delete` | the IPC connection is lost; `IPCConnector::OnStop` in its two parts; `~IPCConnector` |

`conn` is how far the connector of a side has come in its end. What the user asks of one
that has stopped is still handled, until it is deleted. The carried bytes are left out: no
status depends on them.

### Sockets

Socket objects over the table of descriptors and the sockets behind it. `Kernel(o)` is
the socket that a call on the object reaches at this moment. `TCPSocket`, `UDPSocket` and
`UDTSocket` repeat the same code, and a definition that holds for all of them names the
lines of one; where they differ there is a definition for each (`BindTcp`, `BindUdp`,
`BindUdt`, `ListenTcp`, `ListenUdt`, ...). `rcv` is where the thread that receives or
accepts is blocked, `snd` the senders, `shared` the objects whose descriptor another
object has named as well.

### UserModule

`NotificationMessage::HandleMessage` of every notification, the callbacks of
`DefaultApplication` and the protocol of `Module`: `OnClientName`, `OnClientNameList`,
`OnModuleListChanged`. `view` is what the callbacks have told the user, `queue` the
queue of `NotificationFIFO`, of each process. `Create` is in steps: a notification may be
handled between the creation of the library's module and `AddModule`; `m_cs` decides.

## 3. The runs

| Run | Configuration | Shows |
|---|---|---|
| registry_safety | IPCModule_safety.cfg | `TypeOK` (with the bound on retries), `RegisteredIsOwned`, `ConnectedModulesBacked` |
| registry_liveness | IPCModule_liveness.cfg | `DeadModuleLeaves`, `RequestServed` |
| arbitration | IPCArbitration.cfg | `AgreedVerdict`, `ContestedWins` |
| notification_queue | NotificationQueue.cfg | `WakeupPending`, `ImplementsFIFO`, `CloseReturns` |
| sync_call | SyncCall.cfg | `ListedIsInCall`, `NoSpuriousReturn`, `AnsweredReturns`, `StopWaitsForLateOnly` |
| client_server | ClientServer.cfg | `WantedIsPursued`, `PeersListed`, `ListedShareSession` |
| tunnel | Tunnel.cfg | `EndsNameEachOther`, `ConnectedIsForgotten`, `PointersHold`, `StepLeaves`, `TunnelConnectEnds` |
| secure_connection | SecureConnection.cfg | `EncryptedOnly`, `ModesAgree`, `MessagesWhole`, `HandshakeEnds`, `SentArrives` |
| threads | Threads.cfg | `ThreadOutlivesItsWork`, `NothingRunsAfterClose`, `StoppedEnds`, `CloseReturns` |
| internal_connection | InternalConnection.cfg | `EntriesAgree`, `OpenIsListed`, `RequestAnswered` |
| sockets | Sockets.cfg | `SendsWhole`, `OwnSocket`, `ToldPortKept`, `CloseWakes` |
| user_module | UserModule.cfg | `NamesSettle`, `ViewSettles` |

The comment at each property says what it promises. Where the code does not keep a
promise in every case, the property names the case it excludes and section 5 says what
happens there; `ThreadOutlivesItsWork`, `StoppedEnds`, `CloseReturns` of `Threads`, `OwnSocket`,
`EntriesAgree`, `RequestAnswered`, `EncryptedOnly`, `PeersListed` and `NamesSettle` are of
that kind. `EncryptedOnly` says of a peer without an exchange only that nothing is taken
for cipher text, which is what the code does. The type invariants of
the newer modules are the first conjunct of one of their properties.

Bounds. In the registry two connections that may carry the same name are what every
race of registration and disconnection needs; a user thread and two connect threads let
two attempts to one peer, and an attempt with its own retry, run at once; `MaxTry` 1
makes both outcomes of the retry test happen (the code's limit is 10). A connector that
was reaped is not used again, so the model ends after `Conn` connections, and deadlock
is not an error there. Two connections between two modules are the crossing that the
arbitration is for; all 24 orders of the four ends' values are covered by the 6 in which
a fixed end has the smallest, as exchanging the connections and the modules takes any end
to any other. Four notifications against a semaphore that saturates at two give
batches of several messages, counts left over and `Set` without effect. Three calls on
two keys with two messages give a refused call, a double answer and stray messages;
calls are not repeated, so that model ends too.

Two clients with two connections between them and the server give two clients of one
user or of two, two sessions of one client at once, and a reconnection; one call of
another kind (a Disconnect, a loss, a stop of the server, a user removed) meets each of
their steps. A tunnel is negotiated once, in every type, with one announcement of types, where one client may have announced none;
a second negotiation of the pair is possible only with larger bounds, and `started` in
the properties says where it would matter. Two links are what a local and a relayed
connection of one pair need. In the secure connection a block of 2 and a buffer of 4
bytes stand for 16 and 8192: lengths 3 and 8 with the length byte give a padded and an
exact last frame, one frame and several; two threads of one side can interleave. Two
listen threads are one server in place of another. One id of an internal connection is
enough, as ids do not meet; both sides may ask for it once, and one local program
connects. Three connect and listen threads may exist at a time, a place being used again
when its thread has ended and nothing refers to it: two requests start two connect and
two listen threads. `UsedOnce` ends the exploration where a side has made a second entry
of the id, as every property of the module excludes what comes after it. Two socket
objects over two descriptors let the second have the first one's number, be accepted by
it, or take over its socket; two senders with messages of two bytes can interleave. In `UserModule` one client is connected at the
start, the other creates its module late, and three events let clients leave, return as
new sessions and change in between two calls of `GetExistingModules`.

`Symmetry` (connectors and connect threads, clients) is used only where no liveness is
checked. These models bound the number of calls and connections, so they end, and
deadlock is an error only in the notification queue, which never ends.

Fairness. Weak fairness of the library's own threads: connectors inside a handler,
connect and listen threads (a `connect()` returns, a blocked call returns when its socket
is closed), the notification thread (callbacks return), a thread inside `SendSyncMsg`,
`Create`, `Join` or `CloseLibrary`, each manager in the managers thread's round, with it
the time limits of `CheckTunnels`, and a proxy that answers or closes. Nothing is assumed
of peers and users: messages, connections, calls, the closing of the library and the
deletion of a module need not happen, nor need the peer of an accepted connection take its
part in the exchange of keys (`ExchangeEnds`), so `StoppedEnds` and `CloseReturns` name
the thread that such a peer holds. In `SecureConnection` a peer that has begun the
exchange goes on with it; one that does none may stay silent. For an internal connection
every region of a handler that has begun is done, and threads come to an end of their
attempt; nobody has to connect, to close or to lose the connection, and the connector need
not be deleted. No strong fairness is used.

## 4. The proofs

| Theorem | Says | Argument |
|---|---|---|
| `IPCModuleProofs!TypeCorrect` | `Spec => []TypeOK` | the counter a connect thread read is below the limit when it writes the successor |
| `IPCModuleProofs!RegisteredOwned` | `Spec => []RegisteredIsOwned` | below |
| `IPCModuleProofs!ModulesBacked` | `Spec => []ConnectedModulesBacked` | below |
| `TunnelProofs!VerdictAgreed` | `ArbitrationSpec => []AgreedVerdict` | below |
| `TunnelProofs!VerdictContested` | `ArbitrationSpec => []ContestedWins` | below |
| `TunnelProofs!NamesAgree` | `Spec => []EndsNameEachOther` | below |
| `TunnelProofs!EstablishedIsForgotten` | `Spec => []ConnectedIsForgotten` | below |
| `TunnelProofs!PointersAreThere` | `Spec => []PointersHold`, with `TypeOK` | below |
| `ApplicationProofs!NoLostWakeup` | `Spec => []WakeupPending` | the count is positive at "lock" unless the queue was emptied |
| `ApplicationProofs!QueueIsFIFO` | `Spec => FIFO!FSpec` | refinement step by step, from the invariant that the thread's copy is empty outside of "handle" |
| `ApplicationProofs!ListedInCall` | `SyncSpec => []ListedIsInCall` | needs that listed calls have different keys, as the erase is by key |
| `ApplicationProofs!ReturnsAccounted` | `SyncSpec => []NoSpuriousReturn` | below |
| `ThreadsProofs!OutlivesItsWork` | `Spec => []ThreadOutlivesItsWork` | below |
| `ThreadsProofs!NothingRuns` | `Spec => []NothingRunsAfterClose` | below |
| `SecureConnectionProofs!ModesAgreed` | `Spec => []ModesAgree` | below |
| `SecureConnectionProofs!OnlyEncrypted` | `Spec => []EncryptedOnly` | below |
| `ClientServerProofs!Pursued` | `Spec => []WantedIsPursued` | below |
| `ClientServerProofs!ListsShareSessions` | `Spec => []ListedShareSession` | below |
| `ClientServerProofs!PeersKnown` | `Spec => []PeersListed` | below |
| `SocketsProofs!SendsWholeMessages` | `Spec => []SendsWhole` | below |
| `SocketsProofs!OwnSocketReached` | `Spec => []OwnSocket`, with `TypeOK` | below |
| `SocketsProofs!ToldPortIsKept` | `Spec => []ToldPortKept` | below |
| `InternalConnectionProofs!WellTyped` | `Spec => []TypeOK` | below |
| `InternalConnectionProofs!OpenListed` | `Spec => []OpenIsListed` | below |

They hold for all values of the constants that satisfy the named assumptions: names
differ from each other and from the special values; bounds are natural numbers, the
notification queue's positive; there is a key, a user, a password and a client of the tunnels; blocks and buffers
have a length, and a buffer holds whole blocks; objects, descriptors, threads that send
and ports are numbers, a message has a length and the threads that send are finitely many.

The registry's invariant is `IInv == TypeInv /\ TodoReaped /\ RegisteredIsOwned /\
ConnectedModulesBacked`. None of the last two is inductive without the others. When the
managers thread erases the last connector of a name it must know that the erased id was
the only one (`IsModuleDelete`), and that a name without connectors is either being
pushed or being removed; `TodoReaped` says that what waits in `todo` has ended for good,
so that its thread cannot register again after the erase; `RegisteredIsOwned` says that
an id is under no other name, so erasing it under its own name is enough.
`ConnectedModulesBacked` speaks of `m_connectors` rather than of live threads, since a
connection that ended stands behind its name until its disconnection is handled.

The arbitration's invariant says that a ModuleState on its way still tells the truth
about its sender (`MessagesTrue`: the sender's `m_isExist` and value cannot change any
more), that an end closes its socket only because the other one called it a duplicate
(`ClosedHeard`), and what a settled end may still be open for (`SettledRight`). It rests
on `Unstarted`: an end's thread does nothing before `AddConnection` starts it.

For the synchronous calls, `CInv` counts by sets: the calls whose semaphore was set
(`Posted`) and those with an answer in their `WaitData` (`Answered`). Neither is larger
than the number of messages handed to a call (`received - notified`), the first as long as
the module runs; one step adds at most one call to each (`OneMore`). A semaphore counts the
messages of its call and, once, the module's stop (`PostsAccounted`).

Threads need two invariants. `WorkInv` relates an object to its thread: `m_state`, the
handle and the semaphores tell where the thread is (`StateTrue`), only objects that were
started are listed or deleted (`ListedUsed`), and those that are deleted are past their
`OnStop` (`DeletedQuiet`); that is why deletion never concerns a thread's own work.
`CloseInv` says in which order the user's and the managers thread close the library
(`ClosingOrder`), and that a thread at work is listed, or was missed once `ManagerStop`
had begun (`WorkingListed`).

For the handshake, `ModeInv` counts the items of the agreed order: while the connection is
up, the items a side has read and those on the wire to it are together those that the
other side has sent (`InStep`), so the kinds the two sides expect cannot drift apart. Then
neither side has keys the other does not know of (`InitKnown`), whichever end was cut. With a
peer that exchanges no keys `ClearInv` holds instead: neither side has keys, and nothing on
the wire is a frame.

The client-server proof rests on `ConnInv`, about one connection: where each end can be
when the other is somewhere (`EndsOK`), that one `LoginResult` travels and names only
behind it (`OrderOK`), that a named end has been heard or will be (`HeardOK`), and that
every name told is of the same user (`NamesOK`). `RegisteredInv` adds that registered names
are those of connections yet to be reported, `ShareInv` that a listed name shares a user
with a connection of this client that is not over. `TellInv` is the core of `PeersListed`:
of two live clients of one user, the later one has the earlier one in the list being put
together for it, or in a message on its way, or in `m_ipcObject`. `PursuitInv` says what
carries a wanted connection on when no connection is in place: a connect thread, a
request, or a connection whose end sets the session or asks anew. It is not inductive
for a client that gave up or holds the session of a connection that is over (`gaveUp`,
observation 8).

The sockets stand on `TablesInv`: a socket is behind one descriptor at most and is made
for one object, whose kind it has. Most steps are proved once, as what they leave alone
(`Steady`, `Quiet`, `Plain`, `Arrives`), and each invariant is then shown for these.
`OwnInv` says that an open object reaches its socket, because whoever could close its
descriptor is recorded in `shared` (`SharedOK`). `SendInv` makes `SendsWhole` inductive:
the one thread in an object's critical section is the one that sends (`SectionOK`), the
object's stream ends where that thread has got to or at the end of a message
(`EndsRight`), a byte is in a stream once (`BytesOnce`, which also bounds the streams for
`TypeOK`), and a socket that can still come up has nothing of its object in it.
`PortInv` follows the descriptor of a UDP socket to the UDT socket that takes it over: a
bound UDP socket has the port that was told unless somebody else will close its
descriptor (`BoundKeeps`), the descriptor of one that was forgotten is closed by who took
it over (`LeftKept`), a descriptor in use is of an object that will close it
(`DescOwned`, `DeletedFree`); so `Bind` of another object can reach the socket only
through a descriptor that both name.

Both invariants of the internal connections are about what handlers still have to do.
`AtWork(s)` is the set of the regions that the actors of a side have before them; a step
takes one away (`GoesOn`) or adds those of a handler (`TakesUp`). `TypeInv` says that the
thread in an entry, in a copy of one or in a region that stops a thread is a listen thread
created for that side and id (`Own`, `Fits`); a new thread is one that none of these refer
to, so the regions that are under way keep fitting. That is the second part of `TypeOK`:
a thread is never stopped for another connection. `Listing` adds that an entry that is
open, or an open copy that is still to be written back, means that the id is listed or that
a handler is about to list it (`Opens`, `Lists`), as long as the one entry of the id has
not gone (`Live`). It needs `TypeInv`, since no handler tells CONN_CLOSE: only the end of
an open entry takes an id off. `EntriesAgree` has no proof: at the granularity of regions
its invariant would have to follow, for every pair of regions of the two sides, which of
them answers for an entry that only one side has.

The tunnels' proof first describes what a state may hold and what a step may do to it.
`BaseInv` is about single records and counts. `ServerOK` says what a server may hold at
each place of its thread, `LinksOK` that the ends of a connection belong to the two
clients of its server (`Joined`) and so learn each other's name, which is
`EndsNameEachOther`. `CountOK` bounds what was asked for: the requests on their way and
the negotiations started are together no more than the calls of `InitNewTunnel`.
`LoadOK` bounds the listen threads: those that a client was asked for, that run, and
that were stopped and are still to end are no more than the negotiations. Both count the
places of a stream that hold a kind of message (`Places`), since a set of messages would
not see two equal ones. The steps are summed up by their effect on the messages for a
client, on those for the server, on an entry, on a server and on a link (`MailMoves`,
`SentMoves`, `EntriesMove`, `ServersMove`, `LinkMoves`), so that each later invariant is
shown for a few moves and not for every handler.

`OrderInv` is the order of one negotiation. While only one has started, its entries go
through their lives once: what told a client of the negotiation is the first message it
gets, and a client that has not read it has nothing of it (`OnceInv`), so a named end
finds its entry deleted for good, which is `ConnectedIsForgotten`; a listen thread that
was stopped has no entry left (`ListensOnce`); a request to listen comes before
everything else (`AsksFirst`). For each pointer that a handler uses there is one
argument. For the listen thread, `LoadOK` and `ListensOnce`. For the UDP socket,
`ChainInv`: the request for the socket, its answer and the announcement of its port are
one chain, of which there is no more than one element at a time, and while there is one
the other client's socket is there or still to be made, and nothing has taken it
(`UdpInv`). For the external thread, `ExtOnce` and `ExtInv`: the server gathers
addresses, one message tells a client to connect, or its thread connects, never two of
these, and until then the entry's probing thread is there. For the relay, `RelaysHold`:
who has both connectors keeps them until its time has come. The last conjunct, that
nothing was 0, is then an invariant. With a second negotiation of the pair the argument
fails as the code does (observation 11), and the property says so.

Only model-checked are: everything that rests on fairness (`DeadModuleLeaves`,
`RequestServed`, `CloseReturns`, `AnsweredReturns`, `StopWaitsForLateOnly`, the fairness
part of `ImplementsFIFO`, and the liveness properties of the other modules), which is
beyond this prover, and with it all of `UserModule`. Of the safety properties
`EntriesAgree` has no theorem, nor has `MessagesWhole`: it cuts a stream into messages by recursion over the
data, as `Base64` cuts its input, and induction over data is out of the prover's reach.
`SendsWhole` says the same of a plain stream byte by byte, each by what precedes it, and
needs none. `Base64` is evaluated on the inputs named in `MCSecureConnection`.

## 5. Observations

Behaviours of the code that the models exhibit. Where a property excludes one, it is
named.

Registry and handshake:

1. *An accepted connection that is not listed* (`ipc_signal_handler.cpp:226-268`). Two
   connections of one name: the first adds the name, the second finds it there,
   registers, ends and is reaped before the first has pushed its id; the name is removed
   with the first one connected. `ipc_module.h:115` calls the list "connected modules".
2. *The listening port is forgotten* (`ipc_signal_handler.cpp:273`). Losing the
   coordinator removes every local name from `m_ipcObject`, the module's own too; later
   connections announce port 0.
3. *The coordinator's loss is not noticed* (`ipc_signal_handler.cpp:102`). Every new
   connection of an ordinary module overwrites `m_coordinatorName`, so the test at
   line 270 looks for the latest peer. `include/twainet.h:121`: "Coordinator - the main
   module to which all must be connected."
4. *Two connections between two modules* (`ipc_handler.cpp:103`). When each module
   handles its own connection first, each first end compares its value with the other
   end's and its siblings'. These are two comparisons of different pairs: both may be
   won, and both connections stay. The repository's `README.md:25` speaks of a "single
   connection between modules of single user". Both may be lost as well, and then no
   connection is left and nobody tries again.
5. The retry in `onErrorConnect` calls `ConnectTo`, which refuses a name that has a
   counter, so no retry takes place unless the counter was removed meanwhile, and the
   counter then blocks every later `ConnectTo` to the name until the peer connects by
   itself. A coordinator connection that ends before its name was handled is never
   replaced.

Application:

6. *A module whose deletion never ends* (`twainet_module.cpp:191`). A `SendSyncMsg` that
   registers after `ManagerStop` set the semaphores is not woken, and the managers thread
   polls for ever (`StopWaitsForLateOnly` is about the others). A second message for a
   call between `Set` and the erase is swallowed; an answer with empty content is
   reported as a failure (`twainet.cpp:179`). `Init` after `Deinit` leaves a library
   without its notification thread.
7. *Names are forgotten* (`module.h:396`). When the list grows between the two calls of
   `GetExistingModules` the second gives nothing, and all names are dropped (`raced` in
   `NamesSettle`); when it shrinks, names that were not filled in are read.

Client-server:

8. *No login after a Disconnect* (`client_server_module.cpp:66`). `OnFireConnector` clears
   `m_ownSessionId` only for a connection that is to be restored, and `onLoginResult`
   refuses a login while it is set (`gaveUp` in `WantedIsPursued`). A `Disconnect` during a
   connection attempt stops nothing, since the connector has no session yet. A second
   `Connect` during a session ends the same way: its login is refused, which stops the
   restoring, and when the session ends later its id stays set (`StaleSession`).
9. *The end of a refused second connection drops the names the first one brought*
   (`client_server_signal_handler.cpp:118`; `wiped` in `PeersListed`).
10. A message to another client's listed name has its host cut off on the way
   (`twainet_module.cpp:54`); it never reaches a third client (`RoutedRight`, a part of
   `PeersListed`).

Tunnels:

11. *A late error of an earlier negotiation* stops, or finds missing, the listen thread of
   the new one (`client_signal_handler.cpp:105`), and expiry of an entry between two
   messages leaves handlers with pointers that are 0 (`expired` in `PointersHold`).
12. *Locks in two orders*: a relay thread holds its own lock and takes the module's,
   `CheckTunnels` deletes the relay under the module's lock (`checker` in `StepLeaves`).
13. `Wait(1000)` of `ExternalConnectThread` is refused by `sem_timedwait` (1000000000
   nanoseconds), so the client never sends its name over UDP
   (`external_connect_thread.cpp:62`). `DestroyTunnel` passes the session id to
   `StopConnection`, while the connector goes by "Tunnel." and the session id.

Connections and sockets:

14. *The exchange of keys runs in the accepting constructor*, which ignores its result
   (`secure_socket.cpp:298`). One silent peer keeps the listen thread (`HeldByPeer` in
   `StoppedEnds` and `CloseReturns` of `Threads`). A connection that is cut leaves a
   connector that does not encrypt, but never gets to send or receive a message. A peer
   that does not take part in the exchange, on a connection that stays up, leaves one that
   talks in clear: what the peer sends after the bytes the exchange has eaten is handed
   out, and what is sent to it goes in clear. The repository's `README.md:26` says:
   "Server connection and Tunnel connection is encrypted rsa-aes algoritm on both sides."
   `EncryptedOnly` therefore excludes such a peer (`pc` is "clear").
15. *Frames of long messages interleave* (`secure_socket.cpp:190`; `mixed` in
   `MessagesWhole`): the lock is taken per frame.
16. A Digest offer with two qops, "auth,auth-int", is refused (`proxy_socket.cpp:268`).
17. *Close forgets no number* (`tcp_socket.cpp:202`): an object that is closed again, or
   whose Send is under way, reaches whatever socket has got its descriptor since. A UDT
   object that takes over a UDP object's descriptor shares it in the same way (`shared`
   in `OwnSocket`).
18. `Bind` of a UDP or UDT socket without
   host ignores the port.

Threads and internal connections:

19. *A thread is deleted early* (`thread_manager.cpp:26`): between `THREAD_STOPPED` and
   the last lines of `ThreadProc`, while `Start` waits in `WaitRun`, or while the module
   still has it in `m_serverThread`; the module may list it again. Its own work is never
   concerned (`ThreadOutlivesItsWork`).
20. *Joining under a lock* (`thread_manager.cpp:57`): `ManagerStop` joins a thread that
   waits in `OnStart` for the same lock (`JoinDeadlock` in `StoppedEnds`, `CloseReturns`).
   A thread that lists itself later keeps running after `CloseLibrary` (`missed`).
   `CloseLibrary` does not return either while a silent peer holds a listen thread in the
   exchange of keys (observation 14): `ManagerStop` joins it (`JoinHeldByPeer`).
21. *A listed internal connection that does not exist* (`ipc_connector.cpp:359`).
   `onAddConnector` reports CONN_OPEN to the module and to the peer before it writes it into
   the entry. When the peer's listen thread fails, its CONN_CLOSE may come in between: the
   entry is destroyed as one that is not open, the user is told CONN_FAILED, and the id
   stays on the list although it has an entry on neither side; later requests of it are
   answered CONN_EXIST. `include/twainet.h:203` calls it the "list of existing internal
   connections". A listen thread that was stopped before it had its socket leaves an id
   listed as well. So no property says that a listed id has an entry; `OpenIsListed` is the
   converse. A request that comes after `OnStop` is sent on a connection that is over, and one that comes after
   the connector's deletion reaches nobody: the user is told nothing (`late` in
   `RequestAnswered`).
22. *A stale copy of an entry* (`ipc_connector.cpp:301-303`). `onCreatedListener` writes back
   the entry that it got before. One that was destroyed and made again in between is
   overwritten, so that it refers to the old listen thread; `onAddConnector` of the new
   connect thread then stops that thread and tells nobody CONN_OPEN, and whoever asked waits
   for ever. In the same way what is left of an earlier connection of an id may close the
   new one on one side. `EntriesAgree`, `OpenIsListed` and `RequestAnswered` are about ids
   used once (`made`).
23. *Threads and managers of internal connections that are used after their end.* A listen
   thread that is stopped before `Thread::Start` is not stopped, as its state is still
   `THREAD_STOPPED`; the `ThreadManager` that it was given to may delete it meanwhile.
   `onAddConnector` tests `m_manager` and uses it while `OnStop` sets it to 0
   (`ipc_connector.cpp:118`, `373`), and the CONN_CLOSE message uses it untested. The model
   takes the outcomes in which the objects are still there.

## 6. Not modelled

- *Renaming* (`onUpdateIPCObject`, `UpdateModuleName`) and the *coordinator's side* of the
  registry. Both change what a name means in all of `IPCModule`'s tables at once; its
  invariants and proofs are about modules that keep their name and are not coordinator.
- *Signals* as objects: `Signal`, `SignalOwner`, `SignalReceiver`, `SignalManager`. A
  signal is delivered on the caller's thread and is a call in every model; the removal of
  owners and receivers has locks of its own, which are not modelled.
- *Timers*: no component of the library creates one.
- *Contents*: keys and cipher texts, the bytes of an internal connection or of a relay,
  user messages and their dispatch, names as strings, conversions of the C API.
- *Logging, configuration, utilities*, the daemon, the remote terminal, the service
  manager and the JavaScript connector: programs and helpers without a protocol of their
  own. `SimpleIni.h`, `ConvertUTF.c`, UDT, OpenSSL, protobuf and NTLM are third-party code.

Next, if the project is continued: renaming and the coordinator in `IPCModule`; `Signals`;
a second negotiation of a tunnel as a run of its own.
