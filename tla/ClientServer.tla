------------------------------ MODULE ClientServer ------------------------------
(***************************************************************************)
(* A server and its clients (ClientServerModule, ClientServerSignalHandler *)
(* and ClientServerConnector, with the parts of IPCHandler,                *)
(* IPCSignalHandler and ConnectorManager they run through).                *)
(*                                                                         *)
(* A connection k is made by a client's ConnectThread; its two connectors  *)
(* have a thread each.  The session id is a fresh GUID for every Login, so *)
(* k stands for it too: the client calls its end Server.k, the server      *)
(* calls it Client.k.  The users call Connect and Disconnect, and the      *)
(* managers thread reports ended connectors, between any two steps.        *)
(***************************************************************************)
EXTENDS Naturals, Sequences, FiniteSets, SequencesExt

CONSTANTS Client,        \* modules that connect to the server
          User,          \* user names
          Password,      \* passwords
          NoPassword,    \* a user the server does not know
          NoClient,      \* a connection nobody made yet
          MaxConn,       \* connections, at most
          MaxConnect,    \* calls of ConnectToServer, at most
          MaxStart,      \* listen threads of the server, at most
          MaxCall        \* other calls of the users and lost connections, at most

ASSUME ClientServerAssumption ==
  /\ User # {} /\ Password # {}
  /\ NoPassword \notin Password /\ NoClient \notin Client
  /\ {MaxConn, MaxConnect, MaxCall} \subseteq Nat /\ MaxStart \in Nat \ {0}

Conn == 1..MaxConn
NoSession == 0
Credential == User \X Password

VARIABLES
  m_isStopConnect,           \* the client does not want a connection
  m_userPassword,            \* what the client logs in with
  m_ownSessionId,            \* session of the client, NoSession when empty
  m_bConnectToServerRequest, \* ManagerFunc is to connect again
  connecting,                \* number of the client's connect threads
  disconnecting,             \* Disconnect is between StopConnection and m_isStopConnect
  m_modules,                 \* the Server.k each client has registered
  m_ipcObject,               \* the Client.k each client lists
  m_userPasswords,           \* the server's users
  m_serverThread, listen,    \* the server's listen thread, all its listen threads
  nullThread,                \* ThreadManager was given a null thread
  clients,                   \* the Client.k the server has registered
  conn,                      \* the connections
  calls,                     \* calls of the users so far, and lost connections
  gaveUp,                    \* history: clients after a Disconnect or a refused login
  wiped                      \* history: connections open when the client dropped its list

request == <<m_isStopConnect, m_userPassword, m_bConnectToServerRequest, connecting>>
listener == <<m_serverThread, listen, nullThread>>
history == <<calls, gaveUp, wiped>>
vars == <<request, m_ownSessionId, disconnecting, m_modules, m_ipcObject, m_userPasswords,
          listener, clients, conn, history>>

Limit == [connect |-> MaxConnect, other |-> MaxCall]
Counted(call) == calls[call] < Limit[call] /\ calls' = [calls EXCEPT ![call] = @ + 1]

Message == [kind : {"Login", "ModuleName"}]
             \cup [kind : {"LoginResult"}, success : BOOLEAN]
             \cup [kind : {"IPCObjectList"}, names : SUBSET Conn]
             \cup [kind : {"AddIPCObject", "RemoveIPCObject"}, name : Conn]

(* cli, srv: where the thread of each connector is;  cliUp, srvUp: that side has not
   closed its socket;  lost: the network dropped the connection;  listed: the client's
   ConnectorManager has it;  cliNamed, srvNamed: m_id has the session id.            *)
NoConn == [of |-> NoClient, cred |-> CHOOSE c \in Credential : TRUE, cli |-> "none",
           srv |-> "none", cliUp |-> FALSE, srvUp |-> FALSE, lost |-> FALSE,
           listed |-> FALSE, cliNamed |-> FALSE, srvNamed |-> FALSE, list |-> {},
           toCli |-> <<>>, toSrv |-> <<>>]

Of(c) == {k \in Conn : conn[k].of = c}
UserOf(k) == conn[k].cred[1]
Open(k) == conn[k].cliUp /\ conn[k].srvUp /\ ~conn[k].lost

(* toMessage: what is sent on a closed connection is lost *)
Sent(k, s) == [conn[k] EXCEPT !.toSrv = IF Open(k) THEN @ \o s ELSE @]
ToClient(r, s) == IF r.cliUp /\ r.srvUp /\ ~r.lost THEN [r EXCEPT !.toCli = @ \o s] ELSE r

-----------------------------------------------------------------------------
(* The client: calls of its user and its connect threads *)

(* ClientServerModule::Connect; m_isExit stays FALSE in a client *)
Connect(c) ==
  /\ m_isStopConnect' = [m_isStopConnect EXCEPT ![c] = FALSE]
  /\ connecting' = [connecting EXCEPT ![c] = @ + 1]

SetUserName(c, cred) == m_userPassword' = [m_userPassword EXCEPT ![c] = cred]

(* Twainet::ConnectToServer; the user calls from one thread *)
ConnectToServer(c, cred) ==
  /\ Counted("connect")
  /\ ~disconnecting[c]
  /\ SetUserName(c, cred)
  /\ Connect(c)
  /\ UNCHANGED <<m_bConnectToServerRequest, m_ownSessionId, disconnecting, m_modules,
                 m_ipcObject, m_userPasswords, listener, clients, conn, gaveUp, wiped>>

(* Connector::Stop of the client's connectors that StopConnectionByName finds: m_id is
   "Server" until the session id is known, then Server.k                            *)
IdIs(k, s) == IF s = NoSession THEN ~conn[k].cliNamed ELSE conn[k].cliNamed /\ k = s
StopConnection(c, s) ==
  [k \in Conn |-> IF k \in Of(c) /\ conn[k].listed /\ IdIs(k, s)
                  THEN [conn[k] EXCEPT !.cliUp = FALSE] ELSE conn[k]]

(* ClientServerModule::Disconnect, first the connection and then the flag *)
Disconnect(c) ==
  /\ Counted("other")
  /\ ~disconnecting[c]
  /\ conn' = StopConnection(c, m_ownSessionId[c])
  /\ disconnecting' = [disconnecting EXCEPT ![c] = TRUE]
  /\ UNCHANGED <<request, m_ownSessionId, m_modules, m_ipcObject, m_userPasswords, listener,
                 clients, gaveUp, wiped>>

DisconnectReturns(c) ==
  /\ disconnecting[c]
  /\ disconnecting' = [disconnecting EXCEPT ![c] = FALSE]
  /\ m_isStopConnect' = [m_isStopConnect EXCEPT ![c] = TRUE]
  /\ gaveUp' = gaveUp \cup {c}
  /\ UNCHANGED <<m_userPassword, m_bConnectToServerRequest, connecting, m_ownSessionId,
                 m_modules, m_ipcObject, m_userPasswords, listener, clients, conn, calls,
                 wiped>>

(* ConnectThread and onErrorConnect *)
OnErrorConnect(c) ==
  /\ connecting[c] > 0
  /\ connecting' = [connecting EXCEPT ![c] = @ - 1]
  /\ m_bConnectToServerRequest' =
       [m_bConnectToServerRequest EXCEPT ![c] = @ \/ ~m_isStopConnect[c]]
  /\ UNCHANGED <<m_isStopConnect, m_userPassword, m_ownSessionId, disconnecting, m_modules,
                 m_ipcObject, m_userPasswords, listener, clients, conn, history>>

(* the connector logs in with the credential its module has now, as soon as it starts *)
SetPassword(r, cred) == [r EXCEPT !.cred = cred]
OnStart(r) == [r EXCEPT !.cli = "login", !.toSrv = <<[kind |-> "Login"]>>]

(* ConnectThread, ListenThread and onAddClientServerConnector on both sides *)
OnAddClientServerConnector(c, k) ==
  /\ connecting[c] > 0
  /\ \E i \in 1..MaxStart : listen[i] = "listening"
  /\ conn[k].of = NoClient /\ \A j \in 1..(k - 1) : conn[j].of # NoClient
  /\ connecting' = [connecting EXCEPT ![c] = @ - 1]
  /\ conn' = [conn EXCEPT ![k] = OnStart(SetPassword(
                [NoConn EXCEPT !.of = c, !.srv = "accepted", !.cliUp = TRUE, !.srvUp = TRUE],
                m_userPassword[c]))]
  /\ UNCHANGED <<m_isStopConnect, m_userPassword, m_bConnectToServerRequest, m_ownSessionId,
                 disconnecting, m_modules, m_ipcObject, m_userPasswords, listener, clients,
                 history>>

(* ConnectorManager::AddConnection: the connector is started before it is listed *)
AddConnection(k) ==
  /\ conn[k].of # NoClient /\ ~conn[k].listed
  /\ conn' = [conn EXCEPT ![k].listed = TRUE]
  /\ UNCHANGED <<request, m_ownSessionId, disconnecting, m_modules, m_ipcObject,
                 m_userPasswords, listener, clients, history>>

(* ClientServerModule::ManagerFunc, under m_csServerRequest *)
ManagerFunc(c) ==
  /\ m_bConnectToServerRequest[c]
  /\ Connect(c)
  /\ m_bConnectToServerRequest' = [m_bConnectToServerRequest EXCEPT ![c] = FALSE]
  /\ UNCHANGED <<m_userPassword, m_ownSessionId, disconnecting, m_modules, m_ipcObject,
                 m_userPasswords, listener, clients, conn, history>>

-----------------------------------------------------------------------------
(* The client's connector thread *)
Received(k, kind) ==
  /\ conn[k].cliUp /\ conn[k].toCli # <<>>
  /\ conn[k].cli \in {"login", "session", "connected"}
  /\ Head(conn[k].toCli).kind = kind

Taken(k) == [conn[k] EXCEPT !.toCli = Tail(@)]

(* ClientServerConnector::onMessage(LoginResult) with onLoginResult: a failure *)
OnLoginFailure(k) ==
  /\ Received(k, "LoginResult") /\ ~Head(conn[k].toCli).success
  /\ m_isStopConnect' = [m_isStopConnect EXCEPT ![conn[k].of] = TRUE]
  /\ conn' = [conn EXCEPT ![k] = [Taken(k) EXCEPT !.cliUp = FALSE]]
  /\ gaveUp' = gaveUp \cup {conn[k].of}
  /\ UNCHANGED <<m_userPassword, m_bConnectToServerRequest, connecting, m_ownSessionId,
                 disconnecting, m_modules, m_ipcObject, m_userPasswords, listener, clients,
                 calls, wiped>>

(* onLoginResult has found m_ownSessionId empty, and no lock is held *)
OnLoginResult(k) ==
  /\ Received(k, "LoginResult") /\ Head(conn[k].toCli).success
  /\ m_ownSessionId[conn[k].of] = NoSession
  /\ conn' = [conn EXCEPT ![k] = [Taken(k) EXCEPT !.cli = "deciding"]]
  /\ UNCHANGED <<request, m_ownSessionId, disconnecting, m_modules, m_ipcObject,
                 m_userPasswords, listener, clients, history>>

SetOwnSession(k) ==
  /\ conn[k].cli = "deciding"
  /\ m_ownSessionId' = [m_ownSessionId EXCEPT ![conn[k].of] = k]
  /\ conn' = [conn EXCEPT ![k].cli = "owning"]
  /\ UNCHANGED <<request, disconnecting, m_modules, m_ipcObject, m_userPasswords, listener,
                 clients, history>>

(* the rest of onMessage(LoginResult): the new m_id, and ModuleName is sent *)
SetSession(k) ==
  /\ conn[k].cli = "owning"
  /\ conn' = [conn EXCEPT ![k] = [Sent(k, <<[kind |-> "ModuleName"]>>) EXCEPT
                                    !.cli = "session", !.cliNamed = TRUE]]
  /\ UNCHANGED <<request, m_ownSessionId, disconnecting, m_modules, m_ipcObject,
                 m_userPasswords, listener, clients, history>>

(* there is a session already: onLoginResult stops every connector called "Server" *)
OnSecondLogin(k) ==
  LET c == conn[k].of IN
  /\ Received(k, "LoginResult") /\ Head(conn[k].toCli).success
  /\ m_ownSessionId[c] # NoSession
  /\ conn' = [StopConnection(c, NoSession) EXCEPT ![k].toCli = Tail(@), ![k].cli = "owning"]
  /\ UNCHANGED <<request, m_ownSessionId, disconnecting, m_modules, m_ipcObject,
                 m_userPasswords, listener, clients, history>>

(* ClientServerConnector::onMessage(ModuleName) in the client: registration *)
OnServerName(k) ==
  /\ Received(k, "ModuleName")
  /\ m_modules' = [m_modules EXCEPT ![conn[k].of] = @ \cup {k}]
  /\ conn' = [conn EXCEPT ![k] = [Taken(k) EXCEPT !.cli = "connected"]]
  /\ UNCHANGED <<request, m_ownSessionId, disconnecting, m_ipcObject, m_userPasswords,
                 listener, clients, history>>

(* IPCHandler::onMessage of IPCObjectList, AddIPCObject and RemoveIPCObject *)
OnIPCObject(k) ==
  LET m == Head(conn[k].toCli) IN
  /\ \E kind \in {"IPCObjectList", "AddIPCObject", "RemoveIPCObject"} : Received(k, kind)
  /\ m_ipcObject' = [m_ipcObject EXCEPT ![conn[k].of] =
       CASE m.kind = "IPCObjectList" -> @ \cup m.names
         [] m.kind = "AddIPCObject" -> @ \cup {m.name}
         [] m.kind = "RemoveIPCObject" -> @ \ {m.name}]
  /\ conn' = [conn EXCEPT ![k] = Taken(k)]
  /\ UNCHANGED <<request, m_ownSessionId, disconnecting, m_modules, m_userPasswords,
                 listener, clients, history>>

(* ThreadFunc ends when Recv fails; what OnStop then says of Server.k changes nothing
   in the server                                                                     *)
ClientEnds(k) ==
  /\ conn[k].cli \in {"login", "session", "connected"}
  /\ ~Open(k)
  /\ conn' = [conn EXCEPT ![k].cli = "stopped", ![k].cliUp = FALSE, ![k].toCli = <<>>]
  /\ UNCHANGED <<request, m_ownSessionId, disconnecting, m_modules, m_ipcObject,
                 m_userPasswords, listener, clients, history>>

(* the mutant of OnFireConnector that asks for a connection only if there was a session *)
OnFireConnectorSession(c, s) ==
  IF s = m_ownSessionId[c] /\ s # NoSession /\ ~m_isStopConnect[c]
  THEN /\ m_ownSessionId' = [m_ownSessionId EXCEPT ![c] = NoSession]
       /\ m_bConnectToServerRequest' = [m_bConnectToServerRequest EXCEPT ![c] = TRUE]
  ELSE UNCHANGED <<m_ownSessionId, m_bConnectToServerRequest>>

(* ClientServerModule::OnFireConnector: Server.s is gone *)
OnFireConnector(c, s) ==
  IF s = m_ownSessionId[c] /\ ~m_isStopConnect[c]
  THEN /\ m_ownSessionId' = [m_ownSessionId EXCEPT ![c] = NoSession]
       /\ m_bConnectToServerRequest' = [m_bConnectToServerRequest EXCEPT ![c] = TRUE]
  ELSE UNCHANGED <<m_ownSessionId, m_bConnectToServerRequest>>

(* the mutant of Dropped that forgets the clients of no session *)
DroppedNone(c, k) == {}

(* ClientServerSignalHandler::onDisconnected: the Client names of the access id go *)
Dropped(c, k) ==
  IF conn[k].cliNamed THEN {j \in m_ipcObject[c] : UserOf(j) = UserOf(k)} ELSE {}

(* ConnectorManager::ManagerFunc, IPCSignalHandler::onDisconnected and the two above, in
   the managers thread                                                                 *)
OnServerDisconnected(k) ==
  LET c == conn[k].of IN
  /\ conn[k].cli = "stopped" /\ conn[k].listed
  /\ conn' = [conn EXCEPT ![k].cli = "gone"]
  /\ m_modules' = [m_modules EXCEPT ![c] = @ \ {k}]
  /\ OnFireConnector(c, IF conn[k].cliNamed THEN k ELSE NoSession)
  /\ m_ipcObject' = [m_ipcObject EXCEPT ![c] = @ \ Dropped(c, k)]
  /\ wiped' = wiped \cup (Of(c) \ {k})
  /\ UNCHANGED <<m_isStopConnect, m_userPassword, connecting, disconnecting,
                 m_userPasswords, listener, clients, calls, gaveUp>>

-----------------------------------------------------------------------------
(* The server *)

(* ClientServerModule::AddUser, which updates a user it knows *)
AddUser(u, p) ==
  /\ Counted("other")
  /\ m_userPasswords' = [m_userPasswords EXCEPT ![u] = p]
  /\ UNCHANGED <<request, m_ownSessionId, disconnecting, m_modules, m_ipcObject, listener,
                 clients, conn, gaveUp, wiped>>

(* RemoveUser compares names only *)
RemoveUser(u) ==
  /\ Counted("other")
  /\ m_userPasswords' = [m_userPasswords EXCEPT ![u] = NoPassword]
  /\ UNCHANGED <<request, m_ownSessionId, disconnecting, m_modules, m_ipcObject, listener,
                 clients, conn, gaveUp, wiped>>

ClearUsers ==
  /\ Counted("other")
  /\ m_userPasswords' = [u \in User |-> NoPassword]
  /\ UNCHANGED <<request, m_ownSessionId, disconnecting, m_modules, m_ipcObject, listener,
                 clients, conn, gaveUp, wiped>>

(* Twainet::SetUsersList clears the users and adds them one by one: logins come between *)
SetUsersList == ClearUsers \/ \E u \in User, p \in Password : AddUser(u, p)

(* m_serverThread->Stop(): a thread that listens ends, one that is about to bind will
   not accept                                                                        *)
Stopped == IF m_serverThread = 0 THEN listen
           ELSE [listen EXCEPT ![m_serverThread] = IF @ = "binding" THEN "stopping" ELSE "ended"]

StartServer ==
  /\ Counted("other")
  /\ \E i \in 1..MaxStart :
       /\ listen[i] = "none"
       /\ m_serverThread' = i
       /\ listen' = [Stopped EXCEPT ![i] = "binding"]
  /\ UNCHANGED <<request, m_ownSessionId, disconnecting, m_modules, m_ipcObject,
                 m_userPasswords, nullThread, clients, conn, gaveUp, wiped>>

StopServer ==
  /\ Counted("other")
  /\ m_serverThread # 0
  /\ m_serverThread' = 0
  /\ listen' = Stopped
  /\ UNCHANGED <<request, m_ownSessionId, disconnecting, m_modules, m_ipcObject,
                 m_userPasswords, nullThread, clients, conn, gaveUp, wiped>>

OnCreatedListener(i) ==
  /\ listen[i] \in {"binding", "stopping"}
  /\ listen' = [listen EXCEPT ![i] = IF @ = "binding" THEN "listening" ELSE "ended"]
  /\ UNCHANGED <<request, m_ownSessionId, disconnecting, m_modules, m_ipcObject,
                 m_userPasswords, m_serverThread, nullThread, clients, conn, history>>

(* onErrorListener forgets whichever thread the module has now; ThreadManager reads
   through the pointer at its next pass                                            *)
OnErrorListener(i) ==
  /\ listen[i] \in {"binding", "stopping"}
  /\ listen' = [listen EXCEPT ![i] = "ended"]
  /\ nullThread' = (nullThread \/ m_serverThread = 0)
  /\ m_serverThread' = 0
  /\ UNCHANGED <<request, m_ownSessionId, disconnecting, m_modules, m_ipcObject,
                 m_userPasswords, clients, conn, history>>

(* connectors of the server that are subscribed to each other *)
Subscribed(j) == conn[j].srv \notin {"none", "gone"}

(* those that answer to the access id of k: m_id is Client.j and the user is the same *)
SameAccess(j, k) == conn[j].srvNamed /\ UserOf(j) = UserOf(k)

(* ClientServerSignalHandler::onLogin: the server knows the user, with this password *)
LoginSucceeds(k) == m_userPasswords[UserOf(k)] = conn[k].cred[2]

(* ClientServerConnector::onMessage(Login) *)
OnLogin(k) ==
  LET result(ok) == [kind |-> "LoginResult", success |-> ok]
  IN  /\ conn[k].srv = "accepted" /\ conn[k].srvUp /\ conn[k].toSrv # <<>>
      /\ conn' = [conn EXCEPT ![k] =
           IF LoginSucceeds(k)
           THEN [ToClient(conn[k], <<result(TRUE)>> \o <<[kind |-> "ModuleName"]>>) EXCEPT
                   !.toSrv = Tail(@), !.srv = "session", !.srvNamed = TRUE]
           ELSE [ToClient(conn[k], <<result(FALSE)>>) EXCEPT !.toSrv = Tail(@), !.srvUp = FALSE]]
      /\ UNCHANGED <<request, m_ownSessionId, disconnecting, m_modules, m_ipcObject,
                     m_userPasswords, listener, clients, history>>

(* ClientServerConnector::onMessage(ModuleName) in the server: registration, and the
   other connectors add themselves to the list                                      *)
OnClientName(k) ==
  /\ conn[k].srv = "session" /\ conn[k].srvUp /\ conn[k].toSrv # <<>>
  /\ clients' = clients \cup {k}
  /\ conn' = [conn EXCEPT ![k].toSrv = Tail(@), ![k].srv = "naming",
       ![k].list = {j \in Conn \ {k} : Subscribed(j) /\ SameAccess(j, k)}]
  /\ UNCHANGED <<request, m_ownSessionId, disconnecting, m_modules, m_ipcObject,
                 m_userPasswords, listener, history>>

(* the mutant of Told that tells those whose clients have been named already *)
ToldNamed(j, k) == Subscribed(j) /\ SameAccess(j, k) /\ conn[j].srv = "connected"

(* onAddIPCObjectMessage: which connectors pass on that Client.k is new *)
Told(j, k) == Subscribed(j) /\ SameAccess(j, k)

(* the rest of onMessage(ModuleName): the list is sent, the others are told *)
OnClientNamed(k) ==
  /\ conn[k].srv = "naming"
  /\ conn' = [j \in Conn |->
       IF j = k
       THEN [ToClient(conn[k], <<[kind |-> "IPCObjectList", names |-> conn[k].list]>>) EXCEPT
               !.srv = "connected", !.list = {}]
       ELSE IF Told(j, k)
       THEN ToClient(conn[j], <<[kind |-> "AddIPCObject", name |-> k]>>)
       ELSE conn[j]]
  /\ UNCHANGED <<request, m_ownSessionId, disconnecting, m_modules, m_ipcObject,
                 m_userPasswords, listener, clients, history>>

(* Twainet::DisconnectFromClient *)
DisconnectFromClient(k) ==
  /\ Counted("other")
  /\ conn[k].srvNamed /\ conn[k].srvUp
  /\ conn' = [conn EXCEPT ![k].srvUp = FALSE]
  /\ UNCHANGED <<request, m_ownSessionId, disconnecting, m_modules, m_ipcObject,
                 m_userPasswords, listener, clients, gaveUp, wiped>>

(* the end of the thread and IPCConnector::OnStop, whose RemoveIPCObject goes to every
   other client, whatever its access id                                              *)
ServerEnds(k) ==
  /\ conn[k].srv \in {"accepted", "session", "connected"}
  /\ ~Open(k)
  /\ conn' = [j \in Conn |->
       IF j = k THEN [conn[k] EXCEPT !.srv = "stopped", !.srvUp = FALSE, !.toSrv = <<>>]
       ELSE IF conn[k].srvNamed /\ Subscribed(j)
       THEN ToClient(conn[j], <<[kind |-> "RemoveIPCObject", name |-> k]>>)
       ELSE conn[j]]
  /\ UNCHANGED <<request, m_ownSessionId, disconnecting, m_modules, m_ipcObject,
                 m_userPasswords, listener, clients, history>>

(* ConnectorManager::ManagerFunc and IPCSignalHandler::onDisconnected in the server *)
OnClientDisconnected(k) ==
  /\ conn[k].srv = "stopped"
  /\ conn' = [conn EXCEPT ![k].srv = "gone"]
  /\ clients' = clients \ {k}
  /\ UNCHANGED <<request, m_ownSessionId, disconnecting, m_modules, m_ipcObject,
                 m_userPasswords, listener, history>>

(* the network drops a connection; an end that sends nothing may never find out *)
Lose(k) ==
  /\ Counted("other")
  /\ conn[k].of # NoClient /\ Open(k)
  /\ conn' = [conn EXCEPT ![k].lost = TRUE]
  /\ UNCHANGED <<request, m_ownSessionId, disconnecting, m_modules, m_ipcObject,
                 m_userPasswords, listener, clients, gaveUp, wiped>>

-----------------------------------------------------------------------------
(* Messages between modules.  They change no state: what follows says of the present
   state whom a message sent now reaches.  A name is a module name and a session.      *)

(* OnConnected has run, which sets m_bConnected *)
IsConnected(state) == state \in {"naming", "connected"}

(* ... or it will have before what is sent now is read: the ModuleName it waits for is
   ahead in the queue                                                                  *)
Heard(state, queue) ==
  \/ IsConnected(state)
  \/ \E m \in ToSet(queue) : m.kind = "ModuleName"

(* IPCHandler::onMessage(IPCMessage) returns at once on a connector that is not connected *)
ServerHears(k) == Open(k) /\ Heard(conn[k].srv, conn[k].toSrv)
ClientHears(k) == Open(k) /\ Heard(conn[k].cli, conn[k].toCli)

(* m_id of the two connectors of k *)
IdAtClient(k) == <<"Server", IF conn[k].cliNamed THEN k ELSE NoSession>>
IdAtServer(k) == <<"Client", IF conn[k].srvNamed THEN k ELSE NoSession>>

(* TwainetModule::GetTargetPath in a client: the name of a connected module, or a path
   through a server that leaves the session of the target out; one is put together per
   entry of a server, and only the first two steps are used.  Without any it is empty.  *)
GetTargetPath(c, t) ==
  LET servers == {k \in Of(c) : conn[k].cli = "connected"}
  IN  IF t \in {<<"Server", k>> : k \in m_modules[c]} THEN {<<t>>}
      ELSE IF servers = {} THEN {<<>>}
      ELSE {<<IdAtClient(k), <<t[1], NoSession>>>> : k \in servers}

(* IPCConnector::onIPCMessage: the connector whose id is first in the path sends, and
   every connector if there is no path                                              *)
Senders(c, path) ==
  {k \in Of(c) : conn[k].cli # "gone" /\ (path = <<>> \/ IdAtClient(k) = Head(path))}

(* ClientServerConnector::onIPCMessage: the server's other connectors pass on what goes to
   their id; none is called Server                                                       *)
PassedOn(k, name) == {j \in Conn \ {k} : Subscribed(j) /\ IdAtServer(j) = name}

(* Twainet::SendMessage of a client to t: the ends that hand it to their module *)
Reached(c, t) ==
  UNION {LET heard == {k \in Senders(c, path) : ServerHears(k)}
         IN  IF Len(path) < 2 THEN {<<"Server", k>> : k \in heard}
             ELSE UNION {{<<"Client", j>> : j \in {j \in PassedOn(k, path[2]) : ClientHears(j)}} :
                           k \in heard}
         : path \in GetTargetPath(c, t)}

(* ClientServerConnector::GetIPCName: what the server's module takes for the sender, and
   the clients it reaches when it answers to that name                                  *)
GetIPCName(k) == <<IdAtServer(k)[1], k>>
ReachedByAnswer(k) ==
  {j \in Conn : Subscribed(j) /\ IdAtServer(j) = GetIPCName(k) /\ ClientHears(j)}

-----------------------------------------------------------------------------
(* the server has been started and its users added *)
Init ==
  /\ m_isStopConnect = [c \in Client |-> TRUE]
  /\ m_userPassword \in [Client -> {CHOOSE c \in Credential : TRUE}]
  /\ m_ownSessionId = [c \in Client |-> NoSession]
  /\ m_bConnectToServerRequest = [c \in Client |-> FALSE]
  /\ connecting = [c \in Client |-> 0]
  /\ disconnecting = [c \in Client |-> FALSE]
  /\ m_modules = [c \in Client |-> {}]
  /\ m_ipcObject = [c \in Client |-> {}]
  /\ m_userPasswords \in [User -> Password]
  /\ m_serverThread = 1
  /\ listen = [i \in 1..MaxStart |-> IF i = 1 THEN "listening" ELSE "none"]
  /\ nullThread = FALSE
  /\ clients = {}
  /\ conn = [k \in Conn |-> NoConn]
  /\ calls = [call \in DOMAIN Limit |-> 0]
  /\ gaveUp = {}
  /\ wiped = {}

UserCalls ==
  \/ \E c \in Client : Disconnect(c) \/ \E cred \in Credential : ConnectToServer(c, cred)
  \/ SetUsersList \/ StartServer \/ StopServer
  \/ \E u \in User : RemoveUser(u)
  \/ \E k \in Conn : DisconnectFromClient(k)

ClientStep(k) ==
  \/ OnLoginFailure(k) \/ OnLoginResult(k) \/ SetOwnSession(k) \/ SetSession(k)
  \/ OnSecondLogin(k) \/ OnServerName(k) \/ OnIPCObject(k)
ServerStep(k) == OnLogin(k) \/ OnClientName(k) \/ OnClientNamed(k)

Next ==
  \/ UserCalls
  \/ \E c \in Client :
       \/ DisconnectReturns(c) \/ OnErrorConnect(c) \/ ManagerFunc(c)
       \/ \E k \in Conn : OnAddClientServerConnector(c, k)
  \/ \E i \in 1..MaxStart : OnCreatedListener(i) \/ OnErrorListener(i)
  \/ \E k \in Conn :
       \/ AddConnection(k) \/ ClientStep(k) \/ ServerStep(k) \/ Lose(k)
       \/ ClientEnds(k) \/ OnServerDisconnected(k) \/ ServerEnds(k) \/ OnClientDisconnected(k)

Spec == Init /\ [][Next]_vars

(* Threads that can go on do, managers come round every half second, and an end notices
   that its peer closed the socket.  That it notices a lost connection is not assumed:
   nothing is sent on an idle one (OnStart has its checker commented out).             *)
FairSpec ==
  /\ Spec
  /\ \A k \in Conn :
       /\ WF_vars(AddConnection(k)) /\ WF_vars(ClientStep(k)) /\ WF_vars(ServerStep(k))
       /\ WF_vars(~conn[k].lost /\ ClientEnds(k)) /\ WF_vars(~conn[k].lost /\ ServerEnds(k))
       /\ WF_vars(OnServerDisconnected(k)) /\ WF_vars(OnClientDisconnected(k))
  /\ \A c \in Client : WF_vars(ManagerFunc(c)) /\ WF_vars(DisconnectReturns(c))

-----------------------------------------------------------------------------
(* Every variable holds a value of its C++ type: a session is one that was given out, and
   a queue holds messages of the protocol.                                              *)
TypeOK ==
  /\ m_isStopConnect \in [Client -> BOOLEAN] /\ m_userPassword \in [Client -> Credential]
  /\ m_ownSessionId \in [Client -> Conn \cup {NoSession}]
  /\ m_bConnectToServerRequest \in [Client -> BOOLEAN]
  /\ connecting \in [Client -> Nat] /\ disconnecting \in [Client -> BOOLEAN]
  /\ m_modules \in [Client -> SUBSET Conn] /\ m_ipcObject \in [Client -> SUBSET Conn]
  /\ m_userPasswords \in [User -> Password \cup {NoPassword}]
  /\ m_serverThread \in 0..MaxStart
  /\ listen \in [1..MaxStart -> {"none", "binding", "stopping", "listening", "ended"}]
  /\ nullThread \in BOOLEAN /\ clients \subseteq Conn /\ wiped \subseteq Conn
  /\ DOMAIN conn = Conn
  /\ \A k \in Conn :
       /\ conn[k].of \in Client \cup {NoClient} /\ conn[k].cred \in Credential
       /\ conn[k].cli \in {"none", "login", "deciding", "owning", "session", "connected",
                           "stopped", "gone"}
       /\ conn[k].srv \in {"none", "accepted", "session", "naming", "connected", "stopped",
                           "gone"}
       /\ {conn[k].cliUp, conn[k].srvUp, conn[k].lost, conn[k].listed, conn[k].cliNamed,
           conn[k].srvNamed} \subseteq BOOLEAN
       /\ conn[k].list \subseteq Conn
       /\ ToSet(conn[k].toCli) \cup ToSet(conn[k].toSrv) \subseteq Message
  /\ calls \in [DOMAIN Limit -> Nat] /\ gaveUp \subseteq Client

(* The session the client takes for its own has been reported to be gone *)
StaleSession(c) == m_ownSessionId[c] # NoSession /\ conn[m_ownSessionId[c]].cli = "gone"

(* A client that wants a connection is never left with nothing under way: it has a connect
   thread, a pending request or a connector the managers thread has still to report.  This
   fails only when a session ended after a Disconnect or a refused login: OnFireConnector
   then keeps the old m_ownSessionId, onLoginResult refuses every later login, and nothing
   is asked for when one ends.  And the state is well typed.                             *)
WantedIsPursued ==
  /\ TypeOK
  /\ \A c \in Client : ~m_isStopConnect[c] =>
       \/ connecting[c] > 0 \/ m_bConnectToServerRequest[c]
       \/ \E k \in Of(c) : conn[k].cli # "gone"
       \/ c \in gaveUp /\ StaleSession(c)

(* A message reaches the server or the client it names, from the first moment the name is
   registered: both ModuleNames travel ahead of it, so that a server or a client in the
   list of connected modules, and the answer to its sender, is never dropped by a handler
   that is not connected yet.  A message to another client's name, whose session is cut
   off on the way, never ends up with a third client.                                    *)
RoutedRight ==
  /\ \A c \in Client :
       /\ \A k \in m_modules[c] : Open(k) => Reached(c, <<"Server", k>>) = {<<"Server", k>>}
       /\ \A j \in m_ipcObject[c], i \in Conn :
            <<"Client", i>> \in Reached(c, <<"Client", j>>) => i = j
  /\ \A k \in clients : Open(k) => ReachedByAnswer(k) = {k}

(* Messages between a server and its clients go where they should, and a client that is
   connected knows every other client of its user that the server has announced: the name
   is in its list or in a message on its way.  Whichever of two logins comes first, either
   the list or the announcement has it.  Left out are connections during which another one
   of the same client ended (wiped): onDisconnected drops the names the surviving
   connection brought.                                                                  *)
PeersListed ==
  /\ RoutedRight
  /\ \A j, k \in Conn :
       /\ j # k /\ k \notin wiped /\ UserOf(j) = UserOf(k)
       /\ Open(k) /\ conn[k].srv = "connected" /\ conn[j].srv = "connected"
       => \/ j \in m_ipcObject[conn[k].of]
          \/ \E m \in ToSet(conn[k].toCli) :
               \/ m.kind = "AddIPCObject" /\ m.name = j
               \/ m.kind = "IPCObjectList" /\ j \in m.names

(* A client lists another one only while it has a session of the same user: a list never
   crosses access ids and never outlives the sessions it came from.                     *)
ListedShareSession ==
  \A c \in Client : \A j \in m_ipcObject[c] :
    \E k \in Of(c) : conn[k].cliNamed /\ conn[k].cli # "gone" /\ UserOf(k) = UserOf(j)
=============================================================================
