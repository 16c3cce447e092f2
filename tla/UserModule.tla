------------------------------ MODULE UserModule ------------------------------
(***************************************************************************)
(* The application side of the library: the notification messages and the  *)
(* callbacks they make, the application that hands a callback to its       *)
(* Module (DefaultApplication), and the protocol of the Modules on top: a  *)
(* client tells the server its name when it is connected, the server sends *)
(* the names of its clients to all of them, and each side forgets a name   *)
(* when the list of existing modules has no host of it any more.           *)
(*                                                                         *)
(* One server and clients, each a process with one Module.  The queue of   *)
(* notifications is the one of NotificationFIFO, the connections and the   *)
(* lists of objects are what ClientServer gives: a client is logged in and *)
(* lost in one step, and messages on a connection keep their order.  The   *)
(* server makes a session id for each login, so a session never returns.   *)
(*                                                                         *)
(* GetExistingModules is called twice, for the number of modules and for   *)
(* their names; the list may change in between.                            *)
(***************************************************************************)
EXTENDS Naturals, Sequences, FiniteSets

CONSTANTS Session,   \* the clients, by their session id
          Server,    \* the server's process
          Late,      \* the processes whose Module is not added yet at the start
          Early,     \* the clients that are connected at the start
          MaxEvents, \* bound: connections and peers that come and go
          PeerOf     \* the client that has another peer: a tunnel, a module or an internal connection

ASSUME UserModuleAssumption ==
  /\ IsFiniteSet(Session) /\ Server \notin Session
  /\ Late \subseteq Session \cup {Server} /\ PeerOf \in Session
  /\ Early \subseteq Session \ Late /\ (Early # {} => Server \notin Late)
  /\ MaxEvents \in Nat

Node == Session \cup {Server}
Kind == {"Tunnel", "Module", "Internal"}
Name == {"Client", "Server"} \X Session \cup {<<k>> : k \in Kind}

VARIABLES
  app,          \* of a node's Module: "none", "create" (in AddModule), "run"
  link,         \* of a client's connection: "idle", "refused", "up", "down"
  peer,         \* the kind and the state ("none", "up", "down") of the other peer
  toServer,     \* the messages of a client on its way to the server
  toClient,     \* what the server sends to a client: objects, and name lists
  m_ipcObject,  \* the hosts of the existing modules, as GetExistingModules gives them
  notes,        \* the notification messages of a node that wait, each the callbacks it makes
  m_clientsNameOnServer,
  m_clientsNameOnClient,
  view,         \* the modules that OnModuleConnected and OnModuleDisconnected leave a user with
  events,       \* the number of connections and peers that came or went
  raced         \* a list grew between two calls of GetExistingModules (history)

net == <<link, peer, toServer, toClient, m_ipcObject, events>>
names == <<m_clientsNameOnServer, m_clientsNameOnClient>>
vars == <<app, net, notes, names, view, raced>>

-----------------------------------------------------------------------------
(* The callbacks that each NotificationMessage makes *)

ClientServerConnected(kind, s) ==
  <<<<IF kind = "Server" THEN "OnServerConnected" ELSE "OnClientConnected", s>>,
    <<"OnModuleConnected", <<kind, s>>>>>>

ModuleConnected(name) == <<<<"OnModuleConnected", name>>>>

ModuleDisconnected(name) ==
  CASE name[1] = "Client" -> <<<<"OnClientDisconnected", name>>, <<"OnModuleDisconnected", name>>>>
    [] name[1] = "Server" -> <<<<"OnServerDisconnected">>, <<"OnModuleDisconnected", name>>>>
    [] name[1] = "Tunnel" -> <<<<"OnTunnelDisconnected", name>>, <<"OnModuleDisconnected", name>>>>
    [] OTHER -> <<<<"OnModuleDisconnected", name>>>>

TunnelConnected(name) == <<<<"OnTunnelConnected", name>>, <<"OnModuleConnected", name>>>>

InternalConnectionStatusChanged(name, status) ==
  <<<<"OnInternalConnectionStatusChanged", name, status>>>> \o
  CASE status = "OPEN" -> <<<<"OnModuleConnected", name>>>>
    [] status = "CLOSE" -> <<<<"OnModuleDisconnected", name>>>>
    [] OTHER -> <<>>

ConnectionFailed(name) ==
  <<<<IF name[1] = "Server" THEN "OnClientConnectionFailed" ELSE "OnModuleConnectionFailed", name>>>>

CreationFailed == <<<<"OnModuleCreationFailed">>>>
TunnelCreationFailed(name) == <<<<"OnTunnelCreationFailed", name>>>>

GettingMessage(type, data) == <<<<"OnMessageRecv", type, data>>>>

ModuleListChanged == <<<<"OnModuleListChanged">>>>

(* The constructor hands its own m_module, not yet set, to the base class: the
   callback comes with any value for the module *)
AuthFailed == <<<<"OnClientAuthFailed">>>>

Notify(n, new) == notes' = [notes EXCEPT ![n] = @ \o new]

-----------------------------------------------------------------------------
Event == events < MaxEvents /\ events' = events + 1

(* DefaultApplication::AddModule holds m_cs from the push to the end of Create *)

AddModule(n) ==
  /\ app[n] = "none"
  /\ app' = [app EXCEPT ![n] = "create"]
  /\ UNCHANGED <<net, notes, names, view, raced>>

(* The module's threads run and notify before CreateModule returns its handle: it
   meets the coordinator (PeerChanges), or finds no port to listen on *)
ModuleCreationFailed(n) ==
  /\ app[n] = "create"
  /\ Event
  /\ Notify(n, <<CreationFailed>>)
  /\ UNCHANGED <<app, link, peer, toServer, toClient, m_ipcObject, names, view, raced>>

CreateModule(n) == app' = [app EXCEPT ![n] = "run"]

Create(n) ==
  /\ app[n] = "create"
  /\ CreateModule(n)
  /\ UNCHANGED <<net, notes, names, view, raced>>

-----------------------------------------------------------------------------
(* The connections, as ClientServer has them *)

Up(s) == link[s] = "up"

(* What the server's list looks like to the other clients *)
Tell(what, s) ==
  [x \in Session |-> IF x # s /\ Up(x) THEN Append(toClient[x], <<what, s>>) ELSE toClient[x]]

(* ConnectToServer, and the login with its exchange of names and lists, or the failure *)
ConnectToServer(s) ==
  /\ app[s] = "run" /\ app[Server] = "run"
  /\ link[s] = "idle"
  /\ Event
  /\ \/ /\ link' = [link EXCEPT ![s] = "up"]
        /\ toClient' = [Tell("add", s) EXCEPT ![s] = <<<<"connected", m_ipcObject[Server]>>>>]
        /\ m_ipcObject' = [m_ipcObject EXCEPT ![Server] = @ \cup {s}]
        /\ Notify(Server, <<ClientServerConnected("Client", s), ModuleListChanged>>)
     \/ /\ link' = [link EXCEPT ![s] = "refused"]
        /\ Notify(s, <<AuthFailed>>) \/ Notify(s, <<ConnectionFailed(<<"Server", s>>)>>)
        /\ UNCHANGED <<toClient, m_ipcObject>>
  /\ UNCHANGED <<app, peer, toServer, names, view, raced>>

(* The client's side: an object message changes the list, a user message is handed on *)
ClientReceives(s) ==
  LET m == Head(toClient[s])
  IN /\ toClient[s] # <<>>
     /\ toClient' = [toClient EXCEPT ![s] = Tail(@)]
     /\ m_ipcObject' = [m_ipcObject EXCEPT ![s] =
          CASE m[1] = "connected" -> @ \cup m[2] \cup {s}
            [] m[1] = "add" -> @ \cup {m[2]}
            [] m[1] = "remove" -> @ \ {m[2]}
            [] OTHER -> @]
     /\ Notify(s, CASE m[1] = "connected" -> <<ClientServerConnected("Server", s), ModuleListChanged>>
                    [] m[1] = "names" -> <<GettingMessage("ClientNameList", m[2])>>
                    [] OTHER -> <<ModuleListChanged>>)
     /\ UNCHANGED <<app, link, peer, events, toServer, names, view, raced>>

ServerReceives(s) ==
  /\ toServer[s] # <<>>
  /\ toServer' = [toServer EXCEPT ![s] = Tail(@)]
  /\ Notify(Server, <<GettingMessage("ClientName", s)>>)
  /\ UNCHANGED <<app, link, peer, events, toClient, m_ipcObject, names, view, raced>>

(* The connection is lost, or either side disconnects: what is on its way is lost *)
Disconnect(s) ==
  /\ Up(s)
  /\ Event
  /\ link' = [link EXCEPT ![s] = "down"]
  /\ toServer' = [toServer EXCEPT ![s] = <<>>]
  /\ toClient' = [Tell("remove", s) EXCEPT ![s] = <<>>]
  /\ m_ipcObject' = [m_ipcObject EXCEPT ![Server] = @ \ {s}, ![s] = {}]
  /\ notes' = [notes EXCEPT
       ![Server] = @ \o <<ModuleDisconnected(<<"Client", s>>), ModuleListChanged>>,
       ![s] = IF s \in m_ipcObject[s]
              THEN @ \o <<ModuleDisconnected(<<"Server", s>>), ModuleListChanged>> ELSE @]
  /\ UNCHANGED <<app, peer, names, view, raced>>

(* Another peer of a client comes, or not, and goes: the coordinator or a module it
   connects to, a tunnel or an internal connection *)
PeerChanges ==
  /\ app[PeerOf] # "none"
  /\ Event
  /\ \E kind \in IF app[PeerOf] = "run" THEN Kind ELSE {"Module"} :
       LET name == <<kind>>
       IN \/ /\ peer = <<"none", "none">>
             /\ peer' = <<kind, "up">>
             /\ Notify(PeerOf, <<CASE kind = "Tunnel" -> TunnelConnected(name)
                                 [] kind = "Module" -> ModuleConnected(name)
                                 [] OTHER -> InternalConnectionStatusChanged(name, "OPEN")>>)
          \/ /\ peer = <<"none", "none">>
             /\ peer' = <<kind, "down">>
             /\ Notify(PeerOf, <<CASE kind = "Tunnel" -> TunnelCreationFailed(name)
                                 [] kind = "Module" -> ConnectionFailed(name)
                                 [] OTHER -> InternalConnectionStatusChanged(name, "CONN_FAILED")>>)
          \/ /\ peer = <<kind, "up">>
             /\ peer' = <<kind, "down">>
             /\ Notify(PeerOf, <<IF kind = "Internal"
                                THEN InternalConnectionStatusChanged(name, "CLOSE")
                                ELSE ModuleDisconnected(name)>>)
  /\ UNCHANGED <<app, link, toServer, toClient, m_ipcObject, names, view, raced>>

-----------------------------------------------------------------------------
(* The notification thread *)

(* Mutant: AddModule without m_cs, so that a callback finds no Module with the handle *)
MayCallUnlocked(n) == TRUE

(* A callback takes m_cs *)
MayCall(n) == app[n] # "create"

(* The callbacks of the message at hand, and the one it starts with *)
Callbacks(n) == {Head(notes[n])[i] : i \in DOMAIN Head(notes[n])}
First(n) == Head(notes[n])[1]

Call(n, which) == /\ notes[n] # <<>>
                  /\ First(n)[1] = which
                  /\ MayCall(n)
                  /\ app[n] = "run"

Done(n) == notes' = [notes EXCEPT ![n] = Tail(@)]
Again(n, call) == notes' = [notes EXCEPT ![n] = <<<<call>>>> \o Tail(@)]

(* No Module has the module of the callback, or the application does nothing with it *)
Undelivered(n) ==
  /\ notes[n] # <<>>
  /\ \/ First(n)[1] = "OnModuleCreationFailed"
     \/ MayCall(n) /\ (app[n] # "run" \/ First(n)[1] = "OnClientAuthFailed")
  /\ Done(n)
  /\ UNCHANGED <<app, net, names, view, raced>>

(* A Message goes to the peer, if the module has a path to it *)
SendMessage(queue, s, msg) == IF Up(s) THEN Append(queue[s], msg) ELSE queue[s]

(* Module::toMessage, which has the message's bytes ready *)
toMessage(queue, s, msg) == SendMessage(queue, s, msg)

(* The module names that a message's callbacks of one kind give *)
Named(n, which) == {c[2] : c \in {x \in Callbacks(n) : x[1] = which}}

(* The one of these callbacks that Module does not leave empty: a client tells its name *)
OnServerConnected(n) ==
  [s \in Session |-> IF s \in Named(n, "OnServerConnected")
                     THEN toMessage(toServer, s, "ClientName") ELSE toServer[s]]

(* The callbacks that the user sees *)
HandleMessage(n) ==
  /\ \E which \in {"OnClientConnected", "OnServerConnected", "OnClientDisconnected",
                   "OnServerDisconnected", "OnClientConnectionFailed", "OnClientAuthFailed",
                   "OnModuleConnected", "OnModuleDisconnected", "OnModuleConnectionFailed",
                   "OnTunnelConnected", "OnTunnelDisconnected", "OnTunnelCreationFailed",
                   "OnInternalConnectionStatusChanged"} : Call(n, which)
  /\ view' = [view EXCEPT ![n] = (@ \cup Named(n, "OnModuleConnected")) \ Named(n, "OnModuleDisconnected")]
  /\ toServer' = OnServerConnected(n)
  /\ Done(n)
  /\ UNCHANGED <<app, link, peer, events, toClient, m_ipcObject, names, raced>>

(* GetExistingModules with an array for size names gives none of a longer list *)
GetIPCObjects(n) == m_ipcObject[n]
Grown(n, size) == Cardinality(GetIPCObjects(n)) > size
GetExistingModules(n, size) == IF Grown(n, size) THEN {} ELSE GetIPCObjects(n)

(* The list of names takes those it does not have *)
AddObject(ns, new) == ns \cup new

(* Mutant: the names of those that left stay *)
KeptNamesAll(ns, hosts) == ns

(* OnModuleListChanged keeps the names whose host is there *)
KeptNames(ns, hosts) == ns \cap hosts

OnModuleListChanged(n) ==
  /\ \/ /\ Call(n, "OnModuleListChanged")
        /\ Again(n, <<"ListSecond", Cardinality(GetIPCObjects(n))>>)
        /\ UNCHANGED <<names, raced>>
     \/ /\ Call(n, "ListSecond")
        /\ LET size == First(n)[2]
               hosts == GetExistingModules(n, size)
           IN /\ raced' = (raced \/ Grown(n, size))
              /\ IF n = Server
                 THEN /\ m_clientsNameOnServer' = KeptNames(m_clientsNameOnServer, hosts)
                      /\ UNCHANGED m_clientsNameOnClient
                 ELSE /\ m_clientsNameOnClient' =
                           [m_clientsNameOnClient EXCEPT ![n] = KeptNames(@, hosts)]
                      /\ UNCHANGED m_clientsNameOnServer
        /\ Done(n)
  /\ UNCHANGED <<app, net, view>>

(* OnMessageRecv hands a message to the handler of its type *)
onData(n, type) == Call(n, "OnMessageRecv") /\ First(n)[2] = type

(* The names in an array of size: those the second call did not write, all of them
   when the list grew, are not initialised and may be any *)
NamesRead(n, size) ==
  {GetExistingModules(n, size) \cup junk :
     junk \in IF size = Cardinality(GetIPCObjects(n)) THEN {{}} ELSE SUBSET Session}

(* The server is told a name: it sends the list of names to the clients there are *)
OnClientName ==
  /\ \/ /\ onData(Server, "ClientName")
        /\ m_clientsNameOnServer' = AddObject(m_clientsNameOnServer, {First(Server)[3]})
        /\ Again(Server, <<"NamesSecond", Cardinality(GetIPCObjects(Server)), m_clientsNameOnServer'>>)
        /\ UNCHANGED <<toClient, raced>>
     \/ /\ Call(Server, "NamesSecond")
        /\ LET size == First(Server)[2]
               list == First(Server)[3]
           IN /\ raced' = (raced \/ Grown(Server, size))
              /\ \E read \in NamesRead(Server, size) :
                   toClient' = [x \in Session |->
                     IF x \in read THEN toMessage(toClient, x, <<"names", list>>) ELSE toClient[x]]
        /\ Done(Server)
        /\ UNCHANGED m_clientsNameOnServer
  /\ UNCHANGED <<app, link, peer, events, toServer, m_ipcObject, m_clientsNameOnClient, view>>

(* A client is sent the list: it adds the names it does not have *)
OnClientNameList(s) ==
  /\ onData(s, "ClientNameList")
  /\ m_clientsNameOnClient' = [m_clientsNameOnClient EXCEPT ![s] = AddObject(@, First(s)[3])]
  /\ Done(s)
  /\ UNCHANGED <<app, net, m_clientsNameOnServer, view, raced>>

NotificationThread(n) ==
  \/ Undelivered(n)
  \/ HandleMessage(n)
  \/ OnModuleListChanged(n)
  \/ n = Server /\ OnClientName
  \/ n \in Session /\ OnClientNameList(n)

-----------------------------------------------------------------------------
(* The clients of Early are connected, and all of it is handled *)
Init ==
  /\ app = [n \in Node |-> IF n \in Late THEN "none" ELSE "run"]
  /\ link = [s \in Session |-> IF s \in Early THEN "up" ELSE "idle"]
  /\ peer = <<"none", "none">>
  /\ toServer = [s \in Session |-> <<>>]
  /\ toClient = [s \in Session |-> <<>>]
  /\ m_ipcObject = [n \in Node |-> IF n \in Early \cup {Server} THEN Early ELSE {}]
  /\ notes = [n \in Node |-> <<>>]
  /\ m_clientsNameOnServer = Early
  /\ m_clientsNameOnClient = [s \in Session |-> IF s \in Early THEN Early ELSE {}]
  /\ view = [n \in Node |-> IF n = Server THEN {<<"Client", s>> : s \in Early}
                            ELSE IF n \in Early THEN {<<"Server", n>>} ELSE {}]
  /\ events = 0
  /\ raced = FALSE

ConnectionThreads(s) == ClientReceives(s) \/ ServerReceives(s)

Next ==
  \/ \E n \in Node : AddModule(n) \/ ModuleCreationFailed(n) \/ Create(n) \/ NotificationThread(n)
  \/ \E s \in Session : ConnectToServer(s) \/ Disconnect(s) \/ ConnectionThreads(s)
  \/ PeerChanges

Spec == Init /\ [][Next]_vars

(* CreateModule and the callbacks return, and the threads of the connections and
   of the notifications are scheduled *)
FairSpec ==
  /\ Spec
  /\ \A n \in Node : WF_vars(Create(n)) /\ WF_vars(NotificationThread(n))
  /\ \A s \in Session : WF_vars(ClientReceives(s)) /\ WF_vars(ServerReceives(s))

-----------------------------------------------------------------------------
(* Once no more connections come and go: clients that stay know each other's name,
   unless a list grew between two calls of GetExistingModules, when all names are
   forgotten; and the server has forgotten the name of a client that left, although
   its ClientName may have waited to be handled then. *)
NamesRight ==
  \A s, t \in Session :
    /\ (Up(s) /\ Up(t) /\ ~raced) => t \in m_clientsNameOnClient[s]
    /\ ~Up(s) => s \notin m_clientsNameOnServer

NamesSettle == <>[]NamesRight

(* Once no more connections come and go, the callbacks leave the user with the peers
   there are: a peer that left is not connected, and one that stays is *)
Peers(n) ==
  LET servers == {<<IF n = Server THEN "Client" ELSE "Server", s>> :
                     s \in {x \in Session : Up(x) /\ n \in {x, Server}}}
  IN servers \cup (IF n = PeerOf /\ peer[2] = "up" THEN {<<peer[1]>>} ELSE {})

ViewSettles == <>[](\A n \in Node : view[n] = Peers(n))
=============================================================================
