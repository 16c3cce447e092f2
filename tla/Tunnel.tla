-------------------------------- MODULE Tunnel --------------------------------
(***************************************************************************)
(* Creation of a tunnel between two clients of one server (TunnelModule,   *)
(* ClientSignalHandler, ServerSignalHandler, TunnelConnector and the       *)
(* threads under tunnel_lib/thread).                                       *)
(*                                                                         *)
(* The clients are connected to the server all the time; what each sends   *)
(* arrives in order and is handled by the thread of that connection.  The  *)
(* threads that listen and connect, the user's threads and the managers    *)
(* thread with its 60 second limits run between any two of these steps.    *)
(* How two connections of one pair settle which stays is IPCArbitration;   *)
(* here each may be confirmed or end.                                      *)
(***************************************************************************)
EXTENDS Naturals, Sequences, FiniteSets

CONSTANTS Session,      \* session ids of the clients
          Type,         \* the types users ask for
          Announced,    \* the sets of types clients say they can use
          Silent,       \* the clients that may have said nothing before
          MaxInit,      \* calls of InitNewTunnel, at most
          MaxAnnounce,  \* calls of SetTypeTunnel and SetTunnelAvailableType, at most
          MaxLink       \* tunnel connections at one time, at most

LocalType == {"LOCAL_TCP", "LOCAL_UDP"}
RelayType == {"RELAY_TCP", "RELAY_UDP"}
AllType == LocalType \cup RelayType \cup {"EXTERNAL"}

ASSUME TunnelAssumption ==
  /\ Session # {}
  /\ Type \subseteq AllType \cup {"UNKNOWN"}
  /\ Announced \subseteq SUBSET AllType
  /\ MaxInit \in Nat /\ MaxAnnounce \in Nat /\ MaxLink \in Nat

VARIABLES
  m_typePeers,          \* the type set for a pair, or "UNKNOWN"
  m_avalablePeerTypes,  \* the types a client can use
  m_tunnelsStep,        \* the pairs being negotiated
  m_servers,            \* TunnelServer objects and their threads
  checker,              \* server's CheckTunnels holds m_cs and waits for this server
  toServer, toClient,   \* the connections of the clients with the server
  m_tunnels,            \* TunnelConnect objects of each client
  stale,                \* listen threads of each client that were stopped, still ending
  connecting,           \* connect threads of each client
  link,                 \* tunnel connections
  inits,                \* calls of InitNewTunnel so far
  announces,            \* calls of SetTypeTunnel and SetTunnelAvailableType so far
  started,              \* negotiations so far
  expired,              \* history: CheckTunnels has removed something
  crash                 \* null pointers that were used

peers == <<m_typePeers, m_avalablePeerTypes>>
server == <<peers, m_tunnelsStep, m_servers, checker>>
client == <<m_tunnels, stale, connecting>>
history == <<inits, announces, started, expired>>
vars == <<server, toServer, toClient, client, link, history, crash>>

Pair == {p \in SUBSET Session : Cardinality(p) = 2}
ServerId == (1..MaxInit) \X (RelayType \cup {"EXTERNAL"})
NoId == <<0, "none">>
LinkId == 1..MaxLink

NoTunnel == [on |-> FALSE, listen |-> "none", port |-> 0, udp |-> FALSE,
             ext |-> "none", srv |-> NoId]

(* TunnelConnect::TunnelConnect *)
NewTunnel == [NoTunnel EXCEPT !.on = TRUE]

NoServer == [one |-> CHOOSE s \in Session : TRUE,
             two |-> CHOOSE s \in Session : TRUE, listed |-> FALSE, pc |-> "none",
             made |-> {}, listening |-> {}, addresses |-> {}, connectors |-> {},
             both |-> FALSE]

NoLink == [type |-> "none", srv |-> NoId, end |-> [s \in Session |-> "none"],
           name |-> [s \in Session |-> s]]

(* A TunnelStep is the pair, whichever end asked *)
TunnelStep(s, e) == {s, e}

Ends(i) == {m_servers[i].one, m_servers[i].two}

Message == [kind : {"PeerData"}, ext : Session, type : AllType]
             \cup [kind : {"AvailablePearTypes"}, types : SUBSET AllType]
             \cup [kind : {"InitTunnelRequest", "InitTunnelComplete", "InitTunnelStarted"},
                   ext : Session]
             \cup [kind : {"TryConnectTo"}, ext : Session, type : AllType, port : 0..MaxInit]
             \cup [kind : {"InitTunnel"}, ext : Session, type : AllType,
                   srv : ServerId \cup {NoId}]

(* toMessage of the connector whose m_ownSessionId is s *)
ToClient(q, s, m) == [q EXCEPT ![s] = Append(@, m)]

ToServer(s, m) == toServer' = [toServer EXCEPT ![s] = Append(@, m)]

(* onInitTunnelCompleteSignal, of the client's connector *)
InitTunnelComplete(s, e) == ToServer(s, [kind |-> "InitTunnelComplete", ext |-> e])

(* onInitTunnelStartedSignal, of the server's connector of a client *)
InitTunnelStarted(e) == [kind |-> "InitTunnelStarted", ext |-> e]

(* onTryConnectToMessage, of the server's connector of s: what another one received *)
TryConnectToMessage(s, m) == ToClient(toClient, s, m)

-----------------------------------------------------------------------------
(* Calls of the users *)

(* m_modules holds Tunnel.e *)
Registered(s, e) ==
  \E l \in LinkId : link[l].name[s] = e /\ link[l].end[s] \in {"named", "connected"}

(* TunnelModule::InitNewTunnel; OnTunnelConnectFailed when there is one already *)
InitNewTunnel(s, e, type) ==
  /\ inits < MaxInit
  /\ inits' = inits + 1
  /\ ~Registered(s, e)
  /\ toServer' = [toServer EXCEPT ![s] =
       @ \o (IF type = "UNKNOWN" THEN <<>>
             ELSE <<[kind |-> "PeerData", ext |-> e, type |-> type]>>)
         \o <<[kind |-> "InitTunnelRequest", ext |-> e]>>]
  /\ UNCHANGED <<server, toClient, client, link, announces, started, expired, crash>>

(* TunnelModule::SetTypeTunnel, on the server; a call after the last request would
   change nothing                                                                *)
SetTypeTunnel(p, type) ==
  /\ announces < MaxAnnounce /\ inits < MaxInit
  /\ announces' = announces + 1
  /\ m_typePeers' = [m_typePeers EXCEPT ![p] = type]
  /\ UNCHANGED <<m_avalablePeerTypes, m_tunnelsStep, m_servers, checker, toServer,
                 toClient, client, link, inits, started, expired, crash>>

(* TunnelModule::SetTunnelAvailableType *)
SetTunnelAvailableType(s, types) ==
  /\ announces < MaxAnnounce /\ inits < MaxInit
  /\ announces' = announces + 1
  /\ ToServer(s, [kind |-> "AvailablePearTypes", types |-> types])
  /\ UNCHANGED <<server, toClient, client, link, inits, started, expired, crash>>

-----------------------------------------------------------------------------
(* The server's handlers.  FromClient(s, m): the thread of the connection of s
   takes m.                                                                   *)
FromClient(s, kind) ==
  /\ toServer[s] # <<>>
  /\ Head(toServer[s]).kind = kind
  /\ toServer' = [toServer EXCEPT ![s] = Tail(@)]

OnPeerData(s) ==
  /\ FromClient(s, "PeerData")
  /\ LET m == Head(toServer[s])
     IN  m_typePeers' = [m_typePeers EXCEPT ![{s, m.ext}] = m.type]
  /\ UNCHANGED <<m_avalablePeerTypes, m_tunnelsStep, m_servers, checker, toClient, client,
                 link, history, crash>>

OnAvailablePearTypes(s) ==
  /\ FromClient(s, "AvailablePearTypes")
  /\ m_avalablePeerTypes' = [m_avalablePeerTypes EXCEPT ![s] = Head(toServer[s]).types]
  /\ UNCHANGED <<m_typePeers, m_tunnelsStep, m_servers, checker, toClient, client, link,
                 history, crash>>

(* TunnelModule::CheckTunnelAvailableType; a client that has announced nothing can use every
   type, and Init gives it AllType                                                         *)
CheckTunnelAvailableType(s, type) == type \in m_avalablePeerTypes[s]

(* The types onInitTunnel starts: the one of the pair, or all the TCP ones and
   the external one that both clients can use                                  *)
Chosen(s, e) ==
  LET type == m_typePeers[{s, e}]
  IN  IF type # "UNKNOWN" THEN {type}
      ELSE {t \in {"LOCAL_TCP", "EXTERNAL", "RELAY_TCP"} :
              CheckTunnelAvailableType(s, t) /\ CheckTunnelAvailableType(e, t)}

(* m_servers.insert of a new TunnelServer per type, whose thread starts *)
StartServers(s, e, types) ==
  m_servers' = [i \in ServerId |->
    IF i[1] = started + 1 /\ i[2] \in types
    THEN [NoServer EXCEPT !.one = s, !.two = e, !.listed = TRUE, !.pc = "start"]
    ELSE m_servers[i]]

(* ServerSignalHandler::onInitTunnel *)
OnInitTunnel(s) ==
  /\ FromClient(s, "InitTunnelRequest")
  /\ LET e == Head(toServer[s]).ext
         types == Chosen(s, e)
         local(x) == IF types \cap LocalType = {} THEN <<>>
                     ELSE <<[kind |-> "InitTunnel", ext |-> x, srv |-> NoId,
                             type |-> CHOOSE t \in types \cap LocalType : TRUE]>>
     IN  IF TunnelStep(s, e) \notin m_tunnelsStep
         THEN /\ m_tunnelsStep' = m_tunnelsStep \cup {TunnelStep(s, e)}
              /\ toClient' = [toClient EXCEPT
                   ![s] = @ \o <<InitTunnelStarted(e)>> \o local(e),
                   ![e] = @ \o <<InitTunnelStarted(s)>> \o local(s)]
              /\ StartServers(s, e, types \ LocalType)
              /\ started' = started + 1
         ELSE UNCHANGED <<m_tunnelsStep, toClient, m_servers, started>>
  /\ UNCHANGED <<peers, checker, client, link, inits, announces, expired, crash>>

OnInitTunnelComplete(s) ==
  /\ FromClient(s, "InitTunnelComplete")
  /\ m_tunnelsStep' = m_tunnelsStep \ {TunnelStep(s, Head(toServer[s]).ext)}
  /\ UNCHANGED <<peers, m_servers, checker, toClient, client, link, history, crash>>

(* ClientServerConnector::onMessage(TryConnectTo) on the server: the ends are
   swapped and the connector of the other client sends it                     *)
ForwardTryConnectTo(s) ==
  /\ FromClient(s, "TryConnectTo")
  /\ LET m == Head(toServer[s])
     IN  toClient' = TryConnectToMessage(m.ext, [m EXCEPT !.ext = s])
  /\ UNCHANGED <<server, client, link, history, crash>>

-----------------------------------------------------------------------------
(* The server's threads *)
Server(i, r) == m_servers' = [m_servers EXCEPT ![i] = r]

OtherEnd(i, s) == CHOOSE x \in Ends(i) : x # s

(* RelayListenThread::Stop and ExternalListenThread::Stop: what was created by
   then is stopped                                                             *)
StopRelay(r) == [r EXCEPT !.listening = {}, !.connectors = {}]
StopExternal(r) == [r EXCEPT !.listening = {}]

(* ~TunnelServer and the erase from m_servers *)
DeleteServer(i, r) ==
  IF ~r.listed THEN r
  ELSE [(IF i[2] = "EXTERNAL" THEN StopExternal(r) ELSE StopRelay(r)) EXCEPT !.listed = FALSE]

(* ServerSignalHandler::onErrorRelayListener and onErrorExternalListener *)
OnErrorRelayListener(i, r) == Server(i, DeleteServer(i, r))
OnErrorExternalListener(i, r) == Server(i, DeleteServer(i, r))

(* RelayListenThread::ThreadFunc creates one listen thread after the other *)
RelayListen(i) ==
  /\ i[2] \in RelayType
  /\ \/ /\ m_servers[i].pc = "start"
        /\ Server(i, [m_servers[i] EXCEPT !.pc = "one", !.made = {m_servers[i].one},
                                          !.listening = @ \cup {m_servers[i].one}])
     \/ /\ m_servers[i].pc = "one"
        /\ Server(i, [m_servers[i] EXCEPT !.pc = "address", !.made = Ends(i),
                                          !.listening = @ \cup {m_servers[i].two}])
  /\ UNCHANGED <<peers, m_tunnelsStep, checker, toServer, toClient, client, link, history,
                 crash>>

(* onCreatedListenerMessage: a listen thread that was stopped may still have bound *)
RelayBound(i, s) ==
  /\ i[2] \in RelayType
  /\ s \in m_servers[i].made \ m_servers[i].addresses
  /\ Server(i, [m_servers[i] EXCEPT !.addresses = @ \cup {s}])
  /\ UNCHANGED <<peers, m_tunnelsStep, checker, toServer, toClient, client, link, history,
                 crash>>

(* onListenErrorMessage, SignalError, onErrorRelayListener *)
RelayListenError(i, s) ==
  /\ i[2] \in RelayType
  /\ checker = NoId
  /\ s \in m_servers[i].made \ m_servers[i].addresses
  /\ OnErrorRelayListener(i, [m_servers[i] EXCEPT !.made = @ \ {s}, !.listening = {}])
  /\ UNCHANGED <<peers, m_tunnelsStep, checker, toServer, toClient, client, link, history,
                 crash>>

(* m_addrSemafor: onCreatedRelayTCPListener, onCreatedRelayUDPListener tell each
   client its port                                                              *)
RelayAnnounce(i) ==
  /\ i[2] \in RelayType
  /\ checker = NoId
  /\ m_servers[i].pc = "address"
  /\ m_servers[i].addresses = Ends(i)
  /\ Server(i, [m_servers[i] EXCEPT !.pc = "connect"])
  /\ toClient' = IF ~m_servers[i].listed THEN toClient
                 ELSE [s \in Session |-> IF s \in Ends(i)
                   THEN Append(toClient[s], [kind |-> "InitTunnel", ext |-> OtherEnd(i, s),
                                             type |-> i[2], srv |-> i])
                   ELSE toClient[s]]
  /\ UNCHANGED <<peers, m_tunnelsStep, checker, toServer, client, link, history, crash>>

(* Mutant: the semaphore is set for the first connector *)
AddRelayConnectorFirst(r, s) ==
  [r EXCEPT !.connectors = @ \cup {s}, !.listening = @ \ {s}, !.both = TRUE]

(* RelayListenThread::onAddConnector *)
AddRelayConnector(r, s) ==
  LET conns == r.connectors \cup {s}
  IN  [r EXCEPT !.connectors = conns, !.listening = @ \ {s},
                !.both = @ \/ conns = {r.one, r.two}]

(* m_connectSemafor; the thread takes its m_cs.  A Stop in between has forgotten
   the connectors, which are used all the same                                   *)
RelayPair(i) ==
  /\ i[2] \in RelayType
  /\ m_servers[i].pc = "connect"
  /\ m_servers[i].both
  /\ IF m_servers[i].connectors = Ends(i)
     THEN Server(i, [m_servers[i] EXCEPT !.pc = "pairing"]) /\ UNCHANGED crash
     ELSE Server(i, [m_servers[i] EXCEPT !.pc = "end"]) /\ crash' = crash \cup {"relay"}
  /\ UNCHANGED <<peers, m_tunnelsStep, checker, toServer, toClient, client, link, history>>

(* onAddRelayServerConnector takes the module's m_cs under the thread's: the
   TunnelServerConnector starts both ends with the server flag                  *)
OnAddRelayServerConnector(i) ==
  /\ m_servers[i].pc = "pairing"
  /\ checker = NoId
  /\ Server(i, [m_servers[i] EXCEPT !.pc = "paired", !.listed = FALSE, !.listening = {}])
  /\ UNCHANGED <<peers, m_tunnelsStep, checker, toServer, toClient, client, link, history,
                 crash>>

(* ServerSignalHandler::onCreatedExternalListener tells the client its port *)
OnCreatedExternalListener(i, s) ==
  IF ~m_servers[i].listed THEN toClient
  ELSE ToClient(toClient, s, [kind |-> "InitTunnel", ext |-> OtherEnd(i, s),
                              type |-> "EXTERNAL", srv |-> i])

(* ExternalListenThread::ThreadFunc: a socket and a receiving thread for each end *)
ExternalListen(i) ==
  /\ i[2] = "EXTERNAL"
  /\ checker = NoId
  /\ m_servers[i].pc \in {"start", "one"}
  /\ LET s == IF m_servers[i].pc = "start" THEN m_servers[i].one ELSE m_servers[i].two
     IN  /\ Server(i, [m_servers[i] EXCEPT
               !.pc = IF @ = "start" THEN "one" ELSE "address",
               !.listening = @ \cup {s}])
         /\ toClient' = OnCreatedExternalListener(i, s)
  /\ UNCHANGED <<peers, m_tunnelsStep, checker, toServer, client, link, history, crash>>

(* Bind fails, or a receiving thread does: onListenErrorMessage, SignalError,
   onErrorExternalListener                                                     *)
ExternalListenError(i) ==
  /\ i[2] = "EXTERNAL"
  /\ checker = NoId
  /\ \/ m_servers[i].pc \in {"start", "one"}
     \/ m_servers[i].listening # {}
  /\ OnErrorExternalListener(i, [m_servers[i] EXCEPT
       !.pc = IF @ \in {"start", "one"} THEN "end" ELSE @, !.listening = {}])
  /\ UNCHANGED <<peers, m_tunnelsStep, checker, toServer, toClient, client, link, history,
                 crash>>

(* ExternalListenThread::onCreatedListenerMessage: the address of one end *)
ExternalAddress(i, s) == Server(i, [m_servers[i] EXCEPT !.addresses = @ \cup {s}])

(* m_semafor: onGotExternalAddress tells each client the address of the other *)
GotExternalAddresses(i) ==
  /\ i[2] = "EXTERNAL"
  /\ checker = NoId
  /\ m_servers[i].pc = "address"
  /\ m_servers[i].addresses = Ends(i)
  /\ Server(i, [m_servers[i] EXCEPT !.pc = "end"])
  /\ toClient' = IF ~m_servers[i].listed THEN toClient
                 ELSE [s \in Session |-> IF s \in Ends(i)
                   THEN Append(toClient[s], [kind |-> "TryConnectTo", ext |-> OtherEnd(i, s),
                                             type |-> "EXTERNAL", port |-> 0])
                   ELSE toClient[s]]
  /\ UNCHANGED <<peers, m_tunnelsStep, checker, toServer, client, link, history, crash>>

-----------------------------------------------------------------------------
(* The clients' handlers *)
FromServer(s, kind) ==
  /\ toClient[s] # <<>>
  /\ Head(toClient[s]).kind = kind
  /\ toClient' = [toClient EXCEPT ![s] = Tail(@)]

Tunnel(s, e, t) == m_tunnels' = [m_tunnels EXCEPT ![s][e] = t]

OnInitTunnelStarted(s) ==
  /\ FromServer(s, "InitTunnelStarted")
  /\ LET e == Head(toClient[s]).ext
     IN  Tunnel(s, e, IF m_tunnels[s][e].on THEN m_tunnels[s][e] ELSE NewTunnel)
  /\ UNCHANGED <<server, toServer, stale, connecting, link, history, crash>>

(* Stop of the listen thread of a TunnelConnect: one that has not bound its socket
   goes on until it has tried                                                      *)
StopListen(s, e) ==
  stale' = [stale EXCEPT ![s][e] = IF m_tunnels[s][e].listen = "run" THEN @ + 1 ELSE @]

InitMsg(s, types) ==
  /\ FromServer(s, "InitTunnel")
  /\ Head(toClient[s]).type \in types
  /\ UNCHANGED <<server, link, history, crash>>

(* A message about a tunnel that has no TunnelConnect (any more) *)
NotFound(s) ==
  /\ InitMsg(s, AllType)
  /\ ~m_tunnels[s][Head(toClient[s]).ext].on
  /\ UNCHANGED <<toServer, client>>

CreateLocalListenThread(s) ==
  /\ InitMsg(s, {"LOCAL_TCP"})
  /\ LET e == Head(toClient[s]).ext
     IN  /\ m_tunnels[s][e].on
         /\ StopListen(s, e)
         /\ Tunnel(s, e, [m_tunnels[s][e] EXCEPT !.listen = "run", !.port = started])
  /\ UNCHANGED <<toServer, connecting>>

(* The socket is bound and its port sent, or Bind fails and it is kept *)
CreateLocalUDPSocket(s) ==
  /\ InitMsg(s, {"LOCAL_UDP"})
  /\ LET e == Head(toClient[s]).ext
     IN  /\ m_tunnels[s][e].on
         /\ Tunnel(s, e, [m_tunnels[s][e] EXCEPT !.udp = TRUE])
         /\ \/ ToServer(s, [kind |-> "TryConnectTo", ext |-> e, type |-> "LOCAL_UDP",
                            port |-> 0])
            \/ UNCHANGED toServer
  /\ UNCHANGED <<stale, connecting>>

InitExternalConnectThread(s) ==
  /\ InitMsg(s, {"EXTERNAL"})
  /\ LET m == Head(toClient[s])
     IN  /\ m_tunnels[s][m.ext].on
         /\ Tunnel(s, m.ext, [m_tunnels[s][m.ext] EXCEPT !.ext = "probe", !.srv = m.srv])
  /\ UNCHANGED <<toServer, stale, connecting>>

ConnectThread(s, e, type, port, i) ==
  connecting' = [connecting EXCEPT ![s] =
    @ \cup {[ext |-> e, type |-> type, port |-> port, srv |-> i, at |-> started]}]

CreateRelayConnectThread(s) ==
  /\ InitMsg(s, RelayType)
  /\ LET m == Head(toClient[s])
     IN  /\ m_tunnels[s][m.ext].on
         /\ ConnectThread(s, m.ext, m.type, 0, m.srv)
  /\ UNCHANGED <<toServer, m_tunnels, stale>>

(* CreateLocalConnectThread; over UDP it uses the socket of the TunnelConnect *)
CreateLocalConnectThread(s, e, type, port) ==
  /\ IF type = "LOCAL_UDP" /\ ~m_tunnels[s][e].udp
     THEN crash' = crash \cup {"udp"} /\ UNCHANGED connecting
     ELSE ConnectThread(s, e, type, port, NoId) /\ UNCHANGED crash
  /\ UNCHANGED m_tunnels

(* ExternalConnectThread::ChangeConnectAddress wakes the thread if it still waits *)
ChangeConnectAddress(s, e) ==
  /\ Tunnel(s, e, [m_tunnels[s][e] EXCEPT !.ext = IF @ = "probe" THEN "connect" ELSE @])
  /\ IF m_tunnels[s][e].ext = "probe"
     THEN ConnectThread(s, e, "EXTERNAL", 0, NoId) ELSE UNCHANGED connecting

(* CreateExternalConnectThread uses the thread of the TunnelConnect without asking *)
CreateExternalConnectThread(s, e) ==
  IF m_tunnels[s][e].ext = "none"
  THEN crash' = crash \cup {"external"} /\ UNCHANGED <<m_tunnels, connecting>>
  ELSE ChangeConnectAddress(s, e) /\ UNCHANGED crash

OnTryConnectTo(s) ==
  /\ FromServer(s, "TryConnectTo")
  /\ LET m == Head(toClient[s])
     IN  IF ~m_tunnels[s][m.ext].on THEN UNCHANGED <<m_tunnels, connecting, crash>>
         ELSE IF m.type = "EXTERNAL" THEN CreateExternalConnectThread(s, m.ext)
         ELSE CreateLocalConnectThread(s, m.ext, m.type, m.port)
  /\ UNCHANGED <<server, toServer, stale, link, history>>

-----------------------------------------------------------------------------
(* The clients' threads *)

(* onCreatedLocalListener, on the thread of a TunnelConnect or on a stopped one *)
ListenBound(s, e) ==
  /\ \/ /\ m_tunnels[s][e].listen = "run"
        /\ Tunnel(s, e, [m_tunnels[s][e] EXCEPT !.listen = "listening"])
        /\ ToServer(s, [kind |-> "TryConnectTo", ext |-> e, type |-> "LOCAL_TCP",
                        port |-> m_tunnels[s][e].port])
        /\ UNCHANGED stale
     \/ /\ stale[s][e] > 0
        /\ stale' = [stale EXCEPT ![s][e] = @ - 1]
        /\ ToServer(s, [kind |-> "TryConnectTo", ext |-> e, type |-> "LOCAL_TCP", port |-> 0])
        /\ UNCHANGED m_tunnels
  /\ UNCHANGED <<server, toClient, connecting, link, history, crash>>

(* onErrorLocalListener looks the TunnelConnect up by the session only: the error
   of a stopped thread stops the thread that took its place                       *)
OnErrorLocalListener(s, e) ==
  /\ \/ /\ m_tunnels[s][e].listen = "run"
        /\ Tunnel(s, e, [m_tunnels[s][e] EXCEPT !.listen = "none"])
        /\ UNCHANGED <<stale, crash>>
     \/ /\ stale[s][e] > 0
        /\ stale' = [stale EXCEPT ![s][e] =
                       IF m_tunnels[s][e].listen = "run" THEN @ ELSE @ - 1]
        /\ Tunnel(s, e, [m_tunnels[s][e] EXCEPT !.listen = "none"])
        /\ crash' = IF m_tunnels[s][e].on /\ m_tunnels[s][e].listen = "none"
                    THEN crash \cup {"listen"} ELSE crash
  /\ UNCHANGED <<server, toServer, toClient, connecting, link, history>>

(* ExternalConnectThread::ThreadFunc sends its session id to the server, whose
   ExternalRecvThread learns the address; datagrams may be lost                  *)
ExternalProbe(s, e) ==
  LET i == m_tunnels[s][e].srv
  IN  /\ m_tunnels[s][e].ext = "probe"
      /\ s \in m_servers[i].listening
      /\ ExternalAddress(i, s)
      /\ UNCHANGED <<peers, m_tunnelsStep, checker, toServer, toClient, client, link,
                     history, crash>>

(* Its Wait(1000), or Send, fails: SignalError names this client's own session,
   for which there is no TunnelConnect                                           *)
ExternalProbeFails(s, e) ==
  /\ m_tunnels[s][e].ext = "probe"
  /\ Tunnel(s, e, [m_tunnels[s][e] EXCEPT !.ext = "ended"])
  /\ UNCHANGED <<server, toServer, toClient, stale, connecting, link, history, crash>>

EndConnecting(q, s, c) == [q EXCEPT ![s] = @ \ {c}]

FreeLink(l) == link[l] = NoLink

NewLink(l, c, s) ==
  link' = [link EXCEPT ![l] = [NoLink EXCEPT !.type = c.type, !.srv = c.srv,
             !.end = [x \in Session |-> IF x \in {s, c.ext} THEN "made" ELSE "none"]]]

(* The listen thread of the other client accepts once and ends *)
ConnectLocalTCP(s, c, l) ==
  /\ c.type = "LOCAL_TCP"
  /\ FreeLink(l)
  /\ m_tunnels[c.ext][s].listen = "listening"
  /\ m_tunnels[c.ext][s].port = c.port
  /\ Tunnel(c.ext, s, [m_tunnels[c.ext][s] EXCEPT !.listen = "ended"])
  /\ NewLink(l, c, s)
  /\ connecting' = EndConnecting(connecting, s, c)
  /\ UNCHANGED <<server, toServer, toClient, stale, history, crash>>

(* UDT, both ends connect at the same time *)
ConnectUDT(s, c, d, l) ==
  /\ c.type \in {"LOCAL_UDP", "EXTERNAL"}
  /\ d \in connecting[c.ext]
  /\ d.ext = s /\ d.type = c.type
  /\ FreeLink(l)
  /\ NewLink(l, c, s)
  /\ connecting' = EndConnecting(EndConnecting(connecting, s, c), c.ext, d)
  /\ UNCHANGED <<server, toServer, toClient, m_tunnels, stale, history, crash>>

(* The relay's listen thread for this client accepts; one link stands for both
   halves                                                                        *)
ConnectRelay(s, c, l) ==
  /\ c.type \in RelayType
  /\ s \in m_servers[c.srv].listening \cap m_servers[c.srv].addresses
  /\ IF \E k \in LinkId : link[k].srv = c.srv
     THEN /\ link[l].srv = c.srv
          /\ link' = [link EXCEPT ![l].end[s] = "made"]
     ELSE /\ FreeLink(l)
          /\ link' = [link EXCEPT ![l] = [NoLink EXCEPT !.type = c.type, !.srv = c.srv,
                                                        !.end[s] = "made"]]
  /\ Server(c.srv, AddRelayConnector(m_servers[c.srv], s))
  /\ connecting' = EndConnecting(connecting, s, c)
  /\ UNCHANGED <<peers, m_tunnelsStep, checker, toServer, toClient, m_tunnels, stale,
                 history, crash>>

(* onErrorLocalTCPConnect and onErrorLocalUDPConnect only log *)
OnErrorLocalConnect(s, c) ==
  /\ c.type \in LocalType
  /\ connecting' = EndConnecting(connecting, s, c)
  /\ UNCHANGED <<server, toServer, toClient, m_tunnels, stale, link, history, crash>>

(* so do onErrorRelayTCPConnect and onErrorRelayUDPConnect *)
OnErrorRelayConnect(s, c) ==
  /\ c.type \in RelayType
  /\ connecting' = EndConnecting(connecting, s, c)
  /\ UNCHANGED <<server, toServer, toClient, m_tunnels, stale, link, history, crash>>

(* onErrorExternalConnect gives up the thread of the TunnelConnect *)
OnErrorExternalConnect(s, c) ==
  /\ c.type = "EXTERNAL"
  /\ connecting' = EndConnecting(connecting, s, c)
  /\ Tunnel(s, c.ext, [m_tunnels[s][c.ext] EXCEPT !.ext = "none"])
  /\ UNCHANGED <<server, toServer, toClient, stale, link, history, crash>>

-----------------------------------------------------------------------------
(* The tunnel connections *)
Up == {"new", "named", "connected"}

(* TunnelModule::OnNewConnector and TunnelConnector::OnStart, which sends ModuleName *)
OnAddConnector(s, l) ==
  /\ link[l].end[s] = "made"
  /\ link' = [link EXCEPT ![l].end[s] = "new"]
  /\ UNCHANGED <<server, toServer, toClient, stale, connecting, history, crash>>

OnAddLocalTCPConnector(s, l) ==
  /\ link[l].type = "LOCAL_TCP"
  /\ OnAddConnector(s, l)
  /\ UNCHANGED m_tunnels

OnAddRelayConnector(s, l) ==
  /\ link[l].type \in RelayType
  /\ OnAddConnector(s, l)
  /\ UNCHANGED m_tunnels

(* The socket of the TunnelConnect is the connector's now *)
OnAddLocalUDPConnector(s, l) ==
  /\ link[l].type = "LOCAL_UDP"
  /\ OnAddConnector(s, l)
  /\ m_tunnels' = [m_tunnels EXCEPT ![s] = [e \in Session |->
       IF link[l].end[e] # "none" /\ e # s
       THEN [m_tunnels[s][e] EXCEPT !.udp = FALSE] ELSE m_tunnels[s][e]]]

OnAddExternalConnector(s, l) ==
  /\ link[l].type = "EXTERNAL"
  /\ OnAddConnector(s, l)
  /\ UNCHANGED m_tunnels

(* Mutant: back to the connector it came from *)
RelayToSender(i, x) == x

(* TunnelServerConnector::onModuleName, onModuleState: to the other connector *)
RelayTo(i, x) == IF x = m_servers[i].one THEN m_servers[i].two ELSE m_servers[i].one

(* Who gets what x sends on the link: a connector with m_isServer hands it to the
   TunnelServerConnector, any other one handles it                               *)
Receiver(l, x) ==
  IF link[l].srv = NoId THEN CHOOSE s \in Session : s # x /\ link[l].end[s] # "none"
  ELSE RelayTo(link[l].srv, x)

Relayed(l) == link[l].srv # NoId => m_servers[link[l].srv].pc = "paired"

(* Mutant: the entry stays *)
DeleteTunnelKeep(s, e) == StopListen(s, e) /\ Tunnel(s, e, NewTunnel)

(* ~TunnelConnect and the erase from m_tunnels *)
DeleteTunnel(s, e) ==
  /\ StopListen(s, e)
  /\ Tunnel(s, e, NoTunnel)

(* Mutant: the tunnel is looked up under this client's own session *)
HostNameOwn(s, x) == s

(* The session in the ModuleName that s receives from x *)
HostName(s, x) == x

(* ClientSignalHandler::onModuleName *)
OnModuleName(s, l, x) ==
  /\ link[l].end[s] = "new"
  /\ link[l].end[x] \in Up
  /\ Relayed(l)
  /\ Receiver(l, x) = s
  /\ link' = [link EXCEPT ![l].end[s] = "named", ![l].name[s] = x]
  /\ DeleteTunnel(s, HostName(s, x))
  /\ UNCHANGED <<server, toServer, toClient, connecting, history, crash>>

(* TunnelConnector::OnConnected *)
SetConnected(s, l) == link' = [link EXCEPT ![l].end[s] = "connected"]

(* The ModuleState of the other end confirms; ClientSignalHandler::onConnected *)
OnConnected(s, l) ==
  /\ link[l].end[s] = "named"
  /\ link[l].end[link[l].name[s]] \in {"named", "connected"}
  /\ SetConnected(s, l)
  /\ InitTunnelComplete(s, link[l].name[s])
  /\ UNCHANGED <<server, toClient, client, history, crash>>

(* A connection ends: it breaks, it is refused, its checker or the user stops it,
   or the other end or half of the relay has ended                                *)
ConnectionEnds(l) ==
  /\ \E s \in Session : link[l].end[s] \in Up
  /\ link' = [link EXCEPT ![l] = NoLink]
  /\ UNCHANGED <<server, toServer, toClient, client, history, crash>>

(* TunnelModule::DestroyTunnel, given the name of the connector, "Tunnel." and the
   session: StopConnection of what has it                                         *)
DestroyTunnel(s, e) ==
  /\ Registered(s, e)
  /\ link' = [l \in LinkId |-> IF link[l].name[s] = e /\ link[l].end[s] \in {"named", "connected"}
                             THEN NoLink ELSE link[l]]
  /\ UNCHANGED <<server, toServer, toClient, client, history, crash>>

-----------------------------------------------------------------------------
(* TunnelCheckerThread: TunnelModule::CheckTunnels, entries older than 60 s *)
CheckTunnels(s, e) ==
  /\ m_tunnels[s][e].on
  /\ DeleteTunnel(s, e)
  /\ expired' = TRUE
  /\ UNCHANGED <<server, toServer, toClient, connecting, link, inits, announces, started,
                 crash>>

(* ~TunnelServer calls Stop, which takes the thread's m_cs, under the module's *)
CheckServers(i) ==
  /\ checker = NoId
  /\ m_servers[i].listed
  /\ IF m_servers[i].pc = "pairing"
     THEN checker' = i /\ UNCHANGED m_servers
     ELSE Server(i, DeleteServer(i, m_servers[i])) /\ UNCHANGED checker
  /\ expired' = TRUE
  /\ UNCHANGED <<peers, m_tunnelsStep, toServer, toClient, client, link, inits, announces,
                 started, crash>>

(* Mutant: the step is removed from the copy of the list *)
CheckStepsCopy(p) ==
  /\ checker = NoId
  /\ p \in m_tunnelsStep
  /\ expired' = TRUE
  /\ UNCHANGED <<server, toServer, toClient, client, link, inits, announces, started, crash>>

CheckSteps(p) ==
  /\ checker = NoId
  /\ p \in m_tunnelsStep
  /\ m_tunnelsStep' = m_tunnelsStep \ {p}
  /\ expired' = TRUE
  /\ UNCHANGED <<peers, m_servers, checker, toServer, toClient, client, link, inits,
                 announces, started, crash>>

-----------------------------------------------------------------------------
Init ==
  /\ m_typePeers = [p \in Pair |-> "UNKNOWN"]
  /\ m_avalablePeerTypes \in {types \in [Session -> Announced \cup {AllType}] :
                               \A s \in Session \ Silent : types[s] \in Announced}
  /\ m_tunnelsStep = {}
  /\ m_servers = [i \in ServerId |-> NoServer]
  /\ checker = NoId
  /\ toServer = [s \in Session |-> <<>>]
  /\ toClient = [s \in Session |-> <<>>]
  /\ m_tunnels = [s \in Session |-> [e \in Session |-> NoTunnel]]
  /\ stale = [s \in Session |-> [e \in Session |-> 0]]
  /\ connecting = [s \in Session |-> {}]
  /\ link = [l \in LinkId |-> NoLink]
  /\ inits = 0
  /\ announces = 0
  /\ started = 0
  /\ expired = FALSE
  /\ crash = {}

User ==
  \/ \E s, e \in Session, t \in Type : s # e /\ InitNewTunnel(s, e, t)
  \/ \E s, e \in Session : DestroyTunnel(s, e)

UserTypes ==
  \/ \E p \in Pair, t \in Type : SetTypeTunnel(p, t)
  \/ \E s \in Session, types \in Announced : SetTunnelAvailableType(s, types)

ServerHandler(s) ==
  OnPeerData(s) \/ OnAvailablePearTypes(s) \/ OnInitTunnel(s) \/ OnInitTunnelComplete(s)
    \/ ForwardTryConnectTo(s)

ServerThread(i) ==
  \/ RelayListen(i) \/ RelayAnnounce(i) \/ RelayPair(i) \/ OnAddRelayServerConnector(i)
  \/ ExternalListen(i) \/ ExternalListenError(i) \/ GotExternalAddresses(i)
  \/ \E s \in Session : RelayBound(i, s) \/ RelayListenError(i, s)

ClientHandler(s) ==
  \/ OnInitTunnelStarted(s) \/ NotFound(s) \/ CreateLocalListenThread(s)
  \/ CreateLocalUDPSocket(s) \/ InitExternalConnectThread(s)
  \/ CreateRelayConnectThread(s) \/ OnTryConnectTo(s)

ClientThread(s) ==
  \/ \E e \in Session : ListenBound(s, e) \/ OnErrorLocalListener(s, e)
                          \/ ExternalProbe(s, e) \/ ExternalProbeFails(s, e)
  \/ \E c \in connecting[s] :
       \/ OnErrorLocalConnect(s, c) \/ OnErrorRelayConnect(s, c) \/ OnErrorExternalConnect(s, c)
       \/ \E l \in LinkId : ConnectLocalTCP(s, c, l) \/ ConnectRelay(s, c, l)
                              \/ \E d \in connecting[c.ext] : ConnectUDT(s, c, d, l)

LinkStep(l) ==
  \/ ConnectionEnds(l)
  \/ \E s \in Session : OnAddLocalTCPConnector(s, l) \/ OnAddLocalUDPConnector(s, l)
                          \/ OnAddRelayConnector(s, l)
                          \/ OnAddExternalConnector(s, l) \/ OnConnected(s, l)
                          \/ \E x \in Session : OnModuleName(s, l, x)

Checker ==
  \/ \E s, e \in Session : CheckTunnels(s, e)
  \/ \E i \in ServerId : CheckServers(i)
  \/ \E p \in Pair : CheckSteps(p)

Next ==
  \/ User \/ UserTypes \/ Checker
  \/ \E s \in Session : ServerHandler(s) \/ ClientHandler(s) \/ ClientThread(s)
  \/ \E i \in ServerId : ServerThread(i)
  \/ \E l \in LinkId : LinkStep(l)

Spec == Init /\ [][Next]_vars

(* Time passes and the managers threads go on; users, peers and the network owe
   nothing                                                                        *)
FairSpec ==
  /\ Spec
  /\ \A s, e \in Session : WF_vars(CheckTunnels(s, e))
  /\ \A i \in ServerId : WF_vars(CheckServers(i))
  /\ \A p \in Pair : WF_vars(CheckSteps(p))

-----------------------------------------------------------------------------
TunnelRecord == [on : BOOLEAN, listen : {"none", "run", "listening", "ended"},
                 port : 0..MaxInit, udp : BOOLEAN,
                 ext : {"none", "probe", "connect", "ended"}, srv : ServerId \cup {NoId}]

ServerRecord == [one : Session, two : Session, listed : BOOLEAN,
                 pc : {"none", "start", "one", "address", "connect", "pairing", "paired",
                       "end"},
                 made : SUBSET Session, listening : SUBSET Session,
                 addresses : SUBSET Session, connectors : SUBSET Session, both : BOOLEAN]

LinkRecord == [type : AllType \cup {"none"}, srv : ServerId \cup {NoId},
               end : [Session -> Up \cup {"none", "made"}], name : [Session -> Session]]

TypeOK ==
  /\ m_typePeers \in [Pair -> AllType \cup {"UNKNOWN"}]
  /\ m_avalablePeerTypes \in [Session -> SUBSET AllType]
  /\ m_tunnelsStep \subseteq Pair
  /\ m_servers \in [ServerId -> ServerRecord]
  /\ checker \in ServerId \cup {NoId}
  /\ toServer \in [Session -> Seq(Message)]
  /\ toClient \in [Session -> Seq(Message)]
  /\ m_tunnels \in [Session -> [Session -> TunnelRecord]]
  /\ stale \in [Session -> [Session -> 0..MaxInit]]
  /\ connecting \in [Session -> SUBSET [ext : Session, type : AllType, port : 0..MaxInit,
                                        srv : ServerId \cup {NoId}, at : 0..MaxInit]]
  /\ link \in [LinkId -> LinkRecord]
  /\ inits \in 0..MaxInit /\ announces \in 0..MaxAnnounce /\ started \in 0..MaxInit
  /\ expired \in BOOLEAN
  /\ crash \subseteq {"listen", "udp", "external", "relay"}

(* Whatever carries a tunnel, a direct connection or the two halves the server
   forwards between, each end learns the name of the other client and not its own *)
EndsNameEachOther ==
  \A l \in LinkId : \A s \in Session :
    link[l].end[s] \in {"named", "connected"} =>
      link[l].name[s] # s /\ link[l].end[link[l].name[s]] \in Up

(* An established tunnel has no TunnelConnect left, which CheckTunnels would report
   as a failed creation a minute later, unless the pair was negotiated again        *)
ConnectedIsForgotten ==
  \A l \in LinkId, s \in Session :
    (link[l].end[s] = "connected" /\ started = 1) => ~m_tunnels[s][link[l].name[s]].on

(* The threads and sockets the handlers use without asking exist (the waiting
   external thread, the UDP socket, both connectors of a relay, the listen thread
   that failed), in every order of messages, threads and errors of one negotiation;
   only the expiry of an entry, or a second negotiation, takes them away.  And the
   state is well typed.                                                             *)
PointersHold ==
  /\ TypeOK
  /\ crash # {} => expired \/ started > 1

(* A negotiation does not block its pair for ever: the step leaves the list with
   the tunnel or with time, unless the managers thread and a relay thread wait for
   each other's locks                                                               *)
StepLeaves ==
  \A p \in Pair : (p \in m_tunnelsStep) ~> (p \notin m_tunnelsStep \/ checker # NoId)

(* A TunnelConnect, with its threads, does not stay: a tunnel replaces it or
   OnTunnelConnectFailed reports it                                                 *)
TunnelConnectEnds ==
  \A s, e \in Session : m_tunnels[s][e].on ~> ~m_tunnels[s][e].on
=============================================================================
