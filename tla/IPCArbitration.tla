---------------------------- MODULE IPCArbitration ----------------------------
(***************************************************************************)
(* Two ordinary modules that may connect to each other at the same time:   *)
(* both ends of every connection, from ConnectTo to the verdict of         *)
(* IPCHandler::onMessage(ModuleState) on which of two crossing connections *)
(* is closed.                                                              *)
(*                                                                         *)
(* An end of a connection is a connector.  It is added by a ConnectThread  *)
(* or by the ListenThread of its module (AddConnection: three lock regions,*)
(* see apc) while its own thread already runs (see pc).  inbox is the TCP  *)
(* stream to an end; what is unread when the other end closes may be lost. *)
(*                                                                         *)
(* IPCModule has the rest of the registry: failed attempts, the            *)
(* coordinator, peers that drop their connections.                         *)
(***************************************************************************)
EXTENDS Naturals, Sequences

CONSTANTS Conn, Node, Nobody,
          Draws         \* the values CreateGUID may give the connectors

ASSUME NodeAssumption ==
  /\ \E a, b \in Node : a # b /\ Node = {a, b}
  /\ Nobody \notin Node

End == Conn \X Node

ASSUME DrawsAssumption ==
  \A f \in Draws : f \in [End -> Nat] /\ \A d, e \in End : d # e => f[d] # f[e]

Other(n) == CHOOSE m \in Node : m # n
Peer(e) == <<e[1], Other(e[2])>>

VARIABLES
  initiator,            \* who opened each connection
  m_rand,               \* the GUID every connector draws when it is made
  apc,                  \* how far AddConnection is for each end
  pc,                   \* where each end's thread is
  m_open,               \* the end's socket has not been closed by its Stop
  inbox,
  m_named,              \* m_id is the other module's name
  subs,                 \* the siblings subscribed to the end's ipc signal
  m_isExist, m_bConnected,
  m_modules,            \* the nodes that list the other one as connected
  m_connectors,         \* of each node: the ends registered for the other one
  m_tryConnectCounters, \* the nodes with a counter for the other one
  removing              \* the nodes whose managers thread is about to remove it

sockets == <<m_open, inbox>>
connectors == <<pc, m_named, subs, m_isExist, m_bConnected>>
registry == <<m_modules, m_connectors, m_tryConnectCounters, removing>>
arbitrationVars == <<initiator, m_rand, apc, sockets, connectors, registry>>

ModuleName == [type |-> "ModuleName"]
ModuleState(exist, rndval) == [type |-> "ModuleState", exist |-> exist, rndval |-> rndval]

-----------------------------------------------------------------------------
(* IPCModule::ConnectTo, the ConnectThread and the ListenThread               *)

Connect(n, k) ==
  /\ initiator[k] = Nobody
  /\ n \notin m_tryConnectCounters
  /\ n \notin m_modules
  /\ initiator' = [initiator EXCEPT ![k] = n]
  /\ m_tryConnectCounters' = m_tryConnectCounters \cup {n}
  /\ apc' = [apc EXCEPT ![<<k, n>>] = "subscribe"]
  /\ m_named' = [m_named EXCEPT ![<<k, n>>] = TRUE]
  /\ UNCHANGED <<m_rand, sockets, pc, subs, m_isExist, m_bConnected, m_modules,
                 m_connectors, removing>>

(* ConnectorManager::AddConnection.  The new connector and those on the list
   subscribe to each other; it is started; it is put on the list.  The
   ListenThread does this for one connector after the other.                 *)
Listed(n) == {e \in End : e[2] = n /\ apc[e] = "listed" /\ pc[e] # "reaped"}

Accepting(n) == {k \in Conn : /\ initiator[k] = Other(n)
                              /\ apc[<<k, n>>] \notin {"free", "listed"}}

SubscribeConnector(e) ==
  /\ \/ apc[e] = "subscribe"
     \/ initiator[e[1]] = Other(e[2]) /\ apc[e] = "free" /\ Accepting(e[2]) = {}
  /\ apc' = [apc EXCEPT ![e] = "start"]
  /\ subs' = [d \in End |-> CASE d = e -> Listed(e[2])
                              [] d \in Listed(e[2]) -> subs[d] \cup {e}
                              [] OTHER -> subs[d]]
  /\ UNCHANGED <<initiator, m_rand, sockets, pc, m_named, m_isExist, m_bConnected,
                 registry>>

(* Thread::Start, with the thread's OnStart, which sends ModuleName *)
Start(e) ==
  /\ apc[e] = "start"
  /\ apc' = [apc EXCEPT ![e] = "list"]
  /\ pc' = [pc EXCEPT ![e] = "loop"]
  /\ inbox' = [inbox EXCEPT ![Peer(e)] = Append(@, ModuleName)]
  /\ UNCHANGED <<initiator, m_rand, m_open, m_named, subs, m_isExist, m_bConnected,
                 registry>>

AddObject(e) ==
  /\ apc[e] = "list"
  /\ apc' = [apc EXCEPT ![e] = "listed"]
  /\ UNCHANGED <<initiator, m_rand, sockets, connectors, registry>>

-----------------------------------------------------------------------------
(* An end's thread                                                           *)

(* Connector::Stop *)
Stop(e) == m_open' = [m_open EXCEPT ![e] = FALSE]

(* Recv returns the next message of the expected kind *)
Receive(e, type) ==
  /\ m_open[e]
  /\ inbox[e] # <<>>
  /\ Head(inbox[e]).type = type

(* onMessage(ModuleName) up to AddObject in IPCSignalHandler::onModuleName *)
BeginModuleName(e) ==
  /\ pc[e] = "loop"
  /\ Receive(e, "ModuleName")
  /\ inbox' = [inbox EXCEPT ![e] = Tail(@)]
  /\ pc' = [pc EXCEPT ![e] = "push"]
  /\ m_named' = [m_named EXCEPT ![e] = TRUE]
  /\ m_isExist' = [m_isExist EXCEPT ![e] = e[2] \in m_modules]
  /\ m_modules' = m_modules \cup {e[2]}
  /\ UNCHANGED <<initiator, m_rand, apc, m_open, subs, m_bConnected, m_connectors,
                 m_tryConnectCounters, removing>>

(* Mutant: every connection is reported as a duplicate *)
FinishModuleNameExist(e) ==
  /\ pc[e] = "push"
  /\ pc' = [pc EXCEPT ![e] = "named"]
  /\ m_connectors' = [m_connectors EXCEPT ![e[2]] = @ \cup {e}]
  /\ m_tryConnectCounters' = m_tryConnectCounters \ {e[2]}
  /\ inbox' = [inbox EXCEPT ![Peer(e)] = Append(@, ModuleState(TRUE, m_rand[e]))]
  /\ m_bConnected' = [m_bConnected EXCEPT ![e] = ~m_isExist[e]]
  /\ UNCHANGED <<initiator, m_rand, apc, m_open, m_named, subs, m_isExist, m_modules,
                 removing>>

(* The other regions of onModuleName; then ModuleState is sent and, for a new
   name, OnConnected runs                                                    *)
FinishModuleName(e) ==
  /\ pc[e] = "push"
  /\ pc' = [pc EXCEPT ![e] = "named"]
  /\ m_connectors' = [m_connectors EXCEPT ![e[2]] = @ \cup {e}]
  /\ m_tryConnectCounters' = m_tryConnectCounters \ {e[2]}
  /\ inbox' = [inbox EXCEPT ![Peer(e)] =
                 Append(@, ModuleState(m_isExist[e], m_rand[e]))]
  /\ m_bConnected' = [m_bConnected EXCEPT ![e] = ~m_isExist[e]]
  /\ UNCHANGED <<initiator, m_rand, apc, m_open, m_named, subs, m_isExist, m_modules,
                 removing>>

(* onModuleStateMessage of the subscribed siblings that go by the same name: the
   query comes back with the smallest of the peer's value and theirs         *)
Siblings(e) == {d \in subs[e] : m_named[d]}

(* Mutant: the siblings' values replace the peer's *)
LargerBySibling(e, rndval) == \E d \in Siblings(e) : m_rand[e] > m_rand[d]

(* m_rand is larger than that smallest value; two GUIDs are never equal *)
Larger(e, rndval) ==
  m_rand[e] > rndval \/ \E d \in Siblings(e) : m_rand[e] > m_rand[d]

(* IPCHandler::onMessage(ModuleState) *)
OnModuleState(e) ==
  /\ pc[e] = "named"
  /\ Receive(e, "ModuleState")
  /\ inbox' = [inbox EXCEPT ![e] = Tail(@)]
  /\ pc' = [pc EXCEPT ![e] = "settled"]
  /\ LET msg == Head(inbox[e])
         stop == \/ m_isExist[e]
                 \/ Siblings(e) = {}
                 \/ Larger(e, msg.rndval)
     IN  /\ IF msg.exist /\ stop THEN Stop(e) ELSE UNCHANGED m_open
         /\ m_bConnected' = [m_bConnected EXCEPT ![e] = @ \/ (msg.exist /\ ~stop)]
  /\ UNCHANGED <<initiator, m_rand, apc, m_named, subs, m_isExist, registry>>

(* Recv fails, for this end or the other one is closed, and the thread ends *)
OnStop(e) ==
  /\ pc[e] \in {"loop", "named", "settled"}
  /\ ~m_open[e] \/ ~m_open[Peer(e)]
  /\ pc' = [pc EXCEPT ![e] = "stopped"]
  /\ m_bConnected' = [m_bConnected EXCEPT ![e] = FALSE]
  /\ UNCHANGED <<initiator, m_rand, apc, sockets, m_named, subs, m_isExist, registry>>

-----------------------------------------------------------------------------
(* The managers thread of a module                                           *)

(* ConnectorManager::ManagerFunc takes a stopped connector off the list;
   onDisconnected erases it from m_connectors                                *)
OnDisconnected(e) ==
  LET n == e[2] IN
  /\ n \notin removing
  /\ e \in Listed(n)
  /\ pc[e] = "stopped"
  /\ pc' = [pc EXCEPT ![e] = "reaped"]
  /\ m_connectors' = [m_connectors EXCEPT ![n] = @ \ {e}]
  /\ removing' = IF m_named[e] /\ m_connectors[n] # {} /\ m_connectors[n] \subseteq {e}
                 THEN removing \cup {n} ELSE removing
  /\ UNCHANGED <<initiator, m_rand, apc, sockets, m_named, subs, m_isExist,
                 m_bConnected, m_modules, m_tryConnectCounters>>

RemoveModule(n) ==
  /\ n \in removing
  /\ removing' = removing \ {n}
  /\ m_modules' = m_modules \ {n}
  /\ UNCHANGED <<initiator, m_rand, apc, sockets, connectors, m_connectors,
                 m_tryConnectCounters>>

(* ThreadManager::ManagerFunc deletes the connector, which leaves the signals *)
Delete(e) ==
  /\ pc[e] = "reaped"
  /\ e[2] \notin removing
  /\ \E d \in End : e \in subs[d]
  /\ subs' = [d \in End |-> subs[d] \ {e}]
  /\ UNCHANGED <<initiator, m_rand, apc, sockets, pc, m_named, m_isExist,
                 m_bConnected, registry>>

-----------------------------------------------------------------------------
ArbitrationInit ==
  /\ initiator = [k \in Conn |-> Nobody]
  /\ m_rand \in Draws
  /\ apc = [e \in End |-> "free"]
  /\ pc = [e \in End |-> "free"]
  /\ m_open = [e \in End |-> TRUE]
  /\ inbox = [e \in End |-> <<>>]
  /\ m_named = [e \in End |-> FALSE]
  /\ subs = [e \in End |-> {}]
  /\ m_isExist = [e \in End |-> FALSE]
  /\ m_bConnected = [e \in End |-> FALSE]
  /\ m_modules = {}
  /\ m_connectors = [n \in Node |-> {}]
  /\ m_tryConnectCounters = {}
  /\ removing = {}

AddStep(e) == SubscribeConnector(e) \/ Start(e) \/ AddObject(e)

ConnectorStep(e) ==
  BeginModuleName(e) \/ FinishModuleName(e) \/ OnModuleState(e) \/ OnStop(e)

ArbitrationNext ==
  \/ \E n \in Node, k \in Conn : Connect(n, k)
  \/ \E e \in End : AddStep(e) \/ ConnectorStep(e) \/ OnDisconnected(e) \/ Delete(e)
  \/ \E n \in Node : RemoveModule(n)

ArbitrationSpec == ArbitrationInit /\ [][ArbitrationNext]_arbitrationVars

-----------------------------------------------------------------------------
(* Both ends have had the other's name and told whether they know it already *)
Introduced(k) == \A n \in Node : pc[<<k, n>>] \notin {"free", "loop", "push"}

(* Where both ends agree the verdict is right: a connection that was the first one
   at both is never closed, whatever other connections cross it, and one that
   both found to be a duplicate is closed by every end that hears of it          *)
AgreedVerdict ==
  \A k \in Conn : Introduced(k) =>
    /\ (\A n \in Node : ~m_isExist[<<k, n>>]) => \A n \in Node : m_open[<<k, n>>]
    /\ (\A n \in Node : m_isExist[<<k, n>>]) =>
         \A n \in Node : pc[<<k, n>>] = "settled" => ~m_open[<<k, n>>]

(* Where they disagree, the end that had the connection first keeps it only if its
   random value is smaller than the other end's, whichever siblings answered     *)
ContestedWins ==
  \A e \in End :
    (/\ Introduced(e[1])
     /\ pc[e] = "settled" /\ m_open[e]
     /\ ~m_isExist[e] /\ m_isExist[Peer(e)]) => m_rand[e] < m_rand[Peer(e)]
=============================================================================
