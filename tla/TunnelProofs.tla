----------------------------- MODULE TunnelProofs -----------------------------
(***************************************************************************)
(* What holds of the creation of a tunnel, and of the choice between two   *)
(* connections of one name that a module makes underneath it, for every    *)
(* value of the constants.                                                 *)
(*                                                                         *)
(* Tunnels (the first and longer part).  For any set of sessions, any      *)
(* types of tunnel and any bound on the negotiations:                      *)
(*   - a connection of a tunnel, and the tunnel that uses it, name the     *)
(*     same two sessions;                                                  *)
(*   - a tunnel that is established is no longer being negotiated;         *)
(*   - the pointer that a handler follows without a test is never null.    *)
(* The invariant is built up from what one record may hold (a server, a    *)
(* thread, an entry of m_tunnels, a link, a message), through the counters *)
(* that bound the negotiations, to the order in which the parts of one     *)
(* negotiation may happen.                                                 *)
(*                                                                         *)
(* Arbitration (the last section).  For any number of connections between  *)
(* two modules and any draw of the random values: the verdict on a         *)
(* connection is right where its ends agree, and where they disagree it    *)
(* follows their values.                                                   *)
(***************************************************************************)
EXTENDS Tunnel, IPCArbitration, FiniteSetTheorems, TLAPS

(* What a client sends, and what it is sent, is about another client; a message or
   a thread of a relay or of an external tunnel names its server                   *)
FromClientMsg(s) ==
  [kind : {"PeerData"}, ext : Session \ {s}, type : AllType]
    \cup [kind : {"AvailablePearTypes"}, types : SUBSET AllType]
    \cup [kind : {"InitTunnelRequest", "InitTunnelComplete"}, ext : Session \ {s}]
    \cup [kind : {"TryConnectTo"}, ext : Session \ {s}, type : LocalType, port : 0..MaxInit]

Named(m) == m.srv \in ServerId /\ m.srv[2] = m.type

ToClientMsg(s) ==
  [kind : {"InitTunnelStarted"}, ext : Session \ {s}]
    \cup [kind : {"TryConnectTo"}, ext : Session \ {s}, type : LocalType \cup {"EXTERNAL"},
          port : 0..MaxInit]
    \cup {m \in [kind : {"InitTunnel"}, ext : Session \ {s}, type : AllType,
                 srv : ServerId \cup {NoId}] :
            IF m.type \in LocalType THEN m.srv = NoId ELSE Named(m)}

ConnectTo(s) ==
  {c \in [ext : Session \ {s}, type : AllType, port : 0..MaxInit,
          srv : ServerId \cup {NoId}, at : 0..MaxInit] :
     IF c.type \in RelayType THEN Named(c) ELSE c.srv = NoId}

ClientRecord ==
  {t \in [on : BOOLEAN, listen : {"none", "run", "listening", "ended"}, port : 0..MaxInit,
          udp : BOOLEAN, ext : {"none", "probe", "connect", "ended"},
          srv : ServerId \cup {NoId}] :
     /\ t.ext = "probe" => t.srv \in ServerId /\ t.srv[2] = "EXTERNAL"
     /\ ~t.on => t = NoTunnel}

Wires ==
  /\ DOMAIN toServer = Session
  /\ \A s \in Session : toServer[s] \in Seq(FromClientMsg(s))
  /\ DOMAIN toClient = Session
  /\ \A s \in Session : toClient[s] \in Seq(ToClientMsg(s))

Clients ==
  /\ m_tunnels \in [Session -> [Session -> ClientRecord]]
  /\ stale \in [Session -> [Session -> Nat]]
  /\ \A s \in Session : m_tunnels[s][s] = NoTunnel /\ stale[s][s] = 0
  /\ DOMAIN connecting = Session
  /\ \A s \in Session : connecting[s] \subseteq ConnectTo(s)

Servers ==
  /\ m_typePeers \in [Pair -> AllType \cup {"UNKNOWN"}]
  /\ m_avalablePeerTypes \in [Session -> SUBSET AllType]
  /\ m_tunnelsStep \subseteq Pair
  /\ m_servers \in [ServerId -> ServerRecord]
  /\ checker \in ServerId \cup {NoId}

Links == link \in [LinkId -> LinkRecord]

Rest ==
  /\ inits \in 0..MaxInit /\ announces \in 0..MaxAnnounce /\ started \in 0..MaxInit
  /\ expired \in BOOLEAN
  /\ crash \subseteq {"listen", "udp", "external", "relay"}

TypeInv == Wires /\ Clients /\ Servers /\ Links /\ Rest

-----------------------------------------------------------------------------
(* A pair is what two clients make *)
LEMMA PairOfTwo == \A s, e \in Session : s # e => {s, e} \in Pair
<1> SUFFICES ASSUME NEW s \in Session, NEW e \in Session, s # e
             PROVE  {s, e} \in Pair
  OBVIOUS
<1>1. IsFiniteSet({s}) /\ Cardinality({s}) = 1
  BY FS_Singleton
<1>2. Cardinality({s} \cup {e}) = 2
  BY <1>1, FS_AddElement
<1>3. {s} \cup {e} = {s, e}
  OBVIOUS
<1> QED
  BY <1>2, <1>3 DEF Pair

(* The values every record starts with are of their types *)
LEMMA Blanks ==
  /\ NoServer \in ServerRecord
  /\ NoLink \in LinkRecord
  /\ NoTunnel \in ClientRecord /\ NewTunnel \in ClientRecord
  /\ NoServer.one \in Session /\ NoServer.two \in Session
<1>1. NoServer.one \in Session /\ NoServer.two \in Session
  BY TunnelAssumption DEF NoServer
<1>2. NoServer \in ServerRecord
  BY <1>1 DEF NoServer, ServerRecord
<1>3. NoLink \in LinkRecord
  BY DEF NoLink, LinkRecord, Up
<1>4. NoTunnel \in ClientRecord
  BY TunnelAssumption DEF NoTunnel, ClientRecord
<1>5. NewTunnel \in TunnelRecord
  <2>1. NoTunnel \in TunnelRecord
    BY TunnelAssumption DEF NoTunnel, TunnelRecord
  <2> QED
    BY <2>1 DEF NewTunnel, TunnelRecord
<1>6. NewTunnel.on = TRUE /\ NewTunnel.ext = "none"
  BY DEF NoTunnel, NewTunnel
<1>7. NewTunnel \in ClientRecord
  BY <1>5, <1>6 DEF ClientRecord, TunnelRecord
<1> QED
  BY <1>1, <1>2, <1>3, <1>4, <1>7

(* The first message of a stream and the rest *)
LEMMA Front ==
  ASSUME NEW S, NEW q \in Seq(S), q # <<>>
  PROVE  Head(q) \in S /\ Tail(q) \in Seq(S)
OBVIOUS

(* A message of a kind has the fields of the kind *)
LEMMA FromClientMsgs ==
  ASSUME NEW s \in Session, NEW m \in FromClientMsg(s)
  PROVE  /\ m.kind = "PeerData" => m.ext \in Session \ {s} /\ m.type \in AllType
         /\ m.kind = "AvailablePearTypes" => m.types \in SUBSET AllType
         /\ m.kind \in {"InitTunnelRequest", "InitTunnelComplete"} => m.ext \in Session \ {s}
         /\ m.kind = "TryConnectTo" =>
              /\ m.ext \in Session \ {s} /\ m.type \in LocalType /\ m.port \in 0..MaxInit
              /\ m = [kind |-> "TryConnectTo", ext |-> m.ext, type |-> m.type,
                      port |-> m.port]
BY DEF FromClientMsg

LEMMA ToClientMsgs ==
  ASSUME NEW s \in Session, NEW m \in ToClientMsg(s)
  PROVE  /\ m.kind \in {"InitTunnelStarted", "TryConnectTo", "InitTunnel"}
         /\ m.ext \in Session \ {s}
         /\ m.kind = "TryConnectTo" =>
              m.type \in LocalType \cup {"EXTERNAL"} /\ m.port \in 0..MaxInit
         /\ m.kind = "InitTunnel" =>
              /\ m.type \in AllType /\ m.srv \in ServerId \cup {NoId}
              /\ IF m.type \in LocalType THEN m.srv = NoId ELSE Named(m)
BY DEF ToClientMsg

LEMMA TypeInit == Init => TypeInv
<1> SUFFICES ASSUME Init PROVE TypeInv
  OBVIOUS
<1>1. Wires
  BY DEF Init, Wires
<1>2. Clients
  BY Blanks DEF Init, Clients
<1>3. Servers
  BY Blanks, TunnelAssumption DEF Init, Servers
<1>4. Links
  BY Blanks DEF Init, Links
<1>5. inits = 0 /\ announces = 0 /\ started = 0 /\ expired = FALSE /\ crash = {}
  BY DEF Init
<1>6. inits \in 0..MaxInit /\ announces \in 0..MaxAnnounce /\ started \in 0..MaxInit
  BY <1>5, TunnelAssumption
<1>7. Rest
  BY <1>5, <1>6, Zenon DEF Rest
<1> QED
  BY <1>1, <1>2, <1>3, <1>4, <1>7 DEF TypeInv

-----------------------------------------------------------------------------
(* What one message does to the wires *)
FromClients ==
  DOMAIN toServer = Session /\ \A s \in Session : toServer[s] \in Seq(FromClientMsg(s))
ToClients ==
  DOMAIN toClient = Session /\ \A s \in Session : toClient[s] \in Seq(ToClientMsg(s))

LEMMA Sent ==
  ASSUME FromClients, NEW s \in Session, NEW m \in FromClientMsg(s), ToServer(s, m)
  PROVE  FromClients'
<1>1. toServer[s] \in Seq(FromClientMsg(s))
  BY DEF FromClients
<1>2. Append(toServer[s], m) \in Seq(FromClientMsg(s))
  BY <1>1
<1> QED
  BY <1>2 DEF FromClients, ToServer

LEMMA Handled ==
  ASSUME FromClients, NEW s \in Session, NEW kind, FromClient(s, kind)
  PROVE  /\ FromClients'
         /\ Head(toServer[s]) \in FromClientMsg(s) /\ Head(toServer[s]).kind = kind
<1>1. toServer[s] \in Seq(FromClientMsg(s)) /\ toServer[s] # <<>>
  BY DEF FromClients, FromClient
<1>2. Head(toServer[s]) \in FromClientMsg(s) /\ Tail(toServer[s]) \in Seq(FromClientMsg(s))
  BY <1>1
<1> QED
  BY <1>2 DEF FromClients, FromClient

LEMMA Delivered ==
  ASSUME ToClients, NEW s \in Session, NEW kind, FromServer(s, kind)
  PROVE  /\ ToClients'
         /\ Head(toClient[s]) \in ToClientMsg(s) /\ Head(toClient[s]).kind = kind
<1>1. toClient[s] \in Seq(ToClientMsg(s)) /\ toClient[s] # <<>>
  BY DEF ToClients, FromServer
<1>2. Head(toClient[s]) \in ToClientMsg(s) /\ Tail(toClient[s]) \in Seq(ToClientMsg(s))
  BY <1>1
<1> QED
  BY <1>2 DEF ToClients, FromServer

(* Some clients are sent a message each *)
LEMMA Told ==
  ASSUME ToClients, NEW S \in SUBSET Session, NEW m, \A s \in S : m[s] \in ToClientMsg(s),
         toClient' = [s \in Session |-> IF s \in S THEN Append(toClient[s], m[s])
                                        ELSE toClient[s]]
  PROVE  ToClients'
<1>1. \A s \in Session : toClient[s] \in Seq(ToClientMsg(s))
  BY DEF ToClients
<1>2. ASSUME NEW s \in Session
      PROVE  toClient'[s] \in Seq(ToClientMsg(s))
  <2>1. CASE s \in S
    BY <1>1, <2>1
  <2>2. CASE s \notin S
    BY <1>1, <2>2
  <2> QED
    BY <2>1, <2>2
<1> QED
  BY <1>2 DEF ToClients

LEMMA TwoEnds ==
  ASSUME NEW i \in ServerId, Ends(i) \subseteq Session, NEW s \in Ends(i),
         m_servers[i].one # m_servers[i].two
  PROVE  OtherEnd(i, s) \in Ends(i) \ {s}
BY DEF Ends, OtherEnd

-----------------------------------------------------------------------------
(* A relay listens for an end before it knows its address and not once it has
   connected; what both connected to is forgotten only when it expires           *)
RelayOK(r) ==
  /\ r.pc = "start" => r.made = {}
  /\ r.pc = "one" => r.made \subseteq {r.one}
  /\ r.made \subseteq {r.one, r.two}
  /\ r.addresses \subseteq r.made
  /\ r.connectors \subseteq r.addresses
  /\ r.both => r.addresses = {r.one, r.two}

ServerOK(i, r) ==
  /\ r.pc = "none" => r = NoServer
  /\ r.pc # "none" => r.one # r.two
  /\ r.pc \in {"pairing", "paired"} => i[2] \in RelayType
  /\ i[2] \in RelayType => RelayOK(r)

ServersOK ==
  \A i \in ServerId : ServerOK(i, m_servers[i]) /\ (i[1] > started => m_servers[i].pc = "none")

(* What a step may do to a server: its ends stay, and a relay does not listen again
   for an end whose address it has                                                *)
Moves(i, r, q) ==
  /\ r.pc # "none" => q.pc # "none" /\ q.one = r.one /\ q.two = r.two
  /\ r.addresses \subseteq q.addresses
  /\ i[2] \in RelayType => q.listening \cap r.addresses \subseteq r.listening

ServersMove == \A i \in ServerId : Moves(i, m_servers[i], m_servers'[i])

LEMMA OneServerMoves ==
  ASSUME m_servers \in [ServerId -> ServerRecord], ServersOK, NEW i \in ServerId,
         NEW r \in ServerRecord, Server(i, r), ServerOK(i, r), r.pc # "none",
         m_servers[i].pc # "none", Moves(i, m_servers[i], r), started' = started
  PROVE  m_servers' \in [ServerId -> ServerRecord] /\ ServersOK' /\ ServersMove
<1>1. m_servers' = [m_servers EXCEPT ![i] = r]
  BY DEF Server
<1>2. m_servers' \in [ServerId -> ServerRecord]
  BY <1>1
<1>3. ASSUME NEW k \in ServerId
      PROVE  /\ ServerOK(k, m_servers'[k])
             /\ (k[1] > started' => m_servers'[k].pc = "none")
             /\ Moves(k, m_servers[k], m_servers'[k])
  <2>1. CASE k = i
    <3>1. m_servers'[k] = r
      BY <1>1, <2>1
    <3>2. ~(i[1] > started')
      BY DEF ServersOK
    <3> QED
      BY <2>1, <3>1, <3>2
  <2>2. CASE k # i
    <3>1. m_servers'[k] = m_servers[k]
      BY <1>1, <2>2
    <3>2. ServerOK(k, m_servers[k]) /\ (k[1] > started => m_servers[k].pc = "none")
      BY DEF ServersOK
    <3>3. Moves(k, m_servers[k], m_servers[k])
      BY DEF Moves
    <3> QED
      BY <3>1, <3>2, <3>3
  <2> QED
    BY <2>1, <2>2
<1>4. ServersOK'
  BY <1>3 DEF ServersOK
<1>5. ServersMove
  BY <1>3 DEF ServersMove
<1> QED
  BY <1>2, <1>4, <1>5

LEMMA NoServerMoves ==
  ASSUME m_servers \in [ServerId -> ServerRecord], ServersOK, UNCHANGED <<m_servers, started>>
  PROVE  m_servers' \in [ServerId -> ServerRecord] /\ ServersOK' /\ ServersMove
<1>1. ServersOK'
  BY DEF ServersOK
<1>2. ServersMove
  BY DEF ServersMove, Moves
<1> QED
  BY <1>1, <1>2

(* A deleted server's thread goes on with what it had, without its listeners *)
LEMMA Deleted ==
  ASSUME NEW i, NEW r \in ServerRecord
  PROVE  /\ DeleteServer(i, r) \in ServerRecord
         /\ DeleteServer(i, r).one = r.one /\ DeleteServer(i, r).two = r.two
         /\ DeleteServer(i, r).pc = r.pc /\ DeleteServer(i, r).made = r.made
         /\ DeleteServer(i, r).addresses = r.addresses
         /\ DeleteServer(i, r).both = r.both
         /\ DeleteServer(i, r).listening \subseteq r.listening
         /\ DeleteServer(i, r).connectors \subseteq r.connectors
<1>1. CASE ~r.listed
  BY <1>1 DEF DeleteServer
<1>2. CASE r.listed /\ i[2] = "EXTERNAL"
  <2>1. DeleteServer(i, r) = [r EXCEPT !.listening = {}, !.listed = FALSE]
    BY <1>2 DEF DeleteServer, StopExternal, ServerRecord
  <2> QED
    BY <2>1 DEF ServerRecord
<1>3. CASE r.listed /\ i[2] # "EXTERNAL"
  <2>1. DeleteServer(i, r)
          = [r EXCEPT !.listening = {}, !.connectors = {}, !.listed = FALSE]
    BY <1>3 DEF DeleteServer, StopRelay, ServerRecord
  <2> QED
    BY <2>1 DEF ServerRecord
<1> QED
  BY <1>1, <1>2, <1>3 DEF ServerRecord

-----------------------------------------------------------------------------
(* The steps of the server threads move one server each *)
LEMMA RelayListenMoves ==
  ASSUME m_servers \in [ServerId -> ServerRecord], ServersOK, started' = started,
         NEW i \in ServerId, RelayListen(i)
  PROVE  m_servers' \in [ServerId -> ServerRecord] /\ ServersOK' /\ ServersMove
<1> DEFINE a == m_servers[i]
<1>1. a \in ServerRecord /\ ServerOK(i, a)
  BY DEF ServersOK
<1>2. \/ i[2] \in RelayType /\ a.pc = "start"
         /\ Server(i, [a EXCEPT !.pc = "one", !.made = {a.one}, !.listening = @ \cup {a.one}])
      \/ i[2] \in RelayType /\ a.pc = "one"
         /\ Server(i, [a EXCEPT !.pc = "address", !.made = Ends(i), !.listening = @ \cup {a.two}])
  BY DEF RelayListen
<1>3. CASE i[2] \in RelayType /\ a.pc = "start"
           /\ Server(i, [a EXCEPT !.pc = "one", !.made = {a.one}, !.listening = @ \cup {a.one}])
  <2> DEFINE r == [a EXCEPT !.pc = "one", !.made = {a.one}, !.listening = @ \cup {a.one}]
  <2>1. r \in ServerRecord
    BY <1>1, <1>3 DEF ServerRecord, Ends
  <2>2. a.pc # "none"
    BY <1>1, <1>3 DEF ServerOK, NoServer
  <2>3. ServerOK(i, r) /\ r.pc # "none"
    BY <1>1, <1>3, <2>2 DEF ServerOK, RelayOK, RelayType, ServerRecord, Ends
  <2>4. Moves(i, a, r)
    BY <1>1, <1>3, <2>2 DEF ServerOK, RelayOK, RelayType, ServerRecord, Ends, Moves
  <2> QED
    BY <1>3, <2>1, <2>2, <2>3, <2>4, OneServerMoves
<1>4. CASE i[2] \in RelayType /\ a.pc = "one"
           /\ Server(i, [a EXCEPT !.pc = "address", !.made = Ends(i), !.listening = @ \cup {a.two}])
  <2> DEFINE r == [a EXCEPT !.pc = "address", !.made = Ends(i), !.listening = @ \cup {a.two}]
  <2>1. r \in ServerRecord
    BY <1>1, <1>4 DEF ServerRecord, Ends
  <2>2. a.pc # "none"
    BY <1>1, <1>4 DEF ServerOK, NoServer
  <2>3. ServerOK(i, r) /\ r.pc # "none"
    BY <1>1, <1>4, <2>2 DEF ServerOK, RelayOK, RelayType, ServerRecord, Ends
  <2>4. Moves(i, a, r)
    BY <1>1, <1>4, <2>2 DEF ServerOK, RelayOK, RelayType, ServerRecord, Ends, Moves
  <2> QED
    BY <1>4, <2>1, <2>2, <2>3, <2>4, OneServerMoves
<1> QED
  BY <1>2, <1>3, <1>4

LEMMA RelayBoundMoves ==
  ASSUME m_servers \in [ServerId -> ServerRecord], ServersOK, started' = started,
         NEW i \in ServerId, NEW s \in Session, RelayBound(i, s)
  PROVE  m_servers' \in [ServerId -> ServerRecord] /\ ServersOK' /\ ServersMove
<1> DEFINE a == m_servers[i]
<1>1. a \in ServerRecord /\ ServerOK(i, a)
  BY DEF ServersOK
<1> DEFINE r == [a EXCEPT !.addresses = @ \cup {s}]
<1>2. i[2] \in RelayType /\ s \in a.made \ a.addresses /\ Server(i, r)
  BY DEF RelayBound
<1>3. r \in ServerRecord
  BY <1>1, <1>2 DEF ServerRecord, Ends
<1>4. a.pc # "none"
  BY <1>1, <1>2 DEF ServerOK, NoServer
<1>5. ServerOK(i, r) /\ r.pc # "none"
  BY <1>1, <1>2, <1>4 DEF ServerOK, RelayOK, RelayType, ServerRecord, Ends
<1>6. Moves(i, a, r)
  BY <1>1, <1>2, <1>4 DEF ServerOK, RelayOK, RelayType, ServerRecord, Ends, Moves
<1> QED
  BY <1>2, <1>3, <1>4, <1>5, <1>6, OneServerMoves

LEMMA RelayAnnounceMoves ==
  ASSUME m_servers \in [ServerId -> ServerRecord], ServersOK, started' = started,
         NEW i \in ServerId, RelayAnnounce(i)
  PROVE  m_servers' \in [ServerId -> ServerRecord] /\ ServersOK' /\ ServersMove
<1> DEFINE a == m_servers[i]
<1>1. a \in ServerRecord /\ ServerOK(i, a)
  BY DEF ServersOK
<1> DEFINE r == [a EXCEPT !.pc = "connect"]
<1>2. i[2] \in RelayType /\ a.pc = "address" /\ a.addresses = Ends(i) /\ Server(i, r)
  BY DEF RelayAnnounce
<1>3. r \in ServerRecord
  BY <1>1, <1>2 DEF ServerRecord, Ends
<1>4. a.pc # "none"
  BY <1>1, <1>2 DEF ServerOK, NoServer
<1>5. ServerOK(i, r) /\ r.pc # "none"
  BY <1>1, <1>2, <1>4 DEF ServerOK, RelayOK, RelayType, ServerRecord, Ends
<1>6. Moves(i, a, r)
  BY <1>1, <1>2, <1>4 DEF ServerOK, RelayOK, RelayType, ServerRecord, Ends, Moves
<1> QED
  BY <1>2, <1>3, <1>4, <1>5, <1>6, OneServerMoves

LEMMA RelayPairMoves ==
  ASSUME m_servers \in [ServerId -> ServerRecord], ServersOK, started' = started,
         NEW i \in ServerId, RelayPair(i)
  PROVE  m_servers' \in [ServerId -> ServerRecord] /\ ServersOK' /\ ServersMove
<1> DEFINE a == m_servers[i]
<1>1. a \in ServerRecord /\ ServerOK(i, a)
  BY DEF ServersOK
<1>2. \/ i[2] \in RelayType /\ a.pc = "connect" /\ Server(i, [a EXCEPT !.pc = "pairing"])
      \/ i[2] \in RelayType /\ a.pc = "connect" /\ Server(i, [a EXCEPT !.pc = "end"])
  BY DEF RelayPair
<1>3. CASE i[2] \in RelayType /\ a.pc = "connect" /\ Server(i, [a EXCEPT !.pc = "pairing"])
  <2> DEFINE r == [a EXCEPT !.pc = "pairing"]
  <2>1. r \in ServerRecord
    BY <1>1, <1>3 DEF ServerRecord, Ends
  <2>2. a.pc # "none"
    BY <1>1, <1>3 DEF ServerOK, NoServer
  <2>3. ServerOK(i, r) /\ r.pc # "none"
    BY <1>1, <1>3, <2>2 DEF ServerOK, RelayOK, RelayType, ServerRecord, Ends
  <2>4. Moves(i, a, r)
    BY <1>1, <1>3, <2>2 DEF ServerOK, RelayOK, RelayType, ServerRecord, Ends, Moves
  <2> QED
    BY <1>3, <2>1, <2>2, <2>3, <2>4, OneServerMoves
<1>4. CASE i[2] \in RelayType /\ a.pc = "connect" /\ Server(i, [a EXCEPT !.pc = "end"])
  <2> DEFINE r == [a EXCEPT !.pc = "end"]
  <2>1. r \in ServerRecord
    BY <1>1, <1>4 DEF ServerRecord, Ends
  <2>2. a.pc # "none"
    BY <1>1, <1>4 DEF ServerOK, NoServer
  <2>3. ServerOK(i, r) /\ r.pc # "none"
    BY <1>1, <1>4, <2>2 DEF ServerOK, RelayOK, RelayType, ServerRecord, Ends
  <2>4. Moves(i, a, r)
    BY <1>1, <1>4, <2>2 DEF ServerOK, RelayOK, RelayType, ServerRecord, Ends, Moves
  <2> QED
    BY <1>4, <2>1, <2>2, <2>3, <2>4, OneServerMoves
<1> QED
  BY <1>2, <1>3, <1>4

LEMMA RelayPairedMoves ==
  ASSUME m_servers \in [ServerId -> ServerRecord], ServersOK, started' = started,
         NEW i \in ServerId, OnAddRelayServerConnector(i)
  PROVE  m_servers' \in [ServerId -> ServerRecord] /\ ServersOK' /\ ServersMove
<1> DEFINE a == m_servers[i]
<1>1. a \in ServerRecord /\ ServerOK(i, a)
  BY DEF ServersOK
<1> DEFINE r == [a EXCEPT !.pc = "paired", !.listed = FALSE, !.listening = {}]
<1>2. a.pc = "pairing" /\ Server(i, r)
  BY DEF OnAddRelayServerConnector
<1>3. r \in ServerRecord
  BY <1>1, <1>2 DEF ServerRecord, Ends
<1>4. a.pc # "none"
  BY <1>1, <1>2 DEF ServerOK, NoServer
<1>5. ServerOK(i, r) /\ r.pc # "none"
  BY <1>1, <1>2, <1>4 DEF ServerOK, RelayOK, RelayType, ServerRecord, Ends
<1>6. Moves(i, a, r)
  BY <1>1, <1>2, <1>4 DEF ServerOK, RelayOK, RelayType, ServerRecord, Ends, Moves
<1> QED
  BY <1>2, <1>3, <1>4, <1>5, <1>6, OneServerMoves

LEMMA ExternalListenMoves ==
  ASSUME m_servers \in [ServerId -> ServerRecord], ServersOK, started' = started,
         NEW i \in ServerId, ExternalListen(i)
  PROVE  m_servers' \in [ServerId -> ServerRecord] /\ ServersOK' /\ ServersMove
<1> DEFINE a == m_servers[i]
<1>1. a \in ServerRecord /\ ServerOK(i, a)
  BY DEF ServersOK
<1>2. \/ i[2] = "EXTERNAL" /\ a.pc = "start"
         /\ Server(i, [a EXCEPT !.pc = "one", !.listening = @ \cup {a.one}])
      \/ i[2] = "EXTERNAL" /\ a.pc = "one"
         /\ Server(i, [a EXCEPT !.pc = "address", !.listening = @ \cup {a.two}])
  BY DEF ExternalListen
<1>3. CASE i[2] = "EXTERNAL" /\ a.pc = "start"
           /\ Server(i, [a EXCEPT !.pc = "one", !.listening = @ \cup {a.one}])
  <2> DEFINE r == [a EXCEPT !.pc = "one", !.listening = @ \cup {a.one}]
  <2>1. r \in ServerRecord
    BY <1>1, <1>3 DEF ServerRecord, Ends
  <2>2. a.pc # "none"
    BY <1>1, <1>3 DEF ServerOK, NoServer
  <2>3. ServerOK(i, r) /\ r.pc # "none"
    BY <1>1, <1>3, <2>2 DEF ServerOK, RelayOK, RelayType, ServerRecord, Ends
  <2>4. Moves(i, a, r)
    BY <1>1, <1>3, <2>2 DEF ServerOK, RelayOK, RelayType, ServerRecord, Ends, Moves
  <2> QED
    BY <1>3, <2>1, <2>2, <2>3, <2>4, OneServerMoves
<1>4. CASE i[2] = "EXTERNAL" /\ a.pc = "one"
           /\ Server(i, [a EXCEPT !.pc = "address", !.listening = @ \cup {a.two}])
  <2> DEFINE r == [a EXCEPT !.pc = "address", !.listening = @ \cup {a.two}]
  <2>1. r \in ServerRecord
    BY <1>1, <1>4 DEF ServerRecord, Ends
  <2>2. a.pc # "none"
    BY <1>1, <1>4 DEF ServerOK, NoServer
  <2>3. ServerOK(i, r) /\ r.pc # "none"
    BY <1>1, <1>4, <2>2 DEF ServerOK, RelayOK, RelayType, ServerRecord, Ends
  <2>4. Moves(i, a, r)
    BY <1>1, <1>4, <2>2 DEF ServerOK, RelayOK, RelayType, ServerRecord, Ends, Moves
  <2> QED
    BY <1>4, <2>1, <2>2, <2>3, <2>4, OneServerMoves
<1> QED
  BY <1>2, <1>3, <1>4

LEMMA GotExternalMoves ==
  ASSUME m_servers \in [ServerId -> ServerRecord], ServersOK, started' = started,
         NEW i \in ServerId, GotExternalAddresses(i)
  PROVE  m_servers' \in [ServerId -> ServerRecord] /\ ServersOK' /\ ServersMove
<1> DEFINE a == m_servers[i]
<1>1. a \in ServerRecord /\ ServerOK(i, a)
  BY DEF ServersOK
<1> DEFINE r == [a EXCEPT !.pc = "end"]
<1>2. i[2] = "EXTERNAL" /\ a.pc = "address" /\ Server(i, r)
  BY DEF GotExternalAddresses
<1>3. r \in ServerRecord
  BY <1>1, <1>2 DEF ServerRecord, Ends
<1>4. a.pc # "none"
  BY <1>1, <1>2 DEF ServerOK, NoServer
<1>5. ServerOK(i, r) /\ r.pc # "none"
  BY <1>1, <1>2, <1>4 DEF ServerOK, RelayOK, RelayType, ServerRecord, Ends
<1>6. Moves(i, a, r)
  BY <1>1, <1>2, <1>4 DEF ServerOK, RelayOK, RelayType, ServerRecord, Ends, Moves
<1> QED
  BY <1>2, <1>3, <1>4, <1>5, <1>6, OneServerMoves

LEMMA RelayErrorMoves ==
  ASSUME m_servers \in [ServerId -> ServerRecord], ServersOK, started' = started,
         NEW i \in ServerId, NEW s \in Session, RelayListenError(i, s)
  PROVE  m_servers' \in [ServerId -> ServerRecord] /\ ServersOK' /\ ServersMove
<1> DEFINE a == m_servers[i]
<1>1. a \in ServerRecord /\ ServerOK(i, a)
  BY DEF ServersOK
<1>2. i[2] \in RelayType /\ s \in a.made \ a.addresses
      /\ Server(i, DeleteServer(i, [a EXCEPT !.made = @ \ {s}, !.listening = {}]))
  BY DEF RelayListenError, OnErrorRelayListener, OnErrorExternalListener, ServerId, NoId
<1>3. CASE i[2] \in RelayType /\ s \in a.made \ a.addresses
           /\ Server(i, DeleteServer(i, [a EXCEPT !.made = @ \ {s}, !.listening = {}]))
  <2> DEFINE q == [a EXCEPT !.made = @ \ {s}, !.listening = {}]
             r == DeleteServer(i, q)
  <2>1. q \in ServerRecord
    BY <1>1, <1>3 DEF ServerRecord
  <2>2. /\ r \in ServerRecord
        /\ r.one = q.one /\ r.two = q.two /\ r.pc = q.pc /\ r.made = q.made
        /\ r.addresses = q.addresses /\ r.both = q.both
        /\ r.listening \subseteq q.listening /\ r.connectors \subseteq q.connectors
    <3> HIDE DEF q
    <3> QED
      BY <2>1, Deleted
  <2>3. Server(i, r)
    BY <1>3
  <2> HIDE DEF r
  <2>4. a.pc # "none"
    BY <1>1, <1>3 DEF ServerOK, NoServer
  <2>5. ServerOK(i, q) /\ q.pc # "none"
    BY <1>1, <1>3, <2>4 DEF ServerOK, RelayOK, ServerRecord
  <2>6. Moves(i, a, q)
    BY <1>1, <1>3, <2>4 DEF ServerOK, RelayOK, ServerRecord, Moves
  <2> HIDE DEF q
  <2>7. ServerOK(i, r)
    BY <2>2, <2>5 DEF ServerOK, RelayOK
  <2>8. Moves(i, a, r) /\ r.pc # "none"
    BY <2>2, <2>5, <2>6 DEF Moves
  <2> QED
    BY <2>2, <2>3, <2>4, <2>7, <2>8, OneServerMoves
<1> QED
  BY <1>2, <1>3

LEMMA ExternalErrorMoves ==
  ASSUME m_servers \in [ServerId -> ServerRecord], ServersOK, started' = started,
         NEW i \in ServerId, ExternalListenError(i)
  PROVE  m_servers' \in [ServerId -> ServerRecord] /\ ServersOK' /\ ServersMove
<1> DEFINE a == m_servers[i]
<1>1. a \in ServerRecord /\ ServerOK(i, a)
  BY DEF ServersOK
<1>2. i[2] = "EXTERNAL" /\ (a.pc \in {"start", "one"} \/ a.listening # {})
      /\ Server(i, DeleteServer(i, [a EXCEPT !.pc = IF @ \in {"start", "one"} THEN "end" ELSE @,
                                             !.listening = {}]))
  BY DEF ExternalListenError, OnErrorRelayListener, OnErrorExternalListener, ServerId, NoId
<1>3. CASE i[2] = "EXTERNAL" /\ (a.pc \in {"start", "one"} \/ a.listening # {})
         /\ Server(i, DeleteServer(i, [a EXCEPT !.pc = IF @ \in {"start", "one"} THEN "end" ELSE @,
                                                  !.listening = {}]))
  <2> DEFINE q == [a EXCEPT !.pc = IF @ \in {"start", "one"} THEN "end" ELSE @, !.listening = {}]
             r == DeleteServer(i, q)
  <2>1. q \in ServerRecord
    BY <1>1, <1>3 DEF ServerRecord
  <2>2. /\ r \in ServerRecord
        /\ r.one = q.one /\ r.two = q.two /\ r.pc = q.pc /\ r.made = q.made
        /\ r.addresses = q.addresses /\ r.both = q.both
        /\ r.listening \subseteq q.listening /\ r.connectors \subseteq q.connectors
    <3> HIDE DEF q
    <3> QED
      BY <2>1, Deleted
  <2>3. Server(i, r)
    BY <1>3
  <2> HIDE DEF r
  <2>4. a.pc # "none"
    BY <1>1, <1>3 DEF ServerOK, NoServer
  <2>5. ServerOK(i, q) /\ q.pc # "none"
    BY <1>1, <1>3, <2>4 DEF ServerOK, RelayOK, ServerRecord
  <2>6. Moves(i, a, q)
    BY <1>1, <1>3, <2>4 DEF ServerOK, RelayOK, ServerRecord, Moves
  <2> HIDE DEF q
  <2>7. ServerOK(i, r)
    BY <2>2, <2>5 DEF ServerOK, RelayOK
  <2>8. Moves(i, a, r) /\ r.pc # "none"
    BY <2>2, <2>5, <2>6 DEF Moves
  <2> QED
    BY <2>2, <2>3, <2>4, <2>7, <2>8, OneServerMoves
<1> QED
  BY <1>2, <1>3

LEMMA CheckedMoves ==
  ASSUME m_servers \in [ServerId -> ServerRecord], ServersOK, started' = started,
         NEW i \in ServerId, CheckServers(i), checker' = NoId
  PROVE  m_servers' \in [ServerId -> ServerRecord] /\ ServersOK' /\ ServersMove
<1> DEFINE a == m_servers[i]
<1>1. a \in ServerRecord /\ ServerOK(i, a)
  BY DEF ServersOK
<1>2. a.listed /\ Server(i, DeleteServer(i, a))
  BY DEF CheckServers, OnErrorRelayListener, OnErrorExternalListener, ServerId, NoId
<1>3. CASE a.listed /\ Server(i, DeleteServer(i, a))
  <2> DEFINE q == a
             r == DeleteServer(i, q)
  <2>1. q \in ServerRecord
    BY <1>1, <1>3 DEF ServerRecord
  <2>2. /\ r \in ServerRecord
        /\ r.one = q.one /\ r.two = q.two /\ r.pc = q.pc /\ r.made = q.made
        /\ r.addresses = q.addresses /\ r.both = q.both
        /\ r.listening \subseteq q.listening /\ r.connectors \subseteq q.connectors
    <3> HIDE DEF q
    <3> QED
      BY <2>1, Deleted
  <2>3. Server(i, r)
    BY <1>3
  <2> HIDE DEF r
  <2>4. a.pc # "none"
    BY <1>1, <1>3 DEF ServerOK, NoServer
  <2>5. ServerOK(i, q) /\ q.pc # "none"
    BY <1>1, <1>3, <2>4 DEF ServerOK, RelayOK, ServerRecord
  <2>6. Moves(i, a, q)
    BY <1>1, <1>3, <2>4 DEF ServerOK, RelayOK, ServerRecord, Moves
  <2> HIDE DEF q
  <2>7. ServerOK(i, r)
    BY <2>2, <2>5 DEF ServerOK, RelayOK
  <2>8. Moves(i, a, r) /\ r.pc # "none"
    BY <2>2, <2>5, <2>6 DEF Moves
  <2> QED
    BY <2>2, <2>3, <2>4, <2>7, <2>8, OneServerMoves
<1> QED
  BY <1>2, <1>3

LEMMA ExternalAddressMoves ==
  ASSUME m_servers \in [ServerId -> ServerRecord], ServersOK, started' = started,
         NEW i \in ServerId, NEW s \in Session, i[2] = "EXTERNAL", s \in m_servers[i].listening,
         ExternalAddress(i, s)
  PROVE  m_servers' \in [ServerId -> ServerRecord] /\ ServersOK' /\ ServersMove
<1> DEFINE a == m_servers[i]
<1>1. a \in ServerRecord /\ ServerOK(i, a)
  BY DEF ServersOK
<1> DEFINE r == [a EXCEPT !.addresses = @ \cup {s}]
<1>2. i[2] = "EXTERNAL" /\ s \in a.listening /\ Server(i, r)
  BY DEF ExternalAddress
<1>3. r \in ServerRecord
  BY <1>1, <1>2 DEF ServerRecord, Ends
<1>4. a.pc # "none"
  BY <1>1, <1>2 DEF ServerOK, NoServer
<1>5. ServerOK(i, r) /\ r.pc # "none"
  BY <1>1, <1>2, <1>4 DEF ServerOK, RelayOK, RelayType, ServerRecord, Ends
<1>6. Moves(i, a, r)
  BY <1>1, <1>2, <1>4 DEF ServerOK, RelayOK, RelayType, ServerRecord, Ends, Moves
<1> QED
  BY <1>2, <1>3, <1>4, <1>5, <1>6, OneServerMoves

LEMMA ConnectorMoves ==
  ASSUME m_servers \in [ServerId -> ServerRecord], ServersOK, started' = started,
         NEW i \in ServerId, NEW s \in Session, i[2] \in RelayType,
         s \in m_servers[i].listening \cap m_servers[i].addresses,
         Server(i, AddRelayConnector(m_servers[i], s))
  PROVE  /\ m_servers' \in [ServerId -> ServerRecord] /\ ServersOK' /\ ServersMove
         /\ s \in m_servers'[i].addresses \ m_servers'[i].listening
<1> DEFINE a == m_servers[i]
           b == a.both \/ a.connectors \cup {s} = {a.one, a.two}
           r == [a EXCEPT !.connectors = @ \cup {s}, !.listening = @ \ {s}, !.both = b]
<1>1. a \in ServerRecord /\ ServerOK(i, a)
  BY DEF ServersOK
<1>2. b \in BOOLEAN
  BY <1>1 DEF ServerRecord
<1>3. Server(i, r)
  BY <1>1 DEF AddRelayConnector, ServerRecord
<1>4. b => a.addresses = {a.one, a.two}
  BY <1>1 DEF ServerOK, RelayOK
<1> HIDE DEF b
<1>5. r \in ServerRecord
  BY <1>1, <1>2 DEF ServerRecord
<1>6. /\ r.one = a.one /\ r.two = a.two /\ r.pc = a.pc /\ r.made = a.made
      /\ r.addresses = a.addresses /\ r.both = b
      /\ r.listening = a.listening \ {s} /\ r.connectors = a.connectors \cup {s}
  BY <1>1 DEF ServerRecord
<1>7. a.pc # "none"
  BY <1>1 DEF ServerOK, NoServer
<1> HIDE DEF r
<1>8. ServerOK(i, r) /\ r.pc # "none"
  BY <1>1, <1>4, <1>6, <1>7 DEF ServerOK, RelayOK
<1>9. Moves(i, a, r)
  BY <1>6, <1>7 DEF Moves
<1>10. m_servers'[i] = r
  BY <1>3 DEF Server
<1> QED
  BY <1>3, <1>5, <1>6, <1>7, <1>8, <1>9, <1>10, OneServerMoves

LEMMA StartMoves ==
  ASSUME m_servers \in [ServerId -> ServerRecord], ServersOK, started \in Nat,
         NEW s \in Session, NEW e \in Session, s # e, NEW types,
         StartServers(s, e, types), started' = started + 1
  PROVE  m_servers' \in [ServerId -> ServerRecord] /\ ServersOK' /\ ServersMove
<1> DEFINE r == [NoServer EXCEPT !.one = s, !.two = e, !.listed = TRUE, !.pc = "start"]
<1>1. r \in ServerRecord
  BY Blanks DEF ServerRecord
<1>2. /\ r.one = s /\ r.two = e /\ r.pc = "start" /\ r.made = {} /\ r.addresses = {}
      /\ r.connectors = {} /\ r.listening = {} /\ ~r.both
  BY DEF NoServer
<1>3. \A i \in ServerId : m_servers'[i] = IF i[1] = started + 1 /\ i[2] \in types
                                          THEN r ELSE m_servers[i]
  BY DEF StartServers
<1> HIDE DEF r
<1>4. m_servers' \in [ServerId -> ServerRecord]
  <2>1. \A i \in ServerId : m_servers'[i] \in ServerRecord
    BY <1>1, <1>3
  <2>2. m_servers' = [i \in ServerId |-> m_servers'[i]]
    BY DEF StartServers
  <2> QED
    BY <2>1, <2>2
<1>5. ASSUME NEW i \in ServerId
      PROVE  /\ ServerOK(i, m_servers'[i]) /\ Moves(i, m_servers[i], m_servers'[i])
             /\ i[1] > started' => m_servers'[i].pc = "none"
  <2>1. i[1] \in Nat
    BY TunnelAssumption DEF ServerId
  <2>2. ServerOK(i, m_servers[i]) /\ (i[1] > started => m_servers[i].pc = "none")
    BY DEF ServersOK
  <2>3. CASE i[1] = started + 1 /\ i[2] \in types
    <3>1. m_servers'[i] = r
      BY <1>3, <2>3
    <3>2. m_servers[i] = NoServer /\ m_servers[i].pc = "none"
      BY <2>1, <2>2, <2>3 DEF ServerOK
    <3>3. m_servers[i].addresses = {}
      BY <3>2 DEF NoServer
    <3>4. ServerOK(i, r)
      BY <1>2 DEF ServerOK, RelayOK
    <3> QED
      BY <1>2, <2>1, <2>3, <3>1, <3>2, <3>3, <3>4 DEF Moves
  <2>4. CASE ~(i[1] = started + 1 /\ i[2] \in types)
    <3>1. m_servers'[i] = m_servers[i]
      BY <1>3, <2>4
    <3> QED
      BY <2>1, <2>2, <3>1 DEF Moves
  <2> QED
    BY <2>3, <2>4
<1> QED
  BY <1>4, <1>5 DEF ServersOK, ServersMove

(* What every step does to the servers *)
ServersKept == m_servers' \in [ServerId -> ServerRecord] /\ ServersOK' /\ ServersMove

LEMMA InitTunnelServers ==
  ASSUME TypeInv, ServersOK, NEW s \in Session, OnInitTunnel(s)
  PROVE  ServersKept
<1> DEFINE e == Head(toServer[s]).ext
<1>1. e \in Session /\ s # e
  <2>1. Head(toServer[s]) \in FromClientMsg(s) /\ Head(toServer[s]).kind = "InitTunnelRequest"
    BY Handled DEF OnInitTunnel, TypeInv, Wires, FromClients
  <2> QED
    BY <2>1, FromClientMsgs
<1>2. CASE TunnelStep(s, e) \in m_tunnelsStep
  <2>1. UNCHANGED <<m_servers, started>>
    BY <1>2 DEF OnInitTunnel
  <2> QED
    BY <2>1, NoServerMoves DEF TypeInv, Servers, ServersKept
<1>3. CASE TunnelStep(s, e) \notin m_tunnelsStep
  <2>1. PICK types : StartServers(s, e, types) /\ started' = started + 1
    BY <1>3 DEF OnInitTunnel
  <2>2. started \in Nat
    BY DEF TypeInv, Rest
  <2> HIDE DEF e
  <2> QED
    BY <1>1, <2>1, <2>2, StartMoves DEF TypeInv, Servers, ServersKept
<1> QED
  BY <1>2, <1>3

LEMMA RelayThreadServers ==
  ASSUME TypeInv, ServersOK, NEW s \in Session, NEW c \in connecting[s],
         NEW l \in LinkId, ConnectRelay(s, c, l)
  PROVE  /\ ServersKept
         /\ c.srv \in ServerId /\ c.srv[2] = c.type /\ c.type \in RelayType
         /\ s \in m_servers'[c.srv].addresses \ m_servers'[c.srv].listening
         /\ s \in m_servers[c.srv].addresses \cap m_servers[c.srv].listening
<1> DEFINE i == c.srv
<1>1. c \in ConnectTo(s) /\ c.type \in RelayType
  BY DEF TypeInv, Clients, ConnectRelay
<1>2. i \in ServerId /\ i[2] = c.type
  BY <1>1 DEF ConnectTo, Named
<1>3. /\ s \in m_servers[i].listening \cap m_servers[i].addresses
      /\ Server(i, AddRelayConnector(m_servers[i], s)) /\ started' = started
  BY DEF ConnectRelay, history
<1>4. m_servers \in [ServerId -> ServerRecord]
  BY DEF TypeInv, Servers
<1>5. i[2] \in RelayType
  BY <1>1, <1>2
<1> HIDE DEF i
<1>6. ServersKept /\ s \in m_servers'[i].addresses \ m_servers'[i].listening
  BY <1>2, <1>3, <1>4, <1>5, ConnectorMoves DEF ServersKept
<1> QED
  BY <1>1, <1>2, <1>3, <1>6 DEF i

LEMMA ProbeServers ==
  ASSUME TypeInv, ServersOK, NEW s \in Session, NEW e \in Session, ExternalProbe(s, e)
  PROVE  ServersKept
<1> DEFINE i == m_tunnels[s][e].srv
<1>1. m_tunnels[s][e] \in ClientRecord /\ m_tunnels[s][e].ext = "probe"
  BY DEF TypeInv, Clients, ExternalProbe
<1>2. i \in ServerId /\ i[2] = "EXTERNAL"
  BY <1>1 DEF ClientRecord
<1>3. s \in m_servers[i].listening /\ ExternalAddress(i, s) /\ started' = started
  BY DEF ExternalProbe, history
<1>4. m_servers \in [ServerId -> ServerRecord]
  BY DEF TypeInv, Servers
<1> HIDE DEF i
<1> QED
  BY <1>2, <1>3, <1>4, ExternalAddressMoves DEF ServersKept

LEMMA ThreadServers ==
  ASSUME TypeInv, ServersOK, NEW i \in ServerId, ServerThread(i)
  PROVE  ServersKept
<1> USE DEF ServersKept
<1>1. m_servers \in [ServerId -> ServerRecord]
  BY DEF TypeInv, Servers
<1>2. CASE RelayListen(i)
  BY <1>1, <1>2, RelayListenMoves DEF RelayListen, history
<1>3. CASE RelayAnnounce(i)
  BY <1>1, <1>3, RelayAnnounceMoves DEF RelayAnnounce, history
<1>4. CASE RelayPair(i)
  BY <1>1, <1>4, RelayPairMoves DEF RelayPair, history
<1>5. CASE OnAddRelayServerConnector(i)
  BY <1>1, <1>5, RelayPairedMoves DEF OnAddRelayServerConnector, history
<1>6. CASE ExternalListen(i)
  BY <1>1, <1>6, ExternalListenMoves DEF ExternalListen, history
<1>7. CASE ExternalListenError(i)
  BY <1>1, <1>7, ExternalErrorMoves DEF ExternalListenError, history
<1>8. CASE GotExternalAddresses(i)
  BY <1>1, <1>8, GotExternalMoves DEF GotExternalAddresses, history
<1>9. ASSUME NEW s \in Session, RelayBound(i, s) PROVE ServersKept
  BY <1>1, <1>9, RelayBoundMoves DEF RelayBound, history
<1>10. ASSUME NEW s \in Session, RelayListenError(i, s) PROVE ServersKept
  BY <1>1, <1>10, RelayErrorMoves DEF RelayListenError, history
<1> QED
  BY <1>2, <1>3, <1>4, <1>5, <1>6, <1>7, <1>8, <1>9, <1>10 DEF ServerThread

LEMMA CheckedServers ==
  ASSUME TypeInv, ServersOK, NEW i \in ServerId, CheckServers(i)
  PROVE  ServersKept
<1> USE DEF ServersKept
<1>1. m_servers \in [ServerId -> ServerRecord]
  BY DEF TypeInv, Servers
<1>2. CASE m_servers[i].pc = "pairing"
  BY <1>1, <1>2, NoServerMoves DEF CheckServers
<1>3. CASE m_servers[i].pc # "pairing"
  <2>1. checker' = NoId /\ started' = started
    BY <1>3 DEF CheckServers
  <2> QED
    BY <1>1, <2>1, CheckedMoves
<1> QED
  BY <1>2, <1>3

(* The steps that leave the servers alone *)
LEMMA OtherServers ==
  ASSUME TypeInv, ServersOK, UNCHANGED <<m_servers, started>>
  PROVE  ServersKept
BY NoServerMoves DEF TypeInv, Servers, ServersKept

LEMMA ServersStep ==
  ASSUME TypeInv, ServersOK, Next
  PROVE  ServersKept
<1> USE DEF server, client, history
<1>1. CASE User
  BY <1>1, OtherServers DEF User, InitNewTunnel, DestroyTunnel
<1>2. CASE UserTypes
  BY <1>2, OtherServers DEF UserTypes, SetTypeTunnel, SetTunnelAvailableType
<1>3. CASE Checker
  <2>1. ASSUME NEW s \in Session, NEW e \in Session, CheckTunnels(s, e) PROVE ServersKept
    BY <2>1, OtherServers DEF CheckTunnels
  <2>2. ASSUME NEW p \in Pair, CheckSteps(p) PROVE ServersKept
    BY <2>2, OtherServers DEF CheckSteps
  <2> QED
    BY <1>3, <2>1, <2>2, CheckedServers DEF Checker
<1>4. ASSUME NEW s \in Session, ServerHandler(s) PROVE ServersKept
  <2>1. CASE OnPeerData(s)
    BY <2>1, OtherServers DEF OnPeerData
  <2>2. CASE OnAvailablePearTypes(s)
    BY <2>2, OtherServers DEF OnAvailablePearTypes
  <2>3. CASE OnInitTunnelComplete(s)
    BY <2>3, OtherServers DEF OnInitTunnelComplete
  <2>4. CASE ForwardTryConnectTo(s)
    BY <2>4, OtherServers DEF ForwardTryConnectTo
  <2> QED
    BY <1>4, <2>1, <2>2, <2>3, <2>4, InitTunnelServers DEF ServerHandler
<1>5. ASSUME NEW s \in Session, ClientHandler(s) PROVE ServersKept
  <2>1. UNCHANGED <<m_servers, started>>
    BY <1>5 DEF ClientHandler, OnInitTunnelStarted, NotFound, CreateLocalListenThread,
       CreateLocalUDPSocket, InitExternalConnectThread, CreateRelayConnectThread,
       OnTryConnectTo, InitMsg
  <2> QED
    BY <2>1, OtherServers
<1>6. ASSUME NEW s \in Session, ClientThread(s) PROVE ServersKept
  <2>1. ASSUME NEW e \in Session, ListenBound(s, e) \/ OnErrorLocalListener(s, e)
                                    \/ ExternalProbeFails(s, e)
        PROVE  ServersKept
    BY <2>1, OtherServers DEF ListenBound, OnErrorLocalListener, ExternalProbeFails
  <2>2. ASSUME NEW c \in connecting[s],
               OnErrorLocalConnect(s, c) \/ OnErrorRelayConnect(s, c)
                 \/ OnErrorExternalConnect(s, c)
        PROVE  ServersKept
    BY <2>2, OtherServers DEF OnErrorLocalConnect, OnErrorRelayConnect, OnErrorExternalConnect
  <2>3. ASSUME NEW c \in connecting[s], NEW l \in LinkId, ConnectLocalTCP(s, c, l)
        PROVE  ServersKept
    BY <2>3, OtherServers DEF ConnectLocalTCP
  <2>4. ASSUME NEW c \in connecting[s], NEW l \in LinkId, NEW d \in connecting[c.ext],
               ConnectUDT(s, c, d, l)
        PROVE  ServersKept
    BY <2>4, OtherServers DEF ConnectUDT
  <2> QED
    BY <1>6, <2>1, <2>2, <2>3, <2>4, RelayThreadServers, ProbeServers DEF ClientThread
<1>7. ASSUME NEW l \in LinkId, LinkStep(l) PROVE ServersKept
  <2>1. UNCHANGED <<m_servers, started>>
    BY <1>7 DEF LinkStep, ConnectionEnds, OnAddLocalTCPConnector, OnAddLocalUDPConnector,
       OnAddRelayConnector, OnAddExternalConnector, OnAddConnector, OnConnected, OnModuleName
  <2> QED
    BY <2>1, OtherServers
<1> QED
  BY <1>1, <1>2, <1>3, <1>4, <1>5, <1>6, <1>7, ThreadServers DEF Next

-----------------------------------------------------------------------------
(* What the server sends and what the clients send *)
LEMMA ServerTells ==
  ASSUME TypeInv, ServersOK, NEW i \in ServerId, m_servers[i].pc # "none", NEW s \in Ends(i)
  PROVE  /\ Ends(i) \subseteq Session /\ OtherEnd(i, s) \in Ends(i) \ {s}
         /\ [kind |-> "InitTunnel", ext |-> OtherEnd(i, s), type |-> i[2], srv |-> i]
              \in ToClientMsg(s)
         /\ [kind |-> "TryConnectTo", ext |-> OtherEnd(i, s), type |-> "EXTERNAL", port |-> 0]
              \in ToClientMsg(s)
<1>1. Ends(i) \subseteq Session /\ m_servers[i].one # m_servers[i].two
  BY DEF TypeInv, Servers, ServerRecord, ServersOK, ServerOK, Ends
<1>2. OtherEnd(i, s) \in Ends(i) \ {s}
  BY <1>1, TwoEnds
<1>3. i[2] \in RelayType \cup {"EXTERNAL"}
  BY DEF ServerId
<1>4. [kind |-> "InitTunnel", ext |-> OtherEnd(i, s), type |-> i[2], srv |-> i]
        \in ToClientMsg(s)
  BY <1>1, <1>2, <1>3 DEF ToClientMsg, Named, AllType, LocalType, RelayType
<1>5. [kind |-> "TryConnectTo", ext |-> OtherEnd(i, s), type |-> "EXTERNAL", port |-> 0]
        \in ToClientMsg(s)
  BY <1>1, <1>2, TunnelAssumption DEF ToClientMsg
<1> QED
  BY <1>1, <1>2, <1>4, <1>5

LEMMA ThreadWires ==
  ASSUME TypeInv, ServersOK, NEW i \in ServerId, ServerThread(i)
  PROVE  ToClients' /\ toServer' = toServer
<1> USE DEF client, history
<1>1. ToClients
  BY DEF TypeInv, Wires, ToClients
<1>2. CASE RelayListen(i)
  BY <1>1, <1>2 DEF RelayListen, ToClients
<1>3. CASE RelayAnnounce(i)
  <2> DEFINE m == [s \in Session |-> [kind |-> "InitTunnel", ext |-> OtherEnd(i, s),
                                      type |-> i[2], srv |-> i]]
  <2>1. m_servers[i].pc # "none" /\ toServer' = toServer
    BY <1>3 DEF RelayAnnounce
  <2>2. Ends(i) \subseteq Session
    BY DEF TypeInv, Servers, ServerRecord, Ends
  <2>3. \A s \in Ends(i) : m[s] \in ToClientMsg(s)
    BY <2>1, <2>2, ServerTells
  <2>4. CASE toClient' = toClient
    BY <1>1, <2>1, <2>4 DEF ToClients
  <2>5. CASE toClient' # toClient
    <3>1. toClient' = [s \in Session |-> IF s \in Ends(i) THEN Append(toClient[s], m[s])
                                         ELSE toClient[s]]
      BY <1>3, <2>5 DEF RelayAnnounce
    <3> HIDE DEF m
    <3> QED
      BY <1>1, <2>1, <2>2, <2>3, <3>1, Told
  <2> QED
    BY <2>4, <2>5
<1>4. CASE RelayPair(i)
  BY <1>1, <1>4 DEF RelayPair, ToClients
<1>5. CASE OnAddRelayServerConnector(i)
  BY <1>1, <1>5 DEF OnAddRelayServerConnector, ToClients
<1>6. CASE ExternalListen(i)
  <2>1. PICK s \in Ends(i) : toClient' = OnCreatedExternalListener(i, s)
    BY <1>6 DEF ExternalListen, Ends
  <2>2. m_servers[i].pc # "none" /\ toServer' = toServer /\ i[2] = "EXTERNAL"
    BY <1>6 DEF ExternalListen
  <2> DEFINE m == [kind |-> "InitTunnel", ext |-> OtherEnd(i, s), type |-> "EXTERNAL",
                   srv |-> i]
  <2>3. m \in ToClientMsg(s) /\ s \in Session
    BY <2>2, ServerTells
  <2>4. toClient' = toClient \/ toClient' = [toClient EXCEPT ![s] = Append(@, m)]
    BY <2>1 DEF OnCreatedExternalListener, ToClient
  <2> HIDE DEF m
  <2>5. toClient[s] \in Seq(ToClientMsg(s))
    BY <1>1, <2>3 DEF ToClients
  <2>6. Append(toClient[s], m) \in Seq(ToClientMsg(s))
    BY <2>3, <2>5
  <2> QED
    BY <1>1, <2>2, <2>4, <2>6 DEF ToClients
<1>7. CASE ExternalListenError(i)
  BY <1>1, <1>7 DEF ExternalListenError, ToClients
<1>8. CASE GotExternalAddresses(i)
  <2> DEFINE m == [s \in Session |-> [kind |-> "TryConnectTo", ext |-> OtherEnd(i, s),
                                      type |-> "EXTERNAL", port |-> 0]]
  <2>1. m_servers[i].pc # "none" /\ toServer' = toServer
    BY <1>8 DEF GotExternalAddresses
  <2>2. Ends(i) \subseteq Session
    BY DEF TypeInv, Servers, ServerRecord, Ends
  <2>3. \A s \in Ends(i) : m[s] \in ToClientMsg(s)
    BY <2>1, <2>2, ServerTells
  <2>4. CASE toClient' = toClient
    BY <1>1, <2>1, <2>4 DEF ToClients
  <2>5. CASE toClient' # toClient
    <3>1. toClient' = [s \in Session |-> IF s \in Ends(i) THEN Append(toClient[s], m[s])
                                         ELSE toClient[s]]
      BY <1>8, <2>5 DEF GotExternalAddresses
    <3> HIDE DEF m
    <3> QED
      BY <1>1, <2>1, <2>2, <2>3, <3>1, Told
  <2> QED
    BY <2>4, <2>5
<1>9. ASSUME NEW s \in Session, RelayBound(i, s) PROVE ToClients' /\ toServer' = toServer
  BY <1>1, <1>9 DEF RelayBound, ToClients
<1>10. ASSUME NEW s \in Session, RelayListenError(i, s)
       PROVE  ToClients' /\ toServer' = toServer
  BY <1>1, <1>10 DEF RelayListenError, ToClients
<1> QED
  BY <1>2, <1>3, <1>4, <1>5, <1>6, <1>7, <1>8, <1>9, <1>10 DEF ServerThread

(* Both are told that the negotiation starts, and the local type to begin with *)
LEMMA InitTunnelWires ==
  ASSUME TypeInv, NEW s \in Session, OnInitTunnel(s)
  PROVE  ToClients' /\ FromClients'
<1> DEFINE e == Head(toServer[s]).ext
           types == Chosen(s, e)
           t == CHOOSE x \in types \cap LocalType : TRUE
           m(x) == [kind |-> "InitTunnel", ext |-> x, srv |-> NoId, type |-> t]
           local(x) == IF types \cap LocalType = {} THEN <<>> ELSE <<m(x)>>
<1>1. FromClients /\ ToClients
  BY DEF TypeInv, Wires, FromClients, ToClients
<1>2. FromClients' /\ e \in Session \ {s}
  BY <1>1, Handled, FromClientMsgs DEF OnInitTunnel
<1>3. CASE TunnelStep(s, e) \in m_tunnelsStep
  <2>1. toClient' = toClient
    BY <1>3 DEF OnInitTunnel
  <2> QED
    BY <1>1, <1>2, <2>1 DEF ToClients
<1>4. CASE TunnelStep(s, e) \notin m_tunnelsStep
  <2>1. toClient' = [toClient EXCEPT
                      ![s] = @ \o <<InitTunnelStarted(e)>> \o local(e),
                      ![e] = @ \o <<InitTunnelStarted(s)>> \o local(s)]
    BY <1>4 DEF OnInitTunnel
  <2>2. ASSUME NEW x \in Session, NEW y \in Session, x # y
        PROVE  /\ <<InitTunnelStarted(y)>> \in Seq(ToClientMsg(x))
               /\ local(y) \in Seq(ToClientMsg(x))
    <3>1. InitTunnelStarted(y) \in ToClientMsg(x)
      BY <2>2 DEF InitTunnelStarted, ToClientMsg
    <3>2. ASSUME types \cap LocalType # {} PROVE m(y) \in ToClientMsg(x)
      <4>1. t \in LocalType
        BY <3>2
      <4> HIDE DEF t
      <4> QED
        BY <2>2, <4>1 DEF ToClientMsg, AllType, LocalType
    <3> HIDE DEF m, types
    <3> QED
      BY <3>1, <3>2
  <2>3. /\ toClient[s] \in Seq(ToClientMsg(s)) /\ toClient[e] \in Seq(ToClientMsg(e))
        /\ s # e /\ e \in Session
    BY <1>1, <1>2 DEF ToClients
  <2>4. /\ toClient[s] \o <<InitTunnelStarted(e)>> \o local(e) \in Seq(ToClientMsg(s))
        /\ toClient[e] \o <<InitTunnelStarted(s)>> \o local(s) \in Seq(ToClientMsg(e))
    <3> HIDE DEF local, e
    <3> QED
      BY <2>2, <2>3
  <2> HIDE DEF local, e
  <2> QED
    BY <1>1, <1>2, <2>1, <2>3, <2>4 DEF ToClients
<1> QED
  BY <1>3, <1>4

LEMMA ForwardedWires ==
  ASSUME TypeInv, NEW s \in Session, ForwardTryConnectTo(s)
  PROVE  ToClients' /\ FromClients'
<1> DEFINE m == Head(toServer[s])
           f == [m EXCEPT !.ext = s]
<1>1. FromClients /\ ToClients
  BY DEF TypeInv, Wires, FromClients, ToClients
<1>2. FromClients' /\ m \in FromClientMsg(s) /\ m.kind = "TryConnectTo"
  BY <1>1, Handled DEF ForwardTryConnectTo
<1>3. /\ m.ext \in Session \ {s} /\ m.type \in LocalType /\ m.port \in 0..MaxInit
      /\ m = [kind |-> "TryConnectTo", ext |-> m.ext, type |-> m.type, port |-> m.port]
  BY <1>2, FromClientMsgs
<1>4. toClient' = [toClient EXCEPT ![m.ext] = Append(@, f)]
  BY DEF ForwardTryConnectTo, TryConnectToMessage, ToClient
<1>5. f = [kind |-> "TryConnectTo", ext |-> s, type |-> m.type, port |-> m.port]
  BY <1>3
<1> HIDE DEF m, f
<1>6. f \in ToClientMsg(m.ext)
  BY <1>3, <1>5 DEF ToClientMsg
<1>7. toClient[m.ext] \in Seq(ToClientMsg(m.ext))
  BY <1>1, <1>3 DEF ToClients
<1>8. Append(toClient[m.ext], f) \in Seq(ToClientMsg(m.ext))
  BY <1>6, <1>7
<1>9. ToClients'
  BY <1>1, <1>4, <1>8 DEF ToClients
<1> QED
  BY <1>2, <1>9

LEMMA InitNewWires ==
  ASSUME TypeInv, NEW s \in Session, NEW e \in Session, NEW t \in Type, s # e,
         InitNewTunnel(s, e, t)
  PROVE  FromClients' /\ toClient' = toClient
<1> DEFINE peer == [kind |-> "PeerData", ext |-> e, type |-> t]
           first == IF t = "UNKNOWN" THEN <<>> ELSE <<peer>>
           m == [kind |-> "InitTunnelRequest", ext |-> e]
<1>1. toServer' = [toServer EXCEPT ![s] = @ \o first \o <<m>>] /\ toClient' = toClient
  BY DEF InitNewTunnel
<1>2. m \in FromClientMsg(s)
  BY DEF FromClientMsg
<1>3. t # "UNKNOWN" => peer \in FromClientMsg(s)
  BY TunnelAssumption DEF FromClientMsg
<1> HIDE DEF peer, m
<1>4. first \in Seq(FromClientMsg(s))
  BY <1>3
<1>5. FromClients
  BY DEF TypeInv, Wires, FromClients
<1>6. toServer[s] \in Seq(FromClientMsg(s))
  BY <1>5 DEF FromClients
<1> HIDE DEF first
<1>7. toServer[s] \o first \o <<m>> \in Seq(FromClientMsg(s))
  BY <1>2, <1>4, <1>6
<1> QED
  BY <1>1, <1>5, <1>7 DEF FromClients

LEMMA ClientWires ==
  ASSUME TypeInv, NEW s \in Session, ClientHandler(s)
  PROVE  FromClients' /\ ToClients'
<1>1. FromClients /\ ToClients
  BY DEF TypeInv, Wires, FromClients, ToClients
<1>2. PICK kind : FromServer(s, kind)
  BY DEF ClientHandler, OnInitTunnelStarted, NotFound, CreateLocalListenThread,
     CreateLocalUDPSocket, InitExternalConnectThread, CreateRelayConnectThread,
     OnTryConnectTo, InitMsg
<1>3. ToClients' /\ Head(toClient[s]) \in ToClientMsg(s)
  BY <1>1, <1>2, Delivered
<1>4. toServer' = toServer
        \/ ToServer(s, [kind |-> "TryConnectTo", ext |-> Head(toClient[s]).ext,
                        type |-> "LOCAL_UDP", port |-> 0])
  BY DEF ClientHandler, OnInitTunnelStarted, NotFound, CreateLocalListenThread,
     CreateLocalUDPSocket, InitExternalConnectThread, CreateRelayConnectThread,
     OnTryConnectTo, InitMsg
<1>5. Head(toClient[s]).ext \in Session \ {s}
  BY <1>3, ToClientMsgs
<1> DEFINE m == [kind |-> "TryConnectTo", ext |-> Head(toClient[s]).ext,
                 type |-> "LOCAL_UDP", port |-> 0]
<1>6. m \in FromClientMsg(s)
  BY <1>5, TunnelAssumption DEF FromClientMsg, LocalType
<1>7. toServer' = toServer \/ ToServer(s, m)
  BY <1>4
<1> HIDE DEF m
<1>8. CASE toServer' = toServer
  BY <1>1, <1>3, <1>8 DEF FromClients
<1>9. CASE ToServer(s, m)
  BY <1>1, <1>3, <1>6, <1>9, Sent
<1> QED
  BY <1>7, <1>8, <1>9

LEMMA BoundWires ==
  ASSUME TypeInv, NEW s \in Session, NEW e \in Session, ListenBound(s, e)
  PROVE  FromClients' /\ toClient' = toClient
<1>0. s # e
  <2>1. m_tunnels[s][s].listen = "none" /\ stale[s][s] = 0
    BY DEF TypeInv, Clients, NoTunnel
  <2> QED
    BY <2>1 DEF ListenBound
<1>1. FromClients
  BY DEF TypeInv, Wires, FromClients
<1>2. m_tunnels[s][e].port \in 0..MaxInit /\ 0 \in 0..MaxInit
  BY TunnelAssumption DEF TypeInv, Clients, ClientRecord
<1> DEFINE sent(p) == [kind |-> "TryConnectTo", ext |-> e, type |-> "LOCAL_TCP", port |-> p]
<1>3. ToServer(s, sent(m_tunnels[s][e].port)) \/ ToServer(s, sent(0))
  BY DEF ListenBound
<1>4. PICK port \in 0..MaxInit : ToServer(s, sent(port))
  <2> HIDE DEF sent
  <2> QED
    BY <1>2, <1>3
<1> DEFINE m == [kind |-> "TryConnectTo", ext |-> e, type |-> "LOCAL_TCP", port |-> port]
<1>5. m \in FromClientMsg(s)
  BY <1>0, <1>4 DEF FromClientMsg, LocalType
<1>6. toClient' = toClient
  BY DEF ListenBound
<1> HIDE DEF m
<1>7. ToServer(s, m)
  BY <1>4 DEF m
<1> QED
  BY <1>1, <1>5, <1>6, <1>7, Sent

LEMMA QuietWires ==
  ASSUME TypeInv, UNCHANGED <<toServer, toClient>>
  PROVE  Wires'
BY DEF TypeInv, Wires

LEMMA WiresStep ==
  ASSUME TypeInv, ServersOK, EndsNameEachOther, Next
  PROVE  Wires'
<1>0. FromClients /\ ToClients
  BY DEF TypeInv, Wires, FromClients, ToClients
<1>a. ASSUME FromClients', ToClients' PROVE Wires'
  BY <1>a DEF Wires, FromClients, ToClients
<1>b. ASSUME toClient' = toClient, FromClients' PROVE Wires'
  BY <1>0, <1>b DEF Wires, FromClients, ToClients
<1>c. ASSUME toServer' = toServer, ToClients' PROVE Wires'
  BY <1>0, <1>c DEF Wires, FromClients, ToClients
<1> USE DEF server, client, history
<1>1. CASE User
  BY <1>1, <1>b, InitNewWires, QuietWires DEF User, DestroyTunnel
<1>2. CASE UserTypes
  <2>1. ASSUME NEW s \in Session, NEW t \in Announced, SetTunnelAvailableType(s, t)
        PROVE  Wires'
    <3> DEFINE m == [kind |-> "AvailablePearTypes", types |-> t]
    <3>1. m \in FromClientMsg(s)
      BY TunnelAssumption DEF FromClientMsg
    <3>2. ToServer(s, m) /\ toClient' = toClient
      BY <2>1 DEF SetTunnelAvailableType
    <3> HIDE DEF m
    <3> QED
      BY <1>0, <1>b, <3>1, <3>2, Sent
  <2> QED
    BY <1>2, <2>1, QuietWires DEF UserTypes, SetTypeTunnel
<1>3. CASE Checker
  BY <1>3, QuietWires DEF Checker, CheckTunnels, CheckServers, CheckSteps
<1>4. ASSUME NEW s \in Session, ServerHandler(s) PROVE Wires'
  <2>1. CASE OnPeerData(s)
    <3>1. FromClients' /\ toClient' = toClient
      BY <1>0, <2>1, Handled DEF OnPeerData
    <3> QED
      BY <1>b, <3>1
  <2>2. CASE OnAvailablePearTypes(s)
    <3>1. FromClients' /\ toClient' = toClient
      BY <1>0, <2>2, Handled DEF OnAvailablePearTypes
    <3> QED
      BY <1>b, <3>1
  <2>3. CASE OnInitTunnelComplete(s)
    <3>1. FromClients' /\ toClient' = toClient
      BY <1>0, <2>3, Handled DEF OnInitTunnelComplete
    <3> QED
      BY <1>b, <3>1
  <2> QED
    BY <1>4, <1>a, <2>1, <2>2, <2>3, InitTunnelWires, ForwardedWires DEF ServerHandler
<1>5. ASSUME NEW s \in Session, ClientHandler(s) PROVE Wires'
  BY <1>5, <1>a, ClientWires
<1>6. ASSUME NEW s \in Session, ClientThread(s) PROVE Wires'
  <2>1. ASSUME NEW e \in Session, ListenBound(s, e) PROVE Wires'
    BY <1>b, <2>1, BoundWires
  <2>2. ASSUME NEW e \in Session, OnErrorLocalListener(s, e) \/ ExternalProbe(s, e)
                                    \/ ExternalProbeFails(s, e)
        PROVE  Wires'
    BY <2>2, QuietWires DEF OnErrorLocalListener, ExternalProbe, ExternalProbeFails
  <2>3. ASSUME NEW c \in connecting[s],
               OnErrorLocalConnect(s, c) \/ OnErrorRelayConnect(s, c)
                 \/ OnErrorExternalConnect(s, c)
        PROVE  Wires'
    BY <2>3, QuietWires DEF OnErrorLocalConnect, OnErrorRelayConnect, OnErrorExternalConnect
  <2>4. ASSUME NEW c \in connecting[s], NEW l \in LinkId,
               ConnectLocalTCP(s, c, l) \/ ConnectRelay(s, c, l)
        PROVE  Wires'
    BY <2>4, QuietWires DEF ConnectLocalTCP, ConnectRelay
  <2>5. ASSUME NEW c \in connecting[s], NEW l \in LinkId, NEW d \in connecting[c.ext],
               ConnectUDT(s, c, d, l)
        PROVE  Wires'
    BY <2>5, QuietWires DEF ConnectUDT
  <2> QED
    BY <1>6, <2>1, <2>2, <2>3, <2>4, <2>5 DEF ClientThread
<1>7. ASSUME NEW i \in ServerId, ServerThread(i) PROVE Wires'
  BY <1>7, <1>c, ThreadWires
<1>8. ASSUME NEW l \in LinkId, LinkStep(l) PROVE Wires'
  <2>1. ASSUME NEW s \in Session, OnConnected(s, l) PROVE Wires'
    <3> DEFINE x == link[l].name[s]
               m == [kind |-> "InitTunnelComplete", ext |-> x]
    <3>1. x \in Session \ {s}
      BY <2>1 DEF TypeInv, Links, LinkRecord, OnConnected, EndsNameEachOther
    <3>2. m \in FromClientMsg(s)
      BY <3>1 DEF FromClientMsg
    <3>3. ToServer(s, m) /\ toClient' = toClient
      BY <2>1 DEF OnConnected, InitTunnelComplete
    <3> HIDE DEF m
    <3> QED
      BY <1>0, <1>b, <3>2, <3>3, Sent
  <2>2. CASE \A s \in Session : ~OnConnected(s, l)
    <3>1. UNCHANGED <<toServer, toClient>>
      BY <1>8, <2>2 DEF LinkStep, ConnectionEnds, OnAddLocalTCPConnector, OnAddConnector,
         OnAddLocalUDPConnector, OnAddRelayConnector, OnAddExternalConnector, OnModuleName
    <3> QED
      BY <3>1, QuietWires
  <2> QED
    BY <2>1, <2>2
<1> QED
  BY <1>1, <1>2, <1>3, <1>4, <1>5, <1>6, <1>7, <1>8 DEF Next

-----------------------------------------------------------------------------
(* The clients' entries and threads *)
LEMMA Idle ==
  ASSUME NEW t \in ClientRecord, ~t.on
  PROVE  /\ t.listen = "none" /\ ~t.udp /\ t.ext = "none" /\ t.srv = NoId
         /\ [t EXCEPT !.listen = "none"] = t /\ [t EXCEPT !.udp = FALSE] = t
         /\ [t EXCEPT !.ext = "none"] = t
<1>1. t \in TunnelRecord /\ t = NoTunnel
  BY DEF ClientRecord, TunnelRecord
<1>2. t.listen = "none" /\ ~t.udp /\ t.ext = "none" /\ t.srv = NoId /\ t.udp \in BOOLEAN
  BY <1>1 DEF NoTunnel
<1>3. [t EXCEPT !.listen = "none"] = t
  BY <1>1, <1>2 DEF TunnelRecord
<1>4. [t EXCEPT !.ext = "none"] = t
  BY <1>1, <1>2 DEF TunnelRecord
<1>5. t.udp = FALSE
  BY <1>2
<1>6. [t EXCEPT !.udp = t.udp] = t
  BY <1>1 DEF TunnelRecord
<1>7. [t EXCEPT !.udp = FALSE] = t
  BY <1>5, <1>6
<1> QED
  BY <1>2, <1>3, <1>4, <1>7

LEMMA Updates ==
  ASSUME NEW t \in ClientRecord
  PROVE  /\ [t EXCEPT !.listen = "none"] \in ClientRecord
         /\ [t EXCEPT !.udp = FALSE] \in ClientRecord
         /\ [t EXCEPT !.ext = "none"] \in ClientRecord
         /\ t.on =>
              /\ \A v \in {"run", "listening", "ended"} :
                   [t EXCEPT !.listen = v] \in ClientRecord
              /\ \A p \in 0..MaxInit :
                   [t EXCEPT !.listen = "run", !.port = p] \in ClientRecord
              /\ [t EXCEPT !.udp = TRUE] \in ClientRecord
              /\ \A v \in {"connect", "ended"} : [t EXCEPT !.ext = v] \in ClientRecord
              /\ \A i \in ServerId : i[2] = "EXTERNAL" =>
                   [t EXCEPT !.ext = "probe", !.srv = i] \in ClientRecord
<1>1. t \in TunnelRecord
  BY DEF ClientRecord, TunnelRecord
<1>2. CASE t.on
  <2>1. [t EXCEPT !.listen = "none"] \in ClientRecord
    BY <1>2 DEF ClientRecord
  <2>2. [t EXCEPT !.udp = FALSE] \in ClientRecord
    BY <1>2 DEF ClientRecord
  <2>3. [t EXCEPT !.ext = "none"] \in ClientRecord
    BY <1>2 DEF ClientRecord
  <2>4. \A v \in {"run", "listening", "ended"} : [t EXCEPT !.listen = v] \in ClientRecord
    BY <1>2 DEF ClientRecord
  <2>5. \A p \in 0..MaxInit : [t EXCEPT !.listen = "run", !.port = p] \in ClientRecord
    BY <1>2 DEF ClientRecord
  <2>6. [t EXCEPT !.udp = TRUE] \in ClientRecord
    BY <1>2 DEF ClientRecord
  <2>7. \A v \in {"connect", "ended"} : [t EXCEPT !.ext = v] \in ClientRecord
    BY <1>2 DEF ClientRecord
  <2>8. ASSUME NEW i \in ServerId, i[2] = "EXTERNAL"
        PROVE  [t EXCEPT !.ext = "probe", !.srv = i] \in ClientRecord
    BY <1>2, <2>8 DEF ClientRecord
  <2> QED
    BY <2>1, <2>2, <2>3, <2>4, <2>5, <2>6, <2>7, <2>8
<1>3. CASE ~t.on
  BY <1>3, Idle
<1> QED
  BY <1>2, <1>3

EntriesOK ==
  /\ m_tunnels \in [Session -> [Session -> ClientRecord]]
  /\ \A s \in Session : m_tunnels[s][s] = NoTunnel
StaleOK ==
  /\ stale \in [Session -> [Session -> Nat]]
  /\ \A s \in Session : stale[s][s] = 0
ThreadsOK ==
  /\ DOMAIN connecting = Session
  /\ \A s \in Session : connecting[s] \subseteq ConnectTo(s)

LEMMA EntrySet ==
  ASSUME EntriesOK, NEW s \in Session, NEW e \in Session, NEW t \in ClientRecord,
         Tunnel(s, e, t), s = e => t = NoTunnel
  PROVE  EntriesOK'
<1>1. m_tunnels[s] \in [Session -> ClientRecord]
  BY DEF EntriesOK
<1>2. [m_tunnels[s] EXCEPT ![e] = t] \in [Session -> ClientRecord]
  BY <1>1
<1>3. m_tunnels' = [m_tunnels EXCEPT ![s] = [m_tunnels[s] EXCEPT ![e] = t]]
  BY DEF Tunnel
<1>4. m_tunnels' \in [Session -> [Session -> ClientRecord]]
  BY <1>2, <1>3 DEF EntriesOK
<1>5. ASSUME NEW x \in Session PROVE m_tunnels'[x][x] = NoTunnel
  BY <1>1, <1>3 DEF EntriesOK
<1> QED
  BY <1>4, <1>5 DEF EntriesOK

LEMMA StopStale ==
  ASSUME EntriesOK, StaleOK, NEW s \in Session, NEW e \in Session, StopListen(s, e)
  PROVE  StaleOK'
<1> DEFINE n == IF m_tunnels[s][e].listen = "run" THEN stale[s][e] + 1 ELSE stale[s][e]
<1>1. stale[s] \in [Session -> Nat] /\ stale[s][e] \in Nat
  BY DEF StaleOK
<1>2. stale' = [stale EXCEPT ![s] = [stale[s] EXCEPT ![e] = n]]
  BY DEF StopListen
<1>3. n \in Nat
  BY <1>1
<1>4. s = e => n = 0
  BY DEF EntriesOK, StaleOK, NoTunnel
<1> HIDE DEF n
<1>5. stale' \in [Session -> [Session -> Nat]]
  BY <1>1, <1>2, <1>3 DEF StaleOK
<1>6. ASSUME NEW x \in Session PROVE stale'[x][x] = 0
  BY <1>1, <1>2, <1>4 DEF StaleOK
<1> QED
  BY <1>5, <1>6 DEF StaleOK

LEMMA ThreadAdded ==
  ASSUME ThreadsOK, started \in 0..MaxInit, NEW s \in Session, NEW e \in Session \ {s},
         NEW type \in AllType, NEW port \in 0..MaxInit, NEW i,
         IF type \in RelayType THEN i \in ServerId /\ i[2] = type ELSE i = NoId,
         ConnectThread(s, e, type, port, i)
  PROVE  ThreadsOK'
<1> DEFINE c == [ext |-> e, type |-> type, port |-> port, srv |-> i, at |-> started]
<1>1. c \in ConnectTo(s)
  BY DEF ConnectTo, Named
<1>2. connecting' = [connecting EXCEPT ![s] = @ \cup {c}]
  BY DEF ConnectThread
<1> HIDE DEF c
<1> QED
  BY <1>1, <1>2 DEF ThreadsOK

LEMMA ThreadEnded ==
  ASSUME ThreadsOK, NEW s \in Session, NEW c, connecting' = EndConnecting(connecting, s, c)
  PROVE  ThreadsOK'
BY DEF ThreadsOK, EndConnecting

ClientsOK == EntriesOK /\ StaleOK /\ ThreadsOK

LEMMA QuietClients ==
  ASSUME ClientsOK, UNCHANGED client
  PROVE  ClientsOK'
BY DEF ClientsOK, EntriesOK, StaleOK, ThreadsOK, client

LEMMA HandlerClients ==
  ASSUME TypeInv, ClientsOK, NEW s \in Session, ClientHandler(s)
  PROVE  ClientsOK'
<1> DEFINE m == Head(toClient[s])
           e == m.ext
           t == m_tunnels[s][e]
<1>1. PICK kind : FromServer(s, kind)
  BY DEF ClientHandler, OnInitTunnelStarted, NotFound, CreateLocalListenThread,
     CreateLocalUDPSocket, InitExternalConnectThread, CreateRelayConnectThread,
     OnTryConnectTo, InitMsg
<1>2. m \in ToClientMsg(s) /\ m.kind = kind
  BY <1>1, Delivered DEF TypeInv, Wires, ToClients
<1>3. e \in Session \ {s}
  BY <1>2, ToClientMsgs
<1>4. t \in ClientRecord
  BY <1>3 DEF ClientsOK, EntriesOK
<1>5. m.kind = "TryConnectTo" =>
        m.type \in LocalType \cup {"EXTERNAL"} /\ m.port \in 0..MaxInit
  BY <1>2, ToClientMsgs
<1>6. m.kind = "InitTunnel" =>
        /\ m.type \in AllType
        /\ m.type \notin LocalType => m.srv \in ServerId /\ m.srv[2] = m.type
  BY <1>2, ToClientMsgs DEF Named
<1>7. started \in 0..MaxInit /\ 0 \in 0..MaxInit
  BY TunnelAssumption DEF TypeInv, Rest
<1> USE DEF ClientsOK
<1>a. ASSUME UNCHANGED stale PROVE StaleOK'
  BY <1>a DEF StaleOK
<1>b. ASSUME UNCHANGED connecting PROVE ThreadsOK'
  BY <1>b DEF ThreadsOK
<1>c. ASSUME UNCHANGED m_tunnels PROVE EntriesOK'
  BY <1>c DEF EntriesOK
<1>8. CASE OnInitTunnelStarted(s)
  <2>1. /\ Tunnel(s, e, IF t.on THEN t ELSE NewTunnel)
        /\ UNCHANGED <<stale, connecting>>
    BY <1>8 DEF OnInitTunnelStarted
  <2> DEFINE u == IF t.on THEN t ELSE NewTunnel
  <2>2. u \in ClientRecord
    BY <1>4, Blanks
  <2> HIDE DEF u, e
  <2>3. Tunnel(s, e, u)
    BY <2>1 DEF u
  <2> QED
    BY <1>3, <1>a, <1>b, <2>1, <2>2, <2>3, EntrySet
<1>9. CASE NotFound(s)
  BY <1>9, QuietClients DEF NotFound
<1>10. CASE CreateLocalListenThread(s)
  <2>1. /\ Tunnel(s, e, [t EXCEPT !.listen = "run", !.port = started]) /\ t.on
        /\ StopListen(s, e) /\ UNCHANGED connecting
    BY <1>10 DEF CreateLocalListenThread
  <2> DEFINE u == [t EXCEPT !.listen = "run", !.port = started]
  <2>2. u \in ClientRecord
    <3> HIDE DEF t
    <3> QED
      BY <1>4, <1>7, <2>1, Updates
  <2> HIDE DEF u, e
  <2>3. Tunnel(s, e, u)
    BY <2>1 DEF u
  <2> QED
    BY <1>3, <1>b, <2>1, <2>2, <2>3, EntrySet, StopStale
<1>11. CASE CreateLocalUDPSocket(s)
  <2>1. /\ Tunnel(s, e, [t EXCEPT !.udp = TRUE]) /\ t.on /\ UNCHANGED <<stale, connecting>>
    BY <1>11 DEF CreateLocalUDPSocket
  <2> DEFINE u == [t EXCEPT !.udp = TRUE]
  <2>2. u \in ClientRecord
    <3> HIDE DEF t
    <3> QED
      BY <1>4, <2>1, Updates
  <2> HIDE DEF u, e
  <2>3. Tunnel(s, e, u)
    BY <2>1 DEF u
  <2> QED
    BY <1>3, <1>a, <1>b, <2>1, <2>2, <2>3, EntrySet
<1>12. CASE InitExternalConnectThread(s)
  <2>1. /\ Tunnel(s, e, [t EXCEPT !.ext = "probe", !.srv = m.srv]) /\ t.on
        /\ UNCHANGED <<stale, connecting>> /\ m.kind = "InitTunnel" /\ m.type = "EXTERNAL"
    BY <1>12 DEF InitExternalConnectThread, InitMsg, FromServer
  <2> DEFINE u == [t EXCEPT !.ext = "probe", !.srv = m.srv]
  <2>2. m.srv \in ServerId /\ m.srv[2] = "EXTERNAL"
    BY <1>6, <2>1 DEF LocalType
  <2>3. u \in ClientRecord
    <3> HIDE DEF t
    <3> QED
      BY <1>4, <2>1, <2>2, Updates
  <2> HIDE DEF u, e
  <2>4. Tunnel(s, e, u)
    BY <2>1 DEF u
  <2> QED
    BY <1>3, <1>a, <1>b, <2>1, <2>3, <2>4, EntrySet
<1>13. CASE CreateRelayConnectThread(s)
  <2>1. /\ ConnectThread(s, e, m.type, 0, m.srv) /\ UNCHANGED <<m_tunnels, stale>>
        /\ m.kind = "InitTunnel" /\ m.type \in RelayType
    BY <1>13 DEF CreateRelayConnectThread, InitMsg, FromServer
  <2>2. m.srv \in ServerId /\ m.srv[2] = m.type /\ m.type \in AllType
    BY <1>6, <2>1 DEF LocalType, RelayType
  <2> HIDE DEF e
  <2>3. ThreadsOK'
    BY <1>3, <1>7, <2>1, <2>2, ThreadAdded
  <2> QED
    BY <1>a, <1>c, <2>1, <2>3
<1>14. CASE OnTryConnectTo(s)
  <2>1. UNCHANGED stale /\ m.kind = "TryConnectTo"
    BY <1>14 DEF OnTryConnectTo, FromServer
  <2>2. CASE UNCHANGED <<m_tunnels, connecting>>
    BY <1>a, <1>b, <1>c, <2>1, <2>2
  <2>3. CASE ~UNCHANGED <<m_tunnels, connecting>> /\ m.type = "EXTERNAL"
    <3>1. t.on /\ Tunnel(s, e, [t EXCEPT !.ext = IF @ = "probe" THEN "connect" ELSE @])
      BY <1>14, <2>3 DEF OnTryConnectTo, CreateExternalConnectThread, ChangeConnectAddress
    <3>2. connecting' = connecting \/ ConnectThread(s, e, "EXTERNAL", 0, NoId)
      BY <1>14, <2>3 DEF OnTryConnectTo, CreateExternalConnectThread, ChangeConnectAddress
    <3> DEFINE u == [t EXCEPT !.ext = IF t.ext = "probe" THEN "connect" ELSE t.ext]
    <3>3. u \in ClientRecord
      <4>1. CASE t.ext = "probe"
        <5>1. u = [t EXCEPT !.ext = "connect"]
          BY <4>1
        <5> HIDE DEF t, u
        <5> QED
          BY <1>4, <3>1, <5>1, Updates
      <4>2. CASE t.ext # "probe"
        <5>1. u = t
          BY <1>4, <4>2 DEF ClientRecord
        <5> QED
          BY <1>4, <5>1
      <4> QED
        BY <4>1, <4>2
    <3>4. Tunnel(s, e, u)
      BY <3>1
    <3> HIDE DEF u, e
    <3>5. EntriesOK'
      BY <1>3, <3>3, <3>4, EntrySet
    <3>6. "EXTERNAL" \in AllType /\ "EXTERNAL" \notin RelayType
      BY DEF AllType, RelayType
    <3>7. ThreadsOK'
      BY <1>3, <1>7, <1>b, <3>2, <3>6, ThreadAdded
    <3> QED
      BY <1>a, <2>1, <3>5, <3>7
  <2>4. CASE ~UNCHANGED <<m_tunnels, connecting>> /\ m.type # "EXTERNAL"
    <3>1. UNCHANGED m_tunnels /\ ConnectThread(s, e, m.type, m.port, NoId)
      BY <1>14, <2>4 DEF OnTryConnectTo, CreateLocalConnectThread
    <3>2. m.type \in AllType /\ m.type \notin RelayType /\ m.port \in 0..MaxInit
      BY <1>5, <2>1, <2>4 DEF AllType, LocalType, RelayType
    <3> HIDE DEF e
    <3>3. ThreadsOK'
      BY <1>3, <1>7, <3>1, <3>2, ThreadAdded
    <3> QED
      BY <1>a, <1>c, <2>1, <3>1, <3>3
  <2> QED
    BY <2>2, <2>3, <2>4
<1> QED
  BY <1>8, <1>9, <1>10, <1>11, <1>12, <1>13, <1>14 DEF ClientHandler

LEMMA ThreadClients ==
  ASSUME TypeInv, ClientsOK, NEW s \in Session, ClientThread(s)
  PROVE  ClientsOK'
<1> USE DEF ClientsOK
<1>a. ASSUME UNCHANGED stale PROVE StaleOK'
  BY <1>a DEF StaleOK
<1>b. ASSUME UNCHANGED connecting PROVE ThreadsOK'
  BY <1>b DEF ThreadsOK
<1>c. ASSUME UNCHANGED m_tunnels PROVE EntriesOK'
  BY <1>c DEF EntriesOK
<1>d. \A x, y \in Session :
        /\ m_tunnels[x][y] \in ClientRecord /\ stale[x][y] \in Nat
        /\ x = y => m_tunnels[x][y] = NoTunnel /\ stale[x][y] = 0
        /\ ~m_tunnels[x][y].on => m_tunnels[x][y] = NoTunnel
  BY DEF EntriesOK, StaleOK, ClientRecord
<1>1. ASSUME NEW e \in Session, ListenBound(s, e) PROVE ClientsOK'
  <2> DEFINE t == m_tunnels[s][e]
  <2>1. CASE t.listen = "run" /\ Tunnel(s, e, [t EXCEPT !.listen = "listening"])
               /\ UNCHANGED <<stale, connecting>>
    <3>1. s # e /\ t.on
      BY <1>d, <2>1 DEF NoTunnel
    <3> DEFINE u == [t EXCEPT !.listen = "listening"]
    <3>2. t \in ClientRecord
      BY <1>d
    <3>3. u \in ClientRecord
      <4> HIDE DEF t
      <4> QED
        BY <3>1, <3>2, Updates
    <3>4. Tunnel(s, e, u)
      BY <2>1
    <3> HIDE DEF u
    <3> QED
      BY <1>a, <1>b, <2>1, <3>1, <3>3, <3>4, EntrySet
  <2>2. CASE /\ stale[s][e] > 0 /\ stale' = [stale EXCEPT ![s][e] = @ - 1]
             /\ UNCHANGED <<m_tunnels, connecting>>
    <3>1. s # e /\ stale[s][e] - 1 \in Nat
      BY <1>d, <2>2
    <3>2. StaleOK'
      BY <2>2, <3>1 DEF StaleOK
    <3> QED
      BY <1>b, <1>c, <2>2, <3>2
  <2> QED
    BY <1>1, <2>1, <2>2 DEF ListenBound
<1>2. ASSUME NEW e \in Session, OnErrorLocalListener(s, e) PROVE ClientsOK'
  <2> DEFINE t == m_tunnels[s][e]
             u == [t EXCEPT !.listen = "none"]
             n == IF t.listen = "run" THEN stale[s][e] ELSE stale[s][e] - 1
  <2>1. /\ t.listen = "run" \/ stale[s][e] > 0
        /\ Tunnel(s, e, u) /\ UNCHANGED connecting
        /\ UNCHANGED stale \/ (stale[s][e] > 0 /\ stale' = [stale EXCEPT ![s][e] = n])
    BY <1>2 DEF OnErrorLocalListener
  <2>2. s # e /\ t \in ClientRecord
    BY <1>d, <2>1 DEF NoTunnel
  <2>3. u \in ClientRecord
    <3> HIDE DEF t
    <3> QED
      BY <2>2, Updates
  <2>4. stale[s][e] > 0 => n \in Nat
    BY <1>d
  <2> HIDE DEF u, n
  <2>5. StaleOK'
    BY <1>a, <2>1, <2>2, <2>4 DEF StaleOK
  <2> QED
    BY <1>b, <2>1, <2>2, <2>3, <2>5, EntrySet
<1>3. ASSUME NEW e \in Session, ExternalProbe(s, e) PROVE ClientsOK'
  BY <1>3, QuietClients DEF ExternalProbe
<1>4. ASSUME NEW e \in Session, ExternalProbeFails(s, e) PROVE ClientsOK'
  <2> DEFINE t == m_tunnels[s][e]
             u == [t EXCEPT !.ext = "ended"]
  <2>1. t.ext = "probe" /\ Tunnel(s, e, u) /\ UNCHANGED <<stale, connecting>>
    BY <1>4 DEF ExternalProbeFails
  <2>2. s # e /\ t \in ClientRecord /\ t.on
    BY <1>d, <2>1 DEF NoTunnel
  <2>3. u \in ClientRecord
    <3> HIDE DEF t
    <3> QED
      BY <2>2, Updates
  <2> HIDE DEF u
  <2> QED
    BY <1>a, <1>b, <2>1, <2>2, <2>3, EntrySet
<1>5. ASSUME NEW c \in connecting[s],
             OnErrorLocalConnect(s, c) \/ OnErrorRelayConnect(s, c)
      PROVE  ClientsOK'
  BY <1>5, <1>a, <1>c, ThreadEnded DEF OnErrorLocalConnect, OnErrorRelayConnect
<1>6. ASSUME NEW c \in connecting[s], OnErrorExternalConnect(s, c) PROVE ClientsOK'
  <2> DEFINE e == c.ext
             t == m_tunnels[s][e]
             u == [t EXCEPT !.ext = "none"]
  <2>1. /\ Tunnel(s, e, u) /\ UNCHANGED stale
        /\ connecting' = EndConnecting(connecting, s, c)
    BY <1>6 DEF OnErrorExternalConnect
  <2>2. e \in Session \ {s}
    BY DEF ThreadsOK, ConnectTo
  <2>3. t \in ClientRecord
    BY <1>d, <2>2
  <2>4. u \in ClientRecord
    <3> HIDE DEF t
    <3> QED
      BY <2>3, Updates
  <2> HIDE DEF u, e
  <2> QED
    BY <1>a, <2>1, <2>2, <2>4, EntrySet, ThreadEnded
<1>7. ASSUME NEW c \in connecting[s], NEW l \in LinkId, ConnectLocalTCP(s, c, l)
      PROVE  ClientsOK'
  <2> DEFINE x == c.ext
             t == m_tunnels[x][s]
             u == [t EXCEPT !.listen = "ended"]
  <2>1. /\ Tunnel(x, s, u) /\ UNCHANGED stale /\ t.listen = "listening"
        /\ connecting' = EndConnecting(connecting, s, c)
    BY <1>7 DEF ConnectLocalTCP
  <2>2. x \in Session \ {s}
    BY DEF ThreadsOK, ConnectTo
  <2>3. t \in ClientRecord /\ t.on
    BY <1>d, <2>1, <2>2 DEF NoTunnel
  <2>4. u \in ClientRecord
    <3> HIDE DEF t
    <3> QED
      BY <2>3, Updates
  <2> HIDE DEF u, x
  <2> QED
    BY <1>a, <2>1, <2>2, <2>4, EntrySet, ThreadEnded
<1>8. ASSUME NEW c \in connecting[s], NEW l \in LinkId, ConnectRelay(s, c, l)
      PROVE  ClientsOK'
  BY <1>8, <1>a, <1>c, ThreadEnded DEF ConnectRelay
<1>9. ASSUME NEW c \in connecting[s], NEW l \in LinkId, NEW d \in connecting[c.ext],
             ConnectUDT(s, c, d, l)
      PROVE  ClientsOK'
  <2>1. ThreadsOK'
    BY <1>9 DEF ConnectUDT, ThreadsOK, EndConnecting
  <2> QED
    BY <1>9, <1>a, <1>c, <2>1 DEF ConnectUDT
<1> QED
  BY <1>1, <1>2, <1>3, <1>4, <1>5, <1>6, <1>7, <1>8, <1>9, QuietClients DEF ClientThread

LEMMA DeletedClients ==
  ASSUME ClientsOK, NEW s \in Session, NEW e \in Session, DeleteTunnel(s, e),
         UNCHANGED connecting
  PROVE  ClientsOK'
<1>1. EntriesOK'
  BY EntrySet, Blanks DEF DeleteTunnel, ClientsOK
<1>2. StaleOK'
  BY StopStale DEF DeleteTunnel, ClientsOK
<1> QED
  BY <1>1, <1>2 DEF ClientsOK, ThreadsOK

LEMMA ClientsStep ==
  ASSUME TypeInv, ClientsOK, Next
  PROVE  ClientsOK'
<1> USE DEF server, client, history
<1>1. CASE User
  BY <1>1, QuietClients DEF User, InitNewTunnel, DestroyTunnel
<1>2. CASE UserTypes
  BY <1>2, QuietClients DEF UserTypes, SetTypeTunnel, SetTunnelAvailableType
<1>3. CASE Checker
  <2>1. ASSUME NEW s \in Session, NEW e \in Session, CheckTunnels(s, e) PROVE ClientsOK'
    BY <2>1, DeletedClients DEF CheckTunnels
  <2> QED
    BY <1>3, <2>1, QuietClients DEF Checker, CheckServers, CheckSteps
<1>4. ASSUME NEW s \in Session, ServerHandler(s) PROVE ClientsOK'
  BY <1>4, QuietClients DEF ServerHandler, OnPeerData, OnAvailablePearTypes, OnInitTunnel,
     OnInitTunnelComplete, ForwardTryConnectTo
<1>5. ASSUME NEW i \in ServerId, ServerThread(i) PROVE ClientsOK'
  <2>1. UNCHANGED client
    BY <1>5 DEF ServerThread, RelayListen, RelayAnnounce, RelayPair, RelayBound,
       RelayListenError, OnAddRelayServerConnector, ExternalListen, ExternalListenError,
       GotExternalAddresses
  <2> QED
    BY <2>1, QuietClients
<1>6. ASSUME NEW l \in LinkId, LinkStep(l) PROVE ClientsOK'
  <2>1. ASSUME NEW s \in Session, NEW x \in Session, OnModuleName(s, l, x) PROVE ClientsOK'
    BY <2>1, DeletedClients DEF OnModuleName, HostName
  <2>2. ASSUME NEW s \in Session, OnAddLocalUDPConnector(s, l) PROVE ClientsOK'
    <3> DEFINE row == [e \in Session |-> IF link[l].end[e] # "none" /\ e # s
                        THEN [m_tunnels[s][e] EXCEPT !.udp = FALSE] ELSE m_tunnels[s][e]]
    <3>1. m_tunnels' = [m_tunnels EXCEPT ![s] = row] /\ UNCHANGED <<stale, connecting>>
      BY <2>2 DEF OnAddLocalUDPConnector, OnAddConnector
    <3>2. ASSUME NEW e \in Session
          PROVE  [m_tunnels[s][e] EXCEPT !.udp = FALSE] \in ClientRecord
      <4> DEFINE t == m_tunnels[s][e]
      <4>1. t \in ClientRecord
        BY DEF ClientsOK, EntriesOK
      <4>2. [t EXCEPT !.udp = FALSE] \in ClientRecord
        <5> HIDE DEF t
        <5> QED
          BY <4>1, Updates
      <4> QED
        BY <4>2
    <3>3. row \in [Session -> ClientRecord] /\ row[s] = NoTunnel
      BY <3>2 DEF ClientsOK, EntriesOK
    <3> HIDE DEF row
    <3>4. EntriesOK'
      BY <3>1, <3>3 DEF ClientsOK, EntriesOK
    <3> QED
      BY <3>1, <3>4 DEF ClientsOK, StaleOK, ThreadsOK
  <2>3. CASE ~\E s, x \in Session : OnModuleName(s, l, x) \/ OnAddLocalUDPConnector(s, l)
    <3>1. UNCHANGED client
      BY <1>6, <2>3 DEF LinkStep, ConnectionEnds, OnAddLocalTCPConnector, OnAddConnector,
         OnAddRelayConnector, OnAddExternalConnector, OnConnected
    <3> QED
      BY <3>1, QuietClients
  <2> QED
    BY <2>1, <2>2, <2>3
<1> QED
  BY <1>1, <1>2, <1>3, <1>4, <1>5, <1>6, HandlerClients, ThreadClients DEF Next

-----------------------------------------------------------------------------
(* The tunnel connections: a direct one has two ends, a relay's ends are of those
   whose address the relay has and for which it does not listen any more          *)
Joined(k) ==
  \A s \in Session : k.end[s] # "none" =>
    IF k.srv = NoId THEN \E u \in Session : u # s /\ k.end[u] # "none"
    ELSE /\ k.srv \in ServerId /\ k.srv[2] \in RelayType
         /\ s \in m_servers[k.srv].addresses \ m_servers[k.srv].listening

NamesOther(k) ==
  \A s \in Session : k.end[s] \in {"named", "connected"} =>
    k.name[s] # s /\ k.end[k.name[s]] \in Up

LinksOK ==
  /\ Links
  /\ \A l \in LinkId : Joined(link[l]) /\ NamesOther(link[l])

LEMMA NamesAre == LinksOK => EndsNameEachOther
BY DEF LinksOK, NamesOther, EndsNameEachOther

LEMMA JoinedStays ==
  ASSUME ServersMove, NEW k \in LinkRecord, Joined(k)
  PROVE  Joined(k)'
<1> SUFFICES ASSUME NEW s \in Session, k.end[s] # "none", k.srv # NoId
             PROVE  /\ k.srv \in ServerId /\ k.srv[2] \in RelayType
                    /\ s \in m_servers'[k.srv].addresses \ m_servers'[k.srv].listening
  BY DEF Joined
<1>1. /\ k.srv \in ServerId /\ k.srv[2] \in RelayType
      /\ s \in m_servers[k.srv].addresses \ m_servers[k.srv].listening
  BY DEF Joined
<1>2. Moves(k.srv, m_servers[k.srv], m_servers'[k.srv])
  BY <1>1 DEF ServersMove
<1> QED
  BY <1>1, <1>2 DEF Moves

LEMMA OneLink ==
  ASSUME LinksOK, ServersMove, NEW l \in LinkId, NEW k \in LinkRecord,
         link' = [link EXCEPT ![l] = k], Joined(k)', NamesOther(k)
  PROVE  LinksOK'
<1>1. Links'
  BY DEF LinksOK, Links
<1>2. ASSUME NEW j \in LinkId
      PROVE  Joined(link[j])' /\ NamesOther(link[j])'
  <2>1. CASE j = l
    <3>1. link'[j] = k
      BY <2>1 DEF LinksOK, Links
    <3> QED
      BY <3>1 DEF Joined, NamesOther
  <2>2. CASE j # l
    <3>1. PICK r \in LinkRecord : link[j] = r /\ link'[j] = r
      BY <2>2 DEF LinksOK, Links
    <3>2. Joined(r) /\ NamesOther(r)
      BY <3>1 DEF LinksOK
    <3>3. Joined(r)'
      BY <3>2, JoinedStays
    <3> QED
      BY <3>1, <3>2, <3>3 DEF Joined, NamesOther
  <2> QED
    BY <2>1, <2>2
<1> QED
  BY <1>1, <1>2 DEF LinksOK

LEMMA FreeJoined ==
  /\ NoLink \in LinkRecord /\ Joined(NoLink) /\ NamesOther(NoLink)
  /\ \A s \in Session : NoLink.end[s] = "none" /\ NoLink.name[s] = s
BY Blanks DEF NoLink, Joined, NamesOther

LEMMA QuietLinks ==
  ASSUME LinksOK, ServersMove, UNCHANGED link
  PROVE  LinksOK'
<1>1. ASSUME NEW j \in LinkId
      PROVE  Joined(link[j])' /\ NamesOther(link[j])'
  <2>1. PICK r \in LinkRecord : link[j] = r /\ link'[j] = r
    BY DEF LinksOK, Links
  <2>2. Joined(r) /\ NamesOther(r)
    BY <2>1 DEF LinksOK
  <2>3. Joined(r)'
    BY <2>2, JoinedStays
  <2> QED
    BY <2>1, <2>2, <2>3 DEF Joined, NamesOther
<1> QED
  BY <1>1 DEF LinksOK, Links

(* Some tunnels end *)
LEMMA EndedLinks ==
  ASSUME LinksOK, ServersMove, Links',
         \A l \in LinkId : link'[l] = link[l] \/ link'[l] = NoLink
  PROVE  LinksOK'
<1>1. ASSUME NEW j \in LinkId
      PROVE  Joined(link[j])' /\ NamesOther(link[j])'
  <2>1. CASE link'[j] = link[j]
    <3>1. PICK r \in LinkRecord : link[j] = r /\ link'[j] = r
      BY <2>1 DEF LinksOK, Links
    <3>2. Joined(r) /\ NamesOther(r)
      BY <3>1 DEF LinksOK
    <3>3. Joined(r)'
      BY <3>2, JoinedStays
    <3> QED
      BY <3>1, <3>2, <3>3 DEF Joined, NamesOther
  <2>2. CASE link'[j] = NoLink
    BY <2>2, FreeJoined DEF Joined, NamesOther
  <2> QED
    BY <2>1, <2>2
<1> QED
  BY <1>1 DEF LinksOK

LEMMA DirectLinks ==
  ASSUME LinksOK, ServersMove, NEW s \in Session, NEW c \in ConnectTo(s),
         c.type \notin RelayType, NEW l \in LinkId, NewLink(l, c, s)
  PROVE  LinksOK'
<1> DEFINE e == [x \in Session |-> IF x \in {s, c.ext} THEN "made" ELSE "none"]
           k == [NoLink EXCEPT !.type = c.type, !.srv = c.srv, !.end = e]
<1>1. c.ext \in Session \ {s} /\ c.srv = NoId /\ c.type \in AllType
  BY DEF ConnectTo
<1>2. e \in [Session -> Up \cup {"none", "made"}]
  OBVIOUS
<1>3. link' = [link EXCEPT ![l] = k]
  BY DEF NewLink
<1>4. \A x \in Session : e[x] \notin Up /\ (e[x] # "none" <=> x \in {s, c.ext})
  BY DEF Up
<1> HIDE DEF e
<1>5. k \in LinkRecord
  BY <1>1, <1>2, Blanks DEF LinkRecord
<1>6. k.srv = NoId /\ k.end = e
  BY <1>1, Blanks DEF LinkRecord
<1> HIDE DEF k
<1>7. Joined(k)'
  BY <1>1, <1>4, <1>6 DEF Joined
<1>8. NamesOther(k)
  BY <1>4, <1>6 DEF NamesOther, Up
<1> QED
  BY <1>3, <1>5, <1>7, <1>8, OneLink

(* The end of a relay that connects had none there before: the relay still listens *)
LEMMA RelayLinks ==
  ASSUME TypeInv, ServersOK, LinksOK, NEW s \in Session, NEW c \in connecting[s],
         NEW l \in LinkId, ConnectRelay(s, c, l)
  PROVE  LinksOK'
<1> DEFINE i == c.srv
<1>1. /\ ServersMove /\ i \in ServerId /\ i[2] \in RelayType
      /\ c.type = i[2]
      /\ s \in m_servers'[i].addresses \ m_servers'[i].listening
      /\ s \in m_servers[i].listening
  BY RelayThreadServers DEF ServersKept
<1>2. c.type \in AllType
  BY <1>1 DEF AllType
<1>3. PICK r \in LinkRecord : r = link[l]
  BY DEF LinksOK, Links
<1>4. Joined(r) /\ NamesOther(r)
  BY <1>3 DEF LinksOK
<1>5. i # NoId
  BY <1>1 DEF ServerId, NoId
<1>6. PICK k \in LinkRecord :
        /\ link' = [link EXCEPT ![l] = k]
        /\ k.srv = i /\ k.end[s] = "made" /\ k.name = r.name
        /\ \A x \in Session \ {s} : k.end[x] = r.end[x]
        /\ r.srv = i \/ r = NoLink
  <2>1. CASE r.srv = i /\ link' = [link EXCEPT ![l].end[s] = "made"]
    <3> DEFINE e == [r.end EXCEPT ![s] = "made"]
               k == [r EXCEPT !.end = e]
    <3>1. e \in [Session -> Up \cup {"none", "made"}]
      BY DEF LinkRecord
    <3>2. e[s] = "made" /\ \A x \in Session \ {s} : e[x] = r.end[x]
      BY DEF LinkRecord
    <3>3. link' = [link EXCEPT ![l] = k]
      BY <1>3, <2>1
    <3> HIDE DEF e
    <3>4. k \in LinkRecord /\ k.srv = i /\ k.end = e /\ k.name = r.name
      BY <2>1, <3>1 DEF LinkRecord
    <3> HIDE DEF k
    <3> QED
      BY <2>1, <3>2, <3>3, <3>4
  <2>2. CASE /\ r = NoLink
             /\ link' = [link EXCEPT ![l] = [NoLink EXCEPT !.type = c.type, !.srv = c.srv,
                                                           !.end[s] = "made"]]
    <3> DEFINE e == [r.end EXCEPT ![s] = "made"]
               k == [r EXCEPT !.type = c.type, !.srv = i, !.end = e]
    <3>1. e \in [Session -> Up \cup {"none", "made"}]
      BY DEF LinkRecord
    <3>2. e[s] = "made" /\ \A x \in Session \ {s} : e[x] = r.end[x]
      BY DEF LinkRecord
    <3>3. link' = [link EXCEPT ![l] = k]
      BY <2>2
    <3> HIDE DEF e
    <3>4. k \in LinkRecord /\ k.srv = i /\ k.end = e /\ k.name = r.name
      BY <1>1, <1>2, <3>1 DEF LinkRecord
    <3> HIDE DEF k
    <3> QED
      BY <2>2, <3>2, <3>3, <3>4
  <2> QED
    BY <1>3, <2>1, <2>2 DEF ConnectRelay, FreeLink
<1>7. r.end[s] = "none"
  BY <1>1, <1>4, <1>5, <1>6, FreeJoined DEF Joined
<1>8. ASSUME NEW x \in Session, k.end[x] # "none"
      PROVE  x \in m_servers'[i].addresses \ m_servers'[i].listening
  <2>1. CASE x = s
    BY <1>1, <2>1
  <2>2. CASE x # s
    <3>1. r.end[x] # "none" /\ r.srv = i
      BY <1>6, <1>8, <2>2, FreeJoined
    <3>2. x \in m_servers[i].addresses \ m_servers[i].listening
      BY <1>4, <1>5, <3>1 DEF Joined
    <3>3. Moves(i, m_servers[i], m_servers'[i])
      BY <1>1 DEF ServersMove
    <3> QED
      BY <1>1, <3>2, <3>3 DEF Moves
  <2> QED
    BY <2>1, <2>2
<1> HIDE DEF i
<1>9. Joined(k)'
  BY <1>1, <1>5, <1>6, <1>8 DEF Joined
<1>10. NamesOther(k)
  <2> SUFFICES ASSUME NEW x \in Session, k.end[x] \in {"named", "connected"}
               PROVE  k.name[x] # x /\ k.end[k.name[x]] \in Up
    BY DEF NamesOther
  <2>1. x # s /\ r.end[x] \in {"named", "connected"}
    BY <1>6
  <2>2. r.name[x] # x /\ r.end[r.name[x]] \in Up /\ r.name[x] \in Session
    BY <1>4, <2>1 DEF NamesOther, LinkRecord
  <2>3. r.name[x] # s
    BY <1>7, <2>2 DEF Up
  <2> QED
    BY <1>6, <2>2, <2>3
<1> QED
  BY <1>1, <1>6, <1>9, <1>10, OneLink

(* One end of a tunnel goes on: its state changes and perhaps the name it has *)
LEMMA EndGoesOn ==
  ASSUME LinksOK, ServersMove, NEW l \in LinkId, NEW s \in Session, NEW v \in Up,
         NEW n \in Session, link[l].end[s] # "none",
         link' = [link EXCEPT ![l].end[s] = v, ![l].name[s] = n],
         v \in {"named", "connected"} => n # s /\ link[l].end[n] \in Up
  PROVE  LinksOK'
<1> DEFINE r == link[l]
           e == [r.end EXCEPT ![s] = v]
           a == [r.name EXCEPT ![s] = n]
           k == [r EXCEPT !.end = e, !.name = a]
<1>1. r \in LinkRecord /\ Joined(r) /\ NamesOther(r)
  BY DEF LinksOK, Links
<1>2. e \in [Session -> Up \cup {"none", "made"}] /\ a \in [Session -> Session]
  BY <1>1 DEF LinkRecord
<1>3. /\ e[s] = v /\ a[s] = n
      /\ \A x \in Session \ {s} : e[x] = r.end[x] /\ a[x] = r.name[x]
  BY <1>1 DEF LinkRecord
<1>4. link' = [link EXCEPT ![l] = k]
  BY DEF LinksOK, Links
<1> HIDE DEF e, a
<1>5. k \in LinkRecord /\ k.srv = r.srv /\ k.end = e /\ k.name = a
  BY <1>1, <1>2 DEF LinkRecord
<1>6. PICK q \in LinkRecord : q = r
  BY <1>1
<1>7. PICK j \in LinkRecord : j = k
  BY <1>5
<1>8. Joined(q)'
  BY <1>1, <1>6, JoinedStays DEF Joined
<1>9. \A x \in Session : j.end[x] # "none" <=> q.end[x] # "none"
  BY <1>3, <1>5, <1>6, <1>7 DEF Up
<1>10. Joined(j)'
  BY <1>5, <1>6, <1>7, <1>8, <1>9 DEF Joined
<1>11. NamesOther(j)
  <2> SUFFICES ASSUME NEW x \in Session, j.end[x] \in {"named", "connected"}
               PROVE  j.name[x] # x /\ j.end[j.name[x]] \in Up
    BY DEF NamesOther
  <2>1. CASE x = s
    BY <1>3, <1>5, <1>7, <2>1
  <2>2. CASE x # s
    <3>1. r.name[x] # x /\ r.end[r.name[x]] \in Up /\ r.name[x] \in Session
      BY <1>1, <1>3, <1>5, <1>7, <2>2 DEF NamesOther, LinkRecord
    <3> QED
      BY <1>3, <1>5, <1>7, <2>2, <3>1
  <2> QED
    BY <2>1, <2>2
<1>12. link' = [link EXCEPT ![l] = j]
  BY <1>4, <1>7
<1> QED
  BY <1>10, <1>11, <1>12, OneLink

LEMMA EndChanges ==
  ASSUME LinksOK, ServersMove, NEW l \in LinkId, NEW s \in Session, NEW v \in Up,
         link[l].end[s] # "none", link' = [link EXCEPT ![l].end[s] = v],
         v \in {"named", "connected"} => link[l].end[s] \in {"named", "connected"}
  PROVE  LinksOK'
<1> DEFINE n == link[l].name[s]
<1>1. link[l] \in LinkRecord /\ NamesOther(link[l]) /\ link \in [LinkId -> LinkRecord]
  BY DEF LinksOK, Links
<1>2. n \in Session
  BY <1>1 DEF LinkRecord
<1>3. link' = [link EXCEPT ![l].end[s] = v, ![l].name[s] = n]
  <2> DEFINE k == [link[l] EXCEPT !.end = [link[l].end EXCEPT ![s] = v]]
             a == [link[l].name EXCEPT ![s] = n]
  <2>1. a = link[l].name
    BY <1>1 DEF LinkRecord
  <2>2. [k EXCEPT !.name = a] = k
    BY <1>1, <2>1 DEF LinkRecord
  <2>3. link' = [link EXCEPT ![l] = k]
    OBVIOUS
  <2>4. [link EXCEPT ![l].end[s] = v, ![l].name[s] = n] = [link EXCEPT ![l] = [k EXCEPT !.name = a]]
    BY <1>1 DEF LinkRecord
  <2> QED
    BY <2>2, <2>3, <2>4
<1>4. v \in {"named", "connected"} => n # s /\ link[l].end[n] \in Up
  BY <1>1 DEF NamesOther
<1> HIDE DEF n
<1> QED
  BY <1>2, <1>3, <1>4, EndGoesOn

(* The name an end receives is the other one's: of a direct tunnel there is no one
   else, and the relay hands what one sent to the other                           *)
LEMMA ReceiverIsOther ==
  ASSUME TypeInv, ServersOK, LinksOK, NEW l \in LinkId, NEW x \in Session, NEW s \in Session,
         link[l].end[x] \in Up, Receiver(l, x) = s
  PROVE  s # x
<1>1. Joined(link[l]) /\ link[l].end[x] # "none"
  BY DEF LinksOK, Up
<1>2. CASE link[l].srv = NoId
  <2>1. \E u \in Session : u # x /\ link[l].end[u] # "none"
    BY <1>1, <1>2 DEF Joined
  <2> QED
    BY <1>2, <2>1 DEF Receiver
<1>3. CASE link[l].srv # NoId
  <2> DEFINE i == link[l].srv
             r == m_servers[i]
  <2>1. i \in ServerId /\ i[2] \in RelayType /\ x \in r.addresses
    BY <1>1, <1>3 DEF Joined
  <2>2. ServerOK(i, r)
    BY <2>1 DEF ServersOK
  <2>3. r.pc # "none" /\ r.one # r.two /\ x \in {r.one, r.two}
    BY <2>1, <2>2 DEF ServerOK, RelayOK, NoServer
  <2> QED
    BY <1>3, <2>3 DEF Receiver, RelayTo
<1> QED
  BY <1>2, <1>3

LEMMA LinkStepLinks ==
  ASSUME TypeInv, ServersOK, LinksOK, ServersMove, NEW l \in LinkId, LinkStep(l)
  PROVE  LinksOK'
<1>1. ASSUME NEW s \in Session, OnAddConnector(s, l) PROVE LinksOK'
  <2>1. link[l].end[s] = "made" /\ link' = [link EXCEPT ![l].end[s] = "new"]
    BY <1>1 DEF OnAddConnector
  <2> QED
    BY <2>1, EndChanges DEF Up
<1>2. ASSUME NEW s \in Session, OnConnected(s, l) PROVE LinksOK'
  <2>1. link[l].end[s] = "named" /\ link' = [link EXCEPT ![l].end[s] = "connected"]
    BY <1>2 DEF OnConnected, SetConnected
  <2> QED
    BY <2>1, EndChanges DEF Up
<1>3. ASSUME NEW s \in Session, NEW x \in Session, OnModuleName(s, l, x) PROVE LinksOK'
  <2>1. /\ link[l].end[s] = "new" /\ link[l].end[x] \in Up /\ Receiver(l, x) = s
        /\ link' = [link EXCEPT ![l].end[s] = "named", ![l].name[s] = x]
    BY <1>3 DEF OnModuleName
  <2>2. x # s
    BY <2>1, ReceiverIsOther
  <2> QED
    BY <2>1, <2>2, EndGoesOn DEF Up
<1>4. CASE ConnectionEnds(l)
  <2>1. link' = [link EXCEPT ![l] = NoLink]
    BY <1>4 DEF ConnectionEnds
  <2>2. Links' /\ \A j \in LinkId : link'[j] = link[j] \/ link'[j] = NoLink
    BY <2>1, Blanks DEF LinksOK, Links
  <2> QED
    BY <2>2, EndedLinks
<1> QED
  BY <1>1, <1>2, <1>3, <1>4 DEF LinkStep, OnAddLocalTCPConnector, OnAddLocalUDPConnector,
     OnAddRelayConnector, OnAddExternalConnector

LEMMA LinksStep ==
  ASSUME TypeInv, ServersOK, ThreadsOK, LinksOK, Next
  PROVE  LinksOK'
<1> USE DEF server, client, history
<1>0. ServersMove
  BY ServersStep DEF ServersKept
<1>1. CASE User
  <2>1. ASSUME NEW s \in Session, NEW e \in Session, DestroyTunnel(s, e) PROVE LinksOK'
    <3>1. /\ DOMAIN link' = LinkId
          /\ \A j \in LinkId : link'[j] = link[j] \/ link'[j] = NoLink
      BY <2>1 DEF DestroyTunnel
    <3>2. \A j \in LinkId : link'[j] \in LinkRecord
      BY <3>1, Blanks DEF LinksOK, Links
    <3>3. link' = [j \in LinkId |-> link'[j]]
      BY <2>1 DEF DestroyTunnel
    <3>4. Links'
      BY <3>2, <3>3 DEF Links
    <3> QED
      BY <1>0, <3>1, <3>4, EndedLinks
  <2> QED
    BY <1>0, <1>1, <2>1, QuietLinks DEF User, InitNewTunnel
<1>2. CASE UserTypes
  BY <1>0, <1>2, QuietLinks DEF UserTypes, SetTypeTunnel, SetTunnelAvailableType
<1>3. CASE Checker
  BY <1>0, <1>3, QuietLinks DEF Checker, CheckTunnels, CheckServers, CheckSteps
<1>4. ASSUME NEW s \in Session, ServerHandler(s) PROVE LinksOK'
  BY <1>0, <1>4, QuietLinks DEF ServerHandler, OnPeerData, OnAvailablePearTypes, OnInitTunnel,
     OnInitTunnelComplete, ForwardTryConnectTo
<1>5. ASSUME NEW s \in Session, ClientHandler(s) PROVE LinksOK'
  <2>1. UNCHANGED link
    BY <1>5 DEF ClientHandler, OnInitTunnelStarted, NotFound, CreateLocalListenThread,
       CreateLocalUDPSocket, InitExternalConnectThread, CreateRelayConnectThread,
       OnTryConnectTo, InitMsg
  <2> QED
    BY <1>0, <2>1, QuietLinks
<1>6. ASSUME NEW s \in Session, ClientThread(s) PROVE LinksOK'
  <2>1. ASSUME NEW e \in Session, ListenBound(s, e) \/ OnErrorLocalListener(s, e)
                 \/ ExternalProbe(s, e) \/ ExternalProbeFails(s, e)
        PROVE  LinksOK'
    BY <1>0, <2>1, QuietLinks DEF ListenBound, OnErrorLocalListener, ExternalProbe,
       ExternalProbeFails
  <2>2. ASSUME NEW c \in connecting[s],
               OnErrorLocalConnect(s, c) \/ OnErrorRelayConnect(s, c)
                 \/ OnErrorExternalConnect(s, c)
        PROVE  LinksOK'
    BY <1>0, <2>2, QuietLinks DEF OnErrorLocalConnect, OnErrorRelayConnect,
       OnErrorExternalConnect
  <2>3. \A c \in connecting[s] : c \in ConnectTo(s)
    BY DEF ThreadsOK
  <2>4. ASSUME NEW c \in connecting[s], NEW l \in LinkId, ConnectLocalTCP(s, c, l)
        PROVE  LinksOK'
    <3>1. NewLink(l, c, s) /\ c.type \notin RelayType
      BY <2>4 DEF ConnectLocalTCP, RelayType
    <3> QED
      BY <1>0, <2>3, <3>1, DirectLinks
  <2>5. ASSUME NEW c \in connecting[s], NEW l \in LinkId, NEW d \in connecting[c.ext],
               ConnectUDT(s, c, d, l)
        PROVE  LinksOK'
    <3>1. NewLink(l, c, s) /\ c.type \notin RelayType
      BY <2>5 DEF ConnectUDT, RelayType
    <3> QED
      BY <1>0, <2>3, <3>1, DirectLinks
  <2> QED
    BY <1>6, <2>1, <2>2, <2>4, <2>5, RelayLinks DEF ClientThread
<1>7. ASSUME NEW i \in ServerId, ServerThread(i) PROVE LinksOK'
  <2>1. UNCHANGED link
    BY <1>7 DEF ServerThread, RelayListen, RelayAnnounce, RelayPair, RelayBound,
       RelayListenError, OnAddRelayServerConnector, ExternalListen, ExternalListenError,
       GotExternalAddresses
  <2> QED
    BY <1>0, <2>1, QuietLinks
<1> QED
  BY <1>0, <1>1, <1>2, <1>3, <1>4, <1>5, <1>6, <1>7, LinkStepLinks DEF Next

-----------------------------------------------------------------------------
(* Counting: every negotiation was asked for by a call of InitNewTunnel *)
Asks == {m \in UNION {FromClientMsg(s) : s \in Session} : m.kind = "InitTunnelRequest"}

(* Where a stream has the messages of K *)
Places(q, K) == {j \in 1..Len(q) : q[j] \in K}

Requests == {p \in Session \X Nat : p[2] \in Places(toServer[p[1]], Asks)}

CountOK ==
  /\ IsFiniteSet(Requests)
  /\ Cardinality(Requests) + started <= inits

LEMMA PlacesAppend ==
  ASSUME NEW S, NEW q \in Seq(S), NEW m \in S, NEW K
  PROVE  /\ Places(Append(q, m), K) \subseteq Places(q, K) \cup {Len(q) + 1}
         /\ m \notin K => Places(Append(q, m), K) = Places(q, K)
<1>1. /\ Len(Append(q, m)) = Len(q) + 1 /\ Len(q) \in Nat
      /\ \A j \in 1..Len(q) : Append(q, m)[j] = q[j]
      /\ Append(q, m)[Len(q) + 1] = m
  OBVIOUS
<1> QED
  BY <1>1 DEF Places

LEMMA PlacesTail ==
  ASSUME NEW S, NEW q \in Seq(S), q # <<>>, NEW K
  PROVE  /\ \A j \in Places(Tail(q), K) : j \in Nat /\ j + 1 \in Places(q, K) /\ j + 1 # 1
         /\ Head(q) \in K => 1 \in Places(q, K)
<1>1. /\ Len(Tail(q)) = Len(q) - 1 /\ Len(q) \in Nat \ {0}
      /\ \A j \in 1..Len(Tail(q)) : Tail(q)[j] = q[j + 1]
      /\ Head(q) = q[1]
  OBVIOUS
<1> QED
  BY <1>1 DEF Places

LEMMA PlacesFinite ==
  ASSUME NEW S, NEW q \in Seq(S), NEW K
  PROVE  IsFiniteSet(Places(q, K)) /\ Cardinality(Places(q, K)) \in Nat
<1>1. IsFiniteSet(1..Len(q))
  BY FS_Interval
<1>2. IsFiniteSet(Places(q, K))
  BY <1>1, FS_Subset DEF Places
<1> QED
  BY <1>2, FS_CardinalityType

(* A stream that lost its first message has no more of any kind, and one less of the
   kind it lost                                                                      *)
LEMMA FewerPlaces ==
  ASSUME NEW S, NEW q \in Seq(S), q # <<>>, NEW K
  PROVE  /\ Cardinality(Places(Tail(q), K)) <= Cardinality(Places(q, K))
         /\ Head(q) \in K =>
              Cardinality(Places(Tail(q), K)) <= Cardinality(Places(q, K)) - 1
<1> DEFINE A == Places(Tail(q), K)
           B == Places(q, K) \ {1}
           f == [j \in A |-> j + 1]
<1>1. \A j \in A : j \in Nat /\ j + 1 \in B
  BY PlacesTail
<1>2. f \in Injection(A, B)
  BY <1>1 DEF Injection, IsInjective
<1>3. IsFiniteSet(Places(q, K)) /\ Cardinality(Places(q, K)) \in Nat
  BY PlacesFinite
<1>4. /\ IsFiniteSet(B)
      /\ Cardinality(B) = IF 1 \in Places(q, K) THEN Cardinality(Places(q, K)) - 1
                          ELSE Cardinality(Places(q, K))
  BY <1>3, FS_RemoveElement
<1> HIDE DEF A, B, f
<1>5. Cardinality(A) <= Cardinality(B) /\ IsFiniteSet(A)
  BY <1>2, <1>4, FS_Injection
<1>6. Cardinality(A) \in Nat /\ Cardinality(B) \in Nat
  BY <1>4, <1>5, FS_CardinalityType
<1>7. Head(q) \in K => 1 \in Places(q, K)
  BY PlacesTail
<1> QED
  BY <1>3, <1>4, <1>5, <1>6, <1>7 DEF A

LEMMA MorePlaces ==
  ASSUME NEW S, NEW q \in Seq(S), NEW m \in S, NEW K
  PROVE  /\ Cardinality(Places(Append(q, m), K)) <= Cardinality(Places(q, K)) + 1
         /\ m \notin K => Cardinality(Places(Append(q, m), K)) = Cardinality(Places(q, K))
<1> DEFINE A == Places(q, K) \cup {Len(q) + 1}
<1>1. IsFiniteSet(Places(q, K)) /\ Cardinality(Places(q, K)) \in Nat
  BY PlacesFinite
<1>2. IsFiniteSet(A) /\ Cardinality(A) <= Cardinality(Places(q, K)) + 1
        /\ Cardinality(A) \in Nat
  <2>1. /\ IsFiniteSet(A)
        /\ Cardinality(A) = IF Len(q) + 1 \in Places(q, K) THEN Cardinality(Places(q, K))
                            ELSE Cardinality(Places(q, K)) + 1
    BY <1>1, FS_AddElement
  <2>2. Cardinality(A) = Cardinality(Places(q, K))
          \/ Cardinality(A) = Cardinality(Places(q, K)) + 1
    BY <2>1
  <2> QED
    BY <1>1, <2>1, <2>2
<1>3. Places(Append(q, m), K) \subseteq A
  BY PlacesAppend
<1>4. Append(q, m) \in Seq(S)
  OBVIOUS
<1>5. Cardinality(Places(Append(q, m), K)) \in Nat
  BY <1>4, PlacesFinite
<1>6. Cardinality(Places(Append(q, m), K)) <= Cardinality(A)
  BY <1>2, <1>3, FS_Subset
<1> HIDE DEF A
<1>7. m \notin K => Places(Append(q, m), K) = Places(q, K)
  BY PlacesAppend
<1> QED
  BY <1>1, <1>2, <1>5, <1>6, <1>7

LEMMA Counted ==
  ASSUME TypeInv, CountOK
  PROVE  /\ Cardinality(Requests) \in Nat /\ inits \in Nat /\ started \in Nat
         /\ \A s \in Session : toServer[s] \in Seq(FromClientMsg(s))
         /\ \A s \in Session : \A m \in FromClientMsg(s) :
              m.kind = "InitTunnelRequest" <=> m \in Asks
BY FS_CardinalityType, TunnelAssumption DEF CountOK, TypeInv, Rest, Wires, Asks

LEMMA QuietCount ==
  ASSUME TypeInv, CountOK, UNCHANGED <<toServer, inits, started>>
  PROVE  CountOK'
BY DEF CountOK, Requests

LEMMA SentCount ==
  ASSUME TypeInv, CountOK, NEW s \in Session, NEW m \in FromClientMsg(s),
         m.kind # "InitTunnelRequest", ToServer(s, m), UNCHANGED <<inits, started>>
  PROVE  CountOK'
<1>1. toServer[s] \in Seq(FromClientMsg(s)) /\ m \notin Asks
  BY Counted
<1>2. Places(Append(toServer[s], m), Asks) = Places(toServer[s], Asks)
  BY <1>1, PlacesAppend
<1>3. \A x \in Session : Places(toServer'[x], Asks) = Places(toServer[x], Asks)
  BY <1>2 DEF ToServer, TypeInv, Wires
<1>4. Requests' = Requests
  BY <1>3 DEF Requests
<1> QED
  BY <1>4 DEF CountOK

LEMMA AppendTwo ==
  ASSUME NEW S, NEW q \in Seq(S), NEW a \in S, NEW b \in S
  PROVE  q \o <<>> \o <<b>> = Append(q, b) /\ q \o <<a>> \o <<b>> = Append(Append(q, a), b)
<1>1. q \o <<>> = q
  OBVIOUS
<1>2. q \o <<a>> = Append(q, a) /\ Append(q, a) \in Seq(S)
  OBVIOUS
<1>3. \A r \in Seq(S) : r \o <<b>> = Append(r, b)
  OBVIOUS
<1> QED
  BY <1>1, <1>2, <1>3

LEMMA AskedCount ==
  ASSUME TypeInv, CountOK, NEW s \in Session, NEW e \in Session, NEW t \in Type, s # e,
         InitNewTunnel(s, e, t)
  PROVE  CountOK'
<1> DEFINE q == toServer[s]
           peer == [kind |-> "PeerData", ext |-> e, type |-> t]
           p == IF t = "UNKNOWN" THEN q ELSE Append(q, peer)
           m == [kind |-> "InitTunnelRequest", ext |-> e]
<1>1. /\ q \in Seq(FromClientMsg(s)) /\ Cardinality(Requests) \in Nat
      /\ inits \in Nat /\ started \in Nat
  BY Counted
<1>2. m \in FromClientMsg(s)
  BY DEF FromClientMsg
<1>3. t # "UNKNOWN" => peer \in FromClientMsg(s) /\ peer \notin Asks
  <2>1. t # "UNKNOWN" => peer \in FromClientMsg(s)
    BY TunnelAssumption DEF FromClientMsg
  <2>2. peer.kind = "PeerData"
    OBVIOUS
  <2> QED
    BY <2>1, <2>2 DEF Asks
<1>4. toServer' = [toServer EXCEPT ![s] = Append(p, m)]
  <2>1. toServer' = [toServer EXCEPT ![s] =
          @ \o (IF t = "UNKNOWN" THEN <<>> ELSE <<peer>>) \o <<m>>]
    BY DEF InitNewTunnel
  <2> HIDE DEF peer, m
  <2>2. q \o (IF t = "UNKNOWN" THEN <<>> ELSE <<peer>>) \o <<m>> = Append(p, m)
    <3>1. CASE t = "UNKNOWN"
      BY <1>1, <1>2, <3>1, AppendTwo
    <3>2. CASE t # "UNKNOWN"
      BY <1>1, <1>2, <1>3, <3>2, AppendTwo
    <3> QED
      BY <3>1, <3>2
  <2> QED
    BY <2>1, <2>2
<1> HIDE DEF q, peer, m
<1>5. p \in Seq(FromClientMsg(s)) /\ Places(p, Asks) = Places(q, Asks)
  BY <1>1, <1>3, PlacesAppend
<1> HIDE DEF p
<1> DEFINE n == Len(p) + 1
<1>6. Places(Append(p, m), Asks) \subseteq Places(q, Asks) \cup {n}
  BY <1>2, <1>5, PlacesAppend
<1> HIDE DEF n
<1>7. \A x \in Session : Places(toServer'[x], Asks) \subseteq
                           IF x = s THEN Places(toServer[s], Asks) \cup {n}
                           ELSE Places(toServer[x], Asks)
  BY <1>4, <1>6 DEF q, TypeInv, Wires
<1>8. Requests' \subseteq Requests \cup {<<s, n>>}
  BY <1>7 DEF Requests
<1>9. IsFiniteSet(Requests)
  BY DEF CountOK
<1>10. PICK x : x = <<s, n>>
  OBVIOUS
<1>11. /\ IsFiniteSet(Requests \cup {x})
       /\ Cardinality(Requests \cup {x}) =
            IF x \in Requests THEN Cardinality(Requests) ELSE Cardinality(Requests) + 1
  BY <1>9, FS_AddElement
<1>12. PICK R : R = Requests'
  OBVIOUS
<1>13. /\ IsFiniteSet(R) /\ Cardinality(R) <= Cardinality(Requests \cup {x})
  BY <1>8, <1>10, <1>11, <1>12, FS_Subset
<1>14. Cardinality(R) \in Nat
  BY <1>13, FS_CardinalityType
<1>15. inits' = inits + 1 /\ started' = started
  BY DEF InitNewTunnel
<1>16. Cardinality(R) + started <= inits + 1
  BY <1>1, <1>11, <1>13, <1>14 DEF CountOK
<1> QED
  BY <1>12, <1>13, <1>15, <1>16 DEF CountOK

LEMMA HandledCount ==
  ASSUME TypeInv, CountOK, NEW s \in Session, NEW kind, FromClient(s, kind), inits' = inits,
         \/ started' = started
         \/ kind = "InitTunnelRequest" /\ started' = started + 1
  PROVE  CountOK'
<1> DEFINE q == toServer[s]
           B == IF kind = "InitTunnelRequest" THEN Requests \ {<<s, 1>>} ELSE Requests
           f == [p \in Requests' |-> IF p[1] = s THEN <<s, p[2] + 1>> ELSE p]
<1>1. /\ q \in Seq(FromClientMsg(s)) /\ Cardinality(Requests) \in Nat
      /\ inits \in Nat /\ started \in Nat
  BY Counted
<1>2. /\ q # <<>> /\ toServer' = [toServer EXCEPT ![s] = Tail(q)] /\ Head(q).kind = kind
  BY DEF FromClient
<1>3. Head(q) \in FromClientMsg(s)
  BY <1>1, <1>2
<1>4. kind = "InitTunnelRequest" => Head(q) \in Asks
  BY <1>2, <1>3, Counted
<1> HIDE DEF q
<1>5. /\ \A j \in Places(Tail(q), Asks) : j \in Nat /\ j + 1 \in Places(q, Asks) /\ j + 1 # 1
      /\ kind = "InitTunnelRequest" => 1 \in Places(q, Asks)
  BY <1>1, <1>2, <1>4, PlacesTail
<1>6. \A x \in Session : toServer'[x] = IF x = s THEN Tail(q) ELSE toServer[x]
  BY <1>2 DEF TypeInv, Wires
<1>7. \A p \in Requests' :
        /\ p \in Session \X Nat /\ p = <<p[1], p[2]>>
        /\ p[1] # s => p \in Requests
        /\ p[1] = s => p[2] + 1 \in Places(q, Asks) /\ p[2] + 1 # 1 /\ p[2] + 1 \in Nat
  BY <1>5, <1>6 DEF Requests
<1>8. \A p \in Requests' : f[p] \in B
  <2> SUFFICES ASSUME NEW p \in Requests' PROVE f[p] \in B
    OBVIOUS
  <2>1. CASE p[1] # s
    <3>1. p \in Requests /\ p # <<s, 1>>
      BY <1>7, <2>1
    <3> QED
      BY <2>1, <3>1
  <2>2. CASE p[1] = s
    <3>1. <<s, p[2] + 1>> \in Requests /\ <<s, p[2] + 1>> # <<s, 1>>
      BY <1>7, <2>2 DEF Requests, q
    <3> QED
      BY <2>2, <3>1
  <2> QED
    BY <2>1, <2>2
<1>9. ASSUME NEW p \in Requests', NEW r \in Requests', f[p] = f[r] PROVE p = r
  <2>1. p = <<p[1], p[2]>> /\ r = <<r[1], r[2]>> /\ p[2] \in Nat /\ r[2] \in Nat
    BY <1>7
  <2>2. CASE p[1] = s /\ r[1] = s
    BY <1>9, <2>1, <2>2
  <2>3. CASE p[1] # s /\ r[1] # s
    BY <1>9, <2>3
  <2>4. CASE ~(p[1] = s <=> r[1] = s)
    BY <1>9, <2>1, <2>4
  <2> QED
    BY <2>2, <2>3, <2>4
<1>10. PICK R : R = Requests'
  OBVIOUS
<1>11. PICK g : g = f
  OBVIOUS
<1>12. g \in Injection(R, B)
  BY <1>8, <1>9, <1>10, <1>11 DEF Injection, IsInjective
<1>13. kind = "InitTunnelRequest" => <<s, 1>> \in Requests
  BY <1>5 DEF Requests, q
<1>14. PICK x : x = <<s, 1>>
  OBVIOUS
<1>15. /\ IsFiniteSet(Requests \ {x})
       /\ Cardinality(Requests \ {x}) =
            IF x \in Requests THEN Cardinality(Requests) - 1 ELSE Cardinality(Requests)
  BY FS_RemoveElement DEF CountOK
<1>16. /\ IsFiniteSet(B)
       /\ Cardinality(B) = IF kind = "InitTunnelRequest" THEN Cardinality(Requests) - 1
                           ELSE Cardinality(Requests)
  BY <1>13, <1>14, <1>15 DEF CountOK
<1> HIDE DEF B, f
<1>17. IsFiniteSet(R) /\ Cardinality(R) <= Cardinality(B)
  BY <1>12, <1>16, FS_Injection
<1>18. Cardinality(R) \in Nat
  BY <1>17, FS_CardinalityType
<1>19. Cardinality(R) + started' <= inits
  BY <1>1, <1>16, <1>17, <1>18 DEF CountOK
<1> QED
  BY <1>10, <1>17, <1>19 DEF CountOK

LEMMA HandlerSends ==
  ASSUME TypeInv, NEW s \in Session, ClientHandler(s)
  PROVE  /\ UNCHANGED <<inits, started>>
         /\ \/ UNCHANGED toServer
            \/ \E m \in FromClientMsg(s) : ToServer(s, m) /\ m.kind = "TryConnectTo"
<1> DEFINE m == [kind |-> "TryConnectTo", ext |-> Head(toClient[s]).ext,
                 type |-> "LOCAL_UDP", port |-> 0]
<1>1. UNCHANGED <<inits, started>> /\ (UNCHANGED toServer \/ ToServer(s, m))
  BY DEF ClientHandler, OnInitTunnelStarted, NotFound, CreateLocalListenThread, history,
     CreateLocalUDPSocket, InitExternalConnectThread, CreateRelayConnectThread,
     OnTryConnectTo, InitMsg
<1>2. PICK kind : FromServer(s, kind)
  BY DEF ClientHandler, OnInitTunnelStarted, NotFound, CreateLocalListenThread,
     CreateLocalUDPSocket, InitExternalConnectThread, CreateRelayConnectThread,
     OnTryConnectTo, InitMsg
<1>3. Head(toClient[s]).ext \in Session \ {s}
  BY <1>2, Delivered, ToClientMsgs DEF TypeInv, Wires, ToClients
<1>4. m \in FromClientMsg(s) /\ m.kind = "TryConnectTo"
  BY <1>3, TunnelAssumption DEF FromClientMsg, LocalType
<1> HIDE DEF m
<1> QED
  BY <1>1, <1>4

LEMMA BoundSends ==
  ASSUME TypeInv, NEW s \in Session, NEW e \in Session, ListenBound(s, e)
  PROVE  \E m \in FromClientMsg(s) : ToServer(s, m) /\ m.kind = "TryConnectTo"
<1>1. s # e
  <2>1. m_tunnels[s][s].listen = "none" /\ stale[s][s] = 0
    BY DEF TypeInv, Clients, NoTunnel
  <2> QED
    BY <2>1 DEF ListenBound
<1>2. m_tunnels[s][e].port \in 0..MaxInit /\ 0 \in 0..MaxInit
  BY TunnelAssumption DEF TypeInv, Clients, ClientRecord
<1> DEFINE sent(p) == [kind |-> "TryConnectTo", ext |-> e, type |-> "LOCAL_TCP", port |-> p]
<1>3. ToServer(s, sent(m_tunnels[s][e].port)) \/ ToServer(s, sent(0))
  BY DEF ListenBound
<1>4. \A p \in 0..MaxInit : sent(p) \in FromClientMsg(s) /\ sent(p).kind = "TryConnectTo"
  BY <1>1 DEF FromClientMsg, LocalType
<1> HIDE DEF sent
<1> QED
  BY <1>2, <1>3, <1>4

LEMMA CountStep ==
  ASSUME TypeInv, EndsNameEachOther, CountOK, Next
  PROVE  CountOK'
<1> USE DEF server, client, history
<1>1. CASE User
  BY <1>1, AskedCount, QuietCount DEF User, DestroyTunnel
<1>2. CASE UserTypes
  <2>1. ASSUME NEW s \in Session, NEW t \in Announced, SetTunnelAvailableType(s, t)
        PROVE  CountOK'
    <3> DEFINE m == [kind |-> "AvailablePearTypes", types |-> t]
    <3>1. m \in FromClientMsg(s) /\ m.kind # "InitTunnelRequest"
      BY TunnelAssumption DEF FromClientMsg
    <3>2. ToServer(s, m) /\ UNCHANGED <<inits, started>>
      BY <2>1 DEF SetTunnelAvailableType
    <3> HIDE DEF m
    <3> QED
      BY <3>1, <3>2, SentCount
  <2> QED
    BY <1>2, <2>1, QuietCount DEF UserTypes, SetTypeTunnel
<1>3. CASE Checker
  BY <1>3, QuietCount DEF Checker, CheckTunnels, CheckServers, CheckSteps
<1>4. ASSUME NEW s \in Session, ServerHandler(s) PROVE CountOK'
  <2>1. CASE OnInitTunnel(s)
    BY <2>1, HandledCount DEF OnInitTunnel
  <2>2. PICK kind : FromClient(s, kind)
    BY <1>4 DEF ServerHandler, OnPeerData, OnAvailablePearTypes, OnInitTunnel,
       OnInitTunnelComplete, ForwardTryConnectTo
  <2>3. CASE ~OnInitTunnel(s)
    <3>1. UNCHANGED <<inits, started>>
      BY <1>4, <2>3 DEF ServerHandler, OnPeerData, OnAvailablePearTypes,
         OnInitTunnelComplete, ForwardTryConnectTo
    <3> QED
      BY <2>2, <3>1, HandledCount
  <2> QED
    BY <2>1, <2>3
<1>5. ASSUME NEW s \in Session, ClientHandler(s) PROVE CountOK'
  <2>1. CASE UNCHANGED toServer
    BY <1>5, <2>1, HandlerSends, QuietCount
  <2>2. CASE \E m \in FromClientMsg(s) : ToServer(s, m) /\ m.kind = "TryConnectTo"
    BY <1>5, <2>2, HandlerSends, SentCount
  <2> QED
    BY <1>5, <2>1, <2>2, HandlerSends
<1>6. ASSUME NEW s \in Session, ClientThread(s) PROVE CountOK'
  <2>1. ASSUME NEW e \in Session, ListenBound(s, e) PROVE CountOK'
    <3>1. UNCHANGED <<inits, started>>
      BY <2>1 DEF ListenBound
    <3> QED
      BY <2>1, <3>1, BoundSends, SentCount
  <2>2. ASSUME NEW e \in Session, OnErrorLocalListener(s, e) \/ ExternalProbe(s, e)
                                    \/ ExternalProbeFails(s, e)
        PROVE  CountOK'
    BY <2>2, QuietCount DEF OnErrorLocalListener, ExternalProbe, ExternalProbeFails
  <2>3. ASSUME NEW c \in connecting[s],
               OnErrorLocalConnect(s, c) \/ OnErrorRelayConnect(s, c)
                 \/ OnErrorExternalConnect(s, c)
        PROVE  CountOK'
    BY <2>3, QuietCount DEF OnErrorLocalConnect, OnErrorRelayConnect, OnErrorExternalConnect
  <2>4. ASSUME NEW c \in connecting[s], NEW l \in LinkId,
               ConnectLocalTCP(s, c, l) \/ ConnectRelay(s, c, l)
        PROVE  CountOK'
    BY <2>4, QuietCount DEF ConnectLocalTCP, ConnectRelay
  <2>5. ASSUME NEW c \in connecting[s], NEW l \in LinkId, NEW d \in connecting[c.ext],
               ConnectUDT(s, c, d, l)
        PROVE  CountOK'
    BY <2>5, QuietCount DEF ConnectUDT
  <2> QED
    BY <1>6, <2>1, <2>2, <2>3, <2>4, <2>5 DEF ClientThread
<1>7. ASSUME NEW i \in ServerId, ServerThread(i) PROVE CountOK'
  <2>1. UNCHANGED <<toServer, inits, started>>
    BY <1>7 DEF ServerThread, RelayListen, RelayAnnounce, RelayPair, RelayBound,
       RelayListenError, OnAddRelayServerConnector, ExternalListen, ExternalListenError,
       GotExternalAddresses
  <2> QED
    BY <2>1, QuietCount
<1>8. ASSUME NEW l \in LinkId, LinkStep(l) PROVE CountOK'
  <2>1. ASSUME NEW s \in Session, OnConnected(s, l) PROVE CountOK'
    <3> DEFINE x == link[l].name[s]
               m == [kind |-> "InitTunnelComplete", ext |-> x]
    <3>1. x \in Session \ {s}
      BY <2>1 DEF TypeInv, Links, LinkRecord, OnConnected, EndsNameEachOther
    <3>2. m \in FromClientMsg(s) /\ m.kind # "InitTunnelRequest"
      BY <3>1 DEF FromClientMsg
    <3>3. ToServer(s, m) /\ UNCHANGED <<inits, started>>
      BY <2>1 DEF OnConnected, InitTunnelComplete
    <3> HIDE DEF m
    <3> QED
      BY <3>2, <3>3, SentCount
  <2>2. CASE \A s \in Session : ~OnConnected(s, l)
    <3>1. UNCHANGED <<toServer, inits, started>>
      BY <1>8, <2>2 DEF LinkStep, ConnectionEnds, OnAddLocalTCPConnector, OnAddConnector,
         OnAddLocalUDPConnector, OnAddRelayConnector, OnAddExternalConnector, OnModuleName
    <3> QED
      BY <3>1, QuietCount
  <2> QED
    BY <2>1, <2>2
<1> QED
  BY <1>1, <1>2, <1>3, <1>4, <1>5, <1>6, <1>7, <1>8 DEF Next

-----------------------------------------------------------------------------
(* The rest of the state *)
RestMoves ==
  /\ inits' = inits \/ (inits < MaxInit /\ inits' = inits + 1)
  /\ announces' = announces \/ (announces < MaxAnnounce /\ announces' = announces + 1)
  /\ started' = started \/ started' = started + 1
  /\ expired' = expired \/ expired' = TRUE
  /\ crash' \subseteq crash \cup {"listen", "udp", "external", "relay"}

LEMMA NextRest == Next => RestMoves
<1> SUFFICES ASSUME Next PROVE RestMoves
  OBVIOUS
<1> USE DEF history, RestMoves
<1>1. CASE User
  BY <1>1 DEF User, InitNewTunnel, DestroyTunnel
<1>2. CASE UserTypes
  BY <1>2 DEF UserTypes, SetTypeTunnel, SetTunnelAvailableType
<1>3. CASE Checker
  BY <1>3 DEF Checker, CheckTunnels, CheckServers, CheckSteps
<1>4. ASSUME NEW s \in Session, ServerHandler(s) PROVE RestMoves
  BY <1>4 DEF ServerHandler, OnPeerData, OnAvailablePearTypes, OnInitTunnel,
     OnInitTunnelComplete, ForwardTryConnectTo
<1>5. ASSUME NEW s \in Session, ClientHandler(s) PROVE RestMoves
  BY <1>5 DEF ClientHandler, OnInitTunnelStarted, NotFound, CreateLocalListenThread,
     CreateLocalUDPSocket, InitExternalConnectThread, CreateRelayConnectThread,
     OnTryConnectTo, InitMsg, CreateExternalConnectThread, CreateLocalConnectThread
<1>6. ASSUME NEW s \in Session, ClientThread(s) PROVE RestMoves
  <2>1. ASSUME NEW e \in Session, OnErrorLocalListener(s, e) PROVE RestMoves
    BY <2>1 DEF OnErrorLocalListener
  <2>2. CASE ~\E e \in Session : OnErrorLocalListener(s, e)
    <3>1. UNCHANGED <<inits, announces, started, expired, crash>>
      BY <1>6, <2>2 DEF ClientThread, ListenBound, ExternalProbe, ExternalProbeFails,
         OnErrorLocalConnect, OnErrorRelayConnect, OnErrorExternalConnect,
         ConnectLocalTCP, ConnectRelay, ConnectUDT
    <3> QED
      BY <3>1
  <2> QED
    BY <2>1, <2>2
<1>7. ASSUME NEW i \in ServerId, ServerThread(i) PROVE RestMoves
  BY <1>7 DEF ServerThread, RelayListen, RelayAnnounce, RelayPair, RelayBound,
     RelayListenError, OnAddRelayServerConnector, ExternalListen, ExternalListenError,
     GotExternalAddresses
<1>8. ASSUME NEW l \in LinkId, LinkStep(l) PROVE RestMoves
  BY <1>8 DEF LinkStep, ConnectionEnds, OnAddLocalTCPConnector, OnAddConnector,
     OnAddLocalUDPConnector, OnAddRelayConnector, OnAddExternalConnector, OnModuleName,
     OnConnected
<1> QED
  BY <1>1, <1>2, <1>3, <1>4, <1>5, <1>6, <1>7, <1>8 DEF Next

LEMMA RestStep ==
  ASSUME TypeInv, CountOK', Next
  PROVE  Rest'
<1>1. /\ inits \in Nat /\ inits <= MaxInit /\ announces \in Nat /\ announces <= MaxAnnounce
      /\ started \in Nat /\ MaxInit \in Nat /\ MaxAnnounce \in Nat
  BY TunnelAssumption DEF TypeInv, Rest
<1>2. RestMoves
  BY NextRest
<1>3. inits' \in 0..MaxInit /\ announces' \in 0..MaxAnnounce /\ started' \in Nat
  BY <1>1, <1>2 DEF RestMoves
<1>4. PICK R : R = Requests'
  OBVIOUS
<1>5. Cardinality(R) \in Nat /\ Cardinality(R) + started' <= inits'
  BY <1>4, FS_CardinalityType DEF CountOK
<1>6. started' \in 0..MaxInit
  BY <1>1, <1>3, <1>5
<1>7. expired' \in BOOLEAN
  BY <1>2 DEF RestMoves, TypeInv, Rest
<1>8. crash' \subseteq {"listen", "udp", "external", "relay"}
  BY <1>2 DEF RestMoves, TypeInv, Rest
<1> QED
  BY <1>3, <1>6, <1>7, <1>8 DEF Rest

(* What the server knows of the pairs *)
Peers ==
  /\ m_typePeers \in [Pair -> AllType \cup {"UNKNOWN"}]
  /\ m_avalablePeerTypes \in [Session -> SUBSET AllType]
  /\ m_tunnelsStep \subseteq Pair
  /\ checker \in ServerId \cup {NoId}

LEMMA PeersStep ==
  ASSUME TypeInv, Next
  PROVE  Peers'
<1>0. Peers
  BY DEF TypeInv, Servers, Peers
<1>q. ASSUME UNCHANGED <<peers, m_tunnelsStep, checker>> PROVE Peers'
  BY <1>0, <1>q DEF Peers, peers
<1> USE DEF server
<1>1. CASE User
  BY <1>1, <1>q DEF User, InitNewTunnel, DestroyTunnel
<1>2. CASE UserTypes
  <2>1. ASSUME NEW p \in Pair, NEW t \in Type, SetTypeTunnel(p, t) PROVE Peers'
    BY <1>0, <2>1, TunnelAssumption DEF SetTypeTunnel, Peers
  <2> QED
    BY <1>2, <1>q, <2>1 DEF UserTypes, SetTunnelAvailableType
<1>3. CASE Checker
  <2>1. ASSUME NEW s \in Session, NEW e \in Session, CheckTunnels(s, e) PROVE Peers'
    BY <1>q, <2>1 DEF CheckTunnels
  <2>2. ASSUME NEW i \in ServerId, CheckServers(i) PROVE Peers'
    BY <1>0, <2>2 DEF CheckServers, Peers, peers
  <2>3. ASSUME NEW p \in Pair, CheckSteps(p) PROVE Peers'
    BY <1>0, <2>3 DEF CheckSteps, Peers, peers
  <2> QED
    BY <1>3, <2>1, <2>2, <2>3 DEF Checker
<1>4. ASSUME NEW s \in Session, ServerHandler(s) PROVE Peers'
  <2> DEFINE m == Head(toServer[s])
  <2>1. PICK kind : FromClient(s, kind)
    BY <1>4 DEF ServerHandler, OnPeerData, OnAvailablePearTypes, OnInitTunnel,
       OnInitTunnelComplete, ForwardTryConnectTo
  <2>2. m \in FromClientMsg(s)
    BY <2>1, Handled DEF TypeInv, Wires, FromClients
  <2>3. CASE OnPeerData(s)
    <3>1. /\ m.kind = "PeerData" /\ m_typePeers' = [m_typePeers EXCEPT ![{s, m.ext}] = m.type]
          /\ UNCHANGED <<m_avalablePeerTypes, m_tunnelsStep, checker>>
      BY <2>3 DEF OnPeerData, FromClient
    <3>2. {s, m.ext} \in Pair /\ m.type \in AllType
      BY <2>2, <3>1, FromClientMsgs, PairOfTwo
    <3> HIDE DEF m
    <3> QED
      BY <1>0, <3>1, <3>2 DEF Peers
  <2>4. CASE OnAvailablePearTypes(s)
    <3>1. /\ m.kind = "AvailablePearTypes"
          /\ m_avalablePeerTypes' = [m_avalablePeerTypes EXCEPT ![s] = m.types]
          /\ UNCHANGED <<m_typePeers, m_tunnelsStep, checker>>
      BY <2>4 DEF OnAvailablePearTypes, FromClient
    <3>2. m.types \in SUBSET AllType
      BY <2>2, <3>1, FromClientMsgs
    <3> HIDE DEF m
    <3> QED
      BY <1>0, <3>1, <3>2 DEF Peers
  <2>5. CASE OnInitTunnel(s)
    <3>1. /\ m.kind = "InitTunnelRequest" /\ UNCHANGED <<peers, checker>>
          /\ m_tunnelsStep' \subseteq m_tunnelsStep \cup {{s, m.ext}}
      BY <2>5 DEF OnInitTunnel, FromClient, TunnelStep
    <3>2. {s, m.ext} \in Pair
      BY <2>2, <3>1, FromClientMsgs, PairOfTwo
    <3> HIDE DEF m
    <3> QED
      BY <1>0, <3>1, <3>2 DEF Peers, peers
  <2>6. CASE OnInitTunnelComplete(s)
    BY <1>0, <2>6 DEF OnInitTunnelComplete, Peers, peers
  <2>7. CASE ForwardTryConnectTo(s)
    BY <1>q, <2>7 DEF ForwardTryConnectTo
  <2> QED
    BY <1>4, <2>3, <2>4, <2>5, <2>6, <2>7 DEF ServerHandler
<1>5. ASSUME NEW s \in Session, ClientHandler(s) PROVE Peers'
  <2>1. UNCHANGED server
    BY <1>5 DEF ClientHandler, OnInitTunnelStarted, NotFound, CreateLocalListenThread,
       CreateLocalUDPSocket, InitExternalConnectThread, CreateRelayConnectThread,
       OnTryConnectTo, InitMsg
  <2> QED
    BY <1>q, <2>1
<1>6. ASSUME NEW s \in Session, ClientThread(s) PROVE Peers'
  <2>1. UNCHANGED <<peers, m_tunnelsStep, checker>>
    BY <1>6 DEF ClientThread, ListenBound, OnErrorLocalListener, ExternalProbe,
       ExternalProbeFails, OnErrorLocalConnect, OnErrorRelayConnect, OnErrorExternalConnect,
       ConnectLocalTCP, ConnectRelay, ConnectUDT
  <2> QED
    BY <1>q, <2>1
<1>7. ASSUME NEW i \in ServerId, ServerThread(i) PROVE Peers'
  <2>1. UNCHANGED <<peers, m_tunnelsStep, checker>>
    BY <1>7 DEF ServerThread, RelayListen, RelayAnnounce, RelayPair, RelayBound,
       RelayListenError, OnAddRelayServerConnector, ExternalListen, ExternalListenError,
       GotExternalAddresses
  <2> QED
    BY <1>q, <2>1
<1>8. ASSUME NEW l \in LinkId, LinkStep(l) PROVE Peers'
  <2>1. UNCHANGED server
    BY <1>8 DEF LinkStep, ConnectionEnds, OnAddLocalTCPConnector, OnAddConnector,
       OnAddLocalUDPConnector, OnAddRelayConnector, OnAddExternalConnector, OnModuleName,
       OnConnected
  <2> QED
    BY <1>q, <2>1
<1> QED
  BY <1>1, <1>2, <1>3, <1>4, <1>5, <1>6, <1>7, <1>8 DEF Next

-----------------------------------------------------------------------------
CoreInv == TypeInv /\ ServersOK /\ LinksOK /\ CountOK

LEMMA ClientsAre == Clients <=> ClientsOK
BY DEF Clients, ClientsOK, EntriesOK, StaleOK, ThreadsOK

LEMMA CoreInit == Init => CoreInv
<1> SUFFICES ASSUME Init PROVE CoreInv
  OBVIOUS
<1>1. TypeInv
  BY TypeInit
<1>2. ServersOK
  <2>1. \A i \in ServerId : m_servers[i] = NoServer /\ NoServer.pc = "none"
    BY DEF Init, NoServer
  <2>2. RelayOK(NoServer)
    BY DEF RelayOK, NoServer
  <2> QED
    BY <2>1, <2>2 DEF ServersOK, ServerOK
<1>3. LinksOK
  BY <1>1, FreeJoined DEF Init, LinksOK, TypeInv, Joined, NamesOther
<1>4. CountOK
  <2>1. Requests = {}
    BY DEF Init, Requests, Places
  <2> QED
    BY <2>1, FS_EmptySet DEF Init, CountOK
<1> QED
  BY <1>1, <1>2, <1>3, <1>4 DEF CoreInv

LEMMA CoreStep == CoreInv /\ [Next]_vars => CoreInv'
<1> SUFFICES ASSUME CoreInv, [Next]_vars PROVE CoreInv'
  OBVIOUS
<1>1. CASE Next
  <2>1. TypeInv /\ ServersOK /\ LinksOK /\ CountOK /\ EndsNameEachOther /\ ClientsOK
    BY NamesAre, ClientsAre DEF CoreInv, TypeInv
  <2>2. ServersKept
    BY <1>1, <2>1, ServersStep
  <2>3. Wires'
    BY <1>1, <2>1, WiresStep
  <2>4. ClientsOK'
    BY <1>1, <2>1, ClientsStep
  <2>5. LinksOK'
    BY <1>1, <2>1, LinksStep DEF ClientsOK
  <2>6. CountOK'
    BY <1>1, <2>1, CountStep
  <2>7. Rest'
    BY <1>1, <2>1, <2>6, RestStep
  <2>8. Servers'
    BY <1>1, <2>1, <2>2, PeersStep DEF Servers, Peers, ServersKept
  <2>9. Clients'
    BY <2>4 DEF Clients, ClientsOK, EntriesOK, StaleOK, ThreadsOK
  <2> QED
    BY <2>2, <2>3, <2>5, <2>6, <2>7, <2>8, <2>9 DEF CoreInv, TypeInv, LinksOK, ServersKept
<1>2. CASE UNCHANGED vars
  <2> USE <1>2 DEF vars, server, peers, client, history
  <2>1. TypeInv'
    BY DEF CoreInv, TypeInv, Wires, Clients, Servers, Links, Rest
  <2>2. ServersOK'
    BY DEF CoreInv, ServersOK
  <2>3. LinksOK'
    BY NoServerMoves, QuietLinks DEF CoreInv, TypeInv, Servers
  <2>4. CountOK'
    BY QuietCount DEF CoreInv
  <2> QED
    BY <2>1, <2>2, <2>3, <2>4 DEF CoreInv
<1> QED
  BY <1>1, <1>2

(* Whatever carries a tunnel, a direct connection or the two halves the server
   forwards between, each end learns the name of the other client and not its own *)
THEOREM NamesAgree == Spec => []EndsNameEachOther
<1>1. CoreInv => EndsNameEachOther
  BY NamesAre DEF CoreInv
<1> QED
  BY CoreInit, CoreStep, <1>1, PTL DEF Spec

-----------------------------------------------------------------------------
(* What a step does to the messages for a client *)
LocalMsg(e, t) == [kind |-> "InitTunnel", ext |-> e, srv |-> NoId, type |-> t]

Reads(s) ==
  /\ ClientHandler(s) /\ toClient[s] # <<>> /\ toClient' = [toClient EXCEPT ![s] = Tail(@)]
  /\ started' = started

TryMsg(e, t, port) == [kind |-> "TryConnectTo", ext |-> e, type |-> t, port |-> port]

ServerMsg(i, e) == [kind |-> "InitTunnel", ext |-> e, type |-> i[2], srv |-> i]

(* The server passes on what another client has sent *)
GetsTry(s) ==
  \E x \in Session \ {s} : LET m == Head(toServer[x]) IN
    /\ ForwardTryConnectTo(x) /\ m.ext = s /\ m.type \in LocalType /\ m.port \in 0..MaxInit
    /\ toClient'[s] = Append(toClient[s], TryMsg(x, m.type, m.port))

(* A thread of the server tells an end where it listens for it *)
GetsServer(s) ==
  \E i \in ServerId :
    /\ RelayAnnounce(i) \/ ExternalListen(i)
    /\ s \in Ends(i) /\ OtherEnd(i, s) \in Session \ {s}
    /\ toClient'[s] = Append(toClient[s], ServerMsg(i, OtherEnd(i, s)))

(* Both ends are told each other's addresses *)
GetsAddress(s) ==
  \E i \in ServerId :
    /\ GotExternalAddresses(i)
    /\ s \in Ends(i) /\ OtherEnd(i, s) \in Session \ {s}
    /\ toClient'[s] = Append(toClient[s], TryMsg(OtherEnd(i, s), "EXTERNAL", 0))

GetsOne(s) == (GetsTry(s) \/ GetsServer(s) \/ GetsAddress(s)) /\ started' = started

GetsStarted(s) ==
  /\ started' = started + 1
  /\ \E e \in Session \ {s} :
       \/ toClient'[s] = Append(toClient[s], InitTunnelStarted(e))
       \/ \E t \in LocalType :
            toClient'[s] = Append(Append(toClient[s], InitTunnelStarted(e)), LocalMsg(e, t))

MailMoves ==
  \A s \in Session :
    \/ toClient'[s] = toClient[s] /\ (started' = started \/ started' = started + 1)
    \/ Reads(s) \/ GetsOne(s) \/ GetsStarted(s)

LEMMA QuietMail ==
  ASSUME UNCHANGED <<toClient, started>>
  PROVE  MailMoves
BY DEF MailMoves

LEMMA ThreadMail ==
  ASSUME CoreInv, NEW i \in ServerId, ServerThread(i)
  PROVE  MailMoves
<1>0. TypeInv /\ ServersOK /\ started' = started /\ Ends(i) \subseteq Session
  BY DEF CoreInv, TypeInv, Servers, ServerRecord, Ends, history, ServerThread, RelayListen,
     RelayAnnounce, RelayPair, RelayBound, RelayListenError, OnAddRelayServerConnector,
     ExternalListen, ExternalListenError, GotExternalAddresses
<1>1. ASSUME m_servers[i].pc # "none", NEW s \in Ends(i)
      PROVE  OtherEnd(i, s) \in Session \ {s}
  <2>1. m_servers[i].one # m_servers[i].two
    BY <1>0, <1>1 DEF ServersOK, ServerOK
  <2> QED
    BY <1>0, <2>1, TwoEnds
<1>2. DOMAIN toClient = Session
  BY <1>0 DEF TypeInv, Wires
<1>3. CASE RelayAnnounce(i)
  <2>1. m_servers[i].pc # "none"
    BY <1>3 DEF RelayAnnounce
  <2>2. ASSUME NEW s \in Session, s \in Ends(i)
        PROVE  \/ toClient'[s] = toClient[s]
               \/ toClient'[s] = Append(toClient[s], ServerMsg(i, OtherEnd(i, s)))
    BY <1>3, <2>2 DEF RelayAnnounce, ServerMsg
  <2>3. ASSUME NEW s \in Session, s \notin Ends(i) PROVE toClient'[s] = toClient[s]
    BY <1>3, <2>3 DEF RelayAnnounce
  <2>4. ASSUME NEW s \in Session PROVE toClient'[s] = toClient[s] \/ GetsServer(s)
    BY <1>1, <1>3, <2>1, <2>2, <2>3 DEF GetsServer
  <2> QED
    BY <1>0, <2>4 DEF MailMoves, GetsOne
<1>4. CASE GotExternalAddresses(i)
  <2>1. m_servers[i].pc # "none"
    BY <1>4 DEF GotExternalAddresses
  <2>2. ASSUME NEW s \in Session, s \in Ends(i)
        PROVE  \/ toClient'[s] = toClient[s]
               \/ toClient'[s] = Append(toClient[s], TryMsg(OtherEnd(i, s), "EXTERNAL", 0))
    BY <1>4, <2>2 DEF GotExternalAddresses, TryMsg
  <2>3. ASSUME NEW s \in Session, s \notin Ends(i) PROVE toClient'[s] = toClient[s]
    BY <1>4, <2>3 DEF GotExternalAddresses
  <2>4. ASSUME NEW s \in Session PROVE toClient'[s] = toClient[s] \/ GetsAddress(s)
    BY <1>1, <1>4, <2>1, <2>2, <2>3 DEF GetsAddress
  <2> QED
    BY <1>0, <2>4 DEF MailMoves, GetsOne
<1>5. CASE ExternalListen(i)
  <2>1. m_servers[i].pc # "none" /\ i[2] = "EXTERNAL"
    BY <1>5 DEF ExternalListen
  <2>2. PICK x \in Ends(i) : toClient' = OnCreatedExternalListener(i, x)
    BY <1>5 DEF ExternalListen, Ends
  <2>3. x \in Session
    BY <1>0
  <2>4. \/ toClient' = toClient
        \/ toClient' = [toClient EXCEPT ![x] = Append(@, ServerMsg(i, OtherEnd(i, x)))]
    BY <2>1, <2>2 DEF OnCreatedExternalListener, ToClient, ServerMsg
  <2>5. ASSUME NEW s \in Session PROVE toClient'[s] = toClient[s] \/ GetsServer(s)
    BY <1>1, <1>2, <1>5, <2>1, <2>3, <2>4 DEF GetsServer
  <2> QED
    BY <1>0, <2>5 DEF MailMoves, GetsOne
<1>6. CASE ~(RelayAnnounce(i) \/ GotExternalAddresses(i) \/ ExternalListen(i))
  <2>1. UNCHANGED toClient
    BY <1>6 DEF ServerThread, RelayListen, RelayPair, RelayBound, RelayListenError,
       OnAddRelayServerConnector, ExternalListenError
  <2> QED
    BY <1>0, <2>1, QuietMail
<1> QED
  BY <1>3, <1>4, <1>5, <1>6

LEMMA InitTunnelMail ==
  ASSUME CoreInv, NEW s \in Session, OnInitTunnel(s)
  PROVE  MailMoves
<1> DEFINE e == Head(toServer[s]).ext
           types == Chosen(s, e)
           t == CHOOSE x \in types \cap LocalType : TRUE
           local(x) == IF types \cap LocalType = {} THEN <<>> ELSE <<LocalMsg(x, t)>>
<1>1. e \in Session \ {s}
  BY Handled, FromClientMsgs DEF OnInitTunnel, CoreInv, TypeInv, Wires, FromClients
<1>2. \A x \in Session : toClient[x] \in Seq(ToClientMsg(x))
  BY DEF CoreInv, TypeInv, Wires
<1>3. CASE TunnelStep(s, e) \in m_tunnelsStep
  BY <1>3, QuietMail DEF OnInitTunnel
<1>4. CASE TunnelStep(s, e) \notin m_tunnelsStep
  <2>1. toClient' = [toClient EXCEPT
                      ![s] = @ \o <<InitTunnelStarted(e)>> \o local(e),
                      ![e] = @ \o <<InitTunnelStarted(s)>> \o local(s)]
    BY <1>4 DEF OnInitTunnel, LocalMsg
  <2>2. started' = started + 1
    BY <1>4 DEF OnInitTunnel
  <2>3. types \cap LocalType # {} => t \in LocalType
    OBVIOUS
  <2>4. ASSUME NEW x \in Session, NEW y \in Session \ {x},
               toClient'[x] = toClient[x] \o <<InitTunnelStarted(y)>> \o local(y)
        PROVE  GetsStarted(x)
    <3>1. InitTunnelStarted(y) \in ToClientMsg(x)
      BY DEF InitTunnelStarted, ToClientMsg
    <3>2. CASE types \cap LocalType = {}
      <4>1. toClient'[x] = toClient[x] \o <<InitTunnelStarted(y)>> \o <<>>
        BY <2>4, <3>2
      <4>2. toClient'[x] = Append(toClient[x], InitTunnelStarted(y))
        BY <1>2, <3>1, <4>1, AppendTwo
      <4> QED
        BY <2>2, <4>2 DEF GetsStarted
    <3>3. CASE types \cap LocalType # {}
      <4>1. toClient'[x] = toClient[x] \o <<InitTunnelStarted(y)>> \o <<LocalMsg(y, t)>>
        BY <2>4, <3>3
      <4>2. PICK u \in LocalType : u = t
        BY <2>3, <3>3
      <4>3. LocalMsg(y, u) \in ToClientMsg(x)
        BY <4>2 DEF LocalMsg, ToClientMsg, AllType, LocalType
      <4>4. toClient'[x] = Append(Append(toClient[x], InitTunnelStarted(y)), LocalMsg(y, u))
        BY <1>2, <3>1, <4>1, <4>2, <4>3, AppendTwo
      <4> QED
        BY <2>2, <4>4 DEF GetsStarted
    <3> QED
      BY <3>2, <3>3
  <2> HIDE DEF local, e
  <2>5. DOMAIN toClient = Session
    BY DEF CoreInv, TypeInv, Wires
  <2>6. /\ toClient'[s] = toClient[s] \o <<InitTunnelStarted(e)>> \o local(e)
        /\ toClient'[e] = toClient[e] \o <<InitTunnelStarted(s)>> \o local(s)
        /\ \A x \in Session \ {s, e} : toClient'[x] = toClient[x]
    BY <1>1, <2>1, <2>5
  <2>7. GetsStarted(s) /\ GetsStarted(e)
    BY <1>1, <2>4, <2>6
  <2> QED
    BY <2>2, <2>6, <2>7 DEF MailMoves
<1> QED
  BY <1>3, <1>4

LEMMA MailStep ==
  ASSUME CoreInv, Next
  PROVE  MailMoves
<1> USE DEF server, client, history
<1>1. CASE User
  BY <1>1, QuietMail DEF User, InitNewTunnel, DestroyTunnel
<1>2. CASE UserTypes
  BY <1>2, QuietMail DEF UserTypes, SetTypeTunnel, SetTunnelAvailableType
<1>3. CASE Checker
  BY <1>3, QuietMail DEF Checker, CheckTunnels, CheckServers, CheckSteps
<1>4. ASSUME NEW s \in Session, ServerHandler(s) PROVE MailMoves
  <2>1. CASE ForwardTryConnectTo(s)
    <3> DEFINE m == Head(toServer[s])
               f == [m EXCEPT !.ext = s]
    <3>1. m \in FromClientMsg(s) /\ m.kind = "TryConnectTo"
      BY <2>1, Handled DEF ForwardTryConnectTo, CoreInv, TypeInv, Wires, FromClients
    <3>2. /\ m.ext \in Session \ {s} /\ m.type \in LocalType /\ m.port \in 0..MaxInit
          /\ m = [kind |-> "TryConnectTo", ext |-> m.ext, type |-> m.type, port |-> m.port]
      BY <3>1, FromClientMsgs
    <3>3. toClient' = [toClient EXCEPT ![m.ext] = Append(@, f)] /\ started' = started
      BY <2>1 DEF ForwardTryConnectTo, TryConnectToMessage, ToClient
    <3>4. f = TryMsg(s, m.type, m.port)
      BY <3>2 DEF TryMsg
    <3> HIDE DEF f
    <3>5. DOMAIN toClient = Session
      BY DEF CoreInv, TypeInv, Wires
    <3>6. /\ toClient'[m.ext] = Append(toClient[m.ext], TryMsg(s, m.type, m.port))
          /\ \A x \in Session \ {m.ext} : toClient'[x] = toClient[x]
      BY <3>2, <3>3, <3>4, <3>5
    <3>7. GetsTry(m.ext)
      BY <2>1, <3>2, <3>6 DEF GetsTry
    <3> QED
      BY <3>3, <3>6, <3>7 DEF MailMoves, GetsOne
  <2>2. CASE OnPeerData(s)
    BY <2>2, QuietMail DEF OnPeerData
  <2>3. CASE OnAvailablePearTypes(s)
    BY <2>3, QuietMail DEF OnAvailablePearTypes
  <2>4. CASE OnInitTunnelComplete(s)
    BY <2>4, QuietMail DEF OnInitTunnelComplete
  <2> QED
    BY <1>4, <2>1, <2>2, <2>3, <2>4, InitTunnelMail DEF ServerHandler
<1>5. ASSUME NEW s \in Session, ClientHandler(s) PROVE MailMoves
  <2>1. Reads(s)
    BY <1>5 DEF Reads, ClientHandler, OnInitTunnelStarted, NotFound, CreateLocalListenThread,
       CreateLocalUDPSocket, InitExternalConnectThread, CreateRelayConnectThread,
       OnTryConnectTo, InitMsg, FromServer
  <2>2. \A x \in Session \ {s} : toClient'[x] = toClient[x]
    BY <2>1 DEF Reads, CoreInv, TypeInv, Wires
  <2> QED
    BY <2>1, <2>2 DEF MailMoves, Reads
<1>6. ASSUME NEW s \in Session, ClientThread(s) PROVE MailMoves
  <2>1. UNCHANGED <<toClient, started>>
    BY <1>6 DEF ClientThread, ListenBound, OnErrorLocalListener, ExternalProbe,
       ExternalProbeFails, OnErrorLocalConnect, OnErrorRelayConnect, OnErrorExternalConnect,
       ConnectLocalTCP, ConnectRelay, ConnectUDT
  <2> QED
    BY <2>1, QuietMail
<1>7. ASSUME NEW l \in LinkId, LinkStep(l) PROVE MailMoves
  <2>1. UNCHANGED <<toClient, started>>
    BY <1>7 DEF LinkStep, ConnectionEnds, OnAddLocalTCPConnector, OnAddConnector,
       OnAddLocalUDPConnector, OnAddRelayConnector, OnAddExternalConnector, OnModuleName,
       OnConnected
  <2> QED
    BY <2>1, QuietMail
<1> QED
  BY <1>1, <1>2, <1>3, <1>4, <1>5, <1>6, <1>7, ThreadMail DEF Next

-----------------------------------------------------------------------------
(* What a step does to the TunnelConnect of a client for another one, and to the
   stopped threads                                                               *)
Running(t) == IF t.listen = "run" THEN 1 ELSE 0

(* The client reads a message about the entry *)
EntryRead(s, e, t, u, n, k) ==
  /\ Reads(s) /\ Head(toClient[s]).ext = e
  /\ \/ Head(toClient[s]).kind = "InitTunnelStarted" /\ k = n
        /\ u = IF t.on THEN t ELSE NewTunnel
     \/ Head(toClient[s]).kind = "InitTunnel" /\ t.on
        /\ \/ /\ Head(toClient[s]).type = "LOCAL_TCP" /\ k = n + Running(t)
              /\ u.on /\ u.listen = "run" /\ u.udp = t.udp /\ u.ext = t.ext /\ u.srv = t.srv
           \/ /\ Head(toClient[s]).type = "LOCAL_UDP" /\ k = n
              /\ u.on /\ u.listen = t.listen /\ u.udp /\ u.ext = t.ext /\ u.srv = t.srv
           \/ /\ Head(toClient[s]).type = "EXTERNAL" /\ k = n
              /\ u.on /\ u.listen = t.listen /\ u.udp = t.udp /\ u.ext = "probe"
              /\ u.srv = Head(toClient[s]).srv
     \/ Head(toClient[s]).kind = "TryConnectTo" /\ t.on /\ k = n
        /\ t.ext = "probe" /\ u.on /\ u.listen = t.listen /\ u.udp = t.udp
        /\ u.ext = "connect" /\ u.srv = t.srv

(* A thread of the client or of the other one, or a tunnel, takes it further *)
EntryGoesOn(s, e, t, u, n, k) ==
  \/ /\ t.listen = "run" /\ k = n
     /\ u.on /\ u.listen \in {"listening", "none"} /\ u.udp = t.udp /\ u.ext = t.ext
     /\ u.srv = t.srv
  \/ /\ n > 0 /\ k = n - 1 /\ (u = t \/ t.listen # "run")
     /\ u.on = t.on /\ u.listen \in {t.listen, "none"} /\ u.udp = t.udp /\ u.ext = t.ext
     /\ u.srv = t.srv
  \/ /\ k = n /\ t.ext = "probe" /\ u.on /\ u.listen = t.listen /\ u.udp = t.udp
     /\ u.ext = "ended" /\ u.srv = t.srv
  \/ /\ k = n /\ u.ext = "none" /\ u.on = t.on /\ u.listen = t.listen /\ u.udp = t.udp
     /\ u.srv = t.srv
     /\ \E c \in connecting[s] : OnErrorExternalConnect(s, c) /\ c.ext = e
  \/ /\ t.listen = "listening" /\ k = n /\ u.on /\ u.listen = "ended" /\ u.udp = t.udp
     /\ u.ext = t.ext /\ u.srv = t.srv
  \/ /\ k = n /\ ~u.udp /\ u.on = t.on /\ u.listen = t.listen /\ u.ext = t.ext
     /\ u.srv = t.srv
     /\ \E l \in LinkId : /\ OnAddLocalUDPConnector(s, l) /\ s # e
                          /\ link[l].end[e] # "none"
  \/ /\ u = NoTunnel /\ k = n + Running(t)
     /\ CheckTunnels(s, e) \/ \E l \in LinkId : OnModuleName(s, l, e)

EntryMove(s, e) ==
  \/ m_tunnels'[s][e] = m_tunnels[s][e] /\ stale'[s][e] = stale[s][e]
  \/ EntryRead(s, e, m_tunnels[s][e], m_tunnels'[s][e], stale[s][e], stale'[s][e])
  \/ EntryGoesOn(s, e, m_tunnels[s][e], m_tunnels'[s][e], stale[s][e], stale'[s][e])

EntriesMove == \A s, e \in Session : EntryMove(s, e)

LEMMA EntryIs ==
  ASSUME Clients, NEW s \in Session, NEW e \in Session, NEW t, Tunnel(s, e, t)
  PROVE  /\ m_tunnels'[s][e] = t
         /\ \A x, y \in Session : x # s \/ y # e => m_tunnels'[x][y] = m_tunnels[x][y]
<1>1. m_tunnels[s] \in [Session -> ClientRecord] /\ DOMAIN m_tunnels = Session
  BY DEF Clients
<1>2. m_tunnels' = [m_tunnels EXCEPT ![s] = [m_tunnels[s] EXCEPT ![e] = t]]
  BY DEF Tunnel
<1> QED
  BY <1>1, <1>2

LEMMA StopIs ==
  ASSUME Clients, NEW s \in Session, NEW e \in Session, StopListen(s, e)
  PROVE  /\ stale'[s][e] = stale[s][e] + Running(m_tunnels[s][e])
         /\ \A x, y \in Session : x # s \/ y # e => stale'[x][y] = stale[x][y]
<1> DEFINE n == IF m_tunnels[s][e].listen = "run" THEN stale[s][e] + 1 ELSE stale[s][e]
<1>1. /\ stale[s] \in [Session -> Nat] /\ DOMAIN stale = Session /\ stale[s][e] \in Nat
  BY DEF Clients
<1>2. stale' = [stale EXCEPT ![s] = [stale[s] EXCEPT ![e] = n]]
  BY DEF StopListen
<1>3. n = stale[s][e] + Running(m_tunnels[s][e])
  BY <1>1 DEF Running
<1> HIDE DEF n
<1> QED
  BY <1>1, <1>2, <1>3

LEMMA QuietEntries ==
  ASSUME UNCHANGED <<m_tunnels, stale>>
  PROVE  EntriesMove
BY DEF EntriesMove, EntryMove

(* What the fields of an entry are after a change *)
LEMMA Fields ==
  ASSUME NEW t \in ClientRecord
  PROVE  /\ \A v, p : LET u == [t EXCEPT !.listen = v, !.port = p]
                      IN  /\ u.on = t.on /\ u.listen = v /\ u.udp = t.udp /\ u.ext = t.ext
                          /\ u.srv = t.srv
         /\ \A v : LET u == [t EXCEPT !.listen = v]
                   IN  /\ u.on = t.on /\ u.listen = v /\ u.udp = t.udp /\ u.ext = t.ext
                       /\ u.srv = t.srv
         /\ LET u == [t EXCEPT !.udp = TRUE]
            IN  u.on = t.on /\ u.listen = t.listen /\ u.udp /\ u.ext = t.ext /\ u.srv = t.srv
         /\ LET u == [t EXCEPT !.udp = FALSE]
            IN  u.on = t.on /\ u.listen = t.listen /\ ~u.udp /\ u.ext = t.ext /\ u.srv = t.srv
         /\ \A v : LET u == [t EXCEPT !.ext = v]
                   IN  /\ u.on = t.on /\ u.listen = t.listen /\ u.udp = t.udp /\ u.ext = v
                       /\ u.srv = t.srv
         /\ \A v, i : LET u == [t EXCEPT !.ext = v, !.srv = i]
                      IN  /\ u.on = t.on /\ u.listen = t.listen /\ u.udp = t.udp
                          /\ u.ext = v /\ u.srv = i
BY DEF ClientRecord

LEMMA HandlerEntries ==
  ASSUME CoreInv, NEW s \in Session, ClientHandler(s)
  PROVE  EntriesMove
<1> DEFINE m == Head(toClient[s])
           e == m.ext
           t == m_tunnels[s][e]
<1>1. Reads(s)
  BY DEF Reads, ClientHandler, OnInitTunnelStarted, NotFound, CreateLocalListenThread,
     CreateLocalUDPSocket, InitExternalConnectThread, CreateRelayConnectThread,
     OnTryConnectTo, InitMsg, FromServer, history
<1>2. m \in ToClientMsg(s)
  BY <1>1 DEF Reads, CoreInv, TypeInv, Wires
<1>3. e \in Session \ {s}
  BY <1>2, ToClientMsgs
<1>4. Clients /\ t \in ClientRecord /\ stale[s][e] \in Nat
  BY <1>3 DEF CoreInv, TypeInv, Clients
<1>5. ASSUME NEW u, Tunnel(s, e, u), UNCHANGED stale \/ StopListen(s, e),
             EntryRead(s, e, t, u, stale[s][e], stale'[s][e])
      PROVE  EntriesMove
  <2>1. /\ m_tunnels'[s][e] = u
        /\ \A x, y \in Session : x # s \/ y # e => m_tunnels'[x][y] = m_tunnels[x][y]
    <3> HIDE DEF e
    <3> QED
      BY <1>3, <1>4, <1>5, EntryIs
  <2>2. \A x, y \in Session : x # s \/ y # e => stale'[x][y] = stale[x][y]
    <3> HIDE DEF e
    <3> QED
      BY <1>3, <1>4, <1>5, StopIs
  <2> HIDE DEF e
  <2>3. ASSUME NEW x \in Session, NEW y \in Session PROVE EntryMove(x, y)
    BY <1>5, <2>1, <2>2 DEF EntryMove
  <2> QED
    BY <2>3 DEF EntriesMove
<1>6. CASE OnInitTunnelStarted(s)
  <2>1. /\ Tunnel(s, e, IF t.on THEN t ELSE NewTunnel) /\ UNCHANGED stale
        /\ m.kind = "InitTunnelStarted"
    BY <1>6 DEF OnInitTunnelStarted, FromServer
  <2> QED
    BY <1>1, <1>5, <2>1 DEF EntryRead
<1>7. CASE NotFound(s)
  BY <1>7, QuietEntries DEF NotFound, client
<1>8. CASE CreateLocalListenThread(s)
  <2> DEFINE u == [t EXCEPT !.listen = "run", !.port = started]
  <2>1. /\ Tunnel(s, e, u) /\ t.on /\ StopListen(s, e)
        /\ m.kind = "InitTunnel" /\ m.type = "LOCAL_TCP"
    BY <1>8 DEF CreateLocalListenThread, InitMsg, FromServer
  <2>2. stale'[s][e] = stale[s][e] + Running(t)
    <3> HIDE DEF e
    <3> QED
      BY <1>3, <1>4, <2>1, StopIs DEF e
  <2>3. /\ u.on = t.on /\ u.listen = "run" /\ u.udp = t.udp /\ u.ext = t.ext
        /\ u.srv = t.srv
    <3> HIDE DEF t
    <3> QED
      BY <1>4, Fields
  <2> HIDE DEF u
  <2> QED
    BY <1>1, <1>5, <2>1, <2>2, <2>3 DEF EntryRead
<1>9. CASE CreateLocalUDPSocket(s)
  <2> DEFINE u == [t EXCEPT !.udp = TRUE]
  <2>1. /\ Tunnel(s, e, u) /\ t.on /\ UNCHANGED stale
        /\ m.kind = "InitTunnel" /\ m.type = "LOCAL_UDP"
    BY <1>9 DEF CreateLocalUDPSocket, InitMsg, FromServer
  <2>2. u.on = t.on /\ u.listen = t.listen /\ u.udp /\ u.ext = t.ext /\ u.srv = t.srv
    <3> HIDE DEF t
    <3> QED
      BY <1>4, Fields
  <2> HIDE DEF u
  <2> QED
    BY <1>1, <1>5, <2>1, <2>2 DEF EntryRead
<1>10. CASE InitExternalConnectThread(s)
  <2> DEFINE u == [t EXCEPT !.ext = "probe", !.srv = m.srv]
  <2>1. /\ Tunnel(s, e, u) /\ t.on /\ UNCHANGED stale
        /\ m.kind = "InitTunnel" /\ m.type = "EXTERNAL"
    BY <1>10 DEF InitExternalConnectThread, InitMsg, FromServer
  <2>2. /\ u.on = t.on /\ u.listen = t.listen /\ u.udp = t.udp /\ u.ext = "probe"
        /\ u.srv = m.srv
    <3> HIDE DEF t
    <3> QED
      BY <1>4, Fields
  <2> HIDE DEF u
  <2> QED
    BY <1>1, <1>5, <2>1, <2>2 DEF EntryRead
<1>11. CASE CreateRelayConnectThread(s)
  BY <1>11, QuietEntries DEF CreateRelayConnectThread
<1>12. CASE OnTryConnectTo(s)
  <2>1. UNCHANGED stale /\ m.kind = "TryConnectTo"
    BY <1>12 DEF OnTryConnectTo, FromServer
  <2>2. CASE UNCHANGED m_tunnels
    BY <2>1, <2>2, QuietEntries
  <2>3. CASE ~UNCHANGED m_tunnels
    <3> DEFINE u == [t EXCEPT !.ext = IF t.ext = "probe" THEN "connect" ELSE t.ext]
    <3>1. t.on /\ Tunnel(s, e, u)
      BY <1>12, <2>3 DEF OnTryConnectTo, CreateExternalConnectThread, ChangeConnectAddress,
         CreateLocalConnectThread
    <3>2. CASE t.ext = "probe"
      <4> DEFINE w == [t EXCEPT !.ext = "connect"]
      <4>1. u = w
        BY <3>2
      <4>2. /\ w.on = t.on /\ w.listen = t.listen /\ w.udp = t.udp /\ w.ext = "connect"
            /\ w.srv = t.srv
        <5> HIDE DEF t
        <5> QED
          BY <1>4, Fields
      <4> HIDE DEF u, w
      <4> QED
        BY <1>1, <1>5, <2>1, <3>1, <3>2, <4>1, <4>2 DEF EntryRead
    <3>3. CASE t.ext # "probe"
      <4>1. u = t
        BY <1>4, <3>3 DEF ClientRecord
      <4> HIDE DEF u
      <4>2. Tunnel(s, e, t)
        BY <3>1, <4>1
      <4>3. m_tunnels'[s][e] = t
            /\ \A x, y \in Session : x # s \/ y # e => m_tunnels'[x][y] = m_tunnels[x][y]
        <5> HIDE DEF e
        <5> QED
          BY <1>3, <1>4, <4>2, EntryIs
      <4> QED
        BY <2>1, <4>3 DEF EntriesMove, EntryMove
    <3> QED
      BY <3>2, <3>3
  <2> QED
    BY <2>2, <2>3
<1> QED
  BY <1>6, <1>7, <1>8, <1>9, <1>10, <1>11, <1>12 DEF ClientHandler

(* A step of a thread that changes one entry *)
LEMMA EntryGoes ==
  ASSUME Clients, NEW s \in Session, NEW e \in Session, NEW u, Tunnel(s, e, u),
         \A x, y \in Session : x # s \/ y # e => stale'[x][y] = stale[x][y],
         EntryGoesOn(s, e, m_tunnels[s][e], u, stale[s][e], stale'[s][e])
  PROVE  EntriesMove
<1>1. /\ m_tunnels'[s][e] = u
      /\ \A x, y \in Session : x # s \/ y # e => m_tunnels'[x][y] = m_tunnels[x][y]
  BY EntryIs
<1>2. ASSUME NEW x \in Session, NEW y \in Session PROVE EntryMove(x, y)
  BY <1>1 DEF EntryMove
<1> QED
  BY <1>2 DEF EntriesMove

LEMMA ActiveEntry ==
  ASSUME Clients, NEW s \in Session, NEW e \in Session
  PROVE  /\ m_tunnels[s][e] \in ClientRecord /\ stale[s][e] \in Nat
         /\ m_tunnels[s][e].listen # "none" \/ m_tunnels[s][e].ext # "none" =>
              m_tunnels[s][e].on
<1>1. m_tunnels[s][e] \in ClientRecord /\ stale[s][e] \in Nat
  BY DEF Clients
<1> QED
  BY <1>1, Idle

LEMMA ListenEntries ==
  ASSUME CoreInv, NEW s \in Session, NEW e \in Session,
         ListenBound(s, e) \/ OnErrorLocalListener(s, e)
  PROVE  EntriesMove
<1> DEFINE t == m_tunnels[s][e]
           n == stale[s][e]
           u == [t EXCEPT !.listen = "listening"]
           w == [t EXCEPT !.listen = "none"]
<1>0. Clients /\ stale \in [Session -> [Session -> Nat]]
  BY DEF CoreInv, TypeInv, Clients
<1>1. t \in ClientRecord /\ n \in Nat /\ (t.listen # "none" => t.on)
  BY <1>0, ActiveEntry
<1>2. /\ u.on = t.on /\ u.listen = "listening" /\ u.udp = t.udp /\ u.ext = t.ext
      /\ u.srv = t.srv
      /\ w.on = t.on /\ w.listen = "none" /\ w.udp = t.udp /\ w.ext = t.ext
      /\ w.srv = t.srv
  <2> HIDE DEF t
  <2> QED
    BY <1>1, Fields
<1>3. ASSUME stale' = [stale EXCEPT ![s][e] = n - 1]
      PROVE  /\ stale'[s][e] = n - 1
             /\ \A x, y \in Session : x # s \/ y # e => stale'[x][y] = stale[x][y]
  BY <1>0, <1>3
<1>4. \/ t.listen = "run" /\ Tunnel(s, e, u) /\ UNCHANGED stale
      \/ n > 0 /\ stale' = [stale EXCEPT ![s][e] = n - 1] /\ UNCHANGED m_tunnels
      \/ t.listen = "run" /\ Tunnel(s, e, w) /\ stale' = [stale EXCEPT ![s][e] = n]
      \/ t.listen = "run" /\ Tunnel(s, e, w) /\ UNCHANGED stale
      \/ n > 0 /\ t.listen # "run" /\ Tunnel(s, e, w) /\ stale' = [stale EXCEPT ![s][e] = n - 1]
  BY DEF ListenBound, OnErrorLocalListener
<1>5. stale' = [stale EXCEPT ![s][e] = n] => UNCHANGED stale
  BY <1>0
<1> HIDE DEF u, w, t, n
<1>6. CASE t.listen = "run" /\ (Tunnel(s, e, u) \/ Tunnel(s, e, w)) /\ UNCHANGED stale
  <2>1. EntryGoesOn(s, e, t, u, n, n) /\ EntryGoesOn(s, e, t, w, n, n)
    BY <1>1, <1>2, <1>6 DEF EntryGoesOn
  <2> QED
    BY <1>0, <1>6, <2>1, EntryGoes DEF t, n
<1>7. CASE n > 0 /\ stale' = [stale EXCEPT ![s][e] = n - 1] /\ UNCHANGED m_tunnels
  <2>1. EntryGoesOn(s, e, t, t, n, n - 1)
    BY <1>1, <1>7 DEF EntryGoesOn
  <2>2. ASSUME NEW x \in Session, NEW y \in Session PROVE EntryMove(x, y)
    BY <1>3, <1>7, <2>1 DEF EntryMove, t, n
  <2> QED
    BY <2>2 DEF EntriesMove
<1>8. CASE /\ n > 0 /\ t.listen # "run" /\ Tunnel(s, e, w)
           /\ stale' = [stale EXCEPT ![s][e] = n - 1]
  <2>1. EntryGoesOn(s, e, t, w, n, n - 1)
    BY <1>1, <1>2, <1>8 DEF EntryGoesOn
  <2> QED
    BY <1>0, <1>3, <1>8, <2>1, EntryGoes DEF t, n
<1> QED
  BY <1>4, <1>5, <1>6, <1>7, <1>8

LEMMA ThreadEntries ==
  ASSUME CoreInv, NEW s \in Session, ClientThread(s)
  PROVE  EntriesMove
<1>0. Clients /\ TypeInv
  BY DEF CoreInv, TypeInv
<1>1. ASSUME NEW e \in Session, ExternalProbe(s, e) PROVE EntriesMove
  BY <1>1, QuietEntries DEF ExternalProbe, client
<1>2. ASSUME NEW e \in Session, ExternalProbeFails(s, e) PROVE EntriesMove
  <2> DEFINE t == m_tunnels[s][e]
             u == [t EXCEPT !.ext = "ended"]
  <2>1. t.ext = "probe" /\ Tunnel(s, e, u) /\ UNCHANGED stale
    BY <1>2 DEF ExternalProbeFails
  <2>2. t \in ClientRecord /\ t.on
    BY <1>0, <2>1, ActiveEntry
  <2>3. u.on = t.on /\ u.listen = t.listen /\ u.udp = t.udp /\ u.ext = "ended" /\ u.srv = t.srv
    <3> HIDE DEF t
    <3> QED
      BY <2>2 DEF ClientRecord
  <2> HIDE DEF u
  <2>4. EntryGoesOn(s, e, t, u, stale[s][e], stale[s][e])
    BY <2>1, <2>2, <2>3 DEF EntryGoesOn
  <2> QED
    BY <1>0, <2>1, <2>4, EntryGoes
<1>3. ASSUME NEW c \in connecting[s], OnErrorExternalConnect(s, c) PROVE EntriesMove
  <2> DEFINE e == c.ext
             t == m_tunnels[s][e]
             u == [t EXCEPT !.ext = "none"]
  <2>1. Tunnel(s, e, u) /\ UNCHANGED stale
    BY <1>3 DEF OnErrorExternalConnect
  <2>2. e \in Session
    BY <1>0 DEF Clients, ConnectTo
  <2>3. t \in ClientRecord
    BY <1>0, <2>2, ActiveEntry
  <2>4. u.on = t.on /\ u.listen = t.listen /\ u.udp = t.udp /\ u.ext = "none" /\ u.srv = t.srv
    <3> HIDE DEF t
    <3> QED
      BY <2>3, Fields
  <2> HIDE DEF u
  <2>5. EntryGoesOn(s, e, t, u, stale[s][e], stale[s][e])
    BY <1>3, <2>4 DEF EntryGoesOn
  <2> HIDE DEF e
  <2> QED
    BY <1>0, <2>1, <2>2, <2>5, EntryGoes
<1>4. ASSUME NEW c \in connecting[s], NEW l \in LinkId, ConnectLocalTCP(s, c, l)
      PROVE  EntriesMove
  <2> DEFINE x == c.ext
             t == m_tunnels[x][s]
             u == [t EXCEPT !.listen = "ended"]
  <2>1. Tunnel(x, s, u) /\ UNCHANGED stale /\ t.listen = "listening"
    BY <1>4 DEF ConnectLocalTCP
  <2>2. x \in Session
    BY <1>0 DEF Clients, ConnectTo
  <2>3. t \in ClientRecord /\ t.on
    BY <1>0, <2>1, <2>2, ActiveEntry
  <2>4. u.on = t.on /\ u.listen = "ended" /\ u.udp = t.udp /\ u.ext = t.ext /\ u.srv = t.srv
    <3> HIDE DEF t
    <3> QED
      BY <2>3 DEF ClientRecord
  <2> HIDE DEF u
  <2>5. EntryGoesOn(x, s, t, u, stale[x][s], stale[x][s])
    BY <2>1, <2>3, <2>4 DEF EntryGoesOn
  <2> HIDE DEF x
  <2> QED
    BY <1>0, <2>1, <2>2, <2>5, EntryGoes
<1>5. CASE /\ \A e \in Session : ~(ListenBound(s, e) \/ OnErrorLocalListener(s, e)
                                     \/ ExternalProbeFails(s, e))
           /\ \A c \in connecting[s] : /\ ~OnErrorExternalConnect(s, c)
                                       /\ \A l \in LinkId : ~ConnectLocalTCP(s, c, l)
  <2>1. UNCHANGED <<m_tunnels, stale>>
    BY <1>5 DEF ClientThread, ExternalProbe, OnErrorLocalConnect, OnErrorRelayConnect,
       ConnectRelay, ConnectUDT, client
  <2> QED
    BY <2>1, QuietEntries
<1> QED
  BY <1>2, <1>3, <1>4, <1>5, ListenEntries

LEMMA DeletedEntries ==
  ASSUME CoreInv, NEW s \in Session, NEW e \in Session, DeleteTunnel(s, e),
         CheckTunnels(s, e) \/ \E l \in LinkId : OnModuleName(s, l, e)
  PROVE  EntriesMove
<1>1. Clients /\ Tunnel(s, e, NoTunnel) /\ StopListen(s, e)
  BY DEF CoreInv, TypeInv, DeleteTunnel
<1>2. /\ stale'[s][e] = stale[s][e] + Running(m_tunnels[s][e])
      /\ \A x, y \in Session : x # s \/ y # e => stale'[x][y] = stale[x][y]
  BY <1>1, StopIs
<1>3. EntryGoesOn(s, e, m_tunnels[s][e], NoTunnel, stale[s][e], stale'[s][e])
  BY <1>2 DEF EntryGoesOn
<1> QED
  BY <1>1, <1>2, <1>3, EntryGoes

LEMMA SocketEntries ==
  ASSUME CoreInv, NEW s \in Session, NEW l \in LinkId, OnAddLocalUDPConnector(s, l)
  PROVE  EntriesMove
<1> DEFINE row == [e \in Session |-> IF link[l].end[e] # "none" /\ e # s
                    THEN [m_tunnels[s][e] EXCEPT !.udp = FALSE] ELSE m_tunnels[s][e]]
<1>1. m_tunnels' = [m_tunnels EXCEPT ![s] = row] /\ UNCHANGED stale
  BY DEF OnAddLocalUDPConnector, OnAddConnector
<1>2. Clients
  BY DEF CoreInv, TypeInv
<1>3. /\ m_tunnels'[s] = row
      /\ \A x \in Session \ {s} : m_tunnels'[x] = m_tunnels[x]
  BY <1>1, <1>2 DEF Clients
<1>4. ASSUME NEW e \in Session
      PROVE  EntryMove(s, e)
  <2>1. CASE link[l].end[e] # "none" /\ e # s
    <3> DEFINE t == m_tunnels[s][e]
               u == [t EXCEPT !.udp = FALSE]
    <3>1. m_tunnels'[s][e] = u /\ stale'[s][e] = stale[s][e]
      BY <1>1, <1>3, <2>1
    <3>2. t \in ClientRecord
      BY <1>2, ActiveEntry
    <3>3. u.on = t.on /\ u.listen = t.listen /\ ~u.udp /\ u.ext = t.ext /\ u.srv = t.srv
      <4> HIDE DEF t
      <4> QED
        BY <3>2, Fields
    <3> HIDE DEF u
    <3>4. EntryGoesOn(s, e, t, u, stale[s][e], stale[s][e])
      BY <2>1, <3>3 DEF EntryGoesOn
    <3> QED
      BY <3>1, <3>4 DEF EntryMove
  <2>2. CASE ~(link[l].end[e] # "none" /\ e # s)
    BY <1>1, <1>3, <2>2 DEF EntryMove
  <2> QED
    BY <2>1, <2>2
<1> HIDE DEF row
<1>5. ASSUME NEW x \in Session, NEW y \in Session PROVE EntryMove(x, y)
  BY <1>1, <1>3, <1>4 DEF EntryMove
<1> QED
  BY <1>5 DEF EntriesMove

LEMMA EntriesStep ==
  ASSUME CoreInv, Next
  PROVE  EntriesMove
<1> USE DEF server, client, history
<1>1. CASE User
  BY <1>1, QuietEntries DEF User, InitNewTunnel, DestroyTunnel
<1>2. CASE UserTypes
  BY <1>2, QuietEntries DEF UserTypes, SetTypeTunnel, SetTunnelAvailableType
<1>3. CASE Checker
  <2>1. ASSUME NEW s \in Session, NEW e \in Session, CheckTunnels(s, e) PROVE EntriesMove
    BY <2>1, DeletedEntries DEF CheckTunnels
  <2> QED
    BY <1>3, <2>1, QuietEntries DEF Checker, CheckServers, CheckSteps
<1>4. ASSUME NEW s \in Session, ServerHandler(s) PROVE EntriesMove
  BY <1>4, QuietEntries DEF ServerHandler, OnPeerData, OnAvailablePearTypes, OnInitTunnel,
     OnInitTunnelComplete, ForwardTryConnectTo
<1>5. ASSUME NEW i \in ServerId, ServerThread(i) PROVE EntriesMove
  <2>1. UNCHANGED <<m_tunnels, stale>>
    BY <1>5 DEF ServerThread, RelayListen, RelayAnnounce, RelayPair, RelayBound,
       RelayListenError, OnAddRelayServerConnector, ExternalListen, ExternalListenError,
       GotExternalAddresses
  <2> QED
    BY <2>1, QuietEntries
<1>6. ASSUME NEW l \in LinkId, LinkStep(l) PROVE EntriesMove
  <2>1. ASSUME NEW s \in Session, NEW x \in Session, OnModuleName(s, l, x) PROVE EntriesMove
    BY <2>1, DeletedEntries DEF OnModuleName, HostName
  <2>2. CASE ~\E s, x \in Session : OnModuleName(s, l, x) \/ OnAddLocalUDPConnector(s, l)
    <3>1. UNCHANGED <<m_tunnels, stale>>
      BY <1>6, <2>2 DEF LinkStep, ConnectionEnds, OnAddLocalTCPConnector, OnAddConnector,
         OnAddRelayConnector, OnAddExternalConnector, OnConnected
    <3> QED
      BY <3>1, QuietEntries
  <2> QED
    BY <2>1, <2>2, SocketEntries
<1> QED
  BY <1>1, <1>2, <1>3, <1>4, <1>5, <1>6, HandlerEntries, ThreadEntries DEF Next

-----------------------------------------------------------------------------
(* Counting again: no more listen threads of a client for another one, asked for,
   running or stopped, than there were negotiations                              *)
Listens(s, e) ==
  {m \in ToClientMsg(s) : m.kind = "InitTunnel" /\ m.type = "LOCAL_TCP" /\ m.ext = e}

LoadOK ==
  \A s, e \in Session :
    Cardinality(Places(toClient[s], Listens(s, e))) + Running(m_tunnels[s][e]) + stale[s][e]
      <= started

(* The message a client gets from a thread of the server or from another client *)
LEMMA LastMessage ==
  ASSUME NEW S, NEW q \in Seq(S), NEW m, Append(q, m) \in Seq(S)
  PROVE  m \in S
<1>1. Append(q, m)[Len(q) + 1] = m /\ Len(q) + 1 \in 1..Len(Append(q, m))
  OBVIOUS
<1> QED
  BY <1>1

OtherMsg(m) == m.kind = "TryConnectTo" \/ (m.kind = "InitTunnel" /\ m.type \notin LocalType)

LEMMA OneMessage ==
  ASSUME CoreInv, Wires', NEW s \in Session, GetsOne(s)
  PROVE  \E m \in ToClientMsg(s) : toClient'[s] = Append(toClient[s], m) /\ OtherMsg(m)
<1>0. toClient[s] \in Seq(ToClientMsg(s)) /\ toClient'[s] \in Seq(ToClientMsg(s))
  BY DEF CoreInv, TypeInv, Wires
<1>1. CASE GetsTry(s)
  <2>1. PICK x, t, p : toClient'[s] = Append(toClient[s], TryMsg(x, t, p))
    BY <1>1 DEF GetsTry
  <2>2. TryMsg(x, t, p).kind = "TryConnectTo"
    BY DEF TryMsg
  <2> QED
    BY <1>0, <2>1, <2>2, LastMessage DEF OtherMsg
<1>2. CASE GetsServer(s)
  <2>0. PICK i \in ServerId : \E x : toClient'[s] = Append(toClient[s], ServerMsg(i, x))
    BY <1>2 DEF GetsServer
  <2>1. PICK x : toClient'[s] = Append(toClient[s], ServerMsg(i, x))
    BY <2>0
  <2>2. i[2] \notin LocalType
    BY DEF ServerId, RelayType, LocalType
  <2>3. ServerMsg(i, x).kind = "InitTunnel" /\ ServerMsg(i, x).type = i[2]
    BY DEF ServerMsg
  <2> QED
    BY <1>0, <2>1, <2>2, <2>3, LastMessage DEF OtherMsg
<1>3. CASE GetsAddress(s)
  <2>1. PICK x, t, p : toClient'[s] = Append(toClient[s], TryMsg(x, t, p))
    BY <1>3 DEF GetsAddress
  <2>2. TryMsg(x, t, p).kind = "TryConnectTo"
    BY DEF TryMsg
  <2> QED
    BY <1>0, <2>1, <2>2, LastMessage DEF OtherMsg
<1> QED
  BY <1>1, <1>2, <1>3 DEF GetsOne

(* A negotiation sends a client one message that asks for a local tunnel, and nothing
   else does                                                                         *)
LEMMA MailCount ==
  ASSUME CoreInv, Wires', MailMoves, NEW s \in Session, NEW K,
         \A m \in K : m.kind = "InitTunnel" /\ m.type \in LocalType
  PROVE  /\ Cardinality(Places(toClient[s], K)) \in Nat
         /\ Cardinality(Places(toClient'[s], K)) \in Nat
         /\ \/ Cardinality(Places(toClient'[s], K)) <= Cardinality(Places(toClient[s], K))
               /\ (started' = started \/ started' = started + 1)
            \/ /\ started' = started + 1
               /\ Cardinality(Places(toClient'[s], K)) <= Cardinality(Places(toClient[s], K)) + 1
         /\ Reads(s) /\ Head(toClient[s]) \in K =>
              Cardinality(Places(toClient'[s], K)) <= Cardinality(Places(toClient[s], K)) - 1
<1> DEFINE q == toClient[s]
           N == Cardinality(Places(q, K))
           M == Cardinality(Places(toClient'[s], K))
<1>1. q \in Seq(ToClientMsg(s)) /\ toClient'[s] \in Seq(ToClientMsg(s))
  BY DEF CoreInv, TypeInv, Wires
<1>2. N \in Nat /\ M \in Nat
  BY <1>1, PlacesFinite
<1>3. DOMAIN toClient = Session
  BY DEF CoreInv, TypeInv, Wires
<1>4. ASSUME Reads(s)
      PROVE  M <= N /\ started' = started /\ (Head(q) \in K => M <= N - 1)
  <2>1. toClient'[s] = Tail(q) /\ q # <<>> /\ started' = started
    BY <1>3, <1>4 DEF Reads
  <2> QED
    BY <1>1, <2>1, FewerPlaces
<1>5. ASSUME GetsOne(s)
      PROVE  M <= N /\ started' = started
  <2>1. PICK m \in ToClientMsg(s) : toClient'[s] = Append(q, m) /\ OtherMsg(m)
    BY <1>5, OneMessage
  <2>2. m \notin K
    BY <2>1 DEF OtherMsg
  <2>4. M = N
    BY <1>1, <2>1, <2>2, MorePlaces
  <2> QED
    BY <1>2, <1>5, <2>4 DEF GetsOne
<1>6. ASSUME GetsStarted(s)
      PROVE  M <= N + 1 /\ started' = started + 1
  <2>1. PICK e \in Session \ {s} :
          \/ toClient'[s] = Append(q, InitTunnelStarted(e))
          \/ \E t \in LocalType :
               toClient'[s] = Append(Append(q, InitTunnelStarted(e)), LocalMsg(e, t))
    BY <1>6 DEF GetsStarted
  <2> DEFINE a == InitTunnelStarted(e)
  <2>2. a \in ToClientMsg(s) /\ a.kind = "InitTunnelStarted"
    BY DEF InitTunnelStarted, ToClientMsg
  <2>3. a \notin K
    BY <2>2
  <2> HIDE DEF a
  <2>4. Cardinality(Places(Append(q, a), K)) = N /\ Append(q, a) \in Seq(ToClientMsg(s))
    BY <1>1, <2>2, <2>3, MorePlaces
  <2>5. CASE toClient'[s] = Append(q, a)
    BY <1>2, <1>6, <2>4, <2>5 DEF GetsStarted
  <2>6. ASSUME NEW t \in LocalType, toClient'[s] = Append(Append(q, a), LocalMsg(e, t))
        PROVE  M <= N + 1
    <3>1. LocalMsg(e, t) \in ToClientMsg(s)
      BY DEF LocalMsg, ToClientMsg, AllType, LocalType
    <3> QED
      BY <2>4, <2>6, <3>1, MorePlaces
  <2> QED
    BY <1>6, <2>1, <2>5, <2>6 DEF GetsStarted, a
<1>7. CASE toClient'[s] = q /\ (started' = started \/ started' = started + 1)
  <2>1. ~Reads(s)
    <3>1. q # <<>> => Len(Tail(q)) = Len(q) - 1 /\ Len(q) \in Nat
      BY <1>1
    <3> QED
      BY <1>3, <1>7, <3>1 DEF Reads
  <2> QED
    BY <1>2, <1>7, <2>1
<1>8. ~(Reads(s) /\ (GetsOne(s) \/ GetsStarted(s)))
  <2>1. started \in Nat
    BY DEF CoreInv, TypeInv, Rest
  <2>2. Reads(s) => Len(toClient'[s]) = Len(q) - 1 /\ Len(q) \in Nat
    BY <1>1, <1>3 DEF Reads
  <2>3. GetsOne(s) => \E m \in ToClientMsg(s) : toClient'[s] = Append(q, m)
    BY OneMessage
  <2>4. \A m : Len(Append(q, m)) = Len(q) + 1
    BY <1>1
  <2>5. Reads(s) => started' = started
    BY DEF Reads
  <2>6. GetsStarted(s) => started' = started + 1
    BY DEF GetsStarted
  <2> QED
    BY <2>1, <2>2, <2>3, <2>4, <2>5, <2>6
<1> HIDE DEF N, M
<1>9. \/ M <= N /\ (started' = started \/ started' = started + 1)
      \/ started' = started + 1 /\ M <= N + 1
  BY <1>4, <1>5, <1>6, <1>7 DEF MailMoves, N, M
<1>10. Reads(s) /\ Head(q) \in K => M <= N - 1
  BY <1>4
<1> QED
  BY <1>2, <1>9, <1>10 DEF N, M

LEMMA EntryLoad ==
  ASSUME CoreInv, CoreInv', NEW s \in Session, NEW e \in Session, EntryMove(s, e)
  PROVE  /\ Running(m_tunnels[s][e]) + stale[s][e] \in Nat
         /\ Running(m_tunnels'[s][e]) + stale'[s][e] \in Nat
         /\ \/ Running(m_tunnels'[s][e]) + stale'[s][e]
                 <= Running(m_tunnels[s][e]) + stale[s][e]
            \/ /\ Reads(s) /\ Head(toClient[s]) \in Listens(s, e)
               /\ Running(m_tunnels'[s][e]) + stale'[s][e]
                    <= Running(m_tunnels[s][e]) + stale[s][e] + 1
<1> DEFINE t == m_tunnels[s][e]
           u == m_tunnels'[s][e]
           n == stale[s][e]
           k == stale'[s][e]
<1>1. n \in Nat /\ k \in Nat
  BY DEF CoreInv, TypeInv, Clients
<1>2. \A x : Running(x) \in {0, 1}
  BY DEF Running
<1>3. Running(NoTunnel) = 0 /\ Running(NewTunnel) = 0
  BY DEF Running, NoTunnel, NewTunnel
<1> HIDE DEF t, u, n, k
<1>4. CASE EntryRead(s, e, t, u, n, k)
  <2>1. Head(toClient[s]) \in ToClientMsg(s)
    BY <1>4 DEF EntryRead, Reads, CoreInv, TypeInv, Wires
  <2>2. CASE Head(toClient[s]).kind = "InitTunnel" /\ Head(toClient[s]).type = "LOCAL_TCP"
    <3>1. k = n + Running(t) /\ Head(toClient[s]) \in Listens(s, e) /\ Reads(s)
      BY <1>4, <2>1, <2>2 DEF EntryRead, Listens
    <3> QED
      BY <1>1, <1>2, <3>1 DEF t, u, n, k
  <2>3. CASE ~(Head(toClient[s]).kind = "InitTunnel" /\ Head(toClient[s]).type = "LOCAL_TCP")
    <3>1. k = n /\ (u = t \/ u = NewTunnel \/ u.listen = t.listen)
      BY <1>4, <2>3 DEF EntryRead
    <3>2. Running(u) <= Running(t)
      BY <1>2, <1>3, <3>1 DEF Running
    <3> QED
      BY <1>1, <1>2, <3>1, <3>2 DEF t, u, n, k
  <2> QED
    BY <2>2, <2>3
<1>5. CASE EntryGoesOn(s, e, t, u, n, k)
  <2>1. \/ k = n /\ u.listen \in {"listening", "none", "ended", t.listen}
        \/ k = n - 1 /\ u.listen \in {t.listen, "none"}
        \/ u = NoTunnel /\ k = n + Running(t)
    BY <1>5 DEF EntryGoesOn
  <2>2. CASE u = NoTunnel /\ k = n + Running(t)
    BY <1>1, <1>2, <1>3, <2>2 DEF t, u, n, k
  <2>3. CASE (k = n \/ k = n - 1) /\ u.listen \in {"listening", "none", "ended", t.listen}
    <3>1. Running(u) <= Running(t)
      BY <1>2, <2>3 DEF Running
    <3> QED
      BY <1>1, <1>2, <2>3, <3>1 DEF t, u, n, k
  <2> QED
    BY <2>1, <2>2, <2>3
<1>6. CASE u = t /\ k = n
  BY <1>1, <1>2, <1>6 DEF t, u, n, k
<1> QED
  BY <1>4, <1>5, <1>6 DEF EntryMove, t, u, n, k

LEMMA LoadInit == Init => LoadOK
<1> SUFFICES ASSUME Init, NEW s \in Session, NEW e \in Session
             PROVE  Cardinality(Places(toClient[s], Listens(s, e)))
                      + Running(m_tunnels[s][e]) + stale[s][e] <= started
  BY DEF LoadOK
<1>1. Places(toClient[s], Listens(s, e)) = {}
  BY DEF Init, Places
<1>2. Cardinality(Places(toClient[s], Listens(s, e))) = 0
  BY <1>1, FS_EmptySet
<1>3. Running(m_tunnels[s][e]) = 0 /\ stale[s][e] = 0 /\ started = 0
  BY DEF Init, Running, NoTunnel
<1> QED
  BY <1>2, <1>3

LEMMA LoadStep ==
  ASSUME CoreInv, CoreInv', LoadOK, Next
  PROVE  LoadOK'
<1> SUFFICES ASSUME NEW s \in Session, NEW e \in Session
             PROVE  Cardinality(Places(toClient'[s], Listens(s, e)))
                      + Running(m_tunnels'[s][e]) + stale'[s][e] <= started'
  BY DEF LoadOK
<1> DEFINE K == Listens(s, e)
           N == Cardinality(Places(toClient[s], K))
           M == Cardinality(Places(toClient'[s], K))
           b == Running(m_tunnels[s][e])
           n == stale[s][e]
           c == Running(m_tunnels'[s][e])
           k == stale'[s][e]
<1>1. MailMoves /\ Wires'
  BY MailStep DEF CoreInv, TypeInv
<1>2. EntryMove(s, e)
  BY EntriesStep DEF EntriesMove
<1>3. \A m \in K : m.kind = "InitTunnel" /\ m.type \in LocalType
  BY DEF Listens, LocalType
<1>4. /\ b + n \in Nat /\ c + k \in Nat /\ b \in {0, 1} /\ c \in {0, 1} /\ n \in Nat /\ k \in Nat
      /\ c + k <= b + n \/ (Reads(s) /\ Head(toClient[s]) \in K /\ c + k <= b + n + 1)
  BY <1>2, EntryLoad DEF CoreInv, TypeInv, Clients, Running
<1> HIDE DEF K
<1>5. /\ N \in Nat /\ M \in Nat
      /\ \/ M <= N /\ (started' = started \/ started' = started + 1)
         \/ started' = started + 1 /\ M <= N + 1
      /\ Reads(s) /\ Head(toClient[s]) \in K => M <= N - 1
  BY <1>1, <1>3, MailCount
<1>6. N + b + n <= started /\ started \in Nat
  BY DEF LoadOK, CoreInv, TypeInv, Rest, K
<1>7. Reads(s) => started' = started
  BY DEF Reads
<1> HIDE DEF N, M, b, c, n, k
<1>8. M + c + k <= started'
  BY <1>4, <1>5, <1>6, <1>7
<1> QED
  BY <1>8 DEF M, c, k, K

-----------------------------------------------------------------------------
(* The state is well typed *)
IsTable(f) == f = [s \in Session |-> f[s]]

Tables == IsTable(toServer) /\ IsTable(toClient) /\ IsTable(connecting)

LEMMA TableSet == \A f, x, v : IsTable(f) => IsTable([f EXCEPT ![x] = v])
BY DEF IsTable

LEMMA TableSend ==
  ASSUME IsTable(toServer), NEW s, NEW m, ToServer(s, m)
  PROVE  IsTable(toServer')
BY TableSet DEF ToServer

LEMMA TableThread ==
  ASSUME IsTable(connecting), NEW s, NEW e, NEW type, NEW port, NEW i,
         ConnectThread(s, e, type, port, i)
  PROVE  IsTable(connecting')
<1> DEFINE v == connecting[s] \cup {[ext |-> e, type |-> type, port |-> port, srv |-> i,
                                    at |-> started]}
<1>1. connecting' = [connecting EXCEPT ![s] = v]
  BY DEF ConnectThread
<1> HIDE DEF v
<1> QED
  BY <1>1, TableSet

LEMMA TableEnd ==
  ASSUME NEW q, IsTable(q), NEW s, NEW c
  PROVE  IsTable(EndConnecting(q, s, c))
BY TableSet DEF EndConnecting

LEMMA ToClientTable ==
  ASSUME Tables, Next
  PROVE  IsTable(toClient')
<1>1. IsTable(toClient)
  BY DEF Tables
<1>2. ASSUME NEW s \in Session, ServerHandler(s) PROVE IsTable(toClient')
  <2>1. CASE OnInitTunnel(s)
    <3>1. CASE TunnelStep(s, Head(toServer[s]).ext) \in m_tunnelsStep
      BY <1>1, <2>1, <3>1 DEF OnInitTunnel
    <3>2. CASE TunnelStep(s, Head(toServer[s]).ext) \notin m_tunnelsStep
      <4> DEFINE e == Head(toServer[s]).ext
                 types == Chosen(s, e)
                 local(x) == IF types \cap LocalType = {} THEN <<>>
                     ELSE <<[kind |-> "InitTunnel", ext |-> x, srv |-> NoId,
                             type |-> CHOOSE t \in types \cap LocalType : TRUE]>>
      <4>1. toClient' = [toClient EXCEPT ![s] = @ \o <<InitTunnelStarted(e)>> \o local(e),
                                         ![e] = @ \o <<InitTunnelStarted(s)>> \o local(s)]
        BY <2>1, <3>2 DEF OnInitTunnel
      <4> HIDE DEF local, e
      <4> QED
        BY <1>1, <4>1 DEF IsTable
    <3> QED
      BY <3>1, <3>2
  <2>2. CASE ForwardTryConnectTo(s)
    BY <1>1, <2>2, TableSet DEF ForwardTryConnectTo, TryConnectToMessage, ToClient
  <2> QED
    BY <1>1, <1>2, <2>1, <2>2 DEF ServerHandler, OnPeerData, OnAvailablePearTypes,
       OnInitTunnelComplete
<1>3. ASSUME NEW s \in Session, ClientHandler(s) PROVE IsTable(toClient')
  <2>1. toClient' = [toClient EXCEPT ![s] = Tail(@)]
    BY <1>3 DEF ClientHandler, OnInitTunnelStarted, NotFound, CreateLocalListenThread,
       CreateLocalUDPSocket, InitExternalConnectThread, CreateRelayConnectThread,
       OnTryConnectTo, InitMsg, FromServer
  <2> QED
    BY <1>1, <2>1, TableSet
<1>4. ASSUME NEW i \in ServerId, ServerThread(i) PROVE IsTable(toClient')
  <2>1. CASE RelayAnnounce(i)
    BY <1>1, <2>1 DEF RelayAnnounce, IsTable
  <2>2. CASE GotExternalAddresses(i)
    BY <1>1, <2>2 DEF GotExternalAddresses, IsTable
  <2>3. CASE ExternalListen(i)
    BY <1>1, <2>3, TableSet DEF ExternalListen, OnCreatedExternalListener, ToClient
  <2>4. CASE ~(RelayAnnounce(i) \/ GotExternalAddresses(i) \/ ExternalListen(i))
    <3>1. UNCHANGED toClient
      BY <1>4, <2>4 DEF ServerThread, RelayListen, RelayPair, RelayBound, RelayListenError,
         OnAddRelayServerConnector, ExternalListenError
    <3> QED
      BY <1>1, <3>1
  <2> QED
    BY <2>1, <2>2, <2>3, <2>4
<1>5. ASSUME NEW s \in Session, ClientThread(s) PROVE UNCHANGED toClient
  BY <1>5 DEF ClientThread, ListenBound, OnErrorLocalListener, ExternalProbe,
     ExternalProbeFails, OnErrorLocalConnect, OnErrorRelayConnect, OnErrorExternalConnect,
     ConnectLocalTCP, ConnectRelay, ConnectUDT
<1>6. ASSUME NEW l \in LinkId, LinkStep(l) PROVE UNCHANGED toClient
  BY <1>6 DEF LinkStep, ConnectionEnds, OnAddLocalTCPConnector, OnAddConnector,
     OnAddLocalUDPConnector, OnAddRelayConnector, OnAddExternalConnector, OnModuleName,
     OnConnected
<1>7. CASE User \/ UserTypes \/ Checker
  BY <1>1, <1>7 DEF User, InitNewTunnel, DestroyTunnel, UserTypes, SetTypeTunnel,
     SetTunnelAvailableType, Checker, CheckTunnels, CheckServers, CheckSteps
<1> QED
  BY <1>1, <1>2, <1>3, <1>4, <1>5, <1>6, <1>7 DEF Next

LEMMA ToServerTable ==
  ASSUME Tables, Next
  PROVE  IsTable(toServer')
<1>1. IsTable(toServer)
  BY DEF Tables
<1>2. ASSUME NEW s \in Session, ServerHandler(s) PROVE IsTable(toServer')
  <2>1. toServer' = [toServer EXCEPT ![s] = Tail(@)]
    BY <1>2 DEF ServerHandler, OnPeerData, OnAvailablePearTypes, OnInitTunnel,
       OnInitTunnelComplete, ForwardTryConnectTo, FromClient
  <2> QED
    BY <1>1, <2>1, TableSet
<1>3. ASSUME NEW s \in Session, ClientHandler(s) PROVE IsTable(toServer')
  <2>1. toServer' = toServer
          \/ ToServer(s, [kind |-> "TryConnectTo", ext |-> Head(toClient[s]).ext,
                          type |-> "LOCAL_UDP", port |-> 0])
    BY <1>3 DEF ClientHandler, OnInitTunnelStarted, NotFound, CreateLocalListenThread,
       CreateLocalUDPSocket, InitExternalConnectThread, CreateRelayConnectThread,
       OnTryConnectTo, InitMsg
  <2> QED
    BY <1>1, <2>1, TableSend
<1>4. ASSUME NEW i \in ServerId, ServerThread(i) PROVE UNCHANGED toServer
  BY <1>4 DEF ServerThread, RelayListen, RelayAnnounce, RelayPair, RelayBound,
     RelayListenError, OnAddRelayServerConnector, ExternalListen, ExternalListenError,
     GotExternalAddresses
<1>5. ASSUME NEW s \in Session, ClientThread(s) PROVE IsTable(toServer')
  <2>1. ASSUME NEW e \in Session, ListenBound(s, e) PROVE IsTable(toServer')
    BY <1>1, <2>1, TableSend DEF ListenBound
  <2>2. CASE \A e \in Session : ~ListenBound(s, e)
    <3>1. UNCHANGED toServer
      BY <1>5, <2>2 DEF ClientThread, OnErrorLocalListener, ExternalProbe,
         ExternalProbeFails, OnErrorLocalConnect, OnErrorRelayConnect,
         OnErrorExternalConnect, ConnectLocalTCP, ConnectRelay, ConnectUDT
    <3> QED
      BY <1>1, <3>1
  <2> QED
    BY <2>1, <2>2
<1>6. ASSUME NEW l \in LinkId, LinkStep(l) PROVE IsTable(toServer')
  <2>1. ASSUME NEW s \in Session, OnConnected(s, l) PROVE IsTable(toServer')
    BY <1>1, <2>1, TableSend DEF OnConnected, InitTunnelComplete
  <2>2. CASE \A s \in Session : ~OnConnected(s, l)
    <3>1. UNCHANGED toServer
      BY <1>6, <2>2 DEF LinkStep, ConnectionEnds, OnAddLocalTCPConnector, OnAddConnector,
         OnAddLocalUDPConnector, OnAddRelayConnector, OnAddExternalConnector, OnModuleName
    <3> QED
      BY <1>1, <3>1
  <2> QED
    BY <2>1, <2>2
<1>7. CASE User \/ UserTypes \/ Checker
  <2>1. ASSUME NEW s \in Session, NEW e \in Session, NEW t \in Type, InitNewTunnel(s, e, t)
        PROVE  IsTable(toServer')
    <3> DEFINE first == IF t = "UNKNOWN" THEN <<>>
                        ELSE <<[kind |-> "PeerData", ext |-> e, type |-> t]>>
               v == toServer[s] \o first \o <<[kind |-> "InitTunnelRequest", ext |-> e]>>
    <3>1. toServer' = [toServer EXCEPT ![s] = v]
      BY <2>1 DEF InitNewTunnel
    <3> HIDE DEF v
    <3> QED
      BY <1>1, <3>1, TableSet
  <2> QED
    BY <1>1, <1>7, <2>1, TableSend DEF User, DestroyTunnel, UserTypes, SetTypeTunnel,
       SetTunnelAvailableType, Checker, CheckTunnels, CheckServers, CheckSteps
<1> QED
  BY <1>1, <1>2, <1>3, <1>4, <1>5, <1>6, <1>7 DEF Next

LEMMA ConnectingTable ==
  ASSUME Tables, Next
  PROVE  IsTable(connecting')
<1>1. IsTable(connecting)
  BY DEF Tables
<1>2. ASSUME NEW s \in Session, ServerHandler(s) PROVE UNCHANGED connecting
  BY <1>2 DEF ServerHandler, OnPeerData, OnAvailablePearTypes, OnInitTunnel,
     OnInitTunnelComplete, ForwardTryConnectTo, client
<1>3. ASSUME NEW s \in Session, ClientHandler(s) PROVE IsTable(connecting')
  <2>1. CASE UNCHANGED connecting
    BY <1>1, <2>1
  <2>2. CASE CreateRelayConnectThread(s) \/ OnTryConnectTo(s)
    BY <1>1, <2>2, TableThread DEF CreateRelayConnectThread, OnTryConnectTo,
       CreateExternalConnectThread, ChangeConnectAddress, CreateLocalConnectThread
  <2> QED
    BY <1>3, <2>1, <2>2 DEF ClientHandler, OnInitTunnelStarted, NotFound,
       CreateLocalListenThread, CreateLocalUDPSocket, InitExternalConnectThread, client
<1>4. ASSUME NEW i \in ServerId, ServerThread(i) PROVE UNCHANGED connecting
  BY <1>4 DEF ServerThread, RelayListen, RelayAnnounce, RelayPair, RelayBound,
     RelayListenError, OnAddRelayServerConnector, ExternalListen, ExternalListenError,
     GotExternalAddresses, client
<1>5. ASSUME NEW s \in Session, ClientThread(s) PROVE IsTable(connecting')
  <2>1. ASSUME NEW c \in connecting[s],
               connecting' = EndConnecting(connecting, s, c)
                 \/ \E d \in connecting[c.ext] : connecting'
                      = EndConnecting(EndConnecting(connecting, s, c), c.ext, d)
        PROVE  IsTable(connecting')
    BY <1>1, <2>1, TableEnd
  <2> QED
    BY <1>1, <1>5, <2>1 DEF ClientThread, ListenBound, OnErrorLocalListener, ExternalProbe,
       ExternalProbeFails, OnErrorLocalConnect, OnErrorRelayConnect,
       OnErrorExternalConnect, ConnectLocalTCP, ConnectRelay, ConnectUDT, client
<1>6. ASSUME NEW l \in LinkId, LinkStep(l) PROVE UNCHANGED connecting
  BY <1>6 DEF LinkStep, ConnectionEnds, OnAddLocalTCPConnector, OnAddConnector,
     OnAddLocalUDPConnector, OnAddRelayConnector, OnAddExternalConnector, OnModuleName,
     OnConnected, client
<1>7. CASE User \/ UserTypes \/ Checker
  BY <1>1, <1>7 DEF User, InitNewTunnel, DestroyTunnel, UserTypes, SetTypeTunnel,
     SetTunnelAvailableType, Checker, CheckTunnels, CheckServers, CheckSteps, client
<1> QED
  BY <1>1, <1>2, <1>3, <1>4, <1>5, <1>6, <1>7 DEF Next

LEMMA TypesAre ==
  ASSUME CoreInv, LoadOK, Tables
  PROVE  TypeOK
<1>0. /\ \A s \in Session : toServer[s] \in Seq(FromClientMsg(s))
      /\ \A s \in Session : toClient[s] \in Seq(ToClientMsg(s))
      /\ m_tunnels \in [Session -> [Session -> ClientRecord]]
      /\ stale \in [Session -> [Session -> Nat]]
      /\ \A s \in Session : connecting[s] \subseteq ConnectTo(s)
      /\ started \in 0..MaxInit /\ MaxInit \in Nat
  BY TunnelAssumption DEF CoreInv, TypeInv, Wires, Clients, Rest
<1>1. toServer \in [Session -> Seq(Message)]
  <2>1. ASSUME NEW s \in Session PROVE toServer[s] \in Seq(Message)
    <3>1. FromClientMsg(s) \subseteq Message
      <4>1. LocalType \subseteq AllType
        BY DEF AllType
      <4> QED
        BY <4>1 DEF FromClientMsg, Message
    <3> QED
      BY <1>0, <3>1
  <2> QED
    BY <2>1 DEF Tables, IsTable
<1>2. toClient \in [Session -> Seq(Message)]
  <2>1. ASSUME NEW s \in Session PROVE toClient[s] \in Seq(Message)
    <3>1. ToClientMsg(s) \subseteq Message
      <4>1. LocalType \cup {"EXTERNAL"} \subseteq AllType
        BY DEF AllType
      <4> QED
        BY <4>1 DEF ToClientMsg, Message
    <3> QED
      BY <1>0, <3>1
  <2> QED
    BY <2>1 DEF Tables, IsTable
<1>3. m_tunnels \in [Session -> [Session -> TunnelRecord]]
  <2>1. ClientRecord \subseteq TunnelRecord
    BY DEF ClientRecord, TunnelRecord
  <2> QED
    BY <1>0, <2>1
<1>4. stale \in [Session -> [Session -> 0..MaxInit]]
  <2>1. ASSUME NEW s \in Session, NEW e \in Session PROVE stale[s][e] \in 0..MaxInit
    <3> DEFINE N == Cardinality(Places(toClient[s], Listens(s, e)))
               r == Running(m_tunnels[s][e])
    <3>1. N \in Nat
      BY <1>0, PlacesFinite
    <3>2. r \in {0, 1} /\ stale[s][e] \in Nat
      BY <1>0 DEF Running
    <3>3. N + r + stale[s][e] <= started
      BY DEF LoadOK
    <3> HIDE DEF N, r
    <3> QED
      BY <1>0, <3>1, <3>2, <3>3
  <2>2. ASSUME NEW s \in Session PROVE stale[s] \in [Session -> 0..MaxInit]
    BY <1>0, <2>1
  <2> QED
    BY <1>0, <2>2
<1>5. connecting \in [Session -> SUBSET [ext : Session, type : AllType, port : 0..MaxInit,
                                        srv : ServerId \cup {NoId}, at : 0..MaxInit]]
  <2>1. ASSUME NEW s \in Session
        PROVE  connecting[s] \subseteq [ext : Session, type : AllType, port : 0..MaxInit,
                                        srv : ServerId \cup {NoId}, at : 0..MaxInit]
    <3>1. ConnectTo(s) \subseteq [ext : Session, type : AllType, port : 0..MaxInit,
                                  srv : ServerId \cup {NoId}, at : 0..MaxInit]
      BY DEF ConnectTo
    <3> QED
      BY <1>0, <3>1
  <2> QED
    BY <2>1 DEF Tables, IsTable
<1>6. Servers /\ Links /\ Rest
  BY DEF CoreInv, TypeInv
<1> QED
  BY <1>1, <1>2, <1>3, <1>4, <1>5, <1>6 DEF TypeOK, Servers, Links, Rest

BaseInv == CoreInv /\ LoadOK /\ Tables

LEMMA BaseInit == Init => BaseInv
<1>1. Init => Tables
  BY DEF Init, Tables, IsTable
<1> QED
  BY <1>1, CoreInit, LoadInit DEF BaseInv

LEMMA BaseStep == BaseInv /\ [Next]_vars => BaseInv'
<1> SUFFICES ASSUME BaseInv, [Next]_vars PROVE BaseInv'
  OBVIOUS
<1>1. CoreInv'
  BY CoreStep DEF BaseInv
<1>2. CASE Next
  <2>1. LoadOK'
    BY <1>1, <1>2, LoadStep DEF BaseInv
  <2>2. Tables'
    BY <1>2, ToClientTable, ToServerTable, ConnectingTable DEF BaseInv, Tables
  <2> QED
    BY <1>1, <2>1, <2>2 DEF BaseInv
<1>3. CASE UNCHANGED vars
  <2>1. UNCHANGED <<toServer, toClient, m_tunnels, stale, connecting, started>>
    BY <1>3 DEF vars, client, history
  <2>2. LoadOK'
    BY <2>1 DEF BaseInv, LoadOK, Running
  <2>3. Tables'
    BY <2>1 DEF BaseInv, Tables
  <2> QED
    BY <1>1, <2>2, <2>3 DEF BaseInv
<1> QED
  BY <1>2, <1>3

-----------------------------------------------------------------------------
(* What a step does to the messages of a client for the server *)
Plain(s) == {m \in FromClientMsg(s) : m.kind # "TryConnectTo"}

SendsPlain(s) ==
  \/ \E a \in Plain(s) : toServer'[s] = Append(toServer[s], a)
  \/ \E a, b \in Plain(s) : toServer'[s] = Append(Append(toServer[s], a), b)

SendsSocket(s) ==
  /\ Reads(s) /\ CreateLocalUDPSocket(s)
  /\ toServer'[s] = Append(toServer[s], TryMsg(Head(toClient[s]).ext, "LOCAL_UDP", 0))

SendsListen(s) ==
  \E e \in Session, p \in 0..MaxInit :
    /\ m_tunnels[s][e].listen = "run" \/ stale[s][e] > 0
    /\ toServer'[s] = Append(toServer[s], TryMsg(e, "LOCAL_TCP", p))

Passes(s) ==
  /\ toServer[s] # <<>> /\ toServer'[s] = Tail(toServer[s])
  /\ Head(toServer[s]).kind = "TryConnectTo" => ForwardTryConnectTo(s)

SentMove(s) ==
  toServer'[s] = toServer[s] \/ SendsPlain(s) \/ SendsSocket(s) \/ SendsListen(s) \/ Passes(s)

SentMoves == \A s \in Session : SentMove(s)

LEMMA QuietSent ==
  ASSUME UNCHANGED toServer
  PROVE  SentMoves
BY DEF SentMoves, SentMove

LEMMA OneSends ==
  ASSUME CoreInv, NEW s \in Session, NEW m, ToServer(s, m)
  PROVE  /\ toServer'[s] = Append(toServer[s], m)
         /\ \A x \in Session \ {s} : toServer'[x] = toServer[x]
BY DEF ToServer, CoreInv, TypeInv, Wires

LEMMA AskSent ==
  ASSUME CoreInv, NEW s \in Session, NEW e \in Session, NEW t \in Type, s # e,
         InitNewTunnel(s, e, t)
  PROVE  SentMoves
<1> DEFINE peer == [kind |-> "PeerData", ext |-> e, type |-> t]
           first == IF t = "UNKNOWN" THEN <<>> ELSE <<peer>>
           m == [kind |-> "InitTunnelRequest", ext |-> e]
<1>1. toServer' = [toServer EXCEPT ![s] = @ \o first \o <<m>>]
  BY DEF InitNewTunnel
<1>2. m \in Plain(s)
  BY DEF FromClientMsg, Plain
<1>3. t # "UNKNOWN" => peer \in Plain(s)
  BY TunnelAssumption DEF FromClientMsg, Plain
<1>4. toServer[s] \in Seq(FromClientMsg(s)) /\ DOMAIN toServer = Session
  BY DEF CoreInv, TypeInv, Wires
<1> HIDE DEF peer, m
<1>5. \A x \in Plain(s) : x \in FromClientMsg(s)
  BY DEF Plain
<1>6. \/ toServer'[s] = Append(toServer[s], m)
      \/ t # "UNKNOWN" /\ toServer'[s] = Append(Append(toServer[s], peer), m)
  <2>1. CASE t = "UNKNOWN"
    <3>1. toServer'[s] = toServer[s] \o <<>> \o <<m>>
      BY <1>1, <1>4, <2>1
    <3> QED
      BY <1>2, <1>4, <1>5, <3>1
  <2>2. CASE t # "UNKNOWN"
    <3>1. toServer'[s] = toServer[s] \o <<peer>> \o <<m>>
      BY <1>1, <1>4, <2>2
    <3>2. peer \in FromClientMsg(s) /\ m \in FromClientMsg(s)
      BY <1>2, <1>3, <1>5, <2>2
    <3>3. toServer[s] \o <<peer>> \o <<m>> = Append(Append(toServer[s], peer), m)
      BY <1>4, <3>2, AppendTwo
    <3> QED
      BY <2>2, <3>1, <3>3
  <2> QED
    BY <2>1, <2>2
<1>7. SendsPlain(s)
  BY <1>2, <1>3, <1>6 DEF SendsPlain
<1>8. \A x \in Session \ {s} : toServer'[x] = toServer[x]
  <2> HIDE DEF first
  <2> QED
    BY <1>1, <1>4
<1> QED
  BY <1>7, <1>8 DEF SentMoves, SentMove

LEMMA PlainSent ==
  ASSUME CoreInv, NEW s \in Session, NEW m \in Plain(s), ToServer(s, m)
  PROVE  SentMoves
<1>1. SendsPlain(s) /\ \A x \in Session \ {s} : toServer'[x] = toServer[x]
  BY OneSends DEF SendsPlain
<1> QED
  BY <1>1 DEF SentMoves, SentMove

LEMMA SentStep ==
  ASSUME CoreInv, Next
  PROVE  SentMoves
<1> USE DEF server, client, history
<1>1. CASE User
  BY <1>1, AskSent, QuietSent DEF User, DestroyTunnel
<1>2. CASE UserTypes
  <2>1. ASSUME NEW s \in Session, NEW t \in Announced, SetTunnelAvailableType(s, t)
        PROVE  SentMoves
    <3> DEFINE m == [kind |-> "AvailablePearTypes", types |-> t]
    <3>1. m \in Plain(s)
      BY TunnelAssumption DEF FromClientMsg, Plain
    <3>2. ToServer(s, m)
      BY <2>1 DEF SetTunnelAvailableType
    <3> HIDE DEF m
    <3> QED
      BY <3>1, <3>2, PlainSent
  <2> QED
    BY <1>2, <2>1, QuietSent DEF UserTypes, SetTypeTunnel
<1>3. CASE Checker
  BY <1>3, QuietSent DEF Checker, CheckTunnels, CheckServers, CheckSteps
<1>4. ASSUME NEW s \in Session, ServerHandler(s) PROVE SentMoves
  <2>1. /\ toServer[s] # <<>> /\ toServer' = [toServer EXCEPT ![s] = Tail(@)]
        /\ ForwardTryConnectTo(s) \/ Head(toServer[s]).kind # "TryConnectTo"
    BY <1>4 DEF ServerHandler, OnPeerData, OnAvailablePearTypes, OnInitTunnel,
       OnInitTunnelComplete, ForwardTryConnectTo, FromClient
  <2>2. DOMAIN toServer = Session
    BY DEF CoreInv, TypeInv, Wires
  <2>3. Passes(s) /\ \A x \in Session \ {s} : toServer'[x] = toServer[x]
    BY <2>1, <2>2 DEF Passes
  <2> QED
    BY <2>3 DEF SentMoves, SentMove
<1>5. ASSUME NEW s \in Session, ClientHandler(s) PROVE SentMoves
  <2>1. CASE UNCHANGED toServer
    BY <2>1, QuietSent
  <2>2. CASE ~UNCHANGED toServer
    <3> DEFINE m == [kind |-> "TryConnectTo", ext |-> Head(toClient[s]).ext,
                     type |-> "LOCAL_UDP", port |-> 0]
    <3>1. Reads(s) /\ CreateLocalUDPSocket(s) /\ ToServer(s, m)
      BY <1>5, <2>2 DEF Reads, ClientHandler, OnInitTunnelStarted, NotFound,
         CreateLocalListenThread, CreateLocalUDPSocket, InitExternalConnectThread,
         CreateRelayConnectThread, OnTryConnectTo, InitMsg, FromServer
    <3>2. m = TryMsg(Head(toClient[s]).ext, "LOCAL_UDP", 0)
      BY DEF TryMsg
    <3> HIDE DEF m
    <3>3. SendsSocket(s) /\ \A x \in Session \ {s} : toServer'[x] = toServer[x]
      BY <3>1, <3>2, OneSends DEF SendsSocket
    <3> QED
      BY <3>3 DEF SentMoves, SentMove
  <2> QED
    BY <2>1, <2>2
<1>6. ASSUME NEW s \in Session, ClientThread(s) PROVE SentMoves
  <2>1. ASSUME NEW e \in Session, ListenBound(s, e) PROVE SentMoves
    <3>1. m_tunnels[s][e].port \in 0..MaxInit /\ 0 \in 0..MaxInit
      BY TunnelAssumption DEF CoreInv, TypeInv, Clients, ClientRecord
    <3>2. /\ m_tunnels[s][e].listen = "run" \/ stale[s][e] > 0
          /\ ToServer(s, TryMsg(e, "LOCAL_TCP", m_tunnels[s][e].port))
               \/ ToServer(s, TryMsg(e, "LOCAL_TCP", 0))
      BY <2>1 DEF ListenBound, TryMsg
    <3>3. PICK p \in 0..MaxInit : ToServer(s, TryMsg(e, "LOCAL_TCP", p))
      BY <3>1, <3>2
    <3>4. SendsListen(s) /\ \A x \in Session \ {s} : toServer'[x] = toServer[x]
      BY <3>2, <3>3, OneSends DEF SendsListen
    <3> QED
      BY <3>4 DEF SentMoves, SentMove
  <2>2. CASE \A e \in Session : ~ListenBound(s, e)
    <3>1. UNCHANGED toServer
      BY <1>6, <2>2 DEF ClientThread, OnErrorLocalListener, ExternalProbe,
         ExternalProbeFails, OnErrorLocalConnect, OnErrorRelayConnect,
         OnErrorExternalConnect, ConnectLocalTCP, ConnectRelay, ConnectUDT
    <3> QED
      BY <3>1, QuietSent
  <2> QED
    BY <2>1, <2>2
<1>7. ASSUME NEW i \in ServerId, ServerThread(i) PROVE SentMoves
  <2>1. UNCHANGED toServer
    BY <1>7 DEF ServerThread, RelayListen, RelayAnnounce, RelayPair, RelayBound,
       RelayListenError, OnAddRelayServerConnector, ExternalListen, ExternalListenError,
       GotExternalAddresses
  <2> QED
    BY <2>1, QuietSent
<1>8. ASSUME NEW l \in LinkId, LinkStep(l) PROVE SentMoves
  <2>1. ASSUME NEW s \in Session, OnConnected(s, l) PROVE SentMoves
    <3> DEFINE x == link[l].name[s]
               m == [kind |-> "InitTunnelComplete", ext |-> x]
    <3>1. x \in Session \ {s}
      BY <2>1, NamesAre DEF CoreInv, TypeInv, Links, LinkRecord, OnConnected,
         EndsNameEachOther
    <3>2. m \in Plain(s)
      BY <3>1 DEF FromClientMsg, Plain
    <3>3. ToServer(s, m)
      BY <2>1 DEF OnConnected, InitTunnelComplete
    <3> HIDE DEF m
    <3> QED
      BY <3>2, <3>3, PlainSent
  <2>2. CASE \A s \in Session : ~OnConnected(s, l)
    <3>1. UNCHANGED toServer
      BY <1>8, <2>2 DEF LinkStep, ConnectionEnds, OnAddLocalTCPConnector, OnAddConnector,
         OnAddLocalUDPConnector, OnAddRelayConnector, OnAddExternalConnector, OnModuleName
    <3> QED
      BY <3>1, QuietSent
  <2> QED
    BY <2>1, <2>2
<1> QED
  BY <1>1, <1>2, <1>3, <1>4, <1>5, <1>6, <1>7, <1>8 DEF Next

-----------------------------------------------------------------------------
(* What a step does to the ends of the tunnels *)
LEMMA EndSet ==
  ASSUME Links, NEW l \in LinkId, NEW s \in Session, NEW v,
         link' = [link EXCEPT ![l].end[s] = v]
  PROVE  /\ link'[l].end[s] = v
         /\ \A j \in LinkId :
              /\ link'[j].name = link[j].name
              /\ link'[j].type = link[j].type /\ link'[j].srv = link[j].srv
              /\ \A x \in Session : j # l \/ x # s => link'[j].end[x] = link[j].end[x]
<1> DEFINE e == [link[l].end EXCEPT ![s] = v]
           k == [link[l] EXCEPT !.end = e]
<1>1. link \in [LinkId -> LinkRecord] /\ link[l] \in LinkRecord
  BY DEF Links
<1>2. e[s] = v /\ \A x \in Session : x # s => e[x] = link[l].end[x]
  BY <1>1 DEF LinkRecord
<1>3. link' = [link EXCEPT ![l] = k]
  OBVIOUS
<1> HIDE DEF e
<1>4. k.end = e /\ k.name = link[l].name /\ k.type = link[l].type /\ k.srv = link[l].srv
  BY <1>1 DEF LinkRecord
<1> HIDE DEF k
<1>5. link'[l] = k /\ \A j \in LinkId : j # l => link'[j] = link[j]
  BY <1>1, <1>3
<1>6. link'[l].end[s] = v
  BY <1>2, <1>4, <1>5
<1>7. ASSUME NEW j \in LinkId
      PROVE  /\ link'[j].name = link[j].name
             /\ link'[j].type = link[j].type /\ link'[j].srv = link[j].srv
             /\ \A x \in Session : j # l \/ x # s => link'[j].end[x] = link[j].end[x]
  BY <1>2, <1>4, <1>5
<1> QED
  BY <1>6, <1>7

LEMMA NameSet ==
  ASSUME Links, NEW l \in LinkId, NEW s \in Session, NEW v \in Up,
         NEW n \in Session, link' = [link EXCEPT ![l].end[s] = v, ![l].name[s] = n]
  PROVE  /\ link'[l].end[s] = v /\ link'[l].name[s] = n
         /\ \A j \in LinkId :
              /\ link'[j].type = link[j].type /\ link'[j].srv = link[j].srv
              /\ \A x \in Session : j # l \/ x # s =>
                   link'[j].end[x] = link[j].end[x] /\ link'[j].name[x] = link[j].name[x]
<1> DEFINE e == [link[l].end EXCEPT ![s] = v]
           a == [link[l].name EXCEPT ![s] = n]
           k == [link[l] EXCEPT !.end = e, !.name = a]
<1>1. link \in [LinkId -> LinkRecord] /\ link[l] \in LinkRecord
  BY DEF Links
<1>2. /\ e[s] = v /\ \A x \in Session : x # s => e[x] = link[l].end[x]
      /\ a[s] = n /\ \A x \in Session : x # s => a[x] = link[l].name[x]
  BY <1>1 DEF LinkRecord
<1>3. link' = [link EXCEPT ![l] = k]
  BY <1>1
<1> HIDE DEF e, a
<1>4. k.end = e /\ k.name = a /\ k.type = link[l].type /\ k.srv = link[l].srv
  BY <1>1 DEF LinkRecord
<1> HIDE DEF k
<1>5. link'[l] = k /\ \A j \in LinkId : j # l => link'[j] = link[j]
  BY <1>1, <1>3
<1>6. link'[l].end[s] = v /\ link'[l].name[s] = n
  BY <1>2, <1>4, <1>5
<1>7. ASSUME NEW j \in LinkId
      PROVE  /\ link'[j].type = link[j].type /\ link'[j].srv = link[j].srv
             /\ \A x \in Session : j # l \/ x # s =>
                   link'[j].end[x] = link[j].end[x] /\ link'[j].name[x] = link[j].name[x]
  <2>1. CASE j = l
    <3>1. link'[j].end = e /\ link'[j].name = a /\ link'[j].type = link[j].type
            /\ link'[j].srv = link[j].srv
      BY <1>4, <1>5, <2>1
    <3>2. ASSUME NEW x \in Session, x # s
          PROVE  link'[j].end[x] = link[j].end[x] /\ link'[j].name[x] = link[j].name[x]
      BY <1>2, <2>1, <3>1, <3>2
    <3> QED
      BY <2>1, <3>1, <3>2
  <2>2. CASE j # l
    BY <1>5, <2>2
  <2> QED
    BY <2>1, <2>2
<1> QED
  BY <1>6, <1>7

(* A client that connects, or that another one connects to *)
Reached(s) ==
  connecting[s] # {} \/ \E x \in Session : m_tunnels[s][x].listen = "listening"

Over(l, s, e) ==
  link[l].type = "LOCAL_UDP" /\ link[l].end[s] # "none" /\ link[l].end[e] # "none"

EndMove(l, s) ==
  \/ link'[l].end[s] = "none"
  \/ link'[l].end[s] = link[l].end[s] /\ link'[l].name[s] = link[l].name[s]
  \/ link[l].end[s] = "made" /\ link'[l].end[s] = "new"
  \/ link'[l].end[s] = "made" /\ Reached(s)
  \/ link[l].end[s] = "named" /\ link'[l].name[s] = link[l].name[s]
  \/ link[l].end[s] = "new" /\ OnModuleName(s, l, link'[l].name[s])

(* A tunnel over UDP is new only when its clients connected to each other *)
KindMove(l) ==
  /\ \/ link'[l].type = link[l].type /\ link'[l].srv = link[l].srv
     \/ link'[l].type # "LOCAL_UDP" \/ link'[l].srv = NoId
  /\ \A s, e \in Session : s # e /\ Over(l, s, e)' =>
       \/ Over(l, s, e)
       \/ link[l].type = "LOCAL_UDP" /\ link[l].srv # NoId
       \/ \E c \in connecting[s] : c.type = "LOCAL_UDP" /\ c.ext = e

LinkMoves == \A l \in LinkId : KindMove(l) /\ \A s \in Session : EndMove(l, s)

LEMMA EndedMoves ==
  ASSUME \A l \in LinkId : link'[l] = link[l] \/ link'[l] = NoLink
  PROVE  LinkMoves
<1>1. ASSUME NEW l \in LinkId, link'[l] = link[l]
      PROVE  KindMove(l) /\ \A s \in Session : EndMove(l, s)
  BY <1>1 DEF KindMove, EndMove, Over
<1>2. ASSUME NEW l \in LinkId, link'[l] = NoLink
      PROVE  KindMove(l) /\ \A s \in Session : EndMove(l, s)
  BY <1>2 DEF KindMove, EndMove, Over, NoLink
<1> QED
  BY <1>1, <1>2 DEF LinkMoves

LEMMA DirectMoves ==
  ASSUME Links, NEW s \in Session, NEW c \in ConnectTo(s), c \in connecting[s],
         c.type \notin RelayType, NEW l \in LinkId, NewLink(l, c, s), Reached(c.ext),
         c.type = "LOCAL_UDP" =>
           \E d \in connecting[c.ext] : d.type = "LOCAL_UDP" /\ d.ext = s
  PROVE  LinkMoves
<1> DEFINE e == [x \in Session |-> IF x \in {s, c.ext} THEN "made" ELSE "none"]
           k == [NoLink EXCEPT !.type = c.type, !.srv = c.srv, !.end = e]
<1>1. c.ext \in Session \ {s} /\ c.srv = NoId /\ c.type \in AllType
  BY DEF ConnectTo
<1>2. link' = [link EXCEPT ![l] = k]
  BY DEF NewLink
<1>3. \A x \in Session : e[x] = "none" \/ (e[x] = "made" /\ x \in {s, c.ext})
  OBVIOUS
<1> HIDE DEF e
<1>4. k.srv = NoId /\ k.end = e /\ k.type = c.type
  BY <1>1, Blanks DEF LinkRecord
<1> HIDE DEF k
<1>5. link'[l] = k /\ \A j \in LinkId : j # l => link'[j] = link[j]
  BY <1>2 DEF Links
<1>6. ASSUME NEW j \in LinkId, j # l
      PROVE  KindMove(j) /\ \A x \in Session : EndMove(j, x)
  BY <1>5, <1>6 DEF KindMove, EndMove, Over
<1>7. Reached(s)
  BY DEF Reached
<1>8. \A x \in Session : EndMove(l, x)
  BY <1>3, <1>4, <1>5, <1>7 DEF EndMove
<1>9. KindMove(l)
  <2>1. ASSUME NEW x \in Session, NEW y \in Session, x # y, Over(l, x, y)'
        PROVE  \E d \in connecting[x] : d.type = "LOCAL_UDP" /\ d.ext = y
    <3>1. c.type = "LOCAL_UDP" /\ {x, y} = {s, c.ext}
      BY <1>3, <1>4, <1>5, <2>1 DEF Over
    <3>2. PICK d \in connecting[c.ext] : d.type = "LOCAL_UDP" /\ d.ext = s
      BY <3>1
    <3>3. (x = s /\ y = c.ext) \/ (x = c.ext /\ y = s)
      BY <2>1, <3>1
    <3> QED
      BY <3>1, <3>2, <3>3
  <2> QED
    BY <1>4, <1>5, <2>1 DEF KindMove
<1> QED
  BY <1>6, <1>8, <1>9 DEF LinkMoves

LEMMA RelayMoves ==
  ASSUME CoreInv, NEW s \in Session, NEW c \in connecting[s], NEW l \in LinkId,
         ConnectRelay(s, c, l)
  PROVE  LinkMoves
<1>1. Links /\ Reached(s) /\ c.type \in RelayType /\ c \in ConnectTo(s)
  BY DEF CoreInv, TypeInv, Clients, ConnectRelay, Reached
<1>2. c.srv # NoId /\ c.type # "LOCAL_UDP"
  BY <1>1 DEF ConnectTo, Named, ServerId, NoId, RelayType
<1>3. CASE link[l].srv = c.srv /\ link' = [link EXCEPT ![l].end[s] = "made"]
  <2>1. /\ link'[l].end[s] = "made"
        /\ \A j \in LinkId :
              /\ link'[j].name = link[j].name
              /\ link'[j].type = link[j].type /\ link'[j].srv = link[j].srv
              /\ \A x \in Session : j # l \/ x # s => link'[j].end[x] = link[j].end[x]
    BY <1>1, <1>3, EndSet
  <2>2. ASSUME NEW j \in LinkId, NEW x \in Session PROVE EndMove(j, x)
    BY <1>1, <2>1 DEF EndMove
  <2>3. ASSUME NEW j \in LinkId PROVE KindMove(j)
    BY <1>2, <1>3, <2>1 DEF KindMove, Over
  <2> QED
    BY <2>2, <2>3 DEF LinkMoves
<1>4. CASE /\ FreeLink(l)
           /\ link' = [link EXCEPT ![l] = [NoLink EXCEPT !.type = c.type, !.srv = c.srv,
                                                         !.end[s] = "made"]]
  <2> DEFINE e == [NoLink.end EXCEPT ![s] = "made"]
             k == [NoLink EXCEPT !.type = c.type, !.srv = c.srv, !.end = e]
  <2>1. \A x \in Session : e[x] = "none" \/ (e[x] = "made" /\ x = s)
    BY DEF NoLink
  <2>2. link' = [link EXCEPT ![l] = k]
    BY <1>4
  <2> HIDE DEF e
  <2>3. k.end = e /\ k.type = c.type
    BY Blanks DEF LinkRecord
  <2> HIDE DEF k
  <2>4. link'[l] = k /\ \A j \in LinkId : j # l => link'[j] = link[j]
    BY <1>1, <2>2 DEF Links
  <2>5. ASSUME NEW j \in LinkId, j # l
        PROVE  KindMove(j) /\ \A x \in Session : EndMove(j, x)
    BY <2>4, <2>5 DEF KindMove, EndMove, Over
  <2>6. \A x \in Session : EndMove(l, x)
    BY <1>1, <2>1, <2>3, <2>4 DEF EndMove
  <2>7. KindMove(l)
    BY <1>2, <2>3, <2>4 DEF KindMove, Over
  <2> QED
    BY <2>5, <2>6, <2>7 DEF LinkMoves
<1> QED
  BY <1>3, <1>4 DEF ConnectRelay

(* Sockets and threads do not change the tunnels that there are *)
LEMMA LinkMovesStep ==
  ASSUME CoreInv, Next
  PROVE  LinkMoves
<1> USE DEF server, client, history
<1>0. Links /\ \A l \in LinkId : link[l] \in LinkRecord
  BY DEF CoreInv, TypeInv, Links
<1>1. CASE UNCHANGED link
  BY <1>1, EndedMoves
<1>2. ASSUME NEW s \in Session, ClientThread(s) PROVE LinkMoves
  <2>1. ASSUME NEW c \in connecting[s], NEW l \in LinkId, ConnectLocalTCP(s, c, l)
        PROVE  LinkMoves
    <3>1. c \in ConnectTo(s) /\ c.type = "LOCAL_TCP" /\ NewLink(l, c, s)
          /\ m_tunnels[c.ext][s].listen = "listening"
      BY <2>1 DEF ConnectLocalTCP, CoreInv, TypeInv, Clients
    <3>2. Reached(c.ext) /\ c.type \notin RelayType
      BY <3>1 DEF Reached, RelayType
    <3> QED
      BY <1>0, <3>1, <3>2, DirectMoves
  <2>2. ASSUME NEW c \in connecting[s], NEW d \in connecting[c.ext], NEW l \in LinkId,
               ConnectUDT(s, c, d, l)
        PROVE  LinkMoves
    <3>1. /\ c \in ConnectTo(s) /\ c.type \in {"LOCAL_UDP", "EXTERNAL"} /\ NewLink(l, c, s)
          /\ d.ext = s /\ d.type = c.type
      BY <2>2 DEF ConnectUDT, CoreInv, TypeInv, Clients
    <3>2. Reached(c.ext) /\ c.type \notin RelayType
      BY <3>1 DEF Reached, RelayType
    <3> QED
      BY <1>0, <3>1, <3>2, DirectMoves
  <2>3. CASE ~UNCHANGED link
    BY <1>2, <2>1, <2>2, <2>3, RelayMoves DEF ClientThread, ListenBound,
       OnErrorLocalListener, ExternalProbe, ExternalProbeFails, OnErrorLocalConnect,
       OnErrorRelayConnect, OnErrorExternalConnect
  <2> QED
    BY <1>1, <2>3
<1>3. ASSUME NEW l \in LinkId, LinkStep(l) PROVE LinkMoves
  <2>1. ASSUME NEW s \in Session, NEW u, NEW v, link[l].end[s] = u,
               link' = [link EXCEPT ![l].end[s] = v],
               (u = "made" /\ v = "new") \/ (u = "named" /\ v = "connected")
        PROVE  LinkMoves
    <3>1. /\ link'[l].end[s] = v
          /\ \A j \in LinkId :
              /\ link'[j].name = link[j].name
              /\ link'[j].type = link[j].type /\ link'[j].srv = link[j].srv
              /\ \A x \in Session : j # l \/ x # s => link'[j].end[x] = link[j].end[x]
      BY <1>0, <2>1, EndSet
    <3>2. ASSUME NEW j \in LinkId, NEW x \in Session PROVE EndMove(j, x)
      BY <2>1, <3>1 DEF EndMove
    <3>3. ASSUME NEW j \in LinkId, NEW x \in Session
          PROVE  link[j].end[x] = "none" => link'[j].end[x] = "none"
      BY <2>1, <3>1
    <3>4. ASSUME NEW j \in LinkId PROVE KindMove(j)
      BY <3>1, <3>3 DEF KindMove, Over
    <3> QED
      BY <3>2, <3>4 DEF LinkMoves
  <2>2. ASSUME NEW s \in Session, NEW x \in Session, OnModuleName(s, l, x) PROVE LinkMoves
    <3>1. link[l].end[s] = "new"
          /\ link' = [link EXCEPT ![l].end[s] = "named", ![l].name[s] = x]
      BY <2>2 DEF OnModuleName
    <3>2. /\ link'[l].end[s] = "named" /\ link'[l].name[s] = x
          /\ \A j \in LinkId :
              /\ link'[j].type = link[j].type /\ link'[j].srv = link[j].srv
              /\ \A y \in Session : j # l \/ y # s =>
                   link'[j].end[y] = link[j].end[y] /\ link'[j].name[y] = link[j].name[y]
      BY <1>0, <3>1, NameSet DEF Up
    <3>3. ASSUME NEW j \in LinkId, NEW y \in Session, j # l \/ y # s PROVE EndMove(j, y)
      BY <3>2, <3>3 DEF EndMove
    <3>4. EndMove(l, s)
      BY <2>2, <3>1, <3>2 DEF EndMove
    <3>5. ASSUME NEW j \in LinkId, NEW y \in Session
          PROVE  link[j].end[y] = "none" => link'[j].end[y] = "none"
      BY <3>1, <3>2
    <3>6. ASSUME NEW j \in LinkId PROVE KindMove(j)
      BY <3>2, <3>5 DEF KindMove, Over
    <3> QED
      BY <3>3, <3>4, <3>6 DEF LinkMoves
  <2>3. CASE ConnectionEnds(l)
    BY <1>0, <2>3, EndedMoves DEF ConnectionEnds, Links
  <2>4. ASSUME NEW s \in Session, OnAddConnector(s, l) PROVE LinkMoves
    BY <2>1, <2>4 DEF OnAddConnector
  <2>5. ASSUME NEW s \in Session, OnConnected(s, l) PROVE LinkMoves
    BY <2>1, <2>5 DEF OnConnected, SetConnected
  <2> QED
    BY <1>3, <2>2, <2>3, <2>4, <2>5 DEF LinkStep, OnAddLocalTCPConnector,
       OnAddLocalUDPConnector, OnAddRelayConnector, OnAddExternalConnector
<1>4. CASE User
  <2>1. ASSUME NEW s \in Session, NEW e \in Session, DestroyTunnel(s, e) PROVE LinkMoves
    BY <2>1, EndedMoves DEF DestroyTunnel
  <2> QED
    BY <1>1, <1>4, <2>1 DEF User, InitNewTunnel
<1>5. CASE UserTypes \/ Checker
  BY <1>1, <1>5 DEF UserTypes, SetTypeTunnel, SetTunnelAvailableType, Checker, CheckTunnels,
     CheckServers, CheckSteps
<1>6. ASSUME NEW s \in Session, ServerHandler(s) PROVE UNCHANGED link
  BY <1>6 DEF ServerHandler, OnPeerData, OnAvailablePearTypes, OnInitTunnel,
     OnInitTunnelComplete, ForwardTryConnectTo
<1>7. ASSUME NEW s \in Session, ClientHandler(s) PROVE UNCHANGED link
  BY <1>7 DEF ClientHandler, OnInitTunnelStarted, NotFound, CreateLocalListenThread,
     CreateLocalUDPSocket, InitExternalConnectThread, CreateRelayConnectThread,
     OnTryConnectTo, InitMsg
<1>8. ASSUME NEW i \in ServerId, ServerThread(i) PROVE UNCHANGED link
  BY <1>8 DEF ServerThread, RelayListen, RelayAnnounce, RelayPair, RelayBound,
     RelayListenError, OnAddRelayServerConnector, ExternalListen, ExternalListenError,
     GotExternalAddresses
<1> QED
  BY <1>1, <1>2, <1>3, <1>4, <1>5, <1>6, <1>7, <1>8 DEF Next

-----------------------------------------------------------------------------
(* What a step does to the connect threads of a client: a new one is about what the
   client has just read                                                           *)
ThreadMove(s) ==
  \A c \in connecting'[s] \ connecting[s] :
    /\ Reads(s) /\ c.ext = Head(toClient[s]).ext
    /\ \/ c.type \in RelayType
       \/ Head(toClient[s]).kind = "TryConnectTo" /\ c.type = Head(toClient[s]).type

ThreadMoves == \A s \in Session : ThreadMove(s)

LEMMA NewThread ==
  ASSUME CoreInv, NEW s \in Session, Reads(s), NEW c,
         connecting' = [connecting EXCEPT ![s] = @ \cup {c}],
         c.ext = Head(toClient[s]).ext,
         \/ c.type \in RelayType
         \/ Head(toClient[s]).kind = "TryConnectTo" /\ c.type = Head(toClient[s]).type
  PROVE  ThreadMoves
<1>1. /\ connecting'[s] = connecting[s] \cup {c}
      /\ \A x \in Session : x # s => connecting'[x] = connecting[x]
  BY DEF CoreInv, TypeInv, Clients
<1> QED
  BY <1>1 DEF ThreadMoves, ThreadMove

LEMMA FewerThreads ==
  ASSUME \A s \in Session : connecting'[s] \subseteq connecting[s]
  PROVE  ThreadMoves
BY DEF ThreadMoves, ThreadMove

LEMMA EndedThread ==
  ASSUME CoreInv, NEW s \in Session, NEW c,
         \/ connecting' = EndConnecting(connecting, s, c)
         \/ \E x \in Session : \E d \in connecting[x] :
              connecting' = EndConnecting(EndConnecting(connecting, s, c), x, d)
  PROVE  ThreadMoves
<1>1. DOMAIN connecting = Session
  BY DEF CoreInv, TypeInv, Clients
<1>2. \A x \in Session : connecting'[x] \subseteq connecting[x]
  BY <1>1 DEF EndConnecting
<1> QED
  BY <1>2, FewerThreads

LEMMA ThreadStep ==
  ASSUME CoreInv, Next
  PROVE  ThreadMoves
<1> USE DEF server, client, history
<1>1. CASE UNCHANGED connecting
  BY <1>1, FewerThreads
<1>2. ASSUME NEW s \in Session, ClientHandler(s) PROVE ThreadMoves
  <2> DEFINE m == Head(toClient[s])
  <2>1. Reads(s)
    BY <1>2 DEF Reads, ClientHandler, OnInitTunnelStarted, NotFound, CreateLocalListenThread,
       CreateLocalUDPSocket, InitExternalConnectThread, CreateRelayConnectThread,
       OnTryConnectTo, InitMsg, FromServer
  <2>2. ASSUME NEW t, NEW p, NEW i, ConnectThread(s, m.ext, t, p, i),
               t \in RelayType \/ (m.kind = "TryConnectTo" /\ t = m.type)
        PROVE  ThreadMoves
    <3> DEFINE d == [ext |-> m.ext, type |-> t, port |-> p, srv |-> i, at |-> started]
    <3>1. connecting' = [connecting EXCEPT ![s] = @ \cup {d}]
      BY <2>2 DEF ConnectThread
    <3>2. d.ext = m.ext /\ d.type = t
      OBVIOUS
    <3> HIDE DEF d
    <3> QED
      BY <2>1, <2>2, <3>1, <3>2, NewThread
  <2>3. CASE CreateRelayConnectThread(s)
    <3>1. ConnectThread(s, m.ext, m.type, 0, m.srv) /\ m.type \in RelayType
      BY <2>3 DEF CreateRelayConnectThread, InitMsg
    <3> QED
      BY <2>2, <3>1
  <2>4. CASE OnTryConnectTo(s) /\ ~UNCHANGED connecting
    <3>1. m.kind = "TryConnectTo"
      BY <2>4 DEF OnTryConnectTo, FromServer
    <3>2. \/ m.type = "EXTERNAL" /\ ConnectThread(s, m.ext, "EXTERNAL", 0, NoId)
          \/ ConnectThread(s, m.ext, m.type, m.port, NoId)
      BY <2>4 DEF OnTryConnectTo, CreateExternalConnectThread, ChangeConnectAddress,
         CreateLocalConnectThread
    <3>3. CASE m.type = "EXTERNAL" /\ ConnectThread(s, m.ext, "EXTERNAL", 0, NoId)
      <4>1. "EXTERNAL" = m.type
        BY <3>3
      <4> QED
        BY <2>2, <3>1, <3>3, <4>1
    <3>4. CASE ConnectThread(s, m.ext, m.type, m.port, NoId)
      BY <2>2, <3>1, <3>4
    <3> QED
      BY <3>2, <3>3, <3>4
  <2> QED
    BY <1>1, <1>2, <2>3, <2>4 DEF ClientHandler, OnInitTunnelStarted, NotFound,
       CreateLocalListenThread, CreateLocalUDPSocket, InitExternalConnectThread
<1>3. ASSUME NEW s \in Session, ClientThread(s) PROVE ThreadMoves
  <2>1. ASSUME NEW c \in connecting[s], NEW d \in connecting[c.ext], NEW l \in LinkId,
               ConnectUDT(s, c, d, l)
        PROVE  ThreadMoves
    <3>1. c.ext \in Session
      BY DEF CoreInv, TypeInv, Clients, ConnectTo
    <3>2. connecting' = EndConnecting(EndConnecting(connecting, s, c), c.ext, d)
      BY <2>1 DEF ConnectUDT
    <3> QED
      BY <3>1, <3>2, EndedThread
  <2>2. ASSUME NEW c \in connecting[s], connecting' = EndConnecting(connecting, s, c)
        PROVE  ThreadMoves
    BY <2>2, EndedThread
  <2>3. CASE ~UNCHANGED connecting
    BY <1>3, <2>1, <2>2, <2>3 DEF ClientThread, ListenBound, OnErrorLocalListener,
       ExternalProbe, ExternalProbeFails, OnErrorLocalConnect, OnErrorRelayConnect,
       OnErrorExternalConnect, ConnectLocalTCP, ConnectRelay
  <2> QED
    BY <1>1, <2>3
<1>4. CASE User \/ UserTypes \/ Checker
  BY <1>1, <1>4 DEF User, InitNewTunnel, DestroyTunnel, UserTypes, SetTypeTunnel,
     SetTunnelAvailableType, Checker, CheckTunnels, CheckServers, CheckSteps
<1>5. ASSUME NEW s \in Session, ServerHandler(s) PROVE UNCHANGED connecting
  BY <1>5 DEF ServerHandler, OnPeerData, OnAvailablePearTypes, OnInitTunnel,
     OnInitTunnelComplete, ForwardTryConnectTo
<1>6. ASSUME NEW i \in ServerId, ServerThread(i) PROVE UNCHANGED connecting
  BY <1>6 DEF ServerThread, RelayListen, RelayAnnounce, RelayPair, RelayBound,
     RelayListenError, OnAddRelayServerConnector, ExternalListen, ExternalListenError,
     GotExternalAddresses
<1>7. ASSUME NEW l \in LinkId, LinkStep(l) PROVE UNCHANGED connecting
  BY <1>7 DEF LinkStep, ConnectionEnds, OnAddLocalTCPConnector, OnAddConnector,
     OnAddLocalUDPConnector, OnAddRelayConnector, OnAddExternalConnector, OnModuleName,
     OnConnected
<1> QED
  BY <1>1, <1>2, <1>3, <1>4, <1>5, <1>6, <1>7 DEF Next

(* ... and to an external server, which waits for the addresses of its ends: a client
   tells it its own, and it waits from the start of its negotiation to the answers  *)
Waits(r) == r.pc \in {"start", "one", "address"}

AddressMoves ==
  \A i \in ServerId : i[2] = "EXTERNAL" =>
    /\ \A s \in m_servers'[i].addresses \ m_servers[i].addresses :
         \E e \in Session : ExternalProbe(s, e) /\ m_tunnels[s][e].srv = i
    /\ Waits(m_servers'[i]) =>
         Waits(m_servers[i]) \/ started' = started + 1

LEMMA SameAddresses ==
  ASSUME \A i \in ServerId : i[2] = "EXTERNAL" =>
           /\ m_servers'[i].addresses \subseteq m_servers[i].addresses
           /\ Waits(m_servers'[i]) =>
                Waits(m_servers[i]) \/ started' = started + 1
  PROVE  AddressMoves
BY DEF AddressMoves

LEMMA OneServerAddresses ==
  ASSUME CoreInv, NEW i \in ServerId, NEW r, Server(i, r),
         i[2] = "EXTERNAL" =>
           /\ r.addresses \subseteq m_servers[i].addresses
           /\ Waits(r) => Waits(m_servers[i])
  PROVE  AddressMoves
<1>1. m_servers'[i] = r /\ \A k \in ServerId : k # i => m_servers'[k] = m_servers[k]
  BY DEF Server, CoreInv, TypeInv, Servers
<1> QED
  BY <1>1, SameAddresses

LEMMA AddressStep ==
  ASSUME CoreInv, Next
  PROVE  AddressMoves
<1> USE DEF server, client, history
<1>0. m_servers \in [ServerId -> ServerRecord]
  BY DEF CoreInv, TypeInv, Servers
<1>1. CASE UNCHANGED m_servers
  BY <1>1, SameAddresses
<1>2. ASSUME NEW s \in Session, ServerHandler(s) PROVE AddressMoves
  <2>1. CASE OnInitTunnel(s) /\ ~UNCHANGED m_servers
    <3> DEFINE e == Head(toServer[s]).ext
               types == Chosen(s, e) \ LocalType
    <3>1. StartServers(s, e, types)
      BY <2>1 DEF OnInitTunnel
    <3> HIDE DEF types, e
    <3>2. started' = started + 1
      BY <2>1 DEF OnInitTunnel
    <3>3. ASSUME NEW i \in ServerId
          PROVE  m_servers'[i] = m_servers[i]
                   \/ m_servers'[i]
                        = [NoServer EXCEPT !.one = s, !.two = e, !.listed = TRUE, !.pc = "start"]
      BY <3>1 DEF StartServers
    <3>4. [NoServer EXCEPT !.one = s, !.two = e, !.listed = TRUE, !.pc = "start"].addresses = {}
      BY DEF NoServer
    <3> QED
      BY <3>2, <3>3, <3>4, SameAddresses
  <2> QED
    BY <1>1, <1>2, <2>1 DEF ServerHandler, OnPeerData, OnAvailablePearTypes,
       OnInitTunnelComplete, ForwardTryConnectTo
<1>3. ASSUME NEW s \in Session, ClientThread(s) PROVE AddressMoves
  <2>1. ASSUME NEW e \in Session, ExternalProbe(s, e) PROVE AddressMoves
    <3> DEFINE i == m_tunnels[s][e].srv
               r == [m_servers[i] EXCEPT !.addresses = @ \cup {s}]
    <3>1. i \in ServerId /\ Server(i, r)
      <4>1. m_tunnels[s][e] \in ClientRecord /\ m_tunnels[s][e].ext = "probe"
        BY <2>1 DEF ExternalProbe, CoreInv, TypeInv, Clients
      <4> QED
        BY <2>1, <4>1 DEF ExternalProbe, ExternalAddress, ClientRecord
    <3>2. r.addresses = m_servers[i].addresses \cup {s} /\ r.pc = m_servers[i].pc
      BY <1>0, <3>1 DEF ServerRecord
    <3> HIDE DEF r
    <3>3. m_servers'[i] = r /\ \A k \in ServerId : k # i => m_servers'[k] = m_servers[k]
      BY <1>0, <3>1 DEF Server
    <3>4. ASSUME NEW k \in ServerId, NEW x \in m_servers'[k].addresses \ m_servers[k].addresses
          PROVE  x = s /\ k = i
      BY <3>2, <3>3, <3>4
    <3>5. \A k \in ServerId : m_servers'[k].pc = m_servers[k].pc
      BY <3>2, <3>3
    <3> QED
      BY <2>1, <3>4, <3>5 DEF AddressMoves, Waits
  <2>2. ASSUME NEW c \in connecting[s], NEW l \in LinkId, ConnectRelay(s, c, l)
        PROVE  AddressMoves
    <3>1. c \in ConnectTo(s) /\ c.type \in RelayType
      BY <2>2 DEF ConnectRelay, CoreInv, TypeInv, Clients
    <3>2. c.srv \in ServerId /\ c.srv[2] # "EXTERNAL"
      BY <3>1 DEF ConnectTo, Named, RelayType
    <3>3. Server(c.srv, AddRelayConnector(m_servers[c.srv], s))
      BY <2>2 DEF ConnectRelay
    <3> QED
      BY <3>2, <3>3, OneServerAddresses
  <2> QED
    BY <1>1, <1>3, <2>1, <2>2 DEF ClientThread, ListenBound, OnErrorLocalListener,
       ExternalProbeFails, OnErrorLocalConnect, OnErrorRelayConnect, OnErrorExternalConnect,
       ConnectLocalTCP, ConnectUDT
<1>4. ASSUME NEW i \in ServerId, ServerThread(i) PROVE AddressMoves
  <2> DEFINE a == m_servers[i]
  <2>0. a \in ServerRecord
    BY <1>0
  <2>1. CASE i[2] # "EXTERNAL" /\ ~UNCHANGED m_servers
    <3>1. \E r : Server(i, r)
      BY <1>4, <2>1 DEF ServerThread, RelayListen, RelayAnnounce, RelayPair, RelayBound,
         RelayListenError, OnErrorRelayListener, OnAddRelayServerConnector, ExternalListen,
         ExternalListenError, GotExternalAddresses
    <3> QED
      BY <2>1, <3>1, OneServerAddresses
  <2>2. CASE ExternalListen(i)
    <3> DEFINE r(x) == [a EXCEPT !.pc = IF @ = "start" THEN "one" ELSE "address",
                                 !.listening = @ \cup {x}]
    <3>1. PICK x \in Ends(i) : Server(i, r(x))
      BY <2>2 DEF ExternalListen, Ends
    <3>2. r(x).addresses = a.addresses
      BY <2>0 DEF ServerRecord
    <3>3. i[2] = "EXTERNAL" /\ Waits(a)
      BY <2>2 DEF ExternalListen, Waits
    <3> HIDE DEF r
    <3> QED
      BY <3>1, <3>2, <3>3, OneServerAddresses
  <2>3. CASE ExternalListenError(i)
    <3> DEFINE r == [a EXCEPT !.pc = IF @ \in {"start", "one"} THEN "end" ELSE @,
                              !.listening = {}]
    <3>1. Server(i, DeleteServer(i, r))
      BY <2>3 DEF ExternalListenError, OnErrorExternalListener
    <3>2. r \in ServerRecord /\ r.addresses = a.addresses
          /\ r.pc = IF a.pc \in {"start", "one"} THEN "end" ELSE a.pc
      BY <2>0 DEF ServerRecord
    <3> HIDE DEF r
    <3>3. DeleteServer(i, r).addresses = a.addresses /\ DeleteServer(i, r).pc = r.pc
      BY <3>2, Deleted
    <3>4. Waits(DeleteServer(i, r)) => Waits(a)
      BY <3>2, <3>3 DEF Waits
    <3> QED
      BY <3>1, <3>3, <3>4, OneServerAddresses
  <2>4. CASE GotExternalAddresses(i)
    <3> DEFINE r == [a EXCEPT !.pc = "end"]
    <3>1. Server(i, r)
      BY <2>4 DEF GotExternalAddresses
    <3>2. r.addresses = a.addresses /\ ~Waits(r)
      BY <2>0 DEF ServerRecord, Waits
    <3> HIDE DEF r
    <3> QED
      BY <3>1, <3>2, OneServerAddresses
  <2>5. CASE i[2] = "EXTERNAL" /\ ~UNCHANGED m_servers
    <3>1. a.pc \notin {"pairing", "paired"} /\ i[2] \notin RelayType
      BY <2>5 DEF CoreInv, ServersOK, ServerOK, RelayType
    <3> QED
      BY <1>4, <2>2, <2>3, <2>4, <2>5, <3>1 DEF ServerThread, RelayListen, RelayAnnounce,
         RelayPair, RelayBound, RelayListenError, OnAddRelayServerConnector
  <2> QED
    BY <1>1, <2>1, <2>5
<1>5. CASE Checker
  <2>1. ASSUME NEW i \in ServerId, Server(i, DeleteServer(i, m_servers[i])) PROVE AddressMoves
    <3> DEFINE a == m_servers[i]
    <3>1. DeleteServer(i, a).addresses = a.addresses /\ DeleteServer(i, a).pc = a.pc
      BY <1>0, Deleted
    <3>2. Waits(DeleteServer(i, a)) => Waits(a)
      BY <3>1 DEF Waits
    <3> QED
      BY <2>1, <3>1, <3>2, OneServerAddresses
  <2> QED
    BY <1>1, <1>5, <2>1 DEF Checker, CheckTunnels, CheckServers, CheckSteps
<1>6. CASE User \/ UserTypes
  BY <1>1, <1>6 DEF User, InitNewTunnel, DestroyTunnel, UserTypes, SetTypeTunnel,
     SetTunnelAvailableType
<1>7. ASSUME NEW s \in Session, ClientHandler(s) PROVE UNCHANGED m_servers
  BY <1>7 DEF ClientHandler, OnInitTunnelStarted, NotFound, CreateLocalListenThread,
     CreateLocalUDPSocket, InitExternalConnectThread, CreateRelayConnectThread,
     OnTryConnectTo, InitMsg
<1>8. ASSUME NEW l \in LinkId, LinkStep(l) PROVE UNCHANGED m_servers
  BY <1>8 DEF LinkStep, ConnectionEnds, OnAddLocalTCPConnector, OnAddConnector,
     OnAddLocalUDPConnector, OnAddRelayConnector, OnAddExternalConnector, OnModuleName,
     OnConnected
<1> QED
  BY <1>1, <1>2, <1>3, <1>4, <1>5, <1>6, <1>7, <1>8 DEF Next

-----------------------------------------------------------------------------
(* While at most one negotiation has started, a client has done nothing before it is
   told of it                                                                      *)
Tries(s) == {m \in FromClientMsg(s) : m.kind = "TryConnectTo"}

Starts(s) == {m \in ToClientMsg(s) : m.kind = "InitTunnelStarted"}

Untouched(s) ==
  /\ \A e \in Session : m_tunnels[s][e] = NoTunnel /\ stale[s][e] = 0
  /\ connecting[s] = {}
  /\ \A l \in LinkId : link[l].end[s] = "none"
  /\ \A i \in ServerId : i[2] = "EXTERNAL" => s \notin m_servers[i].addresses
  /\ Places(toServer[s], Tries(s)) = {}

Told1(s) == Places(toClient[s], Starts(s))

OnceInv ==
  started <= 1 =>
    /\ started = 0 => \A s \in Session : toClient[s] = <<>> /\ Untouched(s)
    /\ \A s \in Session : Told1(s) \subseteq {1} /\ (Told1(s) # {} => Untouched(s))
    /\ \A s \in Session, l \in LinkId :
         link[l].end[s] \in {"named", "connected"} => ~m_tunnels[s][link[l].name[s]].on

LEMMA UntouchedEntries ==
  ASSUME CoreInv, NEW s \in Session, NEW e \in Session, Untouched(s), ~Reads(s),
         EntryMove(s, e)
  PROVE  m_tunnels'[s][e] = NoTunnel /\ stale'[s][e] = 0
<1> DEFINE t == m_tunnels[s][e]
           u == m_tunnels'[s][e]
           n == stale[s][e]
           k == stale'[s][e]
<1>1. t = NoTunnel /\ n = 0
  BY DEF Untouched
<1>2. t.listen = "none" /\ t.ext = "none" /\ Running(t) = 0
  BY <1>1 DEF NoTunnel, Running
<1> HIDE DEF t, u, n, k
<1>3. CASE EntryGoesOn(s, e, t, u, n, k)
  <2>1. ~\E c \in connecting[s] : OnErrorExternalConnect(s, c) /\ c.ext = e
    BY DEF Untouched
  <2>2. ~\E l \in LinkId : OnAddLocalUDPConnector(s, l) /\ s # e /\ link[l].end[e] # "none"
    BY DEF Untouched, OnAddLocalUDPConnector, OnAddConnector
  <2>3. u = NoTunnel /\ k = n + Running(t)
    BY <1>1, <1>2, <1>3, <2>1, <2>2 DEF EntryGoesOn
  <2> QED
    BY <1>1, <1>2, <2>3 DEF t, u, n, k
<1>4. ~EntryRead(s, e, t, u, n, k)
  BY DEF EntryRead
<1>5. u = t /\ k = n => u = NoTunnel /\ k = 0
  BY <1>1
<1> QED
  BY <1>3, <1>4, <1>5 DEF EntryMove, t, u, n, k

LEMMA UntouchedSends ==
  ASSUME CoreInv, CoreInv', NEW s \in Session, Untouched(s), ~Reads(s), SentMove(s)
  PROVE  Places(toServer'[s], Tries(s)) = {}
<1> DEFINE q == toServer[s]
           K == Tries(s)
<1>1. q \in Seq(FromClientMsg(s)) /\ toServer'[s] \in Seq(FromClientMsg(s))
  BY DEF CoreInv, TypeInv, Wires
<1>2. Places(q, K) = {}
  BY DEF Untouched
<1>3. \A a \in Plain(s) : a \in FromClientMsg(s) /\ a \notin K
  BY DEF Plain, Tries
<1> HIDE DEF K
<1>4. CASE SendsPlain(s)
  <2>1. ASSUME NEW a \in Plain(s) PROVE Places(Append(q, a), K) = {}
    BY <1>1, <1>2, <1>3, PlacesAppend
  <2>2. ASSUME NEW a \in Plain(s), NEW b \in Plain(s)
        PROVE  Places(Append(Append(q, a), b), K) = {}
    <3>0. a \in FromClientMsg(s) /\ b \in FromClientMsg(s) /\ b \notin K
      BY <1>3
    <3> DEFINE r == Append(q, a)
    <3>1. r \in Seq(FromClientMsg(s))
      BY <1>1, <3>0
    <3>2. Places(r, K) = {}
      BY <2>1
    <3> HIDE DEF r
    <3>3. Places(Append(r, b), K) = Places(r, K)
      BY <3>0, <3>1, PlacesAppend
    <3> QED
      BY <3>2, <3>3 DEF r
  <2> QED
    BY <1>4, <2>1, <2>2 DEF SendsPlain, K
<1>5. CASE Passes(s)
  <2>1. \A j \in Places(Tail(q), K) : j + 1 \in Places(q, K)
    BY <1>1, <1>5, PlacesTail DEF Passes
  <2> QED
    BY <1>2, <1>5, <2>1 DEF Passes, K
<1>6. ~SendsSocket(s)
  BY DEF SendsSocket
<1>7. ~SendsListen(s)
  BY DEF SendsListen, Untouched, NoTunnel
<1> QED
  BY <1>2, <1>4, <1>5, <1>6, <1>7 DEF SentMove, K

LEMMA UntouchedStays ==
  ASSUME CoreInv, CoreInv', Next, NEW s \in Session, Untouched(s), ~Reads(s)
  PROVE  Untouched(s)'
<1>1. EntriesMove /\ SentMoves /\ LinkMoves /\ ThreadMoves /\ AddressMoves
  BY EntriesStep, SentStep, LinkMovesStep, ThreadStep, AddressStep
<1>2. \A e \in Session : m_tunnels'[s][e] = NoTunnel /\ stale'[s][e] = 0
  BY <1>1, UntouchedEntries DEF EntriesMove
<1>3. Places(toServer'[s], Tries(s)) = {}
  BY <1>1, UntouchedSends DEF SentMoves
<1>4. connecting'[s] = {}
  BY <1>1 DEF ThreadMoves, ThreadMove, Untouched
<1>5. ASSUME NEW l \in LinkId PROVE link'[l].end[s] = "none"
  <2>1. EndMove(l, s) /\ link[l].end[s] = "none"
    BY <1>1 DEF LinkMoves, Untouched
  <2>2. ~Reached(s)
    BY DEF Reached, Untouched, NoTunnel
  <2> QED
    BY <2>1, <2>2 DEF EndMove
<1>6. ASSUME NEW i \in ServerId, i[2] = "EXTERNAL", s \in m_servers'[i].addresses
      PROVE  FALSE
  <2>1. s \notin m_servers[i].addresses
    BY <1>6 DEF Untouched
  <2>2. \E e \in Session : ExternalProbe(s, e)
    BY <1>1, <1>6, <2>1 DEF AddressMoves
  <2>3. \A e \in Session : m_tunnels[s][e].ext = "none"
    BY DEF Untouched, NoTunnel
  <2> QED
    BY <2>2, <2>3 DEF ExternalProbe
<1>7. Tries(s)' = Tries(s)
  BY DEF Tries, FromClientMsg
<1> QED
  BY <1>2, <1>3, <1>4, <1>5, <1>6, <1>7 DEF Untouched, Places

(* A TunnelConnect is made only for a client that was told of a negotiation *)
LEMMA EntryOn ==
  ASSUME CoreInv, NEW s \in Session, NEW e \in Session, EntryMove(s, e),
         ~m_tunnels[s][e].on, m_tunnels'[s][e].on
  PROVE  /\ Reads(s) /\ Head(toClient[s]).kind = "InitTunnelStarted"
         /\ Head(toClient[s]).ext = e
<1> DEFINE t == m_tunnels[s][e]
           u == m_tunnels'[s][e]
           n == stale[s][e]
           k == stale'[s][e]
<1>1. t.listen = "none" /\ t.ext = "none"
  <2>1. Clients
    BY DEF CoreInv, TypeInv
  <2> QED
    BY <2>1, ActiveEntry
<1>2. ~NoTunnel.on
  BY DEF NoTunnel
<1> HIDE DEF t, u, n, k
<1>3. ~t.on /\ u.on
  BY DEF t, u
<1>4. ~EntryGoesOn(s, e, t, u, n, k)
  BY <1>1, <1>2, <1>3 DEF EntryGoesOn
<1>5. EntryRead(s, e, t, u, n, k)
  BY <1>3, <1>4 DEF EntryMove, t, u, n, k
<1> QED
  BY <1>3, <1>5 DEF EntryRead

(* Before the first negotiation the server has nothing to say *)
LEMMA NothingYet ==
  ASSUME CoreInv, started = 0, \A x \in Session : Untouched(x), NEW s \in Session
  PROVE  ~GetsOne(s)
<1>1. \A x \in Session : toServer[x] # <<>> => Head(toServer[x]) \notin Tries(x)
  <2>1. \A x \in Session : toServer[x] \in Seq(FromClientMsg(x))
    BY DEF CoreInv, TypeInv, Wires
  <2> QED
    BY <2>1, PlacesTail DEF Untouched
<1>2. \A i \in ServerId : m_servers[i].pc = "none"
  BY DEF CoreInv, ServersOK, ServerId
<1>3. ASSUME NEW x \in Session PROVE ~ForwardTryConnectTo(x)
  <2>1. ForwardTryConnectTo(x) =>
          Head(toServer[x]) \in FromClientMsg(x) /\ Head(toServer[x]).kind = "TryConnectTo"
    BY Handled DEF ForwardTryConnectTo, CoreInv, TypeInv, Wires, FromClients
  <2> QED
    BY <1>1, <2>1 DEF ForwardTryConnectTo, FromClient, Tries
<1> QED
  BY <1>2, <1>3 DEF GetsOne, GetsTry, GetsServer, GetsAddress, RelayAnnounce, ExternalListen,
     GotExternalAddresses

(* Nothing that comes later tells a client of a negotiation again *)
LEMMA Told1Stays ==
  ASSUME CoreInv, CoreInv', NEW s \in Session, Told1(s) \subseteq {1}, started' = started,
         \/ toClient'[s] = toClient[s] \/ Reads(s) \/ GetsOne(s) \/ GetsStarted(s)
  PROVE  Told1(s)' \subseteq Told1(s) /\ (Told1(s)' # {} => ~Reads(s))
<1> DEFINE q == toClient[s]
           K == Starts(s)
<1>0. Told1(s) = Places(q, K) /\ Told1(s)' = Places(toClient'[s], K)
  BY DEF Told1, Starts, ToClientMsg, Places
<1>1. q \in Seq(ToClientMsg(s)) /\ toClient'[s] \in Seq(ToClientMsg(s)) /\ Wires'
        /\ DOMAIN toClient = Session
  BY DEF CoreInv, TypeInv, Wires
<1>2. ASSUME Reads(s) PROVE Places(toClient'[s], K) = {}
  <2>1. toClient'[s] = Tail(q) /\ q # <<>>
    BY <1>1, <1>2 DEF Reads
  <2> HIDE DEF K
  <2>2. \A j \in Places(Tail(q), K) : j + 1 \in Places(q, K) /\ j + 1 # 1
    BY <1>1, <2>1, PlacesTail
  <2> QED
    BY <1>0, <2>1, <2>2
<1>3. ASSUME GetsOne(s) PROVE Places(toClient'[s], K) = Places(q, K)
  <2>1. PICK m \in ToClientMsg(s) : toClient'[s] = Append(q, m) /\ OtherMsg(m)
    BY <1>1, <1>3, OneMessage
  <2>2. m \notin K
    BY <2>1 DEF OtherMsg, Starts
  <2> HIDE DEF K
  <2> QED
    BY <1>1, <2>1, <2>2, PlacesAppend
<1>4. ~GetsStarted(s)
  BY DEF GetsStarted, CoreInv, TypeInv, Rest
<1> HIDE DEF K
<1>5. CASE Reads(s)
  BY <1>0, <1>2, <1>5
<1>6. CASE ~Reads(s)
  BY <1>0, <1>3, <1>4, <1>6
<1> QED
  BY <1>5, <1>6

LEMMA OnceInit == Init => OnceInv
<1> SUFFICES ASSUME Init PROVE OnceInv
  OBVIOUS
<1>1. ASSUME NEW s \in Session PROVE toClient[s] = <<>> /\ Untouched(s)
  BY DEF Init, Untouched, NoLink, NoServer, Places
<1>2. ASSUME NEW s \in Session PROVE Told1(s) = {}
  BY <1>1 DEF Told1, Places
<1>3. ASSUME NEW s \in Session, NEW l \in LinkId
      PROVE  link[l].end[s] \notin {"named", "connected"}
  BY DEF Init, NoLink
<1> QED
  BY <1>1, <1>2, <1>3 DEF OnceInv

LEMMA OnceStep ==
  ASSUME CoreInv, CoreInv', OnceInv, Next
  PROVE  OnceInv'
<1> SUFFICES ASSUME started' <= 1 PROVE OnceInv'
  BY DEF OnceInv
<1>1. MailMoves /\ EntriesMove /\ LinkMoves
  BY MailStep, EntriesStep, LinkMovesStep
<1>2. started \in Nat /\ started' \in Nat
  BY TunnelAssumption DEF CoreInv, TypeInv, Rest
<1>3. CASE started = 0
  <2>1. \A s \in Session : toClient[s] = <<>> /\ Untouched(s)
    BY <1>3 DEF OnceInv
  <2>2. \A s \in Session : ~Reads(s)
    BY <2>1 DEF Reads
  <2>3. \A s \in Session : Untouched(s)'
    BY <2>1, <2>2, UntouchedStays
  <2>4. \A s \in Session : ~GetsOne(s)
    BY <1>3, <2>1, NothingYet
  <2>5. ASSUME NEW s \in Session PROVE Told1(s)' \subseteq {1}
    <3>1. CASE toClient'[s] = <<>>
      BY <3>1 DEF Told1, Places
    <3>2. CASE GetsStarted(s)
      <4>1. PICK e \in Session \ {s} :
              \/ toClient'[s] = Append(<<>>, InitTunnelStarted(e))
              \/ \E t \in LocalType :
                   toClient'[s] = Append(Append(<<>>, InitTunnelStarted(e)), LocalMsg(e, t))
        BY <2>1, <3>2 DEF GetsStarted
      <4> DEFINE a == InitTunnelStarted(e)
      <4>2. CASE toClient'[s] = Append(<<>>, a)
        <5>1. Len(toClient'[s]) = 1
          BY <4>2
        <5> QED
          BY <5>1 DEF Told1, Places
      <4>3. ASSUME NEW t \in LocalType, toClient'[s] = Append(Append(<<>>, a), LocalMsg(e, t))
            PROVE  Told1(s)' \subseteq {1}
        <5>1. LocalMsg(e, t).kind # "InitTunnelStarted"
          BY DEF LocalMsg
        <5> HIDE DEF a
        <5>2. Len(toClient'[s]) = 2 /\ toClient'[s][2] = LocalMsg(e, t)
          BY <4>3
        <5> QED
          BY <5>1, <5>2 DEF Told1, Places, Starts
      <4> QED
        BY <4>1, <4>2, <4>3
    <3> QED
      BY <1>1, <2>1, <2>2, <2>4, <3>1, <3>2 DEF MailMoves
  <2>6. started' = 0 => \A s \in Session : toClient'[s] = <<>>
    <3>1. \A s \in Session : GetsStarted(s) => started' # 0
      BY <1>3 DEF GetsStarted
    <3> QED
      BY <1>1, <2>1, <2>2, <2>4, <3>1 DEF MailMoves
  <2>7. \A s \in Session, l \in LinkId : link'[l].end[s] \notin {"named", "connected"}
    BY <2>3 DEF Untouched
  <2> QED
    BY <2>3, <2>5, <2>6, <2>7 DEF OnceInv
<1>4. CASE started # 0
  <2>1. started = 1
    <3>1. Session # {}
      BY TunnelAssumption
    <3>2. started' = started \/ started' = started + 1
      BY <1>1, <3>1 DEF MailMoves, Reads, GetsOne, GetsStarted
    <3> QED
      BY <1>2, <1>4, <3>2
  <2>2. started' = started
    <3>1. started' # started + 1
      BY <1>2, <2>1
    <3> QED
      BY <1>1, <3>1, TunnelAssumption DEF MailMoves, Reads, GetsOne, GetsStarted
  <2>3. ASSUME NEW s \in Session
        PROVE  Told1(s)' \subseteq {1} /\ (Told1(s)' # {} => Untouched(s)')
    <3>1. Told1(s) \subseteq {1} /\ (Told1(s) # {} => Untouched(s))
      BY <2>1 DEF OnceInv
    <3>2. Told1(s)' \subseteq Told1(s) /\ (Told1(s)' # {} => ~Reads(s))
      BY <1>1, <2>2, <3>1, Told1Stays DEF MailMoves
    <3> QED
      BY <3>1, <3>2, UntouchedStays
  <2>4. ASSUME NEW s \in Session, NEW l \in LinkId,
               link'[l].end[s] \in {"named", "connected"}, m_tunnels'[s][link'[l].name[s]].on
        PROVE  FALSE
    <3> DEFINE e == link'[l].name[s]
    <3>1. e \in Session /\ EndMove(l, s)
      BY <1>1 DEF CoreInv, TypeInv, Links, LinkRecord, LinkMoves
    <3>2. ~OnModuleName(s, l, e)
      <4>1. ASSUME OnModuleName(s, l, e) PROVE m_tunnels'[s][e] = NoTunnel
        <5> HIDE DEF e
        <5>1. Tunnel(s, e, NoTunnel) /\ Clients
          BY <4>1 DEF OnModuleName, DeleteTunnel, HostName, CoreInv, TypeInv
        <5> QED
          BY <3>1, <5>1, EntryIs
      <4> QED
        BY <2>4, <4>1 DEF NoTunnel
    <3>3. link[l].end[s] \in {"named", "connected"} /\ link[l].name[s] = e
      BY <2>4, <3>1, <3>2 DEF EndMove
    <3>4. ~m_tunnels[s][e].on
      BY <2>1, <3>3 DEF OnceInv
    <3>5. Reads(s) /\ Head(toClient[s]).kind = "InitTunnelStarted"
      <4> HIDE DEF e
      <4>1. EntryMove(s, e)
        BY <1>1, <3>1 DEF EntriesMove
      <4> QED
        BY <2>4, <3>1, <3>4, <4>1, EntryOn DEF e
    <3>6. 1 \in Told1(s)
      <4>1. toClient[s] \in Seq(ToClientMsg(s)) /\ toClient[s] # <<>>
        BY <3>5 DEF Reads, CoreInv, TypeInv, Wires
      <4>2. Head(toClient[s]) \in Starts(s)
        BY <3>5, <4>1, Front DEF Starts
      <4> QED
        BY <4>1, <4>2, PlacesTail DEF Told1
    <3>7. Untouched(s)
      BY <2>1, <3>6 DEF OnceInv
    <3> QED
      BY <3>3, <3>7 DEF Untouched
  <2> QED
    BY <1>2, <2>1, <2>2, <2>3, <2>4 DEF OnceInv
<1> QED
  BY <1>3, <1>4

-----------------------------------------------------------------------------
(* Where a pointer that is null would be used *)
CrashMoves ==
  \A x \in crash' \ crash :
    \/ \E i \in ServerId : /\ i[2] \in RelayType /\ m_servers[i].both
                           /\ m_servers[i].connectors # Ends(i)
    \/ \E s, e \in Session : stale[s][e] > 0 /\ m_tunnels[s][e].on
    \/ \E s \in Session : LET m == Head(toClient[s]) IN
         /\ Reads(s) /\ m.kind = "TryConnectTo" /\ m_tunnels[s][m.ext].on
         /\ \/ m.type = "LOCAL_UDP" /\ ~m_tunnels[s][m.ext].udp
            \/ m.type = "EXTERNAL" /\ m_tunnels[s][m.ext].ext = "none"

LEMMA CrashStep ==
  ASSUME CoreInv, Next
  PROVE  CrashMoves
<1> USE DEF server, client, history
<1>1. CASE UNCHANGED crash
  BY <1>1 DEF CrashMoves
<1>2. ASSUME NEW s \in Session, ClientHandler(s) PROVE CrashMoves
  <2> DEFINE m == Head(toClient[s])
  <2>1. CASE OnTryConnectTo(s) /\ ~UNCHANGED crash
    <3>1. Reads(s) /\ m.kind = "TryConnectTo"
      BY <1>2, <2>1 DEF Reads, OnTryConnectTo, FromServer
    <3>2. /\ m_tunnels[s][m.ext].on
          /\ \/ m.type = "LOCAL_UDP" /\ ~m_tunnels[s][m.ext].udp
             \/ m.type = "EXTERNAL" /\ m_tunnels[s][m.ext].ext = "none"
      BY <2>1 DEF OnTryConnectTo, CreateExternalConnectThread, CreateLocalConnectThread
    <3> QED
      BY <3>1, <3>2 DEF CrashMoves
  <2> QED
    BY <1>1, <1>2, <2>1 DEF ClientHandler, OnInitTunnelStarted, NotFound,
       CreateLocalListenThread, CreateLocalUDPSocket, InitExternalConnectThread,
       CreateRelayConnectThread, InitMsg
<1>3. ASSUME NEW s \in Session, ClientThread(s) PROVE CrashMoves
  <2>1. ASSUME NEW e \in Session, OnErrorLocalListener(s, e), ~UNCHANGED crash
        PROVE  stale[s][e] > 0 /\ m_tunnels[s][e].on
    BY <2>1 DEF OnErrorLocalListener
  <2>2. CASE ~UNCHANGED crash
    <3>1. \E e \in Session : OnErrorLocalListener(s, e)
      BY <1>3, <2>2 DEF ClientThread, ListenBound, ExternalProbe, ExternalProbeFails,
         OnErrorLocalConnect, OnErrorRelayConnect, OnErrorExternalConnect, ConnectLocalTCP,
         ConnectRelay, ConnectUDT
    <3> QED
      BY <2>1, <2>2, <3>1 DEF CrashMoves
  <2> QED
    BY <1>1, <2>2
<1>4. ASSUME NEW i \in ServerId, ServerThread(i) PROVE CrashMoves
  <2>1. CASE RelayPair(i) /\ ~UNCHANGED crash
    BY <2>1 DEF RelayPair, CrashMoves
  <2> QED
    BY <1>1, <1>4, <2>1 DEF ServerThread, RelayListen, RelayAnnounce, RelayBound,
       RelayListenError, OnAddRelayServerConnector, ExternalListen, ExternalListenError,
       GotExternalAddresses
<1>5. CASE User \/ UserTypes \/ Checker
  BY <1>1, <1>5 DEF User, InitNewTunnel, DestroyTunnel, UserTypes, SetTypeTunnel,
     SetTunnelAvailableType, Checker, CheckTunnels, CheckServers, CheckSteps
<1>6. ASSUME NEW s \in Session, ServerHandler(s) PROVE UNCHANGED crash
  BY <1>6 DEF ServerHandler, OnPeerData, OnAvailablePearTypes, OnInitTunnel,
     OnInitTunnelComplete, ForwardTryConnectTo
<1>7. ASSUME NEW l \in LinkId, LinkStep(l) PROVE UNCHANGED crash
  BY <1>7 DEF LinkStep, ConnectionEnds, OnAddLocalTCPConnector, OnAddConnector,
     OnAddLocalUDPConnector, OnAddRelayConnector, OnAddExternalConnector, OnModuleName,
     OnConnected
<1> QED
  BY <1>1, <1>2, <1>3, <1>4, <1>5, <1>6, <1>7 DEF Next

(* A relay that both connected to has both connectors, until its time has come *)
BothHold(r) == r.both => r.connectors = {r.one, r.two}

RelaysHold == \A i \in ServerId : i[2] \in RelayType => BothHold(m_servers[i])

LEMMA OneRelayHolds ==
  ASSUME CoreInv, RelaysHold, NEW i \in ServerId, NEW r, Server(i, r),
         i[2] \in RelayType => BothHold(r)
  PROVE  RelaysHold'
<1>1. m_servers'[i] = r /\ \A k \in ServerId : k # i => m_servers'[k] = m_servers[k]
  BY DEF Server, CoreInv, TypeInv, Servers
<1> QED
  BY <1>1 DEF RelaysHold, BothHold

LEMMA RelaysStep ==
  ASSUME CoreInv, RelaysHold, Next
  PROVE  RelaysHold' \/ expired'
<1> USE DEF server, client, history
<1>0. m_servers \in [ServerId -> ServerRecord]
  BY DEF CoreInv, TypeInv, Servers
<1>1. ASSUME UNCHANGED m_servers PROVE RelaysHold'
  BY <1>1 DEF RelaysHold, BothHold
<1>2. ASSUME NEW s \in Session, ServerHandler(s) PROVE RelaysHold'
  <2>1. CASE OnInitTunnel(s) /\ ~UNCHANGED m_servers
    <3> DEFINE e == Head(toServer[s]).ext
               types == Chosen(s, e) \ LocalType
               new == [NoServer EXCEPT !.one = s, !.two = e, !.listed = TRUE, !.pc = "start"]
    <3>1. StartServers(s, e, types)
      BY <2>1 DEF OnInitTunnel
    <3> HIDE DEF types, e
    <3>2. ASSUME NEW i \in ServerId PROVE m_servers'[i] = m_servers[i] \/ m_servers'[i] = new
      BY <3>1 DEF StartServers
    <3>3. ~new.both
      BY DEF NoServer
    <3> QED
      BY <3>2, <3>3 DEF RelaysHold, BothHold
  <2> QED
    BY <1>1, <1>2, <2>1 DEF ServerHandler, OnPeerData, OnAvailablePearTypes,
       OnInitTunnelComplete, ForwardTryConnectTo
<1>3. ASSUME NEW s \in Session, ClientThread(s) PROVE RelaysHold'
  <2>1. ASSUME NEW e \in Session, ExternalProbe(s, e) PROVE RelaysHold'
    <3> DEFINE i == m_tunnels[s][e].srv
    <3>1. m_tunnels[s][e] \in ClientRecord /\ m_tunnels[s][e].ext = "probe"
      BY <2>1 DEF ExternalProbe, CoreInv, TypeInv, Clients
    <3>2. i \in ServerId /\ i[2] \notin RelayType
      BY <3>1 DEF ClientRecord, RelayType
    <3>3. \E r : Server(i, r)
      BY <2>1 DEF ExternalProbe, ExternalAddress
    <3> QED
      BY <3>2, <3>3, OneRelayHolds
  <2>2. ASSUME NEW c \in connecting[s], NEW l \in LinkId, ConnectRelay(s, c, l)
        PROVE  RelaysHold'
    <3> DEFINE i == c.srv
               a == m_servers[i]
               conns == a.connectors \cup {s}
               r == [a EXCEPT !.connectors = conns, !.listening = @ \ {s},
                              !.both = @ \/ conns = {a.one, a.two}]
    <3>1. c \in ConnectTo(s) /\ c.type \in RelayType
      BY <2>2 DEF ConnectRelay, CoreInv, TypeInv, Clients
    <3>2. i \in ServerId /\ i[2] \in RelayType
      BY <3>1 DEF ConnectTo, Named
    <3>3. Server(i, r) /\ s \in a.addresses
      BY <2>2 DEF ConnectRelay, AddRelayConnector
    <3>4. a \in ServerRecord /\ RelayOK(a) /\ BothHold(a)
      BY <1>0, <3>2 DEF CoreInv, ServersOK, ServerOK, RelaysHold
    <3>5. s \in {a.one, a.two}
      BY <3>3, <3>4 DEF RelayOK
    <3>6. /\ r.connectors = conns /\ r.one = a.one /\ r.two = a.two
          /\ r.both <=> a.both \/ conns = {a.one, a.two}
      <4> HIDE DEF a, conns
      <4> QED
        BY <3>4 DEF ServerRecord
    <3>7. a.both => conns = {a.one, a.two}
      BY <3>4, <3>5 DEF BothHold
    <3> HIDE DEF r
    <3>8. BothHold(r)
      BY <3>6, <3>7 DEF BothHold
    <3> QED
      BY <3>2, <3>3, <3>8, OneRelayHolds
  <2> QED
    BY <1>1, <1>3, <2>1, <2>2 DEF ClientThread, ListenBound, OnErrorLocalListener,
       ExternalProbeFails, OnErrorLocalConnect, OnErrorRelayConnect, OnErrorExternalConnect,
       ConnectLocalTCP, ConnectUDT
<1>4. ASSUME NEW i \in ServerId, ServerThread(i) PROVE RelaysHold'
  <2> DEFINE a == m_servers[i]
  <2>0. a \in ServerRecord
    BY <1>0
  <2>1. CASE i[2] \notin RelayType /\ ~UNCHANGED m_servers
    <3>1. \E r : Server(i, r)
      BY <1>4, <2>1 DEF ServerThread, RelayListen, RelayAnnounce, RelayPair, RelayBound,
         RelayListenError, OnAddRelayServerConnector, ExternalListen, ExternalListenError,
         OnErrorExternalListener, GotExternalAddresses
    <3> QED
      BY <2>1, <3>1, OneRelayHolds
  <2>2. CASE i[2] \in RelayType
    <3>1. BothHold(a) /\ RelayOK(a) /\ i[2] # "EXTERNAL"
      BY <2>2 DEF RelaysHold, CoreInv, ServersOK, ServerOK, RelayType
    <3>2. ASSUME NEW r, Server(i, r), r.both = a.both, r.connectors = a.connectors,
                 r.one = a.one, r.two = a.two
          PROVE  RelaysHold'
      <4>1. BothHold(r)
        BY <3>1, <3>2 DEF BothHold
      <4> QED
        BY <3>2, <4>1, OneRelayHolds
    <3>3. ASSUME NEW s \in Session, RelayListenError(i, s) PROVE RelaysHold'
      <4> DEFINE r == [a EXCEPT !.made = @ \ {s}, !.listening = {}]
      <4>1. Server(i, DeleteServer(i, r)) /\ s \in a.made \ a.addresses
        BY <3>3 DEF RelayListenError, OnErrorRelayListener
      <4>2. ~a.both
        BY <3>1, <4>1 DEF RelayOK
      <4>3. r \in ServerRecord /\ r.both = a.both
        BY <2>0 DEF ServerRecord
      <4> HIDE DEF r
      <4>4. DeleteServer(i, r).both = a.both
        BY <4>3, Deleted
      <4>5. BothHold(DeleteServer(i, r))
        BY <4>2, <4>4 DEF BothHold
      <4> QED
        BY <4>1, <4>5, OneRelayHolds
    <3>4. ASSUME NEW s \in Session, RelayBound(i, s) PROVE RelaysHold'
      <4> DEFINE r == [a EXCEPT !.addresses = @ \cup {s}]
      <4>1. Server(i, r)
        BY <3>4 DEF RelayBound
      <4>2. r.both = a.both /\ r.connectors = a.connectors /\ r.one = a.one /\ r.two = a.two
        BY <2>0 DEF ServerRecord
      <4> HIDE DEF r
      <4> QED
        BY <3>2, <4>1, <4>2
    <3>5. ASSUME NEW v, NEW w, NEW k, NEW b,
                 Server(i, [a EXCEPT !.pc = v, !.made = w, !.listening = k])
                   \/ Server(i, [a EXCEPT !.pc = v, !.listed = b, !.listening = k])
                   \/ Server(i, [a EXCEPT !.pc = v])
          PROVE  RelaysHold'
      <4> DEFINE x == [a EXCEPT !.pc = v, !.made = w, !.listening = k]
                 y == [a EXCEPT !.pc = v, !.listed = b, !.listening = k]
                 z == [a EXCEPT !.pc = v]
      <4>1. \A r \in {x, y, z} : /\ r.both = a.both /\ r.connectors = a.connectors
                                /\ r.one = a.one /\ r.two = a.two
        BY <2>0 DEF ServerRecord
      <4>2. Server(i, x) \/ Server(i, y) \/ Server(i, z)
        BY <3>5
      <4> HIDE DEF x, y, z
      <4> QED
        BY <3>2, <4>1, <4>2
    <3>6. CASE RelayListen(i)
      BY <3>5, <3>6 DEF RelayListen
    <3>7. CASE RelayAnnounce(i) \/ RelayPair(i) \/ OnAddRelayServerConnector(i)
      BY <3>5, <3>7 DEF RelayAnnounce, RelayPair, OnAddRelayServerConnector
    <3> QED
      BY <1>4, <3>1, <3>3, <3>4, <3>6, <3>7 DEF ServerThread, ExternalListen,
         ExternalListenError, GotExternalAddresses
  <2> QED
    BY <1>1, <2>1, <2>2
<1>5. CASE Checker
  BY <1>5 DEF Checker, CheckTunnels, CheckServers, CheckSteps
<1>6. CASE User \/ UserTypes
  BY <1>1, <1>6 DEF User, InitNewTunnel, DestroyTunnel, UserTypes, SetTypeTunnel,
     SetTunnelAvailableType
<1>7. ASSUME NEW s \in Session, ClientHandler(s) PROVE UNCHANGED m_servers
  BY <1>7 DEF ClientHandler, OnInitTunnelStarted, NotFound, CreateLocalListenThread,
     CreateLocalUDPSocket, InitExternalConnectThread, CreateRelayConnectThread,
     OnTryConnectTo, InitMsg
<1>8. ASSUME NEW l \in LinkId, LinkStep(l) PROVE UNCHANGED m_servers
  BY <1>8 DEF LinkStep, ConnectionEnds, OnAddLocalTCPConnector, OnAddConnector,
     OnAddLocalUDPConnector, OnAddRelayConnector, OnAddExternalConnector, OnModuleName,
     OnConnected
<1> QED
  BY <1>1, <1>2, <1>3, <1>4, <1>5, <1>6, <1>7, <1>8 DEF Next

-----------------------------------------------------------------------------
(* With one negotiation no listen thread of a client is stopped while the client has
   the TunnelConnect                                                               *)
LEMMA PlaceCounts ==
  ASSUME NEW S, NEW q \in Seq(S), NEW K
  PROVE  /\ Cardinality(Places(q, K)) \in Nat
         /\ Places(q, K) # {} => Cardinality(Places(q, K)) >= 1
         /\ Places(q, K) = {} => Cardinality(Places(q, K)) = 0
         /\ q # <<>> /\ Head(q) \in K => 1 \in Places(q, K)
<1>1. IsFiniteSet(Places(q, K)) /\ Cardinality(Places(q, K)) \in Nat
  BY PlacesFinite
<1>2. Cardinality(Places(q, K)) = 0 <=> Places(q, K) = {}
  BY <1>1, FS_EmptySet
<1>3. q # <<>> /\ Head(q) \in K => 1 \in Places(q, K)
  BY PlacesTail
<1> QED
  BY <1>1, <1>2, <1>3

(* A client that has just been told of a negotiation is untouched *)
LEMMA JustTold ==
  ASSUME CoreInv, OnceInv, started <= 1, NEW s \in Session, Reads(s),
         Head(toClient[s]).kind = "InitTunnelStarted"
  PROVE  Untouched(s) /\ 1 \in Told1(s)
<1>1. toClient[s] \in Seq(ToClientMsg(s)) /\ toClient[s] # <<>>
  BY DEF Reads, CoreInv, TypeInv, Wires
<1>2. Head(toClient[s]) \in Starts(s)
  BY <1>1, Front DEF Starts
<1>3. 1 \in Told1(s)
  BY <1>1, <1>2, PlaceCounts DEF Told1
<1> QED
  BY <1>3 DEF OnceInv

StartedOnly == started' = started \/ started' = started + 1

ListensOnce ==
  started <= 1 => \A s, e \in Session : stale[s][e] > 0 => ~m_tunnels[s][e].on

LEMMA ListensOnceStep ==
  ASSUME CoreInv, CoreInv', LoadOK, OnceInv, ListensOnce, Next
  PROVE  ListensOnce'
<1> SUFFICES ASSUME started' <= 1, NEW s \in Session, NEW e \in Session, stale'[s][e] > 0,
                    m_tunnels'[s][e].on
             PROVE  FALSE
  BY DEF ListensOnce
<1> DEFINE t == m_tunnels[s][e]
           u == m_tunnels'[s][e]
           n == stale[s][e]
           k == stale'[s][e]
<1>1. started <= 1
  BY NextRest DEF RestMoves, CoreInv, TypeInv, Rest
<1>2. n \in Nat /\ k \in Nat /\ (t.listen # "none" \/ t.ext # "none" => t.on)
  <2>1. Clients /\ Clients'
    BY DEF CoreInv, TypeInv
  <2> QED
    BY <2>1, ActiveEntry DEF Clients
<1>3. n > 0 => ~t.on
  BY <1>1 DEF ListensOnce
<1>4. EntryMove(s, e)
  BY EntriesStep DEF EntriesMove
<1>5. ASSUME Reads(s), Head(toClient[s]).kind = "InitTunnelStarted" PROVE n = 0 /\ ~t.on
  BY <1>1, <1>5, JustTold DEF Untouched, NoTunnel
<1>6. ASSUME Reads(s), Head(toClient[s]).ext = e, Head(toClient[s]).kind = "InitTunnel",
             Head(toClient[s]).type = "LOCAL_TCP"
      PROVE  Running(t) = 0
  <2> DEFINE N == Cardinality(Places(toClient[s], Listens(s, e)))
  <2>1. toClient[s] \in Seq(ToClientMsg(s)) /\ toClient[s] # <<>>
    BY <1>6 DEF Reads, CoreInv, TypeInv, Wires
  <2>2. Head(toClient[s]) \in Listens(s, e)
    BY <1>6, <2>1, Front DEF Listens
  <2>3. N >= 1 /\ N \in Nat
    BY <2>1, <2>2, PlaceCounts
  <2>4. N + Running(t) + n <= started
    BY DEF LoadOK
  <2>5. Running(t) \in {0, 1} /\ started \in Nat
    BY DEF Running, CoreInv, TypeInv, Rest
  <2> HIDE DEF N
  <2> QED
    BY <1>1, <1>2, <2>3, <2>4, <2>5
<1>7. ~NoTunnel.on
  BY DEF NoTunnel
<1> HIDE DEF t, u, n, k
<1>8. k > 0 /\ u.on
  BY DEF k, u
<1>9. CASE EntryRead(s, e, t, u, n, k)
  <2>1. CASE t.on /\ k = n
    BY <1>2, <1>3, <1>8, <2>1
  <2>2. CASE Head(toClient[s]).kind = "InitTunnelStarted"
    <3>1. Reads(s) /\ k = n
      BY <1>9, <2>2 DEF EntryRead
    <3> QED
      BY <1>5, <1>8, <2>2, <3>1
  <2>3. CASE t.on /\ k = n + Running(t) /\ Head(toClient[s]).kind = "InitTunnel"
               /\ Head(toClient[s]).type = "LOCAL_TCP"
    <3>1. Reads(s) /\ Head(toClient[s]).ext = e
      BY <1>9 DEF EntryRead
    <3>2. Running(t) = 0
      BY <1>6, <2>3, <3>1
    <3> QED
      BY <1>2, <1>3, <1>8, <2>3, <3>2
  <2> QED
    BY <1>9, <2>1, <2>2, <2>3 DEF EntryRead
<1>10. CASE EntryGoesOn(s, e, t, u, n, k)
  <2>1. \/ k = n /\ t.on
        \/ n > 0 /\ u.on = t.on
        \/ k = n /\ u.on = t.on
        \/ u = NoTunnel
    BY <1>2, <1>10 DEF EntryGoesOn
  <2> QED
    BY <1>2, <1>3, <1>7, <1>8, <2>1
<1>11. CASE u = t /\ k = n
  BY <1>2, <1>3, <1>8, <1>11
<1> QED
  BY <1>4, <1>9, <1>10, <1>11 DEF EntryMove, t, u, n, k

(* What asks a client for a local tunnel comes first, or right after it was told of the
   negotiation                                                                        *)
Locals(s) == {m \in ToClientMsg(s) : m.kind = "InitTunnel" /\ m.type \in LocalType}

AsksFirst ==
  started <= 1 =>
    \A s \in Session : \A j \in Places(toClient[s], Locals(s)) :
      j = 1 \/ (j = 2 /\ 1 \in Told1(s))

LEMMA AsksFirstStep ==
  ASSUME CoreInv, CoreInv', OnceInv, AsksFirst, Next
  PROVE  AsksFirst'
<1> SUFFICES ASSUME started' <= 1, NEW s \in Session,
                    NEW j \in Places(toClient'[s], Locals(s))
             PROVE  j = 1 \/ (j = 2 /\ 1 \in Told1(s)')
  BY DEF AsksFirst, Locals, ToClientMsg, Places
<1> DEFINE q == toClient[s]
           K == Locals(s)
<1>0. /\ Told1(s) = Places(q, Starts(s)) /\ Told1(s)' = Places(toClient'[s], Starts(s))
  BY DEF Told1, Starts, ToClientMsg, Places
<1>1. q \in Seq(ToClientMsg(s)) /\ toClient'[s] \in Seq(ToClientMsg(s)) /\ Wires'
        /\ DOMAIN toClient = Session
  BY DEF CoreInv, TypeInv, Wires
<1>2. StartedOnly /\ started <= 1 /\ started \in Nat
  BY NextRest DEF RestMoves, CoreInv, TypeInv, Rest, StartedOnly
<1>3. MailMoves
  BY MailStep
<1>4. \A i \in Places(q, K) : i = 1 \/ (i = 2 /\ 1 \in Told1(s))
  BY <1>2 DEF AsksFirst
<1>5. CASE toClient'[s] = q
  BY <1>0, <1>4, <1>5
<1>6. CASE GetsOne(s)
  <2>1. PICK m \in ToClientMsg(s) : toClient'[s] = Append(q, m) /\ OtherMsg(m)
    BY <1>1, <1>6, OneMessage
  <2>2. m \notin K /\ m \notin Starts(s)
    BY <2>1 DEF OtherMsg, Starts, Locals
  <2> HIDE DEF K
  <2>3. Places(toClient'[s], K) = Places(q, K)
    BY <1>1, <2>1, <2>2, PlacesAppend
  <2>4. Told1(s)' = Told1(s)
    BY <1>0, <1>1, <2>1, <2>2, PlacesAppend
  <2> QED
    BY <1>4, <2>3, <2>4 DEF K
<1>7. CASE Reads(s)
  <2>1. toClient'[s] = Tail(q) /\ q # <<>>
    BY <1>1, <1>7 DEF Reads
  <2> HIDE DEF K
  <2>2. j \in Nat /\ j + 1 \in Places(q, K) /\ j + 1 # 1
    BY <1>1, <2>1, PlacesTail DEF K
  <2> QED
    BY <1>4, <2>2
<1>8. CASE GetsStarted(s)
  <2>1. q = <<>>
    <3>1. started = 0
      BY <1>2, <1>8 DEF GetsStarted
    <3> QED
      BY <1>2, <3>1 DEF OnceInv
  <2>2. PICK e \in Session \ {s} :
          \/ toClient'[s] = Append(<<>>, InitTunnelStarted(e))
          \/ \E t \in LocalType :
               toClient'[s] = Append(Append(<<>>, InitTunnelStarted(e)), LocalMsg(e, t))
    BY <1>8, <2>1 DEF GetsStarted
  <2> DEFINE a == InitTunnelStarted(e)
  <2>3. a \in Starts(s) /\ a \notin K
    BY DEF InitTunnelStarted, ToClientMsg, Starts, Locals
  <2> HIDE DEF a
  <2>4. toClient'[s][1] = a /\ Len(toClient'[s]) \in 1..2
    BY <2>2 DEF a
  <2>5. 1 \in Told1(s)'
    BY <1>0, <2>3, <2>4 DEF Places
  <2>6. j # 1 /\ j \in 1..2
    BY <2>3, <2>4 DEF Places
  <2> QED
    BY <2>5, <2>6
<1> QED
  BY <1>3, <1>5, <1>6, <1>7, <1>8 DEF MailMoves

-----------------------------------------------------------------------------
(* Over UDP each client asks the other one to connect to its socket: the server asks
   both for a tunnel, each sends its port, and the server passes it on              *)
UdpAsks(x, y) ==
  {m \in ToClientMsg(x) : m.kind = "InitTunnel" /\ m.type = "LOCAL_UDP" /\ m.ext = y}
UdpSent(x, y) ==
  {m \in FromClientMsg(x) : m.kind = "TryConnectTo" /\ m.type = "LOCAL_UDP" /\ m.ext = y}
UdpTold(x, y) ==
  {m \in ToClientMsg(x) : m.kind = "TryConnectTo" /\ m.type = "LOCAL_UDP" /\ m.ext = y}

Asked(x, y) == Cardinality(Places(toClient[x], UdpAsks(x, y)))
Sent1(x, y) == Cardinality(Places(toServer[x], UdpSent(x, y)))
Passed(x, y) == Cardinality(Places(toClient[x], UdpTold(x, y)))

(* What is on its way from e to s *)
Chain(s, e) == Asked(e, s) + Sent1(e, s) + Passed(s, e)

LEMMA ChainTypes ==
  ASSUME CoreInv, NEW s \in Session, NEW e \in Session
  PROVE  /\ Asked(e, s) \in Nat /\ Sent1(e, s) \in Nat /\ Passed(s, e) \in Nat
         /\ Chain(s, e) \in Nat
<1>1. /\ toClient[s] \in Seq(ToClientMsg(s)) /\ toClient[e] \in Seq(ToClientMsg(e))
      /\ toServer[e] \in Seq(FromClientMsg(e))
  BY DEF CoreInv, TypeInv, Wires
<1>2. Asked(e, s) \in Nat /\ Sent1(e, s) \in Nat /\ Passed(s, e) \in Nat
  BY <1>1, PlacesFinite DEF Asked, Sent1, Passed
<1> QED
  BY <1>2 DEF Chain

LEMMA AskedMoves ==
  ASSUME CoreInv, CoreInv', MailMoves, NEW s \in Session, NEW e \in Session
  PROVE  /\ \/ Asked(e, s)' <= Asked(e, s) /\ StartedOnly
            \/ started' = started + 1 /\ Asked(e, s)' <= Asked(e, s) + 1
         /\ Reads(e) /\ Head(toClient[e]) \in UdpAsks(e, s) =>
              Asked(e, s)' <= Asked(e, s) - 1
<1>1. \A m \in UdpAsks(e, s) : m.kind = "InitTunnel" /\ m.type \in LocalType
  BY DEF UdpAsks, LocalType
<1>2. Asked(e, s)' = Cardinality(Places(toClient'[e], UdpAsks(e, s)))
  BY DEF Asked, UdpAsks, ToClientMsg, Places
<1>3. Wires'
  BY DEF CoreInv, TypeInv
<1> QED
  BY <1>1, <1>2, <1>3, MailCount DEF Asked, StartedOnly

(* A client answers what it was asked, once *)
LEMMA SentMovesOn ==
  ASSUME CoreInv, CoreInv', SentMoves, NEW s \in Session, NEW e \in Session
  PROVE  /\ \/ Sent1(e, s)' <= Sent1(e, s)
            \/ /\ Reads(e) /\ Head(toClient[e]) \in UdpAsks(e, s)
               /\ Sent1(e, s)' <= Sent1(e, s) + 1
         /\ ForwardTryConnectTo(e) /\ Head(toServer[e]) \in UdpSent(e, s) =>
              Sent1(e, s)' <= Sent1(e, s) - 1
<1> DEFINE q == toServer[e]
           K == UdpSent(e, s)
<1>1. q \in Seq(FromClientMsg(e)) /\ toServer'[e] \in Seq(FromClientMsg(e))
        /\ DOMAIN toServer = Session
  BY DEF CoreInv, TypeInv, Wires
<1>2. Sent1(e, s) = Cardinality(Places(q, K))
        /\ Sent1(e, s)' = Cardinality(Places(toServer'[e], K))
  BY DEF Sent1, UdpSent, FromClientMsg, Places
<1>3. Sent1(e, s) \in Nat /\ Sent1(e, s)' \in Nat
  BY <1>1, <1>2, PlacesFinite
<1>4. \A a \in Plain(e) : a \in FromClientMsg(e) /\ a \notin K
  BY DEF Plain, UdpSent
<1>5. \A x, t, p : TryMsg(x, t, p).kind = "TryConnectTo" /\ TryMsg(x, t, p).type = t
                     /\ TryMsg(x, t, p).ext = x
  BY DEF TryMsg
<1>6. ASSUME SendsPlain(e)
      PROVE  \/ Sent1(e, s)' <= Sent1(e, s)
             \/ /\ Reads(e) /\ Head(toClient[e]) \in UdpAsks(e, s)
                /\ Sent1(e, s)' <= Sent1(e, s) + 1
  <2> HIDE DEF K
  <2>1. ASSUME NEW a \in Plain(e)
        PROVE  Append(q, a) \in Seq(FromClientMsg(e))
                 /\ Cardinality(Places(Append(q, a), K)) = Sent1(e, s)
    <3>1. a \in FromClientMsg(e) /\ a \notin K
      BY <1>4
    <3> QED
      BY <1>1, <1>2, <3>1, MorePlaces
  <2>2. ASSUME NEW a \in Plain(e), NEW b \in Plain(e)
        PROVE  Cardinality(Places(Append(Append(q, a), b), K)) = Sent1(e, s)
    <3> DEFINE r == Append(q, a)
    <3>1. r \in Seq(FromClientMsg(e)) /\ Cardinality(Places(r, K)) = Sent1(e, s)
      BY <2>1
    <3>2. b \in FromClientMsg(e) /\ b \notin K
      BY <1>4
    <3> HIDE DEF r
    <3>3. Cardinality(Places(Append(r, b), K)) = Cardinality(Places(r, K))
      BY <3>1, <3>2, MorePlaces
    <3> QED
      BY <3>1, <3>3 DEF r
  <2>3. Sent1(e, s)' = Sent1(e, s)
    BY <1>2, <1>6, <2>1, <2>2 DEF SendsPlain
  <2> QED
    BY <1>3, <2>3
<1>7. ASSUME SendsSocket(e)
      PROVE  \/ Sent1(e, s)' <= Sent1(e, s)
             \/ /\ Reads(e) /\ Head(toClient[e]) \in UdpAsks(e, s)
                /\ Sent1(e, s)' <= Sent1(e, s) + 1
  <2> DEFINE x == Head(toClient[e]).ext
             m == TryMsg(x, "LOCAL_UDP", 0)
  <2>1. toServer'[e] = Append(q, m) /\ Reads(e) /\ CreateLocalUDPSocket(e)
    BY <1>7 DEF SendsSocket
  <2>2. Head(toClient[e]) \in ToClientMsg(e) /\ Head(toClient[e]).kind = "InitTunnel"
          /\ Head(toClient[e]).type = "LOCAL_UDP"
    BY <2>1, Delivered DEF CreateLocalUDPSocket, InitMsg, CoreInv, TypeInv, Wires, ToClients,
       FromServer
  <2>3. m \in FromClientMsg(e)
    <3> HIDE DEF m
    <3> QED
      BY <1>1, <2>1, LastMessage
  <2>4. x = s \/ m \notin K
    BY <1>5 DEF UdpSent
  <2> HIDE DEF m, x, K
  <2>5. Sent1(e, s)' <= Sent1(e, s) + 1 /\ (m \notin K => Sent1(e, s)' = Sent1(e, s))
    BY <1>1, <1>2, <2>1, <2>3, MorePlaces
  <2>6. x = s => Head(toClient[e]) \in UdpAsks(e, s)
    BY <2>2 DEF UdpAsks, x
  <2> QED
    BY <1>3, <2>1, <2>4, <2>5, <2>6
<1>8. ASSUME SendsListen(e)
      PROVE  \/ Sent1(e, s)' <= Sent1(e, s)
             \/ /\ Reads(e) /\ Head(toClient[e]) \in UdpAsks(e, s)
                /\ Sent1(e, s)' <= Sent1(e, s) + 1
  <2>1. PICK x \in Session, p \in 0..MaxInit : toServer'[e] = Append(q, TryMsg(x, "LOCAL_TCP", p))
    BY <1>8 DEF SendsListen
  <2> DEFINE m == TryMsg(x, "LOCAL_TCP", p)
  <2>2. m \notin K
    BY <1>5 DEF UdpSent
  <2> HIDE DEF m, K
  <2>3. m \in FromClientMsg(e)
    BY <1>1, <2>1, LastMessage DEF m
  <2>4. Sent1(e, s)' = Sent1(e, s)
    BY <1>1, <1>2, <2>1, <2>2, <2>3, MorePlaces DEF m
  <2> QED
    BY <1>3, <2>4
<1>9. ASSUME toServer'[e] = Tail(q), q # <<>>
      PROVE  /\ Sent1(e, s)' <= Sent1(e, s)
             /\ Head(q) \in K => Sent1(e, s)' <= Sent1(e, s) - 1
  BY <1>1, <1>2, <1>9, FewerPlaces
<1>10. ASSUME ForwardTryConnectTo(e) PROVE toServer'[e] = Tail(q) /\ q # <<>>
  BY <1>1, <1>10 DEF ForwardTryConnectTo, FromClient
<1>11. \/ Sent1(e, s)' <= Sent1(e, s)
       \/ /\ Reads(e) /\ Head(toClient[e]) \in UdpAsks(e, s)
          /\ Sent1(e, s)' <= Sent1(e, s) + 1
  <2>1. CASE toServer'[e] = q
    BY <1>2, <1>3, <2>1
  <2>2. CASE Passes(e)
    BY <1>9, <2>2 DEF Passes
  <2>3. SentMove(e)
    BY DEF SentMoves
  <2>4. CASE SendsPlain(e)
    BY <1>6, <2>4
  <2>5. CASE SendsSocket(e)
    BY <1>7, <2>5
  <2>6. CASE SendsListen(e)
    BY <1>8, <2>6
  <2> QED
    BY <2>1, <2>2, <2>3, <2>4, <2>5, <2>6 DEF SentMove
<1> HIDE DEF K
<1>12. ForwardTryConnectTo(e) /\ Head(q) \in K => Sent1(e, s)' <= Sent1(e, s) - 1
  BY <1>9, <1>10
<1> QED
  BY <1>11, <1>12 DEF K

(* What was there stays there, unless it was first and is taken *)
LEMMA PlacesStay ==
  ASSUME NEW S, NEW q \in Seq(S), NEW K
  PROVE  /\ \A m \in S : Places(q, K) \subseteq Places(Append(q, m), K)
         /\ q # <<>> => \A j \in Places(q, K) : j = 1 \/ j - 1 \in Places(Tail(q), K)
<1>1. ASSUME NEW m \in S, NEW j \in Places(q, K) PROVE j \in Places(Append(q, m), K)
  BY <1>1 DEF Places
<1>2. ASSUME q # <<>>, NEW j \in Places(q, K), j # 1 PROVE j - 1 \in Places(Tail(q), K)
  <2>1. j \in 1..Len(q) /\ q[j] \in K /\ Len(Tail(q)) = Len(q) - 1
    BY <1>2 DEF Places
  <2>2. j - 1 \in 1..Len(Tail(q)) /\ Tail(q)[j - 1] = q[j]
    BY <1>2, <2>1
  <2> QED
    BY <2>1, <2>2 DEF Places
<1> QED
  BY <1>1, <1>2

LEMMA PassedMoves ==
  ASSUME CoreInv, CoreInv', MailMoves, NEW s \in Session, NEW e \in Session
  PROVE  /\ \/ Passed(s, e)' <= Passed(s, e)
            \/ /\ ForwardTryConnectTo(e) /\ Head(toServer[e]) \in UdpSent(e, s)
               /\ Passed(s, e)' <= Passed(s, e) + 1
         /\ Reads(s) /\ Head(toClient[s]) \in UdpTold(s, e) =>
              Passed(s, e)' <= Passed(s, e) - 1
<1> DEFINE q == toClient[s]
           K == UdpTold(s, e)
<1>1. /\ q \in Seq(ToClientMsg(s)) /\ toClient'[s] \in Seq(ToClientMsg(s)) /\ Wires'
      /\ DOMAIN toClient = Session /\ \A x \in Session : toServer[x] \in Seq(FromClientMsg(x))
  BY DEF CoreInv, TypeInv, Wires
<1>2. Passed(s, e) = Cardinality(Places(q, K))
        /\ Passed(s, e)' = Cardinality(Places(toClient'[s], K))
  BY DEF Passed, UdpTold, ToClientMsg, Places
<1>3. Passed(s, e) \in Nat /\ Passed(s, e)' \in Nat
  BY <1>1, <1>2, PlacesFinite
<1>4. ASSUME Reads(s)
      PROVE  /\ Passed(s, e)' <= Passed(s, e)
             /\ Head(q) \in K => Passed(s, e)' <= Passed(s, e) - 1
  <2>1. toClient'[s] = Tail(q) /\ q # <<>>
    BY <1>1, <1>4 DEF Reads
  <2> QED
    BY <1>1, <1>2, <2>1, FewerPlaces
<1>5. ASSUME NEW m \in ToClientMsg(s), toClient'[s] = Append(q, m)
      PROVE  /\ Passed(s, e)' <= Passed(s, e) + 1
             /\ m \notin K => Passed(s, e)' = Passed(s, e)
  <2> HIDE DEF K
  <2> QED
    BY <1>1, <1>2, <1>5, MorePlaces
<1>6. ASSUME NEW m, toClient'[s] = Append(q, m) PROVE m \in ToClientMsg(s)
  BY <1>1, <1>6, LastMessage
<1>7. ASSUME GetsTry(s)
      PROVE  \/ Passed(s, e)' <= Passed(s, e)
             \/ /\ ForwardTryConnectTo(e) /\ Head(toServer[e]) \in UdpSent(e, s)
                /\ Passed(s, e)' <= Passed(s, e) + 1
  <2>1. PICK x \in Session \ {s} : LET m == Head(toServer[x]) IN
          /\ ForwardTryConnectTo(x) /\ m.ext = s /\ m.type \in LocalType
          /\ toClient'[s] = Append(q, TryMsg(x, m.type, m.port))
    BY <1>7 DEF GetsTry
  <2> DEFINE h == Head(toServer[x])
             m == TryMsg(x, h.type, h.port)
  <2>2. m.type = h.type /\ m.ext = x
    BY DEF TryMsg
  <2>3. h \in FromClientMsg(x) /\ h.kind = "TryConnectTo" /\ h.ext = s
    BY <1>1, <2>1, Front DEF ForwardTryConnectTo, FromClient
  <2>4. h.type = "LOCAL_UDP" /\ x = e => h \in UdpSent(e, s)
    BY <2>3 DEF UdpSent
  <2>5. toClient'[s] = Append(q, m) /\ ForwardTryConnectTo(x)
    BY <2>1
  <2> HIDE DEF h, m
  <2>6. m \in ToClientMsg(s)
    BY <1>6, <2>5
  <2>7. Passed(s, e)' <= Passed(s, e) + 1 /\ (m \notin K => Passed(s, e)' = Passed(s, e))
    BY <1>5, <2>5, <2>6
  <2>8. CASE m \in K
    <3>1. x = e /\ h.type = "LOCAL_UDP"
      BY <2>2, <2>8 DEF UdpTold
    <3> QED
      BY <2>4, <2>5, <2>7, <3>1 DEF h
  <2> QED
    BY <1>3, <2>7, <2>8
<1>8. ASSUME GetsServer(s) \/ GetsAddress(s) PROVE Passed(s, e)' <= Passed(s, e)
  <2>1. \E i \in ServerId :
           \/ toClient'[s] = Append(q, ServerMsg(i, OtherEnd(i, s)))
           \/ toClient'[s] = Append(q, TryMsg(OtherEnd(i, s), "EXTERNAL", 0))
    BY <1>8 DEF GetsServer, GetsAddress
  <2>2. PICK m : toClient'[s] = Append(q, m) /\ m \notin K
    <3>1. \A i, x : ServerMsg(i, x) \notin K /\ TryMsg(x, "EXTERNAL", 0) \notin K
      BY DEF ServerMsg, TryMsg, UdpTold
    <3> HIDE DEF K
    <3> QED
      BY <2>1, <3>1
  <2> HIDE DEF K
  <2>3. Passed(s, e)' = Passed(s, e)
    BY <1>5, <1>6, <2>2
  <2> QED
    BY <1>3, <2>3
<1>9. ASSUME GetsStarted(s) PROVE Passed(s, e)' <= Passed(s, e)
  <2>1. PICK x \in Session \ {s} :
          \/ toClient'[s] = Append(q, InitTunnelStarted(x))
          \/ \E t \in LocalType :
               toClient'[s] = Append(Append(q, InitTunnelStarted(x)), LocalMsg(x, t))
    BY <1>9 DEF GetsStarted
  <2> DEFINE a == InitTunnelStarted(x)
             r == Append(q, a)
  <2>2. a \in ToClientMsg(s) /\ a \notin K
    BY DEF InitTunnelStarted, ToClientMsg, UdpTold
  <2>3. \A t \in LocalType : LocalMsg(x, t) \in ToClientMsg(s) /\ LocalMsg(x, t) \notin K
    BY DEF LocalMsg, ToClientMsg, UdpTold, LocalType, AllType
  <2> HIDE DEF a, K
  <2>4. r \in Seq(ToClientMsg(s)) /\ Cardinality(Places(r, K)) = Cardinality(Places(q, K))
    BY <1>1, <2>2, MorePlaces
  <2> HIDE DEF r
  <2>5. \A t \in LocalType : Cardinality(Places(Append(r, LocalMsg(x, t)), K))
                                = Cardinality(Places(q, K))
    BY <2>3, <2>4, MorePlaces
  <2>6. toClient'[s] = r \/ \E t \in LocalType : toClient'[s] = Append(r, LocalMsg(x, t))
    BY <2>1 DEF a, r
  <2>7. Passed(s, e)' = Passed(s, e)
    BY <1>2, <2>4, <2>5, <2>6
  <2> QED
    BY <1>3, <2>7
<1>10. toClient'[s] = q => Passed(s, e)' <= Passed(s, e)
  BY <1>2, <1>3
<1>11. \/ Passed(s, e)' <= Passed(s, e)
       \/ /\ ForwardTryConnectTo(e) /\ Head(toServer[e]) \in UdpSent(e, s)
          /\ Passed(s, e)' <= Passed(s, e) + 1
  BY <1>4, <1>7, <1>8, <1>9, <1>10 DEF MailMoves, GetsOne
<1> QED
  BY <1>4, <1>11

LEMMA ChainTypesNext ==
  ASSUME CoreInv', NEW s \in Session, NEW e \in Session
  PROVE  /\ Asked(e, s)' \in Nat /\ Sent1(e, s)' \in Nat /\ Passed(s, e)' \in Nat
         /\ Chain(s, e)' \in Nat
<1>1. /\ toClient'[s] \in Seq(ToClientMsg(s)) /\ toClient'[e] \in Seq(ToClientMsg(e))
      /\ toServer'[e] \in Seq(FromClientMsg(e))
  BY DEF CoreInv, TypeInv, Wires
<1>2. /\ Asked(e, s)' = Cardinality(Places(toClient'[e], UdpAsks(e, s)))
      /\ Sent1(e, s)' = Cardinality(Places(toServer'[e], UdpSent(e, s)))
      /\ Passed(s, e)' = Cardinality(Places(toClient'[s], UdpTold(s, e)))
  BY DEF Asked, Sent1, Passed, UdpAsks, UdpSent, UdpTold, ToClientMsg, FromClientMsg, Places
<1>3. Asked(e, s)' \in Nat /\ Sent1(e, s)' \in Nat /\ Passed(s, e)' \in Nat
  BY <1>1, <1>2, PlacesFinite
<1> QED
  BY <1>3 DEF Chain

(* The chain grows only with a negotiation, and a client that is told ends it *)
LEMMA ChainMoves ==
  ASSUME CoreInv, CoreInv', Next, NEW s \in Session, NEW e \in Session
  PROVE  /\ \/ Chain(s, e)' <= Chain(s, e) /\ StartedOnly
            \/ /\ started' = started + 1 /\ Chain(s, e)' <= Chain(s, e) + 1
               /\ Chain(s, e)' <= Chain(s, e) \/ ~(Asked(e, s)' <= Asked(e, s))
         /\ Reads(s) /\ Head(toClient[s]) \in UdpTold(s, e) =>
              Chain(s, e)' <= Chain(s, e) - 1
<1> DEFINE A == Asked(e, s)
           B == Sent1(e, s)
           C == Passed(s, e)
           A1 == Asked(e, s)'
           B1 == Sent1(e, s)'
           C1 == Passed(s, e)'
<1>1. A \in Nat /\ B \in Nat /\ C \in Nat
  BY ChainTypes
<1>2. A1 \in Nat /\ B1 \in Nat /\ C1 \in Nat
  BY ChainTypesNext
<1>3. MailMoves /\ SentMoves
  BY MailStep, SentStep
<1>4. /\ (A1 <= A /\ StartedOnly) \/ (started' = started + 1 /\ A1 <= A + 1)
      /\ Reads(e) /\ Head(toClient[e]) \in UdpAsks(e, s) => A1 <= A - 1
  BY <1>3, AskedMoves
<1>5. /\ \/ B1 <= B
         \/ Reads(e) /\ Head(toClient[e]) \in UdpAsks(e, s) /\ B1 <= B + 1
      /\ ForwardTryConnectTo(e) /\ Head(toServer[e]) \in UdpSent(e, s) => B1 <= B - 1
  BY <1>3, SentMovesOn
<1>6. /\ \/ C1 <= C
         \/ ForwardTryConnectTo(e) /\ Head(toServer[e]) \in UdpSent(e, s) /\ C1 <= C + 1
      /\ Reads(s) /\ Head(toClient[s]) \in UdpTold(s, e) => C1 <= C - 1
  BY <1>3, PassedMoves
<1>7. Chain(s, e) = A + B + C /\ Chain(s, e)' = A1 + B1 + C1
  BY DEF Chain
<1>8. Reads(s) => started' = started
  BY DEF Reads
<1>9. started \in Nat
  BY DEF CoreInv, TypeInv, Rest
<1> HIDE DEF A, B, C, A1, B1, C1
<1>10. A1 <= A => Chain(s, e)' <= Chain(s, e)
  BY <1>1, <1>2, <1>4, <1>5, <1>6, <1>7
<1>11. started' = started + 1 /\ A1 <= A + 1 => Chain(s, e)' <= Chain(s, e) + 1
  BY <1>1, <1>2, <1>4, <1>5, <1>6, <1>7
<1>12. ASSUME Reads(s), Head(toClient[s]) \in UdpTold(s, e)
       PROVE  Chain(s, e)' <= Chain(s, e) - 1
  <2>1. A1 <= A
    BY <1>4, <1>8, <1>9, <1>12
  <2>2. C1 <= C - 1
    BY <1>6, <1>12
  <2> QED
    BY <1>1, <1>2, <1>4, <1>5, <1>7, <2>1, <2>2
<1>13. A1 <= A => StartedOnly
  BY <1>4 DEF StartedOnly
<1>14. CASE A1 <= A
  <2>1. Chain(s, e)' <= Chain(s, e) /\ StartedOnly
    BY <1>10, <1>13, <1>14
  <2> QED
    BY <1>12, <2>1
<1>15. CASE ~(A1 <= A)
  <2>1. started' = started + 1 /\ A1 <= A + 1
    BY <1>4, <1>15
  <2>2. Chain(s, e)' <= Chain(s, e) + 1
    BY <1>11, <2>1
  <2> QED
    BY <1>12, <1>15, <2>1, <2>2 DEF A, A1
<1> QED
  BY <1>14, <1>15

ChainInv == \A s, e \in Session : Chain(s, e) <= started

LEMMA ChainInit == Init => ChainInv
<1> SUFFICES ASSUME Init, NEW s \in Session, NEW e \in Session PROVE Chain(s, e) <= started
  BY DEF ChainInv
<1>1. Asked(e, s) = 0 /\ Sent1(e, s) = 0 /\ Passed(s, e) = 0
  <2>1. \A K : Places(<<>>, K) = {}
    BY DEF Places
  <2>2. toClient[e] = <<>> /\ toServer[e] = <<>> /\ toClient[s] = <<>>
    BY DEF Init
  <2> QED
    BY <2>1, <2>2, FS_EmptySet DEF Asked, Sent1, Passed
<1> QED
  BY <1>1 DEF Chain, Init

LEMMA ChainStep ==
  ASSUME CoreInv, CoreInv', ChainInv, Next
  PROVE  ChainInv'
<1> SUFFICES ASSUME NEW s \in Session, NEW e \in Session PROVE Chain(s, e)' <= started'
  BY DEF ChainInv
<1>1. Chain(s, e) \in Nat /\ Chain(s, e) <= started /\ started \in Nat
  BY ChainTypes DEF ChainInv, CoreInv, TypeInv, Rest
<1>2. Chain(s, e)' \in Nat
  BY ChainTypesNext
<1>3. \/ Chain(s, e)' <= Chain(s, e) /\ StartedOnly
      \/ started' = started + 1 /\ Chain(s, e)' <= Chain(s, e) + 1
  BY ChainMoves
<1> QED
  BY <1>1, <1>2, <1>3 DEF StartedOnly

-----------------------------------------------------------------------------
(* The server asks both ends of a pair for a tunnel, or neither *)
LEMMA Starting ==
  ASSUME CoreInv, Next, started' # started
  PROVE  \E x \in Session : OnInitTunnel(x)
<1> USE DEF server, client, history
<1>0. started \in Nat
  BY DEF CoreInv, TypeInv, Rest
<1>1. CASE User \/ UserTypes \/ Checker
  BY <1>1 DEF User, InitNewTunnel, DestroyTunnel, UserTypes, SetTypeTunnel,
     SetTunnelAvailableType, Checker, CheckTunnels, CheckServers, CheckSteps
<1>2. ASSUME NEW s \in Session, ServerHandler(s) PROVE \E x \in Session : OnInitTunnel(x)
  BY <1>2 DEF ServerHandler, OnPeerData, OnAvailablePearTypes, OnInitTunnelComplete,
     ForwardTryConnectTo
<1>3. ASSUME NEW s \in Session, ClientHandler(s) PROVE FALSE
  BY <1>3 DEF ClientHandler, OnInitTunnelStarted, NotFound, CreateLocalListenThread,
     CreateLocalUDPSocket, InitExternalConnectThread, CreateRelayConnectThread,
     OnTryConnectTo, InitMsg
<1>4. ASSUME NEW s \in Session, ClientThread(s) PROVE FALSE
  BY <1>4 DEF ClientThread, ListenBound, OnErrorLocalListener, ExternalProbe,
     ExternalProbeFails, OnErrorLocalConnect, OnErrorRelayConnect, OnErrorExternalConnect,
     ConnectLocalTCP, ConnectRelay, ConnectUDT
<1>5. ASSUME NEW i \in ServerId, ServerThread(i) PROVE FALSE
  BY <1>5 DEF ServerThread, RelayListen, RelayAnnounce, RelayPair, RelayBound,
     RelayListenError, OnAddRelayServerConnector, ExternalListen, ExternalListenError,
     GotExternalAddresses
<1>6. ASSUME NEW l \in LinkId, LinkStep(l) PROVE FALSE
  BY <1>6 DEF LinkStep, ConnectionEnds, OnAddLocalTCPConnector, OnAddConnector,
     OnAddLocalUDPConnector, OnAddRelayConnector, OnAddExternalConnector, OnModuleName,
     OnConnected
<1> QED
  BY <1>1, <1>2, <1>3, <1>4, <1>5, <1>6 DEF Next

LEMMA TwoInRow ==
  ASSUME NEW a, NEW b
  PROVE  LET q == <<>> \o <<a>> \o <<b>> IN Len(q) = 2 /\ q[1] = a /\ q[2] = b
<1> DEFINE S == {a, b}
<1>1. <<>> \in Seq(S) /\ a \in S /\ b \in S
  OBVIOUS
<1> HIDE DEF S
<1>2. <<>> \o <<a>> \o <<b>> = Append(Append(<<>>, a), b)
  BY <1>1, AppendTwo
<1>3. LET q == Append(Append(<<>>, a), b) IN Len(q) = 2 /\ q[1] = a /\ q[2] = b
  OBVIOUS
<1> QED
  BY <1>2, <1>3

LEMMA AskBoth ==
  ASSUME CoreInv, Next, started' # started, \A x \in Session : toClient[x] = <<>>,
         NEW s \in Session, NEW e \in Session,
         Places(toClient'[e], UdpAsks(e, s)) # {}
  PROVE  Places(toClient'[s], UdpAsks(s, e)) # {}
<1>1. PICK x \in Session : OnInitTunnel(x)
  BY Starting
<1> DEFINE y == Head(toServer[x]).ext
           types == Chosen(x, y)
           t == CHOOSE z \in types \cap LocalType : TRUE
           local(z) == IF types \cap LocalType = {} THEN <<>> ELSE <<LocalMsg(z, t)>>
<1>2. y \in Session \ {x}
  BY <1>1, Handled, FromClientMsgs DEF OnInitTunnel, CoreInv, TypeInv, Wires, FromClients
<1>3. toClient' = [toClient EXCEPT
                    ![x] = @ \o <<InitTunnelStarted(y)>> \o local(y),
                    ![y] = @ \o <<InitTunnelStarted(x)>> \o local(x)]
  BY <1>1 DEF OnInitTunnel, LocalMsg
<1> DEFINE q(z) == <<>> \o <<InitTunnelStarted(z)>> \o local(z)
<1>4. /\ toClient'[x] = q(y) /\ toClient'[y] = q(x)
      /\ \A z \in Session \ {x, y} : toClient'[z] = <<>>
  <2> HIDE DEF local, y
  <2>1. DOMAIN toClient = Session
    BY DEF CoreInv, TypeInv, Wires
  <2> QED
    BY <1>2, <1>3, <2>1
<1>5. ASSUME NEW u \in Session, NEW v \in Session \ {u}, NEW w \in Session,
             Places(q(v), UdpAsks(u, w)) # {}
      PROVE  v = w /\ types \cap LocalType # {} /\ t = "LOCAL_UDP"
  <2>1. PICK j \in 1..Len(q(v)) : q(v)[j] \in UdpAsks(u, w)
    BY <1>5 DEF Places
  <2>2. CASE types \cap LocalType = {}
    <3>1. q(v) = <<InitTunnelStarted(v)>>
      BY <2>2
    <3>2. q(v)[j] = InitTunnelStarted(v)
      BY <2>1, <3>1
    <3> QED
      BY <2>1, <3>2 DEF UdpAsks, InitTunnelStarted
  <2>3. CASE types \cap LocalType # {}
    <3>1. Len(q(v)) = 2 /\ q(v)[1] = InitTunnelStarted(v) /\ q(v)[2] = LocalMsg(v, t)
      <4>1. q(v) = <<>> \o <<InitTunnelStarted(v)>> \o <<LocalMsg(v, t)>>
        BY <2>3
      <4> HIDE DEF q, t
      <4> QED
        BY <4>1, TwoInRow
    <3>2. q(v)[j] = InitTunnelStarted(v) \/ q(v)[j] = LocalMsg(v, t)
      <4> HIDE DEF q, t
      <4>1. j \in 1..2
        BY <2>1, <3>1
      <4> QED
        BY <3>1, <4>1
    <3>3. InitTunnelStarted(v) \notin UdpAsks(u, w)
      BY DEF UdpAsks, InitTunnelStarted
    <3>4. LocalMsg(v, t) \in UdpAsks(u, w) => v = w /\ t = "LOCAL_UDP"
      BY DEF UdpAsks, LocalMsg
    <3> QED
      BY <2>1, <2>3, <3>2, <3>3, <3>4
  <2> QED
    BY <2>2, <2>3
<1>6. ASSUME NEW u \in Session, NEW v \in Session \ {u}, types \cap LocalType # {},
             t = "LOCAL_UDP"
      PROVE  Places(q(v), UdpAsks(u, v)) # {}
  <2>1. q(v) = <<>> \o <<InitTunnelStarted(v)>> \o <<LocalMsg(v, t)>>
    BY <1>6
  <2>2. 2 \in 1..Len(q(v)) /\ q(v)[2] = LocalMsg(v, t)
    <3> HIDE DEF q, t
    <3>1. Len(q(v)) = 2 /\ q(v)[2] = LocalMsg(v, t)
      BY <2>1, TwoInRow
    <3> QED
      BY <3>1
  <2>3. LocalMsg(v, "LOCAL_UDP") \in UdpAsks(u, v)
    BY DEF LocalMsg, UdpAsks, ToClientMsg, LocalType, AllType
  <2> QED
    BY <1>6, <2>2, <2>3 DEF Places
<1> HIDE DEF q, local, t, types, y
<1>7. e \in {x, y}
  BY <1>4 DEF Places
<1>8. CASE e = x
  <2>1. y = s /\ types \cap LocalType # {} /\ t = "LOCAL_UDP"
    BY <1>2, <1>4, <1>5, <1>8
  <2> QED
    BY <1>2, <1>4, <1>6, <1>8, <2>1
<1>9. CASE e = y
  <2>1. x = s /\ types \cap LocalType # {} /\ t = "LOCAL_UDP"
    BY <1>2, <1>4, <1>5, <1>9
  <2> QED
    BY <1>2, <1>4, <1>6, <1>9, <2>1
<1> QED
  BY <1>7, <1>8, <1>9

(* A client that is asked has a socket afterwards, if it has the TunnelConnect *)
LEMMA AskRead ==
  ASSUME CoreInv, NEW s \in Session, NEW e \in Session, Reads(s),
         Head(toClient[s]) \in UdpAsks(s, e), m_tunnels'[s][e].on
  PROVE  m_tunnels'[s][e].udp
<1> DEFINE h == Head(toClient[s])
<1>1. h.kind = "InitTunnel" /\ h.type = "LOCAL_UDP" /\ h.ext = e
  BY DEF UdpAsks
<1>2. NotFound(s) \/ CreateLocalUDPSocket(s)
  BY <1>1 DEF Reads, ClientHandler, OnInitTunnelStarted, CreateLocalListenThread,
     InitExternalConnectThread, CreateRelayConnectThread, OnTryConnectTo, InitMsg, FromServer,
     RelayType
<1>3. CASE CreateLocalUDPSocket(s)
  <2> DEFINE u == [m_tunnels[s][e] EXCEPT !.udp = TRUE]
  <2>1. Tunnel(s, e, u) /\ Clients
    BY <1>1, <1>3 DEF CreateLocalUDPSocket, CoreInv, TypeInv
  <2>2. m_tunnels[s][e] \in ClientRecord
    BY <2>1 DEF Clients
  <2>3. u.udp
    BY <2>2, Fields
  <2> HIDE DEF u
  <2> QED
    BY <2>1, <2>3, EntryIs
<1>4. ~NotFound(s)
  BY <1>1 DEF NotFound, InitMsg, client
<1> QED
  BY <1>2, <1>3, <1>4

-----------------------------------------------------------------------------
(* Whoever will be told to connect over UDP has the socket, or is still to be asked for
   it, or has no TunnelConnect; and then it is not connecting and not connected      *)
Ready(s, e) ==
  \/ Places(toClient[s], UdpAsks(s, e)) # {}
  \/ m_tunnels[s][e].udp
  \/ ~m_tunnels[s][e].on /\ Told1(s) = {}

KindInv == \A l \in LinkId : link[l].type = "LOCAL_UDP" => link[l].srv = NoId

Connects(s, e) ==
  \/ \E l \in LinkId : Over(l, s, e)
  \/ \E c \in connecting[s] : c.type = "LOCAL_UDP" /\ c.ext = e

UdpInv ==
  started <= 1 => \A s, e \in Session : s # e /\ Chain(s, e) > 0 =>
    Ready(s, e) /\ ~Connects(s, e)

LEMMA KindStep ==
  ASSUME CoreInv, KindInv, Next
  PROVE  KindInv'
BY LinkMovesStep DEF KindInv, LinkMoves, KindMove

(* With nothing started there is no socket and nothing connects *)
LEMMA NotStarted ==
  ASSUME OnceInv, started = 0, NEW s \in Session, NEW e \in Session
  PROVE  ~Connects(s, e) /\ toClient[s] = <<>>
BY DEF OnceInv, Untouched, Connects, Over

LEMMA ConnectsStep ==
  ASSUME CoreInv, KindInv, Next, NEW s \in Session, NEW e \in Session, s # e, Connects(s, e)'
  PROVE  \/ Connects(s, e)
         \/ Reads(s) /\ Head(toClient[s]) \in UdpTold(s, e)
<1>1. LinkMoves /\ ThreadMoves
  BY LinkMovesStep, ThreadStep
<1>2. CASE \E l \in LinkId : Over(l, s, e)'
  BY <1>1, <1>2 DEF LinkMoves, KindMove, KindInv, Connects
<1>3. ASSUME NEW c \in connecting'[s], c.type = "LOCAL_UDP", c.ext = e,
             c \notin connecting[s]
      PROVE  Reads(s) /\ Head(toClient[s]) \in UdpTold(s, e)
  <2>1. /\ Reads(s) /\ Head(toClient[s]).ext = e
        /\ Head(toClient[s]).kind = "TryConnectTo" /\ Head(toClient[s]).type = "LOCAL_UDP"
    BY <1>1, <1>3 DEF ThreadMoves, ThreadMove, RelayType
  <2>2. Head(toClient[s]) \in ToClientMsg(s)
    BY <2>1, Front DEF Reads, CoreInv, TypeInv, Wires
  <2> QED
    BY <2>1, <2>2 DEF UdpTold
<1> QED
  BY <1>2, <1>3 DEF Connects

(* What the client is asked stays in its stream until it reads it *)
LEMMA AskedStays ==
  ASSUME CoreInv, CoreInv', MailMoves, started' = started, NEW s \in Session,
         NEW e \in Session, Places(toClient[s], UdpAsks(s, e)) # {},
         Places(toClient'[s], UdpAsks(s, e)) = {}
  PROVE  Reads(s) /\ Head(toClient[s]) \in UdpAsks(s, e)
<1> DEFINE q == toClient[s]
           K == UdpAsks(s, e)
<1>1. q \in Seq(ToClientMsg(s)) /\ Wires' /\ DOMAIN toClient = Session
  BY DEF CoreInv, TypeInv, Wires
<1>2. ~GetsOne(s)
  <2>1. ASSUME GetsOne(s) PROVE FALSE
    <3>1. PICK m \in ToClientMsg(s) : toClient'[s] = Append(q, m)
      BY <1>1, <2>1, OneMessage
    <3> HIDE DEF K
    <3>2. Places(q, K) \subseteq Places(toClient'[s], K)
      BY <1>1, <3>1, PlacesStay
    <3> QED
      BY <3>2 DEF K
  <2> QED
    BY <2>1
<1>3. ~GetsStarted(s) /\ toClient'[s] # q
  BY DEF GetsStarted, CoreInv, TypeInv, Rest
<1>4. Reads(s)
  BY <1>2, <1>3 DEF MailMoves
<1>5. toClient'[s] = Tail(q) /\ q # <<>>
  BY <1>1, <1>4 DEF Reads
<1> HIDE DEF K
<1>6. PICK j \in Places(q, K) : TRUE
  BY DEF K
<1>7. j = 1
  BY <1>1, <1>5, <1>6, PlacesStay DEF K
<1>8. Head(q) \in K
  BY <1>1, <1>5, <1>6, <1>7 DEF Places
<1> QED
  BY <1>4, <1>8 DEF K

(* An entry loses the socket only to a tunnel, or is gone *)
LEMMA SocketGoes ==
  ASSUME CoreInv, NEW s \in Session, NEW e \in Session, EntryMove(s, e),
         m_tunnels[s][e].udp, ~m_tunnels'[s][e].udp
  PROVE  Connects(s, e) \/ ~m_tunnels'[s][e].on
<1> DEFINE t == m_tunnels[s][e]
           u == m_tunnels'[s][e]
           n == stale[s][e]
           k == stale'[s][e]
<1>1. t \in ClientRecord
  BY DEF CoreInv, TypeInv, Clients
<1>2. t.on
  BY <1>1, Idle
<1>3. ASSUME NEW l \in LinkId, OnAddLocalUDPConnector(s, l), link[l].end[e] # "none"
      PROVE  Connects(s, e)
  BY <1>3 DEF Connects, Over, OnAddLocalUDPConnector, OnAddConnector
<1>4. ~NoTunnel.on
  BY DEF NoTunnel
<1> HIDE DEF t, u, n, k
<1>5. t.udp /\ ~u.udp
  BY DEF t, u
<1>6. ~EntryRead(s, e, t, u, n, k)
  BY <1>2, <1>5 DEF EntryRead
<1>7. ASSUME EntryGoesOn(s, e, t, u, n, k) PROVE Connects(s, e) \/ ~u.on
  <2>1. \/ u = NoTunnel
        \/ \E l \in LinkId : OnAddLocalUDPConnector(s, l) /\ link[l].end[e] # "none"
    BY <1>5, <1>7 DEF EntryGoesOn
  <2> QED
    BY <1>3, <1>4, <2>1
<1> QED
  BY <1>5, <1>6, <1>7 DEF EntryMove, t, u, n, k

LEMMA ReadyStep ==
  ASSUME CoreInv, CoreInv', OnceInv, KindInv, Next, started = 1, started' = started,
         NEW s \in Session, NEW e \in Session, Ready(s, e), ~Connects(s, e)
  PROVE  Ready(s, e)'
<1>1. MailMoves /\ EntryMove(s, e)
  BY MailStep, EntriesStep DEF EntriesMove
<1>2. Told1(s)' \subseteq Told1(s) /\ (Told1(s)' # {} => ~Reads(s))
  <2>1. Told1(s) \subseteq {1}
    BY DEF OnceInv
  <2> QED
    BY <1>1, <2>1, Told1Stays DEF MailMoves
<1>3. UdpAsks(s, e)' = UdpAsks(s, e)
  BY DEF UdpAsks, ToClientMsg
<1>4. CASE Places(toClient[s], UdpAsks(s, e)) # {}
  <2>1. CASE Places(toClient'[s], UdpAsks(s, e)) # {}
    BY <1>3, <2>1 DEF Ready, Places
  <2>2. CASE Places(toClient'[s], UdpAsks(s, e)) = {}
    <3>1. Reads(s) /\ Head(toClient[s]) \in UdpAsks(s, e)
      BY <1>1, <1>4, <2>2, AskedStays
    <3>2. m_tunnels'[s][e].on => m_tunnels'[s][e].udp
      BY <3>1, AskRead
    <3> QED
      BY <1>2, <3>1, <3>2 DEF Ready
  <2> QED
    BY <2>1, <2>2
<1>5. CASE m_tunnels[s][e].udp
  <2>1. Told1(s) = {}
    BY <1>5 DEF OnceInv, Untouched, NoTunnel
  <2>2. m_tunnels'[s][e].udp \/ ~m_tunnels'[s][e].on
    BY <1>1, <1>5, SocketGoes
  <2> QED
    BY <1>2, <2>1, <2>2 DEF Ready
<1>6. CASE ~m_tunnels[s][e].on /\ Told1(s) = {}
  <2>1. ~m_tunnels'[s][e].on
    <3>1. ASSUME m_tunnels'[s][e].on PROVE FALSE
      <4>1. Reads(s) /\ Head(toClient[s]).kind = "InitTunnelStarted"
        BY <1>1, <1>6, <3>1, EntryOn
      <4>2. 1 \in Told1(s)
        BY <4>1, JustTold
      <4> QED
        BY <1>6, <4>2
    <3> QED
      BY <3>1
  <2> QED
    BY <1>2, <1>6, <2>1 DEF Ready
<1> QED
  BY <1>4, <1>5, <1>6 DEF Ready

LEMMA UdpStep ==
  ASSUME CoreInv, CoreInv', OnceInv, KindInv, ChainInv, UdpInv, Next
  PROVE  UdpInv'
<1> SUFFICES ASSUME started' <= 1, NEW s \in Session, NEW e \in Session, s # e,
                    Chain(s, e)' > 0
             PROVE  Ready(s, e)' /\ ~Connects(s, e)'
  BY DEF UdpInv
<1>1. /\ started \in Nat /\ started' \in Nat
      /\ Chain(s, e) \in Nat /\ Chain(s, e)' \in Nat /\ Chain(s, e) <= started
  BY ChainTypes, ChainTypesNext DEF ChainInv, CoreInv, TypeInv, Rest
<1>2. /\ \/ Chain(s, e)' <= Chain(s, e) /\ StartedOnly
         \/ /\ started' = started + 1
            /\ Chain(s, e)' <= Chain(s, e) \/ ~(Asked(e, s)' <= Asked(e, s))
      /\ Reads(s) /\ Head(toClient[s]) \in UdpTold(s, e) => Chain(s, e)' <= Chain(s, e) - 1
  BY ChainMoves
<1>3. MailMoves
  BY MailStep
<1>4. CASE started' = started
  <2>1. started = 1 /\ Chain(s, e) > 0
    BY <1>1, <1>2, <1>4
  <2>2. Ready(s, e) /\ ~Connects(s, e)
    BY <2>1 DEF UdpInv
  <2>3. ~(Reads(s) /\ Head(toClient[s]) \in UdpTold(s, e))
    BY <1>1, <1>2, <2>1
  <2>4. ~Connects(s, e)'
    BY <2>2, <2>3, ConnectsStep
  <2> QED
    BY <1>4, <2>1, <2>2, <2>4, ReadyStep
<1>5. CASE started' # started
  <2>1. started = 0
    BY <1>1, <1>2, <1>5 DEF StartedOnly
  <2>2. ~Connects(s, e) /\ \A x \in Session : toClient[x] = <<>>
    BY <2>1, NotStarted
  <2>3. ~Connects(s, e)'
    BY <2>2, ConnectsStep DEF Reads
  <2>4. ~(Asked(e, s)' <= Asked(e, s)) /\ Asked(e, s) \in Nat /\ Asked(e, s)' \in Nat
    BY <1>1, <1>2, <2>1, ChainTypes, ChainTypesNext
  <2>5. Asked(e, s)' > 0
    BY <2>4
  <2>6. Places(toClient'[e], UdpAsks(e, s)) # {}
    <3>1. Asked(e, s)' = Cardinality(Places(toClient'[e], UdpAsks(e, s)))
      BY DEF Asked, UdpAsks, ToClientMsg, Places
    <3> QED
      BY <2>5, <3>1, FS_EmptySet
  <2>7. Places(toClient'[s], UdpAsks(s, e)) # {}
    BY <1>5, <2>2, <2>6, AskBoth
  <2>8. Ready(s, e)'
    BY <2>7 DEF Ready, UdpAsks, ToClientMsg, Places
  <2> QED
    BY <2>3, <2>8
<1> QED
  BY <1>4, <1>5

(* The socket is there when it is used *)
LEMMA SocketThere ==
  ASSUME CoreInv, OnceInv, AsksFirst, ChainInv, UdpInv, started <= 1, NEW s \in Session,
         Reads(s), NEW e \in Session, Head(toClient[s]) \in UdpTold(s, e),
         m_tunnels[s][e].on
  PROVE  m_tunnels[s][e].udp
<1> DEFINE q == toClient[s]
<1>1. q \in Seq(ToClientMsg(s)) /\ q # <<>> /\ Head(q).kind = "TryConnectTo"
        /\ Head(q).ext = e
  BY DEF Reads, UdpTold, CoreInv, TypeInv, Wires
<1>2. s # e
  BY <1>1, Front, ToClientMsgs
<1>3. Chain(s, e) > 0
  <2>1. 1 \in Places(q, UdpTold(s, e))
    BY <1>1, PlaceCounts
  <2>2. Passed(s, e) >= 1
    BY <1>1, <2>1, PlaceCounts DEF Passed
  <2> QED
    BY <2>2, ChainTypes DEF Chain
<1>4. Ready(s, e)
  BY <1>2, <1>3 DEF UdpInv
<1>5. ASSUME NEW j \in Places(q, UdpAsks(s, e)) PROVE FALSE
  <2>1. j \in Places(q, Locals(s))
    BY <1>5 DEF Places, UdpAsks, Locals, LocalType
  <2>2. j = 1 \/ 1 \in Told1(s)
    BY <2>1 DEF AsksFirst
  <2>3. q[1] = Head(q)
    BY <1>1
  <2>4. j # 1
    BY <1>1, <1>5, <2>3 DEF Places, UdpAsks
  <2>5. 1 \notin Told1(s)
    BY <1>1, <2>3 DEF Told1, Places, Starts
  <2> QED
    BY <2>2, <2>4, <2>5
<1> QED
  BY <1>4, <1>5 DEF Ready

-----------------------------------------------------------------------------
(* Through an external address: a client is asked about its entry's own server *)
GoodMsg(s) ==
  {m \in ToClientMsg(s) : m.kind = "InitTunnel" /\ m.type = "EXTERNAL" =>
     m_servers[m.srv].pc # "none" /\ Ends(m.srv) = {s, m.ext}}

ServersNamed ==
  \A s \in Session :
    /\ toClient[s] \in Seq(GoodMsg(s))
    /\ \A e \in Session : m_tunnels[s][e].ext = "probe" =>
         \E i \in ServerId : /\ m_tunnels[s][e].srv = i
                             /\ m_servers[i].pc # "none" /\ Ends(i) = {s, e}

LEMMA NamedInit == Init => ServersNamed
BY DEF Init, ServersNamed, NoTunnel

LEMMA ServerStays ==
  ASSUME ServersMove, NEW i \in ServerId, m_servers[i].pc # "none"
  PROVE  m_servers'[i].pc # "none" /\ Ends(i)' = Ends(i)
BY DEF ServersMove, Moves, Ends

LEMMA GoodStays ==
  ASSUME CoreInv, ServersMove, NEW s \in Session
  PROVE  GoodMsg(s) \subseteq GoodMsg(s)'
<1> SUFFICES ASSUME NEW m \in GoodMsg(s) PROVE m \in GoodMsg(s)'
  OBVIOUS
<1>1. m \in ToClientMsg(s) /\ ToClientMsg(s)' = ToClientMsg(s)
  BY DEF GoodMsg, ToClientMsg
<1>2. CASE m.kind = "InitTunnel" /\ m.type = "EXTERNAL"
  <2>1. m.srv \in ServerId /\ m_servers[m.srv].pc # "none" /\ Ends(m.srv) = {s, m.ext}
    BY <1>1, <1>2, ToClientMsgs DEF GoodMsg, Named, LocalType
  <2>2. m_servers'[m.srv].pc # "none" /\ Ends(m.srv)' = {s, m.ext}
    BY <2>1, ServerStays
  <2> QED
    BY <1>1, <2>2 DEF GoodMsg
<1> QED
  BY <1>1, <1>2 DEF GoodMsg

LEMMA GoodServer ==
  ASSUME CoreInv, NEW s \in Session, NEW i \in ServerId, m_servers[i].pc # "none",
         s \in Ends(i)
  PROVE  OtherEnd(i, s) \in Session \ {s} /\ Ends(i) = {s, OtherEnd(i, s)}
<1>1. m_servers[i].one # m_servers[i].two /\ Ends(i) \subseteq Session
  BY DEF CoreInv, TypeInv, Servers, ServerRecord, ServersOK, ServerOK, Ends
<1>2. OtherEnd(i, s) \in Ends(i) \ {s}
  BY <1>1, TwoEnds
<1> QED
  BY <1>1, <1>2 DEF Ends

LEMMA NamedStep ==
  ASSUME CoreInv, CoreInv', ServersNamed, Next
  PROVE  ServersNamed'
<1>1. MailMoves /\ EntriesMove /\ ServersMove
  BY MailStep, EntriesStep, ServersStep DEF CoreInv, ServersKept
<1>2. ASSUME NEW s \in Session PROVE toClient'[s] \in Seq(GoodMsg(s)')
  <2> DEFINE q == toClient[s]
             G == GoodMsg(s)'
  <2>1. q \in Seq(G)
    <3>1. q \in Seq(GoodMsg(s)) /\ GoodMsg(s) \subseteq G
      BY <1>1, GoodStays DEF ServersNamed
    <3> HIDE DEF q, G
    <3> QED
      BY <3>1
  <2>2. ToClientMsg(s)' = ToClientMsg(s) /\ DOMAIN toClient = Session
    BY DEF ToClientMsg, CoreInv, TypeInv, Wires
  <2>3. \A m \in ToClientMsg(s) :
          ~(m.kind = "InitTunnel" /\ m.type = "EXTERNAL") => m \in G
    BY <2>2 DEF GoodMsg
  <2>4. toClient'[s] \in Seq(ToClientMsg(s))
    BY DEF CoreInv, TypeInv, Wires
  <2>5. CASE GetsOne(s)
    <3>1. PICK m \in ToClientMsg(s) : toClient'[s] = Append(q, m) /\
            \/ m.kind = "TryConnectTo"
            \/ \E i \in ServerId : /\ RelayAnnounce(i) \/ ExternalListen(i)
                                   /\ s \in Ends(i) /\ m = ServerMsg(i, OtherEnd(i, s))
      <4>1. ASSUME GetsTry(s) \/ GetsAddress(s)
            PROVE  \E x, t, p : toClient'[s] = Append(q, TryMsg(x, t, p))
        BY <4>1 DEF GetsTry, GetsAddress
      <4>2. \A x, t, p : TryMsg(x, t, p).kind = "TryConnectTo"
        BY DEF TryMsg
      <4>3. \A m : toClient'[s] = Append(q, m) => m \in ToClientMsg(s)
        BY <2>1, <2>4, LastMessage
      <4> HIDE DEF q
      <4>4. CASE GetsTry(s) \/ GetsAddress(s)
        BY <4>1, <4>2, <4>3, <4>4
      <4>5. CASE GetsServer(s)
        <5>1. PICK i \in ServerId : /\ RelayAnnounce(i) \/ ExternalListen(i)
                                    /\ s \in Ends(i)
                                    /\ toClient'[s] = Append(q, ServerMsg(i, OtherEnd(i, s)))
          BY <4>5 DEF GetsServer, q
        <5> QED
          BY <4>3, <5>1
      <4> QED
        BY <2>5, <4>4, <4>5 DEF GetsOne
    <3>2. ASSUME NEW i \in ServerId, RelayAnnounce(i) \/ ExternalListen(i), s \in Ends(i),
                 m = ServerMsg(i, OtherEnd(i, s))
          PROVE  m \in G
      <4>1. m_servers[i].pc # "none"
        BY <3>2 DEF RelayAnnounce, ExternalListen
      <4>2. Ends(i) = {s, m.ext} /\ m.srv = i
        BY <3>2, <4>1, GoodServer DEF ServerMsg
      <4>3. m_servers'[i].pc # "none" /\ Ends(i)' = {s, m.ext}
        BY <1>1, <4>1, <4>2, ServerStays
      <4> QED
        BY <2>2, <4>2, <4>3 DEF GoodMsg
    <3>3. m \in G
      BY <2>3, <3>1, <3>2
    <3> HIDE DEF q, G
    <3>4. toClient'[s] \in Seq(G)
      BY <2>1, <3>1, <3>3
    <3> QED
      BY <3>4 DEF G
  <2>6. CASE GetsStarted(s)
    <3>1. PICK x \in Session \ {s} :
            \/ toClient'[s] = Append(q, InitTunnelStarted(x))
            \/ \E t \in LocalType :
                 toClient'[s] = Append(Append(q, InitTunnelStarted(x)), LocalMsg(x, t))
      BY <2>6 DEF GetsStarted
    <3> DEFINE a == InitTunnelStarted(x)
               r == Append(q, a)
    <3>2. a \in ToClientMsg(s) /\ a.kind = "InitTunnelStarted"
      BY DEF InitTunnelStarted, ToClientMsg
    <3>3. a \in G
      BY <2>3, <3>2
    <3>4. \A t \in LocalType : LocalMsg(x, t) \in G
      <4>1. \A t \in LocalType : LocalMsg(x, t) \in ToClientMsg(s)
                                   /\ LocalMsg(x, t).type # "EXTERNAL"
        BY DEF LocalMsg, ToClientMsg, LocalType, AllType
      <4> QED
        BY <2>3, <4>1
    <3> HIDE DEF a, G, q
    <3>5. r \in Seq(G)
      BY <2>1, <3>3
    <3> HIDE DEF r
    <3>6. toClient'[s] = r \/ \E t \in LocalType : toClient'[s] = Append(r, LocalMsg(x, t))
      BY <3>1 DEF r, a
    <3>7. toClient'[s] \in Seq(G)
      BY <3>4, <3>5, <3>6
    <3> QED
      BY <3>7 DEF G
  <2>7. CASE Reads(s)
    <3>1. toClient'[s] = Tail(q) /\ q # <<>>
      BY <2>2, <2>7 DEF Reads
    <3> HIDE DEF q, G
    <3>2. toClient'[s] \in Seq(G)
      BY <2>1, <3>1
    <3> QED
      BY <3>2 DEF G
  <2>8. CASE toClient'[s] = q
    BY <2>1, <2>8
  <2> QED
    BY <1>1, <2>5, <2>6, <2>7, <2>8 DEF MailMoves
<1>3. ASSUME NEW s \in Session, NEW e \in Session, m_tunnels'[s][e].ext = "probe"
      PROVE  \E i \in ServerId : /\ m_tunnels'[s][e].srv = i
                                 /\ m_servers'[i].pc # "none" /\ Ends(i)' = {s, e}
  <2> DEFINE t == m_tunnels[s][e]
             u == m_tunnels'[s][e]
             n == stale[s][e]
             k == stale'[s][e]
             h == Head(toClient[s])
  <2>1. EntryMove(s, e)
    BY <1>1 DEF EntriesMove
  <2>2. NoTunnel.ext = "none" /\ NewTunnel.ext = "none"
    BY DEF NoTunnel, NewTunnel
  <2> HIDE DEF t, u, n, k, h
  <2>3. u.ext = "probe"
    BY <1>3 DEF u
  <2>4. ASSUME EntryRead(s, e, t, u, n, k)
        PROVE  \/ t.ext = "probe" /\ u.srv = t.srv
               \/ /\ Reads(s) /\ h.kind = "InitTunnel" /\ h.type = "EXTERNAL" /\ h.ext = e
                  /\ u.srv = h.srv
    BY <2>2, <2>3, <2>4 DEF EntryRead, h
  <2>5. ASSUME EntryGoesOn(s, e, t, u, n, k)
        PROVE  t.ext = "probe" /\ u.srv = t.srv
    BY <2>2, <2>3, <2>5 DEF EntryGoesOn
  <2>6. \/ t.ext = "probe" /\ u.srv = t.srv
        \/ /\ Reads(s) /\ h.kind = "InitTunnel" /\ h.type = "EXTERNAL" /\ h.ext = e
           /\ u.srv = h.srv
    BY <2>1, <2>3, <2>4, <2>5 DEF EntryMove, t, u, n, k
  <2>7. \E i \in ServerId : u.srv = i /\ m_servers[i].pc # "none" /\ Ends(i) = {s, e}
    <3>1. CASE t.ext = "probe" /\ u.srv = t.srv
      BY <3>1 DEF ServersNamed, t
    <3>2. CASE Reads(s) /\ h.kind = "InitTunnel" /\ h.type = "EXTERNAL" /\ h.ext = e
                 /\ u.srv = h.srv
      <4>1. toClient[s] \in Seq(GoodMsg(s)) /\ toClient[s] # <<>>
        BY <3>2 DEF ServersNamed, Reads
      <4>2. h \in GoodMsg(s)
        BY <4>1, Front DEF h
      <4>3. h \in ToClientMsg(s)
        BY <4>2 DEF GoodMsg
      <4>4. h.srv \in ServerId
        BY <3>2, <4>3, ToClientMsgs DEF Named, LocalType
      <4> QED
        BY <3>2, <4>2, <4>4 DEF GoodMsg
    <3> QED
      BY <2>6, <3>1, <3>2
  <2>8. PICK i \in ServerId : u.srv = i /\ m_servers[i].pc # "none" /\ Ends(i) = {s, e}
    BY <2>7
  <2>9. m_servers'[i].pc # "none" /\ Ends(i)' = {s, e}
    BY <1>1, <2>8, ServerStays
  <2> QED
    BY <2>8, <2>9 DEF u
<1> QED
  BY <1>2, <1>3 DEF ServersNamed

(* One negotiation tells a client an external address once *)
ExtTold(s, e) ==
  {m \in ToClientMsg(s) : m.kind = "TryConnectTo" /\ m.type = "EXTERNAL" /\ m.ext = e}
ExtTries(s) == {m \in ToClientMsg(s) : m.kind = "TryConnectTo" /\ m.type = "EXTERNAL"}

Gathers == \E i \in ServerId : i[2] = "EXTERNAL" /\ Waits(m_servers[i])
ExtThread(s) == \E c \in connecting[s] : c.type = "EXTERNAL"
One(b) == IF b THEN 1 ELSE 0

Trying(s) == Cardinality(Places(toClient[s], ExtTries(s)))

ExtLoad(s) == One(Gathers) + Trying(s) + One(ExtThread(s))

ExtOnce == started <= 1 => \A s \in Session : ExtLoad(s) <= 1

LEMMA TryingMoves ==
  ASSUME CoreInv, CoreInv', MailMoves, NEW s \in Session
  PROVE  /\ Trying(s) \in Nat /\ Trying(s)' \in Nat
         /\ \/ Trying(s)' <= Trying(s)
            \/ GetsAddress(s) /\ Trying(s)' <= Trying(s) + 1
         /\ Reads(s) /\ Head(toClient[s]) \in ExtTries(s) => Trying(s)' <= Trying(s) - 1
<1> DEFINE q == toClient[s]
           K == ExtTries(s)
<1>1. /\ q \in Seq(ToClientMsg(s)) /\ toClient'[s] \in Seq(ToClientMsg(s))
      /\ DOMAIN toClient = Session
  BY DEF CoreInv, TypeInv, Wires
<1>2. Trying(s) = Cardinality(Places(q, K))
        /\ Trying(s)' = Cardinality(Places(toClient'[s], K))
  BY DEF Trying, ExtTries, ToClientMsg, Places
<1>3. Trying(s) \in Nat /\ Trying(s)' \in Nat
  BY <1>1, <1>2, PlacesFinite
<1>4. ASSUME Reads(s)
      PROVE  /\ Trying(s)' <= Trying(s)
             /\ Head(q) \in K => Trying(s)' <= Trying(s) - 1
  <2>1. toClient'[s] = Tail(q) /\ q # <<>>
    BY <1>1, <1>4 DEF Reads
  <2> QED
    BY <1>1, <1>2, <2>1, FewerPlaces
<1>5. ASSUME NEW m, toClient'[s] = Append(q, m)
      PROVE  /\ Trying(s)' <= Trying(s) + 1
             /\ m \notin K => Trying(s)' = Trying(s)
  <2>1. m \in ToClientMsg(s)
    BY <1>1, <1>5, LastMessage
  <2> HIDE DEF K
  <2> QED
    BY <1>1, <1>2, <1>5, <2>1, MorePlaces
<1>6. ASSUME GetsTry(s) PROVE Trying(s)' <= Trying(s)
  <2>1. PICK x \in Session \ {s} : LET m == Head(toServer[x]) IN
          m.type \in LocalType /\ toClient'[s] = Append(q, TryMsg(x, m.type, m.port))
    BY <1>6 DEF GetsTry
  <2> DEFINE h == Head(toServer[x])
             m == TryMsg(x, h.type, h.port)
  <2>2. m \notin K
    BY <2>1 DEF TryMsg, ExtTries, LocalType
  <2>3. toClient'[s] = Append(q, m)
    BY <2>1
  <2> HIDE DEF m, h, K
  <2> QED
    BY <1>3, <1>5, <2>2, <2>3
<1>7. ASSUME GetsServer(s) PROVE Trying(s)' <= Trying(s)
  <2>1. PICK i \in ServerId : toClient'[s] = Append(q, ServerMsg(i, OtherEnd(i, s)))
    BY <1>7 DEF GetsServer
  <2> DEFINE m == ServerMsg(i, OtherEnd(i, s))
  <2>2. m \notin K
    BY DEF ServerMsg, ExtTries
  <2> HIDE DEF K
  <2> QED
    BY <1>3, <1>5, <2>1, <2>2
<1>8. ASSUME GetsAddress(s) PROVE Trying(s)' <= Trying(s) + 1
  <2>1. PICK i \in ServerId :
          toClient'[s] = Append(q, TryMsg(OtherEnd(i, s), "EXTERNAL", 0))
    BY <1>8 DEF GetsAddress
  <2> QED
    BY <1>5, <2>1
<1>9. ASSUME GetsStarted(s) PROVE Trying(s)' <= Trying(s)
  <2>1. PICK x \in Session \ {s} :
          \/ toClient'[s] = Append(q, InitTunnelStarted(x))
          \/ \E t \in LocalType :
               toClient'[s] = Append(Append(q, InitTunnelStarted(x)), LocalMsg(x, t))
    BY <1>9 DEF GetsStarted
  <2> DEFINE a == InitTunnelStarted(x)
             r == Append(q, a)
  <2>2. a \in ToClientMsg(s) /\ a \notin K
    BY DEF InitTunnelStarted, ToClientMsg, ExtTries
  <2>3. \A t \in LocalType : LocalMsg(x, t) \in ToClientMsg(s) /\ LocalMsg(x, t) \notin K
    BY DEF LocalMsg, ToClientMsg, ExtTries, LocalType, AllType
  <2> HIDE DEF a, K
  <2>4. r \in Seq(ToClientMsg(s)) /\ Cardinality(Places(r, K)) = Cardinality(Places(q, K))
    BY <1>1, <2>2, MorePlaces
  <2> HIDE DEF r
  <2>5. \A t \in LocalType : Cardinality(Places(Append(r, LocalMsg(x, t)), K))
                                = Cardinality(Places(q, K))
    BY <2>3, <2>4, MorePlaces
  <2>6. toClient'[s] = r \/ \E t \in LocalType : toClient'[s] = Append(r, LocalMsg(x, t))
    BY <2>1 DEF a, r
  <2>7. Trying(s)' = Trying(s)
    BY <1>2, <2>4, <2>5, <2>6
  <2> QED
    BY <1>3, <2>7
<1>10. toClient'[s] = q => Trying(s)' <= Trying(s)
  BY <1>2, <1>3
<1>11. Trying(s)' <= Trying(s) \/ (GetsAddress(s) /\ Trying(s)' <= Trying(s) + 1)
  BY <1>4, <1>6, <1>7, <1>8, <1>9, <1>10 DEF MailMoves, GetsOne
<1> QED
  BY <1>3, <1>4, <1>11

(* The only external server of the first negotiation *)
LEMMA OnlyServer ==
  ASSUME CoreInv, started <= 1, NEW i \in ServerId, NEW k \in ServerId,
         i[2] = "EXTERNAL", k[2] = "EXTERNAL", m_servers[i].pc # "none",
         m_servers[k].pc # "none"
  PROVE  i = k
<1>1. started \in Nat /\ ~(i[1] > started) /\ ~(k[1] > started)
  BY DEF CoreInv, ServersOK, TypeInv, Rest
<1>2. i[1] \in 1..MaxInit /\ k[1] \in 1..MaxInit /\ i = <<i[1], i[2]>> /\ k = <<k[1], k[2]>>
  BY DEF ServerId
<1>3. i[1] = 1 /\ k[1] = 1
  BY <1>1, <1>2, TunnelAssumption
<1> QED
  BY <1>2, <1>3

LEMMA AddressesOnce ==
  ASSUME CoreInv, CoreInv', started' <= 1, started' = started, Next, NEW s \in Session,
         GetsAddress(s)
  PROVE  Gathers /\ ~Gathers'
<1>1. PICK i \in ServerId : GotExternalAddresses(i)
  BY DEF GetsAddress
<1>2. i[2] = "EXTERNAL" /\ m_servers[i].pc = "address" /\ m_servers'[i].pc = "end"
  <2>1. m_servers \in [ServerId -> ServerRecord]
    BY DEF CoreInv, TypeInv, Servers
  <2> DEFINE r == [m_servers[i] EXCEPT !.pc = "end"]
  <2>2. r.pc = "end"
    BY <2>1 DEF ServerRecord
  <2>3. Server(i, r) /\ i[2] = "EXTERNAL" /\ m_servers[i].pc = "address"
    BY <1>1 DEF GotExternalAddresses
  <2> HIDE DEF r
  <2> QED
    BY <2>1, <2>2, <2>3 DEF Server
<1>3. ASSUME NEW k \in ServerId, k[2] = "EXTERNAL", Waits(m_servers'[k]) PROVE FALSE
  <2>1. m_servers'[k].pc # "none" /\ m_servers'[k].pc # "end"
    BY <1>3 DEF Waits
  <2>2. k # i
    BY <1>2, <2>1
  <2>3. AddressMoves
    BY AddressStep
  <2>4. started \in Nat
    BY DEF CoreInv, TypeInv, Rest
  <2>5. Waits(m_servers[k])
    BY <1>3, <2>3, <2>4 DEF AddressMoves
  <2>6. m_servers[k].pc # "none" /\ m_servers[i].pc # "none"
    BY <1>2, <2>5 DEF Waits
  <2> QED
    BY <1>2, <1>3, <2>2, <2>6, OnlyServer
<1> QED
  BY <1>2, <1>3 DEF Gathers, Waits

LEMMA ExtOnceInit == Init => ExtOnce
<1> SUFFICES ASSUME Init, NEW s \in Session PROVE ExtLoad(s) <= 1
  BY DEF ExtOnce
<1>1. ~Gathers /\ ~ExtThread(s)
  BY DEF Init, Gathers, Waits, ExtThread, NoServer
<1>2. Trying(s) = 0
  <2>1. Places(toClient[s], ExtTries(s)) = {}
    BY DEF Init, Places
  <2> QED
    BY <2>1, FS_EmptySet DEF Trying
<1> QED
  BY <1>1, <1>2 DEF ExtLoad, One

LEMMA ExtOnceStep ==
  ASSUME CoreInv, CoreInv', OnceInv, ExtOnce, Next
  PROVE  ExtOnce'
<1> SUFFICES ASSUME started' <= 1, NEW s \in Session PROVE ExtLoad(s)' <= 1
  BY DEF ExtOnce
<1>1. MailMoves /\ ThreadMoves /\ AddressMoves
  BY MailStep, ThreadStep, AddressStep
<1>2. /\ Trying(s) \in Nat /\ Trying(s)' \in Nat
      /\ \/ Trying(s)' <= Trying(s)
         \/ GetsAddress(s) /\ Trying(s)' <= Trying(s) + 1
      /\ Reads(s) /\ Head(toClient[s]) \in ExtTries(s) => Trying(s)' <= Trying(s) - 1
  BY <1>1, TryingMoves
<1>3. started \in Nat /\ started' \in Nat /\ (started' = started \/ started' = started + 1)
  BY NextRest DEF RestMoves, CoreInv, TypeInv, Rest
<1>4. ASSUME ExtThread(s)', ~ExtThread(s)
      PROVE  Reads(s) /\ Head(toClient[s]) \in ExtTries(s)
  <2>1. PICK c \in connecting'[s] : c.type = "EXTERNAL"
    BY <1>4 DEF ExtThread
  <2>2. c \notin connecting[s]
    BY <1>4, <2>1 DEF ExtThread
  <2>3. Reads(s) /\ Head(toClient[s]).kind = "TryConnectTo"
          /\ Head(toClient[s]).type = "EXTERNAL"
    BY <1>1, <2>1, <2>2 DEF ThreadMoves, ThreadMove, RelayType
  <2>4. Head(toClient[s]) \in ToClientMsg(s)
    BY <2>3, Front DEF Reads, CoreInv, TypeInv, Wires
  <2> QED
    BY <2>3, <2>4 DEF ExtTries
<1>5. ExtLoad(s) = One(Gathers) + Trying(s) + One(ExtThread(s))
        /\ ExtLoad(s)' = One(Gathers') + Trying(s)' + One(ExtThread(s)')
  BY DEF ExtLoad, One
<1>6. \A b \in BOOLEAN : One(b) \in {0, 1} /\ (b <=> One(b) = 1)
  BY DEF One
<1>7. /\ Gathers \in BOOLEAN /\ Gathers' \in BOOLEAN
      /\ ExtThread(s) \in BOOLEAN /\ ExtThread(s)' \in BOOLEAN
  BY DEF Gathers, ExtThread
<1> DEFINE W == One(Gathers)
           W1 == One(Gathers')
           C == One(ExtThread(s))
           C1 == One(ExtThread(s)')
<1>8. W \in {0, 1} /\ W1 \in {0, 1} /\ C \in {0, 1} /\ C1 \in {0, 1}
  BY <1>6, <1>7
<1>9. (Gathers <=> W = 1) /\ (Gathers' <=> W1 = 1) /\ (ExtThread(s) <=> C = 1)
        /\ (ExtThread(s)' <=> C1 = 1)
  BY <1>6, <1>7
<1>10. C1 <= C \/ (Trying(s)' <= Trying(s) - 1 /\ C1 <= C + 1)
  BY <1>2, <1>4, <1>8, <1>9
<1> HIDE DEF W, W1, C, C1
<1>11. ExtLoad(s) = W + Trying(s) + C /\ ExtLoad(s)' = W1 + Trying(s)' + C1
  BY <1>5 DEF W, W1, C, C1
<1>12. CASE started' = started
  <2>1. W + Trying(s) + C <= 1
    BY <1>11, <1>12 DEF ExtOnce
  <2>2. W1 <= W
    <3>1. Gathers' => Gathers
      BY <1>1, <1>3, <1>12 DEF Gathers, AddressMoves
    <3> QED
      BY <1>8, <1>9, <3>1
  <2>3. CASE GetsAddress(s)
    <3>1. W = 1 /\ W1 = 0
      BY <1>8, <1>9, <1>12, <2>3, AddressesOnce
    <3> QED
      BY <1>2, <1>8, <1>10, <1>11, <2>1, <3>1
  <2>4. CASE ~GetsAddress(s)
    BY <1>2, <1>8, <1>10, <1>11, <2>1, <2>2, <2>4
  <2> QED
    BY <2>3, <2>4
<1>13. CASE started' = started + 1
  <2>1. started = 0
    BY <1>3, <1>13
  <2>2. toClient[s] = <<>> /\ Untouched(s) /\ \A x \in Session : Untouched(x)
    BY <2>1 DEF OnceInv
  <2>3. ~Reads(s) /\ ~GetsAddress(s)
    <3>1. ASSUME GetsAddress(s) PROVE FALSE
      <4>1. PICK i \in ServerId : GotExternalAddresses(i)
        BY <3>1 DEF GetsAddress
      <4>2. m_servers[i].pc = "none"
        BY <2>1 DEF CoreInv, ServersOK, ServerId
      <4> QED
        BY <4>1, <4>2 DEF GotExternalAddresses
    <3> QED
      BY <2>2, <3>1 DEF Reads
  <2>4. C1 = 0
    BY <1>4, <1>8, <1>9, <2>2, <2>3 DEF Untouched, ExtThread
  <2>5. Trying(s)' = 0
    <3>1. Trying(s) = 0
      <4>1. Places(toClient[s], ExtTries(s)) = {}
        BY <2>2 DEF Places
      <4> QED
        BY <4>1, FS_EmptySet DEF Trying
    <3> QED
      BY <1>2, <2>3, <3>1
  <2> QED
    BY <1>8, <1>11, <2>4, <2>5
<1> QED
  BY <1>3, <1>12, <1>13

(* Who is told the address of the other one has an external thread to tell, or no
   TunnelConnect                                                                 *)
Answers(s, e) == Told1(s) = {} /\ (m_tunnels[s][e].on => m_tunnels[s][e].ext # "none")

Gathered(s, e) ==
  \E i \in ServerId : /\ i[2] = "EXTERNAL" /\ Waits(m_servers[i])
                      /\ s \in m_servers[i].addresses /\ Ends(i) = {s, e}

ExtInv ==
  started <= 1 => \A s, e \in Session :
    (Places(toClient[s], ExtTold(s, e)) # {} \/ Gathered(s, e)) => Answers(s, e)

LEMMA AnswersStay ==
  ASSUME CoreInv, CoreInv', OnceInv, Next, started <= 1, started' = started,
         NEW s \in Session, NEW e \in Session, Answers(s, e), ~ExtThread(s)
  PROVE  Answers(s, e)'
<1> DEFINE t == m_tunnels[s][e]
           u == m_tunnels'[s][e]
           n == stale[s][e]
           k == stale'[s][e]
<1>1. MailMoves /\ EntryMove(s, e)
  BY MailStep, EntriesStep DEF EntriesMove
<1>2. Told1(s)' = {}
  BY <1>1, Told1Stays DEF Answers, MailMoves
<1>3. ~t.on => ~u.on
  <2>1. ASSUME ~t.on, u.on PROVE FALSE
    <3>1. Reads(s) /\ Head(toClient[s]).kind = "InitTunnelStarted"
      BY <1>1, <2>1, EntryOn
    <3>2. 1 \in Told1(s)
      BY <3>1, JustTold
    <3> QED
      BY <3>2 DEF Answers
  <2> QED
    BY <2>1
<1>4. t.on => t.ext # "none"
  BY DEF Answers
<1>5. ~\E c \in connecting[s] : OnErrorExternalConnect(s, c) /\ c.ext = e
  BY DEF OnErrorExternalConnect, ExtThread
<1>6. ~NoTunnel.on
  BY DEF NoTunnel
<1> HIDE DEF t, u, n, k
<1>7. ASSUME EntryRead(s, e, t, u, n, k), t.on PROVE u.ext # "none"
  BY <1>4, <1>7 DEF EntryRead
<1>8. ASSUME EntryGoesOn(s, e, t, u, n, k), t.on PROVE ~u.on \/ u.ext # "none"
  BY <1>4, <1>5, <1>6, <1>8 DEF EntryGoesOn
<1>9. u.on => u.ext # "none"
  BY <1>1, <1>3, <1>4, <1>7, <1>8 DEF EntryMove, t, u, n, k
<1> QED
  BY <1>2, <1>9 DEF Answers, u

LEMMA ToldMoves ==
  ASSUME CoreInv, CoreInv', MailMoves, started' = started, NEW s \in Session,
         NEW e \in Session, Places(toClient'[s], ExtTold(s, e)) # {}
  PROVE  \/ Places(toClient[s], ExtTold(s, e)) # {}
         \/ GetsAddress(s) /\ Gathered(s, e)
<1> DEFINE q == toClient[s]
           K == ExtTold(s, e)
<1>1. /\ q \in Seq(ToClientMsg(s)) /\ toClient'[s] \in Seq(ToClientMsg(s))
      /\ DOMAIN toClient = Session
  BY DEF CoreInv, TypeInv, Wires
<1>2. ASSUME NEW m, toClient'[s] = Append(q, m), m \notin K PROVE Places(q, K) # {}
  <2>1. m \in ToClientMsg(s)
    BY <1>1, <1>2, LastMessage
  <2> HIDE DEF K
  <2> QED
    BY <1>1, <1>2, <2>1, PlacesAppend DEF K
<1>3. CASE GetsTry(s)
  <2>1. PICK x \in Session \ {s} : LET m == Head(toServer[x]) IN
          m.type \in LocalType /\ toClient'[s] = Append(q, TryMsg(x, m.type, m.port))
    BY <1>3 DEF GetsTry
  <2> DEFINE h == Head(toServer[x])
             m == TryMsg(x, h.type, h.port)
  <2>2. m \notin K
    BY <2>1 DEF TryMsg, ExtTold, LocalType
  <2>3. toClient'[s] = Append(q, m)
    BY <2>1
  <2> HIDE DEF m, h, K
  <2> QED
    BY <1>2, <2>2, <2>3 DEF K
<1>4. CASE GetsServer(s)
  <2>1. PICK i \in ServerId : toClient'[s] = Append(q, ServerMsg(i, OtherEnd(i, s)))
    BY <1>4 DEF GetsServer
  <2> DEFINE m == ServerMsg(i, OtherEnd(i, s))
  <2>2. m \notin K
    BY DEF ServerMsg, ExtTold
  <2> HIDE DEF K
  <2> QED
    BY <1>2, <2>1, <2>2 DEF K
<1>5. CASE GetsAddress(s)
  <2>1. PICK i \in ServerId :
          /\ GotExternalAddresses(i) /\ s \in Ends(i)
          /\ toClient'[s] = Append(q, TryMsg(OtherEnd(i, s), "EXTERNAL", 0))
    BY <1>5 DEF GetsAddress
  <2> DEFINE x == OtherEnd(i, s)
             m == TryMsg(x, "EXTERNAL", 0)
  <2>2. m \in K => x = e
    BY DEF TryMsg, ExtTold
  <2>3. /\ i[2] = "EXTERNAL" /\ Waits(m_servers[i]) /\ m_servers[i].addresses = Ends(i)
        /\ m_servers[i].pc # "none"
    BY <2>1 DEF GotExternalAddresses, Waits
  <2>4. Ends(i) = {s, x}
    BY <2>1, <2>3, GoodServer
  <2> HIDE DEF K, x
  <2>5. CASE m \in K
    <3>1. Gathered(s, e)
      BY <2>1, <2>2, <2>3, <2>4, <2>5 DEF Gathered
    <3> QED
      BY <1>5, <3>1
  <2>6. CASE m \notin K
    BY <1>2, <2>1, <2>6 DEF x, K
  <2> QED
    BY <2>5, <2>6
<1>6. CASE Reads(s)
  <2>1. toClient'[s] = Tail(q) /\ q # <<>>
    BY <1>1, <1>6 DEF Reads
  <2> HIDE DEF K
  <2>2. \A j \in Places(Tail(q), K) : j + 1 \in Places(q, K)
    BY <1>1, <2>1, PlacesTail
  <2> QED
    BY <2>1, <2>2 DEF K
<1>7. ~GetsStarted(s)
  BY DEF GetsStarted, CoreInv, TypeInv, Rest
<1> QED
  BY <1>3, <1>4, <1>5, <1>6, <1>7 DEF MailMoves, GetsOne

LEMMA GatheredMoves ==
  ASSUME CoreInv, CoreInv', ServersNamed, OnceInv, Next, started <= 1, started' <= 1,
         NEW s \in Session, NEW e \in Session, Gathered(s, e)'
  PROVE  /\ started' = started /\ Gathers
         /\ Gathered(s, e) \/ (m_tunnels[s][e].on /\ m_tunnels[s][e].ext # "none")
<1>1. PICK i \in ServerId : /\ i[2] = "EXTERNAL" /\ Waits(m_servers'[i])
                            /\ s \in m_servers'[i].addresses /\ Ends(i)' = {s, e}
  BY DEF Gathered
<1>2. AddressMoves /\ ServersMove
  BY AddressStep, ServersStep DEF CoreInv, ServersKept
<1>3. started \in Nat /\ started' \in Nat /\ (started' = started \/ started' = started + 1)
  BY NextRest DEF RestMoves, CoreInv, TypeInv, Rest
<1>4. ASSUME s \notin m_servers[i].addresses
      PROVE  \E x \in Session : ExternalProbe(s, x) /\ m_tunnels[s][x].srv = i
  BY <1>1, <1>2, <1>4 DEF AddressMoves
<1>5. started' = started
  <2>1. CASE s \in m_servers[i].addresses
    <3>1. started # 0
      BY <1>1, <2>1 DEF OnceInv, Untouched
    <3> QED
      BY <1>3, <3>1
  <2>2. CASE s \notin m_servers[i].addresses
    BY <1>4, <2>2 DEF ExternalProbe, history
  <2> QED
    BY <2>1, <2>2
<1>6. Waits(m_servers[i]) /\ m_servers[i].pc # "none"
  <2>1. Waits(m_servers[i])
    BY <1>1, <1>2, <1>3, <1>5 DEF AddressMoves
  <2> QED
    BY <2>1 DEF Waits
<1>7. Ends(i) = {s, e}
  BY <1>1, <1>2, <1>6, ServerStays
<1>8. CASE s \in m_servers[i].addresses
  BY <1>1, <1>5, <1>6, <1>7, <1>8 DEF Gathered, Gathers
<1>9. CASE s \notin m_servers[i].addresses
  <2>1. PICK x \in Session : ExternalProbe(s, x) /\ m_tunnels[s][x].srv = i
    BY <1>4, <1>9
  <2>2. m_tunnels[s][x].ext = "probe"
    BY <2>1 DEF ExternalProbe
  <2>3. Ends(i) = {s, x}
    BY <2>1, <2>2 DEF ServersNamed
  <2>4. x # s
    <3>1. m_servers[i].one # m_servers[i].two
      BY <1>6 DEF CoreInv, ServersOK, ServerOK
    <3> QED
      BY <2>3, <3>1 DEF Ends
  <2>5. x = e
    BY <1>7, <2>3, <2>4
  <2>6. m_tunnels[s][e].on
    <3>1. Clients
      BY DEF CoreInv, TypeInv
    <3> QED
      BY <2>2, <2>5, <3>1, ActiveEntry
  <2> QED
    BY <1>1, <1>5, <1>6, <2>2, <2>5, <2>6 DEF Gathers
<1> QED
  BY <1>8, <1>9

LEMMA ExtInit == Init => ExtInv
<1> SUFFICES ASSUME Init, NEW s \in Session, NEW e \in Session
             PROVE  Places(toClient[s], ExtTold(s, e)) = {} /\ ~Gathered(s, e)
  BY DEF ExtInv
<1>1. Places(toClient[s], ExtTold(s, e)) = {}
  BY DEF Init, Places
<1>2. \A i \in ServerId : m_servers[i].pc = "none"
  BY DEF Init, NoServer
<1> QED
  BY <1>1, <1>2 DEF Gathered, Waits

LEMMA ExtStep ==
  ASSUME CoreInv, CoreInv', ServersNamed, OnceInv, ExtOnce, ExtInv, Next
  PROVE  ExtInv'
<1> SUFFICES ASSUME started' <= 1, NEW s \in Session, NEW e \in Session,
                    Places(toClient[s], ExtTold(s, e))' # {} \/ Gathered(s, e)'
             PROVE  Answers(s, e)'
  BY DEF ExtInv
<1>1. MailMoves
  BY MailStep
<1>2. started \in Nat /\ started' \in Nat /\ (started' = started \/ started' = started + 1)
  BY NextRest DEF RestMoves, CoreInv, TypeInv, Rest
<1>3. started <= 1
  BY <1>2
<1>4. Trying(s) \in Nat
  BY <1>1, TryingMoves
<1>5. ASSUME started' = started, Answers(s, e),
             Gathers \/ Places(toClient[s], ExtTold(s, e)) # {}
      PROVE  Answers(s, e)'
  <2>1. ExtLoad(s) <= 1
    BY <1>3 DEF ExtOnce
  <2>2. Gathers \/ Trying(s) >= 1
    <3>1. Places(toClient[s], ExtTold(s, e)) \subseteq Places(toClient[s], ExtTries(s))
      BY DEF Places, ExtTold, ExtTries
    <3>2. toClient[s] \in Seq(ToClientMsg(s))
      BY DEF CoreInv, TypeInv, Wires
    <3>3. Places(toClient[s], ExtTries(s)) # {} => Trying(s) >= 1
      BY <3>2, PlaceCounts DEF Trying
    <3> QED
      BY <1>5, <3>1, <3>3
  <2>3. ~ExtThread(s)
    BY <1>4, <2>1, <2>2 DEF ExtLoad, One
  <2> QED
    BY <1>3, <1>5, <2>3, AnswersStay
<1>6. CASE Gathered(s, e)'
  <2>1. /\ started' = started /\ Gathers
        /\ Gathered(s, e) \/ (m_tunnels[s][e].on /\ m_tunnels[s][e].ext # "none")
    BY <1>3, <1>6, GatheredMoves
  <2>2. Answers(s, e)
    <3>1. CASE Gathered(s, e)
      BY <1>3, <3>1 DEF ExtInv
    <3>2. CASE m_tunnels[s][e].on /\ m_tunnels[s][e].ext # "none"
      <4>1. Told1(s) = {}
        BY <1>3, <3>2 DEF OnceInv, Untouched, NoTunnel
      <4> QED
        BY <3>2, <4>1 DEF Answers
    <3> QED
      BY <2>1, <3>1, <3>2
  <2> QED
    BY <1>5, <2>1, <2>2
<1>7. CASE Places(toClient[s], ExtTold(s, e))' # {}
  <2>1. Places(toClient'[s], ExtTold(s, e)) # {}
    BY <1>7 DEF Places, ExtTold, ToClientMsg
  <2>2. started' = started
    <3>1. ASSUME started = 0, started' # 0 PROVE FALSE
      <4>1. toClient[s] = <<>> /\ ~Gathers
        <5>1. \A i \in ServerId : m_servers[i].pc = "none"
          BY <3>1 DEF CoreInv, ServersOK, ServerId
        <5> QED
          BY <3>1, <5>1 DEF OnceInv, Gathers, Waits
      <4>2. Trying(s)' # 0
        <5>1. toClient'[s] \in Seq(ToClientMsg(s))
          BY DEF CoreInv, TypeInv, Wires
        <5>2. Places(toClient'[s], ExtTries(s)) # {}
          BY <2>1 DEF Places, ExtTold, ExtTries
        <5>3. Cardinality(Places(toClient'[s], ExtTries(s))) >= 1
          BY <5>1, <5>2, PlaceCounts
        <5>4. Trying(s)' = Cardinality(Places(toClient'[s], ExtTries(s)))
          BY DEF Trying, ExtTries, ToClientMsg, Places
        <5> QED
          BY <5>3, <5>4
      <4>3. Trying(s) = 0
        <5>1. Places(toClient[s], ExtTries(s)) = {}
          BY <4>1 DEF Places
        <5> QED
          BY <5>1, FS_EmptySet DEF Trying
      <4>4. GetsAddress(s)
        BY <1>1, <4>2, <4>3, TryingMoves
      <4>5. PICK i \in ServerId : GotExternalAddresses(i)
        BY <4>4 DEF GetsAddress
      <4> QED
        BY <4>1, <4>5 DEF GotExternalAddresses, Gathers, Waits
    <3> QED
      BY <1>2, <3>1
  <2>3. \/ Places(toClient[s], ExtTold(s, e)) # {}
        \/ GetsAddress(s) /\ Gathered(s, e)
    BY <1>1, <2>1, <2>2, ToldMoves
  <2>4. Answers(s, e)
    BY <1>3, <2>3 DEF ExtInv
  <2>5. Gathered(s, e) => Gathers
    BY DEF Gathered, Gathers
  <2> QED
    BY <1>5, <2>2, <2>3, <2>4, <2>5
<1> QED
  BY <1>6, <1>7

(* The thread is there when it is used *)
LEMMA ThreadThere ==
  ASSUME CoreInv, ExtInv, started <= 1, NEW s \in Session, Reads(s), NEW e \in Session,
         Head(toClient[s]) \in ExtTold(s, e), m_tunnels[s][e].on
  PROVE  m_tunnels[s][e].ext # "none"
<1>1. toClient[s] \in Seq(ToClientMsg(s)) /\ toClient[s] # <<>>
  BY DEF Reads, CoreInv, TypeInv, Wires
<1>2. 1 \in Places(toClient[s], ExtTold(s, e))
  BY <1>1, PlaceCounts
<1> QED
  BY <1>2 DEF ExtInv, Answers

-----------------------------------------------------------------------------
(* Everything together *)
OrderInv ==
  /\ OnceInv /\ ListensOnce /\ AsksFirst
  /\ KindInv /\ ChainInv /\ UdpInv
  /\ ServersNamed /\ ExtOnce /\ ExtInv
  /\ RelaysHold \/ expired
  /\ crash # {} => expired \/ started > 1

LEMMA OrderInit == Init => OrderInv
<1> SUFFICES ASSUME Init PROVE OrderInv
  OBVIOUS
<1>1. ListensOnce
  BY DEF Init, ListensOnce
<1>2. \A s \in Session : toClient[s] = <<>> /\ connecting[s] = {}
  BY DEF Init
<1>3. AsksFirst
  BY <1>2 DEF AsksFirst, Places
<1>4. KindInv
  BY DEF Init, KindInv, NoLink
<1>5. UdpInv
  <2>1. \A s, e \in Session : Chain(s, e) <= 0
    BY ChainInit DEF Init, ChainInv
  <2>2. \A s, e \in Session : Chain(s, e) \in Nat
    BY CoreInit, ChainTypes
  <2>3. \A s, e \in Session : ~(Chain(s, e) > 0)
    BY <2>1, <2>2
  <2> QED
    BY <2>3 DEF UdpInv
<1>6. RelaysHold
  BY DEF Init, RelaysHold, BothHold, NoServer
<1>7. crash = {}
  BY DEF Init
<1> QED
  BY <1>1, <1>3, <1>4, <1>5, <1>6, <1>7, OnceInit, ChainInit, NamedInit, ExtOnceInit, ExtInit
  DEF OrderInv

(* No pointer that is null is used, but for an expiry or a second negotiation *)
LEMMA NoCrash ==
  ASSUME CoreInv, OrderInv, Next, crash' # {}
  PROVE  expired' \/ started' > 1
<1>1. /\ started \in Nat /\ started' \in Nat /\ started <= started'
      /\ expired => expired'
  BY NextRest DEF RestMoves, CoreInv, TypeInv, Rest
<1>2. CASE expired \/ started > 1
  BY <1>1, <1>2
<1>3. CASE ~expired /\ started <= 1
  <2>1. crash = {} /\ RelaysHold
    BY <1>1, <1>3 DEF OrderInv
  <2>2. PICK x \in crash' : x \notin crash
    BY <2>1
  <2>3. ASSUME NEW i \in ServerId, i[2] \in RelayType, m_servers[i].both,
               m_servers[i].connectors # Ends(i)
        PROVE  FALSE
    BY <2>1, <2>3 DEF RelaysHold, BothHold, Ends
  <2>4. ASSUME NEW s \in Session, NEW e \in Session, stale[s][e] > 0, m_tunnels[s][e].on
        PROVE  FALSE
    BY <1>3, <2>4 DEF OrderInv, ListensOnce
  <2>5. ASSUME NEW s \in Session, Reads(s), Head(toClient[s]).kind = "TryConnectTo",
               m_tunnels[s][Head(toClient[s]).ext].on,
               \/ /\ Head(toClient[s]).type = "LOCAL_UDP"
                  /\ ~m_tunnels[s][Head(toClient[s]).ext].udp
               \/ /\ Head(toClient[s]).type = "EXTERNAL"
                  /\ m_tunnels[s][Head(toClient[s]).ext].ext = "none"
        PROVE  FALSE
    <3> DEFINE h == Head(toClient[s])
               e == h.ext
    <3>1. h \in ToClientMsg(s)
      BY <2>5, Front DEF Reads, CoreInv, TypeInv, Wires
    <3>2. e \in Session
      BY <3>1, ToClientMsgs
    <3> HIDE DEF e
    <3>3. CASE h.type = "LOCAL_UDP" /\ ~m_tunnels[s][e].udp
      <4>1. h \in UdpTold(s, e)
        BY <2>5, <3>1, <3>3 DEF UdpTold, e
      <4>2. m_tunnels[s][e].on
        BY <2>5 DEF e
      <4> QED
        BY <1>3, <2>5, <3>2, <3>3, <4>1, <4>2, SocketThere DEF OrderInv
    <3>4. CASE h.type = "EXTERNAL" /\ m_tunnels[s][e].ext = "none"
      <4>1. h \in ExtTold(s, e)
        BY <2>5, <3>1, <3>4 DEF ExtTold, e
      <4>2. m_tunnels[s][e].on
        BY <2>5 DEF e
      <4> QED
        BY <1>3, <2>5, <3>2, <3>4, <4>1, <4>2, ThreadThere DEF OrderInv
    <3> QED
      BY <2>5, <3>3, <3>4 DEF e
  <2> QED
    BY <2>2, <2>3, <2>4, <2>5, CrashStep DEF CrashMoves
<1> QED
  BY <1>1, <1>2, <1>3

LEMMA OrderStep ==
  ASSUME BaseInv, BaseInv', OrderInv, Next
  PROVE  OrderInv'
<1>1. CoreInv /\ CoreInv' /\ LoadOK
  BY DEF BaseInv
<1>2. OnceInv' /\ ListensOnce' /\ AsksFirst'
  BY <1>1, OnceStep, ListensOnceStep, AsksFirstStep DEF OrderInv
<1>3. KindInv' /\ ChainInv' /\ UdpInv'
  BY <1>1, KindStep, ChainStep, UdpStep DEF OrderInv
<1>4. ServersNamed' /\ ExtOnce' /\ ExtInv'
  BY <1>1, NamedStep, ExtOnceStep, ExtStep DEF OrderInv
<1>5. RelaysHold' \/ expired'
  <2>1. expired => expired'
    BY NextRest DEF RestMoves
  <2> QED
    BY <1>1, <2>1, RelaysStep DEF OrderInv
<1>6. crash' # {} => expired' \/ started' > 1
  BY <1>1, NoCrash
<1> QED
  BY <1>2, <1>3, <1>4, <1>5, <1>6 DEF OrderInv

LEMMA OrderQuiet ==
  ASSUME OrderInv, UNCHANGED vars
  PROVE  OrderInv'
<1> USE DEF vars, server, client, history
<1>1. UNCHANGED <<toServer, toClient, m_servers, m_tunnels, stale, connecting, link, started,
                  expired, crash>>
  OBVIOUS
<1>2. OnceInv' /\ ListensOnce' /\ AsksFirst'
  <2>1. \A s \in Session : Told1(s)' = Told1(s) /\ Untouched(s)' = Untouched(s)
    BY <1>1 DEF Told1, Untouched
  <2>2. OnceInv'
    BY <1>1, <2>1 DEF OrderInv, OnceInv
  <2>3. ListensOnce'
    BY <1>1 DEF OrderInv, ListensOnce
  <2>4. AsksFirst'
    BY <1>1, <2>1 DEF OrderInv, AsksFirst
  <2> QED
    BY <2>2, <2>3, <2>4
<1>3. KindInv'
  BY <1>1 DEF OrderInv, KindInv
<1>4. \A s, e \in Session : Chain(s, e)' = Chain(s, e)
  BY <1>1 DEF Chain, Asked, Sent1, Passed
<1>5. ChainInv'
  BY <1>1, <1>4 DEF OrderInv, ChainInv
<1>6. \A s, e \in Session : Ready(s, e)' = Ready(s, e) /\ Connects(s, e)' = Connects(s, e)
  BY <1>1 DEF Ready, Connects, Told1, Over
<1>7. UdpInv'
  BY <1>1, <1>4, <1>6 DEF OrderInv, UdpInv
<1>8. ServersNamed'
  <2>1. \A i \in ServerId : Ends(i)' = Ends(i)
    BY <1>1 DEF Ends
  <2>2. \A s \in Session : GoodMsg(s)' = GoodMsg(s)
    BY <1>1 DEF GoodMsg, Ends, ToClientMsg
  <2> QED
    BY <1>1, <2>1, <2>2 DEF OrderInv, ServersNamed
<1>9. ExtOnce'
  BY <1>1 DEF OrderInv, ExtOnce, ExtLoad, Gathers, Waits, Trying, ExtThread
<1>10. ExtInv'
  BY <1>1 DEF OrderInv, ExtInv, Gathered, Answers, Waits, Ends, Told1
<1>11. RelaysHold' <=> RelaysHold
  BY <1>1 DEF RelaysHold, BothHold
<1> QED
  BY <1>1, <1>2, <1>3, <1>5, <1>7, <1>8, <1>9, <1>10, <1>11 DEF OrderInv

TunnelInv == BaseInv /\ OrderInv

LEMMA TunnelInvInit == Init => TunnelInv
BY BaseInit, OrderInit DEF TunnelInv

LEMMA TunnelInvStep == TunnelInv /\ [Next]_vars => TunnelInv'
<1> SUFFICES ASSUME TunnelInv, [Next]_vars PROVE TunnelInv'
  OBVIOUS
<1>1. BaseInv'
  BY BaseStep DEF TunnelInv
<1> QED
  BY <1>1, OrderStep, OrderQuiet DEF TunnelInv

(* ClientSignalHandler::onModuleName deletes the TunnelConnect of the client that it
   names, so an established tunnel has none left for CheckTunnels to report as failed,
   whatever the order of the messages, the threads and the errors of one negotiation *)
THEOREM EstablishedIsForgotten == Spec => []ConnectedIsForgotten
<1>1. TunnelInv => ConnectedIsForgotten
  BY DEF TunnelInv, OrderInv, OnceInv, ConnectedIsForgotten
<1> QED
  BY TunnelInvInit, TunnelInvStep, <1>1, PTL DEF Spec

(* The thread, the socket and the connectors that the handlers of TryConnectTo, of a
   failed listen thread and of a relay use without asking are there, until an entry has
   expired or a second negotiation has started                                      *)
THEOREM PointersAreThere == Spec => []PointersHold
<1>1. TunnelInv => PointersHold
  BY TypesAre DEF TunnelInv, BaseInv, OrderInv, PointersHold
<1> QED
  BY TunnelInvInit, TunnelInvStep, <1>1, PTL DEF Spec

-----------------------------------------------------------------------------
(* Which connection of a pair stays: the proofs about IPCArbitration *)
IPCMessage == {ModuleName} \cup [type : {"ModuleState"}, exist : BOOLEAN, rndval : Nat]

ArbitrationTypes ==
  /\ m_rand \in [End -> Nat]
  /\ \A d, e \in End : d # e => m_rand[d] # m_rand[e]
  /\ pc \in [End -> {"free", "loop", "push", "named", "settled", "stopped", "reaped"}]
  /\ m_open \in [End -> BOOLEAN]
  /\ inbox \in [End -> Seq(IPCMessage)]
  /\ m_isExist \in [End -> BOOLEAN]

(* The end has told whether it knew the name, and will not change its mind *)
Past(e) == pc[e] \notin {"free", "loop", "push"}

(* A ModuleState on its way says what its sender still thinks *)
MessagesTrue ==
  \A e \in End : \A i \in 1..Len(inbox[e]) :
    inbox[e][i].type = "ModuleState" =>
      /\ Past(Peer(e))
      /\ inbox[e][i].exist = m_isExist[Peer(e)]
      /\ inbox[e][i].rndval = m_rand[Peer(e)]

(* An end closes its socket only because the other one called it a duplicate *)
ClosedHeard ==
  \A e \in End : ~m_open[e] => Past(Peer(e)) /\ m_isExist[Peer(e)]

SettledRight ==
  \A e \in End : pc[e] = "settled" =>
    /\ Past(Peer(e))
    /\ m_open[e] /\ m_isExist[Peer(e)] => ~m_isExist[e] /\ m_rand[e] < m_rand[Peer(e)]

ArbitrationInv == ArbitrationTypes /\ MessagesTrue /\ ClosedHeard /\ SettledRight

-----------------------------------------------------------------------------
(* Every end has one other end *)
LEMMA PeerOfPeer ==
  ASSUME NEW e \in End
  PROVE  Peer(e) \in End /\ Peer(Peer(e)) = e /\ Peer(e) # e
<1>1. PICK a \in Node, b \in Node : a # b /\ Node = {a, b}
  BY NodeAssumption
<1>2. \A n \in Node : Other(n) \in Node /\ Other(n) # n
  BY <1>1 DEF Other
<1>3. \A n \in Node : Other(Other(n)) = n
  BY <1>1, <1>2
<1>4. PICK k \in Conn, n \in Node : e = <<k, n>>
  BY DEF End
<1> QED
  BY <1>2, <1>3, <1>4 DEF End, Peer

(* The entries of a stream after a message was read or sent *)
LEMMA TailEntries ==
  ASSUME NEW S, NEW s \in Seq(S), s # <<>>
  PROVE  /\ Head(s) \in S /\ Head(s) = s[1] /\ 1 \in 1..Len(s)
         /\ Tail(s) \in Seq(S)
         /\ \A i \in 1..Len(Tail(s)) : i + 1 \in 1..Len(s) /\ Tail(s)[i] = s[i + 1]
  OBVIOUS

LEMMA AppendEntries ==
  ASSUME NEW S, NEW s \in Seq(S), NEW m \in S
  PROVE  /\ Append(s, m) \in Seq(S)
         /\ \A i \in 1..Len(Append(s, m)) :
              Append(s, m)[i] = m \/ (i \in 1..Len(s) /\ Append(s, m)[i] = s[i])
  OBVIOUS

LEMMA ArbitrationInitInv == ArbitrationInit => ArbitrationInv
<1> SUFFICES ASSUME ArbitrationInit PROVE ArbitrationInv
  OBVIOUS
<1>1. ArbitrationTypes
  BY DrawsAssumption DEF ArbitrationInit, ArbitrationTypes
<1>2. MessagesTrue /\ ClosedHeard /\ SettledRight
  BY DEF ArbitrationInit, MessagesTrue, ClosedHeard, SettledRight
<1> QED
  BY <1>1, <1>2 DEF ArbitrationInv

(* The steps that touch neither the streams nor an end's own verdict *)
LEMMA QuietEnds ==
  ASSUME ArbitrationInv, UNCHANGED <<m_rand, sockets, m_isExist>>,
         pc' \in [End -> {"free", "loop", "push", "named", "settled", "stopped",
                          "reaped"}],
         \A e \in End : /\ Past(e) => Past(e)'
                        /\ pc'[e] = "settled" => pc[e] = "settled"
  PROVE  ArbitrationInv'
<1>1. ArbitrationTypes'
  BY DEF ArbitrationInv, ArbitrationTypes, sockets
<1>2. MessagesTrue'
  BY PeerOfPeer DEF ArbitrationInv, MessagesTrue, sockets, Past, Peer
<1>3. ClosedHeard'
  BY PeerOfPeer DEF ArbitrationInv, ClosedHeard, sockets, Past, Peer
<1>4. SettledRight'
  BY PeerOfPeer DEF ArbitrationInv, SettledRight, sockets, Past, Peer
<1> QED
  BY <1>1, <1>2, <1>3, <1>4 DEF ArbitrationInv

(* A message is added to one stream and its sender's verdict stays *)
LEMMA SendStep ==
  ASSUME ArbitrationInv, NEW e \in End, NEW msg \in IPCMessage,
         inbox' = [inbox EXCEPT ![Peer(e)] = Append(@, msg)],
         UNCHANGED <<m_rand, m_open, m_isExist>>,
         NEW place \in {"loop", "named"},
         pc' = [pc EXCEPT ![e] = place],
         ~Past(e),
         msg.type = "ModuleState" =>
           place = "named" /\ msg.exist = m_isExist[e] /\ msg.rndval = m_rand[e]
  PROVE  ArbitrationInv'
<1> USE PeerOfPeer
<1>0. /\ \A d \in End : Past(d) => Past(d)'
      /\ \A d \in End : pc'[d] = "settled" => pc[d] = "settled"
      /\ place = "named" => Past(e)'
  BY DEF Past, ArbitrationInv, ArbitrationTypes
<1>1. Append(inbox[Peer(e)], msg) \in Seq(IPCMessage)
  BY AppendEntries DEF ArbitrationInv, ArbitrationTypes
<1>2. ArbitrationTypes'
  BY <1>1 DEF ArbitrationInv, ArbitrationTypes
<1>3. MessagesTrue'
  <2> SUFFICES ASSUME NEW d \in End, NEW i \in 1..Len(inbox'[d]),
                      inbox'[d][i].type = "ModuleState"
               PROVE  /\ Past(Peer(d))'
                      /\ inbox'[d][i].exist = m_isExist[Peer(d)]
                      /\ inbox'[d][i].rndval = m_rand[Peer(d)]
    BY DEF MessagesTrue
  <2>1. CASE d # Peer(e)
    <3>1. inbox'[d] = inbox[d]
      BY <2>1 DEF ArbitrationInv, ArbitrationTypes
    <3> QED
      BY <3>1, <1>0 DEF ArbitrationInv, MessagesTrue
  <2>2. CASE d = Peer(e)
    <3>1. inbox'[d] = Append(inbox[d], msg) /\ inbox[d] \in Seq(IPCMessage) /\ Peer(d) = e
      BY <2>2 DEF ArbitrationInv, ArbitrationTypes
    <3>2. \/ inbox'[d][i] = msg
          \/ i \in 1..Len(inbox[d]) /\ inbox'[d][i] = inbox[d][i]
      BY <3>1, AppendEntries
    <3>3. CASE inbox'[d][i] = msg
      BY <3>1, <3>3, <1>0
    <3>4. CASE i \in 1..Len(inbox[d]) /\ inbox'[d][i] = inbox[d][i]
      BY <3>4, <1>0 DEF ArbitrationInv, MessagesTrue
    <3> QED
      BY <3>2, <3>3, <3>4
  <2> QED
    BY <2>1, <2>2
<1>4. ClosedHeard'
  BY <1>0 DEF ArbitrationInv, ClosedHeard
<1>5. SettledRight'
  BY <1>0 DEF ArbitrationInv, SettledRight
<1> QED
  BY <1>2, <1>3, <1>4, <1>5 DEF ArbitrationInv

(* The end reads ModuleName: it forms its verdict, which nobody has heard of *)
LEMMA NameStep ==
  ASSUME ArbitrationInv, NEW e \in End, BeginModuleName(e)
  PROVE  ArbitrationInv'
<1> USE PeerOfPeer
<1>0. /\ \A d \in End : Past(d) => Past(d)' /\ d # e
      /\ \A d \in End : pc'[d] = "settled" => pc[d] = "settled" /\ d # e
      /\ \A d \in End : d # e => m_isExist'[d] = m_isExist[d]
      /\ m_rand' = m_rand /\ m_open' = m_open
  BY DEF BeginModuleName, Past, ArbitrationInv, ArbitrationTypes
<1>1. inbox[e] \in Seq(IPCMessage) /\ inbox[e] # <<>>
  BY DEF BeginModuleName, Receive, ArbitrationInv, ArbitrationTypes
<1>2. /\ inbox' = [inbox EXCEPT ![e] = Tail(inbox[e])]
      /\ Tail(inbox[e]) \in Seq(IPCMessage)
  BY <1>1, TailEntries DEF BeginModuleName
<1>3. ArbitrationTypes'
  BY <1>2 DEF BeginModuleName, ArbitrationInv, ArbitrationTypes
<1>4. MessagesTrue'
  <2> SUFFICES ASSUME NEW d \in End, NEW i \in 1..Len(inbox'[d]),
                      inbox'[d][i].type = "ModuleState"
               PROVE  /\ Past(Peer(d))'
                      /\ inbox'[d][i].exist = m_isExist'[Peer(d)]
                      /\ inbox'[d][i].rndval = m_rand[Peer(d)]
    BY <1>0 DEF MessagesTrue
  <2>1. \E j \in 1..Len(inbox[d]) : inbox'[d][i] = inbox[d][j]
    <3>1. CASE d = e
      BY <3>1, <1>1, <1>2, TailEntries DEF ArbitrationInv, ArbitrationTypes
    <3>2. CASE d # e
      BY <3>2, <1>2 DEF ArbitrationInv, ArbitrationTypes
    <3> QED
      BY <3>1, <3>2
  <2>2. /\ Past(Peer(d))
        /\ inbox'[d][i].exist = m_isExist[Peer(d)]
        /\ inbox'[d][i].rndval = m_rand[Peer(d)]
    BY <2>1 DEF ArbitrationInv, MessagesTrue
  <2> QED
    BY <2>2, <1>0
<1>5. ClosedHeard'
  BY <1>0 DEF ArbitrationInv, ClosedHeard
<1>6. SettledRight'
  BY <1>0 DEF ArbitrationInv, SettledRight
<1> QED
  BY <1>3, <1>4, <1>5, <1>6 DEF ArbitrationInv

(* The end reads ModuleState: what it says is still true, and the verdict follows *)
LEMMA StateStep ==
  ASSUME ArbitrationInv, NEW e \in End, OnModuleState(e)
  PROVE  ArbitrationInv'
<1> USE PeerOfPeer
<1> DEFINE msg == Head(inbox[e])
           stop == m_isExist[e] \/ Siblings(e) = {} \/ Larger(e, msg.rndval)
<1>0. /\ \A d \in End : Past(d) => Past(d)'
      /\ pc' = [pc EXCEPT ![e] = "settled"]
      /\ m_rand' = m_rand /\ m_isExist' = m_isExist
      /\ m_open' = IF msg.exist /\ stop THEN [m_open EXCEPT ![e] = FALSE] ELSE m_open
  BY DEF OnModuleState, Past, ArbitrationInv, ArbitrationTypes, Stop
<1>1. inbox[e] \in Seq(IPCMessage) /\ inbox[e] # <<>> /\ msg.type = "ModuleState"
  BY DEF OnModuleState, Receive, ArbitrationInv, ArbitrationTypes
<1>2. /\ inbox' = [inbox EXCEPT ![e] = Tail(inbox[e])]
      /\ Tail(inbox[e]) \in Seq(IPCMessage)
  BY <1>1, TailEntries DEF OnModuleState
<1>3. /\ Past(Peer(e))
      /\ msg.exist = m_isExist[Peer(e)]
      /\ msg.rndval = m_rand[Peer(e)]
  <2>1. msg = inbox[e][1] /\ 1 \in 1..Len(inbox[e])
    BY <1>1, TailEntries
  <2> QED
    BY <2>1, <1>1 DEF ArbitrationInv, MessagesTrue
<1>4. ArbitrationTypes'
  BY <1>0, <1>2 DEF ArbitrationInv, ArbitrationTypes
<1>5. MessagesTrue'
  <2> SUFFICES ASSUME NEW d \in End, NEW i \in 1..Len(inbox'[d]),
                      inbox'[d][i].type = "ModuleState"
               PROVE  /\ Past(Peer(d))'
                      /\ inbox'[d][i].exist = m_isExist[Peer(d)]
                      /\ inbox'[d][i].rndval = m_rand[Peer(d)]
    BY <1>0 DEF MessagesTrue
  <2>1. \E j \in 1..Len(inbox[d]) : inbox'[d][i] = inbox[d][j]
    <3>1. CASE d = e
      BY <3>1, <1>1, <1>2, TailEntries DEF ArbitrationInv, ArbitrationTypes
    <3>2. CASE d # e
      BY <3>2, <1>2 DEF ArbitrationInv, ArbitrationTypes
    <3> QED
      BY <3>1, <3>2
  <2> QED
    BY <2>1, <1>0 DEF ArbitrationInv, MessagesTrue
<1>6. ClosedHeard'
  BY <1>0, <1>3 DEF ArbitrationInv, ClosedHeard, ArbitrationTypes
<1>7. SettledRight'
  <2> SUFFICES ASSUME NEW d \in End, pc'[d] = "settled"
               PROVE  /\ Past(Peer(d))'
                      /\ m_open'[d] /\ m_isExist[Peer(d)] =>
                           ~m_isExist[d] /\ m_rand[d] < m_rand[Peer(d)]
    BY <1>0 DEF SettledRight
  <2>1. CASE d # e
    <3>1. pc[d] = "settled" /\ m_open'[d] = m_open[d]
      BY <2>1, <1>0 DEF ArbitrationInv, ArbitrationTypes
    <3> QED
      BY <3>1, <1>0 DEF ArbitrationInv, SettledRight
  <2>2. CASE d = e
    <3>1. ASSUME m_open'[e], m_isExist[Peer(e)]
          PROVE  ~m_isExist[e] /\ ~(m_rand[e] > m_rand[Peer(e)])
      <4>1. ~stop
        BY <3>1, <1>0, <1>3 DEF ArbitrationInv, ArbitrationTypes
      <4> QED
        BY <4>1, <1>3 DEF Larger
    <3>2. m_rand[e] \in Nat /\ m_rand[Peer(e)] \in Nat /\ m_rand[e] # m_rand[Peer(e)]
      BY DEF ArbitrationInv, ArbitrationTypes
    <3> QED
      BY <2>2, <3>1, <3>2, <1>0, <1>3
  <2> QED
    BY <2>1, <2>2
<1> QED
  BY <1>4, <1>5, <1>6, <1>7 DEF ArbitrationInv

(* Until AddConnection starts it, an end's thread has done nothing *)
Unstarted ==
  /\ apc \in [End -> {"free", "subscribe", "start", "list", "listed"}]
  /\ pc \in [End -> {"free", "loop", "push", "named", "settled", "stopped", "reaped"}]
  /\ \A e \in End : apc[e] \in {"free", "subscribe", "start"} => pc[e] = "free"
  /\ initiator \in [Conn -> Node \cup {Nobody}]
  /\ \A e \in End : apc[e] # "free" => initiator[e[1]] # Nobody

LEMMA UnstartedInv == ArbitrationSpec => []Unstarted
<1>1. ArbitrationInit => Unstarted
  BY DEF ArbitrationInit, Unstarted
<1>2. Unstarted /\ [ArbitrationNext]_arbitrationVars => Unstarted'
  <2> SUFFICES ASSUME Unstarted, [ArbitrationNext]_arbitrationVars PROVE Unstarted'
    OBVIOUS
  <2> USE DEF Unstarted
  <2>1. CASE UNCHANGED arbitrationVars
    BY <2>1 DEF arbitrationVars, connectors
  <2>2. ASSUME NEW n \in Node, NEW k \in Conn, Connect(n, k) PROVE Unstarted'
    <3>1. <<k, n>> \in End /\ <<k, n>>[1] = k /\ \A e \in End : e[1] \in Conn
      BY DEF End
    <3>2. /\ apc' = [apc EXCEPT ![<<k, n>>] = "subscribe"] /\ pc' = pc
          /\ initiator' = [initiator EXCEPT ![k] = n] /\ initiator[k] = Nobody
      BY <2>2 DEF Connect
    <3>3. pc[<<k, n>>] = "free"
      BY <3>1, <3>2
    <3> QED
      BY <3>1, <3>2, <3>3, NodeAssumption
  <2>3. ASSUME NEW e \in End, AddStep(e) PROVE Unstarted'
    <3>1. Other(e[2]) \in Node
      BY PeerOfPeer DEF End, Peer
    <3> QED
      BY <2>3, <3>1, NodeAssumption DEF AddStep, SubscribeConnector, Start, AddObject, connectors
  <2>4. ASSUME NEW e \in End, ConnectorStep(e) PROVE Unstarted'
    BY <2>4 DEF ConnectorStep, BeginModuleName, FinishModuleName, OnModuleState, OnStop
  <2>5. ASSUME NEW e \in End, OnDisconnected(e) \/ Delete(e) PROVE Unstarted'
    BY <2>5 DEF OnDisconnected, Delete
  <2>6. ASSUME NEW n \in Node, RemoveModule(n) PROVE Unstarted'
    BY <2>6 DEF RemoveModule, connectors
  <2> QED
    BY <2>1, <2>2, <2>3, <2>4, <2>5, <2>6 DEF ArbitrationNext
<1> QED
  BY <1>1, <1>2, PTL DEF ArbitrationSpec

LEMMA ArbitrationStepInv ==
  Unstarted /\ ArbitrationInv /\ [ArbitrationNext]_arbitrationVars => ArbitrationInv'
<1> SUFFICES ASSUME Unstarted, ArbitrationInv, [ArbitrationNext]_arbitrationVars
             PROVE  ArbitrationInv'
  OBVIOUS
<1> USE DEF ArbitrationInv, ArbitrationTypes
<1>1. CASE UNCHANGED arbitrationVars
  BY <1>1, QuietEnds DEF arbitrationVars, sockets, connectors, Past
<1>2. ASSUME NEW n \in Node, NEW k \in Conn, Connect(n, k) PROVE ArbitrationInv'
  BY <1>2, QuietEnds DEF Connect, Past
<1>3. ASSUME NEW e \in End, SubscribeConnector(e) \/ AddObject(e) PROVE ArbitrationInv'
  BY <1>3, QuietEnds DEF SubscribeConnector, AddObject, connectors, Past, sockets
<1>4. ASSUME NEW e \in End, Start(e) PROVE ArbitrationInv'
  <2>1. ModuleName \in IPCMessage /\ ModuleName.type # "ModuleState"
    BY DEF IPCMessage, ModuleName
  <2>2. ~Past(e)
    BY <1>4 DEF Start, Unstarted, Past
  <2> QED
    BY <1>4, <2>1, <2>2, SendStep DEF Start
<1>5. ASSUME NEW e \in End, BeginModuleName(e) PROVE ArbitrationInv'
  BY <1>5, NameStep
<1>6. ASSUME NEW e \in End, FinishModuleName(e) PROVE ArbitrationInv'
  <2>1. ModuleState(m_isExist[e], m_rand[e]) \in IPCMessage
    BY DEF IPCMessage, ModuleState
  <2> QED
    BY <1>6, <2>1, SendStep DEF FinishModuleName, ModuleState, Past
<1>7. ASSUME NEW e \in End, OnModuleState(e) PROVE ArbitrationInv'
  BY <1>7, StateStep
<1>8. ASSUME NEW e \in End, OnStop(e) \/ OnDisconnected(e) \/ Delete(e) PROVE ArbitrationInv'
  BY <1>8, QuietEnds DEF OnStop, OnDisconnected, Delete, Past, sockets
<1>9. ASSUME NEW n \in Node, RemoveModule(n) PROVE ArbitrationInv'
  BY <1>9, QuietEnds DEF RemoveModule, connectors, Past, sockets
<1> QED
  BY <1>1, <1>2, <1>3, <1>4, <1>5, <1>6, <1>7, <1>8, <1>9
     DEF ArbitrationNext, AddStep, ConnectorStep

-----------------------------------------------------------------------------
LEMMA ArbitrationInvariance == ArbitrationSpec => []ArbitrationInv
  BY ArbitrationInitInv, UnstartedInv, ArbitrationStepInv, PTL DEF ArbitrationSpec

(* What ArbitrationInv says of the two ends of one connection *)
LEMMA EndsOf ==
  ASSUME NEW k \in Conn, NEW n \in Node
  PROVE  /\ <<k, n>> \in End /\ Other(n) \in Node
         /\ Peer(<<k, n>>) = <<k, Other(n)>>
<1>1. <<k, n>> \in End
  BY DEF End
<1>2. Peer(<<k, n>>) = <<k, Other(n)>>
  BY DEF Peer
<1>3. <<k, Other(n)>> \in End
  BY <1>1, <1>2, PeerOfPeer
<1> QED
  BY <1>1, <1>2, <1>3 DEF End

(* The verdict of onMessage(ModuleState) on a connection its ends agree about: a
   first one stays, a duplicate goes                                             *)
THEOREM VerdictAgreed == ArbitrationSpec => []AgreedVerdict
<1>1. ArbitrationInv => AgreedVerdict
  <2> SUFFICES ASSUME ArbitrationInv, NEW k \in Conn, Introduced(k), NEW n \in Node
               PROVE  /\ (\A m \in Node : ~m_isExist[<<k, m>>]) => m_open[<<k, n>>]
                      /\ (\A m \in Node : m_isExist[<<k, m>>]) =>
                           (pc[<<k, n>>] = "settled" => ~m_open[<<k, n>>])
    BY DEF AgreedVerdict
  <2> QED
    BY EndsOf DEF ArbitrationInv, ClosedHeard, SettledRight
<1> QED
  BY <1>1, ArbitrationInvariance, PTL

(* The verdict on a contested connection: the end that had it first keeps it only
   with the smaller value                                                        *)
THEOREM VerdictContested == ArbitrationSpec => []ContestedWins
<1>1. ArbitrationInv => ContestedWins
  BY DEF ArbitrationInv, SettledRight, ContestedWins
<1> QED
  BY <1>1, ArbitrationInvariance, PTL
=============================================================================
