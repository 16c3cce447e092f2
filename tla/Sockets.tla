-------------------------------- MODULE Sockets --------------------------------
(***************************************************************************)
(* TCPSocket, UDPSocket and UDTSocket of one process over the tables they  *)
(* share: the descriptors, of which the system gives the lowest free one   *)
(* and gives it again once it is closed, and the sockets behind them.  A   *)
(* UDT socket has a number of its own, never given twice, and may run over *)
(* the descriptor of a UDPSocket (m_udpSocket).                            *)
(*                                                                         *)
(* An object is used by the thread that sets it up (ConnectThread,         *)
(* ListenThread, ExternalConnectThread), by the connector's thread, which  *)
(* receives, by any thread that sends, and by whoever stops it.  Close     *)
(* forgets no number: Stop closes the object, and its destructor again.    *)
(*                                                                         *)
(* Hosts are "" (any address), "name" (resolves) and "unknown" (does not). *)
(* The system calls are external; a call that fails fails for good (a send *)
(* or recv interrupted by a signal is left out).                           *)
(***************************************************************************)
EXTENDS Naturals, Sequences, FiniteSets, FiniteSetsExt

CONSTANTS Obj,      \* the socket objects, numbers in the order in which they are made
          Fd,       \* the descriptors, numbers from 1
          Sender,   \* the threads that send, one message each, numbered likewise
          Port,     \* the ports of the host, numbers from 1; the lowest is asked for
          MsgLen,   \* the bytes of a message
          MaxSock,  \* bound on the sockets ever made
          MaxIn     \* bound on the bytes that arrive at a socket

ASSUME SocketsAssumption ==
  /\ Obj \subseteq Nat /\ Sender \subseteq Nat \ {0}
  /\ Fd \subseteq Nat \ {0}
  /\ Port \subseteq Nat \ {0}
  /\ MsgLen \in Nat \ {0}
  /\ {MaxSock, MaxIn} \subseteq Nat
  /\ IsFiniteSet(Sender)

INVALID_SOCKET == 0
Sock == 1..MaxSock

VARIABLES
  desc,    \* the socket of a descriptor, 0: the descriptor is free
  sock,    \* the sockets of the system and of UDT
  made,    \* how many there are
  obj,     \* the socket objects; own: the socket it was made with, after: the
           \* UDPSocket whose socket its factory was told, told: the port that the
           \* other side was told (history)
  m_cs,    \* the sender in an object's critical section, 0: nobody
  snd,     \* where a sender is: the object, the bytes left
  rcv,     \* where the connector's thread is: the socket it is blocked in, the bytes left
  shared   \* objects whose descriptor another object has named as well (history)

threads == <<m_cs, snd, rcv>>
vars == <<desc, sock, made, obj, threads, shared>>

-----------------------------------------------------------------------------
(* The tables *)

FreeFd == {f \in Fd : desc[f] = 0}

(* The socket that a call on the object reaches now; 0: none (EBADF) *)
Kernel(o) ==
  CASE obj[o].m_socket = INVALID_SOCKET -> 0
    [] obj[o].cls = "UDT" -> obj[o].m_socket
    [] OTHER -> desc[obj[o].m_socket]

Idle == [pc |-> "idle", on |-> 0, left |-> 0]

Mode(c) == IF c = 0 THEN "bad" ELSE sock[c].mode
Pending(c) == c # 0 /\ sock[c].pend

(* The descriptors that an object will close *)
Named(r) ==
  ((IF r.cls = "UDT" THEN {} ELSE {r.m_socket}) \cup {r.m_udpSocket}) \ {INVALID_SOCKET}

(* The other objects that will close one of them too *)
Sharing(o, r, left) ==
  {p \in Obj \ {o} : /\ obj[p].st \in {"open", "closed"}
                      /\ p \notin left
                      /\ Named(r) \cap Named(obj[p]) # {}}

Fresh(kind, mode) ==
  [kind |-> kind, mode |-> mode, port |-> 0, out |-> <<>>, in |-> 0, pend |-> FALSE]

(* UDT's sockets are on ports of UDP *)
InUse(cls) ==
  {sock[c].port : c \in {d \in 1..made : /\ sock[d].mode # "shut"
                                         /\ (sock[d].kind = "TCP") = (cls = "TCP")}}

(* An object comes to be with a new socket, and a descriptor unless it is UDT's;
   without a free descriptor m_socket is INVALID_SOCKET.  The objects in left are
   forgotten by the program; socks is the table before. *)
NewObject(o, cls, mode, udp, left, socks) ==
  LET ok == cls = "UDT" \/ FreeFd # {}
      r == [cls |-> cls, st |-> "open", phase |-> IF mode = "conn" THEN "up" ELSE "made",
            m_socket |-> CASE ~ok -> INVALID_SOCKET
                           [] cls = "UDT" -> made + 1
                           [] OTHER -> Min(FreeFd),
            m_udpSocket |-> udp,
            own |-> IF ok THEN made + 1 ELSE 0, told |-> 0, after |-> left]
      others == Sharing(o, r, left)
  IN /\ obj[o].st = "none"
     /\ \A p \in Obj : p < o => obj[p].st # "none"
     /\ made < MaxSock
     /\ obj' = [p \in Obj |-> CASE p = o -> r
                                [] p \in left -> [obj[p] EXCEPT !.st = "left"]
                                [] OTHER -> obj[p]]
     /\ made' = IF ok THEN made + 1 ELSE made
     /\ sock' = IF ok THEN [socks EXCEPT ![made + 1] = Fresh(cls, mode)] ELSE socks
     /\ desc' = IF ok /\ cls # "UDT" THEN [desc EXCEPT ![Min(FreeFd)] = made + 1] ELSE desc
     /\ shared' = IF others = {} THEN shared ELSE shared \cup others \cup {o}

-----------------------------------------------------------------------------
(* The factories *)

CreateTcp(o) == NewObject(o, "TCP", "new", INVALID_SOCKET, {}, sock) /\ UNCHANGED threads

CreateUdp(o) == NewObject(o, "UDP", "new", INVALID_SOCKET, {}, sock) /\ UNCHANGED threads

CreateUdt(o) == NewObject(o, "UDT", "new", INVALID_SOCKET, {}, sock) /\ UNCHANGED threads

(* Mutant: a factory that tests for INVALID_SOCKET the other way round *)
UdpOfFactoryInverted(udp) == INVALID_SOCKET

(* What UDTSecureSocketFactory gives to an object once it was told a socket *)
UdpOfFactory(udp) == udp

(* A UDT object on the descriptor of a UDPSocket.  ExternalConnectThread forgets
   the UDPSocket then and nobody deletes it; the local tunnel keeps its own. *)
SetUdpSocket(u, o) ==
  /\ obj[u].cls = "UDP"
  /\ obj[u].phase = "bound"
  /\ obj[u].st \in {"open", "closed"}
  /\ \E left \in {{}, {u}} :
       NewObject(o, "UDT", "new", UdpOfFactory(obj[u].m_socket), left, sock)
  /\ UNCHANGED threads

-----------------------------------------------------------------------------
(* Setting up *)

(* The port a Bind asks for, 0: any.  UDPSocket and UDTSocket drop the port when
   there is no host; a host that does not resolve leaves the address zero. *)
BindTcp(host, port) == IF host = "unknown" THEN 0 ELSE port
BindUdp(host, port) == IF host = "name" THEN port ELSE 0
BindUdt(host, port) == IF host = "name" THEN port ELSE 0

Asked(cls, host, port) ==
  CASE cls = "TCP" -> BindTcp(host, port)
    [] cls = "UDP" -> BindUdp(host, port)
    [] cls = "UDT" -> BindUdt(host, port)

(* The port that a bind gives to the object's socket, if it does not fail; which
   of the free ones the system takes is of no matter here *)
Ports(o, host, port) ==
  LET udp == obj[o].m_udpSocket
      free == Port \ InUse(obj[o].cls)
      asked == Asked(obj[o].cls, host, port)
  IN CASE Kernel(o) = 0 -> {}
       [] Kernel(o) # 0 /\ udp # INVALID_SOCKET ->
            IF desc[udp] = 0 THEN {} ELSE {sock[desc[udp]].port}
       [] OTHER -> IF asked = 0 /\ free # {} THEN {Min(free)} ELSE free \cap {asked}

(* The port that the other side is told: of a UDPSocket when it is bound, of the
   others when they listen *)
GetIPPortUdp(o, socks) == IF Kernel(o) = 0 THEN 0 ELSE socks[Kernel(o)].port

GetIPPort(o) == IF Kernel(o) = 0 THEN 0 ELSE sock[Kernel(o)].port

GetIPPortUdt(o) ==
  IF obj[o].m_udpSocket # INVALID_SOCKET /\ desc[obj[o].m_udpSocket] # 0
  THEN sock[desc[obj[o].m_udpSocket]].port
  ELSE sock[obj[o].m_socket].port

(* Listen, Accept and Connect of a UDPSocket do nothing and fail *)
HasStream(o) == obj[o].cls # "UDP"

(* ConnectThread goes on when Bind failed, the other threads give up *)
Bind(o, host, port) ==
  /\ obj[o].phase = "made"
  /\ \/ \E p \in Ports(o, host, port) :
          /\ sock' = [sock EXCEPT ![Kernel(o)].port = p]
          /\ obj' = [obj EXCEPT ![o].phase = "bound",
                                ![o].told = IF obj[o].cls = "UDP" THEN GetIPPortUdp(o, sock')
                                             ELSE 0]
     \/ /\ Ports(o, host, port) = {}
        /\ \E next \in {"failed"} \cup (IF HasStream(o) THEN {"unbound"} ELSE {}) :
             obj' = [obj EXCEPT ![o].phase = next]
        /\ UNCHANGED sock
  /\ UNCHANGED <<desc, made, threads, shared>>

ListenTcp(c) == Mode(c) = "new" /\ sock[c].kind = "TCP"
ListenUdt(c) == Mode(c) = "new" /\ sock[c].port # 0

Listen(o) ==
  /\ obj[o].phase = "bound"
  /\ HasStream(o)
  /\ obj[o].m_udpSocket = INVALID_SOCKET
  /\ LET c == Kernel(o)
         ok == IF obj[o].cls = "UDT" THEN ListenUdt(c) ELSE ListenTcp(c)
         port == IF obj[o].cls = "UDT" THEN GetIPPortUdt(o) ELSE GetIPPort(o)
     IN /\ obj' = [obj EXCEPT ![o].phase = IF ok THEN "listen" ELSE "failed",
                              ![o].told = IF ok THEN port ELSE 0]
        /\ sock' = IF ok THEN [sock EXCEPT ![c].mode = "listen"] ELSE sock
  /\ UNCHANGED <<desc, made, threads, shared>>

(* A connect that finds the other side, bound or not; one that does not fails *)
ConnectTcp(c) == Mode(c) = "new"
ConnectUdt(c) == Mode(c) = "new"

Connect(o) ==
  /\ obj[o].phase \in {"bound", "unbound"}
  /\ HasStream(o)
  /\ LET c == Kernel(o)
     IN \/ /\ IF obj[o].cls = "UDT" THEN ConnectUdt(c) ELSE ConnectTcp(c)
           /\ sock' = [sock EXCEPT ![c].mode = "conn"]
           /\ obj' = [obj EXCEPT ![o].phase = "up"]
        \/ /\ obj' = [obj EXCEPT ![o].phase = "failed"]
           /\ UNCHANGED sock
  /\ UNCHANGED <<desc, made, threads, shared>>

(* Accept: the listen thread blocks in the socket it names; then the connection
   gets an object, or Accept fails and the thread ends *)
AcceptCall(o) ==
  /\ obj[o].phase = "listen"
  /\ rcv[o].pc = "idle"
  /\ rcv' = [rcv EXCEPT ![o] = [pc |-> "accept", on |-> Kernel(o), left |-> 0]]
  /\ UNCHANGED <<desc, sock, made, obj, m_cs, snd, shared>>

Accept(o, p) ==
  /\ rcv[o].pc = "accept"
  /\ Mode(rcv[o].on) = "listen" /\ Pending(rcv[o].on)
  /\ obj[o].cls = "UDT" \/ FreeFd # {}
  /\ NewObject(p, obj[o].cls, "conn", INVALID_SOCKET, {},
               [sock EXCEPT ![rcv[o].on].pend = FALSE])
  /\ rcv' = [rcv EXCEPT ![o] = Idle]
  /\ UNCHANGED <<m_cs, snd>>

AcceptFails(o) ==
  /\ rcv[o].pc = "accept"
  /\ \/ Mode(rcv[o].on) # "listen"
     \/ obj[o].cls # "UDT" /\ Pending(rcv[o].on) /\ FreeFd = {}
  /\ obj' = [obj EXCEPT ![o].phase = "failed"]
  /\ rcv' = [rcv EXCEPT ![o] = Idle]
  /\ UNCHANGED <<desc, sock, made, m_cs, snd, shared>>

-----------------------------------------------------------------------------
(* Send: m_cs is held for the loop *)

(* Mutant: the loop without m_cs *)
MayEnterUnlocked(o) == TRUE

MayEnter(o) == m_cs[o] = 0

CanSend(o) ==
  \/ obj[o].cls # "UDP" /\ obj[o].phase = "up"
  \/ obj[o].cls = "UDP" /\ obj[o].phase = "bound"    \* with SetSendAddr called

SendStart(s, o) ==
  /\ snd[s].pc = "idle"
  /\ \A t \in Sender : t < s => snd[t].pc # "idle"
  /\ CanSend(o)
  /\ obj[o].st \in {"open", "closed"}
  /\ obj[o].m_socket # INVALID_SOCKET
  /\ MayEnter(o)
  /\ m_cs' = [m_cs EXCEPT ![o] = s]
  /\ snd' = [snd EXCEPT ![s] = [pc |-> "send", obj |-> o, left |-> MsgLen]]
  /\ UNCHANGED <<desc, sock, made, obj, rcv, shared>>

(* One send, which takes some of the bytes or fails *)
Bytes(s, k) ==
  [i \in 1..k |-> [by |-> s, obj |-> snd[s].obj, n |-> MsgLen - snd[s].left + i]]

Writable(c) ==
  /\ Mode(c) \in {"new", "conn"}
  /\ sock[c].kind = "UDP" <=> sock[c].mode = "new"

Sendlen(s, res) == snd[s].left - res

SendSome(s, k) ==
  LET c == Kernel(snd[s].obj) IN
  /\ snd[s].pc = "send"
  /\ k \in 1..snd[s].left
  /\ Writable(c)
  /\ sock' = [sock EXCEPT ![c].out = @ \o Bytes(s, k)]
  /\ snd' = [snd EXCEPT ![s].left = Sendlen(s, k)]
  /\ UNCHANGED <<desc, made, obj, m_cs, rcv, shared>>

SendEnd(s) ==
  LET o == snd[s].obj IN
  /\ snd[s].pc = "send"
  /\ snd[s].left = 0 \/ ~Writable(Kernel(o))
  /\ m_cs' = [m_cs EXCEPT ![o] = 0]
  /\ snd' = [snd EXCEPT ![s] = [pc |-> "sent", obj |-> Min(Obj), left |-> 0]]
  /\ UNCHANGED <<desc, sock, made, obj, rcv, shared>>

-----------------------------------------------------------------------------
(* Recv: each turn of the loop blocks in the socket that the number names then *)

RecvStart(o) ==
  /\ rcv[o].pc = "idle"
  /\ obj[o].phase = "up"
  /\ obj[o].m_socket # INVALID_SOCKET
  /\ rcv' = [rcv EXCEPT ![o] = [pc |-> "recv", on |-> Kernel(o), left |-> MsgLen]]
  /\ UNCHANGED <<desc, sock, made, obj, m_cs, snd, shared>>

RecvSome(o, k) ==
  LET c == rcv[o].on IN
  /\ rcv[o].pc = "recv"
  /\ c # 0
  /\ k \in 1..rcv[o].left
  /\ k =< sock[c].in
  /\ sock' = [sock EXCEPT ![c].in = @ - k]
  /\ rcv' = [rcv EXCEPT ![o] = IF k = @.left THEN Idle
                               ELSE [@ EXCEPT !.on = Kernel(o), !.left = rcv[o].left - k]]
  /\ UNCHANGED <<desc, made, obj, m_cs, snd, shared>>

(* 0 or an error: the connector's thread ends *)
RecvFails(o) ==
  LET c == rcv[o].on IN
  /\ rcv[o].pc = "recv"
  /\ Mode(c) \in {"bad", "shut"} \/ (Mode(c) = "eof" /\ sock[c].in = 0)
  /\ rcv' = [rcv EXCEPT ![o] = Idle]
  /\ obj' = [obj EXCEPT ![o].phase = "failed"]
  /\ UNCHANGED <<desc, sock, made, m_cs, snd, shared>>

-----------------------------------------------------------------------------
(* Close *)

(* Mutant: the descriptor is closed without shutdown *)
ShutdownNone(cs) == sock

(* shutdown of the sockets behind the descriptors, and the end of a UDT socket *)
Shutdown(cs) == 
  [c \in Sock |-> IF c \in cs THEN [sock[c] EXCEPT !.mode = "shut", !.in = 0, !.pend = FALSE]
                   ELSE sock[c]]

(* Mutant: the number of a UDT socket is closed as a descriptor *)
ClosedFdsUdt(o) == ({obj[o].m_socket} \cup Named(obj[o])) \cap Fd

ClosedFds(o) == Named(obj[o])

CloseNumbers(o) ==
  /\ desc' = [f \in Fd |-> IF f \in ClosedFds(o) THEN 0 ELSE desc[f]]
  /\ sock' = Shutdown(({desc[f] : f \in ClosedFds(o)} \cup {Kernel(o)}) \ {0})

(* Connector::Stop, ListenThread::Stop, ConnectThread::Stop: at any time *)
Close(o) ==
  /\ obj[o].st \in {"open", "closed"}
  /\ obj[o].m_socket # INVALID_SOCKET
  /\ CloseNumbers(o)
  /\ obj' = [obj EXCEPT ![o].st = "closed"]
  /\ UNCHANGED <<made, threads, shared>>

(* The destructor closes once more.  Nobody is in a call of the object. *)
Delete(o) ==
  /\ obj[o].st \in {"open", "closed"}
  /\ obj[o].phase = "failed"
  /\ rcv[o].pc = "idle"
  /\ \A s \in Sender : snd[s].pc # "send" \/ snd[s].obj # o
  /\ IF obj[o].m_socket # INVALID_SOCKET THEN CloseNumbers(o) ELSE UNCHANGED <<desc, sock>>
  /\ obj' = [obj EXCEPT ![o].st = "deleted"]
  /\ UNCHANGED <<made, threads, shared>>

-----------------------------------------------------------------------------
(* The other side: it connects, sends, and closes *)

PeerConnects(c) ==
  /\ c =< made /\ sock[c].mode = "listen" /\ ~sock[c].pend
  /\ sock' = [sock EXCEPT ![c].pend = TRUE]
  /\ UNCHANGED <<desc, made, obj, threads, shared>>

PeerSends(c) ==
  /\ c =< made /\ sock[c].mode = "conn" /\ sock[c].in < MaxIn
  /\ sock' = [sock EXCEPT ![c].in = @ + 1]
  /\ UNCHANGED <<desc, made, obj, threads, shared>>

PeerCloses(c) ==
  /\ c =< made /\ sock[c].mode = "conn"
  /\ sock' = [sock EXCEPT ![c].mode = "eof"]
  /\ UNCHANGED <<desc, made, obj, threads, shared>>

-----------------------------------------------------------------------------
Init ==
  /\ desc = [f \in Fd |-> 0]
  /\ sock = [c \in Sock |-> Fresh("none", "none")]
  /\ made = 0
  /\ obj = [o \in Obj |-> [cls |-> "none", st |-> "none", phase |-> "none",
                           m_socket |-> INVALID_SOCKET, m_udpSocket |-> INVALID_SOCKET,
                           own |-> 0, told |-> 0, after |-> {}]]
  /\ m_cs = [o \in Obj |-> 0]
  /\ snd = [s \in Sender |-> [pc |-> "idle", obj |-> Min(Obj), left |-> 0]]
  /\ rcv = [o \in Obj |-> Idle]
  /\ shared = {}

ReceiverStep(o) ==
  \/ AcceptCall(o) \/ AcceptFails(o)
  \/ \E p \in Obj : Accept(o, p)
  \/ RecvStart(o) \/ RecvFails(o)
  \/ \E k \in 1..MsgLen : RecvSome(o, k)

Next ==
  \/ \E o \in Obj :
       \/ CreateTcp(o) \/ CreateUdp(o) \/ CreateUdt(o)
       \/ \E u \in Obj : SetUdpSocket(u, o)
       \/ \E host \in {"", "name", "unknown"} : Bind(o, host, Min(Port))
       \/ Listen(o) \/ Connect(o)
       \/ ReceiverStep(o)
       \/ Close(o) \/ Delete(o)
  \/ \E s \in Sender :
       \/ \E o \in Obj : SendStart(s, o)
       \/ \E k \in 1..MsgLen : SendSome(s, k)
       \/ SendEnd(s)
  \/ \E c \in Sock : PeerConnects(c) \/ PeerSends(c) \/ PeerCloses(c)

Spec == Init /\ [][Next]_vars

(* A thread whose call can return goes on; nobody has to close, connect or send *)
FairSpec == Spec /\ \A o \in Obj : WF_vars(ReceiverStep(o))

-----------------------------------------------------------------------------
TypeOK ==
  /\ desc \in [Fd -> 0..MaxSock]
  /\ made \in 0..MaxSock
  /\ \A c \in Sock :
       /\ sock[c].mode \in {"none", "new", "listen", "conn", "eof", "shut"}
       /\ sock[c].port \in Port \cup {0}
       /\ sock[c].in \in 0..MaxIn
       /\ Len(sock[c].out) =< MsgLen * Cardinality(Sender)
  /\ \A o \in Obj :
       /\ obj[o].st \in {"none", "open", "closed", "left", "deleted"}
       /\ obj[o].phase \in {"none", "made", "bound", "unbound", "listen", "up", "failed"}
       /\ obj[o].m_udpSocket \in Fd \cup {INVALID_SOCKET}
       /\ rcv[o].left \in 0..MsgLen
  /\ \A s \in Sender : snd[s].left \in 0..MsgLen
  /\ shared \subseteq Obj

(* The i-th byte of a stream is the object's latest one before the j-th *)
LastBefore(out, o, i, j) ==
  i < j /\ out[i].obj = o /\ \A h \in (i + 1)..(j - 1) : out[h].obj # o

(* What an object writes on its own socket is whole messages, whoever else
   sends through it: only the last one may be cut, by the socket's end.  A byte of
   the object that begins a message follows the end of one, every other follows the
   byte before it in the same message. *)
SendsWhole ==
  \A o \in Obj :
    obj[o].own # 0 =>
      LET out == sock[obj[o].own].out
      IN \A j \in DOMAIN out : out[j].obj = o =>
           IF out[j].n = 1
           THEN \A i \in 1..(j - 1) : LastBefore(out, o, i, j) => out[i].n = MsgLen
           ELSE \E i \in 1..(j - 1) : /\ LastBefore(out, o, i, j)
                                      /\ out[i].n = out[j].n - 1
                                      /\ out[i].by = out[j].by

(* An object that is not closed reaches its own socket, although descriptors are
   given again, unless another object that will still close it has named its
   descriptor: Close forgets no number.  And the state is well typed.  *)
OwnSocket ==
  /\ TypeOK
  /\ \A o \in Obj \ shared :
       obj[o].st = "open" /\ obj[o].own # 0 =>
         Kernel(o) = obj[o].own /\ sock[Kernel(o)].mode # "shut"

(* The other side finds us at the port it was told: a listener at its own, and the
   UDT socket of a tunnel at that of the UDP socket it took over *)
ToldPortKept ==
  \A o \in Obj \ shared :
    obj[o].st = "open" =>
      /\ obj[o].phase = "listen" => sock[obj[o].own].port = obj[o].told
      /\ \A u \in obj[o].after : sock[obj[o].own].port \in {0, obj[u].told}

(* A thread blocked in Recv or Accept returns once its object is closed *)
CloseWakes ==
  \A o \in Obj :
    (obj[o].st = "closed" /\ rcv[o].pc # "idle" /\ o \notin shared)
      ~> (rcv[o].pc = "idle" \/ o \in shared)
=============================================================================
