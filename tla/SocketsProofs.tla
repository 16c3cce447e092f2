----------------------------- MODULE SocketsProofs -----------------------------
(***************************************************************************)
(* Proofs about Sockets, for any objects, descriptors, senders and ports,  *)
(* and messages of any length.                                             *)
(***************************************************************************)
EXTENDS Sockets, FiniteSetTheorems, TLAPS

Class == {"TCP", "UDP", "UDT"}
ByteType == [by : Sender, obj : Obj, n : 1..MsgLen]
SockType ==
  [kind : Class \cup {"none"}, mode : {"none", "new", "listen", "conn", "eof", "shut"},
   port : Port \cup {0}, out : Seq(ByteType), in : 0..MaxIn, pend : BOOLEAN]
ObjType ==
  [cls : Class \cup {"none"}, st : {"none", "open", "closed", "left", "deleted"},
   phase : {"none", "made", "bound", "unbound", "listen", "up", "failed"},
   m_socket : Nat, m_udpSocket : Fd \cup {INVALID_SOCKET}, own : 0..MaxSock,
   told : Port \cup {0}, after : SUBSET Obj]
SndType == [pc : {"idle", "send", "sent"}, obj : Obj \cup {Min(Obj)}, left : 0..MsgLen]
RcvType == [pc : {"idle", "accept", "recv"}, on : 0..MaxSock, left : 0..MsgLen]

TypeInv ==
  /\ desc \in [Fd -> 0..MaxSock] /\ made \in 0..MaxSock
  /\ sock \in [Sock -> SockType] /\ obj \in [Obj -> ObjType]
  /\ m_cs \in [Obj -> Sender \cup {0}]
  /\ snd \in [Sender -> SndType] /\ rcv \in [Obj -> RcvType]
  /\ \A s \in Sender : snd[s].pc = "send" => snd[s].obj \in Obj
  /\ shared \subseteq Obj

-----------------------------------------------------------------------------
(* The tables: a socket is behind one descriptor at most, and UDT's behind none *)
DescOK ==
  /\ \A f \in Fd : desc[f] # 0 => desc[f] <= made /\ sock[desc[f]].kind # "UDT"
  /\ \A f, g \in Fd : desc[f] # 0 /\ desc[f] = desc[g] => f = g

(* What an object r is to its socket *)
NumbersOK(r) ==
  /\ r.st = "none" =>
       /\ r.cls = "none" /\ r.phase = "none" /\ r.own = 0
       /\ r.m_socket = INVALID_SOCKET /\ r.m_udpSocket = INVALID_SOCKET /\ r.after = {}
  /\ r.cls = "none" => r.st = "none"
  /\ r.own = 0 => r.m_socket = INVALID_SOCKET /\ r.cls # "UDT"
  /\ r.own # 0 =>
       /\ r.own <= made /\ r.cls \in Class /\ sock[r.own].kind = r.cls
       /\ IF r.cls = "UDT" THEN r.m_socket = r.own ELSE r.m_socket \in Fd
  /\ r.phase = "made" => r.st \in {"open", "closed"}
  /\ r.phase = "listen" => r.cls # "UDP"

OwnersOK == \A o, p \in Obj : obj[o].own # 0 /\ obj[o].own = obj[p].own => o = p

ReceiversOK ==
  \A o \in Obj : /\ rcv[o].pc # "idle" => obj[o].phase # "none"
                 /\ rcv[o].pc = "accept" => obj[o].cls \in {"TCP", "UDT"}

TablesInv ==
  /\ TypeInv /\ DescOK /\ OwnersOK /\ ReceiversOK
  /\ \A o \in Obj : NumbersOK(obj[o])

-----------------------------------------------------------------------------
(* An object that will close its numbers, perhaps once more *)
Live(o) == obj[o].st \in {"open", "closed"}
Share(o, p) == o # p /\ Live(o) /\ Live(p) /\ Named(obj[o]) \cap Named(obj[p]) # {}

SharedOK == \A o, p \in Obj : Share(o, p) => o \in shared

Reached ==
  \A o \in Obj \ shared : obj[o].st = "open" /\ obj[o].own # 0 =>
    Kernel(o) = obj[o].own /\ sock[obj[o].own].mode # "shut"

OwnInv == SharedOK /\ Reached

-----------------------------------------------------------------------------
(* The critical section of an object holds the one thread that sends through it *)
SectionOK ==
  /\ \A s \in Sender : snd[s].pc = "send" => m_cs[snd[s].obj] = s
  /\ \A o \in Obj : m_cs[o] # 0 =>
       snd[m_cs[o]].pc = "send" /\ snd[m_cs[o]].obj = o /\ obj[o].own # 0

(* No byte of a message is twice in a stream, and none is there that is yet to be sent *)
Once(out) ==
  \A i, j \in 1..Len(out) : out[i].by = out[j].by /\ out[i].n = out[j].n => i = j
BytesOnce(out) ==
  /\ Once(out)
  /\ \A i \in 1..Len(out) :
       /\ snd[out[i].by].pc # "idle"
       /\ snd[out[i].by].pc = "send" => out[i].n <= MsgLen - snd[out[i].by].left

(* The i-th byte is the object's latest one *)
Latest(out, o, i) == out[i].obj = o /\ \A h \in (i + 1)..Len(out) : out[h].obj # o

Whole(out, o) ==
  \A j \in 1..Len(out) : out[j].obj = o =>
    IF out[j].n = 1
    THEN \A i \in 1..(j - 1) : LastBefore(out, o, i, j) => out[i].n = MsgLen
    ELSE \E i \in 1..(j - 1) : /\ LastBefore(out, o, i, j)
                               /\ out[i].n = out[j].n - 1
                               /\ out[i].by = out[j].by

(* The stream ends where thread s has got to with its message, at byte done, or at the
   end of a message *)
EndsAt(out, s, o, done) ==
  IF done = 0 THEN \A i \in 1..Len(out) : Latest(out, o, i) => out[i].n = MsgLen
  ELSE \E i \in 1..Len(out) : Latest(out, o, i) /\ out[i].by = s /\ out[i].n = done

(* How much the thread in the critical section has sent *)
Got(o) == IF m_cs[o] = 0 THEN 0 ELSE MsgLen - snd[m_cs[o]].left

EndsRight(out, o) == EndsAt(out, m_cs[o], o, Got(o))

(* The stream of an object on its own socket: whole messages; if more can be sent on it,
   it ends right; if it is not connected yet, it is empty and nobody sends *)
StreamOK(o) ==
  LET c == obj[o].own IN
  /\ Whole(sock[c].out, o)
  /\ Kernel(o) = c /\ Writable(c) => EndsRight(sock[c].out, o)
  /\ obj[o].cls # "UDP" /\ sock[c].mode \in {"new", "listen"} =>
       /\ \A i \in 1..Len(sock[c].out) : sock[c].out[i].obj # o
       /\ Kernel(o) = c => obj[o].phase # "up" /\ m_cs[o] = 0

SendInv ==
  /\ SectionOK
  /\ \A c \in Sock : BytesOnce(sock[c].out)
  /\ \A o \in Obj : obj[o].own # 0 => StreamOK(o)

-----------------------------------------------------------------------------
(* The descriptor of a UDPSocket is still its socket's *)
Held(u) == obj[u].cls = "UDP" /\ obj[u].own # 0 /\ desc[obj[u].m_socket] = obj[u].own

(* The descriptor that an object will close, and who will close u's *)
Closing(r) == IF r.cls = "UDT" THEN r.m_udpSocket ELSE r.m_socket
Rival(u, p) ==
  p # u /\ Live(p) /\ obj[p].own # 0 /\ Closing(obj[p]) = obj[u].m_socket

(* A UDPSocket that is bound keeps its port unless another object will close its
   descriptor; when the program has forgotten it, the UDT object that took it over will *)
BoundKeeps(u) ==
  obj[u].phase = "bound" =>
    /\ obj[u].own # 0
    /\ Live(u) /\ Held(u) =>
         sock[obj[u].own].port = obj[u].told \/ \E p \in Obj : Rival(u, p)
LeftKept(u) ==
  obj[u].st \in {"left", "deleted"} /\ Held(u) =>
    \E p \in Obj : Live(p) /\ obj[p].cls = "UDT" /\ obj[p].m_udpSocket = obj[u].m_socket

(* The descriptor is closed by the time its object is deleted *)
DeletedFree ==
  \A q \in Obj : obj[q].own # 0 /\ obj[q].cls # "UDT" =>
    /\ obj[q].st = "deleted" => desc[obj[q].m_socket] # obj[q].own
    /\ obj[q].st = "left" => obj[q].cls = "UDP"
DescOwned ==
  \A f \in Fd : desc[f] # 0 =>
    \E q \in Obj : obj[q].own = desc[f] /\ obj[q].m_socket = f /\ obj[q].cls # "UDT"

(* The listener's port, and the port of a tunnel's UDT socket *)
ListenKeeps(o) ==
  obj[o].phase = "listen" =>
    obj[o].own # 0 /\ sock[obj[o].own].port = obj[o].told
TookOver(o, u) ==
  /\ obj[u].cls = "UDP" /\ obj[u].st = "left" /\ obj[u].own # 0
  /\ obj[o].cls = "UDT" /\ obj[o].m_udpSocket = obj[u].m_socket
  /\ desc[obj[u].m_socket] \in {0, obj[u].own}
  /\ Held(u) => sock[obj[u].own].port = obj[u].told
  /\ sock[obj[o].own].port \in {0, obj[u].told}

PortInv ==
  /\ \A u \in Obj : BoundKeeps(u) /\ LeftKept(u)
  /\ DeletedFree /\ DescOwned
  /\ \A o \in Obj \ shared : obj[o].st = "open" =>
       ListenKeeps(o) /\ \A u \in obj[o].after : TookOver(o, u)

-----------------------------------------------------------------------------
(* The least of some numbers is one of them *)
LEMMA MinIn ==
  ASSUME NEW T, T \subseteq Nat, T # {}
  PROVE  Min(T) \in T
<1> DEFINE Less == {ss \in Nat \X Nat : ss[1] < ss[2]}
<1>1. IsWellFoundedOn(Less, Nat)
  BY NatLessThanWellFounded DEF OpToRel
<1>2. \E x \in T : \A y \in T : <<y, x>> \notin Less
  <2> HIDE DEF Less
  <2> QED
    BY <1>1, WFMin
<1>3. \E x \in T : \A y \in T : x =< y
  <2>1. PICK x \in T : \A y \in T : <<y, x>> \notin Less
    BY <1>2
  <2>2. ASSUME NEW y \in T PROVE x =< y
    <3>1. <<y, x>> \in Nat \X Nat /\ <<y, x>>[1] = y /\ <<y, x>>[2] = x
      OBVIOUS
    <3>2. ~(y < x)
      BY <2>1, <3>1
    <3> QED
      BY <3>1, <3>2
  <2> QED
    BY <2>2
<1> QED
  BY <1>3 DEF Min

(* An object whose st changes keeps the rest *)
LEMMA WithSt ==
  ASSUME NEW r \in ObjType, NEW st \in {"none", "open", "closed", "left", "deleted"}
  PROVE  /\ [r EXCEPT !.st = st] \in ObjType /\ [r EXCEPT !.st = st].st = st
         /\ [r EXCEPT !.st = st].cls = r.cls /\ [r EXCEPT !.st = st].phase = r.phase
         /\ [r EXCEPT !.st = st].m_socket = r.m_socket
         /\ [r EXCEPT !.st = st].m_udpSocket = r.m_udpSocket
         /\ [r EXCEPT !.st = st].own = r.own /\ [r EXCEPT !.st = st].told = r.told
         /\ [r EXCEPT !.st = st].after = r.after
  BY DEF ObjType

(* A socket of which a connection is taken is still one *)
LEMMA WithPend ==
  ASSUME NEW r \in SockType
  PROVE  [r EXCEPT !.pend = FALSE] \in SockType
  BY DEF SockType

(* What NewObject does: r is the object *)
Comes(o, r, mode, left, socks) ==
  /\ obj[o].st = "none" /\ r.st = "open" /\ r.told = 0 /\ r.after = left
  /\ r.phase = IF mode = "conn" THEN "up" ELSE "made"
  /\ obj' \in [Obj -> ObjType] /\ obj'[o] = r
  /\ \A p \in Obj \ {o} :
       obj'[p] = IF p \in left THEN [obj[p] EXCEPT !.st = "left"] ELSE obj[p]
  /\ \/ /\ r.own = made + 1 /\ made + 1 \in Sock /\ made' = made + 1
        /\ sock' = [socks EXCEPT ![made + 1] = Fresh(r.cls, mode)]
        /\ IF r.cls = "UDT" THEN r.m_socket = made + 1 /\ desc' = desc
           ELSE /\ r.m_socket \in Fd /\ desc[r.m_socket] = 0
                /\ desc' = [desc EXCEPT ![r.m_socket] = made + 1]
     \/ /\ r.own = 0 /\ r.m_socket = INVALID_SOCKET /\ r.cls # "UDT"
        /\ sock' = socks /\ UNCHANGED <<made, desc>>
  /\ shared \subseteq shared' /\ shared' \subseteq Obj
  /\ Sharing(o, r, left) # {} => Sharing(o, r, left) \cup {o} \subseteq shared'

(* The record of the new object, whichever way the tables are left *)
LEMMA NewObjectComes ==
  ASSUME TypeInv, NEW o \in Obj, NEW cls \in Class, NEW mode \in {"new", "conn"},
         NEW udp \in Fd \cup {0}, NEW left \in SUBSET (Obj \ {o}), NEW socks \in [Sock -> SockType],
         NewObject(o, cls, mode, udp, left, socks)
  PROVE  \E r \in ObjType : /\ r.cls = cls /\ r.m_udpSocket = udp
                            /\ Comes(o, r, mode, left, socks)
<1> DEFINE ok == cls = "UDT" \/ FreeFd # {}
           r == [cls |-> cls, st |-> "open", phase |-> IF mode = "conn" THEN "up" ELSE "made",
                 m_socket |-> CASE ~ok -> INVALID_SOCKET
                                [] cls = "UDT" -> made + 1
                                [] OTHER -> Min(FreeFd),
                 m_udpSocket |-> udp,
                 own |-> IF ok THEN made + 1 ELSE 0, told |-> 0, after |-> left]
<1>1. /\ obj[o].st = "none" /\ made < MaxSock
      /\ obj' = [p \in Obj |-> CASE p = o -> r
                                 [] p \in left -> [obj[p] EXCEPT !.st = "left"]
                                 [] OTHER -> obj[p]]
      /\ made' = IF ok THEN made + 1 ELSE made
      /\ sock' = IF ok THEN [socks EXCEPT ![made + 1] = Fresh(cls, mode)] ELSE socks
      /\ desc' = IF ok /\ cls # "UDT" THEN [desc EXCEPT ![Min(FreeFd)] = made + 1] ELSE desc
      /\ shared' = IF Sharing(o, r, left) = {} THEN shared
                   ELSE shared \cup Sharing(o, r, left) \cup {o}
  BY DEF NewObject
<1>2. /\ made \in Nat /\ MaxSock \in Nat /\ made + 1 \in Sock /\ made + 1 \in 0..MaxSock
  BY <1>1, SocketsAssumption DEF TypeInv, Sock
<1>3. FreeFd # {} => Min(FreeFd) \in FreeFd
  BY MinIn, SocketsAssumption DEF FreeFd
<1>4. FreeFd # {} => Min(FreeFd) \in Fd /\ Min(FreeFd) \in Nat /\ desc[Min(FreeFd)] = 0
  BY <1>3, SocketsAssumption DEF FreeFd
<1> HIDE DEF ok
<1>5. r.m_socket \in Nat /\ r.own \in 0..MaxSock
  BY <1>2, <1>4 DEF ok, INVALID_SOCKET
<1>6. r \in ObjType
  BY <1>5, <1>2 DEF ObjType, Class, INVALID_SOCKET
<1> DEFINE m == r.m_socket
<1>7. /\ r.cls = cls /\ r.m_udpSocket = udp /\ r.st = "open" /\ r.told = 0 /\ r.after = left
      /\ r.phase = IF mode = "conn" THEN "up" ELSE "made"
      /\ ~ok => r.own = 0 /\ m = INVALID_SOCKET /\ cls # "UDT"
      /\ ok => r.own = made + 1 /\ m = IF cls = "UDT" THEN made + 1 ELSE Min(FreeFd)
  BY DEF ok
<1> HIDE DEF r
<1>8. obj' \in [Obj -> ObjType] /\ obj'[o] = r
  <2>1. \A p \in Obj : obj[p] \in ObjType /\ [obj[p] EXCEPT !.st = "left"] \in ObjType
    BY WithSt DEF TypeInv
  <2> DEFINE val(p) == CASE p = o -> r
                         [] p \in left -> [obj[p] EXCEPT !.st = "left"]
                         [] OTHER -> obj[p]
  <2>2. \A p \in Obj : val(p) \in ObjType
    BY <1>6, <2>1
  <2>3. val(o) = r
    OBVIOUS
  <2>4. obj' = [p \in Obj |-> val(p)]
    BY <1>1, Zenon
  <2> HIDE DEF val
  <2> QED
    BY <2>2, <2>3, <2>4
<1>9. \A p \in Obj \ {o} :
        obj'[p] = IF p \in left THEN [obj[p] EXCEPT !.st = "left"] ELSE obj[p]
  BY <1>1
<1>10. Sharing(o, r, left) \subseteq Obj
  BY DEF Sharing
<1>11. shared \subseteq shared' /\ shared' \subseteq Obj
       /\ (Sharing(o, r, left) # {} => Sharing(o, r, left) \cup {o} \subseteq shared')
  BY <1>1, <1>10 DEF TypeInv
<1>12. CASE ok
  <2>1. cls # "UDT" => FreeFd # {}
    BY <1>12 DEF ok
  <2>2. /\ r.own = made + 1 /\ made + 1 \in Sock /\ made' = made + 1
        /\ sock' = [socks EXCEPT ![made + 1] = Fresh(r.cls, mode)]
    BY <1>12, <1>1, <1>2, <1>7
  <2>3. IF r.cls = "UDT" THEN r.m_socket = made + 1 /\ desc' = desc
        ELSE /\ r.m_socket \in Fd /\ desc[r.m_socket] = 0
             /\ desc' = [desc EXCEPT ![r.m_socket] = made + 1]
    BY <1>12, <2>1, <1>1, <1>4, <1>7
  <2>4. Comes(o, r, mode, left, socks)
    BY <2>2, <2>3, <1>1, <1>7, <1>8, <1>9, <1>11 DEF Comes
  <2> QED
    BY <2>4, <1>6, <1>7
<1>13. CASE ~ok
  BY <1>13, <1>1, <1>6, <1>7, <1>8, <1>9, <1>11 DEF Comes
<1> QED
  BY <1>12, <1>13

(* A step in which an object comes to be *)
NewStep(o, r, mode, left, socks) ==
  /\ Comes(o, r, mode, left, socks)
  /\ r.cls \in Class /\ mode \in {"new", "conn"}
  /\ mode = "conn" => r.cls # "UDP"
  /\ UNCHANGED <<m_cs, snd>> /\ rcv' \in [Obj -> RcvType]
  /\ \A q \in Obj : rcv'[q].pc \in {rcv[q].pc, "idle"}
  /\ socks \in [Sock -> SockType]
  /\ \A c \in Sock : \/ socks[c] = sock[c]
                     \/ socks[c] = [sock[c] EXCEPT !.pend = FALSE]
  /\ \/ left = {} /\ r.m_udpSocket = INVALID_SOCKET
     \/ \E u \in Obj : /\ obj[u].cls = "UDP" /\ obj[u].phase = "bound" /\ Live(u)
                       /\ r.cls = "UDT" /\ r.m_udpSocket = obj[u].m_socket
                       /\ left \in {{}, {u}}

Creates(o) ==
  \/ CreateTcp(o) \/ CreateUdp(o) \/ CreateUdt(o)
  \/ \E u \in Obj : SetUdpSocket(u, o)
  \/ \E q \in Obj : Accept(q, o)

(* Every creation is a NewStep: the factories, SetUdpSocket and Accept *)
LEMMA CreateStep ==
  ASSUME TablesInv, NEW o \in Obj, Creates(o)
  PROVE  \E r \in ObjType, mode \in {"new", "conn"}, left \in SUBSET Obj,
            socks \in [Sock -> SockType] : NewStep(o, r, mode, left, socks)
<1> USE DEF TablesInv
<1>1. CASE CreateTcp(o) \/ CreateUdp(o) \/ CreateUdt(o)
  <2>1. PICK cls \in Class : NewObject(o, cls, "new", 0, {}, sock) /\ UNCHANGED threads
    BY <1>1 DEF CreateTcp, CreateUdp, CreateUdt, Class, INVALID_SOCKET
  <2>2. PICK r \in ObjType : /\ r.cls = cls /\ r.m_udpSocket = 0
                             /\ Comes(o, r, "new", {}, sock)
    <3>1. sock \in [Sock -> SockType] /\ {} \in SUBSET (Obj \ {o}) /\ 0 \in Fd \cup {0} /\ TypeInv
      BY DEF TypeInv
    <3> QED
      BY <2>1, <3>1, NewObjectComes
  <2>3. NewStep(o, r, "new", {}, sock)
    BY <2>1, <2>2 DEF NewStep, threads, TypeInv, INVALID_SOCKET
  <2> QED
    BY <2>3 DEF TypeInv
<1>2. ASSUME NEW u \in Obj, SetUdpSocket(u, o)
      PROVE  \E r \in ObjType, mode \in {"new", "conn"}, left \in SUBSET Obj,
                socks \in [Sock -> SockType] : NewStep(o, r, mode, left, socks)
  <2>1. PICK left \in {{}, {u}} :
          /\ NewObject(o, "UDT", "new", obj[u].m_socket, left, sock) /\ UNCHANGED threads
          /\ obj[u].cls = "UDP" /\ obj[u].phase = "bound" /\ Live(u)
    BY <1>2 DEF SetUdpSocket, UdpOfFactory, Live
  <2>2. obj[u].m_socket \in Fd \cup {0} /\ left \in SUBSET (Obj \ {o})
    <3>1. obj[u].m_socket \in Fd \cup {0}
      BY <2>1 DEF NumbersOK, INVALID_SOCKET, TypeInv, ObjType
    <3>2. u # o
      BY <2>1 DEF NewObject, Live
    <3> QED
      BY <3>1, <3>2
  <2>3. PICK r \in ObjType : /\ r.cls = "UDT" /\ r.m_udpSocket = obj[u].m_socket
                             /\ Comes(o, r, "new", left, sock)
    <3>1. /\ sock \in [Sock -> SockType] /\ "UDT" \in Class /\ "new" \in {"new", "conn"}
          /\ TypeInv
      BY DEF TypeInv, Class
    <3> QED
      BY <2>1, <2>2, <3>1, NewObjectComes
  <2>4. NewStep(o, r, "new", left, sock)
    BY <2>1, <2>3 DEF NewStep, threads, TypeInv, INVALID_SOCKET, Class
  <2> QED
    BY <2>2, <2>4 DEF TypeInv
<1>3. ASSUME NEW q \in Obj, Accept(q, o)
      PROVE  \E r \in ObjType, mode \in {"new", "conn"}, left \in SUBSET Obj,
                socks \in [Sock -> SockType] : NewStep(o, r, mode, left, socks)
  <2> DEFINE c == rcv[q].on
             socks == [sock EXCEPT ![c].pend = FALSE]
  <2>1. /\ rcv[q].pc = "accept" /\ Mode(c) = "listen"
        /\ NewObject(o, obj[q].cls, "conn", INVALID_SOCKET, {}, socks)
        /\ rcv' = [rcv EXCEPT ![q] = Idle] /\ UNCHANGED <<m_cs, snd>>
    BY <1>3 DEF Accept
  <2>2. /\ c \in Sock /\ sock[c] \in SockType
        /\ socks \in [Sock -> SockType]
        /\ \A d \in Sock : socks[d] = sock[d] \/ socks[d] = [sock[d] EXCEPT !.pend = FALSE]
    <3>1. c \in Sock
      BY <2>1, SocketsAssumption DEF Mode, TypeInv, RcvType, Sock
    <3>2. [sock[c] EXCEPT !.pend = FALSE] \in SockType
      BY <3>1, WithPend DEF TypeInv
    <3> QED
      BY <3>1, <3>2 DEF TypeInv
  <2>3. obj[q].cls \in Class /\ obj[q].cls # "UDP"
    BY <2>1 DEF Class, ReceiversOK
  <2> HIDE DEF socks
  <2>4. PICK r \in ObjType : /\ r.cls = obj[q].cls /\ r.m_udpSocket = 0
                             /\ Comes(o, r, "conn", {}, socks)
    <3>1. /\ {} \in SUBSET (Obj \ {o}) /\ 0 \in Fd \cup {0} /\ "conn" \in {"new", "conn"} /\ TypeInv
          /\ socks \in [Sock -> SockType] /\ obj[q].cls \in Class
          /\ NewObject(o, obj[q].cls, "conn", 0, {}, socks)
      BY <2>1, <2>2, <2>3 DEF INVALID_SOCKET
    <3> DEFINE k == obj[q].cls
    <3>2. k \in Class /\ NewObject(o, k, "conn", 0, {}, socks)
      BY <3>1
    <3> HIDE DEF k
    <3>3. \E r \in ObjType : r.cls = k /\ r.m_udpSocket = 0 /\ Comes(o, r, "conn", {}, socks)
      BY <3>1, <3>2, NewObjectComes
    <3> QED
      BY <3>3 DEF k
  <2>5. rcv' \in [Obj -> RcvType] /\ \A x \in Obj : rcv'[x].pc \in {rcv[x].pc, "idle"}
    <3>1. Idle \in RcvType /\ Idle.pc = "idle"
      BY SocketsAssumption DEF RcvType, Idle
    <3> QED
      BY <2>1, <3>1 DEF TypeInv
  <2>6. NewStep(o, r, "conn", {}, socks)
    BY <2>1, <2>2, <2>3, <2>4, <2>5 DEF NewStep, INVALID_SOCKET
  <2> QED
    BY <2>2, <2>6
<1> QED
  BY <1>1, <1>2, <1>3 DEF Creates

-----------------------------------------------------------------------------
(* A step of an object that exists already *)
ModeMoves(from, to) ==
  to = from \/ to = "shut" \/ (from = "new" /\ to \in {"listen", "conn"})
            \/ (from = "conn" /\ to = "eof")

SameObject(q, r) ==
  /\ q.cls = r.cls /\ q.own = r.own /\ q.after = r.after
  /\ q.m_socket = r.m_socket /\ q.m_udpSocket = r.m_udpSocket

(* What the assumption says of the bounds *)
LEMMA Bounds ==
  /\ MaxSock \in Nat /\ MaxIn \in Nat /\ MsgLen \in Nat /\ MsgLen > 0
  /\ 0 \notin Sender /\ 0 \notin Fd /\ IsFiniteSet(Sender)
  /\ \A n \in 0..MaxSock : n # 0 => n \in Sock
  BY SocketsAssumption DEF Sock

(* What every step but the creation of an object leaves as it is *)
Steady ==
  /\ made' = made /\ shared' = shared
  /\ \A o \in Obj :
       /\ SameObject(obj'[o], obj[o])
       /\ obj'[o].st = obj[o].st \/ (Live(o) /\ obj'[o].st \in {"closed", "deleted"})
       /\ obj'[o].st = "deleted" /\ Live(o) => obj[o].phase = "failed"
       /\ obj'[o].phase # obj[o].phase =>
            /\ obj[o].phase # "none"
            /\ obj'[o].phase \notin {"none", "made"}
            /\ obj'[o].phase = "listen" => obj[o].cls # "UDP"
       /\ rcv'[o].pc # "idle" => rcv[o].pc # "idle" \/ obj[o].phase # "none"
       /\ rcv'[o].pc = "accept" => rcv[o].pc = "accept" \/ obj[o].phase = "listen"
  /\ \A c \in Sock : sock'[c].kind = sock[c].kind /\ ModeMoves(sock[c].mode, sock'[c].mode)
  /\ \A f \in Fd : desc'[f] \in {desc[f], 0}

(* The tables hold through a steady step *)
LEMMA SteadyTables ==
  ASSUME TablesInv, TypeInv', Steady
  PROVE  TablesInv'
<1> USE DEF TablesInv
<1>0. made \in Nat /\ \A f \in Fd : desc[f] \in 0..MaxSock
  BY DEF TypeInv
<1>1. DescOK'
  <2>1. ASSUME NEW f \in Fd, desc'[f] # 0 PROVE desc'[f] <= made' /\ sock'[desc'[f]].kind # "UDT"
    <3>1. desc'[f] = desc[f] /\ desc[f] \in Sock
      BY <2>1, <1>0, SocketsAssumption DEF Steady, Sock
    <3> QED
      BY <3>1, <2>1 DEF DescOK, Steady
  <2>2. ASSUME NEW f \in Fd, NEW g \in Fd, desc'[f] # 0, desc'[f] = desc'[g] PROVE f = g
    BY <2>2 DEF Steady, DescOK
  <2> QED
    BY <2>1, <2>2 DEF DescOK
<1>2. OwnersOK'
  BY DEF OwnersOK, Steady, SameObject
<1>3. ASSUME NEW o \in Obj PROVE NumbersOK(obj[o])'
  <2> DEFINE r == obj[o]
             q == obj'[o]
  <2>1. NumbersOK(r) /\ r \in ObjType /\ q \in ObjType
    BY DEF TypeInv
  <2>2. /\ SameObject(q, r) /\ made' = made
        /\ q.st = r.st \/ (r.st \in {"open", "closed"} /\ q.st \in {"closed", "deleted"})
        /\ q.st = "deleted" /\ r.st \in {"open", "closed"} => r.phase = "failed"
        /\ q.phase # r.phase => /\ r.phase # "none" /\ q.phase # "made"
                                /\ q.phase = "listen" => r.cls # "UDP"
    BY DEF Steady, Live
  <2>3. r.own # 0 => sock'[r.own].kind = sock[r.own].kind
    BY <2>1, SocketsAssumption DEF Steady, ObjType, Sock
  <2> HIDE DEF r, q
  <2>4. q.st = "none" => r.st = "none"
    BY <2>2
  <2>5. q.phase = "made" => r.phase = "made" /\ q.st \in {"open", "closed"}
    BY <2>1, <2>2 DEF NumbersOK
  <2>6. q.phase = "listen" => q.cls # "UDP"
    BY <2>1, <2>2 DEF NumbersOK, SameObject
  <2>7. r.st = "none" => q.phase = "none" /\ q.st = "none"
    BY <2>1, <2>2 DEF NumbersOK
  <2>8. q.cls = "none" => q.st = "none"
    BY <2>1, <2>2, <2>7 DEF NumbersOK, SameObject
  <2>9. q.own # 0 => /\ q.own <= made' /\ q.cls \in Class /\ sock'[q.own].kind = q.cls
                     /\ IF q.cls = "UDT" THEN q.m_socket = q.own ELSE q.m_socket \in Fd
    BY <2>1, <2>2, <2>3 DEF NumbersOK, SameObject
  <2>10. q.own = 0 => q.m_socket = INVALID_SOCKET /\ q.cls # "UDT"
    BY <2>1, <2>2 DEF NumbersOK, SameObject
  <2>11. q.st = "none" =>
           /\ q.cls = "none" /\ q.phase = "none" /\ q.own = 0
           /\ q.m_socket = INVALID_SOCKET /\ q.m_udpSocket = INVALID_SOCKET /\ q.after = {}
    BY <2>1, <2>2, <2>4, <2>7 DEF NumbersOK, SameObject
  <2> QED
    BY <2>5, <2>6, <2>8, <2>9, <2>10, <2>11 DEF NumbersOK, q, INVALID_SOCKET
<1>4. ASSUME NEW o \in Obj
      PROVE  /\ rcv'[o].pc # "idle" => obj'[o].phase # "none"
             /\ rcv'[o].pc = "accept" => obj'[o].cls \in {"TCP", "UDT"}
  <2>1. /\ obj'[o].cls = obj[o].cls
        /\ rcv'[o].pc = "accept" => rcv[o].pc = "accept" \/ obj[o].phase = "listen"
        /\ rcv'[o].pc # "idle" => rcv[o].pc # "idle" \/ obj[o].phase # "none"
        /\ obj'[o].phase = "none" => obj[o].phase = "none"
    BY DEF Steady, SameObject
  <2>2. obj[o].phase = "listen" => obj[o].cls \in {"TCP", "UDT"}
    BY DEF NumbersOK, TypeInv, ObjType, Class
  <2> QED
    BY <2>1, <2>2 DEF ReceiversOK
<1> QED
  BY <1>1, <1>2, <1>3, <1>4 DEF ReceiversOK

-----------------------------------------------------------------------------
(* The socket that a call reaches exists, and is of the kind of its object or behind its
   descriptor *)
LEMMA KernelKnown ==
  ASSUME TablesInv, NEW o \in Obj
  PROVE  /\ Kernel(o) \in 0..made /\ made \in Nat
         /\ Kernel(o) # 0 =>
              /\ Kernel(o) \in Sock /\ sock[Kernel(o)] \in SockType /\ obj[o].own # 0
              /\ IF obj[o].cls = "UDT" THEN Kernel(o) = obj[o].own
                 ELSE /\ obj[o].m_socket \in Fd /\ Kernel(o) = desc[obj[o].m_socket]
                      /\ sock[Kernel(o)].kind # "UDT"
<1>1. /\ obj[o] \in ObjType /\ NumbersOK(obj[o]) /\ made \in 0..MaxSock /\ MaxSock \in Nat
      /\ \A f \in Fd : desc[f] \in 0..MaxSock
  BY SocketsAssumption DEF TablesInv, TypeInv
<1>2. CASE obj[o].m_socket = INVALID_SOCKET
  <2>1. Kernel(o) = 0
    BY <1>1, <1>2 DEF Kernel, NumbersOK, INVALID_SOCKET
  <2> QED
    BY <1>1, <2>1
<1>3. CASE obj[o].m_socket # INVALID_SOCKET
  <2>1. obj[o].own # 0 /\ obj[o].own \in 0..MaxSock /\ obj[o].own <= made
    BY <1>1, <1>3 DEF NumbersOK, ObjType
  <2>2. CASE obj[o].cls = "UDT"
    BY <1>1, <1>3, <2>1, <2>2 DEF Kernel, NumbersOK, Sock, TablesInv, TypeInv
  <2>3. CASE obj[o].cls # "UDT"
    <3>1. Kernel(o) = desc[obj[o].m_socket] /\ obj[o].m_socket \in Fd
      BY <1>1, <1>3, <2>1, <2>3 DEF Kernel, NumbersOK
    <3> QED
      BY <1>1, <2>1, <2>3, <3>1 DEF TablesInv, DescOK, Sock, TypeInv
  <2> QED
    BY <2>2, <2>3
<1> QED
  BY <1>2, <1>3


-----------------------------------------------------------------------------
(* The steps of a socket of the system, and of the record of an object *)
LEMMA SockMoves ==
  ASSUME TablesInv, NEW c \in Sock, NEW r \in SockType,
         r.kind = sock[c].kind, ModeMoves(sock[c].mode, r.mode),
         sock' = [sock EXCEPT ![c] = r]
  PROVE  /\ sock' \in [Sock -> SockType]
         /\ \A d \in Sock : /\ sock'[d].kind = sock[d].kind
                            /\ ModeMoves(sock[d].mode, sock'[d].mode)
  BY DEF TablesInv, TypeInv, ModeMoves

LEMMA ObjMoves ==
  ASSUME TablesInv, NEW o \in Obj, NEW r \in ObjType, SameObject(r, obj[o]), r.st = obj[o].st,
         r.phase = obj[o].phase \/ (obj[o].phase # "none" /\ r.phase \notin {"none", "made"}),
         r.phase = "listen" => obj[o].phase = "listen" \/ obj[o].cls # "UDP",
         obj' = [obj EXCEPT ![o] = r]
  PROVE  /\ obj' \in [Obj -> ObjType]
         /\ \A p \in Obj :
              /\ SameObject(obj'[p], obj[p]) /\ obj'[p].st = obj[p].st
              /\ obj'[p].phase # obj[p].phase =>
                   /\ obj[p].phase # "none" /\ obj'[p].phase \notin {"none", "made"}
                   /\ obj'[p].phase = "listen" => obj[p].cls # "UDP"
<1>1. obj' \in [Obj -> ObjType]
  BY DEF TablesInv, TypeInv
<1>2. \A p \in Obj : obj'[p] = IF p = o THEN r ELSE obj[p]
  BY DEF TablesInv, TypeInv
<1> QED
  BY <1>1, <1>2 DEF SameObject

LEMMA SocksKept ==
  ASSUME UNCHANGED sock
  PROVE  \A c \in Sock : sock'[c].kind = sock[c].kind /\ ModeMoves(sock[c].mode, sock'[c].mode)
  BY DEF ModeMoves

LEMMA ObjsKept ==
  ASSUME UNCHANGED obj
  PROVE  \A o \in Obj : SameObject(obj'[o], obj[o]) /\ obj'[o].st = obj[o].st
                        /\ obj'[o].phase = obj[o].phase
  BY DEF SameObject

(* The port that Bind gets: with m_udpSocket, the one of that descriptor *)
LEMMA PortsType ==
  ASSUME TablesInv, NEW o \in Obj, NEW host, NEW port, NEW p \in Ports(o, host, port)
  PROVE  /\ p \in Port \cup {0} /\ Kernel(o) # 0
         /\ obj[o].m_udpSocket # INVALID_SOCKET =>
              /\ obj[o].m_udpSocket \in Fd /\ desc[obj[o].m_udpSocket] # 0
              /\ p = sock[desc[obj[o].m_udpSocket]].port
<1> DEFINE udp == obj[o].m_udpSocket
           free == Port \ InUse(obj[o].cls)
           asked == Asked(obj[o].cls, host, port)
<1>0. udp \in Fd \cup {INVALID_SOCKET} /\ \A f \in Fd : desc[f] \in 0..MaxSock
  BY DEF TablesInv, TypeInv, ObjType
<1> HIDE DEF asked
<1>1. Kernel(o) # 0
  BY DEF Ports, asked
<1>2. CASE udp # INVALID_SOCKET
  <2>1. p \in IF desc[udp] = 0 THEN {} ELSE {sock[desc[udp]].port}
    BY <1>1, <1>2 DEF Ports, asked
  <2>2. desc[udp] \in Sock /\ udp \in Fd
    BY <1>0, <1>2, <2>1, Bounds
  <2>3. sock[desc[udp]].port \in Port \cup {0}
    BY <2>2 DEF TablesInv, TypeInv, SockType
  <2> QED
    BY <1>1, <2>1, <2>2, <2>3
<1>3. CASE udp = INVALID_SOCKET
  <2>1. p \in IF asked = 0 /\ free # {} THEN {Min(free)} ELSE free \cap {asked}
    BY <1>1, <1>3 DEF Ports, asked
  <2>2. free # {} => Min(free) \in free
    BY MinIn, SocketsAssumption
  <2> QED
    BY <1>1, <1>3, <2>1, <2>2
<1> QED
  BY <1>2, <1>3

(* A step in which nobody sends *)
Quiet ==
  /\ Steady /\ UNCHANGED <<m_cs, snd>>
  /\ \A c \in Sock : sock'[c].out = sock[c].out
  /\ \A o \in Obj : obj'[o].phase = "up" => obj[o].phase = "up" \/ Mode(Kernel(o))' = "conn"

(* A step that neither closes nor binds nor makes a listener *)
Plain ==
  /\ Steady /\ desc' = desc
  /\ \A c \in Sock : /\ sock'[c].port = sock[c].port
                     /\ sock'[c].mode = "shut" => sock[c].mode = "shut"
  /\ \A o \in Obj :
       /\ obj'[o].st = obj[o].st /\ obj'[o].told = obj[o].told
       /\ obj'[o].phase \in {"bound", "listen"} => obj[o].phase = obj'[o].phase

(* Bind changes a port and the phase, and nobody sends in it *)
LEMMA BindSteady ==
  ASSUME TablesInv, NEW o \in Obj, NEW host, NEW port, Bind(o, host, port)
  PROVE  /\ TypeInv' /\ Quiet
         /\ \A c \in Sock : sock'[c].mode = sock[c].mode
<1>0. obj[o].phase = "made" /\ UNCHANGED <<desc, made, threads, shared>> /\ obj[o] \in ObjType
  BY DEF Bind, TablesInv, TypeInv
<1>1. CASE \E p \in Ports(o, host, port) :
             /\ sock' = [sock EXCEPT ![Kernel(o)].port = p]
             /\ obj' = [obj EXCEPT ![o].phase = "bound",
                                   ![o].told = IF obj[o].cls = "UDP" THEN GetIPPortUdp(o, sock')
                                                ELSE 0]
  <2>1. PICK p \in Ports(o, host, port) :
             /\ sock' = [sock EXCEPT ![Kernel(o)].port = p]
             /\ obj' = [obj EXCEPT ![o].phase = "bound",
                                   ![o].told = IF obj[o].cls = "UDP" THEN GetIPPortUdp(o, sock')
                                                ELSE 0]
    BY <1>1
  <2> DEFINE c == Kernel(o)
             s == [sock[c] EXCEPT !.port = p]
             t == IF obj[o].cls = "UDP" THEN p ELSE 0
             r == [obj[o] EXCEPT !.phase = "bound", !.told = t]
  <2>2. p \in Port \cup {0} /\ c \in Sock /\ sock[c] \in SockType /\ c # 0
    BY PortsType, KernelKnown
  <2>3. sock' = [sock EXCEPT ![c] = s] /\ sock'[c] = s
    BY <2>1, <2>2 DEF TablesInv, TypeInv
  <2>4. /\ s \in SockType /\ s.kind = sock[c].kind /\ s.mode = sock[c].mode
        /\ s.out = sock[c].out /\ s.port = p
    BY <2>2 DEF SockType
  <2> HIDE DEF s, c
  <2>5. GetIPPortUdp(o, sock') = p
    BY <2>2, <2>3, <2>4 DEF GetIPPortUdp, c
  <2>6. obj' = [obj EXCEPT ![o] = r]
    BY <2>1, <2>5
  <2>7. r \in ObjType /\ r.phase = "bound" /\ r.st = obj[o].st /\ SameObject(r, obj[o])
    BY <2>2, <1>0 DEF ObjType, SameObject
  <2> HIDE DEF r, t
  <2>8. /\ sock' \in [Sock -> SockType]
        /\ \A d \in Sock : /\ sock'[d].kind = sock[d].kind
                           /\ ModeMoves(sock[d].mode, sock'[d].mode)
    BY <2>2, <2>3, <2>4, SockMoves DEF ModeMoves
  <2>9. /\ obj' \in [Obj -> ObjType]
        /\ \A q \in Obj :
             /\ SameObject(obj'[q], obj[q]) /\ obj'[q].st = obj[q].st
             /\ obj'[q].phase # obj[q].phase =>
                  /\ obj[q].phase # "none" /\ obj'[q].phase \notin {"none", "made"}
                  /\ obj'[q].phase = "listen" => obj[q].cls # "UDP"
    BY <1>0, <2>6, <2>7, ObjMoves
  <2>10. TypeInv' /\ Steady
    BY <1>0, <2>8, <2>9 DEF Steady, Live, threads, TablesInv, TypeInv
  <2> QED
    BY <1>0, <2>10, <2>3, <2>4, <2>6, <2>7 DEF Quiet, threads, TablesInv, TypeInv
<1>2. CASE /\ \E next \in {"failed", "unbound"} : obj' = [obj EXCEPT ![o].phase = next]
           /\ UNCHANGED sock
  <2>1. PICK next \in {"failed", "unbound"} : obj' = [obj EXCEPT ![o].phase = next]
    BY <1>2
  <2> DEFINE r == [obj[o] EXCEPT !.phase = next]
  <2>2. obj' = [obj EXCEPT ![o] = r]
    BY <2>1
  <2>3. r \in ObjType /\ r.phase = next /\ r.st = obj[o].st /\ SameObject(r, obj[o])
    BY <1>0 DEF ObjType, SameObject
  <2> HIDE DEF r
  <2>4. /\ obj' \in [Obj -> ObjType]
        /\ \A q \in Obj :
             /\ SameObject(obj'[q], obj[q]) /\ obj'[q].st = obj[q].st
             /\ obj'[q].phase # obj[q].phase =>
                  /\ obj[q].phase # "none" /\ obj'[q].phase \notin {"none", "made"}
                  /\ obj'[q].phase = "listen" => obj[q].cls # "UDP"
    BY <1>0, <2>2, <2>3, ObjMoves
  <2>5. TypeInv' /\ Steady
    BY <1>0, <1>2, <2>4, SocksKept DEF Steady, Live, threads, TablesInv, TypeInv
  <2> QED
    BY <1>0, <1>2, <2>5, <2>2, <2>3 DEF Quiet, threads, TablesInv, TypeInv
<1> QED
  BY <1>1, <1>2 DEF Bind

(* Listen makes a listener of the socket that the object reaches, and tells its port *)
LEMMA ListenSteady ==
  ASSUME TablesInv, NEW o \in Obj, Listen(o)
  PROVE  /\ TypeInv' /\ Quiet /\ desc' = desc
         /\ \A p \in Obj \ {o} : obj'[p] = obj[p]
         /\ \A c \in Sock : /\ sock'[c].port = sock[c].port
                            /\ sock'[c].mode = "shut" => sock[c].mode = "shut"
         /\ obj[o].phase = "bound" /\ obj'[o].phase # "bound" /\ obj[o].cls # "UDP"
         /\ obj'[o].st = obj[o].st
         /\ obj'[o].phase = "listen" => /\ Kernel(o) # 0
                                        /\ obj'[o].told = sock[Kernel(o)].port
<1> DEFINE c == Kernel(o)
           ok == IF obj[o].cls = "UDT" THEN ListenUdt(c) ELSE ListenTcp(c)
           port == IF obj[o].cls = "UDT" THEN GetIPPortUdt(o) ELSE GetIPPort(o)
           told == IF ok THEN port ELSE 0
           r == [obj[o] EXCEPT !.phase = IF ok THEN "listen" ELSE "failed", !.told = told]
           s == [sock[c] EXCEPT !.mode = "listen"]
<1>0. /\ obj[o].phase = "bound" /\ obj[o].cls # "UDP" /\ UNCHANGED <<desc, made, threads, shared>>
      /\ obj[o].m_udpSocket = INVALID_SOCKET /\ obj[o] \in ObjType
      /\ obj' = [obj EXCEPT ![o] = r]
      /\ sock' = IF ok THEN [sock EXCEPT ![c].mode = "listen"] ELSE sock
  BY DEF Listen, TablesInv, TypeInv, HasStream
<1>1. ok => c # 0 /\ Mode(c) = "new"
  BY DEF ListenUdt, ListenTcp, Mode
<1>2. c # 0 => c \in Sock /\ sock[c] \in SockType
  BY KernelKnown
<1>3. c # 0 => port = sock[c].port
  <2>1. CASE obj[o].cls = "UDT"
    BY <1>0, <2>1, KernelKnown, Zenon DEF GetIPPortUdt, Kernel
  <2>2. CASE obj[o].cls # "UDT"
    BY <2>2 DEF GetIPPort
  <2> QED
    BY <2>1, <2>2
<1>4. told \in Port \cup {0}
  BY <1>1, <1>2, <1>3 DEF SockType
<1>5. /\ s = [sock[c] EXCEPT !.mode = "listen"]
      /\ c # 0 => /\ s \in SockType /\ s.kind = sock[c].kind /\ s.mode = "listen"
                  /\ s.out = sock[c].out /\ s.port = sock[c].port
  BY <1>2 DEF SockType
<1>6. /\ r \in ObjType /\ r.phase = (IF ok THEN "listen" ELSE "failed") /\ r.st = obj[o].st
      /\ SameObject(r, obj[o]) /\ r.told = told
  <2> HIDE DEF ok, told
  <2> QED
    BY <1>0, <1>4 DEF ObjType, SameObject
<1> HIDE DEF ok, port, r, s
<1>7. /\ obj' \in [Obj -> ObjType]
      /\ \A q \in Obj :
           /\ SameObject(obj'[q], obj[q]) /\ obj'[q].st = obj[q].st
           /\ obj'[q].phase # obj[q].phase =>
                /\ obj[q].phase # "none" /\ obj'[q].phase \notin {"none", "made"}
                /\ obj'[q].phase = "listen" => obj[q].cls # "UDP"
  BY <1>0, <1>6, ObjMoves
<1>8. obj'[o] = r /\ \A p \in Obj \ {o} : obj'[p] = obj[p]
  BY <1>0 DEF TablesInv, TypeInv
<1> DEFINE Socks ==
      /\ sock' \in [Sock -> SockType]
      /\ \A d \in Sock : /\ sock'[d].kind = sock[d].kind
                         /\ ModeMoves(sock[d].mode, sock'[d].mode)
                         /\ sock'[d].out = sock[d].out /\ sock'[d].port = sock[d].port
                         /\ sock'[d].mode = "shut" => sock[d].mode = "shut"
<1>9. Socks
  <2>1. CASE ok
    <3>1. sock' = [sock EXCEPT ![c] = s] /\ c \in Sock /\ s \in SockType /\ sock[c].mode = "new"
      BY <2>1, <1>0, <1>1, <1>2, <1>5 DEF Mode
    <3> HIDE DEF c
    <3>2. \A d \in Sock : sock'[d] = IF d = c THEN s ELSE sock[d]
      BY <3>1 DEF TablesInv, TypeInv
    <3>3. sock' \in [Sock -> SockType]
      BY <3>1 DEF TablesInv, TypeInv
    <3>4. s.kind = sock[c].kind /\ s.mode = "listen" /\ s.out = sock[c].out /\ s.port = sock[c].port
      BY <2>1, <1>1, <1>5 DEF c
    <3> QED
      BY <3>1, <3>2, <3>3, <3>4 DEF ModeMoves
  <2>2. CASE ~ok
    BY <2>2, <1>0 DEF TablesInv, TypeInv, ModeMoves
  <2> QED
    BY <2>1, <2>2
<1>10. TypeInv' /\ Steady
  BY <1>0, <1>7, <1>9 DEF Steady, Live, threads, TablesInv, TypeInv
<1>11. Quiet
  BY <1>0, <1>6, <1>8, <1>9, <1>10 DEF Quiet, threads
<1>12. obj'[o].phase = "listen" => Kernel(o) # 0 /\ obj'[o].told = sock[Kernel(o)].port
  BY <1>1, <1>3, <1>6, <1>8
<1> QED
  BY <1>0, <1>6, <1>7, <1>8, <1>9, <1>10, <1>11, <1>12

(* Connect brings the socket that the object reaches up, or fails *)
LEMMA ConnectPlain ==
  ASSUME TablesInv, NEW o \in Obj, Connect(o)
  PROVE  TypeInv' /\ Quiet /\ Plain
<1> DEFINE c == Kernel(o)
<1>0. /\ obj[o].phase \in {"bound", "unbound"} /\ UNCHANGED <<desc, made, threads, shared>>
      /\ obj[o] \in ObjType
      /\ \/ /\ Mode(c) = "new" /\ sock' = [sock EXCEPT ![c].mode = "conn"]
            /\ obj' = [obj EXCEPT ![o].phase = "up"]
         \/ obj' = [obj EXCEPT ![o].phase = "failed"] /\ sock' = sock
  BY DEF Connect, ConnectTcp, ConnectUdt, TablesInv, TypeInv
<1>1. PICK ph \in {"up", "failed"} : obj' = [obj EXCEPT ![o].phase = ph]
  BY <1>0
<1> DEFINE r == [obj[o] EXCEPT !.phase = ph]
<1>2. r \in ObjType /\ r.phase = ph /\ r.st = obj[o].st /\ SameObject(r, obj[o])
      /\ r.told = obj[o].told
  BY <1>0 DEF ObjType, SameObject
<1>3. obj' = [obj EXCEPT ![o] = r]
  BY <1>1
<1> HIDE DEF r
<1>4. /\ obj' \in [Obj -> ObjType]
      /\ \A q \in Obj :
           /\ SameObject(obj'[q], obj[q]) /\ obj'[q].st = obj[q].st
           /\ obj'[q].phase # obj[q].phase =>
                /\ obj[q].phase # "none" /\ obj'[q].phase \notin {"none", "made"}
                /\ obj'[q].phase = "listen" => obj[q].cls # "UDP"
  BY <1>0, <1>2, <1>3, ObjMoves
<1>5. obj'[o] = r /\ \A p \in Obj \ {o} : obj'[p] = obj[p]
  BY <1>3 DEF TablesInv, TypeInv
<1> DEFINE Socks ==
      /\ sock' \in [Sock -> SockType]
      /\ \A d \in Sock : /\ sock'[d].kind = sock[d].kind
                         /\ ModeMoves(sock[d].mode, sock'[d].mode)
                         /\ sock'[d].out = sock[d].out /\ sock'[d].port = sock[d].port
                         /\ sock'[d].mode = "shut" => sock[d].mode = "shut"
<1>6. CASE obj' = [obj EXCEPT ![o].phase = "failed"] /\ sock' = sock
  <2>1. Socks
    BY <1>6 DEF TablesInv, TypeInv, ModeMoves
  <2>2. TypeInv' /\ Steady
    BY <1>0, <1>4, <2>1 DEF Steady, Live, threads, TablesInv, TypeInv
  <2>3. obj'[o].phase = "failed"
    BY <1>6, <1>0 DEF TablesInv, TypeInv, ObjType
  <2> QED
    BY <1>0, <1>2, <1>5, <2>1, <2>2, <2>3 DEF Quiet, Plain, threads
<1>7. CASE /\ Mode(c) = "new" /\ sock' = [sock EXCEPT ![c].mode = "conn"]
           /\ obj' = [obj EXCEPT ![o].phase = "up"]
  <2> DEFINE s == [sock[c] EXCEPT !.mode = "conn"]
  <2>1. c \in Sock /\ sock[c] \in SockType /\ sock[c].mode = "new" /\ c # 0
    BY <1>7, KernelKnown DEF Mode
  <2>2. /\ s \in SockType /\ s.kind = sock[c].kind /\ s.mode = "conn"
        /\ s.out = sock[c].out /\ s.port = sock[c].port
    BY <2>1 DEF SockType
  <2>3. sock' = [sock EXCEPT ![c] = s]
    BY <1>7
  <2> HIDE DEF s
  <2>4. (\A d \in Sock : sock'[d] = IF d = c THEN s ELSE sock[d]) /\ sock' \in [Sock -> SockType]
    BY <2>1, <2>2, <2>3 DEF TablesInv, TypeInv
  <2>5. Socks
    BY <2>1, <2>2, <2>4 DEF ModeMoves
  <2>6. TypeInv' /\ Steady
    BY <1>0, <1>4, <2>5 DEF Steady, Live, threads, TablesInv, TypeInv
  <2>7. obj'[o].phase = "up"
    BY <1>7, <1>0 DEF TablesInv, TypeInv, ObjType
  <2>8. Mode(Kernel(o))' = "conn"
    <3>1. Kernel(o)' = c
      BY <1>0, <1>2, <1>5 DEF Kernel, SameObject
    <3>2. sock'[c].mode = "conn"
      BY <2>1, <2>2, <2>4
    <3> QED
      BY <2>1, <3>1, <3>2 DEF Mode
  <2> QED
    BY <1>0, <1>2, <1>5, <2>5, <2>6, <2>7, <2>8 DEF Quiet, Plain, threads
<1> QED
  BY <1>0, <1>6, <1>7

(* The threads that receive, and the other side *)
Receives(o) ==
  \/ AcceptCall(o) \/ AcceptFails(o) \/ RecvStart(o) \/ RecvFails(o)
  \/ \E k \in 1..MsgLen : RecvSome(o, k)
Peers(c) == PeerConnects(c) \/ PeerSends(c) \/ PeerCloses(c)

(* A change of one socket that leaves its port and stream *)
LEMMA SocksPlain ==
  ASSUME TablesInv, UNCHANGED <<desc, made, obj, threads, shared>>, NEW c \in Sock,
         NEW r \in SockType, sock' = [sock EXCEPT ![c] = r],
         r.kind = sock[c].kind, r.out = sock[c].out, r.port = sock[c].port,
         r.mode = sock[c].mode \/ (sock[c].mode = "conn" /\ r.mode = "eof")
  PROVE  TypeInv' /\ Quiet /\ Plain
<1>1. (\A d \in Sock : sock'[d] = IF d = c THEN r ELSE sock[d]) /\ sock' \in [Sock -> SockType]
  BY DEF TablesInv, TypeInv
<1>2. \A d \in Sock : /\ sock'[d].kind = sock[d].kind
                      /\ ModeMoves(sock[d].mode, sock'[d].mode)
                      /\ sock'[d].out = sock[d].out /\ sock'[d].port = sock[d].port
                      /\ sock'[d].mode = "shut" => sock[d].mode = "shut"
  BY <1>1 DEF ModeMoves
<1>3. TypeInv' /\ Steady
  BY <1>1, <1>2, ObjsKept DEF Steady, Live, threads, TablesInv, TypeInv
<1> QED
  BY <1>2, <1>3, ObjsKept DEF Quiet, Plain, threads

(* What the other side does to a socket *)
LEMMA PeersPlain ==
  ASSUME TablesInv, NEW c \in Sock, Peers(c)
  PROVE  TypeInv' /\ Quiet /\ Plain
<1>0. sock[c] \in SockType /\ UNCHANGED <<desc, made, obj, threads, shared>>
  BY DEF TablesInv, TypeInv, Peers, PeerConnects, PeerSends, PeerCloses
<1>1. CASE PeerConnects(c)
  <2> DEFINE r == [sock[c] EXCEPT !.pend = TRUE]
  <2>1. r \in SockType /\ r.kind = sock[c].kind /\ r.out = sock[c].out /\ r.port = sock[c].port
        /\ r.mode = sock[c].mode
    BY <1>0 DEF SockType
  <2>2. sock' = [sock EXCEPT ![c] = r]
    BY <1>1 DEF PeerConnects
  <2> HIDE DEF r
  <2> QED
    BY <1>0, <2>1, <2>2, SocksPlain
<1>2. CASE PeerSends(c)
  <2> DEFINE r == [sock[c] EXCEPT !.in = sock[c].in + 1]
  <2>0. sock[c].in + 1 \in 0..MaxIn
    BY <1>0, <1>2, Bounds DEF SockType, PeerSends
  <2>1. r \in SockType /\ r.kind = sock[c].kind /\ r.out = sock[c].out /\ r.port = sock[c].port
        /\ r.mode = sock[c].mode
    BY <1>0, <2>0 DEF SockType
  <2>2. sock' = [sock EXCEPT ![c] = r]
    BY <1>2 DEF PeerSends, TablesInv, TypeInv
  <2> HIDE DEF r
  <2> QED
    BY <1>0, <2>1, <2>2, SocksPlain
<1>3. CASE PeerCloses(c)
  <2> DEFINE r == [sock[c] EXCEPT !.mode = "eof"]
  <2>1. r \in SockType /\ r.kind = sock[c].kind /\ r.out = sock[c].out /\ r.port = sock[c].port
        /\ r.mode = "eof" /\ sock[c].mode = "conn"
    BY <1>0, <1>3 DEF SockType, PeerCloses
  <2>2. sock' = [sock EXCEPT ![c] = r]
    BY <1>3 DEF PeerCloses
  <2> HIDE DEF r
  <2> QED
    BY <1>0, <2>1, <2>2, SocksPlain
<1> QED
  BY <1>1, <1>2, <1>3 DEF Peers

(* What the connector's and the listen thread do *)
LEMMA ReceivesPlain ==
  ASSUME TablesInv, NEW o \in Obj, Receives(o)
  PROVE  TypeInv' /\ Quiet /\ Plain
<1> USE DEF Idle
<1>0. /\ Kernel(o) \in 0..MaxSock /\ Idle \in RcvType /\ rcv[o] \in RcvType /\ obj[o] \in ObjType
      /\ \A n \in 0..MaxSock, k \in 0..MsgLen, m \in {"accept", "recv"} :
           [pc |-> m, on |-> n, left |-> k] \in RcvType
  BY KernelKnown, Bounds DEF TablesInv, TypeInv, RcvType
<1> DEFINE Rcvs == /\ rcv' \in [Obj -> RcvType]
                   /\ \A q \in Obj :
                        /\ rcv'[q].pc # "idle" => rcv[q].pc # "idle" \/ obj[q].phase # "none"
                        /\ rcv'[q].pc = "accept" =>
                             rcv[q].pc = "accept" \/ obj[q].phase = "listen"
<1>1. CASE AcceptCall(o) \/ RecvStart(o)
  <2>1. PICK v \in RcvType : /\ rcv' = [rcv EXCEPT ![o] = v]
                             /\ v.pc = "accept" => obj[o].phase = "listen"
                             /\ obj[o].phase # "none"
    <3>1. CASE AcceptCall(o)
      <4> DEFINE v == [pc |-> "accept", on |-> Kernel(o), left |-> 0]
      <4>1. v \in RcvType
        BY <1>0, Bounds DEF RcvType
      <4>2. rcv' = [rcv EXCEPT ![o] = v] /\ obj[o].phase = "listen" /\ obj[o].phase # "none"
        BY <3>1 DEF AcceptCall
      <4> QED
        BY <4>1, <4>2
    <3>2. CASE RecvStart(o)
      <4> DEFINE v == [pc |-> "recv", on |-> Kernel(o), left |-> MsgLen]
      <4>1. v \in RcvType /\ v.pc = "recv"
        BY <1>0, Bounds DEF RcvType
      <4>2. rcv' = [rcv EXCEPT ![o] = v] /\ obj[o].phase # "none"
        BY <3>2 DEF RecvStart
      <4> QED
        BY <4>1, <4>2
    <3> QED
      BY <1>1, <3>1, <3>2
  <2>2. Rcvs
    BY <2>1 DEF TablesInv, TypeInv
  <2>3. UNCHANGED <<desc, sock, made, obj, m_cs, snd, shared>>
    BY <1>1 DEF AcceptCall, RecvStart
  <2>4. TypeInv' /\ Steady
    BY <2>2, <2>3, ObjsKept, SocksKept DEF Steady, Live, TablesInv, TypeInv
  <2> QED
    BY <2>3, <2>4, ObjsKept DEF Quiet, Plain
<1>2. CASE AcceptFails(o) \/ RecvFails(o)
  <2> DEFINE r == [obj[o] EXCEPT !.phase = "failed"]
  <2>1. /\ rcv' = [rcv EXCEPT ![o] = Idle] /\ obj' = [obj EXCEPT ![o] = r]
        /\ UNCHANGED <<desc, sock, made, m_cs, snd, shared>> /\ rcv[o].pc \in {"accept", "recv"}
    BY <1>2 DEF AcceptFails, RecvFails
  <2>2. Rcvs
    BY <1>0, <2>1 DEF TablesInv, TypeInv
  <2>3. r \in ObjType /\ r.phase = "failed" /\ r.st = obj[o].st /\ SameObject(r, obj[o])
        /\ r.told = obj[o].told
    BY <1>0 DEF ObjType, SameObject
  <2> HIDE DEF r
  <2>4. obj[o].phase # "none"
    BY <2>1 DEF TablesInv, ReceiversOK
  <2>5. /\ obj' \in [Obj -> ObjType]
        /\ \A q \in Obj :
             /\ SameObject(obj'[q], obj[q]) /\ obj'[q].st = obj[q].st
             /\ obj'[q].phase # obj[q].phase =>
                  /\ obj[q].phase # "none" /\ obj'[q].phase \notin {"none", "made"}
                  /\ obj'[q].phase = "listen" => obj[q].cls # "UDP"
    BY <2>1, <2>3, <2>4, ObjMoves
  <2>6. obj'[o] = r /\ \A p \in Obj \ {o} : obj'[p] = obj[p]
    BY <2>1 DEF TablesInv, TypeInv
  <2>7. TypeInv' /\ Steady
    BY <2>1, <2>2, <2>5, SocksKept DEF Steady, Live, TablesInv, TypeInv
  <2> QED
    BY <2>1, <2>3, <2>6, <2>7 DEF Quiet, Plain
<1>3. ASSUME NEW k \in 1..MsgLen, RecvSome(o, k) PROVE TypeInv' /\ Quiet /\ Plain
  <2> DEFINE c == rcv[o].on
             r == [sock[c] EXCEPT !.in = sock[c].in - k]
             v == IF k = rcv[o].left THEN Idle
                  ELSE [rcv[o] EXCEPT !.on = Kernel(o), !.left = rcv[o].left - k]
  <2>1. /\ rcv[o].pc = "recv" /\ c # 0 /\ k \in 1..rcv[o].left /\ k =< sock[c].in
        /\ UNCHANGED <<desc, made, obj, m_cs, snd, shared>>
    BY <1>3 DEF RecvSome
  <2>2. c \in Sock /\ sock[c] \in SockType
    BY <1>0, <2>1, Bounds DEF RcvType, TablesInv, TypeInv
  <2>3. sock' = [sock EXCEPT ![c] = r] /\ rcv' = [rcv EXCEPT ![o] = v]
    BY <1>3, <2>2, Zenon DEF RecvSome, TablesInv, TypeInv
  <2>4. r \in SockType /\ r.kind = sock[c].kind /\ r.out = sock[c].out /\ r.port = sock[c].port
        /\ r.mode = sock[c].mode
    <3>1. sock[c].in - k \in 0..MaxIn
      BY <2>1, <2>2, Bounds DEF SockType
    <3> QED
      BY <2>2, <3>1 DEF SockType
  <2>5. v \in RcvType /\ v.pc # "accept"
    <3>1. rcv[o].left - k \in 0..MsgLen
      BY <1>0, <2>1, Bounds DEF RcvType
    <3>2. [rcv[o] EXCEPT !.on = Kernel(o), !.left = rcv[o].left - k] \in RcvType
      BY <1>0, <3>1 DEF RcvType
    <3>3. [rcv[o] EXCEPT !.on = Kernel(o), !.left = rcv[o].left - k].pc = rcv[o].pc
      BY <1>0 DEF RcvType
    <3> QED
      BY <1>0, <2>1, <3>2, <3>3
  <2> HIDE DEF r, v, c
  <2>6. (\A d \in Sock : sock'[d] = IF d = c THEN r ELSE sock[d]) /\ sock' \in [Sock -> SockType]
    BY <2>2, <2>3, <2>4 DEF TablesInv, TypeInv
  <2>7. \A d \in Sock : /\ sock'[d].kind = sock[d].kind
                        /\ ModeMoves(sock[d].mode, sock'[d].mode)
                        /\ sock'[d].out = sock[d].out /\ sock'[d].port = sock[d].port
                        /\ sock'[d].mode = "shut" => sock[d].mode = "shut"
    BY <2>4, <2>6 DEF ModeMoves
  <2>8. Rcvs
    BY <2>1, <2>3, <2>5 DEF TablesInv, TypeInv
  <2>9. TypeInv' /\ Steady
    BY <2>1, <2>6, <2>7, <2>8, ObjsKept DEF Steady, Live, TablesInv, TypeInv
  <2> QED
    BY <2>1, <2>7, <2>9, ObjsKept DEF Quiet, Plain
<1> QED
  BY <1>1, <1>2, <1>3 DEF Receives

(* Close, and the destructor *)
Closes(o) == Close(o) \/ Delete(o)

(* What becomes of the tables *)
ClosedBy(o) ==
  /\ \A f \in Fd : desc'[f] = IF f \in Named(obj[o]) THEN 0 ELSE desc[f]
  /\ \A c \in Sock :
       /\ sock'[c].kind = sock[c].kind /\ sock'[c].out = sock[c].out
       /\ sock'[c].port = sock[c].port /\ sock'[c].mode \in {sock[c].mode, "shut"}
       /\ sock'[c].mode # sock[c].mode =>
            c = Kernel(o) \/ \E f \in Named(obj[o]) \cap Fd : desc[f] = c

(* CloseNumbers frees the descriptors of the object and shuts the sockets behind them *)
LEMMA CloseTables ==
  ASSUME TablesInv, NEW o \in Obj, CloseNumbers(o)
  PROVE  /\ ClosedBy(o) /\ desc' \in [Fd -> 0..MaxSock] /\ sock' \in [Sock -> SockType]
<1> DEFINE cs == ({desc[f] : f \in ClosedFds(o)} \cup {Kernel(o)}) \ {0}
<1>1. /\ desc' = [f \in Fd |-> IF f \in Named(obj[o]) THEN 0 ELSE desc[f]]
      /\ sock' = Shutdown(cs)
  BY DEF CloseNumbers, ClosedFds
<1>2. Named(obj[o]) \subseteq Fd
  <2>1. obj[o] \in ObjType /\ NumbersOK(obj[o])
    BY DEF TablesInv, TypeInv
  <2> QED
    BY <2>1 DEF Named, ObjType, NumbersOK
<1>3. desc' \in [Fd -> 0..MaxSock]
  BY <1>1, Bounds DEF TablesInv, TypeInv
<1>4. \A c \in cs : c = Kernel(o) \/ \E f \in Named(obj[o]) \cap Fd : desc[f] = c
  BY <1>2 DEF ClosedFds
<1> HIDE DEF cs
<1> DEFINE shut(c) == [sock[c] EXCEPT !.mode = "shut", !.in = 0, !.pend = FALSE]
<1>5. ASSUME NEW c \in Sock
      PROVE  /\ shut(c) \in SockType /\ shut(c).mode = "shut" /\ shut(c).out = sock[c].out
             /\ shut(c).kind = sock[c].kind /\ shut(c).port = sock[c].port
  <2>1. sock[c] \in SockType /\ 0 \in 0..MaxIn
    BY Bounds DEF TablesInv, TypeInv
  <2> QED
    BY <2>1 DEF SockType
<1>6. sock' = [c \in Sock |-> IF c \in cs THEN shut(c) ELSE sock[c]]
  BY <1>1 DEF Shutdown
<1> HIDE DEF shut
<1>7. sock' \in [Sock -> SockType]
  BY <1>5, <1>6 DEF TablesInv, TypeInv
<1>8. \A c \in Sock : sock'[c] = IF c \in cs THEN shut(c) ELSE sock[c]
  BY <1>6
<1> QED
  BY <1>1, <1>3, <1>4, <1>5, <1>7, <1>8 DEF ClosedBy

(* Close and the destructor, which skips an INVALID_SOCKET *)
LEMMA ClosesSteady ==
  ASSUME TablesInv, NEW o \in Obj, Closes(o)
  PROVE  /\ TypeInv' /\ Quiet
         /\ ClosedBy(o) \/ UNCHANGED <<desc, sock>>
         /\ obj[o].own # 0 => ClosedBy(o)
         /\ Live(o) /\ obj'[o].st \in {"closed", "deleted"}
         /\ \A p \in Obj : obj'[p].phase = obj[p].phase /\ obj'[p].told = obj[p].told
         /\ \A p \in Obj \ {o} : obj'[p] = obj[p]
<1>1. PICK st \in {"closed", "deleted"} :
        /\ obj' = [obj EXCEPT ![o].st = st] /\ Live(o)
        /\ st = "deleted" => obj[o].phase = "failed"
        /\ CloseNumbers(o) \/ UNCHANGED <<desc, sock>>
        /\ obj[o].m_socket # INVALID_SOCKET => CloseNumbers(o)
        /\ UNCHANGED <<made, threads, shared>>
  BY DEF Closes, Close, Delete, Live
<1> DEFINE r == [obj[o] EXCEPT !.st = st]
<1>2. obj[o] \in ObjType /\ NumbersOK(obj[o])
  BY DEF TablesInv, TypeInv
<1>3. /\ r \in ObjType /\ r.st = st /\ SameObject(r, obj[o]) /\ r.phase = obj[o].phase
      /\ r.told = obj[o].told
  BY <1>2 DEF ObjType, SameObject
<1>4. obj' = [obj EXCEPT ![o] = r]
  BY <1>1
<1> HIDE DEF r
<1>5. obj' \in [Obj -> ObjType] /\ obj'[o] = r /\ \A p \in Obj \ {o} : obj'[p] = obj[p]
  BY <1>3, <1>4 DEF TablesInv, TypeInv
<1>6. \A p \in Obj :
        /\ SameObject(obj'[p], obj[p]) /\ obj'[p].phase = obj[p].phase /\ obj'[p].told = obj[p].told
        /\ obj'[p].st = obj[p].st \/ (p = o /\ Live(p) /\ obj'[p].st \in {"closed", "deleted"})
        /\ obj'[p].st = "deleted" /\ Live(p) => obj[p].phase = "failed"
  BY <1>1, <1>3, <1>5 DEF SameObject, Live
<1>7. CASE CloseNumbers(o)
  <2>1. ClosedBy(o) /\ desc' \in [Fd -> 0..MaxSock] /\ sock' \in [Sock -> SockType]
    BY <1>7, CloseTables
  <2>2. TypeInv' /\ Steady
    BY <1>1, <1>5, <1>6, <2>1 DEF Steady, threads, TablesInv, TypeInv, ClosedBy, ModeMoves
  <2>3. Quiet
    BY <1>1, <1>6, <2>1, <2>2 DEF Quiet, threads, ClosedBy
  <2> QED
    BY <1>1, <1>3, <1>5, <1>6, <2>1, <2>2, <2>3
<1>8. CASE UNCHANGED <<desc, sock>>
  <2>1. TypeInv' /\ Steady
    BY <1>1, <1>5, <1>6, <1>8 DEF Steady, threads, TablesInv, TypeInv, ModeMoves
  <2>2. Quiet
    BY <1>1, <1>6, <1>8, <2>1 DEF Quiet, threads
  <2>3. obj[o].own # 0 => ClosedBy(o)
    <3>1. obj[o].own # 0 => obj[o].m_socket # INVALID_SOCKET
      BY <1>2, Bounds DEF NumbersOK, INVALID_SOCKET
    <3> QED
      BY <1>1, <3>1, CloseTables
  <2> QED
    BY <1>1, <1>3, <1>5, <1>6, <1>8, <2>1, <2>2, <2>3
<1> QED
  BY <1>1, <1>7, <1>8

-----------------------------------------------------------------------------
(* The threads that send *)
Sends(s) ==
  \/ \E o \in Obj : SendStart(s, o)
  \/ \E k \in 1..MsgLen : SendSome(s, k)
  \/ SendEnd(s)

(* The bytes that are sent follow those sent before *)
LEMMA BytesType ==
  ASSUME TablesInv, NEW s \in Sender, snd[s].pc = "send", NEW k \in 1..snd[s].left
  PROVE  /\ Bytes(s, k) \in Seq(ByteType) /\ Len(Bytes(s, k)) = k /\ snd[s].left \in 1..MsgLen
         /\ \A i \in 1..k : /\ Bytes(s, k)[i].by = s /\ Bytes(s, k)[i].obj = snd[s].obj
                            /\ Bytes(s, k)[i].n = MsgLen - snd[s].left + i
<1>1. snd[s].left \in 0..MsgLen /\ snd[s].left \in 1..MsgLen /\ snd[s].obj \in Obj /\ k \in Nat
  BY Bounds DEF TablesInv, TypeInv, SndType
<1>2. \A i \in 1..k : [by |-> s, obj |-> snd[s].obj, n |-> MsgLen - snd[s].left + i] \in ByteType
  BY <1>1, Bounds DEF ByteType
<1>3. Bytes(s, k) \in [1..k -> ByteType]
  BY <1>2 DEF Bytes
<1>4. Bytes(s, k) \in Seq(ByteType) /\ Len(Bytes(s, k)) = k
  BY <1>1, <1>3
<1> QED
  BY <1>1, <1>4 DEF Bytes

(* They go to the socket that the object reaches *)
LEMMA SendSomeSock ==
  ASSUME TablesInv, NEW s \in Sender, NEW k \in 1..MsgLen, SendSome(s, k)
  PROVE  LET c == Kernel(snd[s].obj) IN
         /\ snd[s].pc = "send" /\ k \in 1..snd[s].left /\ Writable(c)
         /\ c \in Sock /\ sock' \in [Sock -> SockType]
         /\ \A d \in Sock :
              /\ sock'[d].kind = sock[d].kind /\ sock'[d].mode = sock[d].mode
              /\ sock'[d].port = sock[d].port
              /\ sock'[d].out = IF d = c THEN sock[c].out \o Bytes(s, k) ELSE sock[d].out
<1> DEFINE c == Kernel(snd[s].obj)
           r == [sock[c] EXCEPT !.out = sock[c].out \o Bytes(s, k)]
<1>1. /\ snd[s].pc = "send" /\ k \in 1..snd[s].left /\ Writable(c)
      /\ sock' = [sock EXCEPT ![c].out = sock[c].out \o Bytes(s, k)]
  BY DEF SendSome, TablesInv, TypeInv
<1>2. c # 0 /\ snd[s].obj \in Obj
  BY <1>1 DEF Writable, Mode, TablesInv, TypeInv
<1>3. c \in Sock /\ sock[c] \in SockType
  BY <1>2, KernelKnown
<1>4. sock[c].out \in Seq(ByteType) /\ Bytes(s, k) \in Seq(ByteType)
  BY <1>1, <1>3, BytesType DEF SockType
<1>5. sock[c].out \o Bytes(s, k) \in Seq(ByteType)
  BY <1>4
<1>6. /\ r \in SockType /\ r.kind = sock[c].kind /\ r.mode = sock[c].mode /\ r.port = sock[c].port
      /\ r.out = sock[c].out \o Bytes(s, k)
  BY <1>3, <1>5 DEF SockType
<1>7. sock' = [sock EXCEPT ![c] = r]
  BY <1>1
<1> HIDE DEF r, c
<1>8. sock' \in [Sock -> SockType] /\ \A d \in Sock : sock'[d] = IF d = c THEN r ELSE sock[d]
  BY <1>3, <1>6, <1>7 DEF TablesInv, TypeInv
<1> QED
  BY <1>1, <1>3, <1>6, <1>8 DEF c

(* Sending disturbs nothing but a stream and the senders' own state *)
LEMMA SendsPlain ==
  ASSUME TablesInv, NEW s \in Sender, Sends(s)
  PROVE  TypeInv' /\ Plain
<1>0. snd[s] \in SndType /\ snd[s].left \in 0..MsgLen /\ UNCHANGED <<desc, made, obj, rcv, shared>>
  BY DEF TablesInv, TypeInv, SndType, Sends, SendStart, SendSome, SendEnd
<1>1. /\ snd' \in [Sender -> SndType]
      /\ \A t \in Sender : snd'[t].pc = "send" => snd'[t].obj \in Obj
      /\ m_cs' \in [Obj -> Sender \cup {0}]
  <2>1. ASSUME NEW o \in Obj, SendStart(s, o)
        PROVE  /\ snd' \in [Sender -> SndType]
               /\ \A t \in Sender : snd'[t].pc = "send" => snd'[t].obj \in Obj
               /\ m_cs' \in [Obj -> Sender \cup {0}]
    <3> DEFINE r == [pc |-> "send", obj |-> o, left |-> MsgLen]
    <3>1. snd' = [snd EXCEPT ![s] = r] /\ m_cs' = [m_cs EXCEPT ![o] = s]
      BY <2>1 DEF SendStart
    <3>2. r \in SndType /\ r.obj \in Obj
      BY Bounds DEF SndType
    <3> HIDE DEF r
    <3> QED
      BY <3>1, <3>2 DEF TablesInv, TypeInv
  <2>2. ASSUME NEW k \in 1..MsgLen, SendSome(s, k)
        PROVE  /\ snd' \in [Sender -> SndType]
               /\ \A t \in Sender : snd'[t].pc = "send" => snd'[t].obj \in Obj
               /\ m_cs' \in [Obj -> Sender \cup {0}]
    <3> DEFINE r == [snd[s] EXCEPT !.left = snd[s].left - k]
    <3>1. snd' = [snd EXCEPT ![s] = r] /\ m_cs' = m_cs /\ k \in 1..snd[s].left
          /\ snd[s].pc = "send"
      BY <2>2 DEF SendSome, Sendlen
    <3>2. snd[s].left - k \in 0..MsgLen
      BY <1>0, <3>1, Bounds
    <3>3. r \in SndType /\ r.obj = snd[s].obj
      BY <1>0, <3>2 DEF SndType
    <3> HIDE DEF r
    <3> QED
      BY <3>1, <3>3 DEF TablesInv, TypeInv
  <2>3. ASSUME SendEnd(s)
        PROVE  /\ snd' \in [Sender -> SndType]
               /\ \A t \in Sender : snd'[t].pc = "send" => snd'[t].obj \in Obj
               /\ m_cs' \in [Obj -> Sender \cup {0}]
    <3> DEFINE r == [pc |-> "sent", obj |-> Min(Obj), left |-> 0]
    <3>1. snd' = [snd EXCEPT ![s] = r] /\ m_cs' = [m_cs EXCEPT ![snd[s].obj] = 0]
      BY <2>3 DEF SendEnd
    <3>2. r \in SndType /\ r.pc = "sent"
      BY Bounds DEF SndType
    <3> HIDE DEF r
    <3> QED
      BY <3>1, <3>2 DEF TablesInv, TypeInv
  <2> QED
    BY <2>1, <2>2, <2>3 DEF Sends
<1>2. /\ sock' \in [Sock -> SockType]
      /\ \A d \in Sock : /\ sock'[d].kind = sock[d].kind /\ sock'[d].mode = sock[d].mode
                         /\ sock'[d].port = sock[d].port
  <2>1. CASE \E k \in 1..MsgLen : SendSome(s, k)
    BY <2>1, SendSomeSock
  <2>2. CASE UNCHANGED sock
    BY <2>2 DEF TablesInv, TypeInv
  <2> QED
    BY <2>1, <2>2 DEF Sends, SendStart, SendEnd
<1>3. TypeInv' /\ Steady
  BY <1>0, <1>1, <1>2, ObjsKept DEF Steady, Live, ModeMoves, TablesInv, TypeInv
<1> QED
  BY <1>0, <1>2, <1>3, ObjsKept DEF Plain

-----------------------------------------------------------------------------
(* What the creation of an object leaves as it is *)
Arrives(o, r, mode, left) ==
  /\ TypeInv' /\ obj'[o] = r /\ o \notin left /\ made' \in {made, made + 1} /\ made \in Nat
  /\ \A p \in Obj \ {o} :
       /\ SameObject(obj'[p], obj[p]) /\ obj'[p].phase = obj[p].phase
       /\ obj'[p].told = obj[p].told
       /\ obj'[p].st = IF p \in left THEN "left" ELSE obj[p].st
       /\ p \in left => obj[p].cls = "UDP" /\ Live(p)
  /\ \A c \in 1..made :
       /\ c \in Sock
       /\ sock'[c].kind = sock[c].kind /\ sock'[c].mode = sock[c].mode
       /\ sock'[c].port = sock[c].port /\ sock'[c].out = sock[c].out
  /\ \A c \in Sock : sock'[c].out = sock[c].out \/ sock'[c].out = <<>>
  /\ r.own # 0 =>
       /\ r.own = made + 1 /\ r.own \in Sock /\ r.own = made'
       /\ sock'[r.own] = Fresh(r.cls, mode)
  /\ \A f \in Fd : IF r.own # 0 /\ r.cls # "UDT" /\ f = r.m_socket
                   THEN desc[f] = 0 /\ desc'[f] = made + 1
                   ELSE desc'[f] = desc[f]

(* A creation leaves the other objects, sockets and descriptors as they are *)
LEMMA NewKeeps ==
  ASSUME TablesInv, NEW o \in Obj, NEW r \in ObjType, NEW mode \in {"new", "conn"},
         NEW left \in SUBSET Obj, NEW socks \in [Sock -> SockType],
         NewStep(o, r, mode, left, socks)
  PROVE  Arrives(o, r, mode, left)
<1>0. /\ made \in 0..MaxSock /\ made \in Nat /\ made + 1 # 0 /\ INVALID_SOCKET = 0
      /\ Comes(o, r, mode, left, socks) /\ \A c \in 1..made : c \in Sock /\ c # made + 1
  BY Bounds DEF TablesInv, TypeInv, NewStep, Sock, INVALID_SOCKET
<1>1. o \notin left /\ \A p \in left : obj[p].cls = "UDP" /\ Live(p)
  BY DEF NewStep, Comes, Live
<1>2. ASSUME NEW p \in Obj \ {o}
      PROVE  /\ SameObject(obj'[p], obj[p]) /\ obj'[p].phase = obj[p].phase
             /\ obj'[p].told = obj[p].told
             /\ obj'[p].st = IF p \in left THEN "left" ELSE obj[p].st
  <2>1. obj[p] \in ObjType
    BY DEF TablesInv, TypeInv
  <2>2. obj'[p] = IF p \in left THEN [obj[p] EXCEPT !.st = "left"] ELSE obj[p]
    BY <1>0 DEF Comes
  <2>3. CASE p \in left
    <3>1. obj'[p] = [obj[p] EXCEPT !.st = "left"]
      BY <2>2, <2>3
    <3> QED
      BY <2>1, <2>3, <3>1 DEF SameObject, ObjType
  <2>4. CASE p \notin left
    BY <2>2, <2>4 DEF SameObject
  <2> QED
    BY <2>3, <2>4
<1>3. ASSUME NEW c \in Sock
      PROVE  /\ socks[c].kind = sock[c].kind /\ socks[c].mode = sock[c].mode
             /\ socks[c].port = sock[c].port /\ socks[c].out = sock[c].out
  <2>1. sock[c] \in SockType /\ (socks[c] = sock[c] \/ socks[c] = [sock[c] EXCEPT !.pend = FALSE])
    BY DEF TablesInv, TypeInv, NewStep
  <2>2. CASE socks[c] = [sock[c] EXCEPT !.pend = FALSE]
    BY <2>1, <2>2 DEF SockType
  <2> QED
    BY <2>1, <2>2
<1>4. Fresh(r.cls, mode) \in SockType /\ Fresh(r.cls, mode).out = <<>>
  <2>1. r.cls \in Class /\ 0 \in 0..MaxIn /\ <<>> \in Seq(ByteType)
    BY Bounds DEF NewStep
  <2> QED
    BY <2>1 DEF Fresh, SockType
<1>5. CASE r.own # 0
  <2>1. /\ r.own = made + 1 /\ made + 1 \in Sock /\ made' = made + 1
        /\ sock' = [socks EXCEPT ![made + 1] = Fresh(r.cls, mode)]
        /\ IF r.cls = "UDT" THEN r.m_socket = made + 1 /\ desc' = desc
           ELSE /\ r.m_socket \in Fd /\ desc[r.m_socket] = 0
                /\ desc' = [desc EXCEPT ![r.m_socket] = made + 1]
    BY <1>0, <1>5 DEF Comes
  <2>2. /\ sock' \in [Sock -> SockType] /\ sock'[made + 1] = Fresh(r.cls, mode)
        /\ \A c \in Sock : c # made + 1 => sock'[c] = socks[c]
    BY <1>4, <2>1
  <2>3. /\ made' \in 0..MaxSock /\ desc' \in [Fd -> 0..MaxSock]
        /\ \A f \in Fd : IF r.cls # "UDT" /\ f = r.m_socket
                         THEN desc[f] = 0 /\ desc'[f] = made + 1
                         ELSE desc'[f] = desc[f]
    <3>1. made + 1 \in 0..MaxSock /\ desc \in [Fd -> 0..MaxSock]
      BY <2>1, Bounds DEF Sock, TablesInv, TypeInv
    <3> QED
      BY <2>1, <3>1
  <2>4. TypeInv'
    BY <1>0, <2>2, <2>3 DEF TablesInv, TypeInv, NewStep, Comes
  <2> QED
    BY <1>0, <1>1, <1>2, <1>3, <1>4, <1>5, <2>1, <2>2, <2>3, <2>4 DEF Comes, Arrives
<1>6. CASE r.own = 0
  <2>1. sock' = socks /\ UNCHANGED <<made, desc>>
    BY <1>0, <1>6 DEF Comes
  <2>2. TypeInv'
    BY <1>0, <2>1 DEF TablesInv, TypeInv, NewStep, Comes
  <2> QED
    BY <1>0, <1>1, <1>2, <1>3, <1>6, <2>1, <2>2 DEF Comes, Arrives
<1> QED
  BY <1>5, <1>6

(* The tables hold through a creation *)
LEMMA NewTables ==
  ASSUME TablesInv, NEW o \in Obj, NEW r \in ObjType, NEW mode \in {"new", "conn"},
         NEW left \in SUBSET Obj, NEW socks \in [Sock -> SockType],
         NewStep(o, r, mode, left, socks)
  PROVE  TablesInv'
<1>0. Arrives(o, r, mode, left)
  BY NewKeeps
<1> USE DEF Arrives
<1>1. /\ r.cls \in Class /\ r.st = "open" /\ r.phase \in {"made", "up"}
      /\ r.own = 0 => r.m_socket = INVALID_SOCKET /\ r.cls # "UDT"
      /\ r.own # 0 => IF r.cls = "UDT" THEN r.m_socket = r.own ELSE r.m_socket \in Fd
      /\ \A q \in Obj : rcv'[q].pc \in {rcv[q].pc, "idle"}
  BY <1>0 DEF NewStep, Comes
<1>2. \A p \in Obj : obj[p] \in ObjType /\ NumbersOK(obj[p]) /\ obj[p].own \in 0..made
  BY <1>0, Bounds DEF TablesInv, TypeInv, ObjType, NumbersOK
<1>3. \A f \in Fd : desc[f] \in 0..made
  BY <1>0, Bounds DEF TablesInv, TypeInv, DescOK
<1>4. DescOK'
  <2>1. ASSUME NEW f \in Fd, desc'[f] # 0 PROVE desc'[f] <= made' /\ sock'[desc'[f]].kind # "UDT"
    <3>1. CASE desc'[f] = desc[f]
      BY <1>0, <1>3, <2>1, <3>1 DEF TablesInv, DescOK
    <3>2. CASE desc'[f] # desc[f]
      BY <1>0, <3>2 DEF Fresh
    <3> QED
      BY <3>1, <3>2
  <2>2. ASSUME NEW f \in Fd, NEW g \in Fd, desc'[f] # 0, desc'[f] = desc'[g] PROVE f = g
    <3>1. CASE desc'[f] = desc[f] /\ desc'[g] = desc[g]
      BY <2>2, <3>1 DEF TablesInv, DescOK
    <3>2. CASE desc'[f] # desc[f] \/ desc'[g] # desc[g]
      BY <1>0, <1>3, <2>2, <3>2
    <3> QED
      BY <3>1, <3>2
  <2> QED
    BY <2>1, <2>2 DEF DescOK
<1>5. OwnersOK'
  BY <1>0, <1>2 DEF TablesInv, OwnersOK, SameObject
<1>6. ASSUME NEW p \in Obj PROVE NumbersOK(obj[p])'
  <2>1. CASE p = o
    BY <1>0, <1>1, <2>1 DEF NumbersOK, Fresh, Class, INVALID_SOCKET
  <2>2. CASE p # o
    <3> DEFINE q == obj'[p]
               b == obj[p]
    <3>1. /\ SameObject(q, b) /\ q.phase = b.phase /\ NumbersOK(b) /\ b.own \in 0..made
          /\ q.st = IF p \in left THEN "left" ELSE b.st
      BY <1>0, <1>2, <2>2
    <3>2. p \in left => b.cls = "UDP" /\ b.st \in {"open", "closed"} /\ b.phase # "made"
      BY <1>0, <2>2 DEF Live, NewStep
    <3>3. q.own # 0 => sock'[q.own].kind = sock[q.own].kind /\ q.own <= made'
      BY <1>0, <3>1 DEF SameObject
    <3> HIDE DEF q, b
    <3>4. /\ q.st = "none" =>
               /\ q.cls = "none" /\ q.phase = "none" /\ q.own = 0
               /\ q.m_socket = INVALID_SOCKET /\ q.m_udpSocket = INVALID_SOCKET /\ q.after = {}
          /\ q.cls = "none" => q.st = "none"
          /\ q.own = 0 => q.m_socket = INVALID_SOCKET /\ q.cls # "UDT"
          /\ q.own # 0 =>
               /\ q.own <= made' /\ q.cls \in Class /\ sock'[q.own].kind = q.cls
               /\ IF q.cls = "UDT" THEN q.m_socket = q.own ELSE q.m_socket \in Fd
          /\ q.phase = "made" => q.st \in {"open", "closed"}
          /\ q.phase = "listen" => q.cls # "UDP"
      BY <3>1, <3>2, <3>3 DEF NumbersOK, SameObject
    <3> QED
      BY <3>4 DEF q, NumbersOK, INVALID_SOCKET
  <2> QED
    BY <2>1, <2>2
<1>7. ReceiversOK'
  <2>1. obj[o].st = "none" /\ obj[o].phase = "none" /\ rcv[o].pc = "idle"
    BY <1>2 DEF NewStep, Comes, NumbersOK, TablesInv, ReceiversOK
  <2>2. rcv'[o].pc = "idle"
    BY <1>1, <2>1
  <2> QED
    BY <1>0, <1>1, <2>2 DEF ReceiversOK, TablesInv, SameObject
<1> QED
  BY <1>0, <1>4, <1>5, <1>6, <1>7 DEF TablesInv

(* The steps, by what they do *)
LEMMA NextCases ==
  ASSUME Next
  PROVE  \/ \E o \in Obj :
              \/ Creates(o) \/ Listen(o) \/ Connect(o) \/ Receives(o) \/ Closes(o)
              \/ \E host \in {"", "name", "unknown"} : Bind(o, host, Min(Port))
         \/ \E s \in Sender : Sends(s)
         \/ \E c \in Sock : Peers(c)
<1>1. ASSUME NEW o \in Obj, NEW p \in Obj, Accept(o, p) PROVE Creates(p)
  BY <1>1 DEF Creates
<1> QED
  BY <1>1 DEF Next, ReceiverStep, Creates, Receives, Closes, Sends, Peers

LEMMA TablesStep == TablesInv /\ [Next]_vars => TablesInv'
<1> SUFFICES ASSUME TablesInv, [Next]_vars PROVE TablesInv'
  OBVIOUS
<1>1. ASSUME NEW o \in Obj, Creates(o) PROVE TablesInv'
  BY <1>1, CreateStep, NewTables
<1>2. ASSUME NEW o \in Obj,
             \/ Listen(o) \/ Connect(o) \/ Receives(o) \/ Closes(o)
             \/ \E host \in {"", "name", "unknown"} : Bind(o, host, Min(Port))
      PROVE  TablesInv'
  <2>1. TypeInv' /\ Steady
    BY <1>2, ListenSteady, ConnectPlain, ReceivesPlain, ClosesSteady, BindSteady DEF Quiet
  <2> QED
    BY <2>1, SteadyTables
<1>3. ASSUME NEW s \in Sender, Sends(s) PROVE TablesInv'
  BY <1>3, SendsPlain, SteadyTables DEF Plain
<1>4. ASSUME NEW c \in Sock, Peers(c) PROVE TablesInv'
  BY <1>4, PeersPlain, SteadyTables DEF Plain
<1>5. CASE UNCHANGED vars
  <2>1. TypeInv' /\ Steady
    BY <1>5, ObjsKept, SocksKept DEF Steady, Live, vars, threads, TablesInv, TypeInv
  <2> QED
    BY <2>1, SteadyTables
<1> QED
  BY <1>1, <1>2, <1>3, <1>4, <1>5, NextCases

LEMMA TablesInit == Init => TablesInv
<1> SUFFICES ASSUME Init PROVE TablesInv
  OBVIOUS
<1> DEFINE none == [cls |-> "none", st |-> "none", phase |-> "none",
                    m_socket |-> INVALID_SOCKET, m_udpSocket |-> INVALID_SOCKET,
                    own |-> 0, told |-> 0, after |-> {}]
           idle == [pc |-> "idle", obj |-> Min(Obj), left |-> 0]
<1>1. none \in ObjType
  BY Bounds DEF ObjType, INVALID_SOCKET
<1>2. idle \in SndType /\ Idle \in RcvType /\ 0 \in 0..MaxSock
  BY Bounds DEF SndType, RcvType, Idle
<1>3. Fresh("none", "none") \in SockType
  <2>1. 0 \in 0..MaxIn /\ <<>> \in Seq(ByteType)
    BY Bounds
  <2> QED
    BY <2>1 DEF SockType, Fresh
<1>4. TypeInv
  BY <1>1, <1>2, <1>3 DEF Init, TypeInv
<1>5. DescOK /\ OwnersOK /\ ReceiversOK
  BY DEF Init, DescOK, OwnersOK, ReceiversOK, Idle
<1>6. \A o \in Obj : NumbersOK(obj[o])
  BY DEF Init, NumbersOK, INVALID_SOCKET
<1> QED
  BY <1>4, <1>5, <1>6 DEF TablesInv

-----------------------------------------------------------------------------
(* Who reaches which socket *)
LEMMA NamedKept ==
  ASSUME NEW q, NEW r, SameObject(q, r)
  PROVE  Named(q) = Named(r)
  BY DEF SameObject, Named

(* The socket that an object reaches, from its descriptor *)
LEMMA KernelIs ==
  ASSUME TablesInv, NEW o \in Obj, obj[o].own # 0
  PROVE  /\ obj[o].own \in Sock /\ obj[o].own \in 1..made
         /\ Kernel(o) = IF obj[o].cls = "UDT" THEN obj[o].own ELSE desc[obj[o].m_socket]
         /\ obj[o].cls # "UDT" => obj[o].m_socket \in Fd /\ obj[o].m_socket \in Named(obj[o])
<1>1. /\ obj[o] \in ObjType /\ NumbersOK(obj[o]) /\ obj[o].own \in Sock /\ obj[o].own \in 1..made
      /\ obj[o].m_socket # INVALID_SOCKET
  BY Bounds DEF TablesInv, TypeInv, ObjType, NumbersOK, INVALID_SOCKET, Sock
<1> QED
  BY <1>1 DEF NumbersOK, Kernel, Named

(* A steady step gives no object its socket back *)
LEMMA KernelKept ==
  ASSUME TablesInv, TablesInv', Steady, NEW o \in Obj
  PROVE  /\ obj[o].own # 0 /\ Kernel(o)' = obj[o].own => Kernel(o) = obj[o].own
         /\ desc' = desc => Kernel(o)' = Kernel(o)
<1>1. SameObject(obj'[o], obj[o])
  BY DEF Steady
<1>2. desc' = desc => Kernel(o)' = Kernel(o)
  BY <1>1 DEF Kernel, SameObject
<1>3. ASSUME obj[o].own # 0, Kernel(o)' = obj[o].own PROVE Kernel(o) = obj[o].own
  <2>1. /\ Kernel(o) = IF obj[o].cls = "UDT" THEN obj[o].own ELSE desc[obj[o].m_socket]
        /\ obj[o].cls # "UDT" => obj[o].m_socket \in Fd
    BY <1>3, KernelIs
  <2>2. Kernel(o)' = IF obj[o].cls = "UDT" THEN obj[o].own ELSE desc'[obj[o].m_socket]
    BY <1>1, <1>3, <2>1 DEF Kernel, SameObject, TablesInv, NumbersOK, INVALID_SOCKET
  <2> QED
    BY <1>3, <2>1, <2>2 DEF Steady
<1> QED
  BY <1>2, <1>3

(* Nobody comes to share a descriptor in a steady step *)
LEMMA SteadyShared ==
  ASSUME SharedOK, Steady
  PROVE  SharedOK'
<1>1. \A o \in Obj : Named(obj'[o]) = Named(obj[o]) /\ (Live(o)' => Live(o))
  BY NamedKept DEF Steady, Live
<1>2. \A o, p \in Obj : Share(o, p)' => Share(o, p)
  BY <1>1 DEF Share
<1> QED
  BY <1>2 DEF SharedOK, Steady

(* An open object goes on reaching its socket if nothing is closed *)
LEMMA OpenReached ==
  ASSUME TablesInv, TablesInv', OwnInv, Steady, desc' = desc,
         \A c \in Sock : sock'[c].mode = "shut" => sock[c].mode = "shut"
  PROVE  OwnInv'
<1>1. ASSUME NEW o \in Obj \ shared', obj'[o].st = "open", obj'[o].own # 0
      PROVE  Kernel(o)' = obj'[o].own /\ sock'[obj'[o].own].mode # "shut"
  <2>1. o \in Obj \ shared /\ obj[o].st = "open" /\ obj'[o].own = obj[o].own
    BY <1>1 DEF Steady, SameObject, Live
  <2>2. Kernel(o) = obj[o].own /\ sock[obj[o].own].mode # "shut" /\ obj[o].own \in Sock
    BY <1>1, <2>1, KernelIs DEF OwnInv, Reached
  <2>3. Kernel(o)' = Kernel(o)
    BY KernelKept
  <2> QED
    BY <2>1, <2>2, <2>3
<1> QED
  BY <1>1, SteadyShared DEF OwnInv, Reached

(* Closing one object takes its socket from no other that shares no descriptor with it *)
LEMMA ClosesReached ==
  ASSUME TablesInv, TablesInv', OwnInv, NEW o \in Obj, Closes(o)
  PROVE  OwnInv'
<1>1. /\ Quiet /\ Live(o)
      /\ (ClosedBy(o) \/ UNCHANGED <<desc, sock>>)
      /\ obj'[o].st \in {"closed", "deleted"} /\ \A p \in Obj \ {o} : obj'[p] = obj[p]
  BY ClosesSteady
<1>2. CASE UNCHANGED <<desc, sock>>
  BY <1>1, <1>2, OpenReached DEF Quiet
<1>3. CASE ClosedBy(o)
  <2>1. ASSUME NEW p \in Obj \ shared', obj'[p].st = "open", obj'[p].own # 0
        PROVE  Kernel(p)' = obj'[p].own /\ sock'[obj'[p].own].mode # "shut"
    <3>1. /\ p \in Obj \ shared /\ p # o /\ obj'[p] = obj[p] /\ obj[p].st = "open"
          /\ obj[p].own # 0 /\ Live(p)
      BY <1>1, <2>1 DEF Quiet, Steady, Live
    <3>2. Named(obj[p]) \cap Named(obj[o]) = {}
      BY <1>1, <3>1 DEF OwnInv, SharedOK, Share
    <3>3. /\ Kernel(p) = obj[p].own /\ sock[obj[p].own].mode # "shut" /\ obj[p].own \in Sock
          /\ Kernel(p) = IF obj[p].cls = "UDT" THEN obj[p].own ELSE desc[obj[p].m_socket]
          /\ obj[p].cls # "UDT" => obj[p].m_socket \in Fd /\ obj[p].m_socket \in Named(obj[p])
      BY <3>1, KernelIs DEF OwnInv, Reached
    <3>4. obj[p].cls # "UDT" => desc'[obj[p].m_socket] = desc[obj[p].m_socket]
      BY <1>3, <3>2, <3>3 DEF ClosedBy
    <3>5. Kernel(p)' = obj[p].own
      BY <3>1, <3>3, <3>4 DEF Kernel, TablesInv, NumbersOK, INVALID_SOCKET
    <3>6. ASSUME NEW f \in Named(obj[o]) \cap Fd, desc[f] = obj[p].own PROVE FALSE
      <4>1. obj[p].cls # "UDT"
        BY <3>1, <3>3, <3>6 DEF TablesInv, DescOK, NumbersOK
      <4>2. f = obj[p].m_socket
        BY <3>1, <3>3, <3>6, <4>1 DEF TablesInv, DescOK
      <4> QED
        BY <3>2, <3>3, <3>6, <4>1, <4>2
    <3>7. obj[p].own # Kernel(o)
      <4> SUFFICES ASSUME obj[p].own = Kernel(o) PROVE FALSE
        OBVIOUS
      <4>1. /\ Kernel(o) # 0 /\ obj[o].own # 0
            /\ IF obj[o].cls = "UDT" THEN Kernel(o) = obj[o].own
               ELSE obj[o].m_socket \in Fd /\ Kernel(o) = desc[obj[o].m_socket]
        BY <3>1, KernelKnown
      <4>2. obj[o].cls # "UDT"
        BY <3>1, <4>1 DEF TablesInv, OwnersOK
      <4>3. obj[o].m_socket \in Named(obj[o]) \cap Fd
        BY <4>1, <4>2, KernelIs
      <4> QED
        BY <3>6, <4>1, <4>2, <4>3
    <3>8. sock'[obj[p].own].mode = sock[obj[p].own].mode
      BY <1>3, <3>3, <3>6, <3>7 DEF ClosedBy
    <3> QED
      BY <3>1, <3>3, <3>5, <3>8
  <2> QED
    BY <1>1, <2>1, SteadyShared DEF OwnInv, Reached, Quiet
<1> QED
  BY <1>1, <1>2, <1>3

(* A new object that gets the descriptor of another is found to share it *)
LEMMA NewReached ==
  ASSUME TablesInv, TablesInv', OwnInv, NEW o \in Obj, NEW r \in ObjType,
         NEW mode \in {"new", "conn"}, NEW left \in SUBSET Obj,
         NEW socks \in [Sock -> SockType], NewStep(o, r, mode, left, socks)
  PROVE  OwnInv'
<1>1. Arrives(o, r, mode, left)
  BY NewKeeps
<1>2. /\ r.st = "open" /\ shared \subseteq shared'
      /\ Sharing(o, r, left) # {} => Sharing(o, r, left) \cup {o} \subseteq shared'
  BY DEF NewStep, Comes
<1>3. ASSUME NEW p \in Obj \ {o}
      PROVE  /\ Named(obj'[p]) = Named(obj[p])
             /\ obj'[p].st \in {"open", "closed"} => p \notin left /\ obj'[p].st = obj[p].st
             /\ Live(p)' => Live(p) /\ p \notin left
  BY <1>1, NamedKept DEF Arrives, Live
<1>4. SharedOK'
  <2>1. ASSUME NEW q \in Obj \ {o}, Live(q)', Named(r) \cap Named(obj'[q]) # {}
        PROVE  q \in shared' /\ o \in shared'
    <3>1. q \in Sharing(o, r, left)
      BY <1>3, <2>1 DEF Sharing, Live
    <3> QED
      BY <1>2, <3>1
  <2>2. ASSUME NEW p \in Obj, NEW q \in Obj, Share(p, q)' PROVE p \in shared'
    <3>1. CASE p = o \/ q = o
      BY <1>1, <2>1, <2>2, <3>1 DEF Share, Arrives
    <3>2. CASE p # o /\ q # o
      BY <1>2, <1>3, <2>2, <3>2 DEF Share, OwnInv, SharedOK
    <3> QED
      BY <3>1, <3>2
  <2> QED
    BY <2>2 DEF SharedOK
<1>5. ASSUME NEW p \in Obj \ shared', obj'[p].st = "open", obj'[p].own # 0
      PROVE  Kernel(p)' = obj'[p].own /\ sock'[obj'[p].own].mode # "shut"
  <2>0. Kernel(p)' = IF obj'[p].cls = "UDT" THEN obj'[p].own ELSE desc'[obj'[p].m_socket]
    BY <1>5, Bounds DEF Kernel, TablesInv, NumbersOK, INVALID_SOCKET
  <2>1. CASE p = o
    <3>1. /\ obj'[p] = r /\ r.own # 0 /\ sock'[r.own].mode = mode
          /\ r.cls # "UDT" => r.m_socket \in Fd /\ desc'[r.m_socket] = r.own
      BY <1>1, <1>5, <2>1 DEF Arrives, Fresh, NewStep, Comes
    <3> QED
      BY <2>0, <3>1
  <2>2. CASE p # o
    <3>1. /\ p \in Obj \ shared /\ obj[p].st = "open" /\ SameObject(obj'[p], obj[p])
          /\ obj[p].own # 0
      BY <1>1, <1>2, <1>3, <1>5, <2>2 DEF Arrives, SameObject
    <3>2. /\ Kernel(p) = obj[p].own /\ sock[obj[p].own].mode # "shut" /\ obj[p].own \in 1..made
          /\ Kernel(p) = IF obj[p].cls = "UDT" THEN obj[p].own ELSE desc[obj[p].m_socket]
          /\ obj[p].cls # "UDT" => obj[p].m_socket \in Fd
      BY <3>1, KernelIs DEF OwnInv, Reached
    <3>3. obj[p].cls # "UDT" => desc'[obj[p].m_socket] = desc[obj[p].m_socket]
      BY <1>1, <3>1, <3>2 DEF Arrives
    <3> QED
      BY <1>1, <2>0, <3>1, <3>2, <3>3 DEF SameObject, Arrives
  <2> QED
    BY <2>1, <2>2
<1> QED
  BY <1>4, <1>5 DEF OwnInv, Reached

LEMMA OwnStep == TablesInv /\ TablesInv' /\ OwnInv /\ [Next]_vars => OwnInv'
<1> SUFFICES ASSUME TablesInv, TablesInv', OwnInv, [Next]_vars PROVE OwnInv'
  OBVIOUS
<1>1. ASSUME NEW o \in Obj, Creates(o) PROVE OwnInv'
  BY <1>1, CreateStep, NewReached
<1>2. ASSUME NEW o \in Obj, Listen(o) \/ Connect(o) \/ Receives(o) PROVE OwnInv'
  <2>1. Steady /\ desc' = desc /\ \A c \in Sock : sock'[c].mode = "shut" => sock[c].mode = "shut"
    BY <1>2, ListenSteady, ConnectPlain, ReceivesPlain DEF Quiet, Plain
  <2> QED
    BY <2>1, OpenReached
<1>3. ASSUME NEW o \in Obj, NEW host \in {"", "name", "unknown"}, Bind(o, host, Min(Port))
      PROVE  OwnInv'
  <2>1. Quiet /\ desc' = desc /\ \A c \in Sock : sock'[c].mode = sock[c].mode
    BY <1>3, BindSteady DEF Bind
  <2> QED
    BY <2>1, OpenReached DEF Quiet
<1>4. ASSUME NEW o \in Obj, Closes(o) PROVE OwnInv'
  BY <1>4, ClosesReached
<1>5. CASE (\E s \in Sender : Sends(s)) \/ (\E c \in Sock : Peers(c))
  <2>1. Plain
    BY <1>5, SendsPlain, PeersPlain
  <2> QED
    BY <2>1, OpenReached DEF Plain
<1>6. CASE UNCHANGED vars
  <2>1. Steady /\ desc' = desc /\ sock' = sock
    BY <1>6, ObjsKept, SocksKept DEF Steady, Live, vars, threads
  <2> QED
    BY <2>1, OpenReached
<1> QED
  BY <1>1, <1>2, <1>3, <1>4, <1>5, <1>6, NextCases

LEMMA OwnAlways == Spec => [](TablesInv /\ OwnInv)
<1>1. Init => TablesInv /\ OwnInv
  BY TablesInit DEF Init, OwnInv, SharedOK, Share, Live, Reached
<1>2. TablesInv /\ OwnInv /\ [Next]_vars => (TablesInv /\ OwnInv)'
  BY TablesStep, OwnStep
<1> QED
  BY <1>1, <1>2, PTL DEF Spec

-----------------------------------------------------------------------------
(* The streams *)
LEMMA StreamType ==
  ASSUME TablesInv, NEW c \in Sock
  PROVE  /\ sock[c].out \in Seq(ByteType) /\ Len(sock[c].out) \in Nat
         /\ \A i \in 1..Len(sock[c].out) :
              /\ sock[c].out[i].by \in Sender /\ sock[c].out[i].obj \in Obj
              /\ sock[c].out[i].n \in 1..MsgLen
<1>1. sock[c].out \in Seq(ByteType)
  BY DEF TablesInv, TypeInv, SockType
<1>2. \A i \in 1..Len(sock[c].out) : sock[c].out[i] \in ByteType
  BY <1>1
<1> QED
  BY <1>1, <1>2 DEF ByteType

(* The elements of a concatenation *)
LEMMA Appended ==
  ASSUME NEW T, NEW out \in Seq(T), NEW b \in Seq(T)
  PROVE  /\ out \o b \in Seq(T) /\ Len(out \o b) = Len(out) + Len(b)
         /\ Len(out) \in Nat /\ Len(b) \in Nat
         /\ \A i \in 1..Len(out) : (out \o b)[i] = out[i]
         /\ \A i \in (Len(out) + 1)..(Len(out) + Len(b)) : (out \o b)[i] = b[i - Len(out)]
  OBVIOUS

(* Nobody enters, leaves or goes on *)
LEMMA SendersKept ==
  ASSUME SectionOK, UNCHANGED <<m_cs, snd>>, \A o \in Obj : obj[o].own # 0 => obj'[o].own # 0
  PROVE  SectionOK' /\ \A o \in Obj : Got(o)' = Got(o)
  BY DEF SectionOK, Got

(* The streams hold through a step in which nobody sends: a socket that comes up has
   nothing of its object in it *)
LEMMA StreamsQuiet ==
  ASSUME TablesInv, TablesInv', SendInv, Quiet
  PROVE  SendInv'
<1>1. /\ UNCHANGED <<m_cs, snd>> /\ \A c \in Sock : sock'[c].out = sock[c].out
      /\ \A o \in Obj : SameObject(obj'[o], obj[o])
      /\ \A c \in Sock : sock'[c].kind = sock[c].kind /\ ModeMoves(sock[c].mode, sock'[c].mode)
  BY DEF Quiet, Steady
<1>2. SectionOK' /\ \A o \in Obj : Got(o)' = Got(o)
  BY <1>1, SendersKept DEF SendInv, SameObject
<1>3. \A c \in Sock : BytesOnce(sock[c].out)'
  BY <1>1 DEF SendInv, BytesOnce
<1>4. ASSUME NEW o \in Obj, obj'[o].own # 0 PROVE StreamOK(o)'
  <2> DEFINE c == obj[o].own
  <2>1. /\ obj'[o].own = c /\ obj'[o].cls = obj[o].cls /\ c # 0 /\ c \in Sock
        /\ sock[c].kind = obj[o].cls /\ sock'[c].out = sock[c].out
    BY <1>1, <1>4, KernelIs DEF SameObject, TablesInv, NumbersOK
  <2>2. StreamOK(o) /\ (Kernel(o)' = c => Kernel(o) = c)
    BY <2>1, KernelKept DEF SendInv, Quiet
  <2>3. Whole(sock'[c].out, o)
    BY <2>1, <2>2 DEF StreamOK
  <2>4. ASSUME Kernel(o)' = c, Writable(c)' PROVE EndsRight(sock[c].out, o)'
    <3>1. EndsRight(sock[c].out, o)
      <4>1. CASE sock'[c].mode = sock[c].mode
        BY <2>1, <2>2, <2>4, <4>1, <1>1 DEF StreamOK, Writable, Mode
      <4>2. CASE sock'[c].mode # sock[c].mode
        <5>1. sock[c].mode = "new" /\ sock'[c].mode = "conn" /\ obj[o].cls # "UDP"
          BY <1>1, <2>1, <2>4, <4>2 DEF ModeMoves, Writable, Mode
        <5> QED
          BY <2>2, <2>4, <5>1 DEF StreamOK, EndsRight, EndsAt, Got, Latest
      <4> QED
        BY <4>1, <4>2
    <3> QED
      BY <1>1, <1>2, <2>1, <3>1 DEF EndsRight
  <2>5. ASSUME obj[o].cls # "UDP", sock'[c].mode \in {"new", "listen"}
        PROVE  /\ \A i \in 1..Len(sock[c].out) : sock[c].out[i].obj # o
               /\ Kernel(o)' = c => obj'[o].phase # "up" /\ m_cs[o] = 0
    <3>1. sock[c].mode \in {"new", "listen"}
      BY <1>1, <2>1, <2>5 DEF ModeMoves
    <3>2. Kernel(o)' = c => Mode(Kernel(o))' # "conn"
      BY <2>1, <2>5 DEF Mode
    <3> QED
      BY <2>2, <2>5, <3>1, <3>2 DEF StreamOK, Quiet
  <2> QED
    BY <1>1, <2>1, <2>3, <2>4, <2>5 DEF StreamOK
<1> QED
  BY <1>2, <1>3, <1>4 DEF SendInv

(* They hold through a creation: the new stream is empty *)
LEMMA StreamsNew ==
  ASSUME TablesInv, TablesInv', SendInv, NEW o \in Obj, NEW r \in ObjType,
         NEW mode \in {"new", "conn"}, NEW left \in SUBSET Obj,
         NEW socks \in [Sock -> SockType], NewStep(o, r, mode, left, socks)
  PROVE  SendInv'
<1>1. Arrives(o, r, mode, left) /\ UNCHANGED <<m_cs, snd>>
  <2>1. Arrives(o, r, mode, left)
    BY NewKeeps
  <2> QED
    BY <2>1 DEF NewStep
<1>2. obj[o].own = 0 /\ r.phase = IF mode = "conn" THEN "up" ELSE "made"
  BY DEF NewStep, Comes, TablesInv, NumbersOK
<1>3. SectionOK' /\ \A p \in Obj : Got(p)' = Got(p)
  <2>1. \A p \in Obj : obj[p].own # 0 => obj'[p].own # 0
    BY <1>1, <1>2 DEF Arrives, SameObject
  <2> QED
    BY <1>1, <2>1, SendersKept DEF SendInv
<1>4. m_cs[o] = 0
  BY <1>2 DEF SendInv, SectionOK
<1>5. \A c \in Sock : BytesOnce(sock[c].out)'
  <2>1. ASSUME NEW c \in Sock PROVE BytesOnce(sock[c].out)'
    <3>1. CASE sock'[c].out = sock[c].out
      BY <1>1, <3>1 DEF SendInv, BytesOnce
    <3>2. CASE sock'[c].out = <<>>
      BY <3>2 DEF BytesOnce, Once
    <3> QED
      BY <1>1, <3>1, <3>2 DEF Arrives
  <2> QED
    BY <2>1
<1>6. ASSUME NEW p \in Obj \ {o}, obj'[p].own # 0 PROVE StreamOK(p)'
  <2> DEFINE c == obj[p].own
  <2>1. /\ obj'[p].own = c /\ c # 0 /\ c \in 1..made /\ SameObject(obj'[p], obj[p])
        /\ obj'[p].phase = obj[p].phase
        /\ Kernel(p) = IF obj[p].cls = "UDT" THEN c ELSE desc[obj[p].m_socket]
        /\ obj[p].cls # "UDT" => obj[p].m_socket \in Fd
    BY <1>1, <1>6, KernelIs DEF Arrives, SameObject
  <2>2. /\ sock'[c].kind = sock[c].kind /\ sock'[c].mode = sock[c].mode
        /\ sock'[c].out = sock[c].out
    BY <1>1, <2>1 DEF Arrives
  <2>3. Kernel(p)' = c => Kernel(p) = c
    <3>1. Kernel(p)' = IF obj[p].cls = "UDT" THEN c ELSE desc'[obj[p].m_socket]
      BY <1>6, <2>1, Bounds DEF Kernel, SameObject, TablesInv, NumbersOK, INVALID_SOCKET
    <3>2. c # made + 1
      BY <2>1, <1>1 DEF Arrives
    <3> QED
      BY <1>1, <2>1, <3>1, <3>2 DEF Arrives
  <2>4. StreamOK(p)
    BY <2>1 DEF SendInv
  <2>5. Writable(c)' => Writable(c)
    BY <2>1, <2>2 DEF Writable, Mode
  <2>6. EndsRight(sock[c].out, p) => EndsRight(sock[c].out, p)'
    <3>1. Got(p)' = Got(p) /\ UNCHANGED <<m_cs, snd>> /\ sock'[c].out = sock[c].out
          /\ obj'[p].own = c
      BY <1>1, <1>3, <2>1, <2>2
    <3> QED
      BY <3>1 DEF EndsRight
  <2> QED
    BY <1>1, <2>1, <2>2, <2>3, <2>4, <2>5, <2>6 DEF StreamOK, SameObject
<1>7. ASSUME r.own # 0 PROVE StreamOK(o)'
  <2>1. /\ obj'[o] = r /\ sock'[r.own].out = <<>> /\ sock'[r.own].mode = mode
    BY <1>1, <1>7 DEF Arrives, Fresh
  <2>2. Whole(<<>>, o) /\ EndsRight(<<>>, o)'
    BY <1>1, <1>4 DEF Whole, EndsRight, EndsAt, Got
  <2> QED
    BY <1>1, <1>2, <1>4, <2>1, <2>2 DEF StreamOK
<1>8. obj'[o] = r
  BY <1>1 DEF Arrives
<1> QED
  BY <1>3, <1>5, <1>6, <1>7, <1>8 DEF SendInv

(* A thread enters the critical section *)
LEMMA StreamsStart ==
  ASSUME TablesInv, SendInv, NEW s \in Sender, NEW o \in Obj, SendStart(s, o)
  PROVE  SendInv'
<1>1. /\ snd[s].pc = "idle" /\ CanSend(o) /\ m_cs[o] = 0 /\ obj[o].m_socket # INVALID_SOCKET
      /\ UNCHANGED <<desc, sock, made, obj, rcv, shared>>
      /\ m_cs' = [m_cs EXCEPT ![o] = s]
      /\ snd' = [snd EXCEPT ![s] = [pc |-> "send", obj |-> o, left |-> MsgLen]]
  BY DEF SendStart, MayEnter
<1>2. /\ m_cs'[o] = s /\ \A p \in Obj \ {o} : m_cs'[p] = m_cs[p]
      /\ snd'[s].pc = "send" /\ snd'[s].obj = o /\ snd'[s].left = MsgLen
      /\ \A t \in Sender \ {s} : snd'[t] = snd[t]
  BY <1>1 DEF TablesInv, TypeInv
<1>3. /\ \A p \in Obj : m_cs[p] \in Sender \cup {0} /\ m_cs[p] # s
      /\ s # 0 /\ \A t \in Sender : t # 0
  BY <1>1, Bounds DEF SendInv, SectionOK, TablesInv, TypeInv
<1>4. obj[o].own # 0
  BY <1>1 DEF TablesInv, NumbersOK
<1>5. SectionOK'
  <2>1. ASSUME NEW t \in Sender, snd'[t].pc = "send" PROVE m_cs'[snd'[t].obj] = t
    <3>1. CASE t = s
      BY <1>2, <3>1
    <3>2. CASE t # s
      <4>1. snd'[t] = snd[t] /\ m_cs[snd[t].obj] = t /\ snd[t].obj \in Obj
        BY <1>2, <2>1, <3>2 DEF SendInv, SectionOK, TablesInv, TypeInv
      <4> QED
        BY <1>1, <1>2, <1>3, <4>1
    <3> QED
      BY <3>1, <3>2
  <2>2. ASSUME NEW p \in Obj, m_cs'[p] # 0
        PROVE  snd'[m_cs'[p]].pc = "send" /\ snd'[m_cs'[p]].obj = p /\ obj'[p].own # 0
    BY <1>1, <1>2, <1>3, <1>4, <2>2 DEF SendInv, SectionOK
  <2> QED
    BY <2>1, <2>2 DEF SectionOK
<1>6. ASSUME NEW c \in Sock PROVE BytesOnce(sock[c].out)'
  <2>1. BytesOnce(sock[c].out) /\ \A i \in 1..Len(sock[c].out) : sock[c].out[i].by \in Sender
    BY StreamType DEF SendInv
  <2>2. \A i \in 1..Len(sock[c].out) : sock[c].out[i].by # s
    BY <1>1, <2>1 DEF BytesOnce
  <2> QED
    BY <1>1, <1>2, <2>1, <2>2 DEF BytesOnce
<1>7. Got(o) = 0 /\ Got(o)' = 0
  BY <1>1, <1>2, <1>3, Bounds DEF Got
<1>8. ASSUME NEW p \in Obj \ {o}
      PROVE  Got(p)' = Got(p) /\ (m_cs[p] # 0 => snd'[m_cs[p]] = snd[m_cs[p]])
  BY <1>2, <1>3 DEF Got
<1>9. ASSUME NEW p \in Obj, obj'[p].own # 0 PROVE StreamOK(p)'
  <2>1. StreamOK(p) /\ obj'[p] = obj[p] /\ Kernel(p)' = Kernel(p) /\ obj[p].own # 0
    BY <1>1, <1>9 DEF SendInv, Kernel
  <2>2. \A out : EndsRight(out, p) => EndsRight(out, p)'
    <3>1. CASE p = o
      BY <1>7, <3>1 DEF EndsRight, EndsAt
    <3>2. CASE p # o
      BY <1>2, <1>8, <3>2 DEF EndsRight
    <3> QED
      BY <3>1, <3>2
  <2>3. /\ Whole(sock[obj[p].own].out, p)
        /\ Kernel(p) = obj[p].own /\ Writable(obj[p].own) => EndsRight(sock[obj[p].own].out, p)
        /\ obj[p].cls # "UDP" /\ sock[obj[p].own].mode \in {"new", "listen"} =>
             /\ \A i \in 1..Len(sock[obj[p].own].out) : sock[obj[p].own].out[i].obj # p
             /\ Kernel(p) = obj[p].own => obj[p].phase # "up" /\ m_cs[p] = 0
    BY <2>1 DEF StreamOK
  <2>4. obj[p].phase # "up" /\ obj[p].cls # "UDP" => m_cs'[p] = m_cs[p]
    BY <1>1, <1>2 DEF CanSend
  <2>5. Writable(obj[p].own)' <=> Writable(obj[p].own)
    BY <1>1 DEF Writable, Mode
  <2> QED
    BY <1>1, <2>1, <2>2, <2>3, <2>4, <2>5 DEF StreamOK
<1> QED
  BY <1>5, <1>6, <1>9 DEF SendInv

(* The thread in the critical section sends some bytes: thread s, through o, whose message
   has come as far as done *)
Sent(b, s, o, done) ==
  /\ b \in Seq(ByteType)
  /\ \A i \in 1..Len(b) : b[i].by = s /\ b[i].obj = o /\ b[i].n = done + i

(* The bytes of one object leave the messages of another as they are *)
LEMMA MoreBytes ==
  ASSUME NEW out \in Seq(ByteType), NEW b, NEW s, NEW o \in Obj, NEW p \in Obj \ {o}, NEW done,
         Sent(b, s, o, done)
  PROVE  /\ Whole(out, p) => Whole(out \o b, p)
         /\ \A t, d : EndsAt(out, t, p, d) => EndsAt(out \o b, t, p, d)
<1> DEFINE new == out \o b
<1>1. /\ Len(new) = Len(out) + Len(b) /\ Len(out) \in Nat /\ Len(b) \in Nat
      /\ \A i \in 1..Len(out) : new[i] = out[i]
      /\ \A i \in (Len(out) + 1)..(Len(out) + Len(b)) : new[i] = b[i - Len(out)]
  BY Appended DEF Sent
<1>0. \A i \in 1..Len(b) : b[i].obj = o
  BY DEF Sent
<1> HIDE DEF new
<1>2. \A i \in 1..Len(new) : i \notin 1..Len(out) => new[i].obj = o
  BY <1>0, <1>1
<1>3. \A i \in 1..Len(out) : i \in 1..Len(new)
  BY <1>1
<1>4. \A i \in 1..Len(out) : Latest(new, p, i) <=> Latest(out, p, i)
  BY <1>1, <1>2, <1>3 DEF Latest
<1>5. \A i \in 1..Len(new) : Latest(new, p, i) => i \in 1..Len(out)
  BY <1>2 DEF Latest
<1>6. ASSUME Whole(out, p) PROVE Whole(new, p)
  <2>1. ASSUME NEW j \in 1..Len(new), new[j].obj = p
        PROVE  IF new[j].n = 1
               THEN \A i \in 1..(j - 1) : LastBefore(new, p, i, j) => new[i].n = MsgLen
               ELSE \E i \in 1..(j - 1) : /\ LastBefore(new, p, i, j)
                                          /\ new[i].n = new[j].n - 1
                                          /\ new[i].by = new[j].by
    <3>1. j \in 1..Len(out) /\ new[j] = out[j] /\ out[j].obj = p
      BY <1>1, <1>2, <2>1
    <3>2. \A i \in 1..(j - 1) : i \in 1..Len(out) /\ new[i] = out[i]
      BY <1>1, <3>1
    <3>3. \A i \in 1..(j - 1) : LastBefore(new, p, i, j) <=> LastBefore(out, p, i, j)
      BY <3>2 DEF LastBefore
    <3>4. IF out[j].n = 1
          THEN \A i \in 1..(j - 1) : LastBefore(out, p, i, j) => out[i].n = MsgLen
          ELSE \E i \in 1..(j - 1) : /\ LastBefore(out, p, i, j)
                                     /\ out[i].n = out[j].n - 1
                                     /\ out[i].by = out[j].by
      BY <1>6, <3>1 DEF Whole
    <3> QED
      BY <3>1, <3>2, <3>3, <3>4
  <2> QED
    BY <2>1 DEF Whole
<1>7. \A t, d : EndsAt(out, t, p, d) => EndsAt(new, t, p, d)
  BY <1>1, <1>3, <1>4, <1>5 DEF EndsAt
<1> QED
  BY <1>6, <1>7 DEF new

(* The bytes go on where the thread, or the message before its own, has got to *)
LEMMA MoreOfMessage ==
  ASSUME NEW out \in Seq(ByteType), NEW b, NEW s, NEW o \in Obj, NEW done \in 0..(MsgLen - 1),
         Sent(b, s, o, done), Len(b) > 0, Whole(out, o), EndsAt(out, s, o, done)
  PROVE  /\ Whole(out \o b, o)
         /\ EndsAt(out \o b, s, o, done + Len(b))
<1> DEFINE new == out \o b
           l == Len(out)
           m == Len(b)
<1>1. /\ Len(new) = l + m /\ l \in Nat /\ m \in Nat /\ done \in Nat
      /\ \A i \in 1..l : new[i] = out[i]
      /\ \A i \in (l + 1)..(l + m) : new[i] = b[i - l]
  BY Appended, Bounds DEF Sent
<1> HIDE DEF new, l, m
<1>2. \A i \in (l + 1)..(l + m) : new[i].obj = o /\ new[i].by = s /\ new[i].n = done + (i - l)
  <2>1. \A i \in (l + 1)..(l + m) : i - l \in 1..m
    BY <1>1
  <2> QED
    BY <1>1, <2>1 DEF m, Sent
<1>3. /\ l + m \in 1..Len(new) /\ Latest(new, o, l + m) /\ new[l + m].by = s
      /\ new[l + m].n = done + m
  <2>1. m > 0 /\ l + m \in (l + 1)..(l + m) /\ (l + m) - l = m
    BY <1>1 DEF m
  <2>2. new[l + m].obj = o /\ new[l + m].by = s /\ new[l + m].n = done + m
    BY <1>2, <2>1
  <2>3. ((l + m) + 1)..Len(new) = {} /\ l + m \in 1..Len(new)
    BY <1>1, <2>1
  <2> QED
    BY <2>2, <2>3 DEF Latest
<1>4. ASSUME NEW j \in 1..Len(new), new[j].obj = o
      PROVE  IF new[j].n = 1
             THEN \A i \in 1..(j - 1) : LastBefore(new, o, i, j) => new[i].n = MsgLen
             ELSE \E i \in 1..(j - 1) : /\ LastBefore(new, o, i, j)
                                        /\ new[i].n = new[j].n - 1
                                        /\ new[i].by = new[j].by
  <2>1. CASE j \in 1..l
    <3>1. new[j] = out[j] /\ j \in 1..Len(out)
      BY <1>1, <2>1 DEF l
    <3>2. \A i \in 1..(j - 1) : new[i] = out[i]
      BY <1>1, <2>1
    <3>3. \A i \in 1..(j - 1) : LastBefore(new, o, i, j) <=> LastBefore(out, o, i, j)
      BY <3>2 DEF LastBefore
    <3>4. IF out[j].n = 1
          THEN \A i \in 1..(j - 1) : LastBefore(out, o, i, j) => out[i].n = MsgLen
          ELSE \E i \in 1..(j - 1) : /\ LastBefore(out, o, i, j)
                                     /\ out[i].n = out[j].n - 1
                                     /\ out[i].by = out[j].by
      BY <1>4, <3>1 DEF Whole
    <3> QED
      BY <3>1, <3>2, <3>3, <3>4
  <2>2. CASE j = l + 1
    <3>1. new[j].n = done + 1 /\ new[j].by = s
      BY <1>1, <1>2, <1>4, <2>2
    <3>2. ASSUME NEW i \in 1..l PROVE LastBefore(new, o, i, j) <=> Latest(out, o, i)
      <4>1. i < j /\ j - 1 = l /\ new[i] = out[i] /\ l = Len(out)
        BY <1>1, <2>2 DEF l
      <4>2. \A h \in (i + 1)..l : new[h] = out[h]
        BY <1>1
      <4> QED
        BY <4>1, <4>2 DEF LastBefore, Latest
    <3>3. CASE done = 0
      BY <1>1, <2>2, <3>1, <3>2, <3>3 DEF l, EndsAt
    <3>4. CASE done # 0
      <4>1. PICK i \in 1..Len(out) : Latest(out, o, i) /\ out[i].by = s /\ out[i].n = done
        BY <3>4 DEF EndsAt
      <4>2. i \in 1..(j - 1) /\ LastBefore(new, o, i, j) /\ new[i].n = done /\ new[i].by = s
        BY <1>1, <2>2, <3>2, <4>1 DEF l
      <4> QED
        BY <1>1, <3>1, <3>4, <4>2
    <3> QED
      BY <3>3, <3>4
  <2>3. CASE j \in (l + 2)..(l + m)
    <3>1. j - 1 \in (l + 1)..(l + m) /\ j \in (l + 1)..(l + m) /\ j - 1 \in 1..(j - 1)
      BY <1>1, <2>3
    <3>2. /\ new[j].n = done + (j - l) /\ new[j].by = s /\ new[j - 1].n = done + (j - 1 - l)
          /\ new[j - 1].by = s /\ new[j - 1].obj = o
      BY <1>2, <3>1
    <3>3. LastBefore(new, o, j - 1, j) /\ new[j].n # 1 /\ new[j - 1].n = new[j].n - 1
      BY <1>1, <2>3, <3>2 DEF LastBefore
    <3> QED
      BY <3>1, <3>2, <3>3
  <2> QED
    BY <1>1, <2>1, <2>2, <2>3
<1>5. EndsAt(new, s, o, done + m)
  BY <1>1, <1>3 DEF EndsAt, m
<1> QED
  BY <1>4, <1>5 DEF Whole, new, m

(* The bytes that go on where the thread has got to are new ones *)
LEMMA OnceMore ==
  ASSUME NEW out \in Seq(ByteType), NEW b, NEW s, NEW o, NEW done \in Nat,
         Sent(b, s, o, done), Once(out),
         \A i \in 1..Len(out) : out[i].by = s => out[i].n <= done
  PROVE  /\ Once(out \o b)
         /\ \A i \in 1..Len(out \o b) :
              \/ i \in 1..Len(out) /\ (out \o b)[i] = out[i]
              \/ (out \o b)[i].by = s /\ (out \o b)[i].n <= done + Len(b)
<1> DEFINE new == out \o b
           l == Len(out)
           k == Len(b)
<1>1. /\ Len(new) = l + k /\ l \in Nat /\ k \in Nat
      /\ \A i \in 1..l : new[i] = out[i] /\ out[i].n \in Nat
      /\ \A i \in (l + 1)..(l + k) : new[i] = b[i - l]
  <2>1. \A i \in 1..l : out[i] \in ByteType
    OBVIOUS
  <2>2. \A i \in 1..l : out[i].n \in 1..MsgLen
    BY <2>1 DEF ByteType
  <2> QED
    BY <2>2, Appended, Bounds DEF Sent
<1>2. \A i \in 1..l : out[i].by = s => out[i].n <= done
  OBVIOUS
<1>3. \A i \in 1..k : b[i].by = s /\ b[i].n = done + i
  BY DEF Sent
<1>4. \A i, j \in 1..l : out[i].by = out[j].by /\ out[i].n = out[j].n => i = j
  BY DEF Once
<1> HIDE DEF new, l, k
<1>5. \A i \in (l + 1)..(l + k) : new[i].by = s /\ new[i].n = done + (i - l)
  <2>1. \A i \in (l + 1)..(l + k) : i - l \in 1..k
    BY <1>1
  <2> QED
    BY <1>1, <1>3, <2>1
<1>6. ASSUME NEW x \in 1..l, NEW y \in (l + 1)..(l + k), new[x].by = new[y].by
      PROVE  new[x].n # new[y].n
  <2>1. out[x].by = s /\ new[x] = out[x] /\ new[y].n = done + (y - l)
    BY <1>1, <1>5, <1>6
  <2>2. out[x].n <= done /\ out[x].n \in Nat /\ y \in Nat /\ y > l
    BY <1>1, <1>2, <2>1
  <2> QED
    BY <1>1, <2>1, <2>2
<1>7. ASSUME NEW i \in 1..(l + k), NEW j \in 1..(l + k), new[i].by = new[j].by,
             new[i].n = new[j].n
      PROVE  i = j
  <2>0. \A x \in 1..(l + k) : x \in 1..l \/ x \in (l + 1)..(l + k)
    BY <1>1
  <2>1. CASE i \in 1..l /\ j \in 1..l
    BY <1>1, <1>4, <1>7, <2>1
  <2>2. CASE i \in (l + 1)..(l + k) /\ j \in (l + 1)..(l + k)
    <3>1. done + (i - l) = done + (j - l)
      BY <1>5, <1>7, <2>2
    <3> QED
      BY <1>1, <2>2, <3>1
  <2> QED
    BY <1>6, <1>7, <2>0, <2>1, <2>2
<1>8. ASSUME NEW i \in 1..(l + k)
      PROVE  \/ i \in 1..l /\ new[i] = out[i]
             \/ new[i].by = s /\ new[i].n <= done + k
  <2>1. CASE i \in 1..l
    BY <1>1, <2>1
  <2>2. CASE i \in (l + 1)..(l + k)
    <3>1. new[i].by = s /\ new[i].n = done + (i - l)
      BY <1>5, <2>2
    <3> QED
      BY <1>1, <2>2, <3>1
  <2> QED
    BY <1>1, <2>1, <2>2
<1>9. Once(new)
  BY <1>1, <1>7 DEF Once
<1> QED
  BY <1>1, <1>8, <1>9 DEF new, l, k

(* They hold when a thread sends some bytes *)
LEMMA StreamsSome ==
  ASSUME TablesInv, SendInv, NEW s \in Sender, NEW k \in 1..MsgLen, SendSome(s, k)
  PROVE  SendInv'
<1> DEFINE o == snd[s].obj
           c == Kernel(o)
           done == MsgLen - snd[s].left
           b == Bytes(s, k)
<1>1. /\ snd[s].pc = "send" /\ k \in 1..snd[s].left /\ Writable(c) /\ c \in Sock
      /\ \A d \in Sock :
           /\ sock'[d].kind = sock[d].kind /\ sock'[d].mode = sock[d].mode
           /\ sock'[d].out = IF d = c THEN sock[c].out \o b ELSE sock[d].out
  BY SendSomeSock
<1>2. Sent(b, s, o, done) /\ Len(b) = k /\ snd[s].left \in 1..MsgLen
  BY <1>1, BytesType DEF Sent
<1>3. UNCHANGED <<desc, made, obj, m_cs, rcv, shared>> /\ o \in Obj /\ m_cs[o] = s
  BY <1>1 DEF SendSome, SendInv, SectionOK, TablesInv, TypeInv
<1>4. /\ done \in 0..(MsgLen - 1) /\ snd[s].left - k \in 0..(MsgLen - 1)
      /\ MsgLen - (snd[s].left - k) = done + k /\ k \in Nat /\ k > 0
  BY <1>1, <1>2, Bounds
<1>5. /\ snd'[s].pc = "send" /\ snd'[s].obj = o /\ snd'[s].left = snd[s].left - k
      /\ \A t \in Sender \ {s} : snd'[t] = snd[t]
  <2>1. snd' = [snd EXCEPT ![s].left = snd[s].left - k] /\ snd[s] \in SndType
    BY DEF SendSome, Sendlen, TablesInv, TypeInv
  <2> QED
    BY <1>1, <2>1 DEF SndType, TablesInv, TypeInv
<1> HIDE DEF c, done, b
<1>6. ASSUME NEW p \in Obj \ {o}
      PROVE  m_cs[p] # s /\ Got(p)' = Got(p)
             /\ (m_cs[p] # 0 => snd'[m_cs[p]] = snd[m_cs[p]])
  <2>1. m_cs[p] # s /\ m_cs[p] \in Sender \cup {0} /\ s # 0
    BY <1>3, Bounds DEF SendInv, SectionOK, TablesInv, TypeInv
  <2> QED
    BY <1>3, <1>5, <2>1 DEF Got
<1>7. SectionOK'
  <2>1. ASSUME NEW t \in Sender, snd'[t].pc = "send" PROVE m_cs'[snd'[t].obj] = t
    BY <1>1, <1>3, <1>5, <2>1 DEF SendInv, SectionOK
  <2>2. ASSUME NEW p \in Obj, m_cs'[p] # 0
        PROVE  snd'[m_cs'[p]].pc = "send" /\ snd'[m_cs'[p]].obj = p /\ obj'[p].own # 0
    <3>1. m_cs'[p] \in Sender /\ m_cs'[p] = m_cs[p]
      BY <1>3, <2>2 DEF TablesInv, TypeInv
    <3> QED
      BY <1>3, <1>5, <2>2, <3>1 DEF SendInv, SectionOK
  <2> QED
    BY <2>1, <2>2 DEF SectionOK
<1>8. ASSUME NEW d \in Sock PROVE BytesOnce(sock[d].out)'
  <2> DEFINE out == sock[d].out
  <2>1. /\ BytesOnce(out) /\ out \in Seq(ByteType) /\ Len(out) \in Nat
        /\ \A i \in 1..Len(out) : out[i].by \in Sender /\ out[i].n \in 1..MsgLen
    BY StreamType DEF SendInv
  <2>2. /\ Once(out)
        /\ \A i \in 1..Len(out) : /\ snd[out[i].by].pc # "idle"
                                  /\ snd[out[i].by].pc = "send" =>
                                       out[i].n <= MsgLen - snd[out[i].by].left
                                  /\ out[i].by = s => out[i].n <= done
    BY <1>1, <2>1 DEF BytesOnce, done
  <2>3. \A i \in 1..Len(out) :
          /\ snd'[out[i].by].pc # "idle"
          /\ snd'[out[i].by].pc = "send" => out[i].n <= MsgLen - snd'[out[i].by].left
    <3>1. ASSUME NEW i \in 1..Len(out)
          PROVE  /\ snd'[out[i].by].pc # "idle"
                 /\ snd'[out[i].by].pc = "send" => out[i].n <= MsgLen - snd'[out[i].by].left
      <4>1. CASE out[i].by = s
        <5>1. out[i].n <= done + k /\ MsgLen - snd'[s].left = done + k
          BY <1>4, <1>5, <2>1, <2>2, <4>1
        <5> QED
          BY <1>5, <4>1, <5>1
      <4>2. CASE out[i].by # s
        BY <1>5, <2>1, <2>2, <4>2
      <4> QED
        BY <4>1, <4>2
    <3> QED
      BY <3>1
  <2>4. CASE d # c
    <3>1. sock'[d].out = out
      BY <1>1, <2>4
    <3> QED
      BY <2>2, <2>3, <3>1 DEF BytesOnce
  <2>5. CASE d = c
    <3>1. sock'[d].out = out \o b
      BY <1>1, <2>5
    <3> HIDE DEF out
    <3>2. /\ Once(out \o b)
          /\ \A i \in 1..Len(out \o b) :
               \/ i \in 1..Len(out) /\ (out \o b)[i] = out[i]
               \/ (out \o b)[i].by = s /\ (out \o b)[i].n <= done + k
      <4>1. done \in Nat /\ \A i \in 1..Len(out) : out[i].by = s => out[i].n <= done
        BY <1>4, <2>2
      <4> HIDE DEF o
      <4> QED
        <5>1. /\ Once(out \o b)
              /\ \A i \in 1..Len(out \o b) :
                   \/ i \in 1..Len(out) /\ (out \o b)[i] = out[i]
                   \/ (out \o b)[i].by = s /\ (out \o b)[i].n <= done + Len(b)
          BY <1>2, <2>1, <2>2, <4>1, OnceMore
        <5> QED
          BY <1>2, <5>1
    <3>3. MsgLen - snd'[s].left = done + k
      BY <1>4, <1>5
    <3>4. ASSUME NEW i \in 1..Len(out \o b)
          PROVE  /\ snd'[(out \o b)[i].by].pc # "idle"
                 /\ snd'[(out \o b)[i].by].pc = "send" =>
                      (out \o b)[i].n <= MsgLen - snd'[(out \o b)[i].by].left
      BY <1>5, <2>3, <3>2, <3>3
    <3> QED
      BY <3>1, <3>2, <3>4 DEF BytesOnce
  <2> QED
    BY <2>4, <2>5
<1>9. ASSUME NEW p \in Obj, obj'[p].own # 0 PROVE StreamOK(p)'
  <2> DEFINE e == obj[p].own
             out == sock[e].out
  <2>1. obj'[p] = obj[p] /\ Kernel(p)' = Kernel(p) /\ e # 0 /\ e \in Sock /\ m_cs' = m_cs
    BY <1>3, <1>9, KernelIs DEF Kernel
  <2>2. /\ Whole(out, p)
        /\ Kernel(p) = e /\ Writable(e) => EndsRight(out, p)
        /\ obj[p].cls # "UDP" /\ sock[e].mode \in {"new", "listen"} =>
             /\ \A i \in 1..Len(out) : out[i].obj # p
             /\ Kernel(p) = e => obj[p].phase # "up" /\ m_cs[p] = 0
    BY <2>1 DEF SendInv, StreamOK
  <2>3. sock'[e].mode = sock[e].mode /\ (Writable(e)' <=> Writable(e))
    BY <1>1, <1>3, <2>1 DEF Writable, Mode
  <2>4. e = c => ~(obj[p].cls # "UDP" /\ sock[e].mode \in {"new", "listen"})
    BY <1>1, <2>1 DEF Writable, Mode, TablesInv, NumbersOK
  <2> SUFFICES /\ Whole(sock'[e].out, p)
               /\ Kernel(p) = e /\ Writable(e) => EndsRight(sock[e].out, p)'
               /\ e # c => sock'[e].out = out
    BY <2>1, <2>2, <2>3, <2>4 DEF StreamOK
  <2>5. CASE e # c
    <3>1. sock'[e].out = out
      BY <1>1, <2>1, <2>5
    <3>2. CASE p = o
      BY <2>2, <2>5, <3>1, <3>2 DEF c
    <3>3. CASE p # o
      <4>1. Got(p)' = Got(p)
        BY <1>6, <3>3
      <4>2. sock'[obj'[p].own].out = out
        BY <2>1, <3>1
      <4> QED
        BY <2>1, <2>2, <3>1, <4>1, <4>2 DEF EndsRight
    <3> QED
      BY <3>2, <3>3
  <2>6. CASE e = c
    <3>1. /\ sock'[e].out = out \o b /\ out \in Seq(ByteType) /\ Len(out) \in Nat
          /\ sock'[c].out = out \o b /\ obj'[p].own = e
      BY <1>1, <2>1, <2>6, StreamType
    <3>2. CASE p # o
      <4>1. /\ Whole(out \o b, p)
            /\ \A t, d : EndsAt(out, t, p, d) => EndsAt(out \o b, t, p, d)
        <5> HIDE DEF o, out
        <5>1. p \in Obj \ {o} /\ o \in Obj
          BY <1>3, <3>2
        <5> QED
          BY <1>2, <2>2, <3>1, <5>1, MoreBytes
      <4>2. Got(p)' = Got(p)
        BY <1>6, <3>2
      <4> QED
        BY <2>1, <2>2, <2>6, <3>1, <4>1, <4>2 DEF EndsRight
    <3>3. CASE p = o
      <4>1. Got(p) = done /\ Got(p)' = done + k /\ Kernel(p) = e /\ m_cs[p] = s
        BY <1>3, <1>4, <1>5, <2>6, <3>3, Bounds DEF Got, done, c
      <4>2. Whole(out \o b, p) /\ EndsAt(out \o b, s, p, done + Len(b))
        <5>1. EndsAt(out, s, p, done)
          BY <1>1, <1>3, <2>2, <2>6, <3>3, <4>1 DEF EndsRight
        <5> HIDE DEF o, out
        <5> QED
          BY <1>2, <1>3, <1>4, <2>2, <3>1, <3>3, <5>1, MoreOfMessage
      <4> QED
        <5>1. EndsRight(sock[e].out, p)'
          BY <1>2, <2>1, <3>1, <4>1, <4>2 DEF EndsRight
        <5> QED
          BY <2>6, <3>1, <4>2, <5>1
    <3> QED
      BY <3>2, <3>3
  <2> QED
    BY <2>5, <2>6
<1> QED
  BY <1>3, <1>7, <1>8, <1>9 DEF SendInv

(* The thread leaves it *)
LEMMA StreamsEnd ==
  ASSUME TablesInv, SendInv, NEW s \in Sender, SendEnd(s)
  PROVE  SendInv'
<1> DEFINE o == snd[s].obj
<1>1. /\ snd[s].pc = "send" /\ (snd[s].left = 0 \/ ~Writable(Kernel(o)))
      /\ UNCHANGED <<desc, sock, made, obj, rcv, shared>> /\ o \in Obj /\ m_cs[o] = s
      /\ m_cs' = [m_cs EXCEPT ![o] = 0]
      /\ snd' = [snd EXCEPT ![s] = [pc |-> "sent", obj |-> Min(Obj), left |-> 0]]
  BY DEF SendEnd, SendInv, SectionOK, TablesInv, TypeInv
<1>2. /\ m_cs'[o] = 0 /\ \A p \in Obj \ {o} : m_cs'[p] = m_cs[p]
      /\ snd'[s].pc = "sent" /\ \A t \in Sender \ {s} : snd'[t] = snd[t]
  BY <1>1 DEF TablesInv, TypeInv
<1> HIDE DEF o
<1>3. ASSUME NEW p \in Obj \ {o}
      PROVE  m_cs[p] # s /\ m_cs'[p] = m_cs[p] /\ Got(p)' = Got(p) /\ m_cs[p] \in Sender \cup {0}
             /\ (m_cs[p] # 0 => snd'[m_cs[p]] = snd[m_cs[p]])
  <2>1. m_cs[p] # s /\ m_cs[p] \in Sender \cup {0} /\ s # 0
    BY <1>1, Bounds DEF SendInv, SectionOK, TablesInv, TypeInv, o
  <2> QED
    BY <1>2, <2>1 DEF Got
<1>4. SectionOK'
  <2>1. ASSUME NEW t \in Sender, snd'[t].pc = "send" PROVE m_cs'[snd'[t].obj] = t
    <3>1. t # s /\ snd'[t] = snd[t] /\ m_cs[snd[t].obj] = t /\ snd[t].obj \in Obj
      BY <1>2, <2>1 DEF SendInv, SectionOK, TablesInv, TypeInv
    <3>2. snd[t].obj # o
      BY <1>1, <3>1
    <3> QED
      BY <1>2, <3>1, <3>2
  <2>2. ASSUME NEW p \in Obj, m_cs'[p] # 0
        PROVE  snd'[m_cs'[p]].pc = "send" /\ snd'[m_cs'[p]].obj = p /\ obj'[p].own # 0
    BY <1>1, <1>2, <1>3, <2>2 DEF SendInv, SectionOK
  <2> QED
    BY <2>1, <2>2 DEF SectionOK
<1>5. ASSUME NEW c \in Sock PROVE BytesOnce(sock[c].out)'
  <2>1. BytesOnce(sock[c].out) /\ \A i \in 1..Len(sock[c].out) : sock[c].out[i].by \in Sender
    BY StreamType DEF SendInv
  <2> QED
    BY <1>1, <1>2, <2>1 DEF BytesOnce
<1>6. ASSUME NEW p \in Obj, obj'[p].own # 0 PROVE StreamOK(p)'
  <2> DEFINE e == obj[p].own
             out == sock[e].out
  <2>1. /\ StreamOK(p) /\ obj' = obj /\ sock' = sock /\ Kernel(p)' = Kernel(p)
        /\ (Writable(e)' <=> Writable(e)) /\ m_cs'[p] \in {m_cs[p], 0}
    BY <1>1, <1>2, <1>6 DEF SendInv, Kernel, Writable, Mode
  <2>2. ASSUME Kernel(p) = e, Writable(e) PROVE EndsRight(out, p)'
    <3>1. EndsRight(out, p)
      BY <2>1, <2>2 DEF StreamOK
    <3>2. CASE p = o
      <4>1. Got(p) = MsgLen /\ Got(p)' = 0 /\ m_cs[p] = s
        BY <1>1, <1>2, <2>2, <3>2, Bounds DEF Got
      <4>2. PICK i \in 1..Len(out) : Latest(out, p, i) /\ out[i].n = MsgLen
        BY <3>1, <4>1, Bounds DEF EndsRight, EndsAt
      <4>3. \A j \in 1..Len(out) : Latest(out, p, j) => j = i
        BY <4>2 DEF Latest
      <4>4. EndsAt(out, m_cs'[p], p, 0)
        BY <4>2, <4>3 DEF EndsAt
      <4> QED
        BY <2>1, <4>1, <4>4 DEF EndsRight
    <3>3. CASE p # o
      BY <1>3, <2>1, <3>1, <3>3 DEF EndsRight
    <3> QED
      BY <3>2, <3>3
  <2> QED
    BY <2>1, <2>2 DEF StreamOK
<1> QED
  BY <1>4, <1>5, <1>6 DEF SendInv

LEMMA SendStep == TablesInv /\ TablesInv' /\ SendInv /\ [Next]_vars => SendInv'
<1> SUFFICES ASSUME TablesInv, TablesInv', SendInv, [Next]_vars PROVE SendInv'
  OBVIOUS
<1>1. ASSUME NEW o \in Obj, Creates(o) PROVE SendInv'
  BY <1>1, CreateStep, StreamsNew
<1>2. ASSUME NEW o \in Obj,
             \/ Listen(o) \/ Connect(o) \/ Receives(o) \/ Closes(o)
             \/ \E host \in {"", "name", "unknown"} : Bind(o, host, Min(Port))
      PROVE  SendInv'
  <2>1. Quiet
    BY <1>2, ListenSteady, ConnectPlain, ReceivesPlain, ClosesSteady, BindSteady
  <2> QED
    BY <2>1, StreamsQuiet
<1>3. ASSUME NEW s \in Sender, Sends(s) PROVE SendInv'
  BY <1>3, StreamsStart, StreamsSome, StreamsEnd DEF Sends
<1>4. ASSUME NEW c \in Sock, Peers(c) PROVE SendInv'
  BY <1>4, PeersPlain, StreamsQuiet
<1>5. CASE UNCHANGED vars
  <2>1. Quiet
    BY <1>5, ObjsKept, SocksKept DEF Quiet, Steady, Live, vars, threads
  <2> QED
    BY <2>1, StreamsQuiet
<1> QED
  BY <1>1, <1>2, <1>3, <1>4, <1>5, NextCases

LEMMA SendInit == Init => SendInv
<1> SUFFICES ASSUME Init PROVE SendInv
  OBVIOUS
<1>1. SectionOK
  BY DEF Init, SectionOK
<1>2. \A c \in Sock : BytesOnce(sock[c].out)
  BY DEF Init, BytesOnce, Once, Fresh
<1>3. \A o \in Obj : obj[o].own = 0
  BY DEF Init
<1> QED
  BY <1>1, <1>2, <1>3 DEF SendInv

LEMMA SendAlways == Spec => [](TablesInv /\ SendInv)
<1>1. TablesInv /\ SendInv /\ [Next]_vars => (TablesInv /\ SendInv)'
  BY TablesStep, SendStep
<1> QED
  BY <1>1, TablesInit, SendInit, PTL DEF Spec

(* What an object writes on its own socket is whole messages, one after the other,
   whichever threads call Send of it: m_cs is held for the loop of a message, which
   goes on where it has got to, and a socket that has changed hands is not written
   for the object again *)
THEOREM SendsWholeMessages == Spec => []SendsWhole
<1>1. TablesInv /\ SendInv => SendsWhole
  <2> SUFFICES ASSUME TablesInv, SendInv, NEW o \in Obj, obj[o].own # 0
               PROVE  LET out == sock[obj[o].own].out
                      IN \A j \in DOMAIN out : out[j].obj = o =>
                           IF out[j].n = 1
                           THEN \A i \in 1..(j - 1) : LastBefore(out, o, i, j) => out[i].n = MsgLen
                           ELSE \E i \in 1..(j - 1) : /\ LastBefore(out, o, i, j)
                                                      /\ out[i].n = out[j].n - 1
                                                      /\ out[i].by = out[j].by
    BY DEF SendsWhole
  <2>1. Whole(sock[obj[o].own].out, o) /\ obj[o].own \in Sock
    BY KernelIs DEF SendInv, StreamOK
  <2>2. DOMAIN sock[obj[o].own].out = 1..Len(sock[obj[o].own].out)
    BY <2>1, StreamType
  <2> QED
    BY <2>1, <2>2 DEF Whole
<1> QED
  BY <1>1, SendAlways, PTL

-----------------------------------------------------------------------------
(* The bytes of a stream are distinct ones of the messages *)
LEMMA StreamBound ==
  ASSUME NEW out \in Seq(ByteType), Once(out)
  PROVE  Len(out) <= MsgLen * Cardinality(Sender)
<1> DEFINE S == 1..Len(out)
           T == Sender \X (1..MsgLen)
           f == [i \in S |-> <<out[i].by, out[i].n>>]
<1>1. /\ Len(out) \in Nat /\ \A i \in S : out[i].by \in Sender /\ out[i].n \in 1..MsgLen
  <2>1. Len(out) \in Nat /\ \A i \in S : out[i] \in ByteType
    OBVIOUS
  <2> QED
    BY <2>1 DEF ByteType
<1>2. IsFiniteSet(S) /\ Cardinality(S) = Len(out)
  <2> DEFINE l == Len(out)
  <2>1. 1 \in Int /\ l \in Int /\ l \in Nat
    BY <1>1
  <2> HIDE DEF l
  <2>2. IsFiniteSet(1..l) /\ Cardinality(1..l) = IF 1 > l THEN 0 ELSE l - 1 + 1
    BY <2>1, FS_Interval
  <2>3. Cardinality(1..l) = l
    BY <2>1, <2>2
  <2> QED
    BY <2>2, <2>3 DEF l
<1>3. IsFiniteSet(1..MsgLen) /\ Cardinality(1..MsgLen) = MsgLen
  BY Bounds, FS_Interval
<1>4. /\ IsFiniteSet(T) /\ Cardinality(T) = Cardinality(Sender) * MsgLen
      /\ Cardinality(Sender) \in Nat
  BY <1>3, Bounds, FS_Product, FS_CardinalityType
<1>5. f \in [S -> T]
  BY <1>1
<1>6. \A x, y \in S : f[x] = f[y] => x = y
  BY DEF Once
<1> HIDE DEF S, T, f
<1>7. ~(Cardinality(T) < Cardinality(S))
  BY <1>2, <1>4, <1>5, <1>6, FS_PigeonHole
<1>8. Cardinality(Sender) * MsgLen = MsgLen * Cardinality(Sender)
      /\ Cardinality(Sender) * MsgLen \in Nat
  BY <1>4, Bounds
<1> QED
  BY <1>1, <1>2, <1>4, <1>7, <1>8

(* An object that is open reaches its own socket, which is not shut, although the numbers
   that Close leaves in it are given again to others: unless another object will
   close its descriptor as well.  And the state is well typed. *)
THEOREM OwnSocketReached == Spec => []OwnSocket
<1>1. TablesInv /\ SendInv => TypeOK
  <2> SUFFICES ASSUME TablesInv, SendInv PROVE TypeOK
    OBVIOUS
  <2>1. ASSUME NEW c \in Sock
        PROVE  /\ sock[c].mode \in {"none", "new", "listen", "conn", "eof", "shut"}
               /\ sock[c].port \in Port \cup {0}
               /\ sock[c].in \in 0..MaxIn
               /\ Len(sock[c].out) =< MsgLen * Cardinality(Sender)
    <3>1. sock[c] \in SockType
      BY DEF TablesInv, TypeInv
    <3>2. sock[c].out \in Seq(ByteType) /\ Once(sock[c].out)
      BY StreamType DEF SendInv, BytesOnce
    <3> QED
      BY <3>1, <3>2, StreamBound DEF SockType
  <2>2. ASSUME NEW o \in Obj
        PROVE  /\ obj[o].st \in {"none", "open", "closed", "left", "deleted"}
               /\ obj[o].phase \in {"none", "made", "bound", "unbound", "listen", "up", "failed"}
               /\ obj[o].m_udpSocket \in Fd \cup {INVALID_SOCKET}
               /\ rcv[o].left \in 0..MsgLen
    <3>1. obj[o] \in ObjType /\ rcv[o] \in RcvType
      BY DEF TablesInv, TypeInv
    <3> QED
      BY <3>1 DEF ObjType, RcvType
  <2>3. \A s \in Sender : snd[s].left \in 0..MsgLen
    BY DEF TablesInv, TypeInv, SndType
  <2> QED
    BY <2>1, <2>2, <2>3 DEF TypeOK, TablesInv, TypeInv
<1>2. TypeOK /\ OwnInv => OwnSocket
  BY DEF OwnSocket, OwnInv, Reached
<1> QED
  BY <1>1, <1>2, SendAlways, OwnAlways, PTL

-----------------------------------------------------------------------------
(* The ports *)
LEMMA HeldOwn ==
  ASSUME TablesInv, NEW u \in Obj, Held(u)
  PROVE  /\ obj[u].own \in Sock /\ obj[u].m_socket \in Fd /\ obj[u].own \in 1..made
         /\ desc[obj[u].m_socket] = obj[u].own /\ Kernel(u) = obj[u].own
  BY KernelIs DEF Held

(* A step that disturbs no port and closes nothing that is in use *)
LEMMA PortPlain ==
  ASSUME TablesInv, PortInv, Plain
  PROVE  PortInv'
<1>1. /\ desc' = desc /\ shared' = shared
      /\ \A c \in Sock : sock'[c].port = sock[c].port
      /\ \A o \in Obj :
           /\ SameObject(obj'[o], obj[o])
           /\ obj'[o].st = obj[o].st /\ obj'[o].told = obj[o].told
           /\ obj'[o].phase \in {"bound", "listen"} => obj[o].phase = obj'[o].phase
  BY DEF Plain, Steady
<1>2. \A u, p \in Obj : Rival(u, p)' <=> Rival(u, p)
  BY <1>1 DEF Rival, Closing, Live, SameObject
<1>3. \A u \in Obj : Held(u)' <=> Held(u)
  BY <1>1 DEF Held, SameObject
<1>4. ASSUME NEW u \in Obj PROVE BoundKeeps(u)' /\ LeftKept(u)'
  <2>1. BoundKeeps(u) /\ LeftKept(u)
    BY DEF PortInv
  <2>2. BoundKeeps(u)'
    BY <1>1, <1>2, <1>3, <2>1, HeldOwn DEF BoundKeeps, Live, SameObject
  <2>3. LeftKept(u)'
    BY <1>1, <1>3, <2>1 DEF LeftKept, Live, SameObject
  <2> QED
    BY <2>2, <2>3
<1>5. DeletedFree' /\ DescOwned'
  BY <1>1 DEF PortInv, DeletedFree, DescOwned, SameObject
<1>6. ASSUME NEW o \in Obj \ shared', obj'[o].st = "open"
      PROVE  ListenKeeps(o)' /\ \A u \in obj'[o].after : TookOver(o, u)'
  <2>1. /\ o \in Obj \ shared /\ obj[o].st = "open" /\ ListenKeeps(o)
        /\ \A u \in obj[o].after : TookOver(o, u) /\ u \in Obj
    <3>1. obj[o] \in ObjType
      BY DEF TablesInv, TypeInv
    <3> QED
      BY <1>1, <1>6, <3>1 DEF PortInv, ObjType
  <2>2. ListenKeeps(o)'
    BY <1>1, <2>1, KernelIs DEF ListenKeeps, SameObject
  <2>3. ASSUME NEW u \in obj[o].after PROVE TookOver(o, u)'
    <3>1. TookOver(o, u) /\ u \in Obj
      BY <2>1
    <3>2. obj[o].own # 0
      BY <2>1, <3>1 DEF TookOver, TablesInv, NumbersOK
    <3> QED
      BY <1>1, <1>3, <3>1, <3>2, KernelIs DEF TookOver, SameObject
  <2> QED
    BY <1>1, <2>2, <2>3 DEF SameObject
<1> QED
  BY <1>4, <1>5, <1>6 DEF PortInv

(* A UDP socket does not listen *)
LEMMA PortListen ==
  ASSUME TablesInv, OwnInv, PortInv, NEW o \in Obj, Listen(o)
  PROVE  PortInv'
<1>1. /\ Steady /\ desc' = desc /\ shared' = shared
      /\ \A p \in Obj \ {o} : obj'[p] = obj[p]
      /\ \A c \in Sock : sock'[c].port = sock[c].port
      /\ obj[o].phase = "bound" /\ obj'[o].phase # "bound" /\ obj[o].cls # "UDP"
      /\ obj'[o].phase = "listen" => Kernel(o) # 0 /\ obj'[o].told = sock[Kernel(o)].port
      /\ \A p \in Obj : SameObject(obj'[p], obj[p]) /\ obj'[p].st = obj[p].st
  <2>1. /\ Quiet /\ obj'[o].st = obj[o].st /\ \A p \in Obj \ {o} : obj'[p] = obj[p]
    BY ListenSteady
  <2> QED
    BY <2>1, ListenSteady DEF Quiet, Steady
<1>2. \A u, p \in Obj : Rival(u, p)' <=> Rival(u, p)
  BY <1>1 DEF Rival, Closing, Live, SameObject
<1>3. \A u \in Obj : Held(u)' <=> Held(u)
  BY <1>1 DEF Held, SameObject
<1>4. ASSUME NEW u \in Obj PROVE BoundKeeps(u)' /\ LeftKept(u)'
  <2>1. BoundKeeps(u) /\ LeftKept(u)
    BY DEF PortInv
  <2>2. BoundKeeps(u)'
    BY <1>1, <1>2, <1>3, <2>1, HeldOwn DEF BoundKeeps, Live, SameObject
  <2>3. LeftKept(u)'
    BY <1>1, <1>3, <2>1 DEF LeftKept, Live, SameObject
  <2> QED
    BY <2>2, <2>3
<1>5. DeletedFree' /\ DescOwned'
  BY <1>1 DEF PortInv, DeletedFree, DescOwned, SameObject
<1>6. ASSUME NEW p \in Obj \ shared', obj'[p].st = "open"
      PROVE  ListenKeeps(p)' /\ \A u \in obj'[p].after : TookOver(p, u)'
  <2>1. /\ p \in Obj \ shared /\ obj[p].st = "open" /\ ListenKeeps(p)
        /\ \A u \in obj[p].after : TookOver(p, u) /\ u \in Obj
    <3>1. obj[p] \in ObjType
      BY DEF TablesInv, TypeInv
    <3> QED
      BY <1>1, <1>6, <3>1 DEF PortInv, ObjType
  <2>2. ListenKeeps(p)'
    <3>1. CASE p = o
      <4>1. ASSUME obj'[o].phase = "listen"
            PROVE  obj[o].own # 0 /\ obj'[o].told = sock'[obj[o].own].port
        <5>1. obj[o].own # 0
          BY <1>1, <4>1, KernelKnown
        <5>2. Kernel(o) = obj[o].own /\ obj[o].own \in Sock
          BY <2>1, <3>1, <5>1, KernelIs DEF OwnInv, Reached
        <5> QED
          BY <1>1, <4>1, <5>1, <5>2
      <4> QED
        BY <1>1, <3>1, <4>1 DEF ListenKeeps, SameObject
    <3>2. CASE p # o
      BY <1>1, <2>1, <3>2, KernelIs DEF ListenKeeps, SameObject
    <3> QED
      BY <3>1, <3>2
  <2>3. ASSUME NEW u \in obj[p].after PROVE TookOver(p, u)'
    <3>1. TookOver(p, u) /\ u \in Obj /\ u # o /\ obj'[u] = obj[u]
      BY <1>1, <2>1 DEF TookOver
    <3>2. obj[p].own # 0
      BY <2>1, <3>1 DEF TookOver, TablesInv, NumbersOK
    <3> QED
      BY <1>1, <1>3, <3>1, <3>2, KernelIs DEF TookOver, SameObject
  <2> QED
    BY <1>1, <2>2, <2>3 DEF SameObject
<1> QED
  BY <1>4, <1>5, <1>6 DEF PortInv

(* Who would close a port's descriptor from another object frees it for good *)
LEMMA PortCloses ==
  ASSUME TablesInv, PortInv, NEW o \in Obj, Closes(o)
  PROVE  PortInv'
<1>1. /\ shared' = shared /\ Live(o) /\ obj'[o].st \in {"closed", "deleted"}
      /\ obj[o].own # 0 => ClosedBy(o)
      /\ \A f \in Fd : desc'[f] \in {desc[f], 0}
      /\ \A c \in Sock : sock'[c].port = sock[c].port
      /\ \A p \in Obj : /\ SameObject(obj'[p], obj[p])
                        /\ obj'[p].phase = obj[p].phase /\ obj'[p].told = obj[p].told
      /\ \A p \in Obj \ {o} : obj'[p] = obj[p]
  <2>1. /\ Steady /\ Live(o) /\ obj'[o].st \in {"closed", "deleted"}
        /\ (ClosedBy(o) \/ UNCHANGED <<desc, sock>>)
        /\ obj[o].own # 0 => ClosedBy(o)
        /\ \A p \in Obj : obj'[p].phase = obj[p].phase /\ obj'[p].told = obj[p].told
        /\ \A p \in Obj \ {o} : obj'[p] = obj[p]
    BY ClosesSteady DEF Quiet
  <2>2. \A c \in Sock : sock'[c].port = sock[c].port
    BY <2>1 DEF ClosedBy
  <2> QED
    BY <2>1, <2>2 DEF Steady
<1>2. \A u \in Obj : Held(u)' => Held(u)
  <2>1. ASSUME NEW u \in Obj, Held(u)' PROVE Held(u)
    <3>1. obj[u].own # 0 /\ obj[u].cls = "UDP" /\ desc'[obj[u].m_socket] = obj[u].own
      BY <1>1, <2>1 DEF Held, SameObject
    <3>2. obj[u].m_socket \in Fd
      BY <3>1, KernelIs
    <3> QED
      BY <1>1, <3>1, <3>2 DEF Held
  <2> QED
    BY <2>1
(* Who deletes an object frees the descriptor that it closes *)
<1>3. ASSUME obj[o].own # 0, Closing(obj[o]) \in Fd PROVE desc'[Closing(obj[o])] = 0
  <2>1. Closing(obj[o]) \in Named(obj[o])
    BY <1>3, Bounds DEF Closing, Named, INVALID_SOCKET
  <2> QED
    BY <1>1, <1>3, <2>1 DEF ClosedBy
<1>4. ASSUME NEW u \in Obj PROVE BoundKeeps(u)'
  <2>1. BoundKeeps(u)
    BY DEF PortInv
  <2>2. ASSUME obj'[u].phase = "bound", Live(u)', Held(u)'
        PROVE  \/ sock'[obj'[u].own].port = obj'[u].told
               \/ \E p \in Obj : Rival(u, p)'
    <3>1. Live(u) /\ Held(u) /\ obj[u].phase = "bound"
      BY <1>1, <1>2, <2>2 DEF Live
    <3>2. CASE sock[obj[u].own].port = obj[u].told
      BY <1>1, <3>1, <3>2, HeldOwn DEF SameObject
    <3>3. CASE sock[obj[u].own].port # obj[u].told
      <4>1. PICK p \in Obj : Rival(u, p)
        BY <2>1, <3>1, <3>3 DEF BoundKeeps
      <4>2. Closing(obj[p]) = obj[u].m_socket /\ obj[u].m_socket \in Fd /\ obj[p].own # 0
        BY <3>1, <4>1, HeldOwn DEF Rival
      <4>3. ASSUME p = o PROVE FALSE
        <5>1. desc'[obj[u].m_socket] = 0
          BY <1>3, <4>2, <4>3
        <5> QED
          BY <1>1, <2>2, <5>1 DEF Held, SameObject
      <4>4. Rival(u, p)'
        BY <1>1, <4>1, <4>3 DEF Rival, Closing, Live, SameObject
      <4> QED
        BY <4>4
    <3> QED
      BY <3>2, <3>3
  <2> QED
    BY <1>1, <2>1, <2>2 DEF BoundKeeps, SameObject
<1>5. DeletedFree'
  <2>1. ASSUME NEW q \in Obj, obj'[q].own # 0, obj'[q].cls # "UDT"
        PROVE  /\ obj'[q].st = "deleted" => desc'[obj'[q].m_socket] # obj'[q].own
               /\ obj'[q].st = "left" => obj'[q].cls = "UDP"
    <3>1. /\ obj[q].own # 0 /\ obj[q].cls # "UDT" /\ obj'[q].cls = obj[q].cls
          /\ obj'[q].own = obj[q].own /\ obj'[q].m_socket = obj[q].m_socket
          /\ obj[q].m_socket \in Fd
      BY <1>1, <2>1, KernelIs DEF SameObject
    <3>2. CASE q = o
      BY <1>1, <1>3, <3>1, <3>2 DEF Closing
    <3>3. CASE q # o
      BY <1>1, <3>1, <3>3 DEF PortInv, DeletedFree
    <3> QED
      BY <3>2, <3>3
  <2> QED
    BY <2>1 DEF DeletedFree
<1>6. ASSUME NEW u \in Obj PROVE LeftKept(u)'
  <2>1. ASSUME obj'[u].st \in {"left", "deleted"}, Held(u)'
        PROVE  \E p \in Obj : /\ Live(p)' /\ obj'[p].cls = "UDT"
                              /\ obj'[p].m_udpSocket = obj'[u].m_socket
    <3>1. obj'[u].st = "left"
      BY <1>5, <2>1 DEF DeletedFree, Held
    <3>2. u # o /\ obj[u].st = "left" /\ Held(u) /\ obj'[u] = obj[u]
      BY <1>1, <1>2, <2>1, <3>1
    <3>3. PICK p \in Obj : Live(p) /\ obj[p].cls = "UDT" /\ obj[p].m_udpSocket = obj[u].m_socket
      BY <3>2 DEF PortInv, LeftKept
    <3>4. p # o
      <4>1. obj[p].own # 0 /\ Closing(obj[p]) = obj[u].m_socket /\ obj[u].m_socket \in Fd
        BY <3>2, <3>3, HeldOwn DEF Closing, TablesInv, NumbersOK
      <4>2. desc'[obj[u].m_socket] = obj[u].own /\ obj[u].own # 0
        BY <2>1, <3>2 DEF Held
      <4> QED
        BY <1>3, <4>1, <4>2
    <3> QED
      BY <1>1, <3>2, <3>3, <3>4 DEF Live
  <2> QED
    BY <2>1 DEF LeftKept
<1>7. DescOwned'
  BY <1>1 DEF PortInv, DescOwned, SameObject
<1>8. ASSUME NEW p \in Obj \ shared', obj'[p].st = "open"
      PROVE  ListenKeeps(p)' /\ \A u \in obj'[p].after : TookOver(p, u)'
  <2>1. /\ p \in Obj \ shared /\ p # o /\ obj'[p] = obj[p] /\ obj[p].st = "open"
        /\ ListenKeeps(p) /\ \A u \in obj[p].after : TookOver(p, u) /\ u \in Obj
    <3>1. p # o /\ obj'[p] = obj[p] /\ obj[p] \in ObjType
      BY <1>1, <1>8 DEF TablesInv, TypeInv
    <3> QED
      BY <1>1, <1>8, <3>1 DEF PortInv, ObjType
  <2>2. ListenKeeps(p)'
    BY <1>1, <2>1, KernelIs DEF ListenKeeps
  <2>3. ASSUME NEW u \in obj[p].after PROVE TookOver(p, u)'
    <3>1. TookOver(p, u) /\ u \in Obj /\ u # o /\ obj'[u] = obj[u]
      BY <1>1, <2>1 DEF TookOver, Live
    <3>2. obj[p].own \in Sock /\ obj[u].own \in Sock /\ obj[u].m_socket \in Fd
      BY <2>1, <3>1, KernelIs DEF TookOver, TablesInv, NumbersOK
    <3> QED
      BY <1>1, <1>2, <2>1, <3>1, <3>2 DEF TookOver
  <2> QED
    BY <2>1, <2>2, <2>3
<1> QED
  BY <1>4, <1>5, <1>6, <1>7, <1>8 DEF PortInv

(* A new object.  The UDPSocket that it takes over has its port, if nobody else names its
   descriptor; and who names it later is found to share it. *)
LEMMA PortNew ==
  ASSUME TablesInv, TablesInv', OwnInv', PortInv, NEW o \in Obj, NEW r \in ObjType,
         NEW mode \in {"new", "conn"}, NEW left \in SUBSET Obj,
         NEW socks \in [Sock -> SockType], NewStep(o, r, mode, left, socks)
  PROVE  PortInv'
<1>1. /\ obj'[o] = r /\ o \notin left /\ made \in Nat
      /\ \A p \in Obj \ {o} :
           /\ SameObject(obj'[p], obj[p]) /\ obj'[p].phase = obj[p].phase
           /\ obj'[p].told = obj[p].told
           /\ obj'[p].st = IF p \in left THEN "left" ELSE obj[p].st
           /\ p \in left => obj[p].cls = "UDP" /\ Live(p)
      /\ \A c \in 1..made : c \in Sock /\ sock'[c].port = sock[c].port
      /\ r.own # 0 => /\ r.own = made + 1 /\ r.own \in Sock /\ r.own = made'
                      /\ sock'[r.own] = Fresh(r.cls, mode)
      /\ \A f \in Fd : IF r.own # 0 /\ r.cls # "UDT" /\ f = r.m_socket
                       THEN desc[f] = 0 /\ desc'[f] = made + 1
                       ELSE desc'[f] = desc[f]
  <2>1. Arrives(o, r, mode, left)
    BY NewKeeps
  <2> QED
    BY <2>1 DEF Arrives
<1>2. /\ obj[o].st = "none" /\ obj[o].own = 0 /\ obj[o].after = {}
      /\ r.st = "open" /\ r.after = left /\ r.phase \in {"made", "up"}
      /\ Sharing(o, r, left) # {} => Sharing(o, r, left) \cup {o} \subseteq shared'
      /\ shared \subseteq shared'
      /\ r.own = 0 => r.cls # "UDT"
  BY DEF NewStep, Comes, TablesInv, NumbersOK
<1>3. /\ \/ left = {}
         \/ \E u \in Obj : /\ obj[u].cls = "UDP" /\ obj[u].phase = "bound" /\ Live(u)
                           /\ r.cls = "UDT" /\ r.m_udpSocket = obj[u].m_socket /\ left = {u}
  BY DEF NewStep
<1>4. \A p \in left : /\ r.cls = "UDT" /\ r.own # 0 /\ r.m_udpSocket = obj[p].m_socket
                      /\ obj[p].cls = "UDP" /\ obj[p].phase = "bound" /\ Live(p) /\ p # o
  BY <1>1, <1>2, <1>3
<1>5. ASSUME NEW u \in Obj, Held(u)' PROVE u # o => Held(u)
  <2>1. ASSUME u # o PROVE Held(u)
    <3>1. obj[u].own # 0 /\ obj[u].cls = "UDP" /\ desc'[obj[u].m_socket] = obj[u].own
      BY <1>1, <1>5, <2>1 DEF Held, SameObject
    <3>2. obj[u].m_socket \in Fd /\ obj[u].own # made + 1
      BY <1>1, <3>1, KernelIs
    <3> QED
      BY <1>1, <3>1, <3>2 DEF Held
  <2> QED
    BY <2>1
<1>6. ASSUME NEW u \in Obj PROVE BoundKeeps(u)'
  <2>1. BoundKeeps(u)
    BY DEF PortInv
  <2>2. ASSUME u # o, obj'[u].phase = "bound"
        PROVE  /\ obj'[u].own # 0
               /\ Live(u)' /\ Held(u)' =>
                    sock'[obj'[u].own].port = obj'[u].told \/ \E p \in Obj : Rival(u, p)'
    <3>1. obj[u].own # 0 /\ obj'[u].own # 0
      BY <1>1, <2>1, <2>2 DEF BoundKeeps, SameObject
    <3>2. ASSUME Live(u)', Held(u)'
          PROVE  sock'[obj'[u].own].port = obj'[u].told \/ \E p \in Obj : Rival(u, p)'
      <4>1. Live(u) /\ Held(u) /\ obj[u].phase = "bound" /\ obj[u].own \in 1..made
        BY <1>1, <1>5, <2>2, <3>1, <3>2, KernelIs DEF Live
      <4>2. CASE sock[obj[u].own].port = obj[u].told
        BY <1>1, <2>2, <4>1, <4>2 DEF SameObject
      <4>3. CASE sock[obj[u].own].port # obj[u].told
        <5>1. PICK p \in Obj : Rival(u, p)
          BY <2>1, <4>1, <4>3 DEF BoundKeeps
        <5>2. p # o
          BY <1>2, <5>1 DEF Rival
        <5>3. CASE p \in left
          <6>1. Closing(r) = obj[u].m_socket /\ r.own # 0
            BY <1>4, <5>1, <5>3 DEF Closing, Rival
          <6>2. Rival(u, o)'
            BY <1>1, <1>2, <2>2, <6>1 DEF Rival, Live, SameObject
          <6> QED
            BY <6>2
        <5>4. CASE p \notin left
          <6>1. Rival(u, p)'
            BY <1>1, <2>2, <5>1, <5>2, <5>4 DEF Rival, Live, Closing, SameObject
          <6> QED
            BY <6>1
        <5> QED
          BY <5>3, <5>4
      <4> QED
        BY <4>2, <4>3
    <3> QED
      BY <3>1, <3>2
  <2>3. u = o => obj'[u].phase # "bound"
    BY <1>1, <1>2
  <2> QED
    BY <2>2, <2>3 DEF BoundKeeps
<1>7. DeletedFree'
  <2>1. ASSUME NEW q \in Obj, obj'[q].own # 0, obj'[q].cls # "UDT"
        PROVE  /\ obj'[q].st = "deleted" => desc'[obj'[q].m_socket] # obj'[q].own
               /\ obj'[q].st = "left" => obj'[q].cls = "UDP"
    <3>1. CASE q = o
      BY <1>1, <1>2, <3>1
    <3>2. CASE q # o
      <4>1. /\ obj[q].own # 0 /\ obj[q].cls # "UDT" /\ obj'[q].cls = obj[q].cls
            /\ obj'[q].own = obj[q].own /\ obj'[q].m_socket = obj[q].m_socket
            /\ obj[q].m_socket \in Fd /\ obj[q].own \in 1..made
        BY <1>1, <2>1, <3>2, KernelIs DEF SameObject
      <4>2. /\ obj[q].st = "deleted" => desc[obj[q].m_socket] # obj[q].own
            /\ obj[q].st = "left" => obj[q].cls = "UDP"
        BY <4>1 DEF PortInv, DeletedFree
      <4>3. obj[q].own # made + 1
        BY <1>1, <4>1
      <4> QED
        BY <1>1, <3>2, <4>1, <4>2, <4>3
    <3> QED
      BY <3>1, <3>2
  <2> QED
    BY <2>1 DEF DeletedFree
<1>8. ASSUME NEW u \in Obj PROVE LeftKept(u)'
  <2>1. ASSUME obj'[u].st \in {"left", "deleted"}, Held(u)'
        PROVE  \E p \in Obj : /\ Live(p)' /\ obj'[p].cls = "UDT"
                              /\ obj'[p].m_udpSocket = obj'[u].m_socket
    <3>1. obj'[u].st = "left" /\ u # o
      BY <1>1, <1>2, <1>7, <2>1 DEF DeletedFree, Held
    <3>2. CASE u \in left
      BY <1>1, <1>2, <1>4, <3>1, <3>2 DEF Live, SameObject
    <3>3. CASE u \notin left
      <4>1. obj[u].st = "left" /\ Held(u)
        BY <1>1, <1>5, <2>1, <3>1, <3>3
      <4>2. PICK p \in Obj : Live(p) /\ obj[p].cls = "UDT" /\ obj[p].m_udpSocket = obj[u].m_socket
        BY <4>1 DEF PortInv, LeftKept
      <4>3. p # o /\ p \notin left
        BY <1>2, <1>4, <4>2 DEF Live
      <4> QED
        BY <1>1, <3>1, <4>2, <4>3 DEF Live, SameObject
    <3> QED
      BY <3>2, <3>3
  <2> QED
    BY <2>1 DEF LeftKept
<1>9. DescOwned'
  <2>1. ASSUME NEW f \in Fd, desc'[f] # 0
        PROVE  \E q \in Obj : obj'[q].own = desc'[f] /\ obj'[q].m_socket = f /\ obj'[q].cls # "UDT"
    <3>1. CASE r.own # 0 /\ r.cls # "UDT" /\ f = r.m_socket
      BY <1>1, <3>1
    <3>2. CASE ~(r.own # 0 /\ r.cls # "UDT" /\ f = r.m_socket)
      <4>1. desc'[f] = desc[f]
        BY <1>1, <3>2
      <4>2. PICK q \in Obj : obj[q].own = desc[f] /\ obj[q].m_socket = f /\ obj[q].cls # "UDT"
        BY <2>1, <4>1 DEF PortInv, DescOwned
      <4>3. q # o
        BY <1>2, <2>1, <4>1, <4>2
      <4> QED
        BY <1>1, <4>1, <4>2, <4>3 DEF SameObject
    <3> QED
      BY <3>1, <3>2
  <2> QED
    BY <2>1 DEF DescOwned
<1>10. ASSUME NEW p \in Obj \ shared', obj'[p].st = "open", p # o
       PROVE  ListenKeeps(p)' /\ \A u \in obj'[p].after : TookOver(p, u)'
  <2>1. /\ p \in Obj \ shared /\ obj[p].st = "open" /\ SameObject(obj'[p], obj[p])
        /\ obj'[p].phase = obj[p].phase /\ obj'[p].told = obj[p].told
        /\ ListenKeeps(p) /\ \A u \in obj[p].after : TookOver(p, u) /\ u \in Obj
    <3>1. obj[p] \in ObjType
      BY DEF TablesInv, TypeInv
    <3>2. p \in Obj \ shared /\ obj[p].st = "open"
      BY <1>1, <1>2, <1>10
    <3> QED
      BY <1>1, <1>10, <3>1, <3>2 DEF PortInv, ObjType
  <2>2. obj[p].own # 0 => obj[p].own \in 1..made
    BY KernelIs
  <2>3. ListenKeeps(p)'
    BY <1>1, <2>1, <2>2 DEF ListenKeeps, SameObject
  <2>4. ASSUME NEW u \in obj[p].after PROVE TookOver(p, u)'
    <3>1. TookOver(p, u) /\ u \in Obj /\ u # o /\ u \notin left
      BY <1>2, <1>4, <2>1 DEF TookOver, Live
    <3>2. /\ SameObject(obj'[u], obj[u]) /\ obj'[u].st = "left" /\ obj'[u].told = obj[u].told
          /\ obj[u].own \in 1..made /\ obj[u].m_socket \in Fd /\ obj[p].own \in 1..made
      BY <1>1, <2>2, <3>1, KernelIs DEF TookOver, TablesInv, NumbersOK
    <3>3. desc'[obj[u].m_socket] = desc[obj[u].m_socket]
      <4> SUFFICES ASSUME r.own # 0, r.cls # "UDT", obj[u].m_socket = r.m_socket PROVE FALSE
        BY <1>1, <3>2
      <4>1. r.m_socket \in Named(r) /\ r.m_socket \in Named(obj'[p])
        BY <2>1, <3>1, <3>2, Bounds DEF Named, TookOver, SameObject, INVALID_SOCKET
      <4>2. Share(p, o)'
        BY <1>1, <1>2, <1>10, <4>1 DEF Share, Live
      <4> QED
        BY <1>10, <4>2 DEF OwnInv, SharedOK
    <3>4. Held(u)' => Held(u)
      BY <1>5, <3>1
    <3> QED
      BY <1>1, <2>1, <3>1, <3>2, <3>3, <3>4 DEF TookOver, SameObject
  <2> QED
    BY <2>1, <2>3, <2>4 DEF SameObject
<1>11. ASSUME o \notin shared' PROVE ListenKeeps(o)' /\ \A u \in obj'[o].after : TookOver(o, u)'
  <2>1. Sharing(o, r, left) = {}
    BY <1>2, <1>11
  (* Nobody else will close the descriptor, and it is not another's by now *)
  <2>2. ASSUME NEW p \in Obj \ {o}, p \notin left, Live(p), r.m_udpSocket # INVALID_SOCKET
        PROVE  r.m_udpSocket \notin Named(obj[p])
    BY <2>1, <2>2 DEF Sharing, Live, Named
  <2>3. ASSUME NEW u \in left PROVE TookOver(o, u)'
    <3>1. /\ u \in Obj \ {o} /\ r.cls = "UDT" /\ r.own # 0 /\ r.m_udpSocket = obj[u].m_socket
          /\ obj[u].cls = "UDP" /\ obj[u].phase = "bound" /\ Live(u) /\ left = {u}
      BY <1>3, <1>4
    <3>2. obj[u].own # 0 /\ BoundKeeps(u)
      BY <3>1 DEF PortInv, BoundKeeps
    <3>3. obj[u].m_socket \in Fd /\ obj[u].m_socket # INVALID_SOCKET /\ obj[u].own \in 1..made
      BY <3>1, <3>2, KernelIs, Bounds DEF INVALID_SOCKET
    <3>4. desc'[obj[u].m_socket] = desc[obj[u].m_socket]
      BY <1>1, <3>1, <3>3
    <3>5. desc[obj[u].m_socket] \in {0, obj[u].own}
      <4> SUFFICES ASSUME desc[obj[u].m_socket] # 0, desc[obj[u].m_socket] # obj[u].own PROVE FALSE
        OBVIOUS
      <4>1. PICK q \in Obj : /\ obj[q].own = desc[obj[u].m_socket]
                             /\ obj[q].m_socket = obj[u].m_socket /\ obj[q].cls # "UDT"
        BY <3>3 DEF PortInv, DescOwned
      <4>2. q # u /\ q # o /\ q \notin left /\ obj[q].own # 0
        BY <1>2, <3>1, <4>1
      <4>3. obj[q].m_socket \in Named(obj[q])
        BY <4>1, <4>2, KernelIs
      <4>4. ~Live(q)
        BY <2>2, <3>1, <3>3, <4>1, <4>2, <4>3
      <4>5. obj[q].st # "none" /\ obj[q].st # "deleted"
        BY <4>1, <4>2 DEF TablesInv, NumbersOK, PortInv, DeletedFree
      <4>6. obj[q].st = "left"
        BY <4>4, <4>5 DEF Live, TablesInv, TypeInv, ObjType
      <4>7. Held(q)
        BY <4>1, <4>2, <4>6 DEF Held, PortInv, DeletedFree
      <4>8. PICK p \in Obj : Live(p) /\ obj[p].cls = "UDT" /\ obj[p].m_udpSocket = obj[q].m_socket
        BY <4>6, <4>7 DEF PortInv, LeftKept
      <4>9. p # o /\ p \notin left /\ r.m_udpSocket \in Named(obj[p])
        BY <1>2, <3>1, <3>3, <4>1, <4>8 DEF Live, Named
      <4> QED
        BY <2>2, <3>1, <3>3, <4>8, <4>9
    <3>6. ASSUME Held(u)' PROVE sock'[obj[u].own].port = obj[u].told
      <4>1. Held(u)
        BY <1>5, <3>1, <3>6
      <4>2. ASSUME NEW p \in Obj, Rival(u, p) PROVE FALSE
        <5>1. p # u /\ p # o /\ Live(p) /\ Closing(obj[p]) = obj[u].m_socket
          BY <1>2, <4>2 DEF Rival
        <5>2. obj[u].m_socket \in Named(obj[p])
          BY <3>3, <5>1 DEF Closing, Named
        <5> QED
          BY <2>2, <3>1, <3>3, <5>1, <5>2
      <4> QED
        BY <1>1, <3>1, <3>2, <3>3, <4>1, <4>2 DEF BoundKeeps
    <3>7. sock'[r.own].port = 0
      BY <1>1, <3>1 DEF Fresh
    <3> QED
      BY <1>1, <3>1, <3>2, <3>4, <3>5, <3>6, <3>7 DEF TookOver, SameObject
  <2> QED
    BY <1>1, <1>2, <2>3 DEF ListenKeeps
<1> QED
  BY <1>1, <1>6, <1>7, <1>8, <1>9, <1>10, <1>11 DEF PortInv

(* What Bind does: nothing to the ports, or it gives one to the socket that the object
   reaches *)
LEMMA BindGives ==
  ASSUME TablesInv, NEW o \in Obj, NEW host, NEW port, Bind(o, host, port)
  PROVE  /\ Steady /\ desc' = desc /\ shared' = shared /\ obj[o].phase = "made"
         /\ obj'[o].phase # "listen" /\ \A p \in Obj \ {o} : obj'[p] = obj[p]
         /\ \A p \in Obj : obj'[p].st = obj[p].st
         /\ \/ obj'[o].phase # "bound" /\ sock' = sock
            \/ /\ Kernel(o) # 0
               /\ \A c \in Sock \ {Kernel(o)} : sock'[c].port = sock[c].port
               /\ obj[o].cls = "UDP" => obj'[o].told = sock'[Kernel(o)].port
               /\ obj[o].m_udpSocket # INVALID_SOCKET =>
                    /\ obj[o].m_udpSocket \in Fd /\ desc[obj[o].m_udpSocket] # 0
                    /\ sock'[Kernel(o)].port = sock[desc[obj[o].m_udpSocket]].port
<1>1. /\ Steady /\ desc' = desc /\ shared' = shared /\ obj[o].phase = "made"
      /\ obj[o] \in ObjType
  <2>1. Quiet
    BY BindSteady
  <2> QED
    BY <2>1 DEF Bind, Quiet, Steady, TablesInv, TypeInv
<1>2. CASE \E p \in Ports(o, host, port) :
             /\ sock' = [sock EXCEPT ![Kernel(o)].port = p]
             /\ obj' = [obj EXCEPT ![o].phase = "bound",
                                   ![o].told = IF obj[o].cls = "UDP" THEN GetIPPortUdp(o, sock')
                                                ELSE 0]
  <2>1. PICK p \in Ports(o, host, port) :
             /\ sock' = [sock EXCEPT ![Kernel(o)].port = p]
             /\ obj' = [obj EXCEPT ![o].phase = "bound",
                                   ![o].told = IF obj[o].cls = "UDP" THEN GetIPPortUdp(o, sock')
                                                ELSE 0]
    BY <1>2
  <2> DEFINE c == Kernel(o)
             t == IF obj[o].cls = "UDP" THEN GetIPPortUdp(o, sock') ELSE 0
             r == [obj[o] EXCEPT !.phase = "bound", !.told = t]
  <2>2. /\ c \in Sock /\ c # 0 /\ sock[c] \in SockType
        /\ obj[o].m_udpSocket # INVALID_SOCKET =>
             /\ obj[o].m_udpSocket \in Fd /\ desc[obj[o].m_udpSocket] # 0
             /\ p = sock[desc[obj[o].m_udpSocket]].port
    BY PortsType, KernelKnown
  <2>3. sock'[c].port = p /\ \A d \in Sock \ {c} : sock'[d].port = sock[d].port
    BY <2>1, <2>2 DEF TablesInv, TypeInv, SockType
  <2> HIDE DEF t
  <2>4. r.phase = "bound" /\ r.st = obj[o].st /\ r.told = t
    BY <1>1 DEF ObjType
  <2>5. obj' = [obj EXCEPT ![o] = r]
    BY <2>1 DEF t
  <2> HIDE DEF r
  <2>6. obj'[o] = r /\ \A q \in Obj \ {o} : obj'[q] = obj[q]
    BY <2>5 DEF TablesInv, TypeInv
  <2>7. obj[o].cls = "UDP" => obj'[o].told = sock'[c].port
    BY <2>2, <2>4, <2>6 DEF t, GetIPPortUdp
  <2> QED
    BY <1>1, <2>2, <2>3, <2>4, <2>6, <2>7
<1>3. CASE /\ \E next \in {"failed", "unbound"} : obj' = [obj EXCEPT ![o].phase = next]
           /\ UNCHANGED sock
  <2>1. PICK next \in {"failed", "unbound"} : obj' = [obj EXCEPT ![o].phase = next]
    BY <1>3
  <2>2. /\ obj'[o].phase = next /\ obj'[o].st = obj[o].st
        /\ \A q \in Obj \ {o} : obj'[q] = obj[q]
    BY <1>1, <2>1 DEF TablesInv, TypeInv, ObjType
  <2> QED
    BY <1>1, <1>3, <2>2
<1> QED
  BY <1>2, <1>3 DEF Bind

(* Bind reaches the socket of another object through a shared descriptor only *)
LEMMA BindReaches ==
  ASSUME TablesInv, NEW o \in Obj, NEW u \in Obj \ {o}, obj[u].own # 0,
         Kernel(o) = obj[u].own
  PROVE  /\ obj[o].own # 0 /\ obj[o].cls # "UDT" /\ obj[u].cls # "UDT"
         /\ desc[obj[o].m_socket] = obj[u].own /\ obj[o].m_socket \in Fd
         /\ Closing(obj[o]) = obj[o].m_socket /\ obj[o].m_socket \in Named(obj[o])
<1>1. /\ Kernel(o) # 0 /\ obj[o].own # 0
      /\ IF obj[o].cls = "UDT" THEN Kernel(o) = obj[o].own
         ELSE /\ obj[o].m_socket \in Fd /\ Kernel(o) = desc[obj[o].m_socket]
              /\ sock[Kernel(o)].kind # "UDT"
  BY KernelKnown
<1>2. obj[o].cls # "UDT"
  BY <1>1 DEF TablesInv, OwnersOK
<1>3. obj[u].cls # "UDT"
  BY <1>1, <1>2 DEF TablesInv, NumbersOK
<1> QED
  BY <1>1, <1>2, <1>3, KernelIs DEF Closing

(* Bind changes the port of who shares the descriptor, and of nobody else *)
LEMMA PortBind ==
  ASSUME TablesInv, OwnInv, PortInv, NEW o \in Obj, NEW host, NEW port, Bind(o, host, port)
  PROVE  PortInv'
<1>1. /\ desc' = desc /\ shared' = shared /\ obj[o].phase = "made"
      /\ obj'[o].phase # "listen" /\ \A p \in Obj \ {o} : obj'[p] = obj[p]
      /\ \A p \in Obj : obj'[p].st = obj[p].st /\ SameObject(obj'[p], obj[p])
      /\ obj[o].st \in {"open", "closed"}
  BY BindGives DEF Steady, TablesInv, NumbersOK
<1>2. \A u, p \in Obj : Rival(u, p)' <=> Rival(u, p)
  BY <1>1 DEF Rival, Closing, Live, SameObject
<1>3. \A u \in Obj : Held(u)' <=> Held(u)
  BY <1>1 DEF Held, SameObject
<1>4. \/ obj'[o].phase # "bound" /\ sock' = sock
      \/ /\ Kernel(o) # 0
         /\ \A c \in Sock \ {Kernel(o)} : sock'[c].port = sock[c].port
         /\ obj[o].cls = "UDP" => obj'[o].told = sock'[Kernel(o)].port
         /\ obj[o].m_udpSocket # INVALID_SOCKET =>
              /\ obj[o].m_udpSocket \in Fd /\ desc[obj[o].m_udpSocket] # 0
              /\ sock'[Kernel(o)].port = sock[desc[obj[o].m_udpSocket]].port
  BY BindGives
<1>5. ASSUME NEW c \in Sock, sock'[c].port # sock[c].port
      PROVE  /\ c = Kernel(o) /\ c # 0
             /\ obj[o].m_udpSocket # INVALID_SOCKET =>
                  /\ obj[o].m_udpSocket \in Fd /\ desc[obj[o].m_udpSocket] # 0
                  /\ sock'[c].port = sock[desc[obj[o].m_udpSocket]].port
  BY <1>4, <1>5
<1>6. ASSUME NEW u \in Obj PROVE BoundKeeps(u)'
  <2>1. CASE u = o
    <3>1. ASSUME obj'[o].phase = "bound"
          PROVE  obj[o].own # 0 /\ (Held(o) => sock'[obj[o].own].port = obj'[o].told)
      <4>1. Kernel(o) # 0 /\ (obj[o].cls = "UDP" => obj'[o].told = sock'[Kernel(o)].port)
        BY <1>4, <3>1
      <4> QED
        BY <4>1, KernelKnown, HeldOwn DEF Held
    <3> QED
      BY <1>1, <1>3, <2>1, <3>1 DEF BoundKeeps, SameObject
  <2>2. CASE u # o
    <3>1. BoundKeeps(u) /\ obj'[u] = obj[u]
      BY <1>1, <2>2 DEF PortInv
    <3>2. ASSUME Held(u), sock'[obj[u].own].port # sock[obj[u].own].port PROVE Rival(u, o)
      <4>1. obj[u].own \in Sock /\ obj[u].own # 0 /\ obj[u].m_socket \in Fd
            /\ desc[obj[u].m_socket] = obj[u].own
        BY <3>2, HeldOwn DEF Held
      <4>2. Kernel(o) = obj[u].own
        BY <1>5, <3>2, <4>1
      <4>3. Closing(obj[o]) = obj[u].m_socket /\ obj[o].own # 0
        BY <2>2, <4>1, <4>2, BindReaches DEF TablesInv, DescOK
      <4> QED
        BY <1>1, <2>2, <4>3 DEF Rival, Live
    <3> QED
      BY <1>1, <1>2, <1>3, <3>1, <3>2 DEF BoundKeeps, Live
  <2> QED
    BY <2>1, <2>2
<1>7. ASSUME NEW u \in Obj PROVE LeftKept(u)'
  BY <1>1, <1>3 DEF PortInv, LeftKept, Live, SameObject
<1>8. DeletedFree' /\ DescOwned'
  BY <1>1 DEF PortInv, DeletedFree, DescOwned, SameObject
(* Whose port may change: of o, and of who shares o's descriptor *)
<1>9. ASSUME NEW p \in Obj \ shared, obj[p].st = "open", obj[p].own # 0, p # o
      PROVE  sock'[obj[p].own].port = sock[obj[p].own].port
  <2> SUFFICES ASSUME sock'[obj[p].own].port # sock[obj[p].own].port PROVE FALSE
    OBVIOUS
  <2>1. obj[p].own \in Sock /\ Kernel(p) = obj[p].own
    BY <1>9, KernelIs DEF OwnInv, Reached
  <2>2. Kernel(o) = obj[p].own
    BY <1>5, <2>1
  <2>3. /\ obj[o].cls # "UDT" /\ obj[p].cls # "UDT" /\ obj[o].m_socket \in Fd
        /\ desc[obj[o].m_socket] = obj[p].own /\ obj[o].m_socket \in Named(obj[o])
    BY <1>9, <2>2, BindReaches
  <2>4. /\ obj[p].m_socket \in Fd /\ obj[p].m_socket \in Named(obj[p])
        /\ desc[obj[p].m_socket] = obj[p].own
    BY <1>9, <2>1, <2>3, KernelIs
  <2>5. obj[o].m_socket = obj[p].m_socket
    BY <1>9, <2>3, <2>4 DEF TablesInv, DescOK
  <2>6. Share(p, o)
    BY <1>1, <1>9, <2>3, <2>4, <2>5 DEF Share, Live
  <2> QED
    BY <1>9, <2>6 DEF OwnInv, SharedOK
<1>10. ASSUME NEW p \in Obj \ shared', obj'[p].st = "open"
       PROVE  ListenKeeps(p)' /\ \A u \in obj'[p].after : TookOver(p, u)'
  <2>1. /\ p \in Obj \ shared /\ obj[p].st = "open" /\ ListenKeeps(p)
        /\ \A u \in obj[p].after : TookOver(p, u) /\ u \in Obj
    <3>1. obj[p] \in ObjType /\ p \in Obj \ shared /\ obj[p].st = "open"
      BY <1>1, <1>10 DEF TablesInv, TypeInv
    <3> QED
      BY <3>1 DEF PortInv, ObjType
  <2>2. ListenKeeps(p)'
    <3>1. p # o => obj'[p] = obj[p]
      BY <1>1
    <3> QED
      BY <1>1, <1>9, <2>1, <3>1 DEF ListenKeeps, SameObject
  <2>3. ASSUME NEW u \in obj[p].after PROVE TookOver(p, u)'
    <3>1. /\ TookOver(p, u) /\ u \in Obj /\ u # o /\ obj'[u] = obj[u]
      BY <1>1, <2>1 DEF TookOver
    <3>2. /\ obj[p].own # 0 /\ obj[p].own \in Sock /\ obj[u].own \in Sock
          /\ obj[u].own # 0 /\ obj[u].m_socket \in Fd /\ obj[p].cls = "UDT"
      BY <2>1, <3>1, KernelIs DEF TookOver, TablesInv, NumbersOK
    <3>3. ASSUME Held(u) PROVE sock'[obj[u].own].port = sock[obj[u].own].port
      <4> SUFFICES ASSUME sock'[obj[u].own].port # sock[obj[u].own].port PROVE FALSE
        OBVIOUS
      <4>1. Kernel(o) = obj[u].own /\ desc[obj[u].m_socket] = obj[u].own
        BY <1>5, <3>2, <3>3 DEF Held
      <4>2. /\ obj[o].cls # "UDT" /\ obj[o].m_socket \in Fd
            /\ desc[obj[o].m_socket] = obj[u].own /\ obj[o].m_socket \in Named(obj[o])
        BY <3>1, <3>2, <4>1, BindReaches
      <4>3. obj[o].m_socket = obj[u].m_socket
        BY <3>2, <4>1, <4>2 DEF TablesInv, DescOK
      <4>4. obj[u].m_socket \in Named(obj[p])
        BY <3>1, <3>2, Bounds DEF TookOver, Named, INVALID_SOCKET
      <4>5. Share(p, o)
        BY <1>1, <2>1, <3>2, <4>2, <4>3, <4>4 DEF Share, Live
      <4> QED
        BY <2>1, <4>5 DEF OwnInv, SharedOK
    <3>4. sock'[obj[p].own].port \in {0, obj[u].told}
      <4>1. CASE sock'[obj[p].own].port = sock[obj[p].own].port
        BY <3>1, <4>1 DEF TookOver
      <4>2. CASE sock'[obj[p].own].port # sock[obj[p].own].port
        <5>1. p = o
          BY <1>9, <2>1, <3>2, <4>2
        <5>2. /\ desc[obj[u].m_socket] # 0 /\ obj[p].m_udpSocket = obj[u].m_socket
              /\ sock'[obj[p].own].port = sock[desc[obj[u].m_socket]].port
          BY <1>5, <3>1, <3>2, <4>2, <5>1, Bounds DEF TookOver, INVALID_SOCKET
        <5>3. Held(u) /\ desc[obj[u].m_socket] = obj[u].own
          BY <3>1, <5>2 DEF TookOver, Held
        <5> QED
          BY <3>1, <5>2, <5>3 DEF TookOver
      <4> QED
        BY <4>1, <4>2
    <3> QED
      BY <1>1, <1>3, <3>1, <3>3, <3>4 DEF TookOver, SameObject
  <2> QED
    BY <1>1, <2>2, <2>3 DEF SameObject
<1> QED
  BY <1>6, <1>7, <1>8, <1>10 DEF PortInv

LEMMA PortStep ==
  TablesInv /\ TablesInv' /\ OwnInv /\ OwnInv' /\ PortInv /\ [Next]_vars => PortInv'
<1> SUFFICES ASSUME TablesInv, TablesInv', OwnInv, OwnInv', PortInv, [Next]_vars PROVE PortInv'
  OBVIOUS
<1>1. ASSUME NEW o \in Obj, Creates(o) PROVE PortInv'
  BY <1>1, CreateStep, PortNew
<1>2. ASSUME NEW o \in Obj, Listen(o) PROVE PortInv'
  BY <1>2, PortListen
<1>3. ASSUME NEW o \in Obj, NEW host \in {"", "name", "unknown"}, Bind(o, host, Min(Port))
      PROVE  PortInv'
  BY <1>3, PortBind
<1>4. ASSUME NEW o \in Obj, Closes(o) PROVE PortInv'
  BY <1>4, PortCloses
<1>5. ASSUME NEW o \in Obj, Connect(o) \/ Receives(o) PROVE PortInv'
  BY <1>5, ConnectPlain, ReceivesPlain, PortPlain
<1>6. CASE (\E s \in Sender : Sends(s)) \/ (\E c \in Sock : Peers(c))
  BY <1>6, SendsPlain, PeersPlain, PortPlain
<1>7. CASE UNCHANGED vars
  <2>1. Plain
    BY <1>7, ObjsKept, SocksKept DEF Plain, Steady, Live, vars, threads
  <2> QED
    BY <2>1, PortPlain
<1> QED
  BY <1>1, <1>2, <1>3, <1>4, <1>5, <1>6, <1>7, NextCases

LEMMA PortInit == Init => PortInv
<1> SUFFICES ASSUME Init PROVE PortInv
  OBVIOUS
<1>1. /\ \A o \in Obj : /\ obj[o].st = "none" /\ obj[o].phase = "none" /\ obj[o].own = 0
      /\ \A f \in Fd : desc[f] = 0
  BY DEF Init
<1> QED
  BY <1>1 DEF PortInv, BoundKeeps, LeftKept, DeletedFree, DescOwned

(* The other side finds a listener at the port that it was told, and the UDT socket of a
   tunnel at that of the UDP socket whose descriptor it took over, for as long as the
   object is open and shares no descriptor: Bind is given the port of the descriptor,
   whatever it asks for, and no other object's Bind reaches the socket *)
THEOREM ToldPortIsKept == Spec => []ToldPortKept
<1>1. Init => TablesInv /\ OwnInv /\ PortInv
  BY TablesInit, PortInit DEF Init, OwnInv, SharedOK, Share, Live, Reached
<1>2. TablesInv /\ OwnInv /\ PortInv /\ [Next]_vars => (TablesInv /\ OwnInv /\ PortInv)'
  BY TablesStep, OwnStep, PortStep
<1>3. PortInv => ToldPortKept
  BY DEF PortInv, ToldPortKept, ListenKeeps, TookOver
<1> QED
  BY <1>1, <1>2, <1>3, PTL DEF Spec
=============================================================================
