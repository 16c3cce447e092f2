--------------------------- MODULE ClientServerProofs ---------------------------
(***************************************************************************)
(* Proofs about ClientServer, for any clients, users, passwords and        *)
(* numbers of connections and calls.                                       *)
(***************************************************************************)
EXTENDS ClientServer, TLAPS

CliState == {"none", "login", "deciding", "owning", "session", "connected", "stopped", "gone"}
SrvState == {"none", "accepted", "session", "naming", "connected", "stopped", "gone"}
ConnType ==
  [of : Client \cup {NoClient}, cred : Credential, cli : CliState, srv : SrvState,
   cliUp : BOOLEAN, srvUp : BOOLEAN, lost : BOOLEAN, listed : BOOLEAN, cliNamed : BOOLEAN,
   srvNamed : BOOLEAN, list : SUBSET Conn, toCli : Seq(Message), toSrv : Seq(Message)]

(* Everything but the connections *)
RestType ==
  /\ m_isStopConnect \in [Client -> BOOLEAN] /\ m_userPassword \in [Client -> Credential]
  /\ m_ownSessionId \in [Client -> Conn \cup {NoSession}]
  /\ m_bConnectToServerRequest \in [Client -> BOOLEAN]
  /\ connecting \in [Client -> Nat] /\ disconnecting \in [Client -> BOOLEAN]
  /\ m_modules \in [Client -> SUBSET Conn] /\ m_ipcObject \in [Client -> SUBSET Conn]
  /\ m_userPasswords \in [User -> Password \cup {NoPassword}]
  /\ m_serverThread \in 0..MaxStart
  /\ listen \in [1..MaxStart -> {"none", "binding", "stopping", "listening", "ended"}]
  /\ nullThread \in BOOLEAN /\ clients \subseteq Conn /\ wiped \subseteq Conn
  /\ calls \in [DOMAIN Limit -> Nat] /\ gaveUp \subseteq Client

(* The two ends of a connection r, each where the other can have led it *)
EndsOK(r) ==
  /\ r.of = NoClient <=> r.cli = "none"
  /\ r.of = NoClient <=> r.srv = "none"
  /\ r.of = NoClient => r.toCli = <<>> /\ r.list = {}
  /\ r.cliNamed => r.cli \in {"session", "connected", "stopped", "gone"}
  /\ r.cli \in {"session", "connected"} => r.cliNamed
  /\ r.cli \in {"deciding", "owning", "session", "connected"} => r.srvNamed
  /\ r.srvNamed => r.srv \in {"session", "naming", "connected", "stopped", "gone"}
  /\ r.srv \in {"session", "naming", "connected"} => r.srvNamed
  /\ r.cli \in {"none", "stopped", "gone"} => ~r.cliUp
  /\ r.srv \in {"none", "stopped", "gone"} => ~r.srvUp

(* What travels to the client: one result of the login, to a client that waits for it, and
   names only behind it *)
HasKind(q, kind) == \E m \in ToSet(q) : m.kind = kind
NameKind == {"ModuleName", "IPCObjectList", "AddIPCObject"}
OneResult(q) ==
  \A i, j \in 1..Len(q) : q[i].kind = "LoginResult" /\ q[j].kind = "LoginResult" => i = j
NamesBehind(q) ==
  \A i \in 1..Len(q) : q[i].kind \in NameKind =>
    \E j \in 1..Len(q) : j < i /\ q[j].kind = "LoginResult"

OrderOK(r) ==
  /\ HasKind(r.toCli, "LoginResult") => r.cli = "login" /\ ~(r.srv = "accepted" /\ r.srvUp)
  /\ \A m \in ToSet(r.toCli) :
       /\ m.kind = "LoginResult" => (m.success <=> r.srvNamed)
       /\ m.kind \in NameKind => r.srvNamed
  /\ OneResult(r.toCli)
  /\ r.cli = "login" => NamesBehind(r.toCli)

(* Each end has the other's ModuleName, or it travels ahead of all that is sent from now on *)
HeardOK(r) ==
  LET open == r.cliUp /\ r.srvUp /\ ~r.lost IN
  /\ HasKind(r.toSrv, "ModuleName") => r.srvNamed
  /\ r.cliNamed /\ open => r.srv \in {"naming", "connected"} \/ HasKind(r.toSrv, "ModuleName")
  /\ r.srvNamed /\ open => r.cli = "connected" \/ HasKind(r.toCli, "ModuleName")

Good(r) == r \in ConnType /\ EndsOK(r) /\ OrderOK(r) /\ HeardOK(r)

(* A name that is announced is that of a client of the same user *)
SameUser(n, k) == conn[n].srvNamed /\ UserOf(n) = UserOf(k)

(* What a message to k says of a name is so *)
Says(m, k) ==
  /\ m.kind = "AddIPCObject" => SameUser(m.name, k)
  /\ m.kind = "IPCObjectList" => \A n \in m.names : SameUser(n, k)
  /\ m.kind = "RemoveIPCObject" => conn[m.name].srv \in {"stopped", "gone"}

NamesOK ==
  \A k \in Conn : /\ \A n \in conn[k].list : SameUser(n, k)
                  /\ \A m \in ToSet(conn[k].toCli) : Says(m, k)

ConnInv == RestType /\ conn \in [Conn -> ConnType] /\ (\A k \in Conn : Good(conn[k])) /\ NamesOK

(* Registered names are those of connections that were named and are yet to be reported *)
RegisteredInv ==
  /\ \A c \in Client : \A k \in m_modules[c] :
       k \in Of(c) /\ conn[k].cliNamed /\ conn[k].cli \in {"connected", "stopped"}
  /\ \A k \in clients : conn[k].srvNamed /\ conn[k].srv \in {"naming", "connected", "stopped"}

ShareInv ==
  \A c \in Client : \A j \in m_ipcObject[c] :
    /\ conn[j].srvNamed
    /\ \E k \in Of(c) : conn[k].cliNamed /\ conn[k].cli # "gone" /\ UserOf(k) = UserOf(j)

(* From its registration on, a client is told of those of its user whose registration is
   complete: by the list that is put together, or by their own announcement *)
Live(k) == Open(k) /\ conn[k].srv \in {"naming", "connected"}
Names(m, j) ==
  \/ m.kind = "AddIPCObject" /\ m.name = j
  \/ m.kind = "IPCObjectList" /\ j \in m.names
Tell(j, k) ==
  /\ j # k /\ k \notin wiped /\ UserOf(j) = UserOf(k)
  /\ Live(k) /\ conn[j].srv = "connected"
  => \/ conn[k].srv = "naming" /\ j \in conn[k].list
     \/ j \in m_ipcObject[conn[k].of]
     \/ \E m \in ToSet(conn[k].toCli) : Names(m, j)
TellInv == \A j, k \in Conn : Tell(j, k)

(* A connection whose end sets the session of the client, or asks for another one *)
Carries(k) ==
  conn[k].cli \in {"login", "deciding"} \/ (conn[k].cli = "stopped" /\ ~conn[k].cliNamed)

OwnState == {"owning", "session", "connected", "stopped", "gone"}
Ended(k) == conn[k].cli \in {"stopped", "gone"}
Pursuit(c) ==
  /\ m_ownSessionId[c] # NoSession =>
       LET k == m_ownSessionId[c] IN
       /\ k \in Of(c) /\ conn[k].cli \in OwnState /\ (Ended(k) => conn[k].cliNamed)
       /\ conn[k].cli = "gone" => c \in gaveUp
  /\ m_isStopConnect[c] /\ c \notin gaveUp =>
       Of(c) = {} /\ connecting[c] = 0 /\ ~m_bConnectToServerRequest[c]
  /\ ~m_isStopConnect[c] /\ m_ownSessionId[c] = NoSession =>
       \/ connecting[c] > 0 \/ m_bConnectToServerRequest[c]
       \/ \E k \in Of(c) : Carries(k)
PursuitInv == \A c \in Client : Pursuit(c)

-----------------------------------------------------------------------------
(* Queues *)
LEMMA TakeOne ==
  ASSUME NEW S, NEW q \in Seq(S), q # <<>>
  PROVE  /\ Head(q) = q[1] /\ 1 \in 1..Len(q)
         /\ Tail(q) \in Seq(S) /\ Len(Tail(q)) = Len(q) - 1 /\ Len(q) \in Nat
         /\ \A i \in 1..Len(Tail(q)) : i + 1 \in 1..Len(q) /\ Tail(q)[i] = q[i + 1]
         /\ \A i \in 1..Len(q) : i # 1 => i - 1 \in 1..Len(Tail(q)) /\ Tail(q)[i - 1] = q[i]
  OBVIOUS

LEMMA TakeSet ==
  ASSUME NEW S, NEW q \in Seq(S), q # <<>>
  PROVE  /\ Tail(q) \in Seq(S) /\ Head(q) \in ToSet(q) /\ Head(q) \in S
         /\ ToSet(q) = ToSet(Tail(q)) \cup {Head(q)}
<1>1. /\ Head(q) = q[1] /\ 1 \in 1..Len(q)
      /\ Tail(q) \in Seq(S) /\ Len(Tail(q)) = Len(q) - 1 /\ Len(q) \in Nat
      /\ \A i \in 1..Len(Tail(q)) : i + 1 \in 1..Len(q) /\ Tail(q)[i] = q[i + 1]
      /\ \A i \in 1..Len(q) : i # 1 => i - 1 \in 1..Len(Tail(q)) /\ Tail(q)[i - 1] = q[i]
  BY TakeOne
<1> DEFINE t == Tail(q)
<1>2. DOMAIN q = 1..Len(q) /\ DOMAIN t = 1..Len(t)
  BY <1>1
<1> HIDE DEF t
<1>3. \A x \in ToSet(t) \cup {Head(q)} : x \in ToSet(q)
  BY <1>1, <1>2 DEF ToSet, t
<1>4. \A x \in ToSet(q) : x \in ToSet(t) \cup {Head(q)}
  <2> SUFFICES ASSUME NEW i \in 1..Len(q) PROVE q[i] \in ToSet(t) \cup {Head(q)}
    BY <1>2 DEF ToSet
  <2>1. CASE i # 1
    <3>1. i - 1 \in DOMAIN t /\ t[i - 1] = q[i]
      BY <1>1, <1>2, <2>1 DEF t
    <3> QED
      BY <3>1 DEF ToSet
  <2> QED
    BY <1>1, <2>1
<1>5. Head(q) \in S
  BY <1>1
<1> QED
  BY <1>1, <1>3, <1>4, <1>5 DEF t

LEMMA PutOne ==
  ASSUME NEW S, NEW q \in Seq(S), NEW m \in S
  PROVE  /\ q \o <<m>> \in Seq(S) /\ Len(q \o <<m>>) = Len(q) + 1 /\ Len(q) \in Nat
         /\ (q \o <<m>>)[Len(q) + 1] = m
         /\ \A i \in 1..Len(q) : (q \o <<m>>)[i] = q[i]
         /\ \A i \in 1..Len(q \o <<m>>) : i \in 1..Len(q) \/ i = Len(q) + 1
  OBVIOUS

LEMMA PutSet ==
  ASSUME NEW S, NEW q \in Seq(S), NEW m \in S
  PROVE  /\ q \o <<m>> \in Seq(S) /\ ToSet(q \o <<m>>) = ToSet(q) \cup {m}
<1> DEFINE p == q \o <<m>>
<1>1. /\ p \in Seq(S) /\ Len(p) = Len(q) + 1 /\ Len(q) \in Nat
      /\ p[Len(q) + 1] = m
      /\ \A i \in 1..Len(q) : p[i] = q[i]
      /\ \A i \in 1..Len(p) : i \in 1..Len(q) \/ i = Len(q) + 1
  BY PutOne
<1>2. DOMAIN q = 1..Len(q) /\ DOMAIN p = 1..Len(p)
  BY <1>1
<1> HIDE DEF p
<1>3. ToSet(p) = ToSet(q) \cup {m}
  BY <1>1, <1>2 DEF ToSet
<1> QED
  BY <1>1, <1>3 DEF p

LEMMA SetOf ==
  ASSUME NEW S, NEW q \in Seq(S)
  PROVE  ToSet(q) \subseteq S
<1>1. DOMAIN q = 1..Len(q) /\ \A i \in 1..Len(q) : q[i] \in S
  OBVIOUS
<1> QED
  BY <1>1 DEF ToSet

LEMMA EmptySet == ToSet(<<>>) = {}
  BY DEF ToSet

(* The order of results and names in a queue of which the first message is taken *)
LEMMA TakeOrder ==
  ASSUME NEW q \in Seq(Message), q # <<>>
  PROVE  /\ OneResult(q) => OneResult(Tail(q))
         /\ OneResult(q) /\ Head(q).kind = "LoginResult" => ~HasKind(Tail(q), "LoginResult")
         /\ NamesBehind(q) => Head(q).kind \notin NameKind
         /\ NamesBehind(q) /\ Head(q).kind # "LoginResult" => NamesBehind(Tail(q))
<1>1. /\ Head(q) = q[1] /\ 1 \in 1..Len(q)
      /\ Tail(q) \in Seq(Message) /\ Len(Tail(q)) = Len(q) - 1 /\ Len(q) \in Nat
      /\ \A i \in 1..Len(Tail(q)) : i + 1 \in 1..Len(q) /\ Tail(q)[i] = q[i + 1]
      /\ \A i \in 1..Len(q) : i # 1 => i - 1 \in 1..Len(Tail(q)) /\ Tail(q)[i - 1] = q[i]
  BY TakeOne
<1>7. DOMAIN Tail(q) = 1..Len(Tail(q))
  BY <1>1
<1>2. ToSet(Tail(q)) = {Tail(q)[i] : i \in 1..Len(Tail(q))}
  BY <1>7 DEF ToSet
<1>3. OneResult(q) => OneResult(Tail(q))
  BY <1>1 DEF OneResult
<1>4. OneResult(q) /\ Head(q).kind = "LoginResult" => ~HasKind(Tail(q), "LoginResult")
  <2> SUFFICES ASSUME OneResult(q), Head(q).kind = "LoginResult", NEW i \in 1..Len(Tail(q))
               PROVE  Tail(q)[i].kind # "LoginResult"
    BY <1>2 DEF HasKind
  <2> QED
    BY <1>1 DEF OneResult
<1>5. NamesBehind(q) => Head(q).kind \notin NameKind
  BY <1>1 DEF NamesBehind
<1>6. ASSUME NamesBehind(q), Head(q).kind # "LoginResult" PROVE NamesBehind(Tail(q))
  <2> SUFFICES ASSUME NEW i \in 1..Len(Tail(q)), Tail(q)[i].kind \in NameKind
               PROVE  \E j \in 1..Len(Tail(q)) : j < i /\ Tail(q)[j].kind = "LoginResult"
    BY DEF NamesBehind
  <2>1. PICK j \in 1..Len(q) : j < i + 1 /\ q[j].kind = "LoginResult"
    BY <1>1, <1>6 DEF NamesBehind
  <2> QED
    BY <1>1, <1>6, <2>1
<1> QED
  BY <1>3, <1>4, <1>5, <1>6

(* ... and to which one is added *)
LEMMA PutOrder ==
  ASSUME NEW q \in Seq(Message), NEW m \in Message
  PROVE  /\ OneResult(q) /\ (m.kind = "LoginResult" => ~HasKind(q, "LoginResult")) =>
              OneResult(q \o <<m>>)
         /\ NamesBehind(q) /\ (m.kind \in NameKind => HasKind(q, "LoginResult")) =>
              NamesBehind(q \o <<m>>)
<1> DEFINE p == q \o <<m>>
<1>1. /\ p \in Seq(Message) /\ Len(p) = Len(q) + 1 /\ Len(q) \in Nat
      /\ p[Len(q) + 1] = m
      /\ \A i \in 1..Len(q) : p[i] = q[i]
      /\ \A i \in 1..Len(p) : i \in 1..Len(q) \/ i = Len(q) + 1
  BY PutOne
<1>2. HasKind(q, "LoginResult") <=> \E i \in 1..Len(q) : q[i].kind = "LoginResult"
  BY DEF HasKind, ToSet
<1> HIDE DEF p
<1>3. OneResult(q) /\ (m.kind = "LoginResult" => ~HasKind(q, "LoginResult")) => OneResult(p)
  BY <1>1, <1>2 DEF OneResult
<1>4. ASSUME NamesBehind(q), m.kind \in NameKind => HasKind(q, "LoginResult")
      PROVE  NamesBehind(p)
  <2> SUFFICES ASSUME NEW i \in 1..Len(p), p[i].kind \in NameKind
               PROVE  \E j \in 1..Len(p) : j < i /\ p[j].kind = "LoginResult"
    BY DEF NamesBehind
  <2>1. PICK j \in 1..Len(q) : j < i /\ q[j].kind = "LoginResult"
    BY <1>1, <1>2, <1>4 DEF NamesBehind
  <2> QED
    BY <1>1, <2>1
<1> QED
  BY <1>3, <1>4 DEF p

-----------------------------------------------------------------------------
(* A connection is shut or lost *)
LEMMA ShutsClient ==
  ASSUME NEW r, Good(r)
  PROVE  Good([r EXCEPT !.cliUp = FALSE])
<1> DEFINE r2 == [r EXCEPT !.cliUp = FALSE]
<1>3. /\ r2 \in ConnType /\ r2.cliUp = FALSE
      /\ r2.of = r.of /\ r2.cli = r.cli /\ r2.srv = r.srv /\ r2.srvUp = r.srvUp
      /\ r2.lost = r.lost /\ r2.cliNamed = r.cliNamed /\ r2.srvNamed = r.srvNamed
      /\ r2.list = r.list /\ r2.toCli = r.toCli /\ r2.toSrv = r.toSrv
  BY DEF Good, ConnType, CliState, SrvState
<1> HIDE DEF r2
<1>4. EndsOK(r2)
  BY <1>3 DEF Good, EndsOK, OrderOK
<1>5. OrderOK(r2)
  BY <1>3 DEF Good, EndsOK, OrderOK, HasKind, NameKind
<1>6. HeardOK(r2)
  BY <1>3 DEF Good, EndsOK, OrderOK, HeardOK, HasKind, NameKind
<1> QED
  BY <1>3, <1>4, <1>5, <1>6 DEF Good, r2

LEMMA ShutsServer ==
  ASSUME NEW r, Good(r)
  PROVE  Good([r EXCEPT !.srvUp = FALSE])
<1> DEFINE r2 == [r EXCEPT !.srvUp = FALSE]
<1>3. /\ r2 \in ConnType /\ r2.srvUp = FALSE
      /\ r2.of = r.of /\ r2.cli = r.cli /\ r2.srv = r.srv /\ r2.cliUp = r.cliUp
      /\ r2.lost = r.lost /\ r2.cliNamed = r.cliNamed /\ r2.srvNamed = r.srvNamed
      /\ r2.list = r.list /\ r2.toCli = r.toCli /\ r2.toSrv = r.toSrv
  BY DEF Good, ConnType, CliState, SrvState
<1> HIDE DEF r2
<1>4. EndsOK(r2)
  BY <1>3 DEF Good, EndsOK, OrderOK
<1>5. OrderOK(r2)
  BY <1>3 DEF Good, EndsOK, OrderOK, HasKind, NameKind
<1>6. HeardOK(r2)
  BY <1>3 DEF Good, EndsOK, OrderOK, HeardOK, HasKind, NameKind
<1> QED
  BY <1>3, <1>4, <1>5, <1>6 DEF Good, r2

LEMMA LosesIt ==
  ASSUME NEW r, Good(r)
  PROVE  Good([r EXCEPT !.lost = TRUE])
<1> DEFINE r2 == [r EXCEPT !.lost = TRUE]
<1>3. /\ r2 \in ConnType /\ r2.lost = TRUE
      /\ r2.of = r.of /\ r2.cli = r.cli /\ r2.srv = r.srv /\ r2.cliUp = r.cliUp
      /\ r2.srvUp = r.srvUp /\ r2.cliNamed = r.cliNamed /\ r2.srvNamed = r.srvNamed
      /\ r2.list = r.list /\ r2.toCli = r.toCli /\ r2.toSrv = r.toSrv
  BY DEF Good, ConnType, CliState, SrvState
<1> HIDE DEF r2
<1>4. EndsOK(r2)
  BY <1>3 DEF Good, EndsOK, OrderOK
<1>5. OrderOK(r2)
  BY <1>3 DEF Good, EndsOK, OrderOK, HasKind, NameKind
<1>6. HeardOK(r2)
  BY <1>3 DEF Good, EndsOK, OrderOK, HeardOK, HasKind, NameKind
<1> QED
  BY <1>3, <1>4, <1>5, <1>6 DEF Good, r2

(* ... or listed *)
LEMMA ListsIt ==
  ASSUME NEW r, Good(r)
  PROVE  Good([r EXCEPT !.listed = TRUE])
<1> DEFINE r2 == [r EXCEPT !.listed = TRUE]
<1>3. /\ r2 \in ConnType /\ r2.listed = TRUE
      /\ r2.of = r.of /\ r2.cli = r.cli /\ r2.srv = r.srv /\ r2.cliUp = r.cliUp
      /\ r2.srvUp = r.srvUp /\ r2.lost = r.lost /\ r2.cliNamed = r.cliNamed
      /\ r2.srvNamed = r.srvNamed /\ r2.list = r.list /\ r2.toCli = r.toCli
      /\ r2.toSrv = r.toSrv
  BY DEF Good, ConnType, CliState, SrvState
<1> HIDE DEF r2
<1>4. EndsOK(r2)
  BY <1>3 DEF Good, EndsOK, OrderOK
<1>5. OrderOK(r2)
  BY <1>3 DEF Good, EndsOK, OrderOK, HasKind, NameKind
<1>6. HeardOK(r2)
  BY <1>3 DEF Good, EndsOK, OrderOK, HeardOK, HasKind, NameKind
<1> QED
  BY <1>3, <1>4, <1>5, <1>6 DEF Good, r2

(* The client takes a message that is not a result of its login *)
LEMMA TakesName ==
  ASSUME NEW r, Good(r), r.toCli # <<>>, Head(r.toCli).kind # "LoginResult",
         r.cli \in {"login", "session", "connected"},
         NEW cli, cli = r.cli \/ (cli = "connected" /\ Head(r.toCli).kind = "ModuleName"),
         Head(r.toCli).kind = "ModuleName" => cli = "connected"
  PROVE  Good([r EXCEPT !.toCli = Tail(r.toCli), !.cli = cli])
<1> DEFINE r2 == [r EXCEPT !.toCli = Tail(r.toCli), !.cli = cli]
<1>1. /\ Tail(r.toCli) \in Seq(Message) /\ Head(r.toCli) \in ToSet(r.toCli)
      /\ ToSet(r.toCli) = ToSet(Tail(r.toCli)) \cup {Head(r.toCli)}
      /\ OneResult(Tail(r.toCli))
      /\ Head(r.toCli).kind = "LoginResult" => ~HasKind(Tail(r.toCli), "LoginResult")
      /\ NamesBehind(r.toCli) => Head(r.toCli).kind \notin NameKind
      /\ NamesBehind(r.toCli) /\ Head(r.toCli).kind # "LoginResult" => NamesBehind(Tail(r.toCli))
  BY TakeSet, TakeOrder DEF Good, ConnType, OrderOK
<1>2. Head(r.toCli).kind = "ModuleName" => r.cli # "login"
  BY <1>1 DEF Good, OrderOK, NameKind
<1>3. /\ r2 \in ConnType /\ r2.toCli = Tail(r.toCli) /\ r2.cli = cli
      /\ r2.of = r.of /\ r2.srv = r.srv /\ r2.cliUp = r.cliUp /\ r2.srvUp = r.srvUp
      /\ r2.lost = r.lost /\ r2.cliNamed = r.cliNamed /\ r2.srvNamed = r.srvNamed
      /\ r2.list = r.list /\ r2.toSrv = r.toSrv
  BY <1>1 DEF Good, ConnType, CliState, SrvState
<1> HIDE DEF r2
<1>4. EndsOK(r2)
  BY <1>1, <1>2, <1>3 DEF Good, EndsOK, OrderOK
<1>5. OrderOK(r2)
  BY <1>1, <1>2, <1>3 DEF Good, EndsOK, OrderOK, HasKind, NameKind
<1>6. HeardOK(r2)
  BY <1>1, <1>2, <1>3 DEF Good, EndsOK, OrderOK, HeardOK, HasKind, NameKind
<1> QED
  BY <1>3, <1>4, <1>5, <1>6 DEF Good, r2

(* ... the result *)
LEMMA TakesResult ==
  ASSUME NEW r, Good(r), r.toCli # <<>>, Head(r.toCli).kind = "LoginResult",
         Head(r.toCli).success, NEW cli \in {"deciding", "owning"}
  PROVE  Good([r EXCEPT !.toCli = Tail(r.toCli), !.cli = cli])
<1> DEFINE r2 == [r EXCEPT !.toCli = Tail(r.toCli), !.cli = cli]
<1>1. /\ Tail(r.toCli) \in Seq(Message) /\ Head(r.toCli) \in ToSet(r.toCli)
      /\ ToSet(r.toCli) = ToSet(Tail(r.toCli)) \cup {Head(r.toCli)}
      /\ OneResult(Tail(r.toCli))
      /\ Head(r.toCli).kind = "LoginResult" => ~HasKind(Tail(r.toCli), "LoginResult")
      /\ NamesBehind(r.toCli) => Head(r.toCli).kind \notin NameKind
      /\ NamesBehind(r.toCli) /\ Head(r.toCli).kind # "LoginResult" => NamesBehind(Tail(r.toCli))
  BY TakeSet, TakeOrder DEF Good, ConnType, OrderOK
<1>2. r.cli = "login" /\ r.srvNamed
  BY <1>1 DEF Good, OrderOK, HasKind
<1>3. /\ r2 \in ConnType /\ r2.toCli = Tail(r.toCli) /\ r2.cli = cli
      /\ r2.of = r.of /\ r2.srv = r.srv /\ r2.cliUp = r.cliUp /\ r2.srvUp = r.srvUp
      /\ r2.lost = r.lost /\ r2.cliNamed = r.cliNamed /\ r2.srvNamed = r.srvNamed
      /\ r2.list = r.list /\ r2.toSrv = r.toSrv
  BY <1>1 DEF Good, ConnType, CliState, SrvState
<1> HIDE DEF r2
<1>4. EndsOK(r2)
  BY <1>1, <1>2, <1>3 DEF Good, EndsOK, OrderOK
<1>5. OrderOK(r2)
  BY <1>1, <1>2, <1>3 DEF Good, EndsOK, OrderOK, HasKind, NameKind
<1>6. HeardOK(r2)
  BY <1>1, <1>2, <1>3 DEF Good, EndsOK, OrderOK, HeardOK, HasKind, NameKind
<1> QED
  BY <1>3, <1>4, <1>5, <1>6 DEF Good, r2

(* ... a refusal *)
LEMMA TakesRefusal ==
  ASSUME NEW r, Good(r), r.toCli # <<>>, Head(r.toCli).kind = "LoginResult",
         ~Head(r.toCli).success
  PROVE  Good([r EXCEPT !.toCli = Tail(r.toCli), !.cliUp = FALSE])
<1> DEFINE r2 == [r EXCEPT !.toCli = Tail(r.toCli), !.cliUp = FALSE]
<1>1. /\ Tail(r.toCli) \in Seq(Message) /\ Head(r.toCli) \in ToSet(r.toCli)
      /\ ToSet(r.toCli) = ToSet(Tail(r.toCli)) \cup {Head(r.toCli)}
      /\ OneResult(Tail(r.toCli))
      /\ Head(r.toCli).kind = "LoginResult" => ~HasKind(Tail(r.toCli), "LoginResult")
      /\ NamesBehind(r.toCli) => Head(r.toCli).kind \notin NameKind
      /\ NamesBehind(r.toCli) /\ Head(r.toCli).kind # "LoginResult" => NamesBehind(Tail(r.toCli))
  BY TakeSet, TakeOrder DEF Good, ConnType, OrderOK
<1>2. /\ r.cli = "login" /\ ~r.srvNamed
      /\ \A m \in ToSet(Tail(r.toCli)) : m.kind \notin NameKind
      /\ NamesBehind(Tail(r.toCli))
  <2>1. /\ r.cli = "login" /\ ~r.srvNamed
        /\ \A m \in ToSet(Tail(r.toCli)) : m.kind \notin NameKind
    BY <1>1 DEF Good, OrderOK, HasKind
  <2>2. DOMAIN Tail(r.toCli) = 1..Len(Tail(r.toCli))
    BY <1>1
  <2> QED
    BY <2>1, <2>2 DEF NamesBehind, ToSet
<1>3. /\ r2 \in ConnType /\ r2.toCli = Tail(r.toCli) /\ r2.cliUp = FALSE
      /\ r2.of = r.of /\ r2.cli = r.cli /\ r2.srv = r.srv /\ r2.srvUp = r.srvUp
      /\ r2.lost = r.lost /\ r2.cliNamed = r.cliNamed /\ r2.srvNamed = r.srvNamed
      /\ r2.list = r.list /\ r2.toSrv = r.toSrv
  BY <1>1 DEF Good, ConnType, CliState, SrvState
<1> HIDE DEF r2
<1>4. EndsOK(r2)
  BY <1>1, <1>2, <1>3 DEF Good, EndsOK, OrderOK
<1>5. OrderOK(r2)
  BY <1>1, <1>2, <1>3 DEF Good, EndsOK, OrderOK, HasKind, NameKind
<1>6. HeardOK(r2)
  BY <1>1, <1>2, <1>3 DEF Good, EndsOK, OrderOK, HeardOK, HasKind, NameKind
<1> QED
  BY <1>3, <1>4, <1>5, <1>6 DEF Good, r2

(* The client takes the session for its own *)
LEMMA SetsOwn ==
  ASSUME NEW r, Good(r), r.cli = "deciding"
  PROVE  Good([r EXCEPT !.cli = "owning"])
<1> DEFINE r2 == [r EXCEPT !.cli = "owning"]
<1>3. /\ r2 \in ConnType /\ r2.cli = "owning"
      /\ r2.of = r.of /\ r2.srv = r.srv /\ r2.cliUp = r.cliUp /\ r2.srvUp = r.srvUp
      /\ r2.lost = r.lost /\ r2.cliNamed = r.cliNamed /\ r2.srvNamed = r.srvNamed
      /\ r2.list = r.list /\ r2.toCli = r.toCli /\ r2.toSrv = r.toSrv
  BY DEF Good, ConnType, CliState, SrvState
<1> HIDE DEF r2
<1>4. EndsOK(r2)
  BY <1>3 DEF Good, EndsOK, OrderOK
<1>5. OrderOK(r2)
  BY <1>3 DEF Good, EndsOK, OrderOK, HasKind, NameKind
<1>6. HeardOK(r2)
  BY <1>3 DEF Good, EndsOK, OrderOK, HeardOK, HasKind, NameKind
<1> QED
  BY <1>3, <1>4, <1>5, <1>6 DEF Good, r2

(* ... and names its end *)
LEMMA SetsName ==
  ASSUME NEW r, Good(r), r.cli = "owning", NEW q, q = r.toSrv \o <<[kind |-> "ModuleName"]>>
           \/ (q = r.toSrv /\ ~(r.cliUp /\ r.srvUp /\ ~r.lost))
  PROVE  Good([r EXCEPT !.toSrv = q, !.cli = "session", !.cliNamed = TRUE])
<1> DEFINE r2 == [r EXCEPT !.toSrv = q, !.cli = "session", !.cliNamed = TRUE]
<1>1. /\ q \in Seq(Message)
      /\ HasKind(q, "ModuleName") \/ (q = r.toSrv /\ ~(r.cliUp /\ r.srvUp /\ ~r.lost))
  <2>1. [kind |-> "ModuleName"] \in Message
    BY DEF Message
  <2>2. r.toSrv \in Seq(Message)
    BY DEF Good, ConnType
  <2>3. CASE q = r.toSrv \o <<[kind |-> "ModuleName"]>>
    <3>1. q \in Seq(Message) /\ [kind |-> "ModuleName"] \in ToSet(q)
      BY <2>1, <2>2, <2>3, PutSet
    <3> QED
      BY <3>1 DEF HasKind
  <2> QED
    BY <2>2, <2>3
<1>3. /\ r2 \in ConnType /\ r2.toSrv = q /\ r2.cli = "session" /\ r2.cliNamed = TRUE
      /\ r2.of = r.of /\ r2.srv = r.srv /\ r2.cliUp = r.cliUp /\ r2.srvUp = r.srvUp
      /\ r2.lost = r.lost /\ r2.srvNamed = r.srvNamed /\ r2.list = r.list
      /\ r2.toCli = r.toCli
  BY <1>1 DEF Good, ConnType, CliState, SrvState
<1> HIDE DEF r2
<1>4. EndsOK(r2)
  BY <1>1, <1>3 DEF Good, EndsOK, OrderOK
<1>5. OrderOK(r2)
  BY <1>1, <1>3 DEF Good, EndsOK, OrderOK, HasKind, NameKind
<1>6. HeardOK(r2)
  BY <1>1, <1>3 DEF Good, EndsOK, OrderOK, HeardOK, HasKind, NameKind
<1> QED
  BY <1>3, <1>4, <1>5, <1>6 DEF Good, r2

(* The thread of the client ends, and its end is reported *)
LEMMA EndsClient ==
  ASSUME NEW r, Good(r), r.cli # "none", ~(r.cliUp /\ r.srvUp /\ ~r.lost)
  PROVE  Good([r EXCEPT !.cli = "stopped", !.cliUp = FALSE, !.toCli = <<>>])
<1> DEFINE r2 == [r EXCEPT !.cli = "stopped", !.cliUp = FALSE, !.toCli = <<>>]
<1>1. <<>> \in Seq(Message) /\ ToSet(<<>>) = {} /\ OneResult(<<>>) /\ NamesBehind(<<>>)
  BY EmptySet DEF OneResult, NamesBehind
<1>3. /\ r2 \in ConnType /\ r2.cli = "stopped" /\ r2.cliUp = FALSE /\ r2.toCli = <<>>
      /\ r2.of = r.of /\ r2.srv = r.srv /\ r2.srvUp = r.srvUp /\ r2.lost = r.lost
      /\ r2.cliNamed = r.cliNamed /\ r2.srvNamed = r.srvNamed /\ r2.list = r.list
      /\ r2.toSrv = r.toSrv
  BY <1>1 DEF Good, ConnType, CliState, SrvState
<1> HIDE DEF r2
<1>4. EndsOK(r2)
  BY <1>1, <1>3 DEF Good, EndsOK, OrderOK
<1>5. OrderOK(r2)
  BY <1>1, <1>3 DEF Good, EndsOK, OrderOK, HasKind, NameKind
<1>6. HeardOK(r2)
  BY <1>1, <1>3 DEF Good, EndsOK, OrderOK, HeardOK, HasKind, NameKind
<1> QED
  BY <1>3, <1>4, <1>5, <1>6 DEF Good, r2

LEMMA ReportsClient ==
  ASSUME NEW r, Good(r), r.cli = "stopped"
  PROVE  Good([r EXCEPT !.cli = "gone"])
<1> DEFINE r2 == [r EXCEPT !.cli = "gone"]
<1>3. /\ r2 \in ConnType /\ r2.cli = "gone"
      /\ r2.of = r.of /\ r2.srv = r.srv /\ r2.cliUp = r.cliUp /\ r2.srvUp = r.srvUp
      /\ r2.lost = r.lost /\ r2.cliNamed = r.cliNamed /\ r2.srvNamed = r.srvNamed
      /\ r2.list = r.list /\ r2.toCli = r.toCli /\ r2.toSrv = r.toSrv
  BY DEF Good, ConnType, CliState, SrvState
<1> HIDE DEF r2
<1>4. EndsOK(r2)
  BY <1>3 DEF Good, EndsOK, OrderOK
<1>5. OrderOK(r2)
  BY <1>3 DEF Good, EndsOK, OrderOK, HasKind, NameKind
<1>6. HeardOK(r2)
  BY <1>3 DEF Good, EndsOK, OrderOK, HeardOK, HasKind, NameKind
<1> QED
  BY <1>3, <1>4, <1>5, <1>6 DEF Good, r2

(* The same of the server *)
LEMMA EndsServer ==
  ASSUME NEW r, Good(r), r.srv # "none"
  PROVE  Good([r EXCEPT !.srv = "stopped", !.srvUp = FALSE, !.toSrv = <<>>])
<1> DEFINE r2 == [r EXCEPT !.srv = "stopped", !.srvUp = FALSE, !.toSrv = <<>>]
<1>1. <<>> \in Seq(Message) /\ ToSet(<<>>) = {}
  BY EmptySet
<1>3. /\ r2 \in ConnType /\ r2.srv = "stopped" /\ r2.srvUp = FALSE /\ r2.toSrv = <<>>
      /\ r2.of = r.of /\ r2.cli = r.cli /\ r2.cliUp = r.cliUp /\ r2.lost = r.lost
      /\ r2.cliNamed = r.cliNamed /\ r2.srvNamed = r.srvNamed /\ r2.list = r.list
      /\ r2.toCli = r.toCli
  BY <1>1 DEF Good, ConnType, CliState, SrvState
<1> HIDE DEF r2
<1>4. EndsOK(r2)
  BY <1>1, <1>3 DEF Good, EndsOK, OrderOK
<1>5. OrderOK(r2)
  BY <1>1, <1>3 DEF Good, EndsOK, OrderOK, HasKind, NameKind
<1>6. HeardOK(r2)
  BY <1>1, <1>3 DEF Good, EndsOK, OrderOK, HeardOK, HasKind, NameKind
<1> QED
  BY <1>3, <1>4, <1>5, <1>6 DEF Good, r2

LEMMA ReportsServer ==
  ASSUME NEW r, Good(r), r.srv = "stopped"
  PROVE  Good([r EXCEPT !.srv = "gone"])
<1> DEFINE r2 == [r EXCEPT !.srv = "gone"]
<1>3. /\ r2 \in ConnType /\ r2.srv = "gone"
      /\ r2.of = r.of /\ r2.cli = r.cli /\ r2.cliUp = r.cliUp /\ r2.srvUp = r.srvUp
      /\ r2.lost = r.lost /\ r2.cliNamed = r.cliNamed /\ r2.srvNamed = r.srvNamed
      /\ r2.list = r.list /\ r2.toCli = r.toCli /\ r2.toSrv = r.toSrv
  BY DEF Good, ConnType, CliState, SrvState
<1> HIDE DEF r2
<1>4. EndsOK(r2)
  BY <1>3 DEF Good, EndsOK, OrderOK
<1>5. OrderOK(r2)
  BY <1>3 DEF Good, EndsOK, OrderOK, HasKind, NameKind
<1>6. HeardOK(r2)
  BY <1>3 DEF Good, EndsOK, OrderOK, HeardOK, HasKind, NameKind
<1> QED
  BY <1>3, <1>4, <1>5, <1>6 DEF Good, r2

(* The server takes the name of the client *)
LEMMA TakesClientName ==
  ASSUME NEW r, Good(r), r.srv = "session", r.toSrv # <<>>, NEW names \in SUBSET Conn
  PROVE  Good([r EXCEPT !.toSrv = Tail(r.toSrv), !.srv = "naming", !.list = names])
<1> DEFINE r2 == [r EXCEPT !.toSrv = Tail(r.toSrv), !.srv = "naming", !.list = names]
<1>1. /\ Tail(r.toSrv) \in Seq(Message) /\ ToSet(Tail(r.toSrv)) \subseteq ToSet(r.toSrv)
  BY TakeSet DEF Good, ConnType
<1>3. /\ r2 \in ConnType /\ r2.toSrv = Tail(r.toSrv) /\ r2.srv = "naming" /\ r2.list = names
      /\ r2.of = r.of /\ r2.cli = r.cli /\ r2.cliUp = r.cliUp /\ r2.srvUp = r.srvUp
      /\ r2.lost = r.lost /\ r2.cliNamed = r.cliNamed /\ r2.srvNamed = r.srvNamed
      /\ r2.toCli = r.toCli
  BY <1>1 DEF Good, ConnType, CliState, SrvState
<1> HIDE DEF r2
<1>4. EndsOK(r2)
  BY <1>1, <1>3 DEF Good, EndsOK, OrderOK
<1>5. OrderOK(r2)
  BY <1>1, <1>3 DEF Good, EndsOK, OrderOK, HasKind, NameKind
<1>6. HeardOK(r2)
  BY <1>1, <1>3 DEF Good, EndsOK, OrderOK, HeardOK, HasKind, NameKind
<1> QED
  BY <1>3, <1>4, <1>5, <1>6 DEF Good, r2

(* Names travel behind the result as long as the client waits for it *)
LEMMA BehindResult ==
  ASSUME NEW q \in Seq(Message), NamesBehind(q), HasKind(q, "ModuleName")
  PROVE  HasKind(q, "LoginResult")
<1>1. DOMAIN q = 1..Len(q)
  OBVIOUS
<1>2. PICK i \in 1..Len(q) : q[i].kind = "ModuleName"
  BY <1>1 DEF HasKind, ToSet
<1>3. PICK j \in 1..Len(q) : q[j].kind = "LoginResult"
  BY <1>2 DEF NamesBehind, NameKind
<1> QED
  BY <1>1, <1>3 DEF HasKind, ToSet

(* The server tells the client of a name *)
LEMMA Adds ==
  ASSUME NEW r, Good(r), r.cliUp, r.srvUp, ~r.lost, NEW m \in Message,
         m.kind \in {"IPCObjectList", "AddIPCObject", "RemoveIPCObject"},
         m.kind # "RemoveIPCObject" => r.srvNamed
  PROVE  Good([r EXCEPT !.toCli = r.toCli \o <<m>>])
<1> DEFINE r2 == [r EXCEPT !.toCli = r.toCli \o <<m>>]
<1>1. /\ r.toCli \o <<m>> \in Seq(Message) /\ ToSet(r.toCli \o <<m>>) = ToSet(r.toCli) \cup {m}
      /\ OneResult(r.toCli \o <<m>>) /\ r.of # NoClient
      /\ r.cli = "login" => NamesBehind(r.toCli \o <<m>>)
  <2>1. r.toCli \in Seq(Message) /\ OneResult(r.toCli) /\ r.of # NoClient
    BY DEF Good, ConnType, OrderOK, EndsOK
  <2>2. r.cli = "login" /\ m.kind \in NameKind => HasKind(r.toCli, "LoginResult")
    BY <2>1, BehindResult DEF Good, OrderOK, HeardOK, NameKind
  <2>3. r.cli = "login" => NamesBehind(r.toCli)
    BY DEF Good, OrderOK
  <2> QED
    BY <2>1, <2>2, <2>3, PutSet, PutOrder
<1>3. /\ r2 \in ConnType /\ r2.toCli = r.toCli \o <<m>>
      /\ r2.of = r.of /\ r2.cli = r.cli /\ r2.srv = r.srv /\ r2.cliUp = r.cliUp
      /\ r2.srvUp = r.srvUp /\ r2.lost = r.lost /\ r2.cliNamed = r.cliNamed
      /\ r2.srvNamed = r.srvNamed /\ r2.list = r.list /\ r2.toSrv = r.toSrv
  BY <1>1 DEF Good, ConnType, CliState, SrvState
<1> HIDE DEF r2
<1>4. EndsOK(r2)
  BY <1>1, <1>3 DEF Good, EndsOK, OrderOK
<1>5. OrderOK(r2)
  BY <1>1, <1>3 DEF Good, EndsOK, OrderOK, HasKind, NameKind
<1>6. HeardOK(r2)
  BY <1>1, <1>3 DEF Good, EndsOK, OrderOK, HeardOK, HasKind, NameKind
<1> QED
  BY <1>3, <1>4, <1>5, <1>6 DEF Good, r2

LEMMA Tells ==
  ASSUME NEW r, Good(r), NEW m \in Message,
         m.kind \in {"IPCObjectList", "AddIPCObject", "RemoveIPCObject"},
         m.kind # "RemoveIPCObject" => r.srvNamed
  PROVE  Good(ToClient(r, <<m>>))
  BY Adds DEF ToClient

(* ... and its registration is complete *)
LEMMA Completes ==
  ASSUME NEW r, Good(r), r.srv = "naming"
  PROVE  Good([r EXCEPT !.srv = "connected", !.list = {}])
<1> DEFINE r2 == [r EXCEPT !.srv = "connected", !.list = {}]
<1>3. /\ r2 \in ConnType /\ r2.srv = "connected" /\ r2.list = {}
      /\ r2.of = r.of /\ r2.cli = r.cli /\ r2.cliUp = r.cliUp /\ r2.srvUp = r.srvUp
      /\ r2.lost = r.lost /\ r2.cliNamed = r.cliNamed /\ r2.srvNamed = r.srvNamed
      /\ r2.toCli = r.toCli /\ r2.toSrv = r.toSrv
  BY DEF Good, ConnType, CliState, SrvState
<1> HIDE DEF r2
<1>4. EndsOK(r2)
  BY <1>3 DEF Good, EndsOK, OrderOK
<1>5. OrderOK(r2)
  BY <1>3 DEF Good, EndsOK, OrderOK, HasKind, NameKind
<1>6. HeardOK(r2)
  BY <1>3 DEF Good, EndsOK, OrderOK, HeardOK, HasKind, NameKind
<1> QED
  BY <1>3, <1>4, <1>5, <1>6 DEF Good, r2

(* The server answers a login: it knows the user *)
LEMMA Admits ==
  ASSUME NEW r, Good(r), r.srv = "accepted", r.srvUp, r.toSrv # <<>>,
         NEW ok, ok = [kind |-> "LoginResult", success |-> TRUE],
         NEW name, name = [kind |-> "ModuleName"],
         NEW q, IF r.cliUp /\ ~r.lost THEN q = (r.toCli \o <<ok>>) \o <<name>> ELSE q = r.toCli
  PROVE  Good([r EXCEPT !.toCli = q, !.toSrv = Tail(r.toSrv), !.srv = "session", !.srvNamed = TRUE])
<1> DEFINE r2 == [r EXCEPT !.toCli = q, !.toSrv = Tail(r.toSrv), !.srv = "session",
                         !.srvNamed = TRUE]
<1>1. /\ Tail(r.toSrv) \in Seq(Message) /\ ToSet(Tail(r.toSrv)) \subseteq ToSet(r.toSrv)
      /\ q \in Seq(Message) /\ OneResult(q) /\ r.of # NoClient
      /\ r.cliUp => ~r.cliNamed
      /\ \A m \in ToSet(q) : m.kind = "LoginResult" => m.success /\ r.cli = "login"
      /\ r.cliUp /\ ~r.lost => HasKind(q, "ModuleName")
      /\ r.cli = "login" => NamesBehind(q)
  <2>1. /\ Tail(r.toSrv) \in Seq(Message) /\ ToSet(Tail(r.toSrv)) \subseteq ToSet(r.toSrv)
    BY TakeSet DEF Good, ConnType
  <2>2. /\ r.toCli \in Seq(Message) /\ OneResult(r.toCli) /\ r.of # NoClient
        /\ ~HasKind(r.toCli, "LoginResult") /\ ~r.srvNamed
        /\ r.cli = "login" => NamesBehind(r.toCli)
        /\ r.cliUp => r.cli = "login" /\ ~r.cliNamed
    BY DEF Good, ConnType, OrderOK, EndsOK, CliState
  <2>3. ok \in Message /\ name \in Message /\ ok.kind = "LoginResult" /\ ok.success
        /\ name.kind = "ModuleName"
    BY DEF Message
  <2> DEFINE p == r.toCli \o <<ok>>
  <2>4. /\ p \in Seq(Message) /\ ToSet(p) = ToSet(r.toCli) \cup {ok} /\ OneResult(p)
        /\ r.cli = "login" => NamesBehind(p)
    <3>1. ok.kind \notin NameKind
      BY <2>3 DEF NameKind
    <3>2. p \in Seq(Message) /\ ToSet(p) = ToSet(r.toCli) \cup {ok}
      <4>1. \A m \in Message : /\ r.toCli \o <<m>> \in Seq(Message)
                              /\ ToSet(r.toCli \o <<m>>) = ToSet(r.toCli) \cup {m}
        BY <2>2, PutSet
      <4> QED
        BY <2>3, <4>1
    <3>3. OneResult(p) /\ (r.cli = "login" => NamesBehind(p))
      BY <2>2, <2>3, <3>1, PutOrder
    <3> QED
      BY <3>2, <3>3
  <2>5. HasKind(p, "LoginResult")
    BY <2>3, <2>4 DEF HasKind
  <2> HIDE DEF p
  <2>6. /\ p \o <<name>> \in Seq(Message) /\ ToSet(p \o <<name>>) = ToSet(p) \cup {name}
        /\ OneResult(p \o <<name>>)
        /\ r.cli = "login" => NamesBehind(p \o <<name>>)
    BY <2>3, <2>4, <2>5, PutSet, PutOrder
  <2>7. CASE r.cliUp /\ ~r.lost
    <3>1. q = p \o <<name>>
      BY <2>7 DEF p
    <3>2. q \in Seq(Message) /\ ToSet(q) = ToSet(r.toCli) \cup {ok, name}
      BY <2>4, <2>6, <3>1
    <3>3. HasKind(q, "ModuleName") /\ \A m \in ToSet(q) : m.kind = "LoginResult" => m = ok
      BY <2>2, <2>3, <3>2 DEF HasKind
    <3> QED
      BY <2>1, <2>2, <2>3, <2>6, <2>7, <3>1, <3>2, <3>3
  <2>8. CASE ~(r.cliUp /\ ~r.lost)
    BY <2>1, <2>2, <2>8 DEF HasKind
  <2> QED
    BY <2>7, <2>8
<1>3. /\ r2 \in ConnType /\ r2.toCli = q /\ r2.toSrv = Tail(r.toSrv)
      /\ r2.srv = "session" /\ r2.srvNamed = TRUE
      /\ r2.of = r.of /\ r2.cli = r.cli /\ r2.cliUp = r.cliUp /\ r2.srvUp = r.srvUp
      /\ r2.lost = r.lost /\ r2.cliNamed = r.cliNamed /\ r2.list = r.list
  BY <1>1 DEF Good, ConnType, CliState, SrvState
<1> HIDE DEF r2
<1>4. EndsOK(r2)
  BY <1>1, <1>3 DEF Good, EndsOK, OrderOK
<1>5. OrderOK(r2)
  BY <1>1, <1>3 DEF Good, EndsOK, OrderOK, HasKind, NameKind
<1>6. HeardOK(r2)
  BY <1>1, <1>3 DEF Good, EndsOK, OrderOK, HeardOK, HasKind, NameKind
<1> QED
  BY <1>3, <1>4, <1>5, <1>6 DEF Good, r2

(* ... or does not *)
LEMMA Refuses ==
  ASSUME NEW r, Good(r), r.srv = "accepted", r.srvUp, r.toSrv # <<>>,
         NEW no, no = [kind |-> "LoginResult", success |-> FALSE],
         NEW q, IF r.cliUp /\ ~r.lost THEN q = r.toCli \o <<no>> ELSE q = r.toCli
  PROVE  Good([r EXCEPT !.toCli = q, !.toSrv = Tail(r.toSrv), !.srvUp = FALSE])
<1> DEFINE r2 == [r EXCEPT !.toCli = q, !.toSrv = Tail(r.toSrv), !.srvUp = FALSE]
<1>1. /\ Tail(r.toSrv) \in Seq(Message) /\ ToSet(Tail(r.toSrv)) \subseteq ToSet(r.toSrv)
      /\ q \in Seq(Message) /\ OneResult(q) /\ r.of # NoClient /\ ~r.srvNamed
      /\ \A m \in ToSet(q) : m.kind = "LoginResult" => ~m.success /\ r.cli = "login"
      /\ \A m \in ToSet(q) : m.kind \notin NameKind
      /\ r.cli = "login" => NamesBehind(q)
  <2>1. /\ Tail(r.toSrv) \in Seq(Message) /\ ToSet(Tail(r.toSrv)) \subseteq ToSet(r.toSrv)
    BY TakeSet DEF Good, ConnType
  <2>2. /\ r.toCli \in Seq(Message) /\ OneResult(r.toCli) /\ r.of # NoClient
        /\ ~HasKind(r.toCli, "LoginResult") /\ ~r.srvNamed
        /\ r.cli = "login" => NamesBehind(r.toCli)
        /\ r.cliUp => r.cli = "login"
        /\ \A m \in ToSet(r.toCli) : m.kind \notin NameKind
    BY DEF Good, ConnType, OrderOK, EndsOK, CliState
  <2>3. no \in Message /\ no.kind = "LoginResult" /\ ~no.success
    BY DEF Message
  <2>4. CASE r.cliUp /\ ~r.lost
    <3>1. /\ q \in Seq(Message) /\ ToSet(q) = ToSet(r.toCli) \cup {no} /\ OneResult(q)
          /\ r.cli = "login" => NamesBehind(q)
      <4>1. no.kind \notin NameKind /\ q = r.toCli \o <<no>>
        BY <2>3, <2>4 DEF NameKind
      <4>2. q \in Seq(Message) /\ ToSet(q) = ToSet(r.toCli) \cup {no}
        <5>1. \A m \in Message : /\ r.toCli \o <<m>> \in Seq(Message)
                                /\ ToSet(r.toCli \o <<m>>) = ToSet(r.toCli) \cup {m}
          BY <2>2, PutSet
        <5> QED
          BY <2>3, <4>1, <5>1
      <4>3. OneResult(q) /\ (r.cli = "login" => NamesBehind(q))
        BY <2>2, <2>3, <4>1, PutOrder
      <4> QED
        BY <4>2, <4>3
    <3> QED
      BY <2>1, <2>2, <2>3, <2>4, <3>1 DEF HasKind, NameKind
  <2>5. CASE ~(r.cliUp /\ ~r.lost)
    BY <2>1, <2>2, <2>5 DEF HasKind
  <2> QED
    BY <2>4, <2>5
<1>3. /\ r2 \in ConnType /\ r2.toCli = q /\ r2.toSrv = Tail(r.toSrv) /\ r2.srvUp = FALSE
      /\ r2.of = r.of /\ r2.cli = r.cli /\ r2.srv = r.srv /\ r2.cliUp = r.cliUp
      /\ r2.lost = r.lost /\ r2.cliNamed = r.cliNamed /\ r2.srvNamed = r.srvNamed
      /\ r2.list = r.list
  BY <1>1 DEF Good, ConnType, CliState, SrvState
<1> HIDE DEF r2
<1>4. EndsOK(r2)
  BY <1>1, <1>3 DEF Good, EndsOK, OrderOK
<1>5. OrderOK(r2)
  BY <1>1, <1>3 DEF Good, EndsOK, OrderOK, HasKind, NameKind
<1>6. HeardOK(r2)
  BY <1>1, <1>3 DEF Good, EndsOK, OrderOK, HeardOK, HasKind, NameKind
<1> QED
  BY <1>3, <1>4, <1>5, <1>6 DEF Good, r2

(* A connection is made *)
LEMMA Makes ==
  ASSUME NEW c \in Client, NEW cred \in Credential
  PROVE  Good(OnStart(SetPassword(
           [NoConn EXCEPT !.of = c, !.srv = "accepted", !.cliUp = TRUE, !.srvUp = TRUE], cred)))
<1> DEFINE r2 == OnStart(SetPassword(
                   [NoConn EXCEPT !.of = c, !.srv = "accepted", !.cliUp = TRUE, !.srvUp = TRUE],
                   cred))
<1>1. /\ <<>> \in Seq(Message) /\ ToSet(<<>>) = {} /\ OneResult(<<>>) /\ NamesBehind(<<>>)
      /\ <<[kind |-> "Login"]>> \in Seq(Message)
      /\ ~HasKind(<<[kind |-> "Login"]>>, "ModuleName")
  BY EmptySet DEF OneResult, NamesBehind, Message, HasKind, ToSet
<1>2. /\ r2.of = c /\ r2.cred = cred /\ r2.cli = "login" /\ r2.srv = "accepted" /\ r2.cliUp /\ r2.srvUp
      /\ ~r2.lost /\ ~r2.listed /\ ~r2.cliNamed /\ ~r2.srvNamed /\ r2.list = {}
      /\ r2.toCli = <<>> /\ r2.toSrv = <<[kind |-> "Login"]>>
  BY DEF OnStart, SetPassword, NoConn
<1>3. r2 \in ConnType
  BY <1>1 DEF OnStart, SetPassword, NoConn, ConnType, CliState, SrvState
<1>4. c # NoClient
  BY ClientServerAssumption
<1> HIDE DEF r2
<1>5. EndsOK(r2) /\ OrderOK(r2) /\ HeardOK(r2)
  BY <1>1, <1>2, <1>4 DEF EndsOK, OrderOK, HeardOK, HasKind
<1> QED
  BY <1>3, <1>5 DEF Good, r2

LEMMA NoConnGood == Good(NoConn)
<1>1. (CHOOSE c \in Credential : TRUE) \in Credential
  <2>1. PICK u \in User, p \in Password : TRUE
    BY ClientServerAssumption
  <2>2. <<u, p>> \in Credential
    BY <2>1 DEF Credential
  <2> QED
    BY <2>2
<1>2. <<>> \in Seq(Message) /\ ToSet(<<>>) = {} /\ OneResult(<<>>)
  BY EmptySet DEF OneResult
<1>3. NoConn \in ConnType
  BY <1>1, <1>2 DEF NoConn, ConnType, CliState, SrvState
<1>4. EndsOK(NoConn) /\ OrderOK(NoConn) /\ HeardOK(NoConn)
  BY <1>2 DEF NoConn, EndsOK, OrderOK, HeardOK, HasKind
<1> QED
  BY <1>3, <1>4 DEF Good

-----------------------------------------------------------------------------
(* A connection that was made stays what it is, and nothing new of a name is said on it *)
Follows(r2, r) ==
  /\ r.of # NoClient => r2.of = r.of /\ r2.cred = r.cred
  /\ r.srvNamed => r2.srvNamed
  /\ r.cliNamed => r2.cliNamed
  /\ r.srv \in {"stopped", "gone"} => r2.srv \in {"stopped", "gone"}

Silent(r2, r) ==
  /\ r2.list \subseteq r.list
  /\ \A m \in ToSet(r2.toCli) : m \in ToSet(r.toCli) \/ m.kind \in {"LoginResult", "ModuleName"}

(* One connection changes *)
Moves(k, r2) ==
  /\ conn' = [conn EXCEPT ![k] = r2]
  /\ Good(r2) /\ Follows(r2, conn[k]) /\ Silent(r2, conn[k])

(* No connection says anything new of a name *)
AllMove ==
  /\ conn' \in [Conn -> ConnType]
  /\ \A j \in Conn : Good(conn'[j]) /\ Follows(conn'[j], conn[j]) /\ Silent(conn'[j], conn[j])

LEMMA MovesOne ==
  ASSUME ConnInv, NEW k \in Conn, NEW r2, Moves(k, r2)
  PROVE  /\ conn'[k] = r2 /\ \A j \in Conn \ {k} : conn'[j] = conn[j]
         /\ AllMove
<1>1. conn'[k] = r2 /\ \A j \in Conn \ {k} : conn'[j] = conn[j]
  BY DEF Moves, ConnInv
<1>2. \A j \in Conn : Follows(conn[j], conn[j]) /\ Silent(conn[j], conn[j])
  BY DEF Follows, Silent
<1>3. \A j \in Conn : Good(conn'[j]) /\ Follows(conn'[j], conn[j]) /\ Silent(conn'[j], conn[j])
  <2> SUFFICES ASSUME NEW j \in Conn
               PROVE  Good(conn'[j]) /\ Follows(conn'[j], conn[j]) /\ Silent(conn'[j], conn[j])
    OBVIOUS
  <2>1. CASE j = k
    BY <1>1, <2>1 DEF Moves
  <2>2. CASE j # k
    <3>1. conn'[j] = conn[j]
      BY <1>1, <2>2
    <3> QED
      BY <1>2, <3>1 DEF ConnInv
  <2> QED
    BY <2>1, <2>2
<1>4. conn' \in [Conn -> ConnType]
  BY DEF Moves, ConnInv, Good
<1> QED
  BY <1>1, <1>3, <1>4 DEF AllMove

(* What was said of names stays true *)
LEMMA NamesKept ==
  ASSUME ConnInv, \A j \in Conn : Good(conn'[j]) /\ Follows(conn'[j], conn[j]),
         \A j \in Conn :
           /\ \A n \in conn'[j].list : n \in conn[j].list \/ SameUser(n, j)'
           /\ \A m \in ToSet(conn'[j].toCli) : m \in ToSet(conn[j].toCli) \/ Says(m, j)'
  PROVE  NamesOK'
<1>1. ASSUME NEW n \in Conn, NEW k \in Conn, SameUser(n, k), conn[k].of # NoClient
      PROVE  SameUser(n, k)'
  <2>1. conn[n].of # NoClient
    BY <1>1 DEF SameUser, ConnInv, Good, EndsOK
  <2> QED
    BY <1>1, <2>1 DEF SameUser, UserOf, Follows
<1> SUFFICES ASSUME NEW k \in Conn
             PROVE  /\ \A n \in conn'[k].list : SameUser(n, k)'
                    /\ \A m \in ToSet(conn'[k].toCli) : Says(m, k)'
  BY DEF NamesOK
<1>2. conn[k] \in ConnType /\ conn[k].list \subseteq Conn
  BY DEF ConnInv, ConnType
<1>4. conn[k].of = NoClient => ToSet(conn[k].toCli) = {} /\ conn[k].list = {}
  BY EmptySet DEF ConnInv, Good, EndsOK
<1>5. \A n \in conn[k].list : SameUser(n, k)'
  BY <1>1, <1>2, <1>4 DEF ConnInv, NamesOK
<1>6. ASSUME NEW m \in ToSet(conn[k].toCli) PROVE Says(m, k)'
  <2>1. m \in Message /\ conn[k].of # NoClient
    <3>1. conn[k].toCli \in Seq(Message)
      BY <1>2 DEF ConnType
    <3>2. ToSet(conn[k].toCli) \subseteq Message
      BY <3>1, SetOf
    <3> QED
      BY <1>4, <1>6, <3>2
  <2>2. Says(m, k)
    BY <1>6 DEF ConnInv, NamesOK
  <2>3. /\ m.kind = "AddIPCObject" => m.name \in Conn
        /\ m.kind = "IPCObjectList" => m.names \subseteq Conn
        /\ m.kind = "RemoveIPCObject" => m.name \in Conn
    BY <2>1 DEF Message
  <2>4. m.kind = "RemoveIPCObject" => conn'[m.name].srv \in {"stopped", "gone"}
    BY <2>2, <2>3 DEF Says, Follows
  <2> QED
    BY <1>1, <2>1, <2>2, <2>3, <2>4 DEF Says
<1> QED
  BY <1>5, <1>6

LEMMA SilentNames ==
  ASSUME ConnInv, AllMove
  PROVE  NamesOK'
<1>1. ASSUME NEW j \in Conn, NEW m \in ToSet(conn'[j].toCli)
      PROVE  m \in ToSet(conn[j].toCli) \/ Says(m, j)'
  <2>1. CASE m.kind \in {"LoginResult", "ModuleName"}
    BY <2>1 DEF Says
  <2> QED
    BY <2>1 DEF AllMove, Silent
<1>2. \A j \in Conn : \A n \in conn'[j].list : n \in conn[j].list
  BY DEF AllMove, Silent
<1> QED
  BY <1>1, <1>2, NamesKept DEF AllMove

(* What each step makes of its connection *)
LEMMA AddConnectionMoves ==
  ASSUME ConnInv, NEW k \in Conn, AddConnection(k)
  PROVE  Moves(k, [conn[k] EXCEPT !.listed = TRUE])
<1> DEFINE r == conn[k]
           r2 == [r EXCEPT !.listed = TRUE]
<1>1. Good(r) /\ r \in ConnType
  BY DEF ConnInv
<1>2. conn' = [conn EXCEPT ![k] = r2]
  BY <1>1 DEF AddConnection, ConnType
<1>3. Good(r2)
  <2> HIDE DEF r
  <2> QED
    BY <1>1, <1>2, ListsIt
<1>4. Follows(r2, r) /\ Silent(r2, r)
  BY <1>1, <1>2 DEF ConnType, Follows, Silent
<1> QED
  BY <1>2, <1>3, <1>4 DEF Moves

LEMMA OnLoginFailureMoves ==
  ASSUME ConnInv, NEW k \in Conn, OnLoginFailure(k)
  PROVE  Moves(k, [conn[k] EXCEPT !.toCli = Tail(conn[k].toCli), !.cliUp = FALSE])
<1> DEFINE r == conn[k]
           r2 == [r EXCEPT !.toCli = Tail(r.toCli), !.cliUp = FALSE]
<1>1. Good(r) /\ r \in ConnType
  BY DEF ConnInv
<1>2. conn' = [conn EXCEPT ![k] = r2]
      /\ r.toCli # <<>> /\ Head(r.toCli).kind = "LoginResult" /\ ~Head(r.toCli).success
  BY <1>1 DEF OnLoginFailure, Received, Taken, ConnType
<1>5. \A m \in ToSet(Tail(r.toCli)) : m \in ToSet(r.toCli)
  BY <1>1, <1>2, TakeSet DEF ConnType
<1>3. Good(r2)
  <2> HIDE DEF r
  <2> QED
    BY <1>1, <1>2, TakesRefusal
<1>4. Follows(r2, r) /\ Silent(r2, r)
  BY <1>1, <1>2, <1>5 DEF ConnType, Follows, Silent
<1> QED
  BY <1>2, <1>3, <1>4 DEF Moves

LEMMA OnLoginResultMoves ==
  ASSUME ConnInv, NEW k \in Conn, OnLoginResult(k)
  PROVE  Moves(k, [conn[k] EXCEPT !.toCli = Tail(conn[k].toCli), !.cli = "deciding"])
<1> DEFINE r == conn[k]
           r2 == [r EXCEPT !.toCli = Tail(r.toCli), !.cli = "deciding"]
<1>1. Good(r) /\ r \in ConnType
  BY DEF ConnInv
<1>2. conn' = [conn EXCEPT ![k] = r2]
      /\ r.toCli # <<>> /\ Head(r.toCli).kind = "LoginResult" /\ Head(r.toCli).success
  BY <1>1 DEF OnLoginResult, Received, Taken, ConnType
<1>5. \A m \in ToSet(Tail(r.toCli)) : m \in ToSet(r.toCli)
  BY <1>1, <1>2, TakeSet DEF ConnType
<1>3. Good(r2)
  <2> HIDE DEF r
  <2> QED
    BY <1>1, <1>2, TakesResult
<1>4. Follows(r2, r) /\ Silent(r2, r)
  BY <1>1, <1>2, <1>5 DEF ConnType, Follows, Silent
<1> QED
  BY <1>2, <1>3, <1>4 DEF Moves

LEMMA SetOwnSessionMoves ==
  ASSUME ConnInv, NEW k \in Conn, SetOwnSession(k)
  PROVE  Moves(k, [conn[k] EXCEPT !.cli = "owning"])
<1> DEFINE r == conn[k]
           r2 == [r EXCEPT !.cli = "owning"]
<1>1. Good(r) /\ r \in ConnType
  BY DEF ConnInv
<1>2. conn' = [conn EXCEPT ![k] = r2] /\ r.cli = "deciding"
  BY <1>1 DEF SetOwnSession, ConnType
<1>3. Good(r2)
  <2> HIDE DEF r
  <2> QED
    BY <1>1, <1>2, SetsOwn
<1>4. Follows(r2, r) /\ Silent(r2, r)
  BY <1>1, <1>2 DEF ConnType, Follows, Silent
<1> QED
  BY <1>2, <1>3, <1>4 DEF Moves

LEMMA OnServerNameMoves ==
  ASSUME ConnInv, NEW k \in Conn, OnServerName(k)
  PROVE  Moves(k, [conn[k] EXCEPT !.toCli = Tail(conn[k].toCli), !.cli = "connected"])
<1> DEFINE r == conn[k]
           r2 == [r EXCEPT !.toCli = Tail(r.toCli), !.cli = "connected"]
<1>1. Good(r) /\ r \in ConnType
  BY DEF ConnInv
<1>2. conn' = [conn EXCEPT ![k] = r2]
      /\ r.toCli # <<>> /\ Head(r.toCli).kind = "ModuleName"
      /\ r.cli \in {"login", "session", "connected"}
  BY <1>1 DEF OnServerName, Received, Taken, ConnType
<1>5. \A m \in ToSet(Tail(r.toCli)) : m \in ToSet(r.toCli)
  BY <1>1, <1>2, TakeSet DEF ConnType
<1>3. Good(r2)
  <2> HIDE DEF r
  <2> QED
    BY <1>1, <1>2, TakesName
<1>4. Follows(r2, r) /\ Silent(r2, r)
  BY <1>1, <1>2, <1>5 DEF ConnType, Follows, Silent
<1> QED
  BY <1>2, <1>3, <1>4 DEF Moves

LEMMA OnIPCObjectMoves ==
  ASSUME ConnInv, NEW k \in Conn, OnIPCObject(k)
  PROVE  Moves(k, [conn[k] EXCEPT !.toCli = Tail(conn[k].toCli), !.cli = conn[k].cli])
<1> DEFINE r == conn[k]
           r2 == [r EXCEPT !.toCli = Tail(r.toCli), !.cli = r.cli]
<1>1. Good(r) /\ r \in ConnType
  BY DEF ConnInv
<1>2. conn' = [conn EXCEPT ![k] = r2]
      /\ r.toCli # <<>> /\ Head(r.toCli).kind \notin {"LoginResult", "ModuleName"}
      /\ r.cli \in {"login", "session", "connected"}
  BY <1>1 DEF OnIPCObject, Received, Taken, ConnType
<1>5. \A m \in ToSet(Tail(r.toCli)) : m \in ToSet(r.toCli)
  BY <1>1, <1>2, TakeSet DEF ConnType
<1>3. Good(r2)
  <2> HIDE DEF r
  <2> QED
    BY <1>1, <1>2, TakesName
<1>4. Follows(r2, r) /\ Silent(r2, r)
  BY <1>1, <1>2, <1>5 DEF ConnType, Follows, Silent
<1> QED
  BY <1>2, <1>3, <1>4 DEF Moves

LEMMA ClientEndsMoves ==
  ASSUME ConnInv, NEW k \in Conn, ClientEnds(k)
  PROVE  Moves(k, [conn[k] EXCEPT !.cli = "stopped", !.cliUp = FALSE, !.toCli = <<>>])
<1> DEFINE r == conn[k]
           r2 == [r EXCEPT !.cli = "stopped", !.cliUp = FALSE, !.toCli = <<>>]
<1>1. Good(r) /\ r \in ConnType
  BY DEF ConnInv
<1>2. conn' = [conn EXCEPT ![k] = r2] /\ r.cli # "none" /\ ~(r.cliUp /\ r.srvUp /\ ~r.lost)
  BY <1>1 DEF ClientEnds, Open, ConnType
<1>5. ToSet(<<>>) = {}
  BY EmptySet
<1>3. Good(r2)
  <2> HIDE DEF r
  <2> QED
    BY <1>1, <1>2, EndsClient
<1>4. Follows(r2, r) /\ Silent(r2, r)
  BY <1>1, <1>2, <1>5 DEF ConnType, Follows, Silent
<1> QED
  BY <1>2, <1>3, <1>4 DEF Moves

LEMMA OnServerDisconnectedMoves ==
  ASSUME ConnInv, NEW k \in Conn, OnServerDisconnected(k)
  PROVE  Moves(k, [conn[k] EXCEPT !.cli = "gone"])
<1> DEFINE r == conn[k]
           r2 == [r EXCEPT !.cli = "gone"]
<1>1. Good(r) /\ r \in ConnType
  BY DEF ConnInv
<1>2. conn' = [conn EXCEPT ![k] = r2] /\ r.cli = "stopped"
  BY <1>1 DEF OnServerDisconnected, ConnType
<1>3. Good(r2)
  <2> HIDE DEF r
  <2> QED
    BY <1>1, <1>2, ReportsClient
<1>4. Follows(r2, r) /\ Silent(r2, r)
  BY <1>1, <1>2 DEF ConnType, Follows, Silent
<1> QED
  BY <1>2, <1>3, <1>4 DEF Moves

LEMMA OnClientDisconnectedMoves ==
  ASSUME ConnInv, NEW k \in Conn, OnClientDisconnected(k)
  PROVE  Moves(k, [conn[k] EXCEPT !.srv = "gone"])
<1> DEFINE r == conn[k]
           r2 == [r EXCEPT !.srv = "gone"]
<1>1. Good(r) /\ r \in ConnType
  BY DEF ConnInv
<1>2. conn' = [conn EXCEPT ![k] = r2] /\ r.srv = "stopped"
  BY <1>1 DEF OnClientDisconnected, ConnType
<1>3. Good(r2)
  <2> HIDE DEF r
  <2> QED
    BY <1>1, <1>2, ReportsServer
<1>4. Follows(r2, r) /\ Silent(r2, r)
  BY <1>1, <1>2 DEF ConnType, Follows, Silent
<1> QED
  BY <1>2, <1>3, <1>4 DEF Moves

LEMMA DisconnectFromClientMoves ==
  ASSUME ConnInv, NEW k \in Conn, DisconnectFromClient(k)
  PROVE  Moves(k, [conn[k] EXCEPT !.srvUp = FALSE])
<1> DEFINE r == conn[k]
           r2 == [r EXCEPT !.srvUp = FALSE]
<1>1. Good(r) /\ r \in ConnType
  BY DEF ConnInv
<1>2. conn' = [conn EXCEPT ![k] = r2]
  BY <1>1 DEF DisconnectFromClient, ConnType
<1>3. Good(r2)
  <2> HIDE DEF r
  <2> QED
    BY <1>1, <1>2, ShutsServer
<1>4. Follows(r2, r) /\ Silent(r2, r)
  BY <1>1, <1>2 DEF ConnType, Follows, Silent
<1> QED
  BY <1>2, <1>3, <1>4 DEF Moves

LEMMA LoseMoves ==
  ASSUME ConnInv, NEW k \in Conn, Lose(k)
  PROVE  Moves(k, [conn[k] EXCEPT !.lost = TRUE])
<1> DEFINE r == conn[k]
           r2 == [r EXCEPT !.lost = TRUE]
<1>1. Good(r) /\ r \in ConnType
  BY DEF ConnInv
<1>2. conn' = [conn EXCEPT ![k] = r2]
  BY <1>1 DEF Lose, ConnType
<1>3. Good(r2)
  <2> HIDE DEF r
  <2> QED
    BY <1>1, <1>2, LosesIt
<1>4. Follows(r2, r) /\ Silent(r2, r)
  BY <1>1, <1>2 DEF ConnType, Follows, Silent
<1> QED
  BY <1>2, <1>3, <1>4 DEF Moves

LEMMA SetSessionMoves ==
  ASSUME ConnInv, NEW k \in Conn, SetSession(k)
  PROVE  \E q : Moves(k, [conn[k] EXCEPT !.toSrv = q, !.cli = "session", !.cliNamed = TRUE])
<1> DEFINE r == conn[k]
           q == IF r.cliUp /\ r.srvUp /\ ~r.lost THEN r.toSrv \o <<[kind |-> "ModuleName"]>>
                ELSE r.toSrv
           r2 == [r EXCEPT !.toSrv = q, !.cli = "session", !.cliNamed = TRUE]
<1>1. Good(r) /\ r \in ConnType
  BY DEF ConnInv
<1>2. conn' = [conn EXCEPT ![k] = r2] /\ r.cli = "owning"
  BY <1>1 DEF SetSession, Sent, Open, ConnType
<1>3. Good(r2)
  <2> HIDE DEF r
  <2> QED
    BY <1>1, <1>2, SetsName
<1>4. Follows(r2, r) /\ Silent(r2, r)
  BY <1>1, <1>2 DEF ConnType, Follows, Silent
<1>5. Moves(k, r2)
  BY <1>2, <1>3, <1>4 DEF Moves
<1> QED
  BY <1>5

(* OnLogin, with both its answers *)
LEMMA OnLoginMoves ==
  ASSUME ConnInv, NEW k \in Conn, OnLogin(k)
  PROVE  /\ conn[k].srv = "accepted" /\ conn[k].srvUp
         /\ \E q, p :
              \/ Moves(k, [conn[k] EXCEPT !.toCli = q, !.toSrv = p, !.srv = "session",
                                          !.srvNamed = TRUE])
              \/ Moves(k, [conn[k] EXCEPT !.toCli = q, !.toSrv = p, !.srvUp = FALSE])
<1> DEFINE r == conn[k]
           open == r.cliUp /\ ~r.lost
           p == Tail(r.toSrv)
           ok == [kind |-> "LoginResult", success |-> TRUE]
           no == [kind |-> "LoginResult", success |-> FALSE]
           name == [kind |-> "ModuleName"]
           q1 == IF open THEN (r.toCli \o <<ok>>) \o <<name>> ELSE r.toCli
           q2 == IF open THEN r.toCli \o <<no>> ELSE r.toCli
           r1 == [r EXCEPT !.toCli = q1, !.toSrv = p, !.srv = "session", !.srvNamed = TRUE]
           r2 == [r EXCEPT !.toCli = q2, !.toSrv = p, !.srvUp = FALSE]
<1>1. Good(r) /\ r \in ConnType /\ r.toCli \in Seq(Message)
  BY DEF ConnInv, ConnType
<1>2. r.srv = "accepted" /\ r.srvUp /\ r.toSrv # <<>>
  BY DEF OnLogin
<1>3. ok \in Message /\ no \in Message /\ name \in Message
  BY DEF Message
<1>4. CASE LoginSucceeds(k)
  <2>1. conn' = [conn EXCEPT ![k] = [ToClient(r, <<ok>> \o <<name>>) EXCEPT
                   !.toSrv = Tail(@), !.srv = "session", !.srvNamed = TRUE]]
    BY <1>4 DEF OnLogin
  <2>2. r.toCli \o (<<ok>> \o <<name>>) = (r.toCli \o <<ok>>) \o <<name>>
    <3> HIDE DEF ok, name, r
    <3> QED
      BY <1>1, <1>3
  <2>3. [ToClient(r, <<ok>> \o <<name>>) EXCEPT !.toSrv = Tail(@), !.srv = "session",
                                                !.srvNamed = TRUE] = r1
    <3>1. CASE open
      <4>1. ToClient(r, <<ok>> \o <<name>>) = [r EXCEPT !.toCli = q1]
        BY <1>2, <2>2, <3>1 DEF ToClient
      <4> HIDE DEF q1
      <4> QED
        BY <1>1, <4>1 DEF ConnType
    <3>2. CASE ~open
      <4>1. ToClient(r, <<ok>> \o <<name>>) = r /\ q1 = r.toCli
        BY <3>2 DEF ToClient
      <4> HIDE DEF q1
      <4> QED
        BY <1>1, <4>1 DEF ConnType
    <3> QED
      BY <3>1, <3>2
  <2>4. conn' = [conn EXCEPT ![k] = r1]
    BY <2>1, <2>3
  <2>5. Good(r1)
    <3> HIDE DEF r
    <3> QED
      BY <1>1, <1>2, Admits
  <2>6. \A m \in ToSet(q1) : m \in ToSet(r.toCli) \/ m.kind \in {"LoginResult", "ModuleName"}
    <3>1. ASSUME NEW m \in Message, NEW s \in Seq(Message)
          PROVE  s \o <<m>> \in Seq(Message) /\ ToSet(s \o <<m>>) = ToSet(s) \cup {m}
      BY PutSet
    <3>2. r.toCli \o <<ok>> \in Seq(Message) /\ ToSet(r.toCli \o <<ok>>) = ToSet(r.toCli) \cup {ok}
      BY <1>1, <1>3, <3>1
    <3>3. ToSet((r.toCli \o <<ok>>) \o <<name>>) = ToSet(r.toCli \o <<ok>>) \cup {name}
      BY <1>3, <3>1, <3>2
    <3> QED
      BY <3>2, <3>3
  <2>7. Follows(r1, r) /\ Silent(r1, r)
    <3> HIDE DEF q1
    <3> QED
      BY <1>1, <1>2, <2>6 DEF ConnType, Follows, Silent
  <2>8. Moves(k, r1)
    BY <2>4, <2>5, <2>7 DEF Moves
  <2> QED
    BY <1>2, <2>8
<1>5. CASE ~LoginSucceeds(k)
  <2>1. conn' = [conn EXCEPT ![k] = [ToClient(r, <<no>>) EXCEPT
                   !.toSrv = Tail(@), !.srvUp = FALSE]]
    BY <1>5 DEF OnLogin
  <2>3. [ToClient(r, <<no>>) EXCEPT !.toSrv = Tail(@), !.srvUp = FALSE] = r2
    <3>1. CASE open
      <4>1. ToClient(r, <<no>>) = [r EXCEPT !.toCli = q2]
        BY <1>2, <3>1 DEF ToClient
      <4> HIDE DEF q2
      <4> QED
        BY <1>1, <4>1 DEF ConnType
    <3>2. CASE ~open
      <4>1. ToClient(r, <<no>>) = r /\ q2 = r.toCli
        BY <3>2 DEF ToClient
      <4> HIDE DEF q2
      <4> QED
        BY <1>1, <4>1 DEF ConnType
    <3> QED
      BY <3>1, <3>2
  <2>4. conn' = [conn EXCEPT ![k] = r2]
    BY <2>1, <2>3
  <2>5. Good(r2)
    <3> HIDE DEF r
    <3> QED
      BY <1>1, <1>2, Refuses
  <2>6. \A m \in ToSet(q2) : m \in ToSet(r.toCli) \/ m.kind \in {"LoginResult", "ModuleName"}
    <3>1. ASSUME NEW m \in Message, NEW s \in Seq(Message)
          PROVE  s \o <<m>> \in Seq(Message) /\ ToSet(s \o <<m>>) = ToSet(s) \cup {m}
      BY PutSet
    <3>2. ToSet(r.toCli \o <<no>>) = ToSet(r.toCli) \cup {no}
      BY <1>1, <1>3, <3>1
    <3> QED
      BY <3>2
  <2>7. Follows(r2, r) /\ Silent(r2, r)
    <3> HIDE DEF q2
    <3> QED
      BY <1>1, <1>2, <2>6 DEF ConnType, Follows, Silent
  <2>8. Moves(k, r2)
    BY <2>4, <2>5, <2>7 DEF Moves
  <2> QED
    BY <1>2, <2>8
<1> QED
  BY <1>4, <1>5

(* Disconnect and onLoginResult shut connections of one client *)
LEMMA Stops ==
  ASSUME ConnInv, NEW c, NEW s, NEW j \in Conn
  PROVE  LET r2 == StopConnection(c, s)[j] IN
         /\ r2 = conn[j] \/ r2 = [conn[j] EXCEPT !.cliUp = FALSE]
         /\ Good(r2) /\ Follows(r2, conn[j]) /\ Silent(r2, conn[j])
<1> DEFINE r == conn[j]
           r2 == StopConnection(c, s)[j]
<1>1. Good(r) /\ r \in ConnType
  BY DEF ConnInv
<1>2. r2 = r \/ r2 = [r EXCEPT !.cliUp = FALSE]
  BY DEF StopConnection
<1>3. CASE r2 = r
  BY <1>1, <1>3 DEF Follows, Silent
<1>4. CASE r2 = [r EXCEPT !.cliUp = FALSE]
  <2>1. Good(r2)
    <3> HIDE DEF r, r2
    <3> QED
      BY <1>1, <1>4, ShutsClient
  <2>2. Follows(r2, r) /\ Silent(r2, r)
    <3> HIDE DEF r, r2
    <3> QED
      BY <1>1, <1>4 DEF ConnType, Follows, Silent
  <2> QED
    BY <1>2, <2>1, <2>2
<1> QED
  BY <1>2, <1>3, <1>4

LEMMA DisconnectMoves ==
  ASSUME ConnInv, NEW c \in Client, Disconnect(c)
  PROVE  /\ AllMove
         /\ \A j \in Conn : conn'[j] = conn[j] \/ conn'[j] = [conn[j] EXCEPT !.cliUp = FALSE]
<1>1. conn' = StopConnection(c, m_ownSessionId[c])
  BY DEF Disconnect
<1>2. \A j \in Conn : /\ conn'[j] = conn[j] \/ conn'[j] = [conn[j] EXCEPT !.cliUp = FALSE]
                      /\ Good(conn'[j]) /\ Follows(conn'[j], conn[j]) /\ Silent(conn'[j], conn[j])
  BY <1>1, Stops
<1>3. conn' \in [Conn -> ConnType]
  BY <1>1, <1>2 DEF StopConnection, Good
<1> QED
  BY <1>2, <1>3 DEF AllMove

(* A second login: the connection and others of the client that have no session are shut *)
LEMMA OnSecondLoginMoves ==
  ASSUME ConnInv, NEW k \in Conn, OnSecondLogin(k)
  PROVE  /\ AllMove /\ conn[k].cli = "login" /\ m_ownSessionId[conn[k].of] # NoSession
         /\ \A j \in Conn \ {k} : conn'[j] = conn[j] \/ conn'[j] = [conn[j] EXCEPT !.cliUp = FALSE]
         /\ \E up \in BOOLEAN :
              conn'[k] = [conn[k] EXCEPT !.toCli = Tail(conn[k].toCli), !.cli = "owning", !.cliUp = up]
         /\ UNCHANGED <<request, m_ownSessionId, disconnecting, m_modules, m_ipcObject,
                        m_userPasswords, listener, clients, history>>
<1> DEFINE sc == StopConnection(conn[k].of, NoSession)
           r == sc[k]
           r2 == [r EXCEPT !.toCli = Tail(r.toCli), !.cli = "owning"]
<1>1. \A j \in Conn : /\ sc[j] = conn[j] \/ sc[j] = [conn[j] EXCEPT !.cliUp = FALSE]
                      /\ Good(sc[j]) /\ Follows(sc[j], conn[j]) /\ Silent(sc[j], conn[j])
  BY Stops
<1>2. DOMAIN sc = Conn
  BY DEF StopConnection
<1>3. /\ conn[k].toCli # <<>> /\ Head(conn[k].toCli).kind = "LoginResult"
      /\ Head(conn[k].toCli).success /\ m_ownSessionId[conn[k].of] # NoSession
      /\ conn' = [sc EXCEPT ![k].toCli = Tail(@), ![k].cli = "owning"]
      /\ UNCHANGED <<request, m_ownSessionId, disconnecting, m_modules, m_ipcObject,
                     m_userPasswords, listener, clients, history>>
  BY DEF OnSecondLogin, Received
<1>4. /\ r.toCli = conn[k].toCli /\ r.cli = conn[k].cli /\ conn[k] \in ConnType /\ r \in ConnType
      /\ Good(r) /\ Follows(r, conn[k]) /\ Silent(r, conn[k])
  BY <1>1 DEF ConnInv, ConnType, Good
<1> HIDE DEF sc
<1>5. conn'[k] = r2 /\ (\A j \in Conn \ {k} : conn'[j] = sc[j]) /\ DOMAIN conn' = Conn
  BY <1>2, <1>3, <1>4 DEF ConnType
<1>6. Good(r2)
  <2> HIDE DEF r
  <2> QED
    BY <1>3, <1>4, TakesResult
<1>7. \A m \in ToSet(Tail(r.toCli)) : m \in ToSet(r.toCli)
  BY <1>3, <1>4, TakeSet DEF ConnType
<1>8. Follows(r2, conn[k]) /\ Silent(r2, conn[k])
  <2>1. /\ r2.of = r.of /\ r2.cred = r.cred /\ r2.srvNamed = r.srvNamed /\ r2.srv = r.srv
        /\ r2.cliNamed = r.cliNamed /\ r2.list = r.list /\ r2.toCli = Tail(r.toCli)
    BY <1>4 DEF ConnType
  <2> HIDE DEF r2, r
  <2> QED
    BY <1>4, <1>7, <2>1 DEF Follows, Silent
<1>9. AllMove
  <2>1. \A j \in Conn : Good(conn'[j]) /\ Follows(conn'[j], conn[j]) /\ Silent(conn'[j], conn[j])
    <3> HIDE DEF r2
    <3> QED
      BY <1>1, <1>5, <1>6, <1>8
  <2>2. conn' \in [Conn -> ConnType]
    BY <1>5, <2>1, <1>3 DEF Good
  <2> QED
    BY <2>1, <2>2 DEF AllMove
<1>10. conn[k].cli = "login"
  <2>1. Head(conn[k].toCli) \in ToSet(conn[k].toCli)
    BY <1>3, <1>4, TakeSet DEF ConnType
  <2> QED
    BY <1>3, <2>1 DEF ConnInv, Good, OrderOK, HasKind
<1>11. \E up \in BOOLEAN :
         conn'[k] = [conn[k] EXCEPT !.toCli = Tail(conn[k].toCli), !.cli = "owning", !.cliUp = up]
  <2>1. CASE sc[k] = conn[k]
    <3>1. conn'[k] = [conn[k] EXCEPT !.toCli = Tail(conn[k].toCli), !.cli = "owning",
                                     !.cliUp = conn[k].cliUp]
      BY <1>4, <1>5, <2>1 DEF ConnType
    <3>2. conn[k].cliUp \in BOOLEAN
      BY <1>4 DEF ConnType
    <3> QED
      BY <3>1, <3>2
  <2>2. CASE sc[k] = [conn[k] EXCEPT !.cliUp = FALSE]
    <3>1. conn'[k] = [conn[k] EXCEPT !.toCli = Tail(conn[k].toCli), !.cli = "owning",
                                     !.cliUp = FALSE]
      BY <1>4, <1>5, <2>2 DEF ConnType
    <3> QED
      BY <3>1
  <2> QED
    BY <1>1, <2>1, <2>2
<1> QED
  BY <1>1, <1>3, <1>5, <1>9, <1>10, <1>11

(* The fresh connection *)
New(c) == OnStart(SetPassword(
            [NoConn EXCEPT !.of = c, !.srv = "accepted", !.cliUp = TRUE, !.srvUp = TRUE],
            m_userPassword[c]))

LEMMA OnAddMoves ==
  ASSUME ConnInv, NEW c \in Client, NEW k \in Conn, OnAddClientServerConnector(c, k)
  PROVE  /\ Moves(k, New(c)) /\ conn[k].of = NoClient
         /\ New(c).of = c /\ New(c).cli = "login" /\ New(c).srv = "accepted"
         /\ ~New(c).srvNamed /\ ~New(c).cliNamed
<1>1. conn' = [conn EXCEPT ![k] = New(c)] /\ conn[k].of = NoClient
  BY DEF OnAddClientServerConnector, New
<1>2. Good(New(c))
  BY Makes DEF New, ConnInv, RestType
<1>3. /\ New(c).of = c /\ New(c).cli = "login" /\ New(c).srv = "accepted" /\ New(c).list = {}
      /\ New(c).toCli = <<>> /\ ~New(c).srvNamed /\ ~New(c).cliNamed
  BY DEF New, OnStart, SetPassword, NoConn
<1>4. Good(conn[k])
  BY DEF ConnInv
<1>5. Follows(New(c), conn[k])
  BY <1>1, <1>3, <1>4 DEF Follows, Good, EndsOK
<1>6. Silent(New(c), conn[k])
  BY <1>3, EmptySet DEF Silent
<1> QED
  BY <1>1, <1>2, <1>3, <1>5, <1>6 DEF Moves

(* What toMessage leaves of a connection *)
LEMMA Told1 ==
  ASSUME NEW r, r \in ConnType, NEW m \in Message
  PROVE  LET r2 == ToClient(r, <<m>>) IN
         /\ r2.of = r.of /\ r2.cred = r.cred /\ r2.cli = r.cli /\ r2.srv = r.srv
         /\ r2.cliUp = r.cliUp /\ r2.srvUp = r.srvUp /\ r2.lost = r.lost /\ r2.listed = r.listed
         /\ r2.cliNamed = r.cliNamed /\ r2.srvNamed = r.srvNamed /\ r2.list = r.list
         /\ r2.toSrv = r.toSrv /\ r2 \in ConnType
         /\ ToSet(r.toCli) \subseteq ToSet(r2.toCli)
         /\ \A n \in ToSet(r2.toCli) : n \in ToSet(r.toCli) \/ n = m
         /\ r.cliUp /\ r.srvUp /\ ~r.lost => m \in ToSet(r2.toCli)
<1>1. r.toCli \in Seq(Message)
  BY DEF ConnType
<1>2. r.toCli \o <<m>> \in Seq(Message) /\ ToSet(r.toCli \o <<m>>) = ToSet(r.toCli) \cup {m}
  BY <1>1, PutSet
<1>3. CASE r.cliUp /\ r.srvUp /\ ~r.lost
  <2> DEFINE q == r.toCli \o <<m>>
  <2>1. ToClient(r, <<m>>) = [r EXCEPT !.toCli = q]
    BY <1>3 DEF ToClient
  <2>2. q \in Seq(Message) /\ ToSet(q) = ToSet(r.toCli) \cup {m}
    BY <1>2
  <2> HIDE DEF q
  <2> QED
    BY <2>1, <2>2 DEF ConnType
<1>4. CASE ~(r.cliUp /\ r.srvUp /\ ~r.lost)
  BY <1>4 DEF ToClient
<1> QED
  BY <1>3, <1>4

(* The server takes the name of a client *)
LEMMA OnClientNameMoves ==
  ASSUME ConnInv, NEW k \in Conn, OnClientName(k)
  PROVE  /\ conn[k].srv = "session"
         /\ conn' \in [Conn -> ConnType]
         /\ \A j \in Conn : Good(conn'[j]) /\ Follows(conn'[j], conn[j])
         /\ \E q : conn'[k] = [conn[k] EXCEPT !.toSrv = q, !.srv = "naming",
                     !.list = {j \in Conn \ {k} : Subscribed(j) /\ SameAccess(j, k)}]
         /\ \A j \in Conn \ {k} : conn'[j] = conn[j]
         /\ NamesOK'
<1> DEFINE r == conn[k]
           names == {j \in Conn \ {k} : Subscribed(j) /\ SameAccess(j, k)}
           r2 == [r EXCEPT !.toSrv = Tail(r.toSrv), !.srv = "naming", !.list = names]
<1>1. Good(r) /\ r \in ConnType
  BY DEF ConnInv
<1>2. /\ conn' = [conn EXCEPT ![k] = r2]
      /\ r.srv = "session" /\ r.toSrv # <<>> /\ names \subseteq Conn
  BY <1>1 DEF OnClientName, ConnType, ConnInv
<1>3. Good(r2)
  <2> HIDE DEF r, names
  <2> QED
    BY <1>1, <1>2, TakesClientName
<1>4. /\ Follows(r2, r) /\ r2.list = names /\ r2.toCli = r.toCli /\ r2.cred = r.cred
      /\ r2.srvNamed = r.srvNamed
  <2> HIDE DEF names
  <2> QED
    BY <1>1, <1>2 DEF ConnType, Follows
<1>5. /\ conn'[k] = r2 /\ \A j \in Conn \ {k} : conn'[j] = conn[j]
      /\ conn' \in [Conn -> ConnType]
  <2> HIDE DEF r2
  <2> QED
    BY <1>2, <1>3 DEF ConnInv, Good
<1>6. \A j \in Conn : Good(conn'[j]) /\ Follows(conn'[j], conn[j])
  <2>1. \A j \in Conn : Good(conn[j]) /\ Follows(conn[j], conn[j])
    BY DEF ConnInv, Follows
  <2> HIDE DEF r2
  <2> QED
    BY <1>3, <1>4, <1>5, <2>1
<1>7. \A j \in Conn : conn'[j].cred = conn[j].cred /\ conn'[j].srvNamed = conn[j].srvNamed
                       /\ conn'[j].toCli = conn[j].toCli
  <2> HIDE DEF r2
  <2> QED
    BY <1>4, <1>5
<1>8. \A n \in names : SameUser(n, k)'
  BY <1>7 DEF SameAccess, SameUser, UserOf
<1>9. NamesOK'
  <2>1. ASSUME NEW j \in Conn, NEW n \in conn'[j].list PROVE n \in conn[j].list \/ SameUser(n, j)'
    <3>1. CASE j = k
      BY <1>4, <1>5, <1>8, <2>1, <3>1
    <3>2. CASE j # k
      BY <1>5, <2>1, <3>2
    <3> QED
      BY <3>1, <3>2
  <2>2. \A j \in Conn : \A m \in ToSet(conn'[j].toCli) : m \in ToSet(conn[j].toCli)
    BY <1>7
  <2> QED
    BY <1>6, <2>1, <2>2, NamesKept
<1> QED
  BY <1>2, <1>5, <1>6, <1>9

(* The list is sent, and the others are told *)
LEMMA OnClientNamedMoves ==
  ASSUME ConnInv, NEW k \in Conn, OnClientNamed(k)
  PROVE  LET list == [kind |-> "IPCObjectList", names |-> conn[k].list]
             add == [kind |-> "AddIPCObject", name |-> k]
         IN  /\ conn[k].srv = "naming" /\ list \in Message /\ add \in Message
             /\ conn' \in [Conn -> ConnType]
             /\ \A j \in Conn : Good(conn'[j]) /\ Follows(conn'[j], conn[j])
             /\ conn'[k] = [ToClient(conn[k], <<list>>) EXCEPT !.srv = "connected", !.list = {}]
             /\ \A j \in Conn \ {k} :
                  conn'[j] = IF Told(j, k) THEN ToClient(conn[j], <<add>>) ELSE conn[j]
             /\ NamesOK'
<1> DEFINE list == [kind |-> "IPCObjectList", names |-> conn[k].list]
           add == [kind |-> "AddIPCObject", name |-> k]
           r1 == ToClient(conn[k], <<list>>)
           r2 == [r1 EXCEPT !.srv = "connected", !.list = {}]
<1>1. \A j \in Conn : Good(conn[j]) /\ conn[j] \in ConnType /\ conn[j].list \subseteq Conn
  BY DEF ConnInv, ConnType
<1>2. list \in Message /\ add \in Message /\ list.kind = "IPCObjectList" /\ add.kind = "AddIPCObject"
      /\ list.names = conn[k].list /\ add.name = k
  BY <1>1 DEF Message
<1>3. /\ conn[k].srv = "naming" /\ DOMAIN conn' = Conn
      /\ conn'[k] = r2
      /\ \A j \in Conn \ {k} : conn'[j] = IF Told(j, k) THEN ToClient(conn[j], <<add>>) ELSE conn[j]
      /\ conn' = [j \in Conn |-> conn'[j]]
  BY DEF OnClientNamed
<1>4. conn[k].srvNamed
  BY <1>1, <1>3 DEF Good, EndsOK
<1> HIDE DEF list, add
<1>5. Good(r1) /\ r1.srv = "naming"
  BY <1>1, <1>2, <1>3, <1>4, Tells, Told1
<1>6. /\ Good(r2) /\ r2.of = r1.of /\ r2.cred = r1.cred /\ r2.srvNamed = r1.srvNamed
      /\ r2.cliNamed = r1.cliNamed /\ r2.srv = "connected" /\ r2.list = {} /\ r2.toCli = r1.toCli
  <2>1. r1 \in ConnType
    BY <1>5 DEF Good
  <2> HIDE DEF r1
  <2> QED
    BY <1>5, <2>1, Completes DEF ConnType
<1>7. Follows(r2, conn[k])
  <2>1. /\ r1.of = conn[k].of /\ r1.cred = conn[k].cred /\ r1.srvNamed = conn[k].srvNamed
        /\ r1.cliNamed = conn[k].cliNamed
    BY <1>1, <1>2, Told1
  <2> HIDE DEF r1, r2
  <2> QED
    BY <1>3, <1>6, <2>1 DEF Follows
<1>8. ASSUME NEW j \in Conn \ {k}
      PROVE  /\ Good(conn'[j]) /\ Follows(conn'[j], conn[j]) /\ conn'[j].list = conn[j].list
             /\ conn'[j].cred = conn[j].cred /\ conn'[j].srvNamed = conn[j].srvNamed
             /\ \A m \in ToSet(conn'[j].toCli) : m \in ToSet(conn[j].toCli) \/ (m = add /\ Told(j, k))
  <2>1. CASE Told(j, k)
    <3>1. conn'[j] = ToClient(conn[j], <<add>>) /\ conn[j].srvNamed
      BY <1>3, <2>1 DEF Told, SameAccess
    <3>2. Good(conn'[j])
      BY <1>1, <1>2, <3>1, Tells
    <3>3. /\ conn'[j].of = conn[j].of /\ conn'[j].cred = conn[j].cred
          /\ conn'[j].srvNamed = conn[j].srvNamed /\ conn'[j].srv = conn[j].srv
          /\ conn'[j].cliNamed = conn[j].cliNamed /\ conn'[j].list = conn[j].list
          /\ \A m \in ToSet(conn'[j].toCli) : m \in ToSet(conn[j].toCli) \/ m = add
      <4> DEFINE t == ToClient(conn[j], <<add>>)
      <4>1. conn[j] \in ConnType /\ add \in Message
        BY <1>1, <1>2
      <4>2. /\ t.of = conn[j].of /\ t.cred = conn[j].cred /\ t.srvNamed = conn[j].srvNamed
            /\ t.srv = conn[j].srv /\ t.cliNamed = conn[j].cliNamed /\ t.list = conn[j].list
            /\ \A m \in ToSet(t.toCli) : m \in ToSet(conn[j].toCli) \/ m = add
        BY <4>1, Told1
      <4>3. conn'[j] = t
        BY <3>1
      <4> HIDE DEF t
      <4> QED
        BY <4>2, <4>3
    <3> QED
      BY <2>1, <3>2, <3>3 DEF Follows
  <2>2. CASE ~Told(j, k)
    BY <1>1, <1>3, <2>2 DEF Follows
  <2> QED
    BY <2>1, <2>2
<1>9. /\ \A j \in Conn : Good(conn'[j]) /\ Follows(conn'[j], conn[j])
      /\ \A j \in Conn : conn'[j].cred = conn[j].cred /\ conn'[j].srvNamed = conn[j].srvNamed
  <2>1. r2.cred = conn[k].cred /\ r2.srvNamed = conn[k].srvNamed
    BY <1>1, <1>2, <1>6, Told1
  <2> HIDE DEF r2
  <2> QED
    BY <1>3, <1>6, <1>7, <1>8, <2>1
<1>10. conn' \in [Conn -> ConnType]
  BY <1>3, <1>9 DEF Good
<1>11. \A n, j \in Conn : SameUser(n, j)' <=> SameUser(n, j)
  BY <1>9 DEF SameUser, UserOf
<1>12. NamesOK'
  <2>1. \A j \in Conn : \A n \in conn'[j].list : n \in conn[j].list
    <3>1. conn'[k].list = {}
      BY <1>3, <1>6
    <3> QED
      BY <1>8, <3>1
  <2>2. ASSUME NEW j \in Conn, NEW m \in ToSet(conn'[j].toCli)
        PROVE  m \in ToSet(conn[j].toCli) \/ Says(m, j)'
    <3>1. CASE j # k
      <4>1. Told(j, k) => SameUser(k, j)
        BY <1>4 DEF Told, SameAccess, SameUser
      <4>2. m = add /\ Told(j, k) => Says(m, j)'
        BY <1>2, <1>11, <4>1, <3>1 DEF Says
      <4> QED
        BY <1>8, <2>2, <3>1, <4>2
    <3>2. CASE j = k
      <4>1. m \in ToSet(r1.toCli)
        BY <1>3, <1>6, <2>2, <3>2
      <4>2. m \in ToSet(conn[k].toCli) \/ m = list
        BY <1>1, <1>2, <4>1, Told1
      <4>3. \A n \in conn[k].list : SameUser(n, k)'
        BY <1>1, <1>11 DEF ConnInv, NamesOK
      <4>4. m = list => Says(m, k)'
        BY <1>2, <4>3 DEF Says
      <4> QED
        BY <3>2, <4>2, <4>4
    <3> QED
      BY <3>1, <3>2
  <2> QED
    BY <1>9, <2>1, <2>2, NamesKept
<1> QED
  BY <1>2, <1>3, <1>8, <1>9, <1>10, <1>12 DEF list, add

(* An ended connection is announced *)
LEMMA ServerEndsMoves ==
  ASSUME ConnInv, NEW k \in Conn, ServerEnds(k)
  PROVE  LET del == [kind |-> "RemoveIPCObject", name |-> k]
         IN  /\ conn[k].srv \in {"accepted", "session", "connected"} /\ ~Open(k)
             /\ del \in Message
             /\ conn' \in [Conn -> ConnType]
             /\ \A j \in Conn : Good(conn'[j]) /\ Follows(conn'[j], conn[j])
             /\ conn'[k] = [conn[k] EXCEPT !.srv = "stopped", !.srvUp = FALSE, !.toSrv = <<>>]
             /\ \A j \in Conn \ {k} :
                  conn'[j] = conn[j] \/ conn'[j] = ToClient(conn[j], <<del>>)
             /\ NamesOK'
<1> DEFINE del == [kind |-> "RemoveIPCObject", name |-> k]
           r2 == [conn[k] EXCEPT !.srv = "stopped", !.srvUp = FALSE, !.toSrv = <<>>]
<1>1. \A j \in Conn : Good(conn[j]) /\ conn[j] \in ConnType
  BY DEF ConnInv
<1>2. del \in Message /\ del.kind = "RemoveIPCObject" /\ del.name = k
  BY DEF Message
<1>3. /\ conn[k].srv \in {"accepted", "session", "connected"} /\ ~Open(k) /\ DOMAIN conn' = Conn
      /\ conn'[k] = r2
      /\ \A j \in Conn \ {k} : conn'[j] = conn[j] \/ conn'[j] = ToClient(conn[j], <<del>>)
      /\ conn' = [j \in Conn |-> conn'[j]]
  BY DEF ServerEnds
<1> HIDE DEF del
<1>4. Good(r2)
  BY <1>1, <1>3, EndsServer
<1>5. /\ Follows(r2, conn[k]) /\ r2.list = conn[k].list /\ r2.toCli = conn[k].toCli
      /\ r2.srv = "stopped"
  BY <1>1, <1>3 DEF ConnType, Follows
<1>8. ASSUME NEW j \in Conn \ {k}
      PROVE  /\ Good(conn'[j]) /\ Follows(conn'[j], conn[j]) /\ conn'[j].list = conn[j].list
             /\ \A m \in ToSet(conn'[j].toCli) : m \in ToSet(conn[j].toCli) \/ m = del
  <2>1. CASE conn'[j] = ToClient(conn[j], <<del>>)
    <3>2. Good(conn'[j])
      BY <1>1, <1>2, <2>1, Tells
    <3>3. /\ conn'[j].of = conn[j].of /\ conn'[j].cred = conn[j].cred
          /\ conn'[j].srvNamed = conn[j].srvNamed /\ conn'[j].srv = conn[j].srv
          /\ conn'[j].cliNamed = conn[j].cliNamed /\ conn'[j].list = conn[j].list
          /\ \A m \in ToSet(conn'[j].toCli) : m \in ToSet(conn[j].toCli) \/ m = del
      <4> DEFINE t == ToClient(conn[j], <<del>>)
      <4>1. conn[j] \in ConnType /\ del \in Message
        BY <1>1, <1>2
      <4>2. /\ t.of = conn[j].of /\ t.cred = conn[j].cred /\ t.srvNamed = conn[j].srvNamed
            /\ t.srv = conn[j].srv /\ t.cliNamed = conn[j].cliNamed /\ t.list = conn[j].list
            /\ \A m \in ToSet(t.toCli) : m \in ToSet(conn[j].toCli) \/ m = del
        BY <4>1, Told1
      <4>3. conn'[j] = t
        BY <2>1
      <4> HIDE DEF t
      <4> QED
        BY <4>2, <4>3
    <3> QED
      BY <2>1, <3>2, <3>3 DEF Follows
  <2>2. CASE conn'[j] = conn[j]
    BY <1>1, <2>2 DEF Follows
  <2> QED
    BY <1>3, <2>1, <2>2
<1>9. \A j \in Conn : Good(conn'[j]) /\ Follows(conn'[j], conn[j])
  <2> HIDE DEF r2
  <2> QED
    BY <1>3, <1>4, <1>5, <1>8
<1>10. conn' \in [Conn -> ConnType]
  BY <1>3, <1>9 DEF Good
<1>12. NamesOK'
  <2> HIDE DEF r2
  <2>1. \A j \in Conn : \A n \in conn'[j].list : n \in conn[j].list
    BY <1>3, <1>5, <1>8
  <2>2. Says(del, k)' /\ \A j \in Conn : Says(del, j)'
    BY <1>2, <1>3, <1>5 DEF Says
  <2>3. \A j \in Conn : \A m \in ToSet(conn'[j].toCli) : m \in ToSet(conn[j].toCli) \/ Says(m, j)'
    BY <1>3, <1>5, <1>8, <2>2
  <2> QED
    BY <1>9, <2>1, <2>3, NamesKept
<1> QED
  BY <1>2, <1>3, <1>9, <1>10, <1>12 DEF del

-----------------------------------------------------------------------------
(* Steps, by the connections they change *)
Elsewhere ==
  \/ \E c \in Client :
       \/ \E cred \in Credential : ConnectToServer(c, cred)
       \/ DisconnectReturns(c) \/ OnErrorConnect(c) \/ ManagerFunc(c)
  \/ SetUsersList \/ StartServer \/ StopServer
  \/ \E u \in User : RemoveUser(u)
  \/ \E i \in 1..MaxStart : OnCreatedListener(i) \/ OnErrorListener(i)

(* ... those of one connection *)
Within(k) ==
  \/ AddConnection(k) \/ OnLoginFailure(k) \/ OnLoginResult(k) \/ SetOwnSession(k)
  \/ SetSession(k) \/ OnServerName(k) \/ OnIPCObject(k) \/ OnLogin(k) \/ Lose(k)
  \/ DisconnectFromClient(k) \/ ClientEnds(k) \/ OnServerDisconnected(k)
  \/ OnClientDisconnected(k)

LEMMA Cases ==
  ASSUME Next
  PROVE  \/ Elsewhere
         \/ \E c \in Client : Disconnect(c) \/ \E k \in Conn : OnAddClientServerConnector(c, k)
         \/ \E k \in Conn : \/ Within(k) \/ OnSecondLogin(k) \/ OnClientName(k)
                            \/ OnClientNamed(k) \/ ServerEnds(k)
  BY Zenon DEF Next, UserCalls, ClientStep, ServerStep, Elsewhere, Within

LEMMA ElsewhereKeeps ==
  ASSUME Elsewhere
  PROVE  UNCHANGED <<conn, m_modules, m_ipcObject, clients, wiped>>
<1>1. ASSUME NEW c \in Client, NEW cred \in Credential, ConnectToServer(c, cred)
      PROVE  UNCHANGED <<conn, m_modules, m_ipcObject, clients, wiped>>
  BY <1>1 DEF ConnectToServer
<1>2. ASSUME NEW c \in Client, DisconnectReturns(c) \/ OnErrorConnect(c) \/ ManagerFunc(c)
      PROVE  UNCHANGED <<conn, m_modules, m_ipcObject, clients, wiped>>
  BY <1>2 DEF DisconnectReturns, OnErrorConnect, ManagerFunc, history
<1>3. ASSUME SetUsersList \/ StartServer \/ StopServer
      PROVE  UNCHANGED <<conn, m_modules, m_ipcObject, clients, wiped>>
  BY <1>3 DEF SetUsersList, AddUser, ClearUsers, StartServer, StopServer
<1>4. ASSUME NEW u \in User, RemoveUser(u)
      PROVE  UNCHANGED <<conn, m_modules, m_ipcObject, clients, wiped>>
  BY <1>4 DEF RemoveUser
<1>5. ASSUME NEW i \in 1..MaxStart, OnCreatedListener(i) \/ OnErrorListener(i)
      PROVE  UNCHANGED <<conn, m_modules, m_ipcObject, clients, wiped>>
  BY <1>5 DEF OnCreatedListener, OnErrorListener, history
<1> QED
  BY <1>1, <1>2, <1>3, <1>4, <1>5 DEF Elsewhere

(* A message that is read is one of the protocol *)
LEMMA HeadTyped ==
  ASSUME ConnInv, NEW k \in Conn, conn[k].toCli # <<>>
  PROVE  /\ Head(conn[k].toCli) \in ToSet(conn[k].toCli)
         /\ Head(conn[k].toCli) \in Message
         /\ ToSet(conn[k].toCli) = ToSet(Tail(conn[k].toCli)) \cup {Head(conn[k].toCli)}
<1>1. conn[k].toCli \in Seq(Message)
  BY DEF ConnInv, ConnType
<1> QED
  BY <1>1, TakeSet

-----------------------------------------------------------------------------
(* The types of everything but the connections *)
LEMMA ElsewhereType ==
  ASSUME RestType, Elsewhere
  PROVE  RestType'
<1> USE DEF request, listener, history
<1>0. {MaxConn, MaxConnect, MaxCall} \subseteq Nat /\ MaxStart \in Nat \ {0}
  BY ClientServerAssumption
<1>10. ASSUME NEW call \in DOMAIN Limit, Counted(call) PROVE calls' \in [DOMAIN Limit -> Nat]
  BY <1>10 DEF Counted, RestType
<1>11. "connect" \in DOMAIN Limit /\ "other" \in DOMAIN Limit
  BY DEF Limit
<1>1. ASSUME NEW c \in Client, NEW cred \in Credential, ConnectToServer(c, cred) PROVE RestType'
  <2>1. calls' \in [DOMAIN Limit -> Nat]
    BY <1>1, <1>10, <1>11 DEF ConnectToServer
  <2> QED
    BY <1>1, <2>1 DEF RestType, ConnectToServer, SetUserName, Connect
<1>2. ASSUME NEW c \in Client, DisconnectReturns(c) PROVE RestType'
  BY <1>2 DEF RestType, DisconnectReturns
<1>3. ASSUME NEW c \in Client, OnErrorConnect(c) PROVE RestType'
  BY <1>3 DEF RestType, OnErrorConnect
<1>4. ASSUME NEW c \in Client, ManagerFunc(c) PROVE RestType'
  BY <1>4 DEF RestType, ManagerFunc, Connect
<1>5. ASSUME SetUsersList PROVE RestType'
  <2>1. calls' \in [DOMAIN Limit -> Nat]
    BY <1>5, <1>10, <1>11 DEF SetUsersList, AddUser, ClearUsers
  <2> QED
    BY <1>5, <2>1 DEF RestType, SetUsersList, AddUser, ClearUsers
<1>6. ASSUME NEW u \in User, RemoveUser(u) PROVE RestType'
  <2>1. calls' \in [DOMAIN Limit -> Nat]
    BY <1>6, <1>10, <1>11 DEF RemoveUser
  <2> QED
    BY <1>6, <2>1 DEF RestType, RemoveUser
<1>7. Stopped \in [1..MaxStart -> {"none", "binding", "stopping", "listening", "ended"}]
  BY <1>0 DEF RestType, Stopped
<1>8. ASSUME StartServer PROVE RestType'
  <2>1. calls' \in [DOMAIN Limit -> Nat]
    BY <1>8, <1>10, <1>11 DEF StartServer
  <2>2. /\ m_serverThread' \in 0..MaxStart
        /\ listen' \in [1..MaxStart -> {"none", "binding", "stopping", "listening", "ended"}]
    BY <1>0, <1>7, <1>8 DEF StartServer
  <2> QED
    BY <1>8, <2>1, <2>2 DEF RestType, StartServer
<1>9. ASSUME StopServer PROVE RestType'
  <2>1. calls' \in [DOMAIN Limit -> Nat]
    BY <1>9, <1>10, <1>11 DEF StopServer
  <2> QED
    BY <1>0, <1>7, <1>9, <2>1 DEF RestType, StopServer
<1>12. ASSUME NEW i \in 1..MaxStart, OnCreatedListener(i) PROVE RestType'
  BY <1>12 DEF RestType, OnCreatedListener
<1>13. ASSUME NEW i \in 1..MaxStart, OnErrorListener(i) PROVE RestType'
  BY <1>0, <1>13 DEF RestType, OnErrorListener
<1> QED
  BY <1>1, <1>2, <1>3, <1>4, <1>5, <1>6, <1>8, <1>9, <1>12, <1>13 DEF Elsewhere

LEMMA WithinType ==
  ASSUME ConnInv, NEW k \in Conn, Within(k)
  PROVE  RestType'
<1> USE DEF request, listener, history
<1>0. RestType /\ conn[k] \in ConnType /\ "other" \in DOMAIN Limit
      /\ Conn \subseteq Nat \ {0}
  BY ClientServerAssumption DEF ConnInv, Limit, Conn
<1>10. ASSUME Counted("other") PROVE calls' \in [DOMAIN Limit -> Nat]
  BY <1>0, <1>10 DEF Counted, RestType
<1>1. conn[k].cli # "none" => conn[k].of \in Client
  BY <1>0 DEF ConnInv, ConnType, Good, EndsOK
<1>2. CASE AddConnection(k)
  BY <1>0, <1>2 DEF RestType, AddConnection
<1>3. CASE OnLoginFailure(k)
  <2>1. conn[k].of \in Client
    BY <1>1, <1>3 DEF OnLoginFailure, Received
  <2> QED
    BY <1>0, <1>3, <2>1 DEF RestType, OnLoginFailure
<1>4. CASE OnLoginResult(k)
  BY <1>0, <1>4 DEF RestType, OnLoginResult
<1>5. CASE SetOwnSession(k)
  <2>1. conn[k].of \in Client
    BY <1>1, <1>5 DEF SetOwnSession
  <2> QED
    BY <1>0, <1>5, <2>1 DEF RestType, SetOwnSession
<1>6. CASE SetSession(k)
  BY <1>0, <1>6 DEF RestType, SetSession
<1>7. CASE OnServerName(k)
  <2>1. conn[k].of \in Client
    BY <1>1, <1>7 DEF OnServerName, Received
  <2> QED
    BY <1>0, <1>7, <2>1 DEF RestType, OnServerName
<1>8. CASE OnIPCObject(k)
  <2>1. conn[k].of \in Client /\ Head(conn[k].toCli) \in Message
    BY <1>1, <1>8, HeadTyped DEF OnIPCObject, Received
  <2>2. Head(conn[k].toCli).kind \in {"IPCObjectList", "AddIPCObject", "RemoveIPCObject"}
    BY <1>8 DEF OnIPCObject, Received
  <2>3. LET m == Head(conn[k].toCli) IN
        /\ m.kind = "AddIPCObject" => m.name \in Conn
        /\ m.kind = "IPCObjectList" => m.names \subseteq Conn
    BY <2>1 DEF Message
  <2>4. m_ipcObject' \in [Client -> SUBSET Conn]
    BY <1>0, <1>8, <2>1, <2>2, <2>3 DEF RestType, OnIPCObject
  <2> QED
    BY <1>0, <1>8, <2>4 DEF RestType, OnIPCObject
<1>9. CASE OnLogin(k)
  BY <1>0, <1>9 DEF RestType, OnLogin
<1>11. CASE Lose(k)
  <2>1. calls' \in [DOMAIN Limit -> Nat]
    BY <1>10, <1>11 DEF Lose
  <2> QED
    BY <1>0, <1>11, <2>1 DEF RestType, Lose
<1>12. CASE DisconnectFromClient(k)
  <2>1. calls' \in [DOMAIN Limit -> Nat]
    BY <1>10, <1>12 DEF DisconnectFromClient
  <2> QED
    BY <1>0, <1>12, <2>1 DEF RestType, DisconnectFromClient
<1>13. CASE ClientEnds(k)
  BY <1>0, <1>13 DEF RestType, ClientEnds
<1>14. CASE OnServerDisconnected(k)
  <2>1. conn[k].of \in Client
    BY <1>1, <1>14 DEF OnServerDisconnected
  <2>2. Of(conn[k].of) \subseteq Conn
    BY DEF Of
  <2>3. /\ m_ownSessionId' \in [Client -> Conn \cup {NoSession}]
        /\ m_bConnectToServerRequest' \in [Client -> BOOLEAN]
    BY <1>0, <1>14, <2>1 DEF RestType, OnServerDisconnected, OnFireConnector
  <2> QED
    BY <1>0, <1>14, <2>1, <2>2, <2>3 DEF RestType, OnServerDisconnected
<1>15. CASE OnClientDisconnected(k)
  BY <1>0, <1>15 DEF RestType, OnClientDisconnected
<1> QED
  BY <1>2, <1>3, <1>4, <1>5, <1>6, <1>7, <1>8, <1>9, <1>11, <1>12, <1>13, <1>14, <1>15 DEF Within

LEMMA RestStep ==
  ASSUME ConnInv, Next
  PROVE  RestType'
<1> USE DEF request, listener, history
<1>0. RestType /\ "other" \in DOMAIN Limit
  BY DEF ConnInv, Limit
<1>1. CASE Elsewhere
  BY <1>0, <1>1, ElsewhereType
<1>2. ASSUME NEW c \in Client, Disconnect(c) PROVE RestType'
  <2>1. calls' \in [DOMAIN Limit -> Nat]
    BY <1>0, <1>2 DEF Disconnect, Counted, RestType
  <2> QED
    BY <1>0, <1>2, <2>1 DEF RestType, Disconnect
<1>3. ASSUME NEW c \in Client, NEW k \in Conn, OnAddClientServerConnector(c, k) PROVE RestType'
  BY <1>0, <1>3 DEF RestType, OnAddClientServerConnector
<1>4. ASSUME NEW k \in Conn, OnSecondLogin(k) PROVE RestType'
  BY <1>0, <1>4 DEF RestType, OnSecondLogin
<1>5. ASSUME NEW k \in Conn, OnClientName(k) PROVE RestType'
  BY <1>0, <1>5 DEF RestType, OnClientName
<1>6. ASSUME NEW k \in Conn, OnClientNamed(k) PROVE RestType'
  BY <1>0, <1>6 DEF RestType, OnClientNamed
<1>7. ASSUME NEW k \in Conn, ServerEnds(k) PROVE RestType'
  BY <1>0, <1>7 DEF RestType, ServerEnds
<1> QED
  BY <1>1, <1>2, <1>3, <1>4, <1>5, <1>6, <1>7, WithinType, Cases

-----------------------------------------------------------------------------
(* What every step makes of the connections *)
LEMMA WithinMoves ==
  ASSUME ConnInv, NEW k \in Conn, Within(k)
  PROVE  \E r2 : Moves(k, r2)
<1>1. CASE AddConnection(k)
  BY <1>1, AddConnectionMoves
<1>2. CASE OnLoginFailure(k)
  BY <1>2, OnLoginFailureMoves
<1>3. CASE OnLoginResult(k)
  BY <1>3, OnLoginResultMoves
<1>4. CASE SetOwnSession(k)
  BY <1>4, SetOwnSessionMoves
<1>5. CASE SetSession(k)
  BY <1>5, SetSessionMoves
<1>6. CASE OnServerName(k)
  BY <1>6, OnServerNameMoves
<1>7. CASE OnIPCObject(k)
  BY <1>7, OnIPCObjectMoves
<1>8. CASE OnLogin(k)
  BY <1>8, OnLoginMoves
<1>9. CASE Lose(k)
  BY <1>9, LoseMoves
<1>10. CASE DisconnectFromClient(k)
  BY <1>10, DisconnectFromClientMoves
<1>11. CASE ClientEnds(k)
  BY <1>11, ClientEndsMoves
<1>12. CASE OnServerDisconnected(k)
  BY <1>12, OnServerDisconnectedMoves
<1>13. CASE OnClientDisconnected(k)
  BY <1>13, OnClientDisconnectedMoves
<1> QED
  BY <1>1, <1>2, <1>3, <1>4, <1>5, <1>6, <1>7, <1>8, <1>9, <1>10, <1>11, <1>12, <1>13 DEF Within

LEMMA ConnStep ==
  ASSUME ConnInv, Next
  PROVE  /\ ConnInv'
         /\ \A j \in Conn : Follows(conn'[j], conn[j])
<1> DEFINE Moved == /\ conn' \in [Conn -> ConnType]
                    /\ \A j \in Conn : Good(conn'[j]) /\ Follows(conn'[j], conn[j])
                    /\ NamesOK'
<1>0. AllMove => Moved
  <2> SUFFICES ASSUME AllMove PROVE Moved
    OBVIOUS
  <2>1. NamesOK'
    BY SilentNames
  <2> QED
    BY <2>1 DEF AllMove
<1> HIDE DEF Moved
<1>1. CASE Elsewhere
  <2>1. conn' = conn
    BY <1>1, ElsewhereKeeps
  <2>2. AllMove
    BY <2>1 DEF AllMove, ConnInv, Follows, Silent
  <2> QED
    BY <1>0, <2>2, RestStep DEF Moved, ConnInv
<1>2. ASSUME NEW c \in Client, Disconnect(c) PROVE Moved
  BY <1>0, <1>2, DisconnectMoves
<1>3. ASSUME NEW c \in Client, NEW k \in Conn, OnAddClientServerConnector(c, k) PROVE Moved
  <2>1. Moves(k, New(c))
    BY <1>3, OnAddMoves
  <2> QED
    BY <1>0, <2>1, MovesOne
<1>4. ASSUME NEW k \in Conn, Within(k) PROVE Moved
  BY <1>0, <1>4, WithinMoves, MovesOne
<1>5. ASSUME NEW k \in Conn, OnSecondLogin(k) PROVE Moved
  BY <1>0, <1>5, OnSecondLoginMoves
<1>6. ASSUME NEW k \in Conn, OnClientName(k) PROVE Moved
  BY <1>6, OnClientNameMoves DEF Moved
<1>7. ASSUME NEW k \in Conn, OnClientNamed(k) PROVE Moved
  BY <1>7, OnClientNamedMoves DEF Moved
<1>8. ASSUME NEW k \in Conn, ServerEnds(k) PROVE Moved
  BY <1>8, ServerEndsMoves DEF Moved
<1>9. CASE Moved
  BY <1>9, RestStep DEF Moved, ConnInv
<1> QED
  BY <1>1, <1>2, <1>3, <1>4, <1>5, <1>6, <1>7, <1>8, <1>9, Cases

LEMMA ConnStart == Init => ConnInv
<1> SUFFICES ASSUME Init PROVE ConnInv
  OBVIOUS
<1>1. (CHOOSE c \in Credential : TRUE) \in Credential
  <2>0. PICK u \in User, p \in Password : TRUE
    BY ClientServerAssumption
  <2>1. <<u, p>> \in Credential
    BY <2>0 DEF Credential
  <2> QED
    BY <2>1
<1>2. RestType
  <2>1. {MaxConn, MaxConnect, MaxCall} \subseteq Nat /\ MaxStart \in Nat \ {0}
    BY ClientServerAssumption
  <2>2. /\ m_userPassword \in [Client -> Credential]
        /\ m_userPasswords \in [User -> Password \cup {NoPassword}]
    BY <1>1 DEF Init
  <2>3. /\ m_serverThread \in 0..MaxStart
        /\ listen \in [1..MaxStart -> {"none", "binding", "stopping", "listening", "ended"}]
        /\ calls \in [DOMAIN Limit -> Nat]
    BY <2>1 DEF Init
  <2> QED
    BY <2>2, <2>3 DEF Init, RestType
<1>3. \A k \in Conn : Good(conn[k]) /\ conn[k] = NoConn
  BY NoConnGood DEF Init
<1>4. conn \in [Conn -> ConnType]
  <2>1. conn = [k \in Conn |-> conn[k]]
    BY DEF Init
  <2> QED
    BY <1>3, <2>1 DEF Good
<1>5. NamesOK
  <2>1. NoConn.list = {} /\ NoConn.toCli = <<>>
    BY DEF NoConn
  <2> QED
    BY <1>3, <2>1, EmptySet DEF NamesOK
<1> QED
  BY <1>2, <1>3, <1>4, <1>5 DEF ConnInv

LEMMA ConnStutter ==
  ASSUME ConnInv, UNCHANGED vars
  PROVE  ConnInv'
<1>1. RestType'
  BY DEF ConnInv, RestType, vars, request, listener, history
<1>2. conn' = conn
  BY DEF vars
<1> QED
  BY <1>1, <1>2 DEF ConnInv, NamesOK, SameUser, Says, UserOf

LEMMA ConnAlways == Spec => []ConnInv
<1>1. ConnInv /\ [Next]_vars => ConnInv'
  BY ConnStep, ConnStutter
<1> QED
  BY <1>1, ConnStart, PTL DEF Spec

-----------------------------------------------------------------------------
(* What most steps keep of a connection: its name once it has it, what is on its way to
   its client, and the state it is in but for the next ones                            *)
Keeps(r2, r) ==
  /\ r.cli \in {"connected", "stopped"} => r2.cli \in {"connected", "stopped"}
  /\ r.cli # "gone" => r2.cli # "gone"
  /\ r.srv \in {"naming", "connected", "stopped"} => r2.srv \in {"naming", "connected", "stopped"}

Stays(j) ==
  /\ conn'[j].srv = "connected" => conn[j].srv = "connected"
  /\ Live(j)' =>
       /\ Live(j) /\ conn'[j].srv = conn[j].srv
       /\ conn'[j].srv = "naming" => conn'[j].list = conn[j].list
       /\ \A m \in ToSet(conn[j].toCli) :
            m.kind \in {"AddIPCObject", "IPCObjectList"} => m \in ToSet(conn'[j].toCli)

LEMMA SameKept ==
  ASSUME NEW j \in Conn, conn'[j] = conn[j]
  PROVE  Keeps(conn'[j], conn[j]) /\ Stays(j)
BY DEF Keeps, Stays, Live, Open

LEMMA WithinKeeps ==
  ASSUME ConnInv, NEW k \in Conn, Within(k)
  PROVE  /\ \A j \in Conn \ {k} : conn'[j] = conn[j]
         /\ ~OnServerDisconnected(k) /\ ~OnClientDisconnected(k) => Keeps(conn'[k], conn[k])
         /\ Follows(conn'[k], conn[k])
         /\ ~OnIPCObject(k) => Stays(k)
<1> DEFINE r == conn[k]
           r2 == conn'[k]
<1>0. \A x : Moves(k, x) => conn'[k] = x /\ \A j \in Conn \ {k} : conn'[j] = conn[j]
  BY MovesOne
<1>1. PICK x : Moves(k, x)
  BY WithinMoves
<1>2. Follows(r2, r) /\ \A j \in Conn \ {k} : conn'[j] = conn[j]
  BY <1>0, <1>1 DEF Moves
<1>3. r \in ConnType /\ Good(r) /\ Good(r2)
  BY <1>0, <1>1 DEF ConnInv, Moves
<1>4. CASE AddConnection(k)
  <2>1. conn'[k] = [conn[k] EXCEPT !.listed = TRUE]
    BY <1>0, <1>4, AddConnectionMoves
  <2>2. Keeps(r2, r) /\ Stays(k)
    BY <1>3, <2>1 DEF ConnType, Keeps, Stays, Live, Open
  <2> QED
    BY <1>2, <2>2
<1>5. CASE OnLoginFailure(k)
  <2>1. /\ conn'[k] = [conn[k] EXCEPT !.toCli = Tail(conn[k].toCli), !.cliUp = FALSE]
    BY <1>0, <1>5, OnLoginFailureMoves
  <2>2. Keeps(r2, r) /\ Stays(k)
    BY <1>3, <2>1 DEF ConnType, Keeps, Stays, Live, Open
  <2> QED
    BY <1>2, <2>2
<1>6. CASE OnLoginResult(k)
  <2>1. conn'[k] = [conn[k] EXCEPT !.toCli = Tail(conn[k].toCli), !.cli = "deciding"]
    BY <1>0, <1>6, OnLoginResultMoves
  <2>2. /\ conn[k].toCli # <<>> /\ Head(conn[k].toCli).kind = "LoginResult"
    BY <1>6 DEF OnLoginResult, Received
  <2>3. \A m \in ToSet(r.toCli) : m.kind # "LoginResult" => m \in ToSet(Tail(r.toCli))
    BY <2>2, HeadTyped
  <2>4. r.cli = "login"
    BY <1>3, <2>2, HeadTyped DEF Good, OrderOK, HasKind
  <2>5. Keeps(r2, r) /\ Stays(k)
    BY <1>3, <2>1, <2>3, <2>4 DEF ConnType, Keeps, Stays, Live, Open
  <2> QED
    BY <1>2, <2>5
<1>7. CASE SetOwnSession(k)
  <2>1. conn'[k] = [conn[k] EXCEPT !.cli = "owning"] /\ conn[k].cli = "deciding"
    BY <1>0, <1>7, SetOwnSessionMoves DEF SetOwnSession
  <2>2. Keeps(r2, r) /\ Stays(k)
    BY <1>3, <2>1 DEF ConnType, Keeps, Stays, Live, Open
  <2> QED
    BY <1>2, <2>2
<1>8. CASE SetSession(k)
  <2>1. PICK q : conn'[k] = [conn[k] EXCEPT !.toSrv = q, !.cli = "session", !.cliNamed = TRUE]
    BY <1>0, <1>8, SetSessionMoves
  <2>2. conn[k].cli = "owning"
    BY <1>8 DEF SetSession
  <2>3. Keeps(r2, r) /\ Stays(k)
    BY <1>3, <2>1, <2>2 DEF ConnType, Keeps, Stays, Live, Open
  <2> QED
    BY <1>2, <2>3
<1>9. CASE OnServerName(k)
  <2>1. conn'[k] = [conn[k] EXCEPT !.toCli = Tail(conn[k].toCli), !.cli = "connected"]
    BY <1>0, <1>9, OnServerNameMoves
  <2>2. /\ conn[k].toCli # <<>> /\ Head(conn[k].toCli).kind = "ModuleName"
    BY <1>9 DEF OnServerName, Received
  <2>3. \A m \in ToSet(r.toCli) : m.kind # "ModuleName" => m \in ToSet(Tail(r.toCli))
    BY <2>2, HeadTyped
  <2>5. Keeps(r2, r) /\ Stays(k)
    BY <1>3, <2>1, <2>3 DEF ConnType, Keeps, Stays, Live, Open
  <2> QED
    BY <1>2, <2>5
<1>10. CASE OnIPCObject(k)
  <2>1. conn'[k] = [conn[k] EXCEPT !.toCli = Tail(conn[k].toCli), !.cli = conn[k].cli]
    BY <1>0, <1>10, OnIPCObjectMoves
  <2>2. Keeps(r2, r)
    BY <1>3, <2>1 DEF ConnType, Keeps
  <2> QED
    BY <1>2, <1>10, <2>2
<1>11. CASE OnLogin(k)
  <2>1. conn[k].srv = "accepted"
    BY <1>11, OnLoginMoves
  <2>4. PICK q, p :
          \/ Moves(k, [conn[k] EXCEPT !.toCli = q, !.toSrv = p, !.srv = "session",
                                      !.srvNamed = TRUE])
          \/ Moves(k, [conn[k] EXCEPT !.toCli = q, !.toSrv = p, !.srvUp = FALSE])
    BY <1>11, OnLoginMoves
  <2>2. \/ conn'[k] = [conn[k] EXCEPT !.toCli = q, !.toSrv = p, !.srv = "session",
                                      !.srvNamed = TRUE]
        \/ conn'[k] = [conn[k] EXCEPT !.toCli = q, !.toSrv = p, !.srvUp = FALSE]
    BY <1>0, <2>4
  <2>3. Keeps(r2, r) /\ Stays(k)
    BY <1>3, <2>1, <2>2 DEF ConnType, Keeps, Stays, Live, Open
  <2> QED
    BY <1>2, <2>3
<1>12. CASE Lose(k)
  <2>1. conn'[k] = [conn[k] EXCEPT !.lost = TRUE]
    BY <1>0, <1>12, LoseMoves
  <2>2. Keeps(r2, r) /\ Stays(k)
    BY <1>3, <2>1 DEF ConnType, Keeps, Stays, Live, Open
  <2> QED
    BY <1>2, <2>2
<1>13. CASE DisconnectFromClient(k)
  <2>1. conn'[k] = [conn[k] EXCEPT !.srvUp = FALSE]
    BY <1>0, <1>13, DisconnectFromClientMoves
  <2>2. Keeps(r2, r) /\ Stays(k)
    BY <1>3, <2>1 DEF ConnType, Keeps, Stays, Live, Open
  <2> QED
    BY <1>2, <2>2
<1>14. CASE ClientEnds(k)
  <2>1. conn'[k] = [conn[k] EXCEPT !.cli = "stopped", !.cliUp = FALSE, !.toCli = <<>>]
    BY <1>0, <1>14, ClientEndsMoves
  <2>2. Keeps(r2, r) /\ Stays(k)
    BY <1>3, <2>1 DEF ConnType, Keeps, Stays, Live, Open
  <2> QED
    BY <1>2, <2>2
<1>15. CASE OnServerDisconnected(k)
  <2>1. conn'[k] = [conn[k] EXCEPT !.cli = "gone"]
    BY <1>0, <1>15, OnServerDisconnectedMoves
  <2>2. Stays(k)
    BY <1>3, <2>1 DEF ConnType, Stays, Live, Open
  <2> QED
    BY <1>2, <1>15, <2>2
<1>16. CASE OnClientDisconnected(k)
  <2>1. conn'[k] = [conn[k] EXCEPT !.srv = "gone"]
    BY <1>0, <1>16, OnClientDisconnectedMoves
  <2>2. Stays(k)
    BY <1>3, <2>1 DEF ConnType, Stays, Live, Open
  <2> QED
    BY <1>2, <1>16, <2>2
<1> QED
  BY <1>4, <1>5, <1>6, <1>7, <1>8, <1>9, <1>10, <1>11, <1>12, <1>13, <1>14, <1>15, <1>16
     DEF Within

LEMMA ShutKept ==
  ASSUME ConnInv, NEW j \in Conn,
         conn'[j] = conn[j] \/ conn'[j] = [conn[j] EXCEPT !.cliUp = FALSE]
  PROVE  Keeps(conn'[j], conn[j]) /\ Stays(j)
<1>1. conn[j] \in ConnType
  BY DEF ConnInv
<1>2. CASE conn'[j] = [conn[j] EXCEPT !.cliUp = FALSE]
  BY <1>1, <1>2 DEF ConnType, Keeps, Stays, Live, Open
<1> QED
  BY <1>2, SameKept

LEMMA OnSecondLoginKeeps ==
  ASSUME ConnInv, NEW k \in Conn, OnSecondLogin(k)
  PROVE  \A j \in Conn : Keeps(conn'[j], conn[j]) /\ Stays(j)
<1>1. \A j \in Conn \ {k} : conn'[j] = conn[j] \/ conn'[j] = [conn[j] EXCEPT !.cliUp = FALSE]
  BY OnSecondLoginMoves
<1>2. PICK up \in BOOLEAN :
        conn'[k] = [conn[k] EXCEPT !.toCli = Tail(conn[k].toCli), !.cli = "owning", !.cliUp = up]
  BY OnSecondLoginMoves
<1>3. /\ conn[k].toCli # <<>> /\ Head(conn[k].toCli).kind = "LoginResult"
  BY DEF OnSecondLogin, Received
<1>4. \A m \in ToSet(conn[k].toCli) : m.kind # "LoginResult" => m \in ToSet(Tail(conn[k].toCli))
  BY <1>3, HeadTyped
<1>5. conn[k].cli = "login" /\ conn[k] \in ConnType
  BY OnSecondLoginMoves DEF ConnInv
<1>7. AllMove
  BY OnSecondLoginMoves
<1>8. Live(k)' => Live(k)
  <2>1. ~conn[k].cliUp => conn'[k].cliUp = FALSE
    <3>1. DOMAIN StopConnection(conn[k].of, NoSession) = Conn
          /\ StopConnection(conn[k].of, NoSession)[k] \in
               {conn[k], [conn[k] EXCEPT !.cliUp = FALSE]}
      BY DEF StopConnection
    <3>2. conn' = [StopConnection(conn[k].of, NoSession) EXCEPT ![k].toCli = Tail(@),
                                                                ![k].cli = "owning"]
      BY DEF OnSecondLogin
    <3> HIDE DEF StopConnection
    <3> QED
      BY <1>5, <3>1, <3>2 DEF ConnType
  <2> QED
    BY <1>2, <1>5, <2>1 DEF Live, Open, ConnType
<1>6. Keeps(conn'[k], conn[k]) /\ Stays(k)
  BY <1>2, <1>4, <1>5, <1>8 DEF ConnType, Keeps, Stays
<1> QED
  BY <1>1, <1>6, ShutKept

LEMMA OnAddKeeps ==
  ASSUME ConnInv, NEW c \in Client, NEW k \in Conn, OnAddClientServerConnector(c, k)
  PROVE  /\ \A j \in Conn : Keeps(conn'[j], conn[j]) /\ Stays(j)
         /\ conn'[k] = New(c) /\ \A j \in Conn \ {k} : conn'[j] = conn[j]
<1>1. /\ conn'[k] = New(c) /\ \A j \in Conn \ {k} : conn'[j] = conn[j]
  BY OnAddMoves, MovesOne
<1>2. conn[k].cli = "none" /\ conn[k].srv = "none"
  BY OnAddMoves DEF ConnInv, Good, EndsOK
<1>3. conn'[k].cli = "login" /\ conn'[k].srv = "accepted"
  BY <1>1, OnAddMoves
<1>4. Keeps(conn'[k], conn[k]) /\ Stays(k)
  BY <1>2, <1>3 DEF Keeps, Stays, Live
<1> QED
  BY <1>1, <1>4, SameKept

LEMMA OnClientNameKeeps ==
  ASSUME ConnInv, NEW k \in Conn, OnClientName(k)
  PROVE  /\ \A j \in Conn : Keeps(conn'[j], conn[j])
         /\ \A j \in Conn \ {k} : Stays(j)
         /\ conn'[k].srv = "naming" /\ conn[k].srv = "session"
         /\ conn'[k].cli = conn[k].cli /\ conn'[k].srvNamed = conn[k].srvNamed
         /\ conn'[k].list = {j \in Conn \ {k} : Subscribed(j) /\ SameAccess(j, k)}
<1>1. \A j \in Conn \ {k} : conn'[j] = conn[j]
  BY OnClientNameMoves
<1> DEFINE names == {j \in Conn \ {k} : Subscribed(j) /\ SameAccess(j, k)}
<1>2. PICK q : conn'[k] = [conn[k] EXCEPT !.toSrv = q, !.srv = "naming", !.list = names]
  BY OnClientNameMoves
<1>3. conn[k] \in ConnType /\ conn[k].srv = "session"
  BY OnClientNameMoves DEF ConnInv
<1>4. /\ conn'[k].srv = "naming" /\ conn'[k].cli = conn[k].cli
      /\ conn'[k].srvNamed = conn[k].srvNamed /\ conn'[k].list = names
  <2> HIDE DEF names
  <2> QED
    BY <1>2, <1>3 DEF ConnType
<1>5. Keeps(conn'[k], conn[k])
  BY <1>3, <1>4 DEF Keeps
<1> QED
  BY <1>1, <1>3, <1>4, <1>5, SameKept

LEMMA ServerEndsKeeps ==
  ASSUME ConnInv, NEW k \in Conn, ServerEnds(k)
  PROVE  \A j \in Conn : Keeps(conn'[j], conn[j]) /\ Stays(j)
<1> DEFINE del == [kind |-> "RemoveIPCObject", name |-> k]
<1>1. conn'[k] = [conn[k] EXCEPT !.srv = "stopped", !.srvUp = FALSE, !.toSrv = <<>>]
  BY ServerEndsMoves
<1>2. \A j \in Conn : conn[j] \in ConnType
  BY DEF ConnInv
<1>3. Keeps(conn'[k], conn[k]) /\ Stays(k)
  BY <1>1, <1>2 DEF ConnType, Keeps, Stays, Live
<1>4. ASSUME NEW j \in Conn \ {k}, conn'[j] = ToClient(conn[j], <<del>>)
      PROVE  Keeps(conn'[j], conn[j]) /\ Stays(j)
  <2> DEFINE t == ToClient(conn[j], <<del>>)
  <2>1. del \in Message /\ conn[j] \in ConnType
    BY <1>2 DEF Message
  <2>2. /\ t.cli = conn[j].cli /\ t.srv = conn[j].srv /\ t.cliUp = conn[j].cliUp
        /\ t.srvUp = conn[j].srvUp /\ t.lost = conn[j].lost /\ t.list = conn[j].list
        /\ ToSet(conn[j].toCli) \subseteq ToSet(t.toCli)
    <3> HIDE DEF del
    <3> QED
      BY <2>1, Told1
  <2>3. conn'[j] = t
    BY <1>4
  <2> HIDE DEF t
  <2> QED
    BY <2>2, <2>3 DEF Keeps, Stays, Live, Open
<1> QED
  BY <1>3, <1>4, SameKept, ServerEndsMoves

LEMMA OnClientNamedKeeps ==
  ASSUME ConnInv, NEW k \in Conn, OnClientNamed(k)
  PROVE  LET list == [kind |-> "IPCObjectList", names |-> conn[k].list]
             add == [kind |-> "AddIPCObject", name |-> k]
         IN  /\ \A j \in Conn : Keeps(conn'[j], conn[j])
             /\ \A j \in Conn \ {k} : /\ Stays(j)
                                      /\ Told(j, k) /\ Open(j) => add \in ToSet(conn'[j].toCli)
             /\ conn[k].srv = "naming" /\ conn'[k].srv = "connected"
             /\ Live(k)' => Live(k) /\ list \in ToSet(conn'[k].toCli)
<1> DEFINE list == [kind |-> "IPCObjectList", names |-> conn[k].list]
           add == [kind |-> "AddIPCObject", name |-> k]
           r1 == ToClient(conn[k], <<list>>)
           r2 == [r1 EXCEPT !.srv = "connected", !.list = {}]
<1>1. conn[k].srv = "naming" /\ list \in Message /\ add \in Message
  BY OnClientNamedMoves
<1>2. \A j \in Conn : conn[j] \in ConnType
  BY DEF ConnInv
<1>3. conn'[k] = r2
  BY OnClientNamedMoves
<1>4. /\ r1 \in ConnType /\ r1.cli = conn[k].cli /\ r1.cliUp = conn[k].cliUp
      /\ r1.srvUp = conn[k].srvUp /\ r1.lost = conn[k].lost
      /\ Open(k) => list \in ToSet(r1.toCli)
  BY <1>1, <1>2, Told1 DEF Open
<1>5. /\ r2.cli = r1.cli /\ r2.srv = "connected" /\ r2.cliUp = r1.cliUp
      /\ r2.srvUp = r1.srvUp /\ r2.lost = r1.lost /\ r2.toCli = r1.toCli
  <2> HIDE DEF r1
  <2> QED
    BY <1>4 DEF ConnType
<1>6. /\ Keeps(conn'[k], conn[k]) /\ conn'[k].srv = "connected"
      /\ Live(k)' => Live(k) /\ list \in ToSet(conn'[k].toCli)
  <2> HIDE DEF r1, r2, list
  <2> QED
    BY <1>1, <1>3, <1>4, <1>5 DEF Keeps, Live, Open
<1>7. ASSUME NEW j \in Conn \ {k}
      PROVE  /\ Keeps(conn'[j], conn[j]) /\ Stays(j)
             /\ Told(j, k) /\ Open(j) => add \in ToSet(conn'[j].toCli)
  <2>0. conn'[j] = IF Told(j, k) THEN ToClient(conn[j], <<add>>) ELSE conn[j]
    BY OnClientNamedMoves
  <2> DEFINE t == ToClient(conn[j], <<add>>)
  <2>1. CASE Told(j, k)
    <3>1. conn[j] \in ConnType
      BY <1>2
    <3>2. /\ t.cli = conn[j].cli /\ t.srv = conn[j].srv /\ t.cliUp = conn[j].cliUp
          /\ t.srvUp = conn[j].srvUp /\ t.lost = conn[j].lost /\ t.list = conn[j].list
          /\ ToSet(conn[j].toCli) \subseteq ToSet(t.toCli)
          /\ Open(j) => add \in ToSet(t.toCli)
      <4>1. add \in Message
        BY <1>1
      <4> HIDE DEF add, list, r1, r2
      <4> QED
        BY <3>1, <4>1, Told1 DEF Open
    <3>3. conn'[j] = t
      BY <2>0, <2>1
    <3> HIDE DEF t
    <3> QED
      BY <3>2, <3>3 DEF Keeps, Stays, Live, Open
  <2>2. CASE ~Told(j, k)
    BY <2>0, <2>2, SameKept
  <2> QED
    BY <2>1, <2>2
<1> QED
  BY <1>1, <1>6, <1>7

-----------------------------------------------------------------------------
(* Registered names *)
LEMMA RegisteredKept ==
  ASSUME RegisteredInv, \A j \in Conn : Keeps(conn'[j], conn[j]) /\ Follows(conn'[j], conn[j]),
         m_modules' = m_modules, clients' = clients, RestType
  PROVE  RegisteredInv'
<1>1. /\ \A c \in Client : m_modules[c] \subseteq Conn
      /\ clients \subseteq Conn
  BY DEF RestType
<1>2. ASSUME NEW c \in Client, NEW k \in m_modules[c]
      PROVE  k \in Of(c)' /\ conn'[k].cliNamed /\ conn'[k].cli \in {"connected", "stopped"}
  <2>1. k \in Conn /\ conn[k].of = c /\ conn[k].cliNamed /\ conn[k].cli \in {"connected", "stopped"}
    BY <1>2 DEF RegisteredInv, Of
  <2>2. c # NoClient
    BY ClientServerAssumption
  <2>3. conn'[k].of = c /\ conn'[k].cliNamed
    BY <2>1, <2>2 DEF Follows
  <2> QED
    BY <2>1, <2>3 DEF Keeps, Of
<1>3. ASSUME NEW k \in clients
      PROVE  conn'[k].srvNamed /\ conn'[k].srv \in {"naming", "connected", "stopped"}
  BY <1>1, <1>3 DEF RegisteredInv, Keeps, Follows
<1> QED
  BY <1>2, <1>3 DEF RegisteredInv

LEMMA RegisteredStep ==
  ASSUME ConnInv, RegisteredInv, Next
  PROVE  RegisteredInv'
<1>0. /\ \A j \in Conn : Follows(conn'[j], conn[j]) /\ Good(conn[j]) /\ Good(conn'[j])
      /\ RestType
  BY ConnStep DEF ConnInv
<1>1. CASE Elsewhere
  BY <1>0, <1>1, ElsewhereKeeps, SameKept, RegisteredKept
<1>2. ASSUME NEW c \in Client, Disconnect(c) PROVE RegisteredInv'
  <2>1. m_modules' = m_modules /\ clients' = clients
    BY <1>2 DEF Disconnect
  <2>2. \A j \in Conn : Keeps(conn'[j], conn[j])
    BY <1>2, DisconnectMoves, ShutKept
  <2> QED
    BY <1>0, <2>1, <2>2, RegisteredKept
<1>3. ASSUME NEW c \in Client, NEW k \in Conn, OnAddClientServerConnector(c, k)
      PROVE  RegisteredInv'
  <2>1. m_modules' = m_modules /\ clients' = clients
    BY <1>3 DEF OnAddClientServerConnector
  <2> QED
    BY <1>0, <1>3, <2>1, OnAddKeeps, RegisteredKept
<1>4. ASSUME NEW k \in Conn, OnSecondLogin(k) PROVE RegisteredInv'
  <2>1. m_modules' = m_modules /\ clients' = clients
    BY <1>4 DEF OnSecondLogin
  <2> QED
    BY <1>0, <1>4, <2>1, OnSecondLoginKeeps, RegisteredKept
<1>5. ASSUME NEW k \in Conn, OnClientName(k) PROVE RegisteredInv'
  <2>1. m_modules' = m_modules /\ clients' = clients \cup {k}
    BY <1>5 DEF OnClientName
  <2>2. conn'[k].srv = "naming" /\ conn'[k].srvNamed
    BY <1>0, <1>5, OnClientNameKeeps DEF Good, EndsOK
  <2>3. \A j \in Conn : Keeps(conn'[j], conn[j])
    BY <1>5, OnClientNameKeeps
  <2>4. \A c \in Client : \A j \in m_modules[c] :
          j \in Of(c)' /\ conn'[j].cliNamed /\ conn'[j].cli \in {"connected", "stopped"}
    BY <1>0, <2>3, ClientServerAssumption DEF RegisteredInv, Of, Keeps, Follows
  <2>5. \A j \in clients : conn'[j].srvNamed /\ conn'[j].srv \in {"naming", "connected", "stopped"}
    BY <1>0, <2>3 DEF RegisteredInv, Keeps, Follows, RestType
  <2> QED
    BY <2>1, <2>2, <2>4, <2>5 DEF RegisteredInv
<1>6. ASSUME NEW k \in Conn, OnClientNamed(k) PROVE RegisteredInv'
  <2>1. m_modules' = m_modules /\ clients' = clients
    BY <1>6 DEF OnClientNamed
  <2>2. \A j \in Conn : Keeps(conn'[j], conn[j])
    BY <1>6, OnClientNamedKeeps
  <2> QED
    BY <1>0, <2>1, <2>2, RegisteredKept
<1>7. ASSUME NEW k \in Conn, ServerEnds(k) PROVE RegisteredInv'
  <2>1. m_modules' = m_modules /\ clients' = clients
    BY <1>7 DEF ServerEnds
  <2> QED
    BY <1>0, <1>7, <2>1, ServerEndsKeeps, RegisteredKept
<1>8. ASSUME NEW k \in Conn, Within(k) PROVE RegisteredInv'
  <2>0. \A j \in Conn \ {k} : conn'[j] = conn[j]
    BY <1>8, WithinKeeps
  <2>1. CASE OnServerDisconnected(k)
    <3>1. /\ clients' = clients
          /\ \A c \in Client : m_modules'[c] \subseteq m_modules[c]
          /\ k \notin m_modules'[conn[k].of] \/ conn[k].of \notin Client
      BY <1>0, <2>1 DEF OnServerDisconnected, RestType, listener
    <3>2. conn'[k] = [conn[k] EXCEPT !.cli = "gone"]
      BY <2>1, OnServerDisconnectedMoves, MovesOne
    <3>3. conn'[k].of = conn[k].of /\ conn'[k].srvNamed = conn[k].srvNamed
          /\ conn'[k].srv = conn[k].srv
      BY <1>0, <3>2 DEF Good, ConnType
    <3>4. ASSUME NEW c \in Client, NEW j \in m_modules'[c]
          PROVE  j \in Of(c)' /\ conn'[j].cliNamed /\ conn'[j].cli \in {"connected", "stopped"}
      <4>1. j \in Of(c) /\ conn[j].cliNamed /\ conn[j].cli \in {"connected", "stopped"}
        BY <3>1, <3>4 DEF RegisteredInv
      <4>2. j # k
        BY <3>1, <3>4, <4>1 DEF Of
      <4> QED
        BY <2>0, <4>1, <4>2 DEF Of
    <3>5. \A j \in clients :
            conn'[j].srvNamed /\ conn'[j].srv \in {"naming", "connected", "stopped"}
      BY <1>0, <2>0, <3>3 DEF RegisteredInv, RestType
    <3> QED
      BY <3>1, <3>4, <3>5 DEF RegisteredInv
  <2>2. CASE OnClientDisconnected(k)
    <3>1. m_modules' = m_modules /\ clients' = clients \ {k}
      BY <2>2 DEF OnClientDisconnected
    <3>2. conn'[k] = [conn[k] EXCEPT !.srv = "gone"]
      BY <2>2, OnClientDisconnectedMoves, MovesOne
    <3>3. conn'[k].of = conn[k].of /\ conn'[k].cliNamed = conn[k].cliNamed
          /\ conn'[k].cli = conn[k].cli
      BY <1>0, <3>2 DEF Good, ConnType
    <3>4. \A c \in Client : \A j \in m_modules[c] :
            j \in Of(c)' /\ conn'[j].cliNamed /\ conn'[j].cli \in {"connected", "stopped"}
      BY <2>0, <3>3 DEF RegisteredInv, Of
    <3>5. \A j \in clients \ {k} :
            conn'[j].srvNamed /\ conn'[j].srv \in {"naming", "connected", "stopped"}
      BY <1>0, <2>0 DEF RegisteredInv, RestType
    <3> QED
      BY <3>1, <3>4, <3>5 DEF RegisteredInv
  <2>3. CASE OnServerName(k)
    <3>1. clients' = clients /\ conn[k].of \in Client
          /\ m_modules' = [m_modules EXCEPT ![conn[k].of] = @ \cup {k}]
      BY <1>0, <2>3 DEF OnServerName, Received, Good, ConnType, EndsOK
    <3>2. conn'[k] = [conn[k] EXCEPT !.toCli = Tail(conn[k].toCli), !.cli = "connected"]
      BY <2>3, OnServerNameMoves, MovesOne
    <3>3. /\ conn'[k].cli = "connected" /\ conn'[k].cliNamed /\ conn'[k].of = conn[k].of
          /\ conn'[k].srv = conn[k].srv
      BY <1>0, <3>2 DEF Good, EndsOK, ConnType
    <3>4. \A j \in Conn : Keeps(conn'[j], conn[j])
      BY <2>0, <3>3 DEF Keeps
    <3>5. \A c \in Client : \A j \in m_modules[c] :
            j \in Of(c)' /\ conn'[j].cliNamed /\ conn'[j].cli \in {"connected", "stopped"}
      BY <1>0, <3>4, ClientServerAssumption DEF RegisteredInv, Of, Keeps, Follows
    <3>6. \A j \in clients :
            conn'[j].srvNamed /\ conn'[j].srv \in {"naming", "connected", "stopped"}
      BY <1>0, <3>4 DEF RegisteredInv, Keeps, Follows, RestType
    <3>7. \A c \in Client : m_modules'[c] \subseteq
                              m_modules[c] \cup (IF c = conn[k].of THEN {k} ELSE {})
      BY <1>0, <3>1 DEF RestType
    <3>8. \A c \in Client : \A j \in m_modules'[c] :
            j \in Of(c)' /\ conn'[j].cliNamed /\ conn'[j].cli \in {"connected", "stopped"}
      BY <3>3, <3>5, <3>7 DEF Of
    <3> QED
      BY <3>1, <3>6, <3>8 DEF RegisteredInv
  <2>4. CASE ~OnServerDisconnected(k) /\ ~OnClientDisconnected(k) /\ ~OnServerName(k)
    <3>1. m_modules' = m_modules /\ clients' = clients
      BY <1>8, <2>4 DEF Within, AddConnection, OnLoginFailure, OnLoginResult, SetOwnSession,
                        SetSession, OnIPCObject, OnLogin, Lose, DisconnectFromClient, ClientEnds
    <3>2. \A j \in Conn : Keeps(conn'[j], conn[j])
      BY <1>8, <2>0, <2>4, SameKept, WithinKeeps
    <3> QED
      BY <1>0, <3>1, <3>2, RegisteredKept
  <2> QED
    BY <2>1, <2>2, <2>3, <2>4
<1> QED
  BY <1>1, <1>2, <1>3, <1>4, <1>5, <1>6, <1>7, <1>8, Cases

LEMMA RegisteredAlways == Spec => []RegisteredInv
<1>1. Init => RegisteredInv
  BY DEF Init, RegisteredInv
<1>2. RegisteredInv /\ UNCHANGED vars => RegisteredInv'
  BY DEF vars, RegisteredInv, Of
<1>3. ConnInv /\ RegisteredInv /\ [Next]_vars => RegisteredInv'
  BY <1>2, RegisteredStep
<1> QED
  BY <1>1, <1>3, ConnAlways, PTL DEF Spec

-----------------------------------------------------------------------------
(* Listed names *)
LEMMA ShareKept ==
  ASSUME ConnInv, ShareInv, NEW c \in Client, NEW j \in m_ipcObject[c],
         \A i \in Conn : Follows(conn'[i], conn[i]),
         \A k \in Of(c) : conn[k].cliNamed /\ conn[k].cli # "gone" /\ UserOf(k) = UserOf(j) =>
                            conn'[k].cli # "gone"
  PROVE  /\ conn'[j].srvNamed
         /\ \E k \in Of(c)' : conn'[k].cliNamed /\ conn'[k].cli # "gone" /\ (UserOf(k) = UserOf(j))'
<1>1. j \in Conn
  BY DEF ConnInv, RestType
<1>2. conn[j].srvNamed /\ conn[j].of # NoClient
  BY <1>1 DEF ShareInv, ConnInv, Good, EndsOK
<1>3. PICK k \in Of(c) : conn[k].cliNamed /\ conn[k].cli # "gone" /\ UserOf(k) = UserOf(j)
  BY DEF ShareInv
<1>4. k \in Conn /\ conn[k].of = c /\ c # NoClient
  BY ClientServerAssumption DEF Of
<1>5. /\ conn'[j].srvNamed /\ conn'[j].cred = conn[j].cred
      /\ conn'[k].cliNamed /\ conn'[k].cred = conn[k].cred /\ conn'[k].of = c
  BY <1>1, <1>2, <1>3, <1>4 DEF Follows
<1>6. k \in Of(c)' /\ (UserOf(k) = UserOf(j))'
  BY <1>3, <1>4, <1>5 DEF Of, UserOf
<1> QED
  BY <1>3, <1>5, <1>6

LEMMA ShareSame ==
  ASSUME ConnInv, ShareInv, m_ipcObject' = m_ipcObject,
         \A j \in Conn : Keeps(conn'[j], conn[j]) /\ Follows(conn'[j], conn[j])
  PROVE  ShareInv'
<1>1. ASSUME NEW c \in Client, NEW j \in m_ipcObject[c]
      PROVE  /\ conn'[j].srvNamed
             /\ \E k \in Of(c)' : conn'[k].cliNamed /\ conn'[k].cli # "gone"
                                  /\ (UserOf(k) = UserOf(j))'
  BY ShareKept DEF Keeps, Of
<1> QED
  BY <1>1 DEF ShareInv

LEMMA ShareStep ==
  ASSUME ConnInv, ShareInv, Next
  PROVE  ShareInv'
<1>0. \A j \in Conn : Follows(conn'[j], conn[j]) /\ Good(conn[j]) /\ Good(conn'[j])
  BY ConnStep DEF ConnInv
<1>1. CASE Elsewhere
  BY <1>0, <1>1, ElsewhereKeeps, SameKept, ShareSame
<1>2. ASSUME NEW c \in Client, Disconnect(c) PROVE ShareInv'
  <2>1. m_ipcObject' = m_ipcObject
    BY <1>2 DEF Disconnect
  <2>2. \A j \in Conn : Keeps(conn'[j], conn[j])
    BY <1>2, DisconnectMoves, ShutKept
  <2> QED
    BY <1>0, <2>1, <2>2, ShareSame
<1>3. ASSUME NEW c \in Client, NEW k \in Conn, OnAddClientServerConnector(c, k)
      PROVE  ShareInv'
  <2>1. m_ipcObject' = m_ipcObject
    BY <1>3 DEF OnAddClientServerConnector
  <2> QED
    BY <1>0, <1>3, <2>1, OnAddKeeps, ShareSame
<1>4. ASSUME NEW k \in Conn, OnSecondLogin(k) PROVE ShareInv'
  <2>1. m_ipcObject' = m_ipcObject
    BY <1>4 DEF OnSecondLogin
  <2> QED
    BY <1>0, <1>4, <2>1, OnSecondLoginKeeps, ShareSame
<1>5. ASSUME NEW k \in Conn, OnClientName(k) PROVE ShareInv'
  <2>1. m_ipcObject' = m_ipcObject
    BY <1>5 DEF OnClientName
  <2> QED
    BY <1>0, <1>5, <2>1, OnClientNameKeeps, ShareSame
<1>6. ASSUME NEW k \in Conn, OnClientNamed(k) PROVE ShareInv'
  <2>1. m_ipcObject' = m_ipcObject
    BY <1>6 DEF OnClientNamed
  <2>2. \A j \in Conn : Keeps(conn'[j], conn[j])
    BY <1>6, OnClientNamedKeeps
  <2> QED
    BY <1>0, <2>1, <2>2, ShareSame
<1>7. ASSUME NEW k \in Conn, ServerEnds(k) PROVE ShareInv'
  <2>1. m_ipcObject' = m_ipcObject
    BY <1>7 DEF ServerEnds
  <2> QED
    BY <1>0, <1>7, <2>1, ServerEndsKeeps, ShareSame
<1>8. ASSUME NEW k \in Conn, Within(k) PROVE ShareInv'
  <2>0. \A j \in Conn \ {k} : conn'[j] = conn[j]
    BY <1>8, WithinKeeps
  <2>1. CASE OnServerDisconnected(k)
    <3> DEFINE c == conn[k].of
    <3>1. /\ c \in Client /\ conn[k].cli = "stopped"
          /\ m_ipcObject' = [m_ipcObject EXCEPT ![c] = @ \ Dropped(c, k)]
      BY <1>0, <2>1 DEF OnServerDisconnected, Good, ConnType, EndsOK
    <3>2. ASSUME NEW d \in Client, NEW j \in m_ipcObject'[d]
          PROVE  /\ conn'[j].srvNamed
                 /\ \E i \in Of(d)' : conn'[i].cliNamed /\ conn'[i].cli # "gone"
                                      /\ (UserOf(i) = UserOf(j))'
      <4>1. /\ j \in m_ipcObject[d]
            /\ d = c => j \notin Dropped(c, k)
        BY <3>1, <3>2 DEF ConnInv, RestType
      <4>2. ASSUME NEW i \in Of(d), conn[i].cliNamed, conn[i].cli # "gone", UserOf(i) = UserOf(j)
            PROVE  conn'[i].cli # "gone"
        <5>1. i # k
          BY <4>1, <4>2 DEF Dropped, Of
        <5> QED
          BY <2>0, <4>2, <5>1 DEF Of
      <4> QED
        BY <1>0, <4>1, <4>2, ShareKept
    <3> QED
      BY <3>2 DEF ShareInv
  <2>2. CASE OnIPCObject(k)
    <3> DEFINE c == conn[k].of
               m == Head(conn[k].toCli)
    <3>1. /\ c \in Client /\ conn[k].cli \in {"login", "session", "connected"}
          /\ conn[k].toCli # <<>>
          /\ m.kind \in {"IPCObjectList", "AddIPCObject", "RemoveIPCObject"}
          /\ m_ipcObject' = [m_ipcObject EXCEPT ![c] =
               CASE m.kind = "IPCObjectList" -> @ \cup m.names
                 [] m.kind = "AddIPCObject" -> @ \cup {m.name}
                 [] m.kind = "RemoveIPCObject" -> @ \ {m.name}]
      BY <1>0, <2>2 DEF OnIPCObject, Received, Good, ConnType, EndsOK
    <3>2. m \in ToSet(conn[k].toCli) /\ m \in Message
      BY <3>1, HeadTyped
    <3>3. conn'[k] = [conn[k] EXCEPT !.toCli = Tail(conn[k].toCli), !.cli = conn[k].cli]
      BY <2>2, OnIPCObjectMoves, MovesOne
    <3>4. /\ conn'[k].cli = conn[k].cli /\ conn'[k].cliNamed = conn[k].cliNamed
          /\ conn'[k].of = c /\ conn'[k].cred = conn[k].cred /\ conn'[k].srvNamed = conn[k].srvNamed
      BY <1>0, <3>3 DEF Good, ConnType
    <3>5. \A j \in Conn : /\ conn'[j].cli = conn[j].cli /\ conn'[j].cred = conn[j].cred
                          /\ conn'[j].srvNamed = conn[j].srvNamed
      BY <2>0, <3>4
    <3>6. ASSUME NEW d \in Client, d = c, NEW n, SameUser(n, k), n \in Conn, m.kind \in NameKind
          PROVE  /\ conn'[n].srvNamed
                 /\ \E i \in Of(d)' : conn'[i].cliNamed /\ conn'[i].cli # "gone"
                                      /\ (UserOf(i) = UserOf(n))'
      <4>1. conn[k].cliNamed
        <5>1. conn[k].cli # "login"
          <6>1. conn[k].toCli \in Seq(Message)
            BY DEF ConnInv, ConnType
          <6>2. NamesBehind(conn[k].toCli) => m.kind \notin NameKind
            BY <3>1, <6>1, TakeOrder
          <6> QED
            BY <1>0, <3>6, <6>2 DEF Good, OrderOK
        <5> QED
          BY <1>0, <3>1, <5>1 DEF Good, EndsOK
      <4>2. k \in Of(d)' /\ conn'[k].cliNamed /\ conn'[k].cli # "gone" /\ (UserOf(k) = UserOf(n))'
        BY <3>1, <3>4, <3>5, <3>6, <4>1 DEF Of, SameUser, UserOf
      <4> QED
        BY <3>5, <3>6, <4>2 DEF SameUser
    <3>7. Says(m, k)
      BY <3>2 DEF ConnInv, NamesOK
    <3>8. /\ m.kind = "IPCObjectList" => m.names \subseteq Conn
          /\ m.kind = "AddIPCObject" => m.name \in Conn
      BY <3>2 DEF Message
    <3>9. ASSUME NEW d \in Client, NEW j \in m_ipcObject'[d]
          PROVE  /\ conn'[j].srvNamed
                 /\ \E i \in Of(d)' : conn'[i].cliNamed /\ conn'[i].cli # "gone"
                                      /\ (UserOf(i) = UserOf(j))'
      <4>1. \/ j \in m_ipcObject[d]
            \/ d = c /\ m.kind = "IPCObjectList" /\ j \in m.names
            \/ d = c /\ m.kind = "AddIPCObject" /\ j = m.name
        <5> HIDE DEF m, c
        <5> QED
          BY <3>1, <3>9 DEF ConnInv, RestType
      <4>2. CASE j \in m_ipcObject[d]
        <5>1. \A i \in Of(d) : conn[i].cli # "gone" => conn'[i].cli # "gone"
          BY <3>5 DEF Of
        <5> QED
          BY <1>0, <4>2, <5>1, ShareKept
      <4>3. CASE d = c /\ m.kind = "IPCObjectList" /\ j \in m.names
        <5>1. SameUser(j, k) /\ j \in Conn /\ m.kind \in NameKind
          BY <3>7, <3>8, <4>3 DEF Says, NameKind
        <5> HIDE DEF m, c
        <5> QED
          BY <3>6, <4>3, <5>1
      <4>4. CASE d = c /\ m.kind = "AddIPCObject" /\ j = m.name
        <5>1. SameUser(j, k) /\ j \in Conn /\ m.kind \in NameKind
          BY <3>7, <3>8, <4>4 DEF Says, NameKind
        <5> HIDE DEF m, c
        <5> QED
          BY <3>6, <4>4, <5>1
      <4> QED
        BY <4>1, <4>2, <4>3, <4>4
    <3> QED
      BY <3>9 DEF ShareInv
  <2>3. CASE OnClientDisconnected(k)
    <3>1. m_ipcObject' = m_ipcObject
      BY <2>3 DEF OnClientDisconnected
    <3>2. conn'[k] = [conn[k] EXCEPT !.srv = "gone"]
      BY <2>3, OnClientDisconnectedMoves, MovesOne
    <3>3. conn'[k].cli = conn[k].cli
      BY <1>0, <3>2 DEF Good, ConnType
    <3>4. ASSUME NEW c \in Client, NEW j \in m_ipcObject[c]
          PROVE  /\ conn'[j].srvNamed
                 /\ \E i \in Of(c)' : conn'[i].cliNamed /\ conn'[i].cli # "gone"
                                      /\ (UserOf(i) = UserOf(j))'
      <4>1. \A i \in Of(c) : conn[i].cli # "gone" => conn'[i].cli # "gone"
        BY <2>0, <3>3 DEF Of
      <4> QED
        BY <1>0, <4>1, ShareKept
    <3> QED
      BY <3>1, <3>4 DEF ShareInv
  <2>4. CASE ~OnServerDisconnected(k) /\ ~OnClientDisconnected(k) /\ ~OnIPCObject(k)
    <3>1. m_ipcObject' = m_ipcObject
      BY <1>8, <2>4 DEF Within, AddConnection, OnLoginFailure, OnLoginResult, SetOwnSession,
                        SetSession, OnServerName, OnLogin, Lose, DisconnectFromClient, ClientEnds
    <3>2. \A j \in Conn : Keeps(conn'[j], conn[j])
      BY <1>8, <2>0, <2>4, SameKept, WithinKeeps
    <3> QED
      BY <1>0, <3>1, <3>2, ShareSame
  <2> QED
    BY <2>1, <2>2, <2>3, <2>4
<1> QED
  BY <1>1, <1>2, <1>3, <1>4, <1>5, <1>6, <1>7, <1>8, Cases

(* onDisconnected drops the names of an access id with the session that brought them, and a
   server announces a name only to connectors of the same user: a client's list never holds
   a name it has no session for.                                                          *)
THEOREM ListsShareSessions == Spec => []ListedShareSession
<1>1. Init => ShareInv
  BY DEF Init, ShareInv
<1>2. ShareInv /\ UNCHANGED vars => ShareInv'
  BY DEF vars, ShareInv, Of, UserOf
<1>3. ConnInv /\ ShareInv /\ [Next]_vars => ShareInv'
  BY <1>2, ShareStep
<1>4. ShareInv => ListedShareSession
  BY DEF ShareInv, ListedShareSession
<1> QED
  BY <1>1, <1>3, <1>4, ConnAlways, PTL DEF Spec

-----------------------------------------------------------------------------
(* A client that wants a connection *)
Stands(k) ==
  /\ conn'[k].of = conn[k].of
  /\ conn[k].cli \in OwnState /\ (Ended(k) => conn[k].cliNamed) =>
       conn'[k].cli \in OwnState /\ (Ended(k)' => conn'[k].cliNamed)
  /\ conn'[k].cli = "gone" => conn[k].cli = "gone"

LEMMA SameStands ==
  ASSUME NEW k \in Conn, conn'[k].of = conn[k].of, conn'[k].cli = conn[k].cli,
         conn'[k].cliNamed = conn[k].cliNamed
  PROVE  Stands(k) /\ (Carries(k) => Carries(k)')
BY DEF Stands, Ended, Carries

LEMMA PursuitKept ==
  ASSUME NEW c \in Client, Pursuit(c), \A k \in Conn : Stands(k),
         m_ownSessionId[c] = NoSession => \A k \in Of(c) : Carries(k) => Carries(k)',
         m_ownSessionId'[c] = m_ownSessionId[c], m_isStopConnect'[c] = m_isStopConnect[c],
         connecting'[c] = connecting[c],
         m_bConnectToServerRequest'[c] = m_bConnectToServerRequest[c],
         gaveUp \subseteq gaveUp'
  PROVE  Pursuit(c)'
<1>1. Of(c)' = Of(c) /\ Of(c) \subseteq Conn
  BY DEF Of, Stands
<1>2. m_ownSessionId[c] # NoSession =>
        LET k == m_ownSessionId[c] IN
        /\ k \in Of(c) /\ conn'[k].cli \in OwnState /\ (Ended(k)' => conn'[k].cliNamed)
        /\ conn'[k].cli = "gone" => c \in gaveUp'
  BY <1>1 DEF Pursuit, Stands
<1>3. m_ownSessionId'[c] # NoSession =>
        (Ended(m_ownSessionId[c])' <=> conn'[m_ownSessionId[c]].cli \in {"stopped", "gone"})
  BY DEF Ended
<1>4. (\E k \in Of(c) : Carries(k)) /\ m_ownSessionId[c] = NoSession => \E k \in Of(c)' : Carries(k)'
  BY <1>1
<1> QED
  BY <1>1, <1>2, <1>3, <1>4 DEF Pursuit, Ended

(* Steps that change neither a client's wishes nor its session *)
Calm == UNCHANGED <<m_ownSessionId, m_isStopConnect, connecting, m_bConnectToServerRequest, gaveUp>>

LEMMA PursuitSame ==
  ASSUME PursuitInv, Calm, \A k \in Conn : Stands(k) /\ (Carries(k) => Carries(k)')
  PROVE  PursuitInv'
<1>1. ASSUME NEW c \in Client PROVE Pursuit(c)'
  <2>1. Of(c) \subseteq Conn /\ Pursuit(c)
    BY DEF Of, PursuitInv
  <2> QED
    BY <2>1, PursuitKept DEF Calm
<1> QED
  BY <1>1 DEF PursuitInv

LEMMA PursuitElsewhere ==
  ASSUME ConnInv, PursuitInv, Elsewhere
  PROVE  PursuitInv'
<1>0. conn' = conn /\ \A k \in Conn : Stands(k) /\ (Carries(k) => Carries(k)')
  BY ElsewhereKeeps, SameStands
<1>1. RestType
  BY DEF ConnInv
<1>2. ASSUME NEW c \in Client,
             (\E cred \in Credential : ConnectToServer(c, cred)) \/ ManagerFunc(c)
      PROVE  PursuitInv'
  <2>1. /\ m_isStopConnect' = [m_isStopConnect EXCEPT ![c] = FALSE]
        /\ connecting' = [connecting EXCEPT ![c] = @ + 1]
        /\ m_ownSessionId' = m_ownSessionId /\ gaveUp' = gaveUp
        /\ \A d \in Client \ {c} : m_bConnectToServerRequest'[d] = m_bConnectToServerRequest[d]
    BY <1>1, <1>2 DEF ConnectToServer, ManagerFunc, Connect, history, RestType
  <2>2. ~m_isStopConnect'[c] /\ connecting'[c] > 0
    BY <1>1, <2>1 DEF RestType
  <2>3. Pursuit(c)'
    BY <1>0, <2>1, <2>2 DEF PursuitInv, Pursuit, Of, Ended
  <2>4. ASSUME NEW d \in Client \ {c} PROVE Pursuit(d)'
    <3>1. /\ m_isStopConnect'[d] = m_isStopConnect[d] /\ connecting'[d] = connecting[d]
          /\ Pursuit(d) /\ Of(d) \subseteq Conn
      BY <1>1, <2>1 DEF RestType, PursuitInv, Of
    <3> QED
      BY <1>0, <2>1, <3>1, PursuitKept
  <2> QED
    BY <2>3, <2>4 DEF PursuitInv
<1>3. ASSUME NEW c \in Client, DisconnectReturns(c) PROVE PursuitInv'
  <2>1. /\ m_isStopConnect' = [m_isStopConnect EXCEPT ![c] = TRUE]
        /\ gaveUp' = gaveUp \cup {c}
        /\ UNCHANGED <<m_ownSessionId, connecting, m_bConnectToServerRequest>>
    BY <1>3 DEF DisconnectReturns
  <2>2. m_isStopConnect'[c] /\ c \in gaveUp'
    BY <1>1, <2>1 DEF RestType
  <2>3. Pursuit(c)'
    BY <1>0, <2>1, <2>2 DEF PursuitInv, Pursuit, Of, Ended
  <2>4. ASSUME NEW d \in Client \ {c} PROVE Pursuit(d)'
    <3>1. /\ m_isStopConnect'[d] = m_isStopConnect[d]
          /\ Pursuit(d) /\ Of(d) \subseteq Conn
      BY <1>1, <2>1 DEF RestType, PursuitInv, Of
    <3> QED
      BY <1>0, <2>1, <3>1, PursuitKept
  <2> QED
    BY <2>3, <2>4 DEF PursuitInv
<1>4. ASSUME NEW c \in Client, OnErrorConnect(c) PROVE PursuitInv'
  <2>1. /\ connecting[c] > 0 /\ connecting' = [connecting EXCEPT ![c] = @ - 1]
        /\ m_bConnectToServerRequest' =
             [m_bConnectToServerRequest EXCEPT ![c] = @ \/ ~m_isStopConnect[c]]
        /\ UNCHANGED <<m_ownSessionId, m_isStopConnect, gaveUp>>
    BY <1>4 DEF OnErrorConnect, history
  <2>2. m_bConnectToServerRequest'[c] \/ m_isStopConnect[c]
    BY <1>1, <2>1 DEF RestType
  <2>3. connecting[c] # 0
    BY <1>1, <2>1 DEF RestType
  <2>5. Pursuit(c)'
    BY <1>0, <2>1, <2>2, <2>3 DEF PursuitInv, Pursuit, Of, Ended
  <2>4. ASSUME NEW d \in Client \ {c} PROVE Pursuit(d)'
    <3>1. /\ m_bConnectToServerRequest'[d] = m_bConnectToServerRequest[d]
          /\ connecting'[d] = connecting[d]
          /\ Pursuit(d) /\ Of(d) \subseteq Conn
      BY <1>1, <2>1 DEF RestType, PursuitInv, Of
    <3> QED
      BY <1>0, <2>1, <3>1, PursuitKept
  <2> QED
    BY <2>4, <2>5 DEF PursuitInv
<1>5. ASSUME \/ SetUsersList \/ StartServer \/ StopServer
             \/ \E u \in User : RemoveUser(u)
             \/ \E i \in 1..MaxStart : OnCreatedListener(i) \/ OnErrorListener(i)
      PROVE  PursuitInv'
  <2>1. Calm
    BY <1>5 DEF Calm, SetUsersList, AddUser, ClearUsers, StartServer, StopServer, RemoveUser,
                OnCreatedListener, OnErrorListener, request, history
  <2> QED
    BY <1>0, <2>1, PursuitSame
<1> QED
  BY <1>2, <1>3, <1>4, <1>5 DEF Elsewhere

LEMMA PursuitWithin ==
  ASSUME ConnInv, PursuitInv, NEW k \in Conn, Within(k)
  PROVE  PursuitInv'
<1>0. /\ RestType /\ conn[k] \in ConnType /\ Good(conn[k])
      /\ \A x : Moves(k, x) => conn'[k] = x
  BY MovesOne DEF ConnInv
<1>1. \A j \in Conn \ {k} : Stands(j) /\ (Carries(j) => Carries(j)')
  BY WithinKeeps, SameStands
<1>2. ASSUME Calm, Stands(k), Carries(k) => Carries(k)' PROVE PursuitInv'
  BY <1>1, <1>2, PursuitSame
<1>3. ASSUME Calm, conn'[k].of = conn[k].of, conn'[k].cli = conn[k].cli,
             conn'[k].cliNamed = conn[k].cliNamed
      PROVE  PursuitInv'
  BY <1>2, <1>3, SameStands
<1>4. conn[k].cli \in {"login", "deciding", "stopped", "connected"} => conn[k].of \in Client
  BY <1>0 DEF Good, ConnType, EndsOK
<1> USE DEF request, history
<1>5. CASE AddConnection(k)
  <2>1. Calm /\ conn'[k] = [conn[k] EXCEPT !.listed = TRUE]
    BY <1>0, <1>5, AddConnectionMoves DEF AddConnection, Calm
  <2> QED
    BY <1>0, <1>3, <2>1 DEF ConnType
<1>6. CASE OnLogin(k)
  <2>1. Calm
    BY <1>6 DEF OnLogin, Calm
  <2>2. PICK q, p :
          \/ Moves(k, [conn[k] EXCEPT !.toCli = q, !.toSrv = p, !.srv = "session",
                                      !.srvNamed = TRUE])
          \/ Moves(k, [conn[k] EXCEPT !.toCli = q, !.toSrv = p, !.srvUp = FALSE])
    BY <1>6, OnLoginMoves
  <2>3. \/ conn'[k] = [conn[k] EXCEPT !.toCli = q, !.toSrv = p, !.srv = "session",
                                      !.srvNamed = TRUE]
        \/ conn'[k] = [conn[k] EXCEPT !.toCli = q, !.toSrv = p, !.srvUp = FALSE]
    BY <1>0, <2>2
  <2> QED
    BY <1>0, <1>3, <2>1, <2>3 DEF ConnType
<1>7. CASE Lose(k)
  <2>1. Calm /\ conn'[k] = [conn[k] EXCEPT !.lost = TRUE]
    BY <1>0, <1>7, LoseMoves DEF Lose, Calm
  <2> QED
    BY <1>0, <1>3, <2>1 DEF ConnType
<1>8. CASE DisconnectFromClient(k)
  <2>1. Calm /\ conn'[k] = [conn[k] EXCEPT !.srvUp = FALSE]
    BY <1>0, <1>8, DisconnectFromClientMoves DEF DisconnectFromClient, Calm
  <2> QED
    BY <1>0, <1>3, <2>1 DEF ConnType
<1>9. CASE OnClientDisconnected(k)
  <2>1. Calm /\ conn'[k] = [conn[k] EXCEPT !.srv = "gone"]
    BY <1>0, <1>9, OnClientDisconnectedMoves DEF OnClientDisconnected, Calm
  <2> QED
    BY <1>0, <1>3, <2>1 DEF ConnType
<1>10. CASE OnIPCObject(k)
  <2>1. Calm /\ conn'[k] = [conn[k] EXCEPT !.toCli = Tail(conn[k].toCli), !.cli = conn[k].cli]
    BY <1>0, <1>10, OnIPCObjectMoves DEF OnIPCObject, Calm
  <2> QED
    BY <1>0, <1>3, <2>1 DEF ConnType
<1>11. CASE OnServerName(k)
  <2>1. /\ Calm /\ conn[k].toCli # <<>> /\ Head(conn[k].toCli).kind = "ModuleName"
        /\ conn'[k] = [conn[k] EXCEPT !.toCli = Tail(conn[k].toCli), !.cli = "connected"]
    BY <1>0, <1>11, OnServerNameMoves DEF OnServerName, Received, Calm
  <2>2. conn[k].cli \in {"session", "connected"}
    <3>1. conn[k].cli \in {"login", "session", "connected"}
      BY <1>11 DEF OnServerName, Received
    <3>2. conn[k].toCli \in Seq(Message)
      BY <1>0 DEF ConnType
    <3>3. ~NamesBehind(conn[k].toCli)
      BY <2>1, <3>2, TakeOrder DEF NameKind
    <3> QED
      BY <1>0, <3>1, <3>3 DEF Good, OrderOK
  <2>3. conn'[k].of = conn[k].of /\ conn'[k].cli = "connected"
    BY <1>0, <2>1 DEF ConnType
  <2>4. Stands(k) /\ (Carries(k) => Carries(k)')
    BY <2>2, <2>3 DEF Stands, Carries, OwnState, Ended
  <2> QED
    BY <1>2, <2>1, <2>4
<1>12. CASE SetSession(k)
  <2>1. Calm /\ conn[k].cli = "owning"
    BY <1>12 DEF SetSession, Calm
  <2>2. PICK q : conn'[k] = [conn[k] EXCEPT !.toSrv = q, !.cli = "session", !.cliNamed = TRUE]
    BY <1>0, <1>12, SetSessionMoves
  <2>3. conn'[k].of = conn[k].of /\ conn'[k].cli = "session"
    BY <1>0, <2>2 DEF ConnType
  <2>4. Stands(k) /\ (Carries(k) => Carries(k)')
    BY <2>1, <2>3 DEF Stands, Carries, OwnState, Ended
  <2> QED
    BY <1>2, <2>1, <2>4
<1>13. CASE OnLoginResult(k)
  <2>1. /\ Calm /\ conn[k].toCli # <<>> /\ Head(conn[k].toCli).kind = "LoginResult"
        /\ conn'[k] = [conn[k] EXCEPT !.toCli = Tail(conn[k].toCli), !.cli = "deciding"]
    BY <1>0, <1>13, OnLoginResultMoves DEF OnLoginResult, Received, Calm
  <2>2. conn[k].cli = "login"
    BY <1>0, <2>1, HeadTyped DEF Good, OrderOK, HasKind
  <2>3. conn'[k].of = conn[k].of /\ conn'[k].cli = "deciding"
    BY <1>0, <2>1 DEF ConnType
  <2>4. Stands(k) /\ (Carries(k) => Carries(k)')
    BY <2>2, <2>3 DEF Stands, Carries, OwnState, Ended
  <2> QED
    BY <1>2, <2>1, <2>4
<1>14. CASE ClientEnds(k)
  <2>1. /\ Calm /\ conn[k].cli \in {"login", "session", "connected"}
        /\ conn'[k] = [conn[k] EXCEPT !.cli = "stopped", !.cliUp = FALSE, !.toCli = <<>>]
    BY <1>0, <1>14, ClientEndsMoves DEF ClientEnds, Calm
  <2>2. /\ conn'[k].of = conn[k].of /\ conn'[k].cli = "stopped"
        /\ conn'[k].cliNamed = conn[k].cliNamed
        /\ conn[k].cliNamed <=> conn[k].cli \in {"session", "connected"}
    BY <1>0, <2>1 DEF ConnType, Good, EndsOK
  <2>4. Stands(k) /\ (Carries(k) => Carries(k)')
    BY <2>1, <2>2 DEF Stands, Carries, OwnState, Ended
  <2> QED
    BY <1>2, <2>1, <2>4
<1>15. CASE OnLoginFailure(k)
  <2>0. conn[k].toCli # <<>> /\ Head(conn[k].toCli).kind = "LoginResult"
    BY <1>15 DEF OnLoginFailure, Received
  <2>5. conn[k].of \in Client
    <3>1. conn[k].cli = "login"
      BY <1>0, <2>0, HeadTyped DEF Good, OrderOK, HasKind
    <3> QED
      BY <1>4, <3>1
  <2>9. PICK c \in Client : c = conn[k].of
    BY <2>5
  <2>1. /\ m_isStopConnect' = [m_isStopConnect EXCEPT ![c] = TRUE]
        /\ gaveUp' = gaveUp \cup {c}
        /\ UNCHANGED <<m_ownSessionId, connecting, m_bConnectToServerRequest>>
    BY <1>15, <2>9 DEF OnLoginFailure
  <2>2. conn'[k] = [conn[k] EXCEPT !.toCli = Tail(conn[k].toCli), !.cliUp = FALSE]
    BY <1>0, <1>15, OnLoginFailureMoves
  <2>3. conn'[k].of = c /\ conn'[k].cli = conn[k].cli /\ conn'[k].cliNamed = conn[k].cliNamed
    BY <1>0, <2>2, <2>9 DEF ConnType
  <2>4. \A j \in Conn : Stands(j) /\ (Carries(j) => Carries(j)')
    BY <1>1, <2>3, <2>9, SameStands
  <2>6. m_isStopConnect'[c] /\ c \in gaveUp'
    BY <1>0, <2>1 DEF RestType
  <2>7. Pursuit(c)'
    <3>1. Of(c)' = Of(c) /\ Of(c) \subseteq Conn /\ Pursuit(c)
      BY <2>4 DEF Of, Stands, PursuitInv
    <3>2. m_ownSessionId[c] # NoSession =>
            LET j == m_ownSessionId[c] IN
            /\ j \in Of(c) /\ conn'[j].cli \in OwnState
            /\ conn'[j].cli \in {"stopped", "gone"} => conn'[j].cliNamed
      BY <2>4, <3>1 DEF Pursuit, Stands, Ended
    <3> QED
      BY <2>1, <2>6, <3>1, <3>2 DEF Pursuit, Ended
  <2>8. ASSUME NEW d \in Client \ {c} PROVE Pursuit(d)'
    <3>1. /\ m_isStopConnect'[d] = m_isStopConnect[d]
          /\ Pursuit(d) /\ Of(d) \subseteq Conn
      BY <1>0, <2>1 DEF RestType, PursuitInv, Of
    <3> QED
      BY <2>1, <2>4, <3>1, PursuitKept
  <2> QED
    BY <2>7, <2>8 DEF PursuitInv
<1>16. CASE SetOwnSession(k)
  <2>1. /\ conn[k].cli = "deciding" /\ m_ownSessionId' = [m_ownSessionId EXCEPT ![conn[k].of] = k]
        /\ UNCHANGED <<m_isStopConnect, connecting, m_bConnectToServerRequest, gaveUp>>
    BY <1>16 DEF SetOwnSession
  <2>2. conn'[k] = [conn[k] EXCEPT !.cli = "owning"]
    BY <1>0, <1>16, SetOwnSessionMoves
  <2>3. conn'[k].of = conn[k].of /\ conn'[k].cli = "owning"
    BY <1>0, <2>2 DEF ConnType
  <2>4. \A j \in Conn : Stands(j)
    BY <1>1, <2>1, <2>3 DEF Stands, OwnState, Ended
  <2>5. k # NoSession
    BY ClientServerAssumption DEF Conn, NoSession
  <2>6. ASSUME NEW d \in Client PROVE Pursuit(d)'
    <3>1. Pursuit(d) /\ Of(d) \subseteq Conn /\ Of(d)' = Of(d)
      BY <2>4 DEF PursuitInv, Of, Stands
    <3>2. CASE d = conn[k].of
      <4>1. m_ownSessionId'[d] = k /\ k \in Of(d)
        BY <1>0, <2>1, <3>2 DEF RestType, Of
      <4> QED
        BY <2>1, <2>3, <2>5, <3>1, <4>1 DEF Pursuit, OwnState, Ended
    <3>3. CASE d # conn[k].of
      <4>1. m_ownSessionId'[d] = m_ownSessionId[d] /\ k \notin Of(d)
        BY <1>0, <2>1, <3>3 DEF RestType, Of
      <4>2. \A j \in Of(d) : Carries(j) => Carries(j)'
        BY <1>1, <3>1, <4>1
      <4> QED
        BY <2>1, <2>4, <3>1, <4>1, <4>2, PursuitKept
    <3> QED
      BY <3>2, <3>3
  <2> QED
    BY <2>6 DEF PursuitInv
<1>17. CASE OnServerDisconnected(k)
  <2>0. conn[k].of \in Client
    BY <1>4, <1>17 DEF OnServerDisconnected
  <2>9. PICK c \in Client : c = conn[k].of
    BY <2>0
  <2> DEFINE s == IF conn[k].cliNamed THEN k ELSE NoSession
  <2>1. /\ conn[k].cli = "stopped" /\ c \in Client /\ OnFireConnector(c, s)
        /\ UNCHANGED <<m_isStopConnect, connecting, gaveUp>>
    BY <1>17, <2>9 DEF OnServerDisconnected
  <2>2. conn'[k] = [conn[k] EXCEPT !.cli = "gone"]
    BY <1>0, <1>17, OnServerDisconnectedMoves
  <2>3. /\ conn'[k].of = conn[k].of /\ conn'[k].cli = "gone"
        /\ conn'[k].cliNamed = conn[k].cliNamed
    BY <1>0, <2>2 DEF ConnType
  <2>4. k # NoSession
    BY ClientServerAssumption DEF Conn, NoSession
  <2>5. \A d \in Client : /\ Of(d)' = Of(d) /\ Of(d) \subseteq Conn /\ Pursuit(d)
                          /\ k \in Of(d) <=> d = c
    BY <1>1, <2>3, <2>9 DEF Of, Stands, PursuitInv
  <2>6. ASSUME NEW d \in Client \ {c} PROVE Pursuit(d)'
    <3>1. /\ m_ownSessionId'[d] = m_ownSessionId[d]
          /\ m_bConnectToServerRequest'[d] = m_bConnectToServerRequest[d]
      BY <1>0, <2>1 DEF OnFireConnector, RestType
    <3>2. m_ownSessionId[d] # k
      BY <2>4, <2>5 DEF Pursuit
    <3>3. \A j \in Of(d) : Stands(j) /\ (Carries(j) => Carries(j)')
      BY <1>1, <2>5
    <3>4. m_ownSessionId[d] # NoSession =>
            LET j == m_ownSessionId[d] IN
            /\ j \in Of(d) /\ conn'[j].cli \in OwnState /\ (Ended(j)' => conn'[j].cliNamed)
            /\ conn'[j].cli = "gone" => d \in gaveUp
      BY <2>5, <3>1, <3>3 DEF Pursuit, Stands
    <3>5. (\E j \in Of(d) : Carries(j)) => \E j \in Of(d)' : Carries(j)'
      BY <2>5, <3>3
    <3>6. \A j : Ended(j)' <=> conn'[j].cli \in {"stopped", "gone"}
      BY DEF Ended
    <3> QED
      BY <2>1, <2>5, <3>1, <3>4, <3>5, <3>6 DEF Pursuit, Ended
  <2>7. Pursuit(c)'
    <3>1. CASE s = m_ownSessionId[c] /\ ~m_isStopConnect[c]
      <4>1. m_ownSessionId'[c] = NoSession /\ m_bConnectToServerRequest'[c]
        BY <1>0, <2>1, <3>1 DEF OnFireConnector, RestType
      <4> QED
        BY <2>1, <3>1, <4>1 DEF Pursuit
    <3>2. CASE ~(s = m_ownSessionId[c] /\ ~m_isStopConnect[c])
      <4>1. m_ownSessionId' = m_ownSessionId
            /\ m_bConnectToServerRequest' = m_bConnectToServerRequest
        BY <2>1, <3>2 DEF OnFireConnector
      <4>2. m_isStopConnect[c] => c \in gaveUp
        BY <2>1, <2>5 DEF Pursuit
      <4>3. m_ownSessionId[c] # NoSession =>
              LET j == m_ownSessionId[c] IN
              /\ j \in Of(c) /\ conn'[j].cli \in OwnState /\ (Ended(j)' => conn'[j].cliNamed)
              /\ conn'[j].cli = "gone" => c \in gaveUp
        <5> SUFFICES ASSUME NEW j, j = m_ownSessionId[c], j # NoSession
                     PROVE  /\ j \in Of(c) /\ conn'[j].cli \in OwnState
                            /\ conn'[j].cli \in {"stopped", "gone"} => conn'[j].cliNamed
                            /\ conn'[j].cli = "gone" => c \in gaveUp
          BY <4>1 DEF Ended
        <5>1. /\ j \in Of(c) /\ j \in Conn /\ conn[j].cli \in OwnState
              /\ conn[j].cli \in {"stopped", "gone"} => conn[j].cliNamed
              /\ conn[j].cli = "gone" => c \in gaveUp
          BY <2>1, <2>5 DEF Pursuit, Ended
        <5>2. CASE j = k
          <6>1. conn[k].cliNamed /\ s = m_ownSessionId[c]
            BY <2>1, <5>1, <5>2
          <6> QED
            BY <2>3, <3>2, <4>2, <5>1, <5>2, <6>1 DEF OwnState
        <5>3. CASE j # k
          BY <1>1, <5>1, <5>3 DEF Stands, Ended
        <5> QED
          BY <5>2, <5>3
      <4>4. ~m_isStopConnect[c] /\ m_ownSessionId[c] = NoSession =>
              \A j \in Of(c) : Carries(j) => Carries(j)'
        <5> SUFFICES ASSUME ~m_isStopConnect[c], m_ownSessionId[c] = NoSession,
                            NEW j \in Of(c), Carries(j)
                     PROVE  Carries(j)'
          OBVIOUS
        <5>1. conn[k].cliNamed
          BY <3>2
        <5>2. j # k
          BY <2>1, <5>1 DEF Carries
        <5> QED
          BY <1>1, <2>1, <2>5, <5>2
      <4>5. \A j : Ended(j)' <=> conn'[j].cli \in {"stopped", "gone"}
        BY DEF Ended
      <4> HIDE DEF s
      <4> QED
        BY <2>1, <2>5, <4>1, <4>2, <4>3, <4>4, <4>5 DEF Pursuit, Ended
    <3> QED
      BY <3>1, <3>2
  <2> QED
    BY <2>6, <2>7 DEF PursuitInv
<1> QED
  BY <1>5, <1>6, <1>7, <1>8, <1>9, <1>10, <1>11, <1>12, <1>13, <1>14, <1>15, <1>16, <1>17
     DEF Within

LEMMA PursuitStep ==
  ASSUME ConnInv, PursuitInv, Next
  PROVE  PursuitInv'
<1>0. /\ RestType /\ \A k \in Conn : conn[k] \in ConnType /\ Good(conn[k])
  BY DEF ConnInv
<1> USE DEF request, history
<1>1. ASSUME NEW c \in Client, Disconnect(c) PROVE PursuitInv'
  <2>1. Calm
    BY <1>1 DEF Disconnect, Calm
  <2>2. \A j \in Conn : conn'[j] = conn[j] \/ conn'[j] = [conn[j] EXCEPT !.cliUp = FALSE]
    BY <1>1, DisconnectMoves
  <2>3. \A j \in Conn : /\ conn'[j].of = conn[j].of /\ conn'[j].cli = conn[j].cli
                        /\ conn'[j].cliNamed = conn[j].cliNamed
    BY <1>0, <2>2 DEF ConnType
  <2> QED
    BY <2>1, <2>3, SameStands, PursuitSame
<1>2. ASSUME NEW c \in Client, NEW k \in Conn, OnAddClientServerConnector(c, k)
      PROVE  PursuitInv'
  <2>1. /\ connecting[c] > 0 /\ conn[k].of = NoClient
        /\ connecting' = [connecting EXCEPT ![c] = @ - 1]
        /\ UNCHANGED <<m_ownSessionId, m_isStopConnect, m_bConnectToServerRequest, gaveUp>>
    BY <1>2 DEF OnAddClientServerConnector
  <2>2. /\ conn'[k].of = c /\ conn'[k].cli = "login"
        /\ \A j \in Conn \ {k} : conn'[j] = conn[j]
    BY <1>2, OnAddKeeps, OnAddMoves
  <2>3. \A d \in Client : /\ k \notin Of(d) /\ Pursuit(d) /\ Of(d) \subseteq Conn
                          /\ Of(d)' = IF d = c THEN Of(d) \cup {k} ELSE Of(d)
    BY <2>1, <2>2, ClientServerAssumption DEF Of, PursuitInv
  <2>4. Carries(k)'
    BY <2>2 DEF Carries
  <2>5. ASSUME NEW d \in Client PROVE Pursuit(d)'
    <3>1. m_ownSessionId[d] # NoSession =>
            LET j == m_ownSessionId[d] IN j \in Of(d) /\ conn'[j] = conn[j]
      BY <2>2, <2>3 DEF Pursuit
    <3>2. CASE d = c
      <4>1. connecting[c] # 0
        BY <1>0, <2>1 DEF RestType
      <4>2. m_isStopConnect[c] => c \in gaveUp
        BY <2>3, <4>1 DEF Pursuit
      <4> QED
        BY <2>1, <2>3, <2>4, <3>1, <3>2, <4>2 DEF Pursuit, Ended
    <3>3. CASE d # c
      <4>1. connecting'[d] = connecting[d]
        BY <1>0, <2>1, <3>3 DEF RestType
      <4>2. \A j \in Of(d) : conn'[j] = conn[j]
        BY <2>2, <2>3
      <4>3. \A j \in Of(d) : Carries(j)' <=> Carries(j)
        BY <4>2 DEF Carries
      <4> QED
        BY <2>1, <2>3, <3>1, <3>3, <4>1, <4>3 DEF Pursuit, Ended
    <3> QED
      BY <3>2, <3>3
  <2> QED
    BY <2>5 DEF PursuitInv
<1>3. ASSUME NEW k \in Conn, OnSecondLogin(k) PROVE PursuitInv'
  <2>1. Calm
    BY <1>3 DEF OnSecondLogin, Calm
  <2>2. /\ \A j \in Conn \ {k} : conn'[j] = conn[j] \/ conn'[j] = [conn[j] EXCEPT !.cliUp = FALSE]
        /\ conn[k].cli = "login" /\ m_ownSessionId[conn[k].of] # NoSession
    BY <1>3, OnSecondLoginMoves
  <2>3. PICK up \in BOOLEAN :
          conn'[k] = [conn[k] EXCEPT !.toCli = Tail(conn[k].toCli), !.cli = "owning", !.cliUp = up]
    BY <1>3, OnSecondLoginMoves
  <2>4. conn'[k].of = conn[k].of /\ conn'[k].cli = "owning"
    BY <1>0, <2>3 DEF ConnType
  <2>5. \A j \in Conn \ {k} : /\ conn'[j].of = conn[j].of /\ conn'[j].cli = conn[j].cli
                              /\ conn'[j].cliNamed = conn[j].cliNamed
    BY <1>0, <2>2 DEF ConnType
  <2>6. \A j \in Conn \ {k} : Stands(j) /\ (Carries(j) => Carries(j)')
    BY <2>5, SameStands
  <2>7. Stands(k)
    BY <2>2, <2>4 DEF Stands, OwnState, Ended
  <2>8. ASSUME NEW d \in Client PROVE Pursuit(d)'
    <3>1. Pursuit(d) /\ \A j \in Of(d) : j \in Conn /\ conn[j].of = d
      BY DEF PursuitInv, Of
    <3>2. m_ownSessionId[d] = NoSession => \A j \in Of(d) : Carries(j) => Carries(j)'
      BY <2>2, <2>6, <3>1
    <3> QED
      BY <2>1, <2>6, <2>7, <3>1, <3>2, PursuitKept DEF Calm
  <2> QED
    BY <2>8 DEF PursuitInv
<1>4. ASSUME NEW k \in Conn, OnClientName(k) PROVE PursuitInv'
  <2>1. Calm
    BY <1>4 DEF OnClientName, Calm
  <2> DEFINE names == {j \in Conn \ {k} : Subscribed(j) /\ SameAccess(j, k)}
  <2>2. PICK q : conn'[k] = [conn[k] EXCEPT !.toSrv = q, !.srv = "naming", !.list = names]
    BY <1>4, OnClientNameMoves
  <2> HIDE DEF names
  <2>3. /\ conn'[k].of = conn[k].of /\ conn'[k].cli = conn[k].cli
        /\ conn'[k].cliNamed = conn[k].cliNamed
    BY <1>0, <2>2 DEF ConnType
  <2>4. \A j \in Conn \ {k} : conn'[j] = conn[j]
    BY <1>4, OnClientNameMoves
  <2> QED
    BY <2>1, <2>3, <2>4, SameStands, PursuitSame
<1>5. ASSUME NEW k \in Conn, OnClientNamed(k) PROVE PursuitInv'
  <2>1. Calm
    BY <1>5 DEF OnClientNamed, Calm
  <2> DEFINE list == [kind |-> "IPCObjectList", names |-> conn[k].list]
             add == [kind |-> "AddIPCObject", name |-> k]
             r1 == ToClient(conn[k], <<list>>)
  <2>2. /\ list \in Message /\ add \in Message
        /\ conn'[k] = [r1 EXCEPT !.srv = "connected", !.list = {}]
        /\ \A j \in Conn \ {k} : conn'[j] = conn[j] \/ conn'[j] = ToClient(conn[j], <<add>>)
    BY <1>5, OnClientNamedMoves
  <2> HIDE DEF list, add
  <2>3. \A j \in Conn \ {k} : /\ conn'[j].of = conn[j].of /\ conn'[j].cli = conn[j].cli
                              /\ conn'[j].cliNamed = conn[j].cliNamed
    <3> SUFFICES ASSUME NEW j \in Conn \ {k}
                 PROVE  /\ conn'[j].of = conn[j].of /\ conn'[j].cli = conn[j].cli
                        /\ conn'[j].cliNamed = conn[j].cliNamed
      OBVIOUS
    <3> DEFINE t == ToClient(conn[j], <<add>>)
    <3>1. t.of = conn[j].of /\ t.cli = conn[j].cli /\ t.cliNamed = conn[j].cliNamed
      BY <1>0, <2>2, Told1
    <3>2. conn'[j] = conn[j] \/ conn'[j] = t
      BY <2>2
    <3> HIDE DEF t
    <3> QED
      BY <3>1, <3>2
  <2>4. /\ r1.of = conn[k].of /\ r1.cli = conn[k].cli /\ r1.cliNamed = conn[k].cliNamed
        /\ r1 \in ConnType
    BY <1>0, <2>2, Told1
  <2> HIDE DEF r1
  <2>5. /\ conn'[k].of = conn[k].of /\ conn'[k].cli = conn[k].cli
        /\ conn'[k].cliNamed = conn[k].cliNamed
    BY <2>2, <2>4 DEF ConnType
  <2> QED
    BY <2>1, <2>3, <2>5, SameStands, PursuitSame
<1>6. ASSUME NEW k \in Conn, ServerEnds(k) PROVE PursuitInv'
  <2>1. Calm
    BY <1>6 DEF ServerEnds, Calm
  <2> DEFINE del == [kind |-> "RemoveIPCObject", name |-> k]
  <2>2. /\ del \in Message
        /\ conn'[k] = [conn[k] EXCEPT !.srv = "stopped", !.srvUp = FALSE, !.toSrv = <<>>]
        /\ \A j \in Conn \ {k} : conn'[j] = conn[j] \/ conn'[j] = ToClient(conn[j], <<del>>)
    BY <1>6, ServerEndsMoves
  <2> HIDE DEF del
  <2>3. \A j \in Conn \ {k} : /\ conn'[j].of = conn[j].of /\ conn'[j].cli = conn[j].cli
                              /\ conn'[j].cliNamed = conn[j].cliNamed
    <3> SUFFICES ASSUME NEW j \in Conn \ {k}
                 PROVE  /\ conn'[j].of = conn[j].of /\ conn'[j].cli = conn[j].cli
                        /\ conn'[j].cliNamed = conn[j].cliNamed
      OBVIOUS
    <3> DEFINE t == ToClient(conn[j], <<del>>)
    <3>1. t.of = conn[j].of /\ t.cli = conn[j].cli /\ t.cliNamed = conn[j].cliNamed
      BY <1>0, <2>2, Told1
    <3>2. conn'[j] = conn[j] \/ conn'[j] = t
      BY <2>2
    <3> HIDE DEF t
    <3> QED
      BY <3>1, <3>2
  <2>5. /\ conn'[k].of = conn[k].of /\ conn'[k].cli = conn[k].cli
        /\ conn'[k].cliNamed = conn[k].cliNamed
    BY <1>0, <2>2 DEF ConnType
  <2> QED
    BY <2>1, <2>3, <2>5, SameStands, PursuitSame
<1> QED
  BY <1>1, <1>2, <1>3, <1>4, <1>5, <1>6, PursuitElsewhere, PursuitWithin, Cases

LEMMA ConnTyped == ConnInv => TypeOK
<1> SUFFICES ASSUME ConnInv PROVE TypeOK
  OBVIOUS
<1>1. RestType /\ DOMAIN conn = Conn
  BY DEF ConnInv
<1>2. ASSUME NEW k \in Conn
      PROVE  /\ conn[k].of \in Client \cup {NoClient} /\ conn[k].cred \in Credential
             /\ conn[k].cli \in CliState /\ conn[k].srv \in SrvState
             /\ {conn[k].cliUp, conn[k].srvUp, conn[k].lost, conn[k].listed, conn[k].cliNamed,
                 conn[k].srvNamed} \subseteq BOOLEAN
             /\ conn[k].list \subseteq Conn
             /\ ToSet(conn[k].toCli) \cup ToSet(conn[k].toSrv) \subseteq Message
  <2>1. conn[k] \in ConnType
    BY DEF ConnInv
  <2>2. conn[k].toCli \in Seq(Message) /\ conn[k].toSrv \in Seq(Message)
    BY <2>1 DEF ConnType
  <2>3. ToSet(conn[k].toCli) \subseteq Message /\ ToSet(conn[k].toSrv) \subseteq Message
    BY <2>2, SetOf
  <2> QED
    BY <2>1, <2>3 DEF ConnType
<1> QED
  BY <1>1, <1>2 DEF TypeOK, RestType, CliState, SrvState

(* OnFireConnector asks for a new connection when the client's own session is gone, or a
   connection that never had one: a client that wants a connection is never left with
   nothing under way, except behind a session that ended after a Disconnect or a refusal. *)
THEOREM Pursued == Spec => []WantedIsPursued
<1>1. Init => PursuitInv
  <2> SUFFICES ASSUME Init PROVE PursuitInv
    OBVIOUS
  <2>1. \A k \in Conn : conn[k].of = NoClient
    BY DEF Init, NoConn
  <2>2. \A c \in Client : Of(c) = {}
    BY <2>1, ClientServerAssumption DEF Of
  <2> QED
    BY <2>2 DEF Init, PursuitInv, Pursuit
<1>2. PursuitInv /\ UNCHANGED vars => PursuitInv'
  BY DEF vars, request, history, PursuitInv, Pursuit, Of, Ended, Carries
<1>3. ConnInv /\ PursuitInv /\ [Next]_vars => PursuitInv'
  BY <1>2, PursuitStep
<1>4. ConnInv /\ PursuitInv => WantedIsPursued
  <2> SUFFICES ASSUME ConnInv, PursuitInv, NEW c \in Client, ~m_isStopConnect[c]
               PROVE  \/ connecting[c] > 0 \/ m_bConnectToServerRequest[c]
                      \/ \E k \in Of(c) : conn[k].cli # "gone"
                      \/ c \in gaveUp /\ StaleSession(c)
    BY ConnTyped DEF WantedIsPursued
  <2>1. Pursuit(c)
    BY DEF PursuitInv
  <2>2. \A k \in Of(c) : Carries(k) => conn[k].cli # "gone"
    BY DEF Carries
  <2> QED
    BY <2>1, <2>2 DEF Pursuit, StaleSession
<1> QED
  BY <1>1, <1>3, <1>4, ConnAlways, PTL DEF Spec

-----------------------------------------------------------------------------
(* Who is told of whom *)
LEMMA TellKept ==
  ASSUME ConnInv, ConnInv', NEW j \in Conn, NEW k \in Conn, Tell(j, k), Stays(k),
         \A i \in Conn : Follows(conn'[i], conn[i]),
         conn'[j].srv = "connected" => conn[j].srv = "connected",
         Live(k)' /\ j \in m_ipcObject[conn[k].of] /\ k \notin wiped' =>
           j \in m_ipcObject'[conn[k].of],
         wiped \subseteq wiped'
  PROVE  Tell(j, k)'
<1> SUFFICES ASSUME j # k, k \notin wiped', UserOf(j)' = UserOf(k)', Live(k)',
                    conn'[j].srv = "connected"
             PROVE  \/ conn'[k].srv = "naming" /\ j \in conn'[k].list
                    \/ j \in m_ipcObject'[conn'[k].of]
                    \/ \E m \in ToSet(conn'[k].toCli) : Names(m, j)
  BY DEF Tell
<1>1. /\ Live(k) /\ conn'[k].srv = conn[k].srv
      /\ conn'[k].srv = "naming" => conn'[k].list = conn[k].list
      /\ \A m \in ToSet(conn[k].toCli) :
           m.kind \in {"AddIPCObject", "IPCObjectList"} => m \in ToSet(conn'[k].toCli)
  BY DEF Stays
<1>2. conn[j].of # NoClient /\ conn[k].of # NoClient
  BY <1>1 DEF ConnInv, Good, EndsOK, Live
<1>3. conn'[j].cred = conn[j].cred /\ conn'[k].cred = conn[k].cred /\ conn'[k].of = conn[k].of
  BY <1>2 DEF Follows
<1>4. \/ conn[k].srv = "naming" /\ j \in conn[k].list
      \/ j \in m_ipcObject[conn[k].of]
      \/ \E m \in ToSet(conn[k].toCli) : Names(m, j)
  BY <1>1, <1>3 DEF Tell, UserOf
<1>5. (\E m \in ToSet(conn[k].toCli) : Names(m, j)) => \E m \in ToSet(conn'[k].toCli) : Names(m, j)
  BY <1>1 DEF Names
<1> QED
  BY <1>1, <1>3, <1>4, <1>5

LEMMA TellSame ==
  ASSUME ConnInv, ConnInv', TellInv, m_ipcObject' = m_ipcObject, wiped' = wiped,
         \A j \in Conn : Stays(j) /\ Follows(conn'[j], conn[j])
  PROVE  TellInv'
<1>1. ASSUME NEW j \in Conn, NEW k \in Conn PROVE Tell(j, k)'
  <2>1. Tell(j, k) /\ Stays(k) /\ (conn'[j].srv = "connected" => conn[j].srv = "connected")
    BY DEF TellInv, Stays
  <2> QED
    BY <2>1, TellKept
<1> QED
  BY <1>1 DEF TellInv

LEMMA TellStep ==
  ASSUME ConnInv, TellInv, Next
  PROVE  TellInv'
<1>0. /\ ConnInv'
      /\ \A j \in Conn : Follows(conn'[j], conn[j]) /\ Good(conn[j]) /\ Good(conn'[j])
      /\ RestType
  BY ConnStep DEF ConnInv
<1> USE DEF history
<1>1. CASE Elsewhere
  BY <1>0, <1>1, ElsewhereKeeps, SameKept, TellSame
<1>2. ASSUME NEW c \in Client, Disconnect(c) PROVE TellInv'
  <2>1. m_ipcObject' = m_ipcObject /\ wiped' = wiped
    BY <1>2 DEF Disconnect
  <2>2. \A j \in Conn : Stays(j)
    BY <1>2, DisconnectMoves, ShutKept
  <2> QED
    BY <1>0, <2>1, <2>2, TellSame
<1>3. ASSUME NEW c \in Client, NEW k \in Conn, OnAddClientServerConnector(c, k)
      PROVE  TellInv'
  <2>1. m_ipcObject' = m_ipcObject /\ wiped' = wiped
    BY <1>3 DEF OnAddClientServerConnector
  <2> QED
    BY <1>0, <1>3, <2>1, OnAddKeeps, TellSame
<1>4. ASSUME NEW k \in Conn, OnSecondLogin(k) PROVE TellInv'
  <2>1. m_ipcObject' = m_ipcObject /\ wiped' = wiped
    BY <1>4 DEF OnSecondLogin
  <2> QED
    BY <1>0, <1>4, <2>1, OnSecondLoginKeeps, TellSame
<1>5. ASSUME NEW i \in Conn, OnClientName(i) PROVE TellInv'
  <2>1. m_ipcObject' = m_ipcObject /\ wiped' = wiped
    BY <1>5 DEF OnClientName
  <2>2. /\ \A j \in Conn \ {i} : conn'[j] = conn[j]
        /\ conn'[i].srv = "naming" /\ conn[i].srv = "session"
        /\ conn'[i].list = {j \in Conn \ {i} : Subscribed(j) /\ SameAccess(j, i)}
    BY <1>5, OnClientNameKeeps, OnClientNameMoves
  <2>3. ASSUME NEW j \in Conn, NEW k \in Conn PROVE Tell(j, k)'
    <3>1. conn'[j].srv = "connected" => conn[j].srv = "connected"
      BY <2>2
    <3>2. CASE k = i
      <4> SUFFICES ASSUME j # k, UserOf(j)' = UserOf(k)', conn'[j].srv = "connected"
                   PROVE  conn'[k].srv = "naming" /\ j \in conn'[k].list
        BY DEF Tell
      <4>1. conn[i].of # NoClient /\ conn[j].srv = "connected" /\ conn'[j] = conn[j]
        BY <1>0, <2>2, <3>1, <3>2 DEF Good, EndsOK
      <4>2. conn'[i].cred = conn[i].cred /\ conn[j].srvNamed
        BY <1>0, <4>1 DEF Follows, Good, EndsOK
      <4>3. Subscribed(j) /\ SameAccess(j, i)
        BY <3>2, <4>1, <4>2 DEF Subscribed, SameAccess, UserOf
      <4> QED
        BY <2>2, <3>2, <4>3
    <3>3. CASE k # i
      <4>1. Tell(j, k) /\ Stays(k)
        BY <2>2, <3>3, SameKept DEF TellInv
      <4> QED
        BY <1>0, <2>1, <3>1, <4>1, TellKept
    <3> QED
      BY <3>2, <3>3
  <2> QED
    BY <2>3 DEF TellInv
<1>6. ASSUME NEW i \in Conn, OnClientNamed(i) PROVE TellInv'
  <2>1. m_ipcObject' = m_ipcObject /\ wiped' = wiped
    BY <1>6 DEF OnClientNamed
  <2> DEFINE list == [kind |-> "IPCObjectList", names |-> conn[i].list]
             add == [kind |-> "AddIPCObject", name |-> i]
  <2>2. /\ \A j \in Conn \ {i} : /\ Stays(j)
                                 /\ Told(j, i) /\ Open(j) => add \in ToSet(conn'[j].toCli)
        /\ conn[i].srv = "naming" /\ conn'[i].srv = "connected"
        /\ Live(i)' => Live(i) /\ list \in ToSet(conn'[i].toCli)
    BY <1>6, OnClientNamedKeeps
  <2>3. list.kind = "IPCObjectList" /\ list.names = conn[i].list
        /\ add.kind = "AddIPCObject" /\ add.name = i
    OBVIOUS
  <2>4. \A m \in ToSet(conn[i].toCli) : m \in ToSet(conn'[i].toCli)
    <3> DEFINE r1 == ToClient(conn[i], <<list>>)
    <3>1. list \in Message /\ conn'[i] = [r1 EXCEPT !.srv = "connected", !.list = {}]
      BY <1>6, OnClientNamedMoves
    <3>2. conn[i] \in ConnType
      BY DEF ConnInv
    <3> HIDE DEF list
    <3>3. r1 \in ConnType /\ ToSet(conn[i].toCli) \subseteq ToSet(r1.toCli)
      BY <3>1, <3>2, Told1
    <3> HIDE DEF r1
    <3> QED
      BY <3>1, <3>3 DEF ConnType
  <2> HIDE DEF list, add
  <2>5. ASSUME NEW j \in Conn, NEW k \in Conn PROVE Tell(j, k)'
    <3> SUFFICES ASSUME j # k, k \notin wiped', UserOf(j)' = UserOf(k)', Live(k)',
                        conn'[j].srv = "connected"
                 PROVE  \/ j \in m_ipcObject'[conn'[k].of]
                        \/ \E m \in ToSet(conn'[k].toCli) : Names(m, j)
                        \/ Tell(j, k)'
      BY DEF Tell
    <3>1. CASE k = i
      <4>1. Live(k) /\ list \in ToSet(conn'[k].toCli) /\ conn[j].srv = "connected"
        BY <2>2, <3>1 DEF Stays
      <4>2. conn[j].of # NoClient /\ conn[k].of # NoClient
        BY <1>0, <4>1 DEF Good, EndsOK, Live
      <4>3. /\ conn'[j].cred = conn[j].cred /\ conn'[k].cred = conn[k].cred
            /\ conn'[k].of = conn[k].of
        BY <1>0, <4>2 DEF Follows
      <4>4. \/ j \in conn[k].list
            \/ j \in m_ipcObject[conn[k].of]
            \/ \E m \in ToSet(conn[k].toCli) : Names(m, j)
        BY <2>1, <4>1, <4>3 DEF TellInv, Tell, UserOf
      <4>5. j \in conn[k].list => Names(list, j)
        BY <2>3, <3>1 DEF Names
      <4> QED
        BY <2>1, <2>4, <3>1, <4>1, <4>3, <4>4, <4>5
    <3>2. CASE k # i /\ j = i
      <4>1. Stays(k) /\ Live(k)
        BY <2>2, <3>2 DEF Stays
      <4>2. conn[j].of # NoClient /\ conn[k].of # NoClient
        BY <1>0, <2>2, <3>2, <4>1 DEF Good, EndsOK, Live
      <4>3. /\ conn'[j].cred = conn[j].cred /\ conn'[k].cred = conn[k].cred
        BY <1>0, <4>2 DEF Follows
      <4>4. Told(k, i) /\ Open(k)
        BY <1>0, <3>2, <4>1, <4>3 DEF Told, Subscribed, SameAccess, UserOf, Live, Good, EndsOK
      <4>5. Names(add, j)
        BY <2>3, <3>2 DEF Names
      <4> QED
        BY <2>2, <3>2, <4>4, <4>5
    <3>3. CASE k # i /\ j # i
      <4>1. Tell(j, k) /\ Stays(k) /\ (conn'[j].srv = "connected" => conn[j].srv = "connected")
        BY <2>2, <3>3 DEF TellInv, Stays
      <4> QED
        BY <1>0, <2>1, <4>1, TellKept
    <3> QED
      BY <3>1, <3>2, <3>3
  <2> QED
    BY <2>5 DEF TellInv
<1>7. ASSUME NEW k \in Conn, ServerEnds(k) PROVE TellInv'
  <2>1. m_ipcObject' = m_ipcObject /\ wiped' = wiped
    BY <1>7 DEF ServerEnds
  <2> QED
    BY <1>0, <1>7, <2>1, ServerEndsKeeps, TellSame
<1>8. ASSUME NEW i \in Conn, Within(i) PROVE TellInv'
  <2>0. \A j \in Conn \ {i} : conn'[j] = conn[j] /\ Stays(j)
    BY <1>8, WithinKeeps, SameKept
  <2>1. CASE OnServerDisconnected(i)
    <3>1. /\ conn[i].cli = "stopped" /\ wiped' = wiped \cup (Of(conn[i].of) \ {i})
          /\ m_ipcObject' = [m_ipcObject EXCEPT ![conn[i].of] = @ \ Dropped(conn[i].of, i)]
      BY <2>1 DEF OnServerDisconnected
    <3>2. conn'[i] = [conn[i] EXCEPT !.cli = "gone"]
      BY <2>1, OnServerDisconnectedMoves, MovesOne
    <3>3. conn'[i].srv = conn[i].srv /\ ~conn'[i].cliUp
      BY <1>0, <3>1, <3>2 DEF Good, ConnType, EndsOK
    <3>4. ASSUME NEW j \in Conn, NEW k \in Conn PROVE Tell(j, k)'
      <4>1. conn'[j].srv = "connected" => conn[j].srv = "connected"
        BY <2>0, <3>3
      <4>2. CASE k = i
        BY <3>3, <4>2 DEF Tell, Live, Open
      <4>3. CASE k # i
        <5>1. k \notin wiped' => conn[k].of # conn[i].of
          BY <3>1, <4>3 DEF Of
        <5>2. Live(k)' /\ j \in m_ipcObject[conn[k].of] /\ k \notin wiped' =>
                j \in m_ipcObject'[conn[k].of]
          <6>1. Live(k)' => conn[k].of \in Client
            BY <1>0, <2>0, <4>3 DEF Live, Good, EndsOK, ConnType
          <6> QED
            BY <1>0, <3>1, <5>1, <6>1 DEF RestType
        <5>3. Tell(j, k) /\ Stays(k) /\ wiped \subseteq wiped'
          BY <2>0, <3>1, <4>3 DEF TellInv
        <5> QED
          BY <1>0, <4>1, <5>2, <5>3, TellKept
      <4> QED
        BY <4>2, <4>3
    <3> QED
      BY <3>4 DEF TellInv
  <2>2. CASE OnIPCObject(i)
    <3>0. conn[i].of \in Client
      BY <1>0, <2>2 DEF OnIPCObject, Received, Good, ConnType, EndsOK
    <3>1. PICK c \in Client, m \in {Head(conn[i].toCli)} :
               c = conn[i].of /\ m = Head(conn[i].toCli)
      BY <3>0
    <3>2. /\ conn[i].toCli # <<>> /\ wiped' = wiped
          /\ m.kind \in {"IPCObjectList", "AddIPCObject", "RemoveIPCObject"}
          /\ m_ipcObject' = [m_ipcObject EXCEPT ![c] =
               CASE m.kind = "IPCObjectList" -> @ \cup m.names
                 [] m.kind = "AddIPCObject" -> @ \cup {m.name}
                 [] m.kind = "RemoveIPCObject" -> @ \ {m.name}]
      BY <2>2, <3>1 DEF OnIPCObject, Received
    <3>3. /\ m \in ToSet(conn[i].toCli) /\ m \in Message
          /\ ToSet(conn[i].toCli) = ToSet(Tail(conn[i].toCli)) \cup {m}
      BY <3>1, <3>2, HeadTyped
    <3>4. conn'[i] = [conn[i] EXCEPT !.toCli = Tail(conn[i].toCli), !.cli = conn[i].cli]
      BY <2>2, OnIPCObjectMoves, MovesOne
    <3>5. /\ conn'[i].srv = conn[i].srv /\ conn'[i].cred = conn[i].cred
          /\ conn'[i].of = conn[i].of /\ conn'[i].list = conn[i].list
          /\ conn'[i].cliUp = conn[i].cliUp /\ conn'[i].srvUp = conn[i].srvUp
          /\ conn'[i].lost = conn[i].lost
          /\ conn'[i].toCli = Tail(conn[i].toCli)
      BY <1>0, <3>4 DEF Good, ConnType
    <3>6. m.kind = "RemoveIPCObject" => conn[m.name].srv \in {"stopped", "gone"}
      BY <3>3 DEF ConnInv, NamesOK, Says
    <3>7. ASSUME NEW j \in Conn, NEW k \in Conn PROVE Tell(j, k)'
      <4>1. conn'[j].srv = conn[j].srv /\ conn'[j].cred = conn[j].cred
        BY <2>0, <3>5
      <4>2. ASSUME conn[j].srv = "connected", NEW d \in Client, j \in m_ipcObject[d]
            PROVE  j \in m_ipcObject'[d]
        <5>1. m.kind = "RemoveIPCObject" => j # m.name
          BY <3>6, <4>2
        <5> QED
          BY <1>0, <3>2, <4>2, <5>1 DEF RestType
      <4>3. Names(m, j) => j \in m_ipcObject'[c]
        BY <1>0, <3>2 DEF RestType, Names
      <4>4. CASE k = i
        <5> SUFFICES ASSUME j # k, k \notin wiped', UserOf(j)' = UserOf(k)', Live(k)',
                            conn'[j].srv = "connected"
                     PROVE  \/ conn'[k].srv = "naming" /\ j \in conn'[k].list
                            \/ j \in m_ipcObject'[conn'[k].of]
                            \/ \E n \in ToSet(conn'[k].toCli) : Names(n, j)
          BY DEF Tell
        <5>1. /\ Live(k) /\ conn[j].srv = "connected" /\ UserOf(j) = UserOf(k)
          BY <3>5, <4>1, <4>4 DEF Live, Open, UserOf
        <5>2. \/ conn[k].srv = "naming" /\ j \in conn[k].list
              \/ j \in m_ipcObject[conn[k].of]
              \/ \E n \in ToSet(conn[k].toCli) : Names(n, j)
          BY <3>2, <5>1 DEF TellInv, Tell
        <5> QED
          BY <3>1, <3>3, <3>5, <4>2, <4>3, <4>4, <5>1, <5>2
      <4>5. CASE k # i
        <5>1. Tell(j, k) /\ Stays(k)
          BY <2>0, <4>5 DEF TellInv
        <5>2. Live(k)' /\ conn[j].srv = "connected" /\ j \in m_ipcObject[conn[k].of] =>
                j \in m_ipcObject'[conn[k].of]
          <6>1. Live(k)' => conn[k].of \in Client
            BY <1>0, <5>1 DEF Stays, Live, Good, EndsOK, ConnType
          <6> QED
            BY <4>2, <6>1
        <5>3. CASE conn[j].srv = "connected"
          BY <1>0, <3>2, <5>1, <5>2, <5>3, TellKept
        <5>4. CASE conn[j].srv # "connected"
          BY <4>1, <5>4 DEF Tell
        <5> QED
          BY <5>3, <5>4
      <4> QED
        BY <4>4, <4>5
    <3> QED
      BY <3>7 DEF TellInv
  <2>3. CASE ~OnServerDisconnected(i) /\ ~OnIPCObject(i)
    <3>1. m_ipcObject' = m_ipcObject /\ wiped' = wiped
      BY <1>8, <2>3 DEF Within, AddConnection, OnLoginFailure, OnLoginResult, SetOwnSession,
                        SetSession, OnServerName, OnLogin, Lose, DisconnectFromClient, ClientEnds,
                        OnClientDisconnected
    <3>2. \A j \in Conn : Stays(j)
      BY <1>8, <2>0, <2>3, WithinKeeps
    <3> QED
      BY <1>0, <3>1, <3>2, TellSame
  <2> QED
    BY <2>1, <2>2, <2>3
<1> QED
  BY <1>1, <1>2, <1>3, <1>4, <1>5, <1>6, <1>7, <1>8, Cases

-----------------------------------------------------------------------------
(* Whom a message reaches *)
LEMMA ServerReached ==
  ASSUME ConnInv, RegisteredInv, NEW c \in Client, NEW k \in m_modules[c], Open(k)
  PROVE  Reached(c, <<"Server", k>>) = {<<"Server", k>>}
<1> DEFINE t == <<"Server", k>>
           path == <<t>>
<1>1. /\ k \in Of(c) /\ k \in Conn /\ conn[k].cliNamed /\ conn[k].cli \in {"connected", "stopped"}
      /\ k # NoSession
  BY ClientServerAssumption DEF RegisteredInv, Of, Conn, NoSession
<1>2. GetTargetPath(c, t) = {path}
  BY DEF GetTargetPath
<1>3. Len(path) = 1 /\ Head(path) = t /\ path # <<>>
  OBVIOUS
<1>4. Senders(c, path) = {k}
  <2>1. \A i \in Of(c) : IdAtClient(i) = t <=> conn[i].cliNamed /\ i = k
    BY <1>1 DEF IdAtClient
  <2> QED
    BY <1>1, <1>3, <2>1 DEF Senders
<1>5. ServerHears(k)
  <2>1. HeardOK(conn[k]) /\ conn[k].cliUp /\ conn[k].srvUp /\ ~conn[k].lost
    BY <1>1 DEF ConnInv, Good, Open
  <2>2. conn[k].srv \in {"naming", "connected"} \/ HasKind(conn[k].toSrv, "ModuleName")
    BY <1>1, <2>1 DEF HeardOK
  <2> QED
    BY <2>2 DEF ServerHears, Heard, IsConnected, HasKind
<1> HIDE DEF t, path
<1> DEFINE End(p) ==
             LET heard == {i \in Senders(c, p) : ServerHears(i)}
             IN  IF Len(p) < 2 THEN {<<"Server", i>> : i \in heard}
                 ELSE UNION {{<<"Client", j>> : j \in {j \in PassedOn(i, p[2]) : ClientHears(j)}} :
                               i \in heard}
<1>6. Reached(c, t) = UNION {End(p) : p \in {path}}
  BY <1>2 DEF Reached
<1>9. End(path) = {<<"Server", i>> : i \in {i \in Senders(c, path) : ServerHears(i)}}
  BY <1>3
<1> HIDE DEF End
<1>7. {i \in Senders(c, path) : ServerHears(i)} = {k}
  BY <1>4, <1>5
<1>8. Reached(c, t) = {<<"Server", i>> : i \in {i \in Senders(c, path) : ServerHears(i)}}
  BY <1>6, <1>9
<1> QED
  BY <1>7, <1>8 DEF t

(* The session of the target is left out of a path through the server *)
LEMMA NoOtherReached ==
  ASSUME ConnInv, NEW c \in Client, NEW n, NEW i,
         <<"Client", i>> \in Reached(c, <<"Client", n>>)
  PROVE  FALSE
<1> DEFINE t == <<"Client", n>>
<1>1. \A k : <<"Server", k>> # t /\ <<"Server", k>> # <<"Client", i>>
  OBVIOUS
<1>2. PICK path \in GetTargetPath(c, t) :
        <<"Client", i>> \in
          LET heard == {k \in Senders(c, path) : ServerHears(k)}
          IN  IF Len(path) < 2 THEN {<<"Server", k>> : k \in heard}
              ELSE UNION {{<<"Client", j>> : j \in {j \in PassedOn(k, path[2]) : ClientHears(j)}} :
                            k \in heard}
  BY DEF Reached
<1>3. PICK k \in Senders(c, path) :
        /\ Len(path) >= 2
        /\ \E j \in PassedOn(k, path[2]) : ClientHears(j)
  <2>1. ~(Len(path) < 2)
    BY <1>1, <1>2
  <2> QED
    BY <1>2, <2>1
<1>4. path = <<>> \/ \E j : path = <<IdAtClient(j), <<"Client", NoSession>>>>
  <2>1. t \notin {<<"Server", j>> : j \in m_modules[c]}
    BY <1>1
  <2>2. t[1] = "Client"
    OBVIOUS
  <2> HIDE DEF t
  <2> QED
    BY <1>2, <2>1, <2>2 DEF GetTargetPath
<1>5. path[2] = <<"Client", NoSession>>
  BY <1>3, <1>4
<1>6. PICK j \in PassedOn(k, path[2]) : ClientHears(j)
  BY <1>3
<1>7. j \in Conn /\ IdAtServer(j) = <<"Client", NoSession>> /\ j # NoSession
  BY <1>5, <1>6, ClientServerAssumption DEF PassedOn, Conn, NoSession
<1>8. ~conn[j].srvNamed
  BY <1>7 DEF IdAtServer
<1>9. conn[j].cli \in {"naming", "connected"} \/ HasKind(conn[j].toCli, "ModuleName")
  BY <1>6 DEF ClientHears, Heard, IsConnected, HasKind
<1>10. Good(conn[j])
  BY <1>7 DEF ConnInv
<1>11. conn[j].cli # "naming"
  BY <1>10 DEF Good, ConnType, CliState
<1> QED
  BY <1>8, <1>9, <1>10, <1>11 DEF Good, EndsOK, OrderOK, HasKind, NameKind

LEMMA AnswerReached ==
  ASSUME ConnInv, RegisteredInv, NEW k \in clients, Open(k)
  PROVE  ReachedByAnswer(k) = {k}
<1>1. k \in Conn /\ k # NoSession
  BY ClientServerAssumption DEF ConnInv, RestType, Conn, NoSession
<1>2. conn[k].srvNamed /\ conn[k].srv \in {"naming", "connected", "stopped"}
  BY DEF RegisteredInv
<1>3. \A j \in Conn : IdAtServer(j) = GetIPCName(k) <=> conn[j].srvNamed /\ j = k
  BY <1>1 DEF IdAtServer, GetIPCName
<1>4. ClientHears(k)
  <2>1. HeardOK(conn[k]) /\ conn[k].cliUp /\ conn[k].srvUp /\ ~conn[k].lost
    BY <1>1 DEF ConnInv, Good, Open
  <2>2. conn[k].cli = "connected" \/ HasKind(conn[k].toCli, "ModuleName")
    BY <1>2, <2>1 DEF HeardOK
  <2> QED
    BY <2>2 DEF ClientHears, Heard, IsConnected, HasKind
<1>5. Subscribed(k)
  BY <1>2 DEF Subscribed
<1> QED
  BY <1>1, <1>2, <1>3, <1>4, <1>5 DEF ReachedByAnswer

(* Each side sends its ModuleName ahead of all else and registers the other on its ModuleName,
   the list and the announcements of the server are put together around the registration:
   a message reaches whom it names, and of two clients of a user each is told of the other. *)
THEOREM PeersKnown == Spec => []PeersListed
<1>1. Init => TellInv
  <2> SUFFICES ASSUME Init, NEW j \in Conn, NEW k \in Conn PROVE Tell(j, k)
    BY DEF TellInv
  <2>1. conn[k].srv = "none"
    BY DEF Init, NoConn
  <2> QED
    BY <2>1 DEF Tell, Live
<1>2. TellInv /\ UNCHANGED vars => TellInv'
  <2> SUFFICES ASSUME TellInv, UNCHANGED vars, NEW j \in Conn, NEW k \in Conn PROVE Tell(j, k)'
    BY DEF TellInv
  <2>1. Tell(j, k)
    BY DEF TellInv
  <2> QED
    BY <2>1 DEF vars, history, Tell, Live, Open, UserOf, Names
<1>3. ConnInv /\ TellInv /\ [Next]_vars => TellInv'
  BY <1>2, TellStep
<1>4. ConnInv /\ RegisteredInv => RoutedRight
  BY ServerReached, NoOtherReached, AnswerReached DEF RoutedRight
<1>5. ConnInv /\ RegisteredInv /\ TellInv => PeersListed
  <2> SUFFICES ASSUME ConnInv, RegisteredInv, TellInv PROVE PeersListed
    OBVIOUS
  <2>1. ASSUME NEW j \in Conn, NEW k \in Conn, j # k, k \notin wiped, UserOf(j) = UserOf(k),
               Open(k), conn[k].srv = "connected", conn[j].srv = "connected"
        PROVE  \/ j \in m_ipcObject[conn[k].of]
               \/ \E m \in ToSet(conn[k].toCli) :
                    \/ m.kind = "AddIPCObject" /\ m.name = j
                    \/ m.kind = "IPCObjectList" /\ j \in m.names
    BY <2>1 DEF TellInv, Tell, Live, Names
  <2> QED
    BY <1>4, <2>1 DEF PeersListed
<1> QED
  BY <1>1, <1>3, <1>5, ConnAlways, RegisteredAlways, PTL DEF Spec

=============================================================================
