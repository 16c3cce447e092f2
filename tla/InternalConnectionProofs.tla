----------------------- MODULE InternalConnectionProofs -----------------------
(***************************************************************************)
(* The state of InternalConnection is well typed, each listen thread of an *)
(* entry being its own, and an open entry of an id used once is listed.    *)
(*                                                                         *)
(* Both are about what handlers still have to do: the regions in todo, and *)
(* above all the copies of entries in them.  AtWork(s) is the set of the   *)
(* regions that the actors of side s have before them; a step takes one    *)
(* away (GoesOn) or adds those of a handler (TakesUp), and leaves a thread *)
(* that is at work on its side.                                            *)
(***************************************************************************)
EXTENDS InternalConnection, TLAPS

Kind == {"INIT", "CONN_OPEN", "CONN_CLOSE", "CONN_EXIST", "CONN_FAILED"}
Message == [kind : Kind, id : Id]
ThreadRecord ==
  [kind : {"none", "connect", "listen"}, on : Side, id : Id \cup {NoThread},
   state : {"none", "made", "running", "listening", "accept", "done"}, stop : BOOLEAN]

(* the regions: an update holds a copy of an entry; no handler tells CONN_CLOSE *)
Op ==
  [do : {"update"}, id : Id, entry : Entry]
  \cup [do : {"tell"}, id : Id, status : {"CONN_OPEN", "CONN_EXIST", "CONN_FAILED"}]
  \cup [do : {"post"}, id : Id, kind : Kind]
  \cup [do : {"stop", "start"}, id : Id, thread : Thread]
  \cup [do : {"destroy", "run", "stopConnection", "ask"}, id : Id]

(* what a handler has to do: a request that is not yet taken up stands alone *)
SetOf(q) == {q[i] : i \in 1..Len(q)}
Handler == {q \in Seq(Op) : \A op \in SetOf(q) : op.do = "ask" => Len(q) = 1}

AtWork(s) == UNION {SetOf(todo[x]) : x \in {y \in Actor : SideOf(y) = s}}

-----------------------------------------------------------------------------
(* Lists of regions, as the handlers write them. *)

LEMMA List0 == <<>> \in Handler /\ SetOf(<<>>) = {}
BY DEF Handler, SetOf

LEMMA List1 ==
  ASSUME NEW a \in Op
  PROVE  <<a>> \in Handler /\ SetOf(<<a>>) = {a}
<1>1. SetOf(<<a>>) = {a}
  BY DEF SetOf
<1>2. <<a>> \in Seq(Op) /\ Len(<<a>>) = 1
  OBVIOUS
<1> QED BY <1>1, <1>2 DEF Handler

LEMMA List2 ==
  ASSUME NEW a \in Op, NEW b \in Op, a.do # "ask", b.do # "ask"
  PROVE  <<a, b>> \in Handler /\ SetOf(<<a, b>>) = {a, b}
<1>1. SetOf(<<a, b>>) = {a, b}
  <2> DEFINE q == <<a, b>>
  <2>1. Len(q) = 2 /\ q[1] = a /\ q[2] = b  OBVIOUS
  <2>2. 1..2 = {1, 2}  OBVIOUS
  <2> QED BY <2>1, <2>2 DEF SetOf
<1>2. <<a, b>> \in Seq(Op)
  OBVIOUS
<1> QED BY <1>1, <1>2 DEF Handler

LEMMA List3 ==
  ASSUME NEW a \in Op, NEW b \in Op, NEW c \in Op, a.do # "ask", b.do # "ask", c.do # "ask"
  PROVE  <<a, b, c>> \in Handler /\ SetOf(<<a, b, c>>) = {a, b, c}
<1>1. SetOf(<<a, b, c>>) = {a, b, c}
  <2> DEFINE q == <<a, b, c>>
  <2>1. Len(q) = 3 /\ q[1] = a /\ q[2] = b /\ q[3] = c  OBVIOUS
  <2>2. 1..3 = {1, 2, 3}  OBVIOUS
  <2> QED BY <2>1, <2>2 DEF SetOf
<1>2. <<a, b, c>> \in Seq(Op)
  OBVIOUS
<1> QED BY <1>1, <1>2 DEF Handler

LEMMA List4 ==
  ASSUME NEW a \in Op, NEW b \in Op, NEW c \in Op, NEW d \in Op,
         a.do # "ask", b.do # "ask", c.do # "ask", d.do # "ask"
  PROVE  <<a, b, c, d>> \in Handler /\ SetOf(<<a, b, c, d>>) = {a, b, c, d}
<1>1. SetOf(<<a, b, c, d>>) = {a, b, c, d}
  <2> DEFINE q == <<a, b, c, d>>
  <2>1. Len(q) = 4 /\ q[1] = a /\ q[2] = b /\ q[3] = c /\ q[4] = d  OBVIOUS
  <2>2. 1..4 = {1, 2, 3, 4}  OBVIOUS
  <2> QED BY <2>1, <2>2 DEF SetOf
<1>2. <<a, b, c, d>> \in Seq(Op)
  OBVIOUS
<1> QED BY <1>1, <1>2 DEF Handler

LEMMA ListTail ==
  ASSUME NEW q \in Handler, q # <<>>
  PROVE  /\ Head(q) \in Op /\ Tail(q) \in Handler
         /\ SetOf(q) = {Head(q)} \cup SetOf(Tail(q))
<1>1. /\ q \in Seq(Op) /\ Head(q) = q[1] /\ Len(q) \in Nat /\ Len(q) > 0
      /\ Tail(q) \in Seq(Op) /\ Len(Tail(q)) = Len(q) - 1
      /\ \A i \in 1..Len(Tail(q)) : Tail(q)[i] = q[i + 1]
  BY DEF Handler
<1>2. SetOf(q) \subseteq {Head(q)} \cup SetOf(Tail(q))
  <2> SUFFICES ASSUME NEW i \in 1..Len(q), i # 1
               PROVE  q[i] \in SetOf(Tail(q))
    BY <1>1 DEF SetOf
  <2>1. i - 1 \in 1..Len(Tail(q)) /\ Tail(q)[i - 1] = q[i]
    BY <1>1
  <2> QED BY <2>1 DEF SetOf
<1>3. {Head(q)} \cup SetOf(Tail(q)) \subseteq SetOf(q)
  BY <1>1 DEF SetOf
<1>4. Tail(q) \in Handler
  <2> SUFFICES ASSUME NEW op \in SetOf(Tail(q)), op.do = "ask"
               PROVE  FALSE
    BY <1>1 DEF Handler
  <2>1. Len(q) = 1
    BY <1>3 DEF Handler
  <2>2. Len(Tail(q)) = 0 /\ 1..0 = {}
    BY <1>1, <2>1
  <2>3. SetOf(Tail(q)) = {}
    BY <2>2 DEF SetOf
  <2> QED BY <2>3
<1>5. Head(q) \in Op
  BY <1>1
<1> QED BY <1>2, <1>3, <1>4, <1>5

-----------------------------------------------------------------------------
(* What a step makes of the regions at work. *)

SameSides == \A y \in Actor : todo[y] # <<>> => SideOf(y)' = SideOf(y)

(* one region of x is done *)
LEMMA GoesOn ==
  ASSUME todo \in [Actor -> Handler], NEW x \in Actor, todo[x] # <<>>, Goes(x), SameSides
  PROVE  /\ todo' \in [Actor -> Handler]
         /\ Head(todo[x]) \in Op /\ Head(todo[x]) \in AtWork(SideOf(x))
         /\ \A s : AtWork(s)' \subseteq AtWork(s)
         /\ \A s : \A op \in AtWork(s) :
              op \in AtWork(s)' \/ (s = SideOf(x) /\ op = Head(todo[x]))
<1>1. /\ todo[x] \in Handler /\ Head(todo[x]) \in Op /\ Tail(todo[x]) \in Handler
      /\ SetOf(todo[x]) = {Head(todo[x])} \cup SetOf(Tail(todo[x]))
  BY ListTail
<1>2. todo' = [todo EXCEPT ![x] = Tail(todo[x])]
  BY DEF Goes
<1>3. /\ todo' \in [Actor -> Handler]
      /\ todo'[x] = Tail(todo[x])
      /\ \A y \in Actor : y # x => todo'[y] = todo[y]
  BY <1>1, <1>2
<1>4. \A y \in Actor : SetOf(todo'[y]) \subseteq SetOf(todo[y])
  BY <1>1, <1>3
<1>5. \A y \in Actor : SetOf(todo'[y]) # {} => SideOf(y)' = SideOf(y)
  BY <1>4, List0 DEF SameSides
<1>6. ASSUME NEW s PROVE AtWork(s)' \subseteq AtWork(s)
  <2> SUFFICES ASSUME NEW y \in Actor, SideOf(y)' = s, NEW op \in SetOf(todo'[y])
               PROVE  op \in AtWork(s)
    BY DEF AtWork, SetOf
  <2> QED BY <1>4, <1>5 DEF AtWork
<1>7. ASSUME NEW s, NEW op \in AtWork(s)
      PROVE  op \in AtWork(s)' \/ (s = SideOf(x) /\ op = Head(todo[x]))
  <2>1. PICK y \in Actor : SideOf(y) = s /\ op \in SetOf(todo[y])
    BY DEF AtWork
  <2>2. CASE op \in SetOf(todo'[y])
    <3>1. SideOf(y)' = s
      BY <1>5, <2>1, <2>2
    <3> QED BY <2>2, <3>1 DEF AtWork, SetOf
  <2>3. CASE op \notin SetOf(todo'[y])
    BY <1>1, <1>3, <2>1, <2>3
  <2> QED BY <2>2, <2>3
<1>8. Head(todo[x]) \in AtWork(SideOf(x))
  BY <1>1 DEF AtWork
<1> QED BY <1>1, <1>3, <1>6, <1>7, <1>8

(* x has ops before it in the place of what it had *)
LEMMA TakesUp ==
  ASSUME todo \in [Actor -> Handler], NEW x \in Actor, NEW ops \in Handler,
         todo' = [todo EXCEPT ![x] = ops], SameSides, SideOf(x)' = SideOf(x)
  PROVE  /\ todo' \in [Actor -> Handler]
         /\ \A s : \A op \in AtWork(s)' :
              op \in AtWork(s) \/ (s = SideOf(x) /\ op \in SetOf(ops))
         /\ \A s : \A op \in AtWork(s) :
              op \in AtWork(s)' \/ (s = SideOf(x) /\ op \in SetOf(todo[x]))
         /\ SetOf(ops) \subseteq AtWork(SideOf(x))'
<1>1. /\ todo' \in [Actor -> Handler]
      /\ todo'[x] = ops
      /\ \A y \in Actor : y # x => todo'[y] = todo[y]
  OBVIOUS
<1>2. \A y \in Actor : y = x \/ SetOf(todo'[y]) = {} \/ SideOf(y)' = SideOf(y)
  BY <1>1, List0 DEF SameSides
<1>3. ASSUME NEW s, NEW op \in AtWork(s)'
      PROVE  op \in AtWork(s) \/ (s = SideOf(x) /\ op \in SetOf(ops))
  <2>1. PICK y \in Actor : SideOf(y)' = s /\ op \in SetOf(todo'[y])
    BY <1>3 DEF AtWork, SetOf
  <2>2. CASE y = x
    BY <1>1, <2>1, <2>2
  <2>3. CASE y # x
    BY <1>1, <1>2, <2>1, <2>3 DEF AtWork
  <2> QED BY <2>2, <2>3
<1>4. ASSUME NEW s, NEW op \in AtWork(s)
      PROVE  op \in AtWork(s)' \/ (s = SideOf(x) /\ op \in SetOf(todo[x]))
  <2>1. PICK y \in Actor : SideOf(y) = s /\ op \in SetOf(todo[y])
    BY DEF AtWork
  <2>2. CASE y = x
    BY <2>1, <2>2
  <2>3. CASE y # x
    <3>1. SideOf(y)' = s /\ op \in SetOf(todo'[y])
      BY <1>1, <1>2, <2>1, <2>3
    <3> QED BY <3>1 DEF AtWork, SetOf
  <2> QED BY <2>2, <2>3
<1>5. SetOf(ops) \subseteq AtWork(SideOf(x))'
  <2>1. SetOf(todo'[x]) = SetOf(ops)
    BY <1>1
  <2> QED BY <2>1 DEF AtWork, SetOf
<1> QED BY <1>1, <1>3, <1>4, <1>5

(* nothing of it changes *)
LEMMA StaysAtWork ==
  ASSUME UNCHANGED todo, SameSides
  PROVE  \A s : AtWork(s)' = AtWork(s)
<1>1. \A y \in Actor : SetOf(todo[y]) # {} => SideOf(y)' = SideOf(y)
  BY List0 DEF SameSides
<1> SUFFICES ASSUME NEW s, NEW op
             PROVE  op \in AtWork(s)' <=> op \in AtWork(s)
  OBVIOUS
<1>2. op \in AtWork(s)' <=> \E y \in Actor : SideOf(y)' = s /\ op \in SetOf(todo[y])
  BY DEF AtWork, SetOf
<1>3. op \in AtWork(s) <=> \E y \in Actor : SideOf(y) = s /\ op \in SetOf(todo[y])
  BY DEF AtWork
<1> QED BY <1>1, <1>2, <1>3

-----------------------------------------------------------------------------
(* Types, and whose the thread of an entry or of a copy is. *)

Base ==
  /\ m_isCoordinator \in [Side -> BOOLEAN]
  /\ m_internalConnections \in [Side -> [Id -> Entry \cup {None}]]
  /\ m_modules \in [Side -> SUBSET Id] /\ awaiting \in [Side -> SUBSET Id]
  /\ late \in [Side -> SUBSET Id]
  /\ running \in [Side -> [Id -> Nat]] /\ ended \in [Side -> [Id -> Nat]]
  /\ asked \in [Side -> [Id -> Nat]] /\ made \in [Side -> [Id -> Nat]]
  /\ joined \in Nat /\ up \in BOOLEAN /\ conn \in [Side -> {"on", "swept", "over", "gone"}]
  /\ wire \in [Side -> Seq(Message)]

Threads ==
  /\ thread \in [Thread -> ThreadRecord]
  /\ \A t \in Thread : IF thread[t].kind = "none" THEN thread[t].state = "none"
                       ELSE thread[t].id \in Id

Own(s, id, t) ==
  t # NoThread => thread[t].kind = "listen" /\ thread[t].on = s /\ thread[t].id = id

Fits(s, op) ==
  /\ op.do = "update" => Own(s, op.id, op.entry.thread)
  /\ op.do = "stop" => Own(s, op.id, op.thread)
  /\ op.do = "start" => thread[op.thread].kind # "none"

Works ==
  /\ todo \in [Actor -> Handler]
  /\ \A s \in Side, id \in Id : Own(s, id, m_internalConnections[s][id].thread)
  /\ \A s \in Side : \A op \in AtWork(s) : Fits(s, op)

TypeInv == Base /\ Threads /\ Works

LEMMA TypeInvImplies == TypeInv => TypeOK
<1> SUFFICES ASSUME TypeInv PROVE TypeOK
  OBVIOUS
<1>1. \A s \in Side, id \in Id :
        LET t == m_internalConnections[s][id].thread IN
        t # NoThread => <<thread[t].kind, thread[t].on, thread[t].id>> = <<"listen", s, id>>
  BY DEF TypeInv, Works, Own
<1>2. \A t \in Thread : /\ thread[t].on \in Side /\ thread[t].id \in Id \cup {NoThread}
                        /\ thread[t].stop \in BOOLEAN
  BY DEF TypeInv, Threads, ThreadRecord
<1>3. /\ {m_modules, awaiting, late} \subseteq [Side -> SUBSET Id]
      /\ {running, ended, asked, made} \subseteq [Side -> [Id -> Nat]]
  BY DEF TypeInv, Base
<1> QED BY <1>1, <1>2, <1>3 DEF TypeInv, Base, TypeOK

LEMMA ActorSide ==
  ASSUME Threads, NEW x \in Actor
  PROVE  SideOf(x) \in Side
<1>1. CASE x \in Thread
  BY <1>1 DEF SideOf, Threads, ThreadRecord
<1>2. CASE x \notin Thread
  BY <1>2 DEF SideOf, Actor, Main
<1> QED BY <1>1, <1>2

LEMMA MainActors ==
  ASSUME NEW s \in Side
  PROVE  /\ {Reader(s), User(s), Managers(s)} \subseteq Actor
         /\ SideOf(Reader(s)) = s /\ SideOf(User(s)) = s /\ SideOf(Managers(s)) = s
         /\ SideOf(Reader(s))' = s /\ SideOf(User(s))' = s /\ SideOf(Managers(s))' = s
<1>1. {Reader(s), User(s), Managers(s)} \subseteq Main
  BY DEF Main, Reader, User, Managers
<1>2. \A x \in Main : x \notin Thread
  BY InternalConnectionAssumption
<1> QED BY <1>1, <1>2 DEF Actor, SideOf, Reader, User, Managers

LEMMA WorkIsOps ==
  ASSUME Works, NEW s
  PROVE  AtWork(s) \subseteq Op
BY DEF Works, AtWork, Handler, SetOf

(* a step that only moves threads on or stops them *)
SameThreads ==
  /\ Threads'
  /\ \A t \in Thread : /\ thread'[t].kind = thread[t].kind /\ thread'[t].on = thread[t].on
                       /\ thread'[t].id = thread[t].id

LEMMA SameStopped ==
  ASSUME Threads, NEW ts, thread' = Stopped(ts)
  PROVE  SameThreads
<1>1. \A t \in Thread :
        thread'[t] = thread[t] \/ thread'[t] = [thread[t] EXCEPT !.stop = TRUE]
  BY DEF Stopped
<1>2. thread' \in [Thread -> ThreadRecord]
  BY <1>1 DEF Stopped, Threads, ThreadRecord
<1> QED BY <1>1, <1>2 DEF SameThreads, Threads, ThreadRecord

LEMMA SameMoves ==
  ASSUME Threads, NEW t \in Thread, NEW from, from # "none",
         NEW to \in {"listening", "accept", "done"}, Moves(t, from, to)
  PROVE  SameThreads
<1> DEFINE r == [thread[t] EXCEPT !.state = to, !.stop = @ /\ to # "done"]
<1>1. thread' = [thread EXCEPT ![t] = r]
  BY DEF Moves, Threads
<1>2. /\ r \in ThreadRecord /\ r.kind = thread[t].kind /\ r.on = thread[t].on
      /\ r.id = thread[t].id
  BY DEF Threads, ThreadRecord
<1>3. thread[t].kind # "none"
  BY DEF Moves, Threads
<1> QED BY <1>1, <1>2, <1>3 DEF SameThreads, Threads

LEMMA SameUnchanged ==
  ASSUME Threads, UNCHANGED thread
  PROVE  SameThreads
BY DEF SameThreads, Threads

LEMMA SameThreadsSides ==
  ASSUME SameThreads
  PROVE  SameSides /\ \A x \in Actor : SideOf(x)' = SideOf(x)
BY DEF SameThreads, SameSides, SideOf

(* a step that leaves the threads theirs, and whose new regions and entries fit *)
LEMMA WorksOn ==
  ASSUME TypeInv, SameThreads, todo' \in [Actor -> Handler],
         \A s \in Side, id \in Id :
           \/ m_internalConnections'[s][id].thread = m_internalConnections[s][id].thread
           \/ Own(s, id, m_internalConnections'[s][id].thread),
         Base',
         \A s \in Side : \A op \in AtWork(s)' : op \in AtWork(s) \/ Fits(s, op)
  PROVE  Works'
<1>1. \A s \in Side, id \in Id : Own(s, id, m_internalConnections'[s][id].thread)
  BY DEF TypeInv, Works
<1>2. \A s \in Side, id \in Id :
        m_internalConnections'[s][id].thread \in Thread \cup {NoThread}
  BY DEF Base, Entry, None
<1>3. \A s \in Side, id \in Id : Own(s, id, m_internalConnections[s][id].thread)'
  BY <1>1, <1>2 DEF Own, SameThreads
<1>4. ASSUME NEW s \in Side, NEW op \in AtWork(s)'
      PROVE  Fits(s, op)'
  <2>1. op \in Op
    BY <1>4 DEF AtWork, Handler, SetOf
  <2>2. Fits(s, op)
    BY DEF TypeInv, Works
  <2>3. /\ op.do = "update" => op.entry.thread \in Thread \cup {NoThread}
        /\ op.do \in {"stop", "start"} => op.thread \in Thread
    BY <2>1 DEF Op, Entry
  <2> QED BY <2>2, <2>3 DEF Fits, Own, SameThreads
<1> QED BY <1>3, <1>4 DEF Works

LEMMA InitType == Init => TypeInv
<1> SUFFICES ASSUME Init PROVE TypeInv
  OBVIOUS
<1>1. Base
  BY InternalConnectionAssumption DEF Init, Base, None, Side
<1>2. Threads
  BY DEF Init, Threads, Unborn, ThreadRecord, Side
<1>3. todo \in [Actor -> Handler]
  BY List0 DEF Init
<1>4. \A s \in Side, id \in Id : Own(s, id, m_internalConnections[s][id].thread)
  BY DEF Init, Own, None
<1>5. \A s : AtWork(s) = {}
  BY List0 DEF Init, AtWork
<1> QED BY <1>1, <1>2, <1>3, <1>4, <1>5 DEF TypeInv, Works

(* a region of a handler *)
LEMMA ContinueType ==
  ASSUME TypeInv, NEW x \in Actor, Continue(x)
  PROVE  TypeInv' /\ SameThreads
<1> DEFINE op == Head(todo[x])
<1> DEFINE s == SideOf(x)
<1> DEFINE id == op.id
<1> DEFINE Owned ==
      \A r \in Side, i \in Id :
        \/ m_internalConnections'[r][i].thread = m_internalConnections[r][i].thread
        \/ Own(r, i, m_internalConnections'[r][i].thread)
<1>1. todo[x] # <<>> /\ Goes(x)
  BY DEF Continue, UpdateObject, DestroyObject, TellModule, toMessage, StopListener, StartThread,
         AddConnection, StopConnection, Doing
<1>2. /\ s \in Side /\ Threads /\ Base /\ Works
      /\ todo \in [Actor -> Handler] /\ op \in Op
  BY ActorSide, <1>1, ListTail DEF TypeInv, Works
<1>3. id \in Id /\ op \in AtWork(s) /\ Fits(s, op)
  <2>1. id \in Id
    BY <1>2 DEF Op
  <2>2. op \in AtWork(s)
    BY <1>1, <1>2, ListTail DEF AtWork
  <2> QED BY <1>2, <2>1, <2>2 DEF Works
<1>4. SUFFICES Base' /\ SameThreads /\ Owned
  <2>1. SameSides
    BY <1>4, SameThreadsSides
  <2>2. todo' \in [Actor -> Handler] /\ \A r : AtWork(r)' \subseteq AtWork(r)
    BY <1>1, <1>2, <2>1, GoesOn
  <2>3. Works'
    BY <1>4, <2>2, WorksOn
  <2> QED BY <1>4, <2>3 DEF TypeInv, SameThreads
<1>5. CASE UpdateObject(x)
  <2>1. op \in [do : {"update"}, id : Id, entry : Entry]
    BY <1>2, <1>5 DEF UpdateObject, Doing, Op
  <2>2. m_internalConnections' = IF Exists(s, id)
          THEN At(m_internalConnections, s, id, op.entry) ELSE m_internalConnections
    BY <1>5 DEF UpdateObject
  <2>3. Base'
    BY <1>2, <1>3, <1>5, <2>1, <2>2 DEF UpdateObject, Base, At, link, rest
  <2>4. Owned
    BY <1>2, <1>3, <2>1, <2>2 DEF Base, At, Fits
  <2>5. SameThreads
    BY <1>2, <1>5, SameUnchanged DEF UpdateObject
  <2> QED BY <2>3, <2>4, <2>5
<1>6. CASE DestroyObject(x)
  <2>1. \/ UNCHANGED <<m_internalConnections, m_modules, awaiting>>
        \/ \E status : /\ m_internalConnections' = At(m_internalConnections, s, id, None)
                       /\ Told(s, id, status)
    BY <1>6 DEF DestroyObject
  <2>2. /\ m_modules' \in [Side -> SUBSET Id] /\ awaiting' \in [Side -> SUBSET Id]
        /\ m_internalConnections' \in [Side -> [Id -> Entry \cup {None}]]
        /\ Owned
    <3>1. CASE UNCHANGED <<m_internalConnections, m_modules, awaiting>>
      BY <1>2, <3>1 DEF Base
    <3>2. CASE \E status : /\ m_internalConnections' = At(m_internalConnections, s, id, None)
                           /\ Told(s, id, status)
      <4>1. m_modules' \in [Side -> SUBSET Id] /\ awaiting' \in [Side -> SUBSET Id]
        BY <1>2, <1>3, <3>2 DEF Told, Base
      <4>2. /\ m_internalConnections' \in [Side -> [Id -> Entry \cup {None}]]
            /\ \A r \in Side, i \in Id : m_internalConnections'[r][i] =
                 IF r = s /\ i = id THEN None ELSE m_internalConnections[r][i]
        <5> DEFINE T == Entry \cup {None}
        <5>1. m_internalConnections \in [Side -> [Id -> T]] /\ None \in T
          BY <1>2 DEF Base
        <5>2. m_internalConnections' = At(m_internalConnections, s, id, None)
          BY <3>2
        <5> HIDE DEF T, s, id
        <5>3. s \in Side /\ id \in Id
          BY <1>2, <1>3
        <5> DEFINE f == m_internalConnections  g == At(f, s, id, None)
        <5>4. /\ g \in [Side -> [Id -> T]]
              /\ \A r \in Side, i \in Id : g[r][i] =
                   IF r = s /\ i = id THEN None ELSE f[r][i]
          BY <5>1, <5>3 DEF At
        <5> QED BY <5>2, <5>4 DEF T
      <4>3. Owned
        BY <4>2 DEF Own, None
      <4> QED BY <4>1, <4>2, <4>3
    <3> QED BY <2>1, <3>1, <3>2
  <2>3. Base'
    BY <1>2, <1>6, <2>2 DEF DestroyObject, Base, link, rest
  <2>4. Owned
    BY <2>2
  <2>5. thread' = thread \/ \E ts : thread' = Stopped(ts)
    BY <1>6 DEF DestroyObject
  <2>6. SameThreads
    BY <1>2, <2>5, SameStopped, SameUnchanged
  <2> QED BY <2>3, <2>4, <2>6
<1>7. CASE TellModule(x)
  <2>1. m_modules' \in [Side -> SUBSET Id] /\ awaiting' \in [Side -> SUBSET Id]
    BY <1>2, <1>3, <1>7 DEF TellModule, Told, Base
  <2>2. Base' /\ Owned
    BY <1>2, <1>7, <2>1 DEF TellModule, Base, link, rest
  <2>3. SameThreads
    BY <1>2, <1>7, SameUnchanged DEF TellModule
  <2> QED BY <2>2, <2>3
<1>8. CASE toMessage(x)
  <2>1. op \in [do : {"post"}, id : Id, kind : Kind]
    BY <1>2, <1>8 DEF toMessage, Doing, Op
  <2>2. [kind |-> op.kind, id |-> op.id] \in Message
    BY <2>1 DEF Message
  <2>3. Other[s] \in Side
    BY <1>2 DEF Other, Side
  <2>4. wire' \in [Side -> Seq(Message)]
    <3>1. wire' = wire \/ wire' = [wire EXCEPT ![Other[s]] =
                                     Append(wire[Other[s]], [kind |-> op.kind, id |-> op.id])]
      BY <1>8 DEF toMessage
    <3>2. Append(wire[Other[s]], [kind |-> op.kind, id |-> op.id]) \in Seq(Message)
      BY <1>2, <2>2, <2>3 DEF Base
    <3> QED BY <1>2, <2>3, <3>1, <3>2 DEF Base
  <2>5. Base' /\ Owned
    BY <1>2, <1>8, <2>4 DEF toMessage, Base, entries, rest
  <2>6. SameThreads
    BY <1>2, <1>8, SameUnchanged DEF toMessage
  <2> QED BY <2>5, <2>6
<1>9. CASE StopListener(x)
  <2>1. Base' /\ Owned
    BY <1>2, <1>9 DEF StopListener, Base, entries, link, rest
  <2>2. SameThreads
    BY <1>2, <1>9, SameStopped DEF StopListener
  <2> QED BY <2>1, <2>2
<1>10. CASE StartThread(x)
  <2>1. op.thread \in Thread /\ thread[op.thread].kind # "none"
    BY <1>2, <1>3, <1>10 DEF StartThread, Doing, Op, Fits
  <2> DEFINE r == [thread[op.thread] EXCEPT !.state = "running"]
  <2>2. thread' = [thread EXCEPT ![op.thread] = r]
    BY <1>10, <1>2, <2>1 DEF StartThread, Threads
  <2>3. /\ r \in ThreadRecord /\ r.kind = thread[op.thread].kind
        /\ r.on = thread[op.thread].on /\ r.id = thread[op.thread].id
    BY <1>2, <2>1 DEF Threads, ThreadRecord
  <2>4. SameThreads
    BY <1>2, <2>1, <2>2, <2>3 DEF SameThreads, Threads
  <2>5. Base' /\ Owned
    BY <1>2, <1>10 DEF StartThread, Base, entries, link, rest
  <2> QED BY <2>4, <2>5
<1>11. CASE AddConnection(x)
  <2>1. running' \in [Side -> [Id -> Nat]]
    BY <1>2, <1>3, <1>11 DEF AddConnection, At, Base
  <2>2. Base' /\ Owned
    BY <1>2, <1>11, <2>1 DEF AddConnection, Base, entries, link, rest
  <2>3. SameThreads
    BY <1>2, <1>11, SameUnchanged DEF AddConnection
  <2> QED BY <2>2, <2>3
<1>12. CASE StopConnection(x)
  <2>1. running' \in [Side -> [Id -> Nat]] /\ ended' \in [Side -> [Id -> Nat]]
    BY <1>2, <1>3, <1>12 DEF StopConnection, At, Base
  <2>2. Base' /\ Owned
    BY <1>2, <1>12, <2>1 DEF StopConnection, Base, entries, link, rest
  <2>3. SameThreads
    BY <1>2, <1>12, SameUnchanged DEF StopConnection
  <2> QED BY <2>2, <2>3
<1> QED BY <1>5, <1>6, <1>7, <1>8, <1>9, <1>10, <1>11, <1>12 DEF Continue

(* an entry that changes has a thread of its own *)
EntriesOwn ==
  \A r \in Side, i \in Id :
    \/ m_internalConnections'[r][i].thread = m_internalConnections[r][i].thread
    \/ Own(r, i, m_internalConnections'[r][i].thread)

(* a handler that begins, or a request that is taken up *)
LEMMA TakesUpType ==
  ASSUME TypeInv, SameThreads, NEW x \in Actor, NEW ops \in Handler,
         todo' = [todo EXCEPT ![x] = ops],
         \A op \in SetOf(ops) : Fits(SideOf(x), op), Base', EntriesOwn
  PROVE  TypeInv'
<1>1. SameSides /\ SideOf(x)' = SideOf(x)
  BY SameThreadsSides
<1>2. /\ todo' \in [Actor -> Handler]
      /\ \A s : \A op \in AtWork(s)' :
           op \in AtWork(s) \/ (s = SideOf(x) /\ op \in SetOf(ops))
  BY <1>1, TakesUp DEF TypeInv, Works
<1>3. Works'
  BY <1>2, WorksOn DEF EntriesOwn
<1> QED BY <1>3 DEF TypeInv, SameThreads

(* a step that is not one of a handler *)
LEMMA StaysType ==
  ASSUME TypeInv, SameThreads, UNCHANGED todo, Base', EntriesOwn
  PROVE  TypeInv'
<1>1. \A s : AtWork(s)' = AtWork(s)
  BY SameThreadsSides, StaysAtWork
<1>2. Works'
  BY <1>1, WorksOn DEF TypeInv, Works, EntriesOwn
<1> QED BY <1>2 DEF TypeInv, SameThreads

LEMMA CopyFits ==
  ASSUME TypeInv, NEW s \in Side, NEW id \in Id
  PROVE  GetObject(s, id) \in Entry /\ Own(s, id, GetObject(s, id).thread)
<1>1. New \in Entry /\ Own(s, id, New.thread)
  BY DEF New, Entry, Own
<1>2. m_internalConnections[s][id] \in Entry \cup {None}
  BY DEF TypeInv, Base
<1> QED BY <1>1, <1>2 DEF GetObject, Exists, TypeInv, Works

LEMMA UserType ==
  ASSUME TypeInv, NEW s \in Side, NEW id \in Id, CreateInternalConnection(s, id)
  PROVE  TypeInv'
<1> USE DEF CreateInternalConnection
<1>1. SameThreads
  BY SameUnchanged DEF TypeInv
<1>2. EntriesOwn
  BY DEF EntriesOwn
<1>3. Base'
  <2>1. asked' \in [Side -> [Id -> Nat]]
    BY DEF TypeInv, Base, At
  <2>2. awaiting' = awaiting \/ awaiting' = [awaiting EXCEPT ![s] = awaiting[s] \cup {id}]
    OBVIOUS
  <2>3. awaiting' \in [Side -> SUBSET Id]
    <3> HIDE DEF CreateInternalConnection
    <3>1. awaiting \in [Side -> SUBSET Id]
      BY DEF TypeInv, Base
    <3> QED BY <2>2, <3>1
  <2> QED BY <2>1, <2>3 DEF TypeInv, Base, link
<1>4. CASE UNCHANGED todo
  BY <1>1, <1>2, <1>3, <1>4, StaysType
<1>5. CASE Begins(User(s), <<ToAsk(id)>>)
  <2>1. ToAsk(id) \in Op /\ Fits(s, ToAsk(id))
    BY DEF ToAsk, Op, Fits
  <2>2. <<ToAsk(id)>> \in Handler /\ SetOf(<<ToAsk(id)>>) = {ToAsk(id)}
    BY <2>1, List1
  <2>3. todo' = [todo EXCEPT ![User(s)] = <<ToAsk(id)>>]
    BY <1>5 DEF Begins
  <2>4. User(s) \in Actor /\ SideOf(User(s)) = s
    BY MainActors
  <2> HIDE DEF CreateInternalConnection
  <2> QED BY <1>1, <1>2, <1>3, <2>1, <2>2, <2>3, <2>4, TakesUpType
<1> QED BY <1>4, <1>5

LEMMA AskType ==
  ASSUME TypeInv, NEW s \in Side, onInitInternalConnectionMessage(s)
  PROVE  TypeInv'
<1> DEFINE x == User(s)  id == Head(todo[x]).id
<1>1. x \in Actor /\ SideOf(x) = s
  BY MainActors
<1>2. id \in Id
  <2>1. todo[x] # <<>> /\ todo[x] \in Handler
    BY <1>1 DEF onInitInternalConnectionMessage, Doing, TypeInv, Works
  <2>2. Head(todo[x]) \in Op
    BY <2>1, ListTail
  <2> QED BY <2>2 DEF Op
<1>3. SameThreads
  BY SameUnchanged DEF TypeInv, onInitInternalConnectionMessage
<1>4. \/ UNCHANGED <<m_internalConnections, made>>
      \/ AddObject(s, id)
  BY DEF onInitInternalConnectionMessage
<1>5. late' \in [Side -> SUBSET Id]
  BY <1>2 DEF onInitInternalConnectionMessage, TypeInv, Base
<1>6. EntriesOwn /\ Base'
  <2>1. New \in Entry /\ New.thread = NoThread
    BY DEF New, Entry
  <2>2. m_internalConnections \in [Side -> [Id -> Entry \cup {None}]]
        /\ made \in [Side -> [Id -> Nat]]
    BY DEF TypeInv, Base
  <2> HIDE DEF id
  <2>3. /\ m_internalConnections' \in [Side -> [Id -> Entry \cup {None}]]
        /\ made' \in [Side -> [Id -> Nat]] /\ EntriesOwn
    <3>1. CASE UNCHANGED <<m_internalConnections, made>>
      BY <2>2, <3>1 DEF EntriesOwn
    <3>2. CASE AddObject(s, id)
      <4>1. made' \in [Side -> [Id -> Nat]]
        BY <1>2, <2>2, <3>2 DEF AddObject, At
      <4>2. /\ m_internalConnections' \in [Side -> [Id -> Entry \cup {None}]]
            /\ \A r \in Side, i \in Id : m_internalConnections'[r][i] =
                 IF r = s /\ i = id THEN New ELSE m_internalConnections[r][i]
        BY <1>2, <2>1, <2>2, <3>2 DEF AddObject, At
      <4> QED BY <2>1, <4>1, <4>2 DEF EntriesOwn, Own
    <3> QED BY <1>4, <3>1, <3>2
  <2>4. EntriesOwn
    BY <2>3
  <2> QED BY <1>5, <2>3, <2>4 DEF onInitInternalConnectionMessage, TypeInv, Base, link
<1>7. PICK ops \in {<<>>, <<ToTell(id, "CONN_FAILED")>>, <<ToPost(id, "INIT")>>,
                    <<ToTell(id, "CONN_EXIST")>>} : todo' = [todo EXCEPT ![x] = ops]
  BY DEF onInitInternalConnectionMessage
<1>8. ops \in Handler /\ \A op \in SetOf(ops) : Fits(s, op)
  <2> HIDE DEF id
  <2>1. /\ {ToPost(id, "INIT"), ToTell(id, "CONN_FAILED"), ToTell(id, "CONN_EXIST")} \subseteq Op
        /\ \A op \in {ToPost(id, "INIT"), ToTell(id, "CONN_FAILED"), ToTell(id, "CONN_EXIST")} :
             Fits(s, op)
    BY <1>2 DEF ToPost, ToTell, Op, Kind, Fits
  <2> QED BY <2>1, List0, List1
<1> QED BY <1>1, <1>3, <1>6, <1>7, <1>8, TakesUpType

-----------------------------------------------------------------------------
(* A new thread is one that nothing is at work with. *)
LEMMA NewThreadFree ==
  ASSUME CanCreate
  PROVE  NewThread \in Thread /\ Free(NewThread)
BY DEF CanCreate, NewThread

LEMMA CreateSides ==
  ASSUME TypeInv, CanCreate, NEW kind, NEW s, NEW id, Create(kind, s, id)
  PROVE  SameSides
<1>1. NewThread \in Thread /\ Idle(NewThread)
  BY NewThreadFree DEF Free
<1> QED BY <1>1 DEF Create, SameSides, SideOf, Idle, TypeInv, Threads

(* a thread is created for a side and an id, whose regions are ops of the reader *)
LEMMA CreatesType ==
  ASSUME TypeInv, NEW s \in Side, NEW id \in Id, NEW kind \in {"connect", "listen"},
         CanCreate, Create(kind, s, id), NEW ops \in Handler,
         todo' = [todo EXCEPT ![Reader(s)] = ops],
         \A op \in SetOf(ops) : Fits(s, op)', Base',
         \A r \in Side, i \in Id :
           m_internalConnections'[r][i].thread \in {m_internalConnections[r][i].thread, NoThread}
  PROVE  TypeInv'
<1> DEFINE n == NewThread
<1>1. n \in Thread /\ Free(n)
  BY NewThreadFree
<1> HIDE DEF n
<1> DEFINE new == [kind |-> kind, on |-> s, id |-> id, state |-> "made", stop |-> FALSE]
<1>2. thread' = [thread EXCEPT ![n] = new] /\ new \in ThreadRecord
  BY DEF Create, n, ThreadRecord
<1>3. Threads'
  BY <1>1, <1>2 DEF TypeInv, Threads
<1>4. SameSides
  BY CreateSides
<1>5. Reader(s) \in Actor /\ SideOf(Reader(s)) = s /\ SideOf(Reader(s))' = s
  BY MainActors
<1>6. /\ todo' \in [Actor -> Handler]
      /\ \A r : \A op \in AtWork(r)' : op \in AtWork(r) \/ (r = s /\ op \in SetOf(ops))
  BY <1>4, <1>5, TakesUp DEF TypeInv, Works
<1>7. \A r \in Side, i \in Id, t \in Thread \cup {NoThread} : t # n /\ Own(r, i, t)
        => Own(r, i, t)'
  BY <1>1, <1>2 DEF Own, TypeInv, Threads
<1>8. \A r \in Side, i \in Id : Own(r, i, m_internalConnections[r][i].thread)'
  <2> SUFFICES ASSUME NEW r \in Side, NEW i \in Id, m_internalConnections'[r][i].thread # NoThread
               PROVE  /\ m_internalConnections'[r][i].thread \in Thread \ {n}
                      /\ Own(r, i, m_internalConnections'[r][i].thread)
    BY <1>7 DEF Own
  <2>1. m_internalConnections'[r][i].thread = m_internalConnections[r][i].thread
    OBVIOUS
  <2>2. m_internalConnections[r][i].thread \in Thread \cup {NoThread}
    <3>1. m_internalConnections[r][i] \in Entry \cup {None}
      BY DEF TypeInv, Base
    <3> QED BY <3>1 DEF Entry, None
  <2>3. m_internalConnections[r][i].thread # n
    BY <1>1 DEF Free
  <2> QED BY <2>1, <2>2, <2>3 DEF TypeInv, Works
<1>9. ASSUME NEW r \in Side, NEW op \in AtWork(r)
      PROVE  Fits(r, op)'
  <2>1. PICK x \in Actor : SideOf(x) = r /\ op \in SetOf(todo[x])
    BY DEF AtWork
  <2>2. PICK i \in 1..Len(todo[x]) : op = todo[x][i]
    BY <2>1 DEF SetOf
  <2>3. /\ op.do \in {"stop", "start"} => op.thread # n
        /\ op.do = "update" => op.entry.thread # n
    BY <1>1, <2>2 DEF Free
  <2>4. op \in Op /\ Fits(r, op)
    BY WorkIsOps DEF TypeInv, Works
  <2>5. /\ op.do = "update" => op.entry.thread \in Thread \cup {NoThread}
        /\ op.do \in {"stop", "start"} => op.thread \in Thread
        /\ op.id \in Id
    BY <2>4 DEF Op, Entry
  <2>6. op.do = "start" => thread'[op.thread] = thread[op.thread]
    BY <1>2, <2>3, <2>5 DEF TypeInv, Threads
  <2> QED BY <1>7, <2>3, <2>4, <2>5, <2>6 DEF Fits
<1>10. \A r \in Side : \A op \in AtWork(r)' : Fits(r, op)'
  BY <1>6, <1>9
<1> QED BY <1>3, <1>6, <1>8, <1>10 DEF TypeInv, Works

LEMMA ReadsWire ==
  ASSUME TypeInv, NEW s \in Side, NEW id \in Id, NEW kind, Reads(s, kind, id)
  PROVE  wire' \in [Side -> Seq(Message)] /\ Idle(Reader(s))
<1>1. wire[s] \in Seq(Message) /\ wire[s] # <<>>
  BY DEF Reads, TypeInv, Base
<1>2. Tail(wire[s]) \in Seq(Message)
  BY <1>1
<1>3. wire' = [wire EXCEPT ![s] = Tail(wire[s])] /\ Idle(Reader(s))
  BY DEF Reads
<1> QED BY <1>2, <1>3 DEF TypeInv, Base

(* IPCHandler: the four messages *)
LEMMA OnInitType ==
  ASSUME TypeInv, NEW s \in Side, NEW id \in Id, OnInit(s, id)
  PROVE  TypeInv'
<1>1. Reader(s) \in Actor /\ SideOf(Reader(s)) = s /\ SideOf(Reader(s))' = s
  BY MainActors
<1>2. wire' \in [Side -> Seq(Message)] /\ Idle(Reader(s))
  BY ReadsWire DEF OnInit
<1>3. /\ {ToPost(id, "CONN_FAILED"), ToPost(id, "CONN_EXIST")} \subseteq Op
      /\ \A op \in {ToPost(id, "CONN_FAILED"), ToPost(id, "CONN_EXIST")} : Fits(s, op)
  BY DEF ToPost, Op, Kind, Fits
<1>4. CASE /\ UNCHANGED <<m_internalConnections, made, thread>>
           /\ \E kind \in {"CONN_FAILED", "CONN_EXIST"} :
                Begins(Reader(s), <<ToPost(id, kind)>>)
  <2>1. PICK op \in {ToPost(id, "CONN_FAILED"), ToPost(id, "CONN_EXIST")} :
          todo' = [todo EXCEPT ![Reader(s)] = <<op>>]
    BY <1>4 DEF Begins
  <2>2. <<op>> \in Handler /\ SetOf(<<op>>) = {op} /\ Fits(s, op)
    BY <1>3, List1
  <2>3. Base' /\ EntriesOwn /\ SameThreads
    BY <1>2, <1>4, SameUnchanged DEF OnInit, Base, EntriesOwn, TypeInv, rest
  <2> QED BY <1>1, <2>1, <2>2, <2>3, TakesUpType
<1>5. CASE /\ CanCreate /\ AddObject(s, id) /\ Create("connect", s, id)
           /\ Begins(Reader(s), <<ToStart(id, NewThread)>>)
  <2>1. NewThread \in Thread
    BY <1>5, NewThreadFree
  <2> DEFINE op == ToStart(id, NewThread)
  <2>2. op \in Op /\ op.do = "start" /\ op.thread = NewThread
    BY <2>1 DEF ToStart, Op
  <2>3. <<op>> \in Handler /\ SetOf(<<op>>) = {op}
    BY <2>2, List1
  <2>4. thread'[NewThread].kind = "connect"
    BY <1>5, <2>1 DEF Create, TypeInv, Threads
  <2>5. \A o \in SetOf(<<op>>) : Fits(s, o)'
    <3> DEFINE n == NewThread
    <3> HIDE DEF n
    <3>1. /\ thread'[n].kind = "connect"
          /\ \A o \in SetOf(<<op>>) : o.do = "start" /\ o.thread = n
      <4> HIDE DEF op
      <4> QED BY <2>2, <2>3, <2>4 DEF n
    <3> QED BY <3>1 DEF Fits
  <2>6. todo' = [todo EXCEPT ![Reader(s)] = <<op>>]
    BY <1>5 DEF Begins
  <2>7. /\ m_internalConnections \in [Side -> [Id -> Entry \cup {None}]]
        /\ made \in [Side -> [Id -> Nat]] /\ New \in Entry
    BY DEF TypeInv, Base, New, Entry
  <2>8. made' \in [Side -> [Id -> Nat]]
    BY <1>5, <2>7 DEF AddObject, At
  <2>9. /\ m_internalConnections' \in [Side -> [Id -> Entry \cup {None}]]
        /\ \A r \in Side, i \in Id : m_internalConnections'[r][i] =
             IF r = s /\ i = id THEN New ELSE m_internalConnections[r][i]
    BY <1>5, <2>7 DEF AddObject, At
  <2>10. \A r \in Side, i \in Id :
           m_internalConnections'[r][i].thread \in {m_internalConnections[r][i].thread, NoThread}
    BY <2>9 DEF New
  <2>11. Base'
    BY <1>2, <2>8, <2>9 DEF OnInit, Base, TypeInv, rest
  <2> HIDE DEF op
  <2> QED BY <1>5, <2>3, <2>5, <2>6, <2>10, <2>11, CreatesType
<1> QED BY <1>4, <1>5 DEF OnInit

LEMMA OnOpenType ==
  ASSUME TypeInv, NEW s \in Side, NEW id \in Id, OnOpen(s, id)
  PROVE  TypeInv'
<1>1. wire' \in [Side -> Seq(Message)] /\ NewThread \in Thread /\ Free(NewThread)
  BY ReadsWire, NewThreadFree DEF OnOpen
<1> DEFINE copy == [GetObject(s, id) EXCEPT !.thread = NewThread]
           a == ToUpdate(id, copy)
           b == ToStart(id, NewThread)
<1>2. copy \in Entry /\ copy.thread = NewThread
  BY <1>1, CopyFits DEF Entry
<1>3. a \in Op /\ a.do = "update" /\ a.id = id /\ a.entry = copy
  BY <1>2 DEF ToUpdate, Op
<1>4. b \in Op /\ b.do = "start" /\ b.thread = NewThread
  BY <1>1 DEF ToStart, Op
<1>5. todo' = [todo EXCEPT ![Reader(s)] = <<a, b>>]
  BY DEF OnOpen, Begins
<1>6. /\ thread'[NewThread].kind = "listen" /\ thread'[NewThread].on = s
      /\ thread'[NewThread].id = id
  BY <1>1 DEF OnOpen, Create, TypeInv, Threads
<1>7. Base' /\ UNCHANGED m_internalConnections
  BY <1>1 DEF OnOpen, Base, TypeInv, entries, rest
<1> HIDE DEF copy, a, b
<1>8. <<a, b>> \in Handler /\ SetOf(<<a, b>>) = {a, b}
  BY <1>3, <1>4, List2
<1>9. \A op \in SetOf(<<a, b>>) :
        /\ op.do = "update" => op.id = id /\ op.entry.thread = NewThread
        /\ op.do # "stop" /\ op.do = "start" => op.thread = NewThread
        /\ op.do # "stop"
  BY <1>2, <1>3, <1>4, <1>8
<1>10. \A op \in SetOf(<<a, b>>) : Fits(s, op)'
  <2> DEFINE n == NewThread
  <2> HIDE DEF n
  <2>1. /\ thread'[n].kind = "listen" /\ thread'[n].on = s /\ thread'[n].id = id
        /\ \A op \in SetOf(<<a, b>>) :
             /\ op.do = "update" => op.id = id /\ op.entry.thread = n
             /\ op.do # "stop"
             /\ op.do = "start" => op.thread = n
    BY <1>6, <1>9 DEF n
  <2> QED BY <2>1 DEF Fits, Own
<1>11. CanCreate /\ Create("listen", s, id)
  BY DEF OnOpen
<1> QED BY <1>5, <1>7, <1>8, <1>10, <1>11, CreatesType

LEMMA OnStatusType ==
  ASSUME TypeInv, NEW s \in Side, NEW id \in Id, OnClose(s, id) \/ OnExistOrFailed(s, id)
  PROVE  TypeInv'
<1>1. Reader(s) \in Actor /\ SideOf(Reader(s)) = s
  BY MainActors
<1>2. wire' \in [Side -> Seq(Message)]
  BY ReadsWire DEF OnClose, OnExistOrFailed
<1>3. Base' /\ EntriesOwn /\ SameThreads
  <2>1. CASE OnClose(s, id)
    BY <1>2, <2>1, SameUnchanged DEF OnClose, Base, EntriesOwn, TypeInv, entries, rest
  <2>2. CASE OnExistOrFailed(s, id)
    BY <1>2, <2>2, SameUnchanged DEF OnExistOrFailed, Base, EntriesOwn, TypeInv, entries, rest
  <2> QED BY <2>1, <2>2
<1>4. PICK b \in {ToStopConnection(id), ToTell(id, "CONN_EXIST"), ToTell(id, "CONN_FAILED")} :
        todo' = [todo EXCEPT ![Reader(s)] = <<ToDestroy(id), b>>]
  BY DEF OnClose, OnExistOrFailed, Begins
<1>5. /\ {ToDestroy(id), b} \subseteq Op
      /\ \A op \in {ToDestroy(id), b} : op.do # "ask" /\ Fits(s, op)
  BY DEF ToDestroy, ToStopConnection, ToTell, Op, Fits
<1>6. /\ <<ToDestroy(id), b>> \in Handler
      /\ \A op \in SetOf(<<ToDestroy(id), b>>) : Fits(s, op)
  BY <1>5, List2
<1> QED BY <1>1, <1>3, <1>4, <1>6, TakesUpType

(* the connect and listen threads *)
Thread0(t) == ConnectSucceeds(t) \/ onErrorConnect(t) \/ onCreatedListener(t)
              \/ onErrorListener(t) \/ LocalConnect(t)

LEMMA ThreadBase ==
  ASSUME TypeInv, NEW t \in Thread, Connects(t) \/ Listens(t) \/ LocalConnect(t)
  PROVE  /\ Base' /\ EntriesOwn /\ SameThreads
         /\ Thread0(t) => thread[t].on \in Side /\ thread[t].id \in Id
         /\ UNCHANGED entries
<1>1. /\ Threads
      /\ \E from \in {"running", "listening", "accept"}, to \in {"listening", "accept", "done"} :
           Moves(t, from, to)
  BY DEF Connects, Listens, ConnectSucceeds, onErrorConnect, onCreatedListener, onErrorListener,
         TestStop, LocalConnect, AcceptFails, TypeInv
<1>2. SameThreads
  BY <1>1, SameMoves
<1>3. thread[t].on \in Side /\ thread[t].id \in Id
  BY <1>1 DEF Moves, Threads, ThreadRecord
<1>4. CASE LocalConnect(t)
  BY <1>2, <1>3, <1>4 DEF LocalConnect, Base, EntriesOwn, TypeInv, entries, link
<1>5. CASE Connects(t) \/ Listens(t)
  <2>1. UNCHANGED <<entries, running, ended, link, rest>>
    BY <1>5 DEF Connects, Listens, ConnectSucceeds, onErrorConnect, onCreatedListener,
                onErrorListener, TestStop, AcceptFails, ThreadOnly
  <2>2. Base' /\ EntriesOwn /\ UNCHANGED entries
    BY <2>1 DEF Base, EntriesOwn, TypeInv, entries, link, rest
  <2> QED BY <1>2, <1>3, <2>2
<1> QED BY <1>4, <1>5

(* what a connect or a listen thread reports *)
Reported(s, id, copy, ops) ==
  \/ ops = <<>>
  \/ /\ copy.thread # NoThread
     /\ ops = <<ToStop(id, copy.thread), ToUpdate(id, [copy EXCEPT !.thread = NoThread]),
                ToRun(id)>>
  \/ ops = <<ToTell(id, "CONN_OPEN"), ToPost(id, "CONN_OPEN"),
             ToUpdate(id, [copy EXCEPT !.status = "CONN_OPEN"]), ToRun(id)>>
  \/ ops = <<ToPost(id, "CONN_FAILED"), ToDestroy(id)>>
  \/ ops = <<ToUpdate(id, [copy EXCEPT !.status = "CONN_OPEN"]), ToTell(id, "CONN_OPEN")>>
  \/ ops = <<ToPost(id, "CONN_CLOSE"), ToTell(id, "CONN_FAILED"), ToDestroy(id)>>

LEMMA ThreadReports ==
  ASSUME NEW t \in Thread, Thread0(t)
  PROVE  /\ Idle(t)
         /\ \E ops : /\ todo' = [todo EXCEPT ![t] = ops]
                     /\ Reported(thread[t].on, thread[t].id,
                                 GetObject(thread[t].on, thread[t].id), ops)
<1> DEFINE id == thread[t].id  copy == GetObject(thread[t].on, id)
<1>1. CASE ConnectSucceeds(t) \/ LocalConnect(t)
  BY <1>1 DEF ConnectSucceeds, LocalConnect, onAddConnector, Reports, Begins, Reported
<1>2. CASE onErrorConnect(t)
  BY <1>2 DEF onErrorConnect, Reports, Begins, Reported
<1>3. CASE onCreatedListener(t)
  BY <1>3 DEF onCreatedListener, Reports, Begins, Reported
<1>4. CASE onErrorListener(t)
  BY <1>4 DEF onErrorListener, Reports, Begins, Reported
<1> QED BY <1>1, <1>2, <1>3, <1>4 DEF Thread0

LEMMA ReportedFits ==
  ASSUME NEW s \in Side, NEW id \in Id, NEW copy \in Entry, Own(s, id, copy.thread),
         NEW ops, Reported(s, id, copy, ops)
  PROVE  ops \in Handler /\ \A op \in SetOf(ops) : Fits(s, op)
<1> DEFINE stop == ToStop(id, copy.thread)
           clear == ToUpdate(id, [copy EXCEPT !.thread = NoThread])
           open == ToUpdate(id, [copy EXCEPT !.status = "CONN_OPEN"])
           run == ToRun(id)  tell == ToTell(id, "CONN_OPEN")  fail == ToTell(id, "CONN_FAILED")
           post == ToPost(id, "CONN_OPEN")  postF == ToPost(id, "CONN_FAILED")
           postC == ToPost(id, "CONN_CLOSE")  destroy == ToDestroy(id)
<1>1. /\ {run, tell, fail, post, postF, postC, destroy} \subseteq Op
      /\ \A op \in {run, tell, fail, post, postF, postC, destroy} : op.do # "ask" /\ Fits(s, op)
  BY DEF ToRun, ToTell, ToPost, ToDestroy, Op, Kind, Fits
<1>2. {clear, open} \subseteq Op /\ clear.do # "ask" /\ open.do # "ask"
  BY DEF ToUpdate, Op, Entry
<1>3. Fits(s, clear) /\ Fits(s, open)
  <2>1. [copy EXCEPT !.thread = NoThread].thread = NoThread
    BY DEF Entry
  <2>2. [copy EXCEPT !.status = "CONN_OPEN"].thread = copy.thread
    BY DEF Entry
  <2> QED BY <2>1, <2>2 DEF ToUpdate, Fits, Own
<1>4. copy.thread # NoThread => stop \in Op /\ stop.do # "ask" /\ Fits(s, stop)
  BY DEF ToStop, Op, Entry, Fits
<1>5. \/ ops = <<>>
      \/ copy.thread # NoThread /\ ops = <<stop, clear, run>>
      \/ ops = <<tell, post, open, run>>
      \/ ops = <<postF, destroy>>
      \/ ops = <<open, tell>>
      \/ ops = <<postC, fail, destroy>>
  BY DEF Reported
<1> HIDE DEF stop, clear, open, run, tell, fail, post, postF, postC, destroy
<1>6. CASE ops = <<>>
  BY <1>6, List0
<1>7. CASE copy.thread # NoThread /\ ops = <<stop, clear, run>>
  <2>1. ops \in Handler /\ SetOf(ops) = {stop, clear, run}
    BY <1>1, <1>2, <1>4, <1>7, List3
  <2> QED BY <1>1, <1>3, <1>4, <1>7, <2>1
<1>8. CASE ops = <<tell, post, open, run>>
  <2>1. ops \in Handler /\ SetOf(ops) = {tell, post, open, run}
    BY <1>1, <1>2, <1>8, List4
  <2> QED BY <1>1, <1>3, <2>1
<1>9. CASE ops = <<postF, destroy>>
  <2>1. ops \in Handler /\ SetOf(ops) = {postF, destroy}
    BY <1>1, <1>9, List2
  <2> QED BY <1>1, <2>1
<1>10. CASE ops = <<open, tell>>
  <2>1. ops \in Handler /\ SetOf(ops) = {open, tell}
    BY <1>1, <1>2, <1>10, List2
  <2> QED BY <1>1, <1>3, <2>1
<1>11. CASE ops = <<postC, fail, destroy>>
  <2>1. ops \in Handler /\ SetOf(ops) = {postC, fail, destroy}
    BY <1>1, <1>11, List3
  <2> QED BY <1>1, <2>1
<1> QED BY <1>5, <1>6, <1>7, <1>8, <1>9, <1>10, <1>11

LEMMA ThreadType ==
  ASSUME TypeInv, NEW t \in Thread, Connects(t) \/ Listens(t) \/ LocalConnect(t)
  PROVE  TypeInv'
<1>1. Base' /\ EntriesOwn /\ SameThreads
  BY ThreadBase
<1>2. CASE TestStop(t) \/ AcceptFails(t)
  BY <1>1, <1>2, StaysType DEF TestStop, AcceptFails
<1>3. CASE Thread0(t)
  <2>1. thread[t].on \in Side /\ thread[t].id \in Id
    BY <1>3, ThreadBase
  <2>2. PICK ops : /\ todo' = [todo EXCEPT ![t] = ops]
                   /\ Reported(thread[t].on, thread[t].id,
                               GetObject(thread[t].on, thread[t].id), ops)
    BY <1>3, ThreadReports
  <2>3. /\ GetObject(thread[t].on, thread[t].id) \in Entry
        /\ Own(thread[t].on, thread[t].id, GetObject(thread[t].on, thread[t].id).thread)
    BY <2>1, CopyFits
  <2>4. ops \in Handler /\ \A op \in SetOf(ops) : Fits(thread[t].on, op)
    BY <2>1, <2>2, <2>3, ReportedFits
  <2>5. t \in Actor /\ SideOf(t) = thread[t].on
    BY DEF Actor, SideOf
  <2> QED BY <1>1, <2>2, <2>4, <2>5, TakesUpType
<1> QED BY <1>2, <1>3 DEF Thread0, Connects, Listens

-----------------------------------------------------------------------------
(* The ends of connectors, and of the connection. *)
LEMMA EndsType ==
  ASSUME TypeInv, NEW s \in Side, NEW id \in Id,
         ConnectorEnds(s, id) \/ onDisconnected(s, id)
  PROVE  TypeInv'
<1>1. CASE ConnectorEnds(s, id)
  <2>1. /\ running[s][id] \in Nat /\ running[s][id] > 0 /\ ended[s][id] \in Nat
        /\ running \in [Side -> [Id -> Nat]] /\ ended \in [Side -> [Id -> Nat]]
    BY <1>1 DEF ConnectorEnds, TypeInv, Base
  <2>2. running' \in [Side -> [Id -> Nat]] /\ ended' \in [Side -> [Id -> Nat]]
    BY <1>1, <2>1 DEF ConnectorEnds, At
  <2>3. Base' /\ EntriesOwn /\ SameThreads
    BY <1>1, <2>2, SameUnchanged
       DEF ConnectorEnds, Base, EntriesOwn, TypeInv, entries, link, rest
  <2> QED BY <1>1, <2>3, StaysType DEF ConnectorEnds
<1>2. CASE onDisconnected(s, id)
  <2>1. Managers(s) \in Actor /\ SideOf(Managers(s)) = s
    BY MainActors
  <2>2. /\ ended[s][id] \in Nat /\ ended[s][id] > 0 /\ ended \in [Side -> [Id -> Nat]]
    BY <1>2 DEF onDisconnected, TypeInv, Base
  <2>3. ended' \in [Side -> [Id -> Nat]]
    BY <1>2, <2>2 DEF onDisconnected, At
  <2>4. Base' /\ EntriesOwn /\ SameThreads
    BY <1>2, <2>3, SameUnchanged
       DEF onDisconnected, Base, EntriesOwn, TypeInv, entries, link, rest
  <2> DEFINE a == ToPost(id, "CONN_CLOSE")  b == ToDestroy(id)
  <2>5. /\ a \in Op /\ b \in Op /\ a.do # "ask" /\ b.do # "ask"
        /\ Fits(s, a) /\ Fits(s, b)
    BY DEF ToPost, ToDestroy, Op, Kind, Fits
  <2>6. todo' = [todo EXCEPT ![Managers(s)] = <<a, b>>]
    BY <1>2 DEF onDisconnected, Begins
  <2> HIDE DEF a, b
  <2>7. <<a, b>> \in Handler /\ \A op \in SetOf(<<a, b>>) : Fits(s, op)
    BY <2>5, List2
  <2> QED BY <2>1, <2>4, <2>6, <2>7, TakesUpType
<1> QED BY <1>1, <1>2

LEMMA OverType ==
  ASSUME TypeInv, Cut \/ (\E s \in Side : ManagerForgotten(s) \/ ManagerStop(s))
  PROVE  TypeInv'
<1>1. CASE Cut
  <2>1. Base' /\ EntriesOwn /\ SameThreads
    BY <1>1, SameUnchanged DEF Cut, Base, EntriesOwn, TypeInv, entries, rest
  <2> QED BY <1>1, <2>1, StaysType DEF Cut
<1>2. ASSUME NEW s \in Side, ManagerForgotten(s)
      PROVE  TypeInv'
  <2>1. Base' /\ EntriesOwn /\ SameThreads
    BY <1>2, SameUnchanged DEF ManagerForgotten, Base, EntriesOwn, TypeInv, entries, rest
  <2> QED BY <1>2, <2>1, StaysType DEF ManagerForgotten
<1>3. ASSUME NEW s \in Side, ManagerStop(s)
      PROVE  TypeInv'
  <2>1. running \in [Side -> [Id -> Nat]] /\ ended \in [Side -> [Id -> Nat]]
    BY DEF TypeInv, Base
  <2>2. /\ [id \in Id |-> ended[s][id] + running[s][id]] \in [Id -> Nat]
        /\ [id \in Id |-> 0] \in [Id -> Nat]
    BY <2>1
  <2>3. running' \in [Side -> [Id -> Nat]] /\ ended' \in [Side -> [Id -> Nat]]
    BY <1>3, <2>1, <2>2 DEF ManagerStop
  <2>4. Base' /\ EntriesOwn /\ SameThreads
    BY <1>3, <2>3, SameUnchanged DEF ManagerStop, Base, EntriesOwn, TypeInv, entries, link, rest
  <2> QED BY <1>3, <2>4, StaysType DEF ManagerStop
<1> QED BY <1>1, <1>2, <1>3

LEMMA StopType ==
  ASSUME TypeInv, NEW s \in Side, OnStop(s) \/ Delete(s)
  PROVE  TypeInv'
<1>1. [id \in Id |-> None] \in [Id -> Entry \cup {None}] /\ [id \in Id |-> 0] \in [Id -> Nat]
  OBVIOUS
<1>2. m_internalConnections' = [m_internalConnections EXCEPT ![s] = [id \in Id |-> None]]
  BY DEF OnStop, Delete
<1>3. /\ m_internalConnections' \in [Side -> [Id -> Entry \cup {None}]]
      /\ EntriesOwn
  <2>1. m_internalConnections \in [Side -> [Id -> Entry \cup {None}]]
    BY DEF TypeInv, Base
  <2>2. \A r \in Side, i \in Id : m_internalConnections'[r][i] =
          IF r = s THEN None ELSE m_internalConnections[r][i]
    BY <1>2, <2>1
  <2> QED BY <1>1, <1>2, <2>1, <2>2 DEF EntriesOwn, Own, None
<1>4. CASE OnStop(s)
  <2>1. /\ m_modules' \in [Side -> SUBSET Id] /\ awaiting' \in [Side -> SUBSET Id]
        /\ conn' \in [Side -> {"on", "swept", "over", "gone"}]
        /\ wire' \in [Side -> Seq(Message)]
    BY <1>4 DEF OnStop, TypeInv, Base
  <2>2. Base' /\ SameThreads
    BY <1>3, <1>4, <2>1, SameStopped DEF OnStop, TypeInv, Base, rest
  <2> QED BY <1>3, <1>4, <2>2, StaysType DEF OnStop
<1>5. CASE Delete(s)
  <2>1. /\ running' \in [Side -> [Id -> Nat]] /\ ended' \in [Side -> [Id -> Nat]]
        /\ conn' \in [Side -> {"on", "swept", "over", "gone"}]
    BY <1>1, <1>5 DEF Delete, TypeInv, Base
  <2>2. Base' /\ SameThreads
    BY <1>3, <1>5, <2>1, SameUnchanged DEF Delete, TypeInv, Base, rest
  <2> QED BY <1>3, <1>5, <2>2, StaysType DEF Delete
<1> QED BY <1>4, <1>5

LEMMA NextType == TypeInv /\ [Next]_vars => TypeInv'
<1> SUFFICES ASSUME TypeInv, [Next]_vars PROVE TypeInv'
  OBVIOUS
<1>1. ASSUME NEW x \in Actor, Continue(x) PROVE TypeInv'
  BY <1>1, ContinueType
<1>2. ASSUME NEW s \in Side, onInitInternalConnectionMessage(s) PROVE TypeInv'
  BY <1>2, AskType
<1>3. ASSUME NEW s \in Side, Handle(s) PROVE TypeInv'
  BY <1>3, OnInitType, OnOpenType, OnStatusType DEF Handle
<1>4. ASSUME NEW s \in Side, OnStop(s) \/ Delete(s) PROVE TypeInv'
  BY <1>4, StopType
<1>5. ASSUME NEW s \in Side, NEW id \in Id,
             \/ CreateInternalConnection(s, id)
             \/ ConnectorEnds(s, id) \/ onDisconnected(s, id)
      PROVE  TypeInv'
  BY <1>5, UserType, EndsType
<1>6. ASSUME NEW t \in Thread, Connects(t) \/ Listens(t) \/ LocalConnect(t) PROVE TypeInv'
  BY <1>6, ThreadType
<1>7. CASE Cut \/ \E s \in Side : ManagerForgotten(s) \/ ManagerStop(s)
  BY <1>7, OverType
<1>8. CASE UNCHANGED vars
  <2>1. Base' /\ EntriesOwn /\ SameThreads
    BY <1>8, SameUnchanged DEF vars, Base, EntriesOwn, TypeInv, entries, link, rest
  <2> QED BY <1>8, <2>1, StaysType DEF vars
<1> QED BY <1>1, <1>2, <1>3, <1>4, <1>5, <1>6, <1>7, <1>8 DEF Next

(* Whatever regions of handlers are under way, every variable holds a value of its type, and
   the thread that an entry refers to is a listen thread created for that entry's side and
   id: onAddConnector, DestroyObject and OnStop never stop a thread of another connection.  *)
THEOREM WellTyped == Spec => []TypeOK
<1>1. TypeInv /\ [Next]_vars => TypeInv'
  BY NextType
<1>2. TypeInv => TypeOK
  BY TypeInvImplies
<1> QED BY InitType, <1>1, <1>2, PTL DEF Spec

-----------------------------------------------------------------------------
(* An open entry of an id used once is listed. *)

Tells(op, id) == op.do = "tell" /\ op.id = id /\ op.status = "CONN_OPEN"
Updates(op, id) == op.do = "update" /\ op.id = id /\ op.entry.status = "CONN_OPEN"

(* the id is listed, or a handler is about to list it *)
Lists(s, id) == id \in m_modules[s] \/ \E op \in AtWork(s) : Tells(op, id)

(* its entry is open, or a handler holds an open copy of it *)
Opens(s, id) ==
  m_internalConnections[s][id].status = "CONN_OPEN" \/ \E op \in AtWork(s) : Updates(op, id)

(* the one entry that is made of the id has not gone yet *)
Live(s, id) == made[s][id] = 0 \/ (made[s][id] = 1 /\ Exists(s, id))

Listing ==
  \A s \in Side, id \in Id :
    /\ made[s][id] = 0 => ~Exists(s, id)
    /\ Live(s, id) /\ Opens(s, id) => Lists(s, id)

(* what a step makes of the entries and of the list, as far as Listing goes *)
EntriesKept ==
  \A s \in Side, id \in Id :
    /\ made'[s][id] = 0 => ~Exists(s, id)'
    /\ Live(s, id)' => Live(s, id)
    /\ m_internalConnections'[s][id].status = "CONN_OPEN" => Opens(s, id)
    /\ Live(s, id)' /\ id \in m_modules[s] => id \in m_modules'[s]

LEMMA ListingStep ==
  ASSUME Listing, EntriesKept,
         \A s \in Side, id \in Id : \A op \in AtWork(s)' :
           Updates(op, id) => op \in AtWork(s) \/ Opens(s, id) \/ Lists(s, id)',
         \A s \in Side, id \in Id : \A op \in AtWork(s) :
           Tells(op, id) => op \in AtWork(s)' \/ id \in m_modules'[s]
  PROVE  Listing'
<1> SUFFICES ASSUME NEW s \in Side, NEW id \in Id, Live(s, id)', Opens(s, id)'
             PROVE  Lists(s, id)'
  BY DEF Listing, EntriesKept
<1>1. Lists(s, id) => Lists(s, id)'
  BY DEF EntriesKept, Lists, Tells
<1>2. Opens(s, id) \/ Lists(s, id)'
  BY DEF EntriesKept, Opens, Updates
<1> QED BY <1>1, <1>2 DEF Listing, EntriesKept

(* a handler that begins, or a request that is taken up *)
LEMMA TakesUpListing ==
  ASSUME TypeInv, Listing, EntriesKept, SameSides, NEW x \in Actor, SideOf(x)' = SideOf(x),
         NEW ops \in Handler, todo' = [todo EXCEPT ![x] = ops],
         \A op \in SetOf(todo[x]) : op.do # "tell",
         \A id \in Id : \A op \in SetOf(ops) :
           Updates(op, id) => Opens(SideOf(x), id) \/ \E o \in SetOf(ops) : Tells(o, id)
  PROVE  Listing'
<1>1. /\ \A s : \A op \in AtWork(s)' :
           op \in AtWork(s) \/ (s = SideOf(x) /\ op \in SetOf(ops))
      /\ \A s : \A op \in AtWork(s) :
           op \in AtWork(s)' \/ (s = SideOf(x) /\ op \in SetOf(todo[x]))
      /\ SetOf(ops) \subseteq AtWork(SideOf(x))'
  BY TakesUp DEF TypeInv, Works
<1>2. ASSUME NEW s \in Side, NEW id \in Id, NEW op \in AtWork(s)', Updates(op, id)
      PROVE  op \in AtWork(s) \/ Opens(s, id) \/ Lists(s, id)'
  <2> SUFFICES ASSUME s = SideOf(x), op \in SetOf(ops)
               PROVE  Opens(s, id) \/ Lists(s, id)'
    BY <1>1
  <2>1. CASE \E o \in SetOf(ops) : Tells(o, id)
    <3>1. \E o \in AtWork(s)' : Tells(o, id)
      BY <1>1, <2>1
    <3> QED BY <3>1 DEF Lists, Tells
  <2> QED BY <1>2, <2>1
<1>3. ASSUME NEW s \in Side, NEW id \in Id, NEW op \in AtWork(s), Tells(op, id)
      PROVE  op \in AtWork(s)'
  BY <1>1, <1>3 DEF Tells
<1> QED BY <1>2, <1>3, ListingStep

(* a step that is not one of a handler *)
LEMMA StaysListing ==
  ASSUME Listing, EntriesKept, SameSides, UNCHANGED todo
  PROVE  Listing'
<1>1. \A s : AtWork(s)' = AtWork(s)
  BY StaysAtWork
<1> QED BY <1>1, ListingStep

(* entries that do not change, or one that is added *)
LEMMA AddsEntries ==
  ASSUME TypeInv, Listing, UNCHANGED m_modules,
         \/ UNCHANGED <<m_internalConnections, made>>
         \/ \E s \in Side, id \in Id : ~Exists(s, id) /\ AddObject(s, id)
  PROVE  EntriesKept
<1>1. CASE UNCHANGED <<m_internalConnections, made>>
  BY <1>1 DEF EntriesKept, Listing, Live, Opens, Exists
<1>2. ASSUME NEW s \in Side, NEW id \in Id, ~Exists(s, id), AddObject(s, id)
      PROVE  EntriesKept
  <2>1. /\ m_internalConnections \in [Side -> [Id -> Entry \cup {None}]]
        /\ made \in [Side -> [Id -> Nat]]
    BY DEF TypeInv, Base
  <2>2. \A r \in Side, i \in Id : m_internalConnections'[r][i] =
          IF r = s /\ i = id THEN New ELSE m_internalConnections[r][i]
    BY <1>2, <2>1 DEF AddObject, At
  <2>3. \A r \in Side, i \in Id : made'[r][i] =
          IF r = s /\ i = id THEN made[s][id] + 1 ELSE made[r][i]
    BY <1>2, <2>1 DEF AddObject, At
  <2> SUFFICES ASSUME NEW r \in Side, NEW i \in Id
               PROVE  /\ made'[r][i] = 0 => ~Exists(r, i)'
                      /\ Live(r, i)' => Live(r, i)
                      /\ m_internalConnections'[r][i].status = "CONN_OPEN" => Opens(r, i)
    BY DEF EntriesKept
  <2>4. CASE r = s /\ i = id
    <3>1. made'[r][i] = made[r][i] + 1 /\ made[r][i] \in Nat
      BY <2>1, <2>3, <2>4
    <3>2. m_internalConnections'[r][i] = New
      BY <2>2, <2>4
    <3> QED BY <3>1, <3>2 DEF Live, New
  <2>5. CASE ~(r = s /\ i = id)
    <3>1. /\ made'[r][i] = made[r][i]
          /\ m_internalConnections'[r][i] = m_internalConnections[r][i]
      BY <2>2, <2>3, <2>5
    <3> QED BY <3>1 DEF Listing, Live, Exists, Opens
  <2> QED BY <2>4, <2>5
<1> QED BY <1>1, <1>2

LEMMA InitListing == Init => Listing
<1> SUFFICES ASSUME Init PROVE Listing
  OBVIOUS
<1>1. \A s : AtWork(s) = {}
  BY List0 DEF Init, AtWork
<1>2. \A s \in Side, id \in Id : m_internalConnections[s][id] = None
  BY DEF Init
<1> QED BY <1>1, <1>2 DEF Listing, Opens, Exists, None

(* a region of a handler: an update opens an entry that a copy had open, and an entry that
   is destroyed is no longer live                                                         *)
LEMMA ContinueListing ==
  ASSUME TypeInv, Listing, NEW x \in Actor, Continue(x)
  PROVE  Listing'
<1> DEFINE op == Head(todo[x])  s == SideOf(x)
<1>1. todo[x] # <<>> /\ Goes(x)
  BY DEF Continue, UpdateObject, DestroyObject, TellModule, toMessage, StopListener, StartThread,
         AddConnection, StopConnection, Doing
<1>2. /\ SameSides
      /\ s \in Side /\ todo \in [Actor -> Handler]
  BY ContinueType, SameThreadsSides, ActorSide DEF TypeInv, Works
<1>3. /\ op \in Op /\ op.id \in Id /\ op \in AtWork(s)
      /\ \A r : AtWork(r)' \subseteq AtWork(r)
      /\ \A r : \A o \in AtWork(r) : o \in AtWork(r)' \/ (r = s /\ o = op)
  <2>1. /\ op \in Op /\ op \in AtWork(s)
        /\ \A r : AtWork(r)' \subseteq AtWork(r)
        /\ \A r : \A o \in AtWork(r) : o \in AtWork(r)' \/ (r = s /\ o = op)
    BY <1>1, <1>2, GoesOn
  <2>2. op.id \in Id
    BY <2>1 DEF Op
  <2> QED BY <2>1, <2>2
<1>4. SUFFICES /\ EntriesKept
               /\ \A id \in Id : Tells(op, id) => id \in m_modules'[s]
  BY <1>3, ListingStep
<1>5. /\ m_internalConnections \in [Side -> [Id -> Entry \cup {None}]]
      /\ m_modules \in [Side -> SUBSET Id]
  BY DEF TypeInv, Base
<1>6. CASE UpdateObject(x)
  <2>1. op \in [do : {"update"}, id : Id, entry : Entry]
    BY <1>3, <1>6 DEF UpdateObject, Doing, Op
  <2>2. UNCHANGED <<made, m_modules>> /\ ~\E id \in Id : Tells(op, id)
    BY <1>6, <2>1 DEF UpdateObject, Tells
  <2>3. \A r \in Side, i \in Id : m_internalConnections'[r][i] =
          IF r = s /\ i = op.id /\ Exists(r, i) THEN op.entry ELSE m_internalConnections[r][i]
    <3>1. m_internalConnections' = IF Exists(s, op.id)
            THEN At(m_internalConnections, s, op.id, op.entry) ELSE m_internalConnections
      BY <1>6 DEF UpdateObject
    <3> HIDE DEF op, s
    <3>2. CASE Exists(s, op.id)
      BY <1>2, <1>3, <1>5, <3>1, <3>2 DEF At
    <3>3. CASE ~Exists(s, op.id)
      BY <3>1, <3>3
    <3> QED BY <3>2, <3>3
  <2>4. op.entry # None
    BY <2>1 DEF Entry, None
  <2>5. op.entry.status = "CONN_OPEN" => Opens(s, op.id)
    BY <1>3, <2>1 DEF Opens, Updates
  <2> HIDE DEF op, s
  <2>6. \A r \in Side, i \in Id :
          /\ Exists(r, i)' <=> Exists(r, i)
          /\ m_internalConnections'[r][i].status = "CONN_OPEN" => Opens(r, i)
    BY <2>3, <2>4, <2>5 DEF Exists, Opens
  <2>7. EntriesKept
    BY <2>2, <2>6 DEF EntriesKept, Live, Listing
  <2> QED BY <2>2, <2>7
<1>7. CASE DestroyObject(x)
  <2>1. UNCHANGED made /\ ~\E id \in Id : Tells(op, id)
    BY <1>7 DEF DestroyObject, Doing, Tells
  <2>2. CASE ~Exists(s, op.id)
    <3>1. UNCHANGED <<m_internalConnections, m_modules>>
      BY <1>7, <2>2 DEF DestroyObject
    <3> QED BY <2>1, <3>1, AddsEntries
  <2>3. CASE Exists(s, op.id)
    <3>1. /\ m_internalConnections' = At(m_internalConnections, s, op.id, None)
          /\ \E status : Told(s, op.id, status)
      BY <1>7, <2>3 DEF DestroyObject
    <3> HIDE DEF op, s
    <3>2. \A r \in Side, i \in Id : m_internalConnections'[r][i] =
            IF r = s /\ i = op.id THEN None ELSE m_internalConnections[r][i]
      BY <1>2, <1>3, <1>5, <3>1 DEF At
    <3>3. \A r \in Side, i \in Id : i \in m_modules[r] =>
            i \in m_modules'[r] \/ (r = s /\ i = op.id)
      BY <1>2, <1>3, <1>5, <3>1 DEF Told
    <3>4. \A r \in Side, i \in Id : r = s /\ i = op.id => ~Live(r, i)'
      BY <1>2, <1>3, <2>1, <2>3, <3>2 DEF Live, Exists, Listing
    <3>5. \A r \in Side, i \in Id :
            /\ Exists(r, i)' => Exists(r, i)
            /\ m_internalConnections'[r][i].status = "CONN_OPEN" => Opens(r, i)
      BY <3>2 DEF Exists, Opens, None
    <3>6. EntriesKept
      BY <2>1, <3>3, <3>4, <3>5 DEF EntriesKept, Live, Listing
    <3> QED BY <2>1, <3>6
  <2> QED BY <2>2, <2>3
<1>8. CASE TellModule(x)
  <2>1. op \in [do : {"tell"}, id : Id, status : {"CONN_OPEN", "CONN_EXIST", "CONN_FAILED"}]
    BY <1>3, <1>8 DEF TellModule, Doing, Op
  <2>2. /\ UNCHANGED <<m_internalConnections, made>>
        /\ m_modules' = [m_modules EXCEPT ![s] =
             IF op.status = "CONN_OPEN" THEN @ \cup {op.id} ELSE @]
    BY <1>8, <2>1 DEF TellModule, Told
  <2> HIDE DEF op, s
  <2>3. /\ \A r \in Side : m_modules[r] \subseteq m_modules'[r]
        /\ op.status = "CONN_OPEN" => op.id \in m_modules'[s]
    BY <1>2, <1>5, <2>2
  <2>4. EntriesKept
    BY <2>2, <2>3 DEF EntriesKept, Live, Opens, Exists, Listing
  <2> QED BY <2>3, <2>4 DEF Tells
<1>9. CASE \/ toMessage(x) \/ StopListener(x) \/ StartThread(x) \/ AddConnection(x)
           \/ StopConnection(x)
  <2>1. UNCHANGED <<m_internalConnections, made, m_modules>> /\ op.do # "tell"
    BY <1>9 DEF toMessage, StopListener, StartThread, AddConnection, StopConnection, Doing,
                entries
  <2>2. EntriesKept
    BY <2>1, AddsEntries
  <2> QED BY <2>1, <2>2 DEF Tells
<1> QED BY <1>6, <1>7, <1>8, <1>9 DEF Continue

(* the user's thread *)
LEMMA UserListing ==
  ASSUME TypeInv, Listing, NEW s \in Side,
         \/ \E id \in Id : CreateInternalConnection(s, id)
         \/ onInitInternalConnectionMessage(s)
  PROVE  Listing'
<1> DEFINE x == User(s)
<1>1. x \in Actor /\ SideOf(x)' = SideOf(x)
  BY MainActors
<1>2. SameThreads
  BY SameUnchanged DEF TypeInv, CreateInternalConnection, onInitInternalConnectionMessage
<1>3. SameSides
  BY <1>2, SameThreadsSides
<1> HIDE DEF x
<1>4. CASE UNCHANGED todo /\ \E id \in Id : CreateInternalConnection(s, id)
  <2>1. EntriesKept
    BY <1>4, AddsEntries DEF CreateInternalConnection
  <2> QED BY <1>3, <1>4, <2>1, StaysListing
<1>5. ASSUME NEW id \in Id, CreateInternalConnection(s, id), Begins(x, <<ToAsk(id)>>)
      PROVE  Listing'
  <2>1. ToAsk(id) \in Op /\ \A i : ~Updates(ToAsk(id), i)
    BY DEF ToAsk, Op, Updates
  <2>2. <<ToAsk(id)>> \in Handler /\ SetOf(<<ToAsk(id)>>) = {ToAsk(id)}
    BY <2>1, List1
  <2>3. SetOf(todo[x]) = {} /\ todo' = [todo EXCEPT ![x] = <<ToAsk(id)>>]
    BY <1>5, List0 DEF Begins, Idle
  <2>4. EntriesKept
    BY <1>5, AddsEntries DEF CreateInternalConnection
  <2> QED BY <1>1, <1>3, <2>1, <2>2, <2>3, <2>4, TakesUpListing
<1>6. CASE onInitInternalConnectionMessage(s)
  <2> DEFINE id == Head(todo[x]).id
  <2>1. todo[x] \in Handler /\ todo[x] # <<>> /\ Head(todo[x]).do = "ask"
    BY <1>1, <1>6 DEF onInitInternalConnectionMessage, Doing, TypeInv, Works, x
  <2>2. Head(todo[x]) \in Op /\ Head(todo[x]) \in SetOf(todo[x])
    BY <2>1, ListTail
  <2>3. id \in Id
    BY <2>2 DEF Op
  <2>4. SetOf(todo[x]) = {Head(todo[x])}
    <3>1. Len(todo[x]) = 1 /\ todo[x] \in Seq(Op)
      BY <2>1, <2>2 DEF Handler
    <3>2. 1..1 = {1} /\ Head(todo[x]) = todo[x][1]
      BY <2>1, <3>1
    <3> QED BY <3>1, <3>2 DEF SetOf
  <2>5. UNCHANGED m_modules /\ \/ UNCHANGED <<m_internalConnections, made>>
                               \/ ~Exists(s, id) /\ AddObject(s, id)
    BY <1>6 DEF onInitInternalConnectionMessage, x
  <2>6. EntriesKept
    BY <2>3, <2>5, AddsEntries
  <2>7. PICK ops \in {<<>>, <<ToTell(id, "CONN_FAILED")>>, <<ToPost(id, "INIT")>>,
                      <<ToTell(id, "CONN_EXIST")>>} : todo' = [todo EXCEPT ![x] = ops]
    BY <1>6 DEF onInitInternalConnectionMessage, x
  <2>8. ops \in Handler /\ \A op \in SetOf(ops) : op.do # "update"
    <3> HIDE DEF id
    <3>1. /\ {ToPost(id, "INIT"), ToTell(id, "CONN_FAILED"), ToTell(id, "CONN_EXIST")}
               \subseteq Op
          /\ \A op \in {ToPost(id, "INIT"), ToTell(id, "CONN_FAILED"), ToTell(id, "CONN_EXIST")} :
               op.do # "update"
      BY <2>3 DEF ToPost, ToTell, Op, Kind
    <3> QED BY <3>1, List0, List1
  <2>9. /\ \A op \in SetOf(todo[x]) : op.do # "tell"
        /\ \A i \in Id : \A op \in SetOf(ops) : ~Updates(op, i)
    BY <2>1, <2>4, <2>8 DEF Updates
  <2> QED BY <1>1, <1>3, <2>6, <2>7, <2>8, <2>9, TakesUpListing
<1> QED BY <1>4, <1>5, <1>6 DEF CreateInternalConnection, x

(* a handler that begins and leaves the entries alone, none of whose updates opens *)
LEMMA BeginsListing ==
  ASSUME TypeInv, Listing, EntriesKept, SameSides, NEW x \in Actor, SideOf(x)' = SideOf(x),
         NEW ops \in Handler, Begins(x, ops),
         \A id \in Id : \A op \in SetOf(ops) :
           Updates(op, id) => Opens(SideOf(x), id) \/ \E o \in SetOf(ops) : Tells(o, id)
  PROVE  Listing'
<1>1. SetOf(todo[x]) = {} /\ todo' = [todo EXCEPT ![x] = ops]
  BY List0 DEF Begins, Idle
<1> QED BY <1>1, TakesUpListing

(* the messages: the entry is new, or the copy is open when the entry is *)
LEMMA HandleListing ==
  ASSUME TypeInv, Listing, NEW s \in Side, Handle(s)
  PROVE  Listing'
<1> DEFINE x == Reader(s)
<1>1. x \in Actor /\ SideOf(x) = s /\ SideOf(x)' = s
  BY MainActors
<1> HIDE DEF x
<1>2. ASSUME NEW id \in Id, OnInit(s, id)
      PROVE  Listing'
  <2>1. SameSides
    <3>1. CASE UNCHANGED thread
      BY <3>1, SameUnchanged, SameThreadsSides DEF TypeInv
    <3>2. CASE CanCreate /\ Create("connect", s, id)
      BY <3>2, CreateSides
    <3> QED BY <1>2, <3>1, <3>2 DEF OnInit
  <2>2. EntriesKept
    BY <1>2, AddsEntries DEF OnInit
  <2>3. PICK op \in {ToPost(id, "CONN_FAILED"), ToPost(id, "CONN_EXIST"),
                     ToStart(id, NewThread)} :
          Begins(x, <<op>>) /\ (op = ToStart(id, NewThread) => CanCreate)
    BY <1>2 DEF OnInit, x, ToPost, ToStart
  <2>4. op \in Op /\ op.do # "update"
    BY <2>3, NewThreadFree DEF ToPost, ToStart, Op, Kind
  <2>5. <<op>> \in Handler /\ SetOf(<<op>>) = {op}
    BY <2>4, List1
  <2> QED BY <1>1, <2>1, <2>2, <2>3, <2>4, <2>5, BeginsListing DEF Updates
<1>3. ASSUME NEW id \in Id, OnOpen(s, id)
      PROVE  Listing'
  <2>1. SameSides /\ NewThread \in Thread
    BY <1>3, CreateSides, NewThreadFree DEF OnOpen
  <2>2. EntriesKept
    BY <1>3, AddsEntries DEF OnOpen, entries
  <2> DEFINE copy == [GetObject(s, id) EXCEPT !.thread = NewThread]
             a == ToUpdate(id, copy)
             b == ToStart(id, NewThread)
  <2>3. copy \in Entry /\ copy.status = GetObject(s, id).status
    BY <2>1, CopyFits DEF Entry
  <2>4. GetObject(s, id).status = "CONN_OPEN" => Opens(s, id)
    BY DEF GetObject, New, Opens
  <2>5. a \in Op /\ a.do = "update" /\ a.id = id /\ a.entry = copy
    BY <2>3 DEF ToUpdate, Op
  <2>6. b \in Op /\ b.do = "start"
    BY <2>1 DEF ToStart, Op
  <2>7. Begins(x, <<a, b>>)
    BY <1>3 DEF OnOpen, x
  <2> HIDE DEF copy, a, b
  <2>8. <<a, b>> \in Handler /\ SetOf(<<a, b>>) = {a, b}
    BY <2>5, <2>6, List2
  <2>9. \A i \in Id : \A op \in SetOf(<<a, b>>) : Updates(op, i) => Opens(s, i)
    BY <2>3, <2>4, <2>5, <2>6, <2>8 DEF Updates
  <2> QED BY <1>1, <2>1, <2>2, <2>7, <2>8, <2>9, BeginsListing
<1>4. ASSUME NEW id \in Id, OnClose(s, id) \/ OnExistOrFailed(s, id)
      PROVE  Listing'
  <2>1. SameSides
    BY <1>4, SameUnchanged, SameThreadsSides DEF OnClose, OnExistOrFailed, TypeInv
  <2>2. EntriesKept
    BY <1>4, AddsEntries DEF OnClose, OnExistOrFailed, entries
  <2>3. PICK b \in {ToStopConnection(id), ToTell(id, "CONN_EXIST"), ToTell(id, "CONN_FAILED")} :
          Begins(x, <<ToDestroy(id), b>>)
    BY <1>4 DEF OnClose, OnExistOrFailed, x
  <2>4. /\ {ToDestroy(id), b} \subseteq Op
        /\ \A op \in {ToDestroy(id), b} : op.do # "ask" /\ op.do # "update"
    BY DEF ToDestroy, ToStopConnection, ToTell, Op
  <2>5. /\ <<ToDestroy(id), b>> \in Handler
        /\ \A op \in SetOf(<<ToDestroy(id), b>>) : op.do # "update"
    BY <2>4, List2
  <2> QED BY <1>1, <2>1, <2>2, <2>3, <2>5, BeginsListing DEF Updates
<1> QED BY <1>2, <1>3, <1>4 DEF Handle

(* a report that opens an entry lists the id as well *)
LEMMA ReportedListing ==
  ASSUME TypeInv, NEW s \in Side, NEW id \in Id, NEW ops, NEW i \in Id,
         Reported(s, id, GetObject(s, id), ops), NEW op \in SetOf(ops), Updates(op, i)
  PROVE  Opens(s, i) \/ \E o \in SetOf(ops) : Tells(o, i)
<1> DEFINE copy == GetObject(s, id)
           stop == ToStop(id, copy.thread)
           clear == ToUpdate(id, [copy EXCEPT !.thread = NoThread])
           open == ToUpdate(id, [copy EXCEPT !.status = "CONN_OPEN"])
           run == ToRun(id)  tell == ToTell(id, "CONN_OPEN")  fail == ToTell(id, "CONN_FAILED")
           post == ToPost(id, "CONN_OPEN")  postF == ToPost(id, "CONN_FAILED")
           postC == ToPost(id, "CONN_CLOSE")  destroy == ToDestroy(id)
<1>1. copy \in Entry /\ (copy.status = "CONN_OPEN" => Opens(s, id))
  BY CopyFits DEF GetObject, New, Opens
<1>2. /\ {run, tell, fail, post, postF, postC, destroy} \subseteq Op
      /\ \A o \in {run, tell, fail, post, postF, postC, destroy} :
           o.do # "ask" /\ o.do # "update"
  BY DEF ToRun, ToTell, ToPost, ToDestroy, Op, Kind
<1>3. /\ {clear, open} \subseteq Op /\ clear.do = "update" /\ open.do = "update"
      /\ clear.id = id /\ open.id = id /\ clear.entry.status = copy.status
  BY <1>1 DEF ToUpdate, Op, Entry
<1>4. copy.thread # NoThread => stop \in Op /\ stop.do = "stop"
  BY <1>1 DEF ToStop, Op, Entry
<1>5. \/ ops = <<>>
      \/ copy.thread # NoThread /\ ops = <<stop, clear, run>>
      \/ ops = <<tell, post, open, run>>
      \/ ops = <<postF, destroy>>
      \/ ops = <<open, tell>>
      \/ ops = <<postC, fail, destroy>>
  BY DEF Reported
<1>6. Tells(tell, id)
  BY DEF ToTell, Tells
<1> HIDE DEF copy, stop, clear, open, run, tell, fail, post, postF, postC, destroy
<1>7. CASE ops = <<>>
  BY <1>7, List0
<1>8. CASE copy.thread # NoThread /\ ops = <<stop, clear, run>>
  <2>1. SetOf(ops) = {stop, clear, run}
    BY <1>2, <1>3, <1>4, <1>8, List3
  <2> QED BY <1>1, <1>2, <1>3, <1>4, <1>8, <2>1 DEF Updates
<1>9. CASE ops = <<tell, post, open, run>>
  <2>1. SetOf(ops) = {tell, post, open, run}
    BY <1>2, <1>3, <1>9, List4
  <2>2. i = id
    BY <1>2, <1>3, <2>1 DEF Updates
  <2> QED BY <1>6, <2>1, <2>2
<1>10. CASE ops = <<postF, destroy>>
  <2>1. SetOf(ops) = {postF, destroy}
    BY <1>2, <1>10, List2
  <2> QED BY <1>2, <2>1 DEF Updates
<1>11. CASE ops = <<open, tell>>
  <2>1. SetOf(ops) = {open, tell}
    BY <1>2, <1>3, <1>11, List2
  <2>2. i = id
    BY <1>2, <1>3, <2>1 DEF Updates
  <2> QED BY <1>6, <2>1, <2>2
<1>12. CASE ops = <<postC, fail, destroy>>
  <2>1. SetOf(ops) = {postC, fail, destroy}
    BY <1>2, <1>12, List3
  <2> QED BY <1>2, <2>1 DEF Updates
<1> QED BY <1>5, <1>7, <1>8, <1>9, <1>10, <1>11, <1>12

LEMMA ThreadListing ==
  ASSUME TypeInv, Listing, NEW t \in Thread, Connects(t) \/ Listens(t) \/ LocalConnect(t)
  PROVE  Listing'
<1>1. /\ SameThreads /\ SameSides /\ UNCHANGED entries
      /\ SideOf(t)' = SideOf(t) /\ SideOf(t) = thread[t].on /\ t \in Actor
  BY ThreadBase, SameThreadsSides DEF Actor, SideOf
<1>2. EntriesKept
  BY <1>1, AddsEntries DEF entries
<1>3. CASE TestStop(t) \/ AcceptFails(t)
  BY <1>1, <1>2, <1>3, StaysListing DEF TestStop, AcceptFails
<1>4. CASE Thread0(t)
  <2> DEFINE s == thread[t].on  id == thread[t].id
  <2>1. s \in Side /\ id \in Id
    BY <1>4, ThreadBase
  <2>2. PICK ops : Begins(t, ops) /\ Reported(s, id, GetObject(s, id), ops)
    BY <1>4, ThreadReports DEF Begins
  <2>3. ops \in Handler
    BY <2>1, <2>2, CopyFits, ReportedFits
  <2>4. \A i \in Id : \A op \in SetOf(ops) :
          Updates(op, i) => Opens(s, i) \/ \E o \in SetOf(ops) : Tells(o, i)
    BY <2>1, <2>2, ReportedListing
  <2> HIDE DEF s, id
  <2>5. SideOf(t) = s
    BY <1>1 DEF s
  <2> QED BY <1>1, <1>2, <2>2, <2>3, <2>4, <2>5, BeginsListing
<1> QED BY <1>3, <1>4 DEF Thread0, Connects, Listens

(* the ends of connectors, and of the connection *)
LEMMA EndsListing ==
  ASSUME TypeInv, Listing,
         \/ Cut \/ \E s \in Side : ManagerForgotten(s) \/ ManagerStop(s)
         \/ \E s \in Side, id \in Id : ConnectorEnds(s, id) \/ onDisconnected(s, id)
         \/ UNCHANGED vars
  PROVE  Listing'
<1>1. UNCHANGED entries /\ UNCHANGED thread
  BY DEF Cut, ManagerForgotten, ManagerStop, ConnectorEnds, onDisconnected, vars
<1>2. SameSides
  BY <1>1, SameUnchanged, SameThreadsSides DEF TypeInv
<1>3. EntriesKept
  BY <1>1, AddsEntries DEF entries
<1>4. ASSUME NEW s \in Side, NEW id \in Id, onDisconnected(s, id)
      PROVE  Listing'
  <2>1. Managers(s) \in Actor /\ SideOf(Managers(s))' = SideOf(Managers(s))
    BY MainActors
  <2> DEFINE a == ToPost(id, "CONN_CLOSE")  b == ToDestroy(id)
  <2>2. /\ a \in Op /\ b \in Op /\ a.do # "ask" /\ b.do # "ask"
        /\ a.do # "update" /\ b.do # "update"
    BY DEF ToPost, ToDestroy, Op, Kind
  <2>3. Begins(Managers(s), <<a, b>>)
    BY <1>4 DEF onDisconnected
  <2> HIDE DEF a, b
  <2>4. <<a, b>> \in Handler /\ \A op \in SetOf(<<a, b>>) : op.do # "update"
    BY <2>2, List2
  <2> QED BY <1>2, <1>3, <2>1, <2>3, <2>4, BeginsListing DEF Updates
<1>5. CASE UNCHANGED todo
  BY <1>2, <1>3, <1>5, StaysListing
<1> QED BY <1>4, <1>5 DEF Cut, ManagerForgotten, ManagerStop, ConnectorEnds, vars

(* every entry goes: those that were open are no longer live *)
LEMMA StopListing ==
  ASSUME TypeInv, Listing, NEW s \in Side, OnStop(s) \/ Delete(s)
  PROVE  Listing'
<1>1. UNCHANGED <<todo, made>>
  BY DEF OnStop, Delete
<1>2. /\ m_internalConnections \in [Side -> [Id -> Entry \cup {None}]]
      /\ m_modules \in [Side -> SUBSET Id]
  BY DEF TypeInv, Base
<1>3. \A r \in Side, i \in Id : m_internalConnections'[r][i] =
        IF r = s THEN None ELSE m_internalConnections[r][i]
  BY <1>2 DEF OnStop, Delete
<1>4. \A r \in Side, i \in Id : i \in m_modules[r] =>
        i \in m_modules'[r] \/ (r = s /\ Exists(r, i))
  BY <1>2 DEF OnStop, Delete, Exists, None
<1>5. SameSides
  BY SameStopped, SameUnchanged, SameThreadsSides DEF OnStop, Delete, TypeInv
<1>6. \A r \in Side, i \in Id :
        /\ Exists(r, i)' => Exists(r, i) /\ r # s
        /\ m_internalConnections'[r][i].status = "CONN_OPEN" => Opens(r, i)
  BY <1>3 DEF Exists, Opens, None
<1>7. EntriesKept
  BY <1>1, <1>4, <1>6 DEF EntriesKept, Live, Listing
<1> QED BY <1>1, <1>5, <1>7, StaysListing

LEMMA NextListing == TypeInv /\ Listing /\ [Next]_vars => Listing'
<1> SUFFICES ASSUME TypeInv, Listing, [Next]_vars PROVE Listing'
  OBVIOUS
<1>1. ASSUME NEW x \in Actor, Continue(x) PROVE Listing'
  BY <1>1, ContinueListing
<1>2. ASSUME NEW s \in Side, onInitInternalConnectionMessage(s) PROVE Listing'
  BY <1>2, UserListing
<1>3. ASSUME NEW s \in Side, Handle(s) PROVE Listing'
  BY <1>3, HandleListing
<1>4. ASSUME NEW s \in Side, OnStop(s) \/ Delete(s) PROVE Listing'
  BY <1>4, StopListing
<1>5. ASSUME NEW s \in Side, NEW id \in Id, CreateInternalConnection(s, id) PROVE Listing'
  BY <1>5, UserListing
<1>6. ASSUME NEW t \in Thread, Connects(t) \/ Listens(t) \/ LocalConnect(t) PROVE Listing'
  BY <1>6, ThreadListing
<1>7. CASE \/ Cut \/ \E s \in Side : ManagerForgotten(s) \/ ManagerStop(s)
           \/ \E s \in Side, id \in Id : ConnectorEnds(s, id) \/ onDisconnected(s, id)
           \/ UNCHANGED vars
  BY <1>7, EndsListing
<1> QED BY <1>1, <1>2, <1>3, <1>4, <1>5, <1>6, <1>7 DEF Next

(* When no handler of its side is at work on it, an open entry of an id that was used once is
   listed, whichever regions of the handlers of the connect and listen threads, of messages
   and of ends of connectors came in between: no handler takes an id off the list but with
   its entry, and each that opens an entry, or holds an open copy of it, has listed the id
   or is about to.                                                                         *)
THEOREM OpenListed == Spec => []OpenIsListed
<1>1. Init => TypeInv /\ Listing
  BY InitType, InitListing
<1>2. TypeInv /\ Listing /\ [Next]_vars => (TypeInv /\ Listing)'
  BY NextType, NextListing
<1>3. TypeInv /\ Listing => OpenIsListed
  <2> SUFFICES ASSUME TypeInv, Listing, NEW s \in Side, NEW id \in Id, AtRest(s, id),
                      m_internalConnections[s][id].status = "CONN_OPEN", made[s][id] < 2
               PROVE  id \in m_modules[s]
    BY DEF OpenIsListed
  <2>1. made[s][id] \in Nat /\ Exists(s, id)
    BY DEF TypeInv, Base, Exists, None
  <2>2. Live(s, id) /\ Opens(s, id)
    BY <2>1 DEF Live, Opens, Listing
  <2>3. Lists(s, id)
    BY <2>2 DEF Listing
  <2>4. \A op \in AtWork(s) : op.id # id
    BY DEF AtWork, SetOf, AtRest
  <2> QED BY <2>3, <2>4 DEF Lists, Tells
<1> QED BY <1>1, <1>2, <1>3, PTL DEF Spec
=============================================================================
