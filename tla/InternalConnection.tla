-------------------------- MODULE InternalConnection --------------------------
(***************************************************************************)
(* Internal connections: a TCP connection of one module's machine carried  *)
(* over the IPC connection to another module (IPCConnector, IPCHandler,    *)
(* InternalConnector, IPCModule::CreateInternalConnection).                *)
(*                                                                         *)
(* The side that asks sends InitInternalConnection; the other connects to  *)
(* the address and answers CONN_OPEN; the first then listens on a port of  *)
(* its own for the one local program that will use the connection.  Each   *)
(* end keeps an entry per id in m_internalConnections, and its module      *)
(* lists the open ones.                                                    *)
(*                                                                         *)
(* On each side the thread of the IPC connector, a thread of the user, the *)
(* managers thread and the connect and listen threads run the handlers.    *)
(* ObjectManager locks each of its operations alone, and a handler uses a  *)
(* copy of the entry that it got before: so a handler is the sequence of   *)
(* its lock regions, of which its action does the first and `todo' keeps   *)
(* the others, with the copies they use.  An id is independent of others.  *)
(***************************************************************************)
EXTENDS Integers, Sequences, FiniteSets

CONSTANTS Id,         \* conn_id of an internal connection
          Thread,     \* the connect and listen threads there may be at a time
          NoThread,   \* the null pointer
          MaxInit,    \* requests of one side for one id, at most
          MaxLocal    \* local programs that connect, at most

Side == {"a", "b"}
Other == [a |-> "b", b |-> "a"]
Reader(s) == <<s, "reader">>       \* the thread of the IPC connector
User(s) == <<s, "user">>           \* a thread of the user that calls the module
Managers(s) == <<s, "managers">>   \* the managers thread
Main == Side \X {"reader", "user", "managers"}
Actor == Main \cup Thread

ASSUME InternalConnectionAssumption ==
  NoThread \notin Thread /\ Thread \cap Main = {} /\ MaxInit \in Nat /\ MaxLocal \in Nat

VARIABLES
  m_isCoordinator,        \* of the IPC connector of a side
  m_internalConnections,  \* the entries of a side: a status and a listen thread
  m_modules,              \* ids the module of a side lists as connected modules
  thread,                 \* the connect and listen threads
  todo,                   \* what is left of the handler an actor is in
  running,                \* internal connectors of a side that read
  ended,                  \* those that have stopped and were not yet reported
  wire,                   \* messages on their way to a side
  up,                     \* the IPC connection is
  conn,                   \* how far the end of the IPC connector of a side has come
  asked,                  \* requests of a side so far
  joined,                 \* local programs that have connected so far
  made,                   \* history: entries a side has made of an id
  awaiting,               \* history: ids whose requester has had no status yet
  late                    \* history: those of them asked of a connector that had stopped

entries == <<m_internalConnections, m_modules, made, awaiting>>
link == <<wire, up, conn>>
rest == <<m_isCoordinator, asked, joined, late>>
vars == <<entries, thread, todo, running, ended, link, rest>>

None == [status |-> "none", thread |-> NoThread]
New == [status |-> "CONN_INIT", thread |-> NoThread]
Unborn == [kind |-> "none", on |-> "a", id |-> NoThread, state |-> "none", stop |-> FALSE]
Exists(s, id) == m_internalConnections[s][id] # None
At(f, s, id, e) == [f EXCEPT ![s][id] = e]
SideOf(x) == IF x \in Thread THEN thread[x].on ELSE x[1]

(* the lock regions of a handler, and the calls between them *)
ToUpdate(id, e) == [do |-> "update", id |-> id, entry |-> e]
ToDestroy(id) == [do |-> "destroy", id |-> id]
ToTell(id, status) == [do |-> "tell", id |-> id, status |-> status]
ToPost(id, kind) == [do |-> "post", id |-> id, kind |-> kind]
ToStop(id, t) == [do |-> "stop", id |-> id, thread |-> t]
ToStart(id, t) == [do |-> "start", id |-> id, thread |-> t]
ToRun(id) == [do |-> "run", id |-> id]
ToStopConnection(id) == [do |-> "stopConnection", id |-> id]
ToAsk(id) == [do |-> "ask", id |-> id]

Idle(x) == todo[x] = <<>>
Begins(x, ops) == Idle(x) /\ todo' = [todo EXCEPT ![x] = ops]
Doing(x, do) == todo[x] # <<>> /\ Head(todo[x]).do = do
Goes(x) == todo' = [todo EXCEPT ![x] = Tail(@)]

(* GetObject into a new InternalConnection: the copy stays new when there is no entry *)
GetObject(s, id) == IF Exists(s, id) THEN m_internalConnections[s][id] ELSE New

(* the mutant of Told that takes the id off at every status but CONN_OPEN *)
ToldAnyEnd(s, id, status) ==
  /\ m_modules' = [m_modules EXCEPT ![s] =
       IF status = "CONN_OPEN" THEN @ \cup {id} ELSE @ \ {id}]
  /\ awaiting' = [awaiting EXCEPT ![s] = @ \ {id}]

(* onInternalConnectionStatusMessage of the module: CONN_OPEN lists the id, CONN_CLOSE
   takes it off, and the user is told                                                *)
Told(s, id, status) ==
  /\ m_modules' = [m_modules EXCEPT ![s] =
       IF status = "CONN_OPEN" THEN @ \cup {id}
       ELSE IF status = "CONN_CLOSE" THEN @ \ {id} ELSE @]
  /\ awaiting' = [awaiting EXCEPT ![s] = @ \ {id}]

(* m_internalConnections.AddObject of an id that has no entry *)
AddObject(s, id) ==
  /\ m_internalConnections' = At(m_internalConnections, s, id, New)
  /\ made' = At(made, s, id, made[s][id] + 1)

(* ListenThread::Stop of the threads ts: Thread::Start overwrites the state of one that was
   stopped before, which goes on                                                         *)
Stopped(ts) ==
  [t \in Thread |-> IF t \in ts /\ thread[t].state \in {"running", "listening", "accept"}
                    THEN [thread[t] EXCEPT !.stop = TRUE] ELSE thread[t]]

(* a new thread object takes a place where there is none, or one that has ended and that
   nothing refers to any more                                                          *)
Free(t) ==
  /\ Idle(t) /\ thread[t].state \in {"none", "done"}
  /\ \A s \in Side, id \in Id : m_internalConnections[s][id].thread # t
  /\ \A x \in Actor : \A i \in 1..Len(todo[x]) :
       LET op == todo[x][i] IN
       /\ op.do \in {"stop", "start"} => op.thread # t
       /\ op.do = "update" => op.entry.thread # t
CanCreate == \E t \in Thread : Free(t)
NewThread == CHOOSE t \in Thread : Free(t)
Create(kind, s, id) ==
  thread' = [thread EXCEPT ![NewThread] =
    [kind |-> kind, on |-> s, id |-> id, state |-> "made", stop |-> FALSE]]

-----------------------------------------------------------------------------
(* The regions that handlers are made of. *)

UpdateObject(x) ==
  LET op == Head(todo[x])  s == SideOf(x) IN
  /\ Doing(x, "update")
  /\ m_internalConnections' = IF Exists(s, op.id)
       THEN At(m_internalConnections, s, op.id, op.entry) ELSE m_internalConnections
  /\ Goes(x)
  /\ UNCHANGED <<m_modules, made, awaiting, thread, running, ended, link, rest>>

(* DestroyObject, which holds its lock over InternalDestroyNotify: the listen thread is
   stopped; CONN_CLOSE for an entry that was open, CONN_FAILED otherwise               *)
DestroyObject(x) ==
  LET id == Head(todo[x]).id  s == SideOf(x)
      e == m_internalConnections[s][id] IN
  /\ Doing(x, "destroy")
  /\ IF Exists(s, id)
     THEN /\ m_internalConnections' = At(m_internalConnections, s, id, None)
          /\ thread' = Stopped({e.thread})
          /\ Told(s, id, IF e.status = "CONN_OPEN" THEN "CONN_CLOSE" ELSE "CONN_FAILED")
     ELSE UNCHANGED <<m_internalConnections, m_modules, awaiting, thread>>
  /\ Goes(x)
  /\ UNCHANGED <<made, running, ended, link, rest>>

(* onSignal of the connector: the status reaches the module *)
TellModule(x) ==
  LET op == Head(todo[x]) IN
  /\ Doing(x, "tell")
  /\ Told(SideOf(x), op.id, op.status)
  /\ Goes(x)
  /\ UNCHANGED <<m_internalConnections, made, thread, running, ended, link, rest>>

(* toMessage: a message that is sent on a connection that ended is lost *)
toMessage(x) ==
  LET op == Head(todo[x])  peer == Other[SideOf(x)] IN
  /\ Doing(x, "post")
  /\ wire' = IF up THEN [wire EXCEPT ![peer] = Append(@, [kind |-> op.kind, id |-> op.id])]
             ELSE wire
  /\ Goes(x)
  /\ UNCHANGED <<entries, thread, running, ended, up, conn, rest>>

(* Stop of the listen thread of a copy of an entry *)
StopListener(x) ==
  /\ Doing(x, "stop")
  /\ thread' = Stopped({Head(todo[x]).thread})
  /\ Goes(x)
  /\ UNCHANGED <<entries, running, ended, link, rest>>

(* Thread::Start, which waits until the thread runs *)
StartThread(x) ==
  /\ Doing(x, "start")
  /\ thread' = [thread EXCEPT ![Head(todo[x]).thread].state = "running"]
  /\ Goes(x)
  /\ UNCHANGED <<entries, running, ended, link, rest>>

(* m_manager->AddConnection, unless OnStop has taken m_manager away *)
AddConnection(x) ==
  LET id == Head(todo[x]).id  s == SideOf(x) IN
  /\ Doing(x, "run")
  /\ running' = IF conn[s] \in {"on", "swept"} THEN At(running, s, id, running[s][id] + 1)
                ELSE running
  /\ Goes(x)
  /\ UNCHANGED <<entries, thread, ended, link, rest>>

(* m_manager->StopConnection: every internal connector of the id stops *)
StopConnection(x) ==
  LET id == Head(todo[x]).id  s == SideOf(x) IN
  /\ Doing(x, "stopConnection")
  /\ ended' = At(ended, s, id, ended[s][id] + running[s][id])
  /\ running' = At(running, s, id, 0)
  /\ Goes(x)
  /\ UNCHANGED <<entries, thread, link, rest>>

Continue(x) ==
  \/ UpdateObject(x) \/ DestroyObject(x) \/ TellModule(x) \/ toMessage(x) \/ StopListener(x)
  \/ StartThread(x) \/ AddConnection(x) \/ StopConnection(x)

-----------------------------------------------------------------------------
(* IPCModule::CreateInternalConnection: the user is told CONN_EXIST at once of an id that
   is listed; otherwise the request is signalled to the connector                       *)
CreateInternalConnection(s, id) ==
  /\ asked[s][id] < MaxInit /\ Idle(User(s))
  /\ asked' = At(asked, s, id, asked[s][id] + 1)
  /\ IF id \in m_modules[s] THEN UNCHANGED <<awaiting, todo>>
     ELSE /\ Begins(User(s), <<ToAsk(id)>>)
          /\ awaiting' = [awaiting EXCEPT ![s] = @ \cup {id}]
  /\ UNCHANGED <<m_internalConnections, m_modules, made, thread, running, ended, link,
                 m_isCoordinator, joined, late>>

(* IPCConnector::onInitInternalConnectionMessage: CONN_FAILED or CONN_EXIST, or the request
   is sent.  A connector that has stopped still adds the entry; one that is deleted is no
   longer there to be signalled.                                                          *)
onInitInternalConnectionMessage(s) ==
  LET x == User(s)  id == Head(todo[x]).id
      Rest(ops) == todo' = [todo EXCEPT ![x] = ops] IN
  /\ Doing(x, "ask")
  /\ \/ /\ conn[s] = "gone" /\ Rest(<<>>)
        /\ UNCHANGED <<m_internalConnections, made>>
     \/ /\ conn[s] # "gone" /\ m_isCoordinator[s] /\ Rest(<<ToTell(id, "CONN_FAILED")>>)
        /\ UNCHANGED <<m_internalConnections, made>>
     \/ /\ conn[s] # "gone" /\ ~m_isCoordinator[s] /\ ~Exists(s, id)
        /\ AddObject(s, id) /\ Rest(<<ToPost(id, "INIT")>>)
     \/ /\ conn[s] # "gone" /\ ~m_isCoordinator[s] /\ Exists(s, id)
        /\ Rest(<<ToTell(id, "CONN_EXIST")>>)
        /\ UNCHANGED <<m_internalConnections, made>>
  /\ late' = IF conn[s] = "on" THEN late ELSE [late EXCEPT ![s] = @ \cup {id}]
  /\ UNCHANGED <<m_modules, awaiting, thread, running, ended, link, m_isCoordinator, asked,
                 joined>>

-----------------------------------------------------------------------------
(* The messages a side reads, on the thread of its IPC connector. *)
Reads(s, kind, id) ==
  /\ conn[s] = "on" /\ Idle(Reader(s))
  /\ wire[s] # <<>> /\ Head(wire[s]) = [kind |-> kind, id |-> id]
  /\ wire' = [wire EXCEPT ![s] = Tail(@)]

(* IPCHandler::onMessage(InitInternalConnection) *)
OnInit(s, id) ==
  /\ Reads(s, "INIT", id)
  /\ \/ /\ m_isCoordinator[s]
        /\ Begins(Reader(s), <<ToPost(id, "CONN_FAILED")>>)
        /\ UNCHANGED <<m_internalConnections, made, thread>>
     \/ /\ ~m_isCoordinator[s] /\ ~Exists(s, id) /\ CanCreate
        /\ AddObject(s, id)
        /\ Create("connect", s, id)
        /\ Begins(Reader(s), <<ToStart(id, NewThread)>>)
     \/ /\ ~m_isCoordinator[s] /\ Exists(s, id)
        /\ Begins(Reader(s), <<ToPost(id, "CONN_EXIST")>>)
        /\ UNCHANGED <<m_internalConnections, made, thread>>
  /\ UNCHANGED <<m_modules, awaiting, running, ended, up, conn, rest>>

(* IPCHandler::onMessage(InternalConnectionStatus): CONN_OPEN starts a listen thread, with
   or without an entry                                                                   *)
OnOpen(s, id) ==
  /\ Reads(s, "CONN_OPEN", id)
  /\ CanCreate
  /\ Create("listen", s, id)
  /\ Begins(Reader(s), <<ToUpdate(id, [GetObject(s, id) EXCEPT !.thread = NewThread]),
                         ToStart(id, NewThread)>>)
  /\ UNCHANGED <<entries, running, ended, up, conn, rest>>

OnClose(s, id) ==
  /\ Reads(s, "CONN_CLOSE", id)
  /\ Begins(Reader(s), <<ToDestroy(id), ToStopConnection(id)>>)
  /\ UNCHANGED <<entries, thread, running, ended, up, conn, rest>>

(* ... and the module is told, even when there is no entry *)
OnExistOrFailed(s, id) ==
  \E kind \in {"CONN_EXIST", "CONN_FAILED"} :
    /\ Reads(s, kind, id)
    /\ Begins(Reader(s), <<ToDestroy(id), ToTell(id, kind)>>)
    /\ UNCHANGED <<entries, thread, running, ended, up, conn, rest>>

-----------------------------------------------------------------------------
(* What the connect and listen threads report; a connector that is deleted is not told. *)
Reports(t, ops) == Begins(t, IF conn[thread[t].on] = "gone" THEN <<>> ELSE ops)
Moves(t, from, to) ==
  /\ thread[t].state = from
  /\ thread' = [thread EXCEPT ![t].state = to, ![t].stop = @ /\ to # "done"]

(* onAddConnector: the connector of a connect thread, or of the listen thread of the entry,
   which is then stopped                                                                  *)
onAddConnector(t) ==
  LET id == thread[t].id
      copy == GetObject(thread[t].on, id) IN
  Reports(t,
    IF copy.thread # NoThread
    THEN <<ToStop(id, copy.thread), ToUpdate(id, [copy EXCEPT !.thread = NoThread]), ToRun(id)>>
    ELSE <<ToTell(id, "CONN_OPEN"), ToPost(id, "CONN_OPEN"),
           ToUpdate(id, [copy EXCEPT !.status = "CONN_OPEN"]), ToRun(id)>>)

ThreadOnly == UNCHANGED <<entries, running, ended, link, rest>>

ConnectSucceeds(t) ==
  /\ thread[t].kind = "connect" /\ Moves(t, "running", "done")
  /\ onAddConnector(t)
  /\ ThreadOnly

(* the mutant of onErrorConnect that forgets to tell the other side *)
onErrorConnectSilent(t) ==
  /\ thread[t].kind = "connect" /\ Moves(t, "running", "done")
  /\ Reports(t, <<ToDestroy(thread[t].id)>>)
  /\ ThreadOnly

onErrorConnect(t) ==
  /\ thread[t].kind = "connect" /\ Moves(t, "running", "done")
  /\ Reports(t, <<ToPost(thread[t].id, "CONN_FAILED"), ToDestroy(thread[t].id)>>)
  /\ ThreadOnly

(* A listen thread that is stopped before it has a socket still binds and reports its port,
   or its error, before it looks at its state.                                            *)
onCreatedListener(t) ==
  LET id == thread[t].id IN
  /\ thread[t].kind = "listen" /\ Moves(t, "running", "listening")
  /\ Reports(t, <<ToUpdate(id, [GetObject(thread[t].on, id) EXCEPT !.status = "CONN_OPEN"]),
                  ToTell(id, "CONN_OPEN")>>)
  /\ ThreadOnly

onErrorListener(t) ==
  LET id == thread[t].id IN
  /\ thread[t].kind = "listen" /\ Moves(t, "running", "done")
  /\ Reports(t, <<ToPost(id, "CONN_CLOSE"), ToTell(id, "CONN_FAILED"), ToDestroy(id)>>)
  /\ ThreadOnly

(* while(!IsStop()), and then accept *)
TestStop(t) ==
  /\ Idle(t)
  /\ Moves(t, "listening", IF thread[t].stop THEN "done" ELSE "accept")
  /\ UNCHANGED <<entries, todo, running, ended, link, rest>>

(* a local program connects, the one connection the thread accepts; a thread that is stopped
   may have accepted it by then                                                            *)
LocalConnect(t) ==
  /\ joined < MaxLocal /\ joined' = joined + 1
  /\ Moves(t, "accept", "done")
  /\ onAddConnector(t)
  /\ UNCHANGED <<entries, running, ended, link, m_isCoordinator, asked, late>>

(* the accept of a thread that was stopped fails *)
AcceptFails(t) ==
  /\ thread[t].stop /\ Moves(t, "accept", "done")
  /\ UNCHANGED <<entries, todo, running, ended, link, rest>>

-----------------------------------------------------------------------------
(* InternalConnector::ThreadFunc ends: its program or its server has closed *)
ConnectorEnds(s, id) ==
  /\ running[s][id] > 0
  /\ running' = At(running, s, id, running[s][id] - 1)
  /\ ended' = At(ended, s, id, ended[s][id] + 1)
  /\ UNCHANGED <<entries, thread, todo, link, rest>>

(* ConnectorManager::ManagerFunc on the managers thread, and onDisconnected *)
onDisconnected(s, id) ==
  /\ conn[s] # "gone" /\ ended[s][id] > 0
  /\ ended' = At(ended, s, id, ended[s][id] - 1)
  /\ Begins(Managers(s), <<ToPost(id, "CONN_CLOSE"), ToDestroy(id)>>)
  /\ UNCHANGED <<entries, thread, running, link, rest>>

(* the IPC connection is lost; what is on its way may still be read *)
Cut ==
  /\ up /\ up' = FALSE
  /\ UNCHANGED <<entries, thread, todo, running, ended, wire, conn, rest>>

(* IPCConnector::OnStop: first every entry goes with its notification (CheckObjects, one
   region) ...                                                                          *)
OnStop(s) ==
  LET has == {id \in Id : Exists(s, id)} IN
  /\ ~up /\ conn[s] = "on" /\ Idle(Reader(s))
  /\ conn' = [conn EXCEPT ![s] = "swept"]
  /\ wire' = [wire EXCEPT ![s] = <<>>]
  /\ m_internalConnections' = [m_internalConnections EXCEPT ![s] = [id \in Id |-> None]]
  /\ thread' = Stopped({m_internalConnections[s][id].thread : id \in has})
  /\ m_modules' = [m_modules EXCEPT ![s] =
       @ \ {id \in Id : m_internalConnections[s][id].status = "CONN_OPEN"}]
  /\ awaiting' = [awaiting EXCEPT ![s] = @ \ has]
  /\ UNCHANGED <<made, todo, running, ended, up, rest>>

(* ... then m_manager is stopped and forgotten *)
ManagerForgotten(s) ==
  /\ conn[s] = "swept" /\ conn' = [conn EXCEPT ![s] = "over"]
  /\ UNCHANGED <<entries, thread, todo, running, ended, wire, up, rest>>

(* ConnectorManager::ManagerStop on the managers thread: every connector stops and is then
   reported                                                                               *)
ManagerStop(s) ==
  /\ conn[s] = "over" /\ Idle(Managers(s)) /\ \E id \in Id : running[s][id] > 0
  /\ ended' = [ended EXCEPT ![s] = [id \in Id |-> ended[s][id] + running[s][id]]]
  /\ running' = [running EXCEPT ![s] = [id \in Id |-> 0]]
  /\ UNCHANGED <<entries, thread, todo, link, rest>>

(* ~IPCConnector on the managers thread: removeReceiver waits for the handlers at work; the
   entries go without a word, and what reports later reaches nobody                       *)
Delete(s) ==
  /\ conn[s] = "over"
  /\ \A x \in Actor : SideOf(x) = s => Idle(x) \/ Doing(x, "ask")
  /\ conn' = [conn EXCEPT ![s] = "gone"]
  /\ m_internalConnections' = [m_internalConnections EXCEPT ![s] = [id \in Id |-> None]]
  /\ running' = [running EXCEPT ![s] = [id \in Id |-> 0]]
  /\ ended' = [ended EXCEPT ![s] = [id \in Id |-> 0]]
  /\ UNCHANGED <<m_modules, made, awaiting, thread, todo, wire, up, rest>>

-----------------------------------------------------------------------------
Init ==
  /\ m_isCoordinator \in {f \in [Side -> BOOLEAN] : ~(f["a"] /\ f["b"])}
  /\ m_internalConnections = [s \in Side |-> [id \in Id |-> None]]
  /\ m_modules = [s \in Side |-> {}] /\ awaiting = m_modules /\ late = m_modules
  /\ thread = [t \in Thread |-> Unborn]
  /\ todo = [x \in Actor |-> <<>>]
  /\ running = [s \in Side |-> [id \in Id |-> 0]]
  /\ ended = running /\ asked = running /\ made = running /\ joined = 0
  /\ wire = [s \in Side |-> <<>>] /\ up = TRUE
  /\ conn = [s \in Side |-> "on"]

Handle(s) ==
  \E id \in Id : OnInit(s, id) \/ OnOpen(s, id) \/ OnClose(s, id) \/ OnExistOrFailed(s, id)
Connects(t) == ConnectSucceeds(t) \/ onErrorConnect(t)
Listens(t) == onCreatedListener(t) \/ onErrorListener(t) \/ TestStop(t) \/ AcceptFails(t)

Next ==
  \/ Cut
  \/ \E x \in Actor : Continue(x)
  \/ \E s \in Side :
       \/ onInitInternalConnectionMessage(s) \/ Handle(s)
       \/ OnStop(s) \/ ManagerForgotten(s) \/ ManagerStop(s) \/ Delete(s)
       \/ \E id \in Id : \/ CreateInternalConnection(s, id)
                         \/ ConnectorEnds(s, id) \/ onDisconnected(s, id)
  \/ \E t \in Thread : Connects(t) \/ Listens(t) \/ LocalConnect(t)

Spec == Init /\ [][Next]_vars

(* the threads run; nobody has to connect, to close or to cut the connection *)
FairSpec ==
  /\ Spec
  /\ \A x \in Actor : WF_vars(Continue(x))
  /\ \A s \in Side : /\ WF_vars(onInitInternalConnectionMessage(s)) /\ WF_vars(Handle(s))
                     /\ WF_vars(OnStop(s)) /\ WF_vars(ManagerForgotten(s))
                     /\ \A id \in Id : WF_vars(onDisconnected(s, id))
  /\ \A t \in Thread : WF_vars(Connects(t)) /\ WF_vars(Listens(t))

-----------------------------------------------------------------------------
(* Every variable holds a value of its type, and the thread of an entry is a listen thread
   of its side and its id: no other is stopped with it.                                   *)
Entry == [status : {"CONN_INIT", "CONN_OPEN"}, thread : Thread \cup {NoThread}]
TypeOK ==
  /\ m_isCoordinator \in [Side -> BOOLEAN]
  /\ m_internalConnections \in [Side -> [Id -> Entry \cup {None}]]
  /\ \A s \in Side, id \in Id :
       LET t == m_internalConnections[s][id].thread IN
       t # NoThread => <<thread[t].kind, thread[t].on, thread[t].id>> = <<"listen", s, id>>
  /\ {m_modules, awaiting, late} \subseteq [Side -> SUBSET Id]
  /\ \A t \in Thread : /\ thread[t].on \in Side /\ thread[t].id \in Id \cup {NoThread}
                       /\ thread[t].stop \in BOOLEAN
  /\ {running, ended, asked, made} \subseteq [Side -> [Id -> Nat]]
  /\ joined \in Nat /\ up \in BOOLEAN /\ conn \in [Side -> {"on", "swept", "over", "gone"}]

(* no handler of a side is at work on the id, and no thread of the side is about to report *)
AtRest(s, id) ==
  /\ \A x \in Actor : SideOf(x) = s => \A i \in 1..Len(todo[x]) : todo[x][i].id # id
  /\ \A t \in Thread : thread[t].on = s /\ thread[t].id = id =>
       thread[t].state \in {"accept", "done"} /\ ~thread[t].stop

(* nothing of the id is on its way or at work *)
Quiet(id) ==
  \A s \in Side : /\ AtRest(s, id) /\ ended[s][id] = 0
                  /\ \A i \in 1..Len(wire[s]) : wire[s][i].id # id

(* When nothing of an id is under way, either both sides have an entry of it or neither:
   no end keeps an internal connection that the other has given up.  It is so for an id that
   no side has used before: what is left of an earlier connection of the same id, a thread
   about to report or a connector that has ended, closes the new one on one side only, or
   the copy that a handler holds overwrites it.  And the state is well typed.               *)
EntriesAgree ==
  /\ TypeOK
  /\ \A id \in Id : up /\ Quiet(id) /\ (\A s \in Side : made[s][id] < 2)
                   => (Exists("a", id) <=> Exists("b", id))

(* When no handler of its side is at work on it, an open entry is one that the module lists,
   in whatever order the regions of connect threads, listen threads, messages and ends of
   connectors came: so a later request for it is refused.  It is so as long as the id was
   used once.                                                                            *)
OpenIsListed ==
  \A s \in Side, id \in Id :
    AtRest(s, id) /\ m_internalConnections[s][id].status = "CONN_OPEN" /\ made[s][id] < 2
      => id \in m_modules[s]

(* Whoever asks for an internal connection is told what has become of it, on whichever side
   and at whichever step it fails, unless the connector had stopped when it was asked.  It
   is so as long as the id was used once.                                                 *)
RequestAnswered ==
  \A s \in Side, id \in Id :
    (id \in awaiting[s]) ~> \/ id \notin awaiting[s] \/ id \in late[s]
                            \/ \E r \in Side : made[r][id] > 1
=============================================================================
