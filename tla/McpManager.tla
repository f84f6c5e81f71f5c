----------------------------- MODULE McpManager -----------------------------
(***************************************************************************)
(* services/mcp_manager.py with the endpoints of api/mcp.py and the        *)
(* startup and shutdown hooks of main.py: connections to MCP servers,      *)
(* opened, replaced, closed and deleted by concurrent requests on one      *)
(* event loop.  Code between two awaits is one step; what an await waits   *)
(* for (a lock, the server, the unwinding of an exit stack, a timeout) is  *)
(* where other callers run.                                                *)
(***************************************************************************)
EXTENDS Naturals, Sequences

CONSTANTS
    Servers,    \* server ids
    Requests,   \* HTTP requests
    Boot,       \* the task of connect_enabled_servers
    Stop,       \* the shutdown hook
    Ids,        \* names for the connections one server can have
    None

Callers == Requests \cup {Boot, Stop}

ASSUME CallersAssumption ==
    /\ Boot \notin Requests
    /\ Stop \notin Requests \cup {Boot}
    /\ None \notin Callers \cup Ids

VARIABLES
    server,   \* per server: its config and everything the manager keeps
    task,     \* per caller: the operation it runs and where it awaits
    todo,     \* servers the loop of Boot, later of Stop, has yet to visit
    phase     \* of the process

vars == <<server, task, todo, phase>>

MaybeId == Ids \cup {None}
MaybeCaller == Callers \cup {None}
Failure == {"failed", "timeout", "cancelled"}
Error == Failure \cup {"none"}
Op == {"none", "connect", "disconnect", "delete"}
Place == {"idle", "waiting", "closing", "creating", "unwinding", "listing",
          "cleaning"}
Phase == {"running", "draining", "stopping", "closing", "stopped"}

\* config: the server is configured.  session, stack, tools: the connection
\* that _sessions, _transports and _tools_cache hold for it.  error: the kind
\* of _errors.  open: the connections whose lifecycle stack is not closed.
\* holder, queue: the connection lock and its waiters in order.
Server == [config : BOOLEAN, session : MaybeId, stack : MaybeId,
           tools : MaybeId, error : Error, open : SUBSET Ids,
           holder : MaybeCaller, queue : Seq(Callers)]

\* conn is the connection the caller has in hand, err why it gives it up.
Task == [op : Op, at : Place, srv : Servers \cup {None}, conn : MaybeId,
         err : Error]

Idle == [op |-> "none", at |-> "idle", srv |-> None, conn |-> None,
         err |-> "none"]

IsIdle(t) == task[t].at = "idle"

TypeOK ==
    /\ server \in [Servers -> Server]
    /\ task \in [Callers -> Task]
    /\ todo \in SUBSET Servers
    /\ phase \in Phase

-----------------------------------------------------------------------------
(* What operations do to the state of one server                           *)

\* _cleanup_runtime with preserve_error.
CleanupRuntime(m) ==
    [m EXCEPT !.session = None, !.stack = None, !.tools = None]

\* Mutant of Popped: the session stays registered until its stack is closed.
PoppedMutant(m) == m

\* _disconnect_unlocked before it awaits the stack, and after.
Popped(m) == [m EXCEPT !.session = None, !.stack = None]
\* Mutant of Disconnected: the tool list is emptied instead of dropped.
DisconnectedMutant(m, i) ==
    [m EXCEPT !.open = @ \ {i}, !.tools = {}, !.error = "none"]

Disconnected(m, i) ==
    [m EXCEPT !.open = @ \ {i}, !.tools = None, !.error = "none"]

\* delete_config: there is nothing to clean up for an unknown server.
DeleteConfig(m) ==
    IF m.config
    THEN [CleanupRuntime(m) EXCEPT !.error = "none", !.config = FALSE]
    ELSE m

\* The end of disconnect, and of the endpoint that disconnects to delete.
Ended(m, op) ==
    LET d == [m EXCEPT !.holder = None]
    IN  IF op = "delete" THEN DeleteConfig(d) ELSE d

-----------------------------------------------------------------------------
(* Steps                                                                   *)

\* t returns, leaving server s as m.
Return(t, s, m) ==
    /\ server' = [server EXCEPT ![s] = m]
    /\ task' = [task EXCEPT ![t] = Idle]

\* t goes on holding the lock of s, with connection i in hand, until the
\* await at place p ends.
Await(t, op, s, m, p, i) ==
    /\ server' = [server EXCEPT ![s] = [m EXCEPT !.holder = t]]
    /\ task' = [task EXCEPT ![t] =
                  [op |-> op, at |-> p, srv |-> s, conn |-> i,
                   err |-> "none"]]

\* Mutant of CreateSession: the error of an earlier attempt stays.
CreateSessionMutant(t, s, m) ==
    \E i \in Ids \ (m.open \cup {m.session, m.stack, m.tools}) :
        Await(t, "connect", s, [m EXCEPT !.open = @ \cup {i}],
              "creating", i)

\* connect enters _create_session under its timeout: a new connection.
CreateSession(t, s, m) ==
    \E i \in Ids \ (m.open \cup {m.session, m.stack, m.tools}) :
        Await(t, "connect", s,
              [m EXCEPT !.error = "none", !.open = @ \cup {i}],
              "creating", i)

\* t has the lock of s, whose state is m, and runs to its next await.
Locked(t, op, s, m) ==
    \/ /\ op = "connect" /\ ~m.config
       /\ Return(t, s, m)
    \/ /\ op = "connect" /\ m.config /\ m.session = None
       /\ CreateSession(t, s, m)
    \/ /\ op = "connect" => m.config /\ m.session # None
       /\ m.stack # None
       /\ Await(t, op, s, Popped(m), "closing", m.stack)
    \/ /\ op # "connect" /\ m.stack = None
       /\ Return(t, s, Ended(Disconnected(Popped(m), None), op))

\* Mutant of Acquire: no lock.
AcquireMutant(t, op, s) == Locked(t, op, s, server[s])

\* async with self._get_connection_lock(server_id): asyncio's lock is fair.
Acquire(t, op, s) ==
    LET m == server[s] IN
    \/ /\ m.holder = None /\ m.queue = <<>>
       /\ Locked(t, op, s, m)
    \/ /\ m.holder # None \/ m.queue # <<>>
       /\ server' = [server EXCEPT ![s].queue = Append(@, t)]
       /\ task' = [task EXCEPT ![t] =
                     [Idle EXCEPT !.op = op, !.at = "waiting", !.srv = s]]

Enter(t) ==
    LET s == task[t].srv IN
    /\ task[t].at = "waiting"
    /\ server[s].holder = None
    /\ server[s].queue # <<>> /\ Head(server[s].queue) = t
    /\ Locked(t, task[t].op, s, [server[s] EXCEPT !.queue = Tail(@)])
    /\ UNCHANGED <<todo, phase>>

\* The exit stack of the old connection is closed.
Closed(t) ==
    LET s == task[t].srv
        m == Disconnected(server[s], task[t].conn)
    IN
    /\ task[t].at = "closing"
    /\ \/ /\ task[t].op = "connect"
          /\ CreateSession(t, s, m)
       \/ /\ task[t].op # "connect"
          /\ Return(t, s, Ended(m, task[t].op))
    /\ UNCHANGED <<todo, phase>>

\* The session is initialized; its tools are asked for.
Created(t) ==
    /\ task[t].at = "creating"
    /\ task' = [task EXCEPT ![t].at = "listing"]
    /\ UNCHANGED <<server, todo, phase>>

\* The tools have arrived: the server is connected.
Listed(t) ==
    LET s == task[t].srv
        i == task[t].conn
    IN
    /\ task[t].at = "listing"
    /\ Return(t, s, [server[s] EXCEPT !.session = i, !.stack = i,
                                      !.tools = i, !.holder = None])
    /\ UNCHANGED <<todo, phase>>

\* An exception ends an await of connect.  In _create_session its own handler
\* closes the stack first; after it, connect's handlers note the error first.
Fail(t, e) ==
    \/ /\ task[t].at = "creating"
       /\ task' = [task EXCEPT ![t].at = "unwinding", ![t].err = e]
       /\ UNCHANGED server
    \/ /\ task[t].at = "listing"
       /\ task' = [task EXCEPT ![t].at = "cleaning", ![t].err = e]
       /\ server' = [server EXCEPT ![task[t].srv].error = e]

\* The server, or the MCP library, fails the call.
Refuse(t) ==
    /\ \E e \in {"failed", "cancelled"} : Fail(t, e)
    /\ UNCHANGED <<todo, phase>>

\* Mutant of Expire: the timeout covers _create_session only.
ExpireMutant(t) ==
    /\ task[t].at = "creating"
    /\ Fail(t, "timeout")
    /\ UNCHANGED <<todo, phase>>

\* asyncio.timeout covers both calls.
Expire(t) ==
    /\ Fail(t, "timeout")
    /\ UNCHANGED <<todo, phase>>

\* Mutant of Unwound: the startup task retries until it is connected.
UnwoundMutant(t) ==
    LET s == task[t].srv IN
    /\ task[t].at \in {"unwinding", "cleaning"}
    /\ Return(t, s, [CleanupRuntime(server[s]) EXCEPT
                       !.open = @ \ {task[t].conn}, !.error = task[t].err,
                       !.holder = None])
    /\ todo' = IF t = Boot THEN todo \cup {s} ELSE todo
    /\ UNCHANGED phase

\* The stack of a failed connection is closed; connect raises.  Only a
\* cancellation gets through connect_enabled_servers.
Unwound(t) ==
    LET s == task[t].srv IN
    /\ task[t].at \in {"unwinding", "cleaning"}
    /\ Return(t, s, [CleanupRuntime(server[s]) EXCEPT
                       !.open = @ \ {task[t].conn}, !.error = task[t].err,
                       !.holder = None])
    /\ todo' = IF t = Boot /\ task[t].err = "cancelled" THEN {} ELSE todo
    /\ UNCHANGED phase

-----------------------------------------------------------------------------
(* Requests                                                                *)

UpsertConfig(s) ==
    /\ phase = "running"
    /\ server' = [server EXCEPT ![s].config = TRUE]
    /\ UNCHANGED <<task, todo, phase>>

Connect(r, s) ==
    /\ phase = "running" /\ IsIdle(r)
    /\ Acquire(r, "connect", s)
    /\ UNCHANGED <<todo, phase>>

Disconnect(r, s) ==
    /\ phase = "running" /\ IsIdle(r)
    /\ Acquire(r, "disconnect", s)
    /\ UNCHANGED <<todo, phase>>

\* Mutant of DeleteServer: the endpoint leaves it to delete_config.
DeleteServerMutant(r, s) ==
    /\ phase = "running" /\ IsIdle(r)
    /\ Return(r, s, DeleteConfig(server[s]))
    /\ UNCHANGED <<todo, phase>>

\* The endpoint disconnects first, if the server is connected right now.
DeleteServer(r, s) ==
    /\ phase = "running" /\ IsIdle(r)
    /\ \/ /\ server[s].session # None
          /\ Acquire(r, "delete", s)
       \/ /\ server[s].session = None
          /\ Return(r, s, DeleteConfig(server[s]))
    /\ UNCHANGED <<todo, phase>>

-----------------------------------------------------------------------------
(* The process                                                             *)

\* connect_enabled_servers moves to its next server.
BootNext ==
    /\ phase \in {"running", "draining", "stopping"} /\ IsIdle(Boot)
    /\ \E s \in todo :
        /\ Acquire(Boot, "connect", s)
        /\ todo' = todo \ {s}
    /\ UNCHANGED phase

\* The server takes no more requests and lets those it has finish.
Shutdown ==
    /\ phase = "running"
    /\ phase' = "draining"
    /\ UNCHANGED <<server, task, todo>>

\* What cancelling the task of Boot does depends on where it awaits; closing
\* an exit stack swallows it (suppress), unless a timeout was on its way out.
\* No request is left, so Boot is alone in the queue it may be in.
CancelBoot ==
    LET b == task[Boot] IN
    /\ phase = "draining"
    /\ \A r \in Requests : IsIdle(r)
    /\ phase' = "stopping"
    /\ \/ /\ b.at = "idle" /\ todo = {}
          /\ UNCHANGED <<server, task, todo>>
       \/ /\ b.at = "waiting"
          /\ Return(Boot, b.srv, [server[b.srv] EXCEPT !.queue = <<>>])
          /\ todo' = {}
       \/ /\ Fail(Boot, "cancelled")
          /\ UNCHANGED todo
       \/ /\ b.at = "unwinding" /\ b.err = "timeout"
          /\ task' = [task EXCEPT ![Boot].err = "cancelled"]
          /\ UNCHANGED <<server, todo>>
       \/ /\ \/ b.at \in {"closing", "cleaning"}
             \/ b.at = "unwinding" /\ b.err # "timeout"
          /\ UNCHANGED <<server, task, todo>>

\* Mutant of ListConnected: the cancelled task is not awaited.
ListConnectedMutant ==
    /\ phase = "stopping"
    /\ phase' = "closing"
    /\ todo' = {s \in Servers : server[s].session # None}
    /\ UNCHANGED <<server, task>>

\* disconnect_all takes its list once that task has ended.
ListConnected ==
    /\ phase = "stopping"
    /\ IsIdle(Boot) /\ todo = {}
    /\ phase' = "closing"
    /\ todo' = {s \in Servers : server[s].session # None}
    /\ UNCHANGED <<server, task>>

DisconnectNext ==
    /\ phase = "closing" /\ IsIdle(Stop)
    /\ \E s \in todo :
        /\ Acquire(Stop, "disconnect", s)
        /\ todo' = todo \ {s}
    /\ UNCHANGED phase

Exit ==
    /\ phase = "closing" /\ IsIdle(Stop) /\ todo = {}
    /\ phase' = "stopped"
    /\ UNCHANGED <<server, task, todo>>

-----------------------------------------------------------------------------
(* Specification                                                           *)

Fresh(c) == [config |-> c, session |-> None, stack |-> None, tools |-> None,
             error |-> "none", open |-> {}, holder |-> None, queue |-> <<>>]

\* Boot lists the enabled servers before the first request is accepted.
Init ==
    /\ server \in [Servers -> {Fresh(c) : c \in BOOLEAN}]
    /\ task = [t \in Callers |-> Idle]
    /\ todo \in SUBSET {s \in Servers : server[s].config}
    /\ phase = "running"

Answer(t) == Created(t) \/ Listed(t) \/ Refuse(t)

\* What the process does by itself for a caller, whatever servers do.
Proceed(t) == Enter(t) \/ Closed(t) \/ Expire(t) \/ Unwound(t)

Ask(r, s) == Connect(r, s) \/ Disconnect(r, s) \/ DeleteServer(r, s)

Finish == CancelBoot \/ ListConnected \/ DisconnectNext \/ Exit

Next ==
    \/ \E t \in Callers : Proceed(t) \/ Answer(t)
    \/ \E s \in Servers : UpsertConfig(s) \/ \E r \in Requests : Ask(r, s)
    \/ BootNext \/ Shutdown \/ Finish

Spec == Init /\ [][Next]_vars

FairSpec ==
    /\ Spec
    /\ \A t \in Callers : WF_vars(Proceed(t))
    /\ WF_vars(BootNext) /\ WF_vars(Finish)

-----------------------------------------------------------------------------
(* The inductive invariant                                                 *)

Busy == {"closing", "creating", "unwinding", "listing", "cleaning"}

\* A caller has a connection in hand exactly while it is in the middle of an
\* operation, and then it is the holder of the lock.
TaskShape ==
    \A t \in Callers :
        /\ IsIdle(t) => task[t] = Idle
        /\ task[t].at = "waiting" => task[t].conn = None
        /\ ~IsIdle(t) => task[t].srv \in Servers /\ task[t].op # "none"
        /\ task[t].at \in Busy =>
             task[t].conn \in Ids /\ server[task[t].srv].holder = t
        /\ task[t].at \in Busy \ {"closing"} => task[t].op = "connect"

HolderIsBusy ==
    \A s \in Servers : server[s].holder # None =>
        /\ task[server[s].holder].at \in Busy
        /\ task[server[s].holder].srv = s

\* While a server is locked its one open connection is in the holder's hands;
\* else it is the one the manager keeps.
Accounts ==
    \A s \in Servers :
        LET m == server[s] IN
        IF m.holder = None
        THEN /\ m.stack = m.session
             /\ m.open = {m.session} \ {None}
             /\ m.session # None => m.tools = m.session /\ m.error = "none"
        ELSE /\ m.stack = None /\ m.session = None
             /\ m.open = {task[m.holder].conn}
             /\ task[m.holder].at \in {"creating", "listing"} =>
                  m.error = "none"

\* Who is through at which phase, and that the hook misses no connection.
ShutdownOrder ==
    /\ phase \in {"stopping", "closing", "stopped"} =>
         \A r \in Requests : IsIdle(r)
    /\ phase \in {"closing", "stopped"} =>
         /\ IsIdle(Boot)
         /\ \A s \in Servers : server[s].session # None =>
              \/ s \in todo
              \/ task[Stop].at = "waiting" /\ task[Stop].srv = s
    /\ ~IsIdle(Stop) => phase = "closing" /\ task[Stop].op = "disconnect"
    /\ phase = "stopped" => todo = {}

Inv == TypeOK /\ TaskShape /\ HolderIsBusy /\ Accounts /\ ShutdownOrder

-----------------------------------------------------------------------------
(* Properties                                                              *)

\* Callers that have the connection of s in hand, under its lock.
Holding(s) == {t \in Callers : task[t].srv = s /\ task[t].conn # None}

\* No connection is lost: each one that is still open is the connection the
\* manager keeps for its server or is in the hands of a caller that will
\* store or close it, whatever fails, is cancelled, deleted or replaced
\* meanwhile (_cleanup_runtime drops a stack without closing it).
NoLostConnection ==
    \A s \in Servers : \A i \in server[s].open :
        \/ server[s].stack = i
        \/ \E t \in Holding(s) : task[t].conn = i

\* Reconnecting never runs two connections to one server side by side: the
\* old server process is gone before the new one starts
\* (_connection_locks, connect).
OneConnection ==
    \A s \in Servers : \A i, j \in server[s].open : i = j

\* What is_connected reports can be used: the session call_tool takes is open,
\* nobody is closing it, the tools offered are those this connection listed,
\* and no error of an earlier attempt is reported beside it.
ConnectedIsUsable ==
    \A s \in Servers :
        LET m == server[s] IN
        m.session # None =>
            /\ m.session \in m.open
            /\ m.stack = m.session
            /\ m.tools = m.session
            /\ m.error = "none"
            /\ Holding(s) = {}

\* After the shutdown hook no server process or connection is left behind:
\* not one that a request opened while the hook waited, and not one that the
\* startup task went on to open after its cancellation was swallowed
\* (shutdown_event, disconnect_all).
StoppedIsClean ==
    phase = "stopped" => \A s \in Servers : server[s].open = {}

\* Every request is answered, even if no server ever answers: the lock is
\* passed on in order and every call to a server is covered by the timeout
\* (connect).  This is a liveness property of FairSpec.
Answered == \A r \in Requests : ~IsIdle(r) ~> IsIdle(r)

\* Shutting down ends, whatever the startup task does with its cancellation
\* (shutdown_event).  This is a liveness property of FairSpec.
ShutdownEnds == (phase = "draining") ~> (phase = "stopped")

\* "Clean up runtime state" (delete_config): a server that is not configured
\* is not connected.  Not so: see the run mcp_deleted.
DeletedIsGone ==
    \A s \in Servers : server[s].session # None => server[s].config
=============================================================================
