-------------------------- MODULE McpManagerProofs --------------------------
(***************************************************************************)
(* The invariant of McpManager and what follows from it, for any servers,  *)
(* requests and connection names.                                          *)
(***************************************************************************)
EXTENDS McpManager, TLAPS

\* The part of the invariant that speaks of servers and callers only.
Core ==
    /\ server \in [Servers -> Server]
    /\ task \in [Callers -> Task]
    /\ TaskShape /\ HolderIsBusy /\ Accounts

\* What a caller may do to the server it works on is confined to that server
\* and to the caller: this is what each step has to show about them.
\* m and k are the new states of server s and of caller t.
LocalOK(t, s, m, k) ==
    /\ m \in Server /\ k \in Task
    /\ k.at = "idle" => k = Idle
    /\ k.at = "waiting" => k.conn = None
    /\ k.at # "idle" => k.srv = s /\ k.op # "none"
    /\ k.at \in Busy => k.conn \in Ids /\ m.holder = t
    /\ k.at \in Busy \ {"closing"} => k.op = "connect"
    /\ m.holder = t => k.at \in Busy
    /\ m.holder \in {t, None} \/ m.holder = server[s].holder
    /\ server[s].holder \in {t, None, m.holder}
    /\ IF m.holder = None
       THEN /\ m.stack = m.session
            /\ m.open = {m.session} \ {None}
            /\ m.session # None => m.tools = m.session /\ m.error = "none"
       ELSE /\ m.stack = None /\ m.session = None
            /\ m.open = {IF m.holder = t THEN k.conn
                         ELSE task[m.holder].conn}
            /\ (IF m.holder = t THEN k.at ELSE task[m.holder].at)
                 \in {"creating", "listing"} => m.error = "none"

\* A step that is locally right preserves the core of the invariant.
LEMMA LocalStep ==
    ASSUME Core, NEW t \in Callers, NEW s \in Servers, NEW m, NEW k,
           task[t].at = "idle" \/ task[t].srv = s,
           LocalOK(t, s, m, k),
           server' = [server EXCEPT ![s] = m],
           task' = [task EXCEPT ![t] = k]
    PROVE  Core'
<1>1. server' \in [Servers -> Server] /\ task' \in [Callers -> Task]
  BY DEF Core, LocalOK
<1>2. server'[s] = m /\ task'[t] = k
  BY DEF Core
<1>3. \A u \in Callers \ {t} : task'[u] = task[u]
  BY DEF Core
<1>4. \A z \in Servers \ {s} : server'[z] = server[z]
  BY DEF Core
<1>5. None \notin Callers
  BY CallersAssumption
<1>6. \A z \in Servers \ {s} : server[z].holder # t
  BY <1>5 DEF Core, HolderIsBusy, Busy
<1>7. TaskShape'
  <2> SUFFICES ASSUME NEW u \in Callers
               PROVE  /\ task'[u].at = "idle" => task'[u] = Idle
                      /\ task'[u].at = "waiting" => task'[u].conn = None
                      /\ task'[u].at # "idle" =>
                           task'[u].srv \in Servers /\ task'[u].op # "none"
                      /\ task'[u].at \in Busy =>
                           /\ task'[u].conn \in Ids
                           /\ server'[task'[u].srv].holder = u
                      /\ task'[u].at \in Busy \ {"closing"} =>
                           task'[u].op = "connect"
    BY DEF TaskShape, IsIdle
  <2>1. CASE u = t
    BY <2>1, <1>2 DEF LocalOK, Busy
  <2>2. CASE u # t
    <3>1. task'[u] = task[u]
      BY <2>2, <1>3
    <3>2. ASSUME task[u].at \in Busy, task[u].srv = s
          PROVE  m.holder = u
      <4>1. server[s].holder = u
        BY <3>2 DEF Core, TaskShape
      <4> QED
        BY <4>1, <2>2, <1>5 DEF LocalOK
    <3>3. task[u].at \in Busy => server'[task[u].srv].holder = u
      BY <3>2, <1>2, <1>4 DEF Core, TaskShape, Busy, IsIdle
    <3> QED
      BY <3>1, <3>3 DEF Core, TaskShape, IsIdle
  <2> QED
    BY <2>1, <2>2
<1>8. HolderIsBusy'
  <2> SUFFICES ASSUME NEW z \in Servers, server'[z].holder # None
               PROVE  /\ task'[server'[z].holder].at \in Busy
                      /\ task'[server'[z].holder].srv = z
    BY DEF HolderIsBusy
  <2>1. CASE z # s
    <3>1. server'[z] = server[z] /\ server[z].holder # t
      BY <2>1, <1>4, <1>6
    <3>2. server[z].holder \in Callers
      BY <3>1, <1>1 DEF Core, Server, MaybeCaller
    <3> QED
      BY <3>1, <3>2, <1>3 DEF Core, HolderIsBusy
  <2>2. CASE z = s /\ m.holder = t
    BY <2>2, <1>2 DEF LocalOK, Busy
  <2>3. CASE z = s /\ m.holder # t
    <3>1. m.holder = server[s].holder /\ m.holder # None
      BY <2>3, <1>2 DEF LocalOK
    <3>2. m.holder \in Callers \ {t}
      BY <3>1, <2>3 DEF Core, Server, MaybeCaller
    <3> QED
      BY <3>1, <3>2, <2>3, <1>2, <1>3 DEF Core, HolderIsBusy
  <2> QED
    BY <2>1, <2>2, <2>3
<1>9. Accounts'
  <2> SUFFICES ASSUME NEW z \in Servers
               PROVE  IF server'[z].holder = None
                      THEN /\ server'[z].stack = server'[z].session
                           /\ server'[z].open = {server'[z].session} \ {None}
                           /\ server'[z].session # None =>
                                /\ server'[z].tools = server'[z].session
                                /\ server'[z].error = "none"
                      ELSE /\ server'[z].stack = None
                           /\ server'[z].session = None
                           /\ server'[z].open =
                                {task'[server'[z].holder].conn}
                           /\ task'[server'[z].holder].at
                                \in {"creating", "listing"} =>
                                  server'[z].error = "none"
    BY DEF Accounts
  <2>1. CASE z # s
    <3>1. server'[z] = server[z] /\ server[z].holder # t
      BY <2>1, <1>4, <1>6
    <3>2. server[z].holder # None => server[z].holder \in Callers \ {t}
      BY <3>1, <1>1 DEF Core, Server, MaybeCaller
    <3>3. server[z].holder # None =>
            task'[server[z].holder] = task[server[z].holder]
      BY <3>2, <1>3
    <3> QED
      BY <3>1, <3>3 DEF Core, Accounts
  <2>2. CASE z = s
    <3>1. m.holder # None /\ m.holder # t =>
            task'[m.holder] = task[m.holder]
      BY <1>3 DEF LocalOK, Server, MaybeCaller
    <3> QED
      BY <2>2, <3>1, <1>2 DEF LocalOK
  <2> QED
    BY <2>1, <2>2
<1> QED
  BY <1>1, <1>7, <1>8, <1>9 DEF Core

\* An unlocked server is in order.
Settled(m) ==
    /\ m \in Server /\ m.holder = None
    /\ m.stack = m.session
    /\ m.open = {m.session} \ {None}
    /\ m.session # None => m.tools = m.session /\ m.error = "none"

LEMMA UnlockedSettled ==
    ASSUME Core, NEW s \in Servers, server[s].holder = None
    PROVE  Settled(server[s])
BY DEF Core, Accounts, Settled

\* Deleting leaves an unlocked server without a session in order.
LEMMA DeleteSettled ==
    ASSUME NEW m, Settled(m), m.session = None
    PROVE  Settled(DeleteConfig(m))
BY DEF Settled, DeleteConfig, CleanupRuntime, Server, MaybeId, Error

\* So does ending an operation that has closed the connection it held.
LEMMA EndedSettled ==
    ASSUME NEW m \in Server, NEW op, NEW i,
           m.session = None, m.stack = None, m.open \subseteq {i}
    PROVE  Settled(Ended(Disconnected(m, i), op))
<1> DEFINE d == [Disconnected(m, i) EXCEPT !.holder = None]
<1>1. Settled(d) /\ d.session = None
  BY DEF Settled, Disconnected, Server, MaybeId, Error, MaybeCaller
<1> QED
  BY <1>1, DeleteSettled DEF Ended

\* A caller that returns leaves an unlocked server in order.
LEMMA ReturnCore ==
    ASSUME Core, NEW t \in Callers, NEW s \in Servers, NEW m, Settled(m),
           task[t].at = "idle" \/ task[t].srv = s,
           server[s].holder \in {t, None},
           Return(t, s, m)
    PROVE  Core'
<1>1. Idle \in Task
  BY DEF Idle, Task, Op, Place, MaybeId, Error
<1>2. LocalOK(t, s, m, Idle)
  BY <1>1, CallersAssumption DEF LocalOK, Settled, Idle, Busy
<1> QED
  BY <1>2, LocalStep DEF Return

\* A caller that opens a connection holds it and the lock.
LEMMA CreateCore ==
    ASSUME Core, NEW t \in Callers, NEW s \in Servers, NEW m \in Server,
           task[t].at = "idle" \/ task[t].srv = s,
           server[s].holder \in {t, None},
           m.session = None, m.stack = None, m.open = {},
           CreateSession(t, s, m)
    PROVE  Core'
<1>1. PICK i \in Ids :
        Await(t, "connect", s,
              [m EXCEPT !.error = "none", !.open = @ \cup {i}],
              "creating", i)
  BY DEF CreateSession
<1> DEFINE n == [m EXCEPT !.error = "none", !.open = {i}, !.holder = t]
           k == [op |-> "connect", at |-> "creating", srv |-> s,
                 conn |-> i, err |-> "none"]
<1>2. server' = [server EXCEPT ![s] = n] /\ task' = [task EXCEPT ![t] = k]
  BY <1>1 DEF Await, Server
<1>3. n \in Server /\ k \in Task
  BY DEF Server, Task, Op, Place, MaybeId, Error, MaybeCaller
<1>4. /\ n.holder = t /\ n.session = None /\ n.stack = None
      /\ n.open = {i} /\ n.error = "none"
  BY DEF Server
<1>5. LocalOK(t, s, n, k)
  BY <1>3, <1>4, CallersAssumption DEF LocalOK, Busy
<1> QED
  BY <1>2, <1>5, LocalStep

\* A caller that got the lock runs to its next await.
LEMMA LockedCore ==
    ASSUME Core, NEW t \in Callers, NEW s \in Servers, NEW m, Settled(m),
           NEW op \in Op \ {"none"},
           task[t].at = "idle" \/ task[t].srv = s,
           server[s].holder = None,
           Locked(t, op, s, m)
    PROVE  Core'
<1> USE DEF Settled
<1>1. CASE Return(t, s, m)
  BY <1>1, ReturnCore
<1>2. CASE m.session = None /\ CreateSession(t, s, m)
  BY <1>2, CreateCore
<1>3. CASE m.stack # None /\ Await(t, op, s, Popped(m), "closing", m.stack)
  <2> DEFINE n == [Popped(m) EXCEPT !.holder = t]
             k == [op |-> op, at |-> "closing", srv |-> s,
                   conn |-> m.stack, err |-> "none"]
  <2>1. server' = [server EXCEPT ![s] = n] /\ task' = [task EXCEPT ![t] = k]
    BY <1>3 DEF Await
  <2>2. m.stack \in Ids /\ m.open = {m.stack}
    BY <1>3 DEF Server, MaybeId
  <2>3. n \in Server /\ k \in Task
    BY <2>2 DEF Popped, Server, Task, Op, Place, MaybeId, Error, MaybeCaller
  <2>4. n.holder = t /\ n.session = None /\ n.stack = None /\ n.open = m.open
    BY DEF Popped, Server
  <2>5. LocalOK(t, s, n, k)
    BY <2>2, <2>3, <2>4, CallersAssumption DEF LocalOK, Busy
  <2> QED
    BY <2>1, <2>5, LocalStep
<1>4. CASE /\ m.stack = None
           /\ Return(t, s, Ended(Disconnected(Popped(m), None), op))
  <2>1. /\ Popped(m) \in Server /\ Popped(m).session = None
        /\ Popped(m).stack = None /\ Popped(m).open = {}
    BY <1>4 DEF Popped, Server, MaybeId
  <2>2. Settled(Ended(Disconnected(Popped(m), None), op))
    BY <2>1, EndedSettled
  <2> QED
    BY <1>4, <2>2, ReturnCore
<1> QED
  BY <1>1, <1>2, <1>3, <1>4 DEF Locked

\* A caller that asks for the lock gets it or waits.
LEMMA AcquireCore ==
    ASSUME Core, NEW t \in Callers, NEW s \in Servers, IsIdle(t),
           NEW op \in Op \ {"none"}, Acquire(t, op, s)
    PROVE  Core'
<1>1. CASE server[s].holder = None /\ Locked(t, op, s, server[s])
  BY <1>1, UnlockedSettled, LockedCore DEF IsIdle
<1>2. CASE /\ server' = [server EXCEPT ![s].queue = Append(@, t)]
           /\ task' = [task EXCEPT ![t] =
                         [Idle EXCEPT !.op = op, !.at = "waiting", !.srv = s]]
  <2> DEFINE m == server[s]
             n == [m EXCEPT !.queue = Append(m.queue, t)]
             k == [Idle EXCEPT !.op = op, !.at = "waiting", !.srv = s]
  <2>1. server' = [server EXCEPT ![s] = n]
    BY <1>2
  <2>2. m \in Server
    BY DEF Core
  <2>3. n \in Server /\ k \in Task
    <3>1. Append(m.queue, t) \in Seq(Callers)
      BY <2>2 DEF Server
    <3> HIDE DEF m
    <3>2. n \in Server
      BY <3>1, <2>2 DEF Server
    <3>3. k \in Task
      BY DEF Task, Idle, Op, Place, MaybeId, Error
    <3> QED
      BY <3>2, <3>3
  <2>4. /\ n.holder = m.holder /\ n.session = m.session /\ n.stack = m.stack
        /\ n.tools = m.tools /\ n.open = m.open /\ n.error = m.error
    BY <2>2 DEF Server
  <2>5. k.at = "waiting" /\ k.conn = None /\ k.srv = s /\ k.op = op
    BY DEF Idle
  <2>6. m.holder # t
    BY CallersAssumption DEF Core, HolderIsBusy, IsIdle, Busy
  <2>7. LocalOK(t, s, n, k)
    BY <2>3, <2>4, <2>5, <2>6 DEF LocalOK, Busy, Core, Accounts
  <2> QED
    BY <2>1, <2>7, <1>2, LocalStep DEF IsIdle
<1> QED
  BY <1>1, <1>2 DEF Acquire

-----------------------------------------------------------------------------
(* Each step preserves the core                                            *)

\* What a caller in the middle of an operation knows.
LEMMA BusyFacts ==
    ASSUME Core, NEW t \in Callers, task[t].at \in Busy
    PROVE  LET s == task[t].srv
               m == server[s]
           IN  /\ s \in Servers /\ m \in Server /\ m.holder = t
               /\ m.session = None /\ m.stack = None
               /\ task[t].conn \in Ids /\ m.open = {task[t].conn}
               /\ task[t].at \in {"creating", "listing"} => m.error = "none"
               /\ task[t] \in Task /\ task[t].op \in Op \ {"none"}
<1>1. t # None
  BY CallersAssumption
<1>2. task[t].srv \in Servers /\ server[task[t].srv].holder = t
  BY DEF Core, TaskShape, IsIdle, Busy
<1>3. task[t] \in Task /\ task[t].op \in Op \ {"none"}
  BY DEF Core, TaskShape, IsIdle, Busy, Task
<1> QED
  BY <1>1, <1>2, <1>3 DEF Core, Accounts, TaskShape

LEMMA EnterCore ==
    ASSUME Core, NEW t \in Callers, Enter(t)
    PROVE  Core'
<1> DEFINE s == task[t].srv
           m == [server[s] EXCEPT !.queue = Tail(@)]
<1>1. s \in Servers /\ task[t].op \in Op \ {"none"}
  BY DEF Core, Enter, TaskShape, IsIdle, Task
<1>2. Settled(server[s])
  BY <1>1, UnlockedSettled DEF Enter
<1>3. Tail(server[s].queue) \in Seq(Callers)
  BY <1>2 DEF Settled, Server, Enter
<1>4. Settled(m)
  BY <1>2, <1>3 DEF Settled, Server
<1> QED
  BY <1>1, <1>4, LockedCore DEF Enter

LEMMA ClosedCore ==
    ASSUME Core, NEW t \in Callers, Closed(t)
    PROVE  Core'
<1> DEFINE s == task[t].srv
           i == task[t].conn
           m == Disconnected(server[s], i)
<1>1. /\ s \in Servers /\ server[s] \in Server /\ server[s].holder = t
      /\ server[s].session = None /\ server[s].stack = None
      /\ server[s].open = {i}
  BY BusyFacts DEF Closed, Busy
<1>2. /\ m \in Server /\ m.session = None /\ m.stack = None
      /\ m.open = {}
  BY <1>1 DEF Disconnected, Server, MaybeId, Error
<1>3. CASE CreateSession(t, s, m)
  BY <1>1, <1>2, <1>3, CreateCore
<1>4. CASE Return(t, s, Ended(m, task[t].op))
  <2>1. Settled(Ended(m, task[t].op))
    BY <1>1, EndedSettled
  <2> QED
    BY <2>1, <1>1, <1>4, ReturnCore
<1> QED
  BY <1>3, <1>4 DEF Closed

\* A step that moves a caller on and leaves its server alone.
LEMMA MoveCore ==
    ASSUME Core, NEW t \in Callers, task[t].at \in Busy,
           NEW p \in Busy \ {"closing"}, NEW e \in Error,
           task[t].op = "connect",
           p \in {"creating", "listing"} => task[t].at = "creating",
           server' = server,
           NEW k, k = [task[t] EXCEPT !.at = p, !.err = e],
           task' = [task EXCEPT ![t] = k]
    PROVE  Core'
<1> DEFINE s == task[t].srv
           m == server[s]
<1>1. /\ s \in Servers /\ m \in Server /\ m.holder = t
      /\ m.session = None /\ m.stack = None
      /\ task[t].conn \in Ids /\ m.open = {task[t].conn}
      /\ task[t].at = "creating" => m.error = "none"
      /\ task[t] \in Task
  BY BusyFacts
<1>2. /\ k \in Task /\ k.at = p /\ k.conn = task[t].conn
      /\ k.srv = s /\ k.op = "connect"
  BY <1>1 DEF Task, Busy, Place
<1>3. LocalOK(t, s, m, k)
  BY <1>1, <1>2, CallersAssumption DEF LocalOK, Busy
<1>4. server' = [server EXCEPT ![s] = m]
  BY <1>1 DEF Core
<1> QED
  BY <1>1, <1>3, <1>4, LocalStep

LEMMA CreatedCore ==
    ASSUME Core, NEW t \in Callers, Created(t)
    PROVE  Core'
<1>1. /\ task[t] \in Task /\ task[t].op = "connect" /\ task[t].err \in Error
      /\ task[t].at \in Busy
  BY DEF Core, Created, TaskShape, Busy, Task
<1> DEFINE e == task[t].err
           k == [task[t] EXCEPT !.at = "listing"]
<1>2. k = [task[t] EXCEPT !.at = "listing", !.err = e] /\ e \in Error
  BY <1>1 DEF Task
<1>3. task' = [task EXCEPT ![t] = k] /\ server' = server
  BY DEF Created
<1>4. task[t].at = "creating" /\ "listing" \in Busy \ {"closing"}
  BY DEF Created, Busy
<1> HIDE DEF e, k
<1> QED
  BY <1>1, <1>2, <1>3, <1>4, MoveCore

LEMMA ListedCore ==
    ASSUME Core, NEW t \in Callers, Listed(t)
    PROVE  Core'
<1> DEFINE s == task[t].srv
           i == task[t].conn
           m == [server[s] EXCEPT !.session = i, !.stack = i, !.tools = i,
                                  !.holder = None]
<1>1. /\ s \in Servers /\ server[s] \in Server /\ server[s].holder = t
      /\ i \in Ids /\ server[s].open = {i} /\ server[s].error = "none"
  BY BusyFacts DEF Listed, Busy
<1>2. Settled(m)
  BY <1>1, CallersAssumption DEF Settled, Server, MaybeId, MaybeCaller
<1> QED
  BY <1>1, <1>2, ReturnCore DEF Listed

LEMMA FailCore ==
    ASSUME Core, NEW t \in Callers, NEW e \in Failure, Fail(t, e)
    PROVE  Core'
<1>1. /\ task[t].at \in {"creating", "listing"} /\ task[t].at \in Busy
      /\ task[t].op = "connect" /\ e \in Error
  BY DEF Fail, Core, TaskShape, Busy, Error
<1>2. CASE /\ task[t].at = "creating"
           /\ task' = [task EXCEPT ![t].at = "unwinding", ![t].err = e]
           /\ UNCHANGED server
  <2> DEFINE k == [task[t] EXCEPT !.at = "unwinding", !.err = e]
  <2>1. task' = [task EXCEPT ![t] = k] /\ server' = server
    BY <1>2 DEF Core, Task
  <2>2. "unwinding" \in Busy \ {"closing"}
    BY DEF Busy
  <2> QED
    BY <2>1, <2>2, <1>1, MoveCore
<1>3. CASE /\ task[t].at = "listing"
           /\ task' = [task EXCEPT ![t].at = "cleaning", ![t].err = e]
           /\ server' = [server EXCEPT ![task[t].srv].error = e]
  <2> DEFINE s == task[t].srv
             m == [server[s] EXCEPT !.error = e]
             k == [task[t] EXCEPT !.at = "cleaning", !.err = e]
  <2>1. /\ s \in Servers /\ server[s] \in Server /\ server[s].holder = t
        /\ server[s].session = None /\ server[s].stack = None
        /\ task[t].conn \in Ids /\ server[s].open = {task[t].conn}
        /\ task[t] \in Task
    BY <1>1, BusyFacts
  <2>2. /\ k \in Task /\ k.at = "cleaning" /\ k.conn = task[t].conn
        /\ k.srv = s /\ k.op = "connect"
    BY <1>1, <2>1 DEF Task, Place
  <2>3. /\ m \in Server /\ m.holder = t /\ m.session = None
        /\ m.stack = None /\ m.open = {task[t].conn}
    BY <1>1, <2>1 DEF Server
  <2>4. LocalOK(t, s, m, k)
    BY <2>1, <2>2, <2>3, CallersAssumption DEF LocalOK, Busy
  <2>5. server' = [server EXCEPT ![s] = m] /\ task' = [task EXCEPT ![t] = k]
    BY <1>3, <2>1 DEF Core, Task
  <2> QED
    BY <2>1, <2>4, <2>5, LocalStep
<1> QED
  BY <1>2, <1>3 DEF Fail

LEMMA UnwoundCore ==
    ASSUME Core, NEW t \in Callers, Unwound(t)
    PROVE  Core'
<1> DEFINE s == task[t].srv
           m == [CleanupRuntime(server[s]) EXCEPT
                   !.open = @ \ {task[t].conn}, !.error = task[t].err,
                   !.holder = None]
<1>1. /\ s \in Servers /\ server[s] \in Server /\ server[s].holder = t
      /\ server[s].open = {task[t].conn} /\ task[t] \in Task
  BY BusyFacts DEF Unwound, Busy
<1>2. Settled(m)
  BY <1>1 DEF Settled, CleanupRuntime, Server, Task, MaybeId, MaybeCaller
<1> QED
  BY <1>1, <1>2, ReturnCore DEF Unwound

LEMMA UpsertCore ==
    ASSUME Core, NEW s \in Servers, UpsertConfig(s)
    PROVE  Core'
<1> DEFINE m == [server[s] EXCEPT !.config = TRUE]
<1>1. /\ server' = [server EXCEPT ![s] = m] /\ task' = task
  BY DEF UpsertConfig, Core
<1>2. /\ m \in Server /\ m.holder = server[s].holder
      /\ m.session = server[s].session /\ m.stack = server[s].stack
      /\ m.tools = server[s].tools /\ m.open = server[s].open
      /\ m.error = server[s].error
  BY DEF Core, Server
<1>3. server' \in [Servers -> Server]
  BY <1>1, <1>2 DEF Core
<1>4. \A z \in Servers : /\ server'[z].holder = server[z].holder
                         /\ server'[z].session = server[z].session
                         /\ server'[z].stack = server[z].stack
                         /\ server'[z].tools = server[z].tools
                         /\ server'[z].open = server[z].open
                         /\ server'[z].error = server[z].error
  BY <1>1, <1>2 DEF Core
<1>5. TaskShape'
  BY <1>1, <1>4 DEF Core, TaskShape, IsIdle, Busy
<1>6. HolderIsBusy'
  BY <1>1, <1>4 DEF Core, HolderIsBusy
<1>7. Accounts'
  BY <1>1, <1>4 DEF Core, Accounts
<1> QED
  BY <1>1, <1>3, <1>5, <1>6, <1>7 DEF Core

LEMMA AskCore ==
    ASSUME Core, NEW r \in Requests, NEW s \in Servers, Ask(r, s)
    PROVE  Core'
<1>1. r \in Callers
  BY DEF Callers
<1>2. CASE Connect(r, s)
  BY <1>1, <1>2, AcquireCore DEF Connect, Op
<1>3. CASE Disconnect(r, s)
  BY <1>1, <1>3, AcquireCore DEF Disconnect, Op
<1>4. CASE IsIdle(r) /\ Acquire(r, "delete", s)
  BY <1>1, <1>4, AcquireCore DEF Op
<1>5. CASE /\ IsIdle(r) /\ server[s].session = None
           /\ Return(r, s, DeleteConfig(server[s]))
  <2>1. CASE server[s].holder = None
    BY <2>1, <1>1, <1>5, UnlockedSettled, DeleteSettled, ReturnCore
    DEF IsIdle
  <2>2. CASE server[s].holder # None
    <3> DEFINE m == DeleteConfig(server[s])
    <3> server[s] \in Server /\ server[s].session = None
          /\ server[s].stack = None
      BY <2>2, <1>5 DEF Core, Accounts
    <3>1. /\ m \in Server /\ m.holder = server[s].holder
          /\ m.session = None /\ m.stack = None
          /\ m.open = server[s].open
          /\ m.error = server[s].error \/ m.error = "none"
      BY DEF DeleteConfig, CleanupRuntime, Server, MaybeId, Error
    <3>2. server[s].holder # r
      BY <2>2, <1>5 DEF Core, HolderIsBusy, IsIdle, Busy
    <3>3. Idle \in Task
      BY DEF Idle, Task, Op, Place, MaybeId, Error
    <3>4. LocalOK(r, s, m, Idle)
      BY <2>2, <3>1, <3>2, <3>3
      DEF LocalOK, Core, Accounts, Idle, Busy
    <3> QED
      BY <1>1, <1>5, <3>4, LocalStep DEF IsIdle, Return
  <2> QED
    BY <2>1, <2>2
<1> QED
  BY <1>2, <1>3, <1>4, <1>5 DEF Ask, DeleteServer

\* While only Boot works, a server it waits for is unlocked or locked by it.
LEMMA CancelBootCore ==
    ASSUME Core, ShutdownOrder, CancelBoot
    PROVE  Core'
<1>1. Boot \in Callers
  BY DEF Callers
<1>2. CASE UNCHANGED <<server, task>>
  BY <1>2 DEF Core, TaskShape, HolderIsBusy, Accounts, IsIdle
<1>3. CASE Fail(Boot, "cancelled")
  BY <1>1, <1>3, FailCore DEF Failure
<1>4. CASE /\ task[Boot].at = "unwinding"
           /\ task' = [task EXCEPT ![Boot].err = "cancelled"]
           /\ UNCHANGED server
  <2>1. /\ task[Boot].op = "connect" /\ task[Boot].at \in Busy
        /\ "cancelled" \in Error
    BY <1>1, <1>4 DEF Core, TaskShape, Busy, Error, Failure
  <2> DEFINE k == [task[Boot] EXCEPT !.err = "cancelled"]
  <2>2. k = [task[Boot] EXCEPT !.at = "unwinding", !.err = "cancelled"]
    BY <1>1, <1>4 DEF Core, Task
  <2>3. task' = [task EXCEPT ![Boot] = k] /\ server' = server
    BY <1>4
  <2>4. "unwinding" \in Busy \ {"closing"}
    BY DEF Busy
  <2> HIDE DEF k
  <2> QED
    BY <1>1, <2>1, <2>2, <2>3, <2>4, MoveCore
<1>5. CASE /\ task[Boot].at = "waiting"
           /\ Return(Boot, task[Boot].srv,
                     [server[task[Boot].srv] EXCEPT !.queue = <<>>])
  <2> DEFINE s == task[Boot].srv
             m == [server[s] EXCEPT !.queue = <<>>]
  <2>1. s \in Servers
    BY <1>1, <1>5 DEF Core, TaskShape, IsIdle
  <2>2. server[s].holder = None
    <3>1. \A t \in Callers \ {Boot} : IsIdle(t)
      BY DEF CancelBoot, ShutdownOrder, Callers
    <3>2. server[s].holder \in Callers \cup {None}
      BY <2>1 DEF Core, Server, MaybeCaller
    <3>3. \A t \in Callers : task[t].at \notin Busy
      BY <3>1, <1>5 DEF IsIdle, Busy
    <3> QED
      BY <3>2, <3>3, <2>1 DEF Core, HolderIsBusy
  <2>3. Settled(server[s])
    BY <2>1, <2>2, UnlockedSettled
  <2>4. Settled(m)
    <3>1. <<>> \in Seq(Callers)
      OBVIOUS
    <3> QED
      BY <3>1, <2>3 DEF Settled, Server
  <2> QED
    BY <1>1, <1>5, <2>1, <2>2, <2>4, ReturnCore
<1> QED
  BY <1>2, <1>3, <1>4, <1>5 DEF CancelBoot

-----------------------------------------------------------------------------
(* Each step preserves the order of the shutdown                           *)

LEMMA LockedEffect ==
    ASSUME Core, NEW t \in Callers, NEW s \in Servers, NEW m \in Server,
           NEW op, Locked(t, op, s, m), m.stack = m.session
    PROVE  /\ \A u \in Callers \ {t} : task'[u] = task[u]
           /\ task'[t] = Idle \/ task'[t].op = op
           /\ \A z \in Servers \ {s} : server'[z] = server[z]
           /\ op # "connect" => server'[s].session = None
<1>1. CASE op = "connect" /\ Return(t, s, m)
  BY <1>1 DEF Return, Core
<1>2. CASE op = "connect" /\ CreateSession(t, s, m)
  BY <1>2 DEF CreateSession, Await, Core
<1>3. CASE Await(t, op, s, Popped(m), "closing", m.stack)
  BY <1>3 DEF Await, Popped, Core, Server
<1>4. CASE /\ op # "connect"
           /\ Return(t, s, Ended(Disconnected(Popped(m), None), op))
  <2>1. Ended(Disconnected(Popped(m), None), op).session = None
    BY DEF Ended, Disconnected, Popped, DeleteConfig, CleanupRuntime, Server
  <2> QED
    BY <1>4, <2>1 DEF Return, Core
<1> QED
  BY <1>1, <1>2, <1>3, <1>4 DEF Locked

\* A caller only changes itself and its server, and only connecting makes a
\* session.
LEMMA CallerEffect ==
    ASSUME Core, NEW t \in Callers, Proceed(t) \/ Answer(t)
    PROVE  /\ ~IsIdle(t) /\ phase' = phase
           /\ todo' = todo \/ (t = Boot /\ todo' = {})
           /\ \A u \in Callers \ {t} : task'[u] = task[u]
           /\ task'[t] = Idle \/ task'[t].op = task[t].op
           /\ task[t].op # "connect" =>
                \A z \in Servers : server'[z].session # None =>
                    /\ server[z].session # None
                    /\ ~(task[t].at = "waiting" /\ task[t].srv = z)
<1> DEFINE s == task[t].srv
<1>1. CASE Enter(t)
  <2> DEFINE m == [server[s] EXCEPT !.queue = Tail(@)]
  <2>1. s \in Servers
    BY <1>1 DEF Core, Enter, TaskShape, IsIdle
  <2>2. Settled(server[s])
    BY <1>1, <2>1, UnlockedSettled DEF Enter
  <2>3. Tail(server[s].queue) \in Seq(Callers)
    BY <1>1, <2>2 DEF Settled, Server, Enter
  <2>4. m \in Server /\ m.stack = m.session
    BY <2>2, <2>3 DEF Settled, Server
  <2>5. Locked(t, task[t].op, s, m)
    BY <1>1 DEF Enter
  <2>6. /\ \A u \in Callers \ {t} : task'[u] = task[u]
        /\ task'[t] = Idle \/ task'[t].op = task[t].op
        /\ \A z \in Servers \ {s} : server'[z] = server[z]
        /\ task[t].op # "connect" => server'[s].session = None
    <3> HIDE DEF m, s
    <3> QED
      BY <2>1, <2>4, <2>5, LockedEffect
  <2> QED
    BY <1>1, <2>6 DEF Enter, IsIdle
<1>2. CASE Closed(t)
  <2> DEFINE m == Disconnected(server[s], task[t].conn)
  <2>1. s \in Servers /\ server[s] \in Server /\ server[s].session = None
    BY <1>2, BusyFacts DEF Closed, Busy
  <2>2. CASE task[t].op = "connect" /\ CreateSession(t, s, m)
    <3>1. /\ \A u \in Callers \ {t} : task'[u] = task[u]
          /\ task'[t].op = "connect"
      BY <2>2 DEF CreateSession, Await, Core
    <3> QED
      BY <1>2, <2>2, <3>1 DEF Closed, IsIdle
  <2>3. CASE task[t].op # "connect" /\ Return(t, s, Ended(m, task[t].op))
    <3>1. Ended(m, task[t].op).session = None
      BY <2>1 DEF Ended, Disconnected, DeleteConfig, CleanupRuntime, Server
    <3>2. server'[s].session = None
            /\ \A z \in Servers \ {s} : server'[z] = server[z]
      BY <2>1, <2>3, <3>1 DEF Return, Core
    <3> QED
      BY <1>2, <2>3, <3>2 DEF Closed, Return, Core, IsIdle
  <2> QED
    BY <1>2, <2>2, <2>3 DEF Closed
<1>3. CASE Created(t)
  BY <1>3 DEF Created, Core, IsIdle, Task
<1>4. CASE Listed(t) \/ Refuse(t) \/ Expire(t)
  <2>1. task[t].at \in {"listing", "creating"} /\ task[t].op = "connect"
    BY <1>4 DEF Listed, Refuse, Expire, Fail, Core, TaskShape, Busy
  <2>2. CASE Listed(t)
    BY <2>1, <2>2 DEF Listed, Return, Core, IsIdle
  <2>3. CASE Refuse(t) \/ Expire(t)
    BY <2>1, <2>3 DEF Refuse, Expire, Fail, Core, IsIdle, Task
  <2> QED
    BY <1>4, <2>2, <2>3
<1>5. CASE Unwound(t)
  <2>1. task[t].op = "connect" /\ ~IsIdle(t)
    BY <1>5 DEF Unwound, Core, TaskShape, Busy, IsIdle
  <2> QED
    BY <1>5, <2>1 DEF Unwound, Return, Core
<1> QED
  BY <1>1, <1>2, <1>3, <1>4, <1>5 DEF Proceed, Answer

LEMMA CallerOrder ==
    ASSUME Inv, NEW t \in Callers, Proceed(t) \/ Answer(t)
    PROVE  ShutdownOrder'
<1>1. Core
  BY DEF Inv, TypeOK, Core
<1>2. /\ ~IsIdle(t) /\ phase' = phase
      /\ todo' = todo \/ (t = Boot /\ todo' = {})
      /\ \A u \in Callers \ {t} : task'[u] = task[u]
      /\ task'[t] = Idle \/ task'[t].op = task[t].op
      /\ task[t].op # "connect" =>
           \A z \in Servers : server'[z].session # None =>
               /\ server[z].session # None
               /\ ~(task[t].at = "waiting" /\ task[t].srv = z)
  BY <1>1, CallerEffect
<1>3. /\ Boot \in Callers /\ Stop \in Callers /\ Requests \subseteq Callers
      /\ Boot \notin Requests /\ Stop \notin Requests /\ Stop # Boot
  BY CallersAssumption DEF Callers
<1>4. CASE t = Stop
  <2>1. phase = "closing" /\ task[Stop].op = "disconnect"
    BY <1>2, <1>4 DEF Inv, ShutdownOrder
  <2>2. todo' = todo /\ phase' = "closing"
    BY <1>2, <1>3, <1>4, <2>1
  <2>3. \A u \in Requests \cup {Boot} : IsIdle(u)'
    BY <1>2, <1>3, <1>4, <2>1 DEF Inv, ShutdownOrder, IsIdle
  <2>4. \A z \in Servers : server'[z].session # None => z \in todo
    BY <1>2, <1>4, <2>1 DEF Inv, ShutdownOrder
  <2>5. task'[Stop].at # "idle" => task'[Stop].op = "disconnect"
    BY <1>2, <1>4, <2>1 DEF Idle
  <2> QED
    BY <2>2, <2>3, <2>4, <2>5 DEF ShutdownOrder, IsIdle
<1>5. CASE t # Stop
  <2>1. phase \notin {"closing", "stopped"}
    BY <1>2, <1>3, <1>5 DEF Inv, ShutdownOrder, Callers
  <2>2. task'[Stop] = task[Stop] /\ IsIdle(Stop)
    BY <1>2, <1>3, <1>5, <2>1 DEF Inv, ShutdownOrder
  <2>3. phase = "stopping" => \A r \in Requests : IsIdle(r)'
    BY <1>2, <1>3 DEF Inv, ShutdownOrder, IsIdle
  <2> QED
    BY <1>2, <2>1, <2>2, <2>3 DEF ShutdownOrder, IsIdle
<1> QED
  BY <1>4, <1>5

\* Asking for a lock changes only the one who asks and the server.
LEMMA AcquireEffect ==
    ASSUME Core, NEW t \in Callers, NEW s \in Servers, NEW op,
           Acquire(t, op, s)
    PROVE  /\ \A u \in Callers \ {t} : task'[u] = task[u]
           /\ task'[t] = Idle \/ task'[t].op = op
           /\ \A z \in Servers \ {s} : server'[z] = server[z]
           /\ op # "connect" =>
                \/ server'[s].session = None
                \/ task'[t].at = "waiting" /\ task'[t].srv = s
<1>1. CASE server[s].holder = None /\ Locked(t, op, s, server[s])
  <2>1. Settled(server[s])
    BY <1>1, UnlockedSettled
  <2> QED
    BY <1>1, <2>1, LockedEffect DEF Settled
<1>2. CASE /\ server' = [server EXCEPT ![s].queue = Append(@, t)]
           /\ task' = [task EXCEPT ![t] =
                         [Idle EXCEPT !.op = op, !.at = "waiting", !.srv = s]]
  BY <1>2 DEF Core, Idle
<1> QED
  BY <1>1, <1>2 DEF Acquire

LEMMA AskOrder ==
    ASSUME Inv, NEW r \in Requests, NEW s \in Servers, Ask(r, s)
    PROVE  ShutdownOrder'
<1>1. /\ Core /\ r \in Callers /\ Stop \in Callers /\ Stop # r
  BY CallersAssumption DEF Inv, TypeOK, Core, Callers
<1>2. phase = "running" /\ phase' = "running" /\ IsIdle(Stop)
  BY DEF Ask, Connect, Disconnect, DeleteServer, Inv, ShutdownOrder
<1>3. task'[Stop] = task[Stop]
  BY <1>1, AcquireEffect
  DEF Ask, Connect, Disconnect, DeleteServer, Return, Core
<1> QED
  BY <1>2, <1>3 DEF ShutdownOrder, IsIdle

LEMMA BootNextOrder ==
    ASSUME Inv, BootNext
    PROVE  ShutdownOrder'
<1>1. /\ Core /\ Boot \in Callers /\ Stop \in Callers /\ Stop # Boot
      /\ Requests \subseteq Callers \ {Boot}
  BY CallersAssumption DEF Inv, TypeOK, Core, Callers
<1>2. PICK s \in Servers : Acquire(Boot, "connect", s)
  BY DEF BootNext, Inv, TypeOK
<1>3. \A u \in Callers \ {Boot} : task'[u] = task[u]
  BY <1>1, <1>2, AcquireEffect
<1>4. phase \in {"running", "draining", "stopping"} /\ phase' = phase
  BY DEF BootNext
<1> QED
  BY <1>1, <1>3, <1>4 DEF Inv, ShutdownOrder, IsIdle

LEMMA DisconnectNextOrder ==
    ASSUME Inv, DisconnectNext
    PROVE  ShutdownOrder'
<1>1. /\ Core /\ Boot \in Callers /\ Stop \in Callers /\ Stop # Boot
      /\ Requests \subseteq Callers \ {Stop}
  BY CallersAssumption DEF Inv, TypeOK, Core, Callers
<1>2. PICK s \in Servers : /\ s \in todo /\ Acquire(Stop, "disconnect", s)
                           /\ todo' = todo \ {s}
  BY DEF DisconnectNext, Inv, TypeOK
<1>3. /\ \A u \in Callers \ {Stop} : task'[u] = task[u]
      /\ task'[Stop] = Idle \/ task'[Stop].op = "disconnect"
      /\ \A z \in Servers \ {s} : server'[z] = server[z]
      /\ \/ server'[s].session = None
         \/ task'[Stop].at = "waiting" /\ task'[Stop].srv = s
  BY <1>1, <1>2, AcquireEffect
<1>4. phase = "closing" /\ phase' = "closing" /\ IsIdle(Stop)
  BY DEF DisconnectNext
<1>5. \A z \in Servers : server'[z].session # None =>
        \/ z \in todo'
        \/ task'[Stop].at = "waiting" /\ task'[Stop].srv = z
  BY <1>2, <1>3, <1>4 DEF Inv, ShutdownOrder, IsIdle
<1> QED
  BY <1>1, <1>3, <1>4, <1>5 DEF Inv, ShutdownOrder, IsIdle, Idle

LEMMA CancelBootOrder ==
    ASSUME Inv, CancelBoot
    PROVE  ShutdownOrder'
<1>1. /\ Boot \in Callers /\ Stop \in Callers /\ Stop # Boot
      /\ Requests \subseteq Callers \ {Boot}
  BY CallersAssumption DEF Callers
<1>2. \A u \in Callers \ {Boot} : task'[u] = task[u]
  BY DEF CancelBoot, Return, Fail, Inv, TypeOK
<1>3. phase = "draining" /\ phase' = "stopping"
        /\ \A r \in Requests : IsIdle(r)
  BY DEF CancelBoot
<1> QED
  BY <1>1, <1>2, <1>3 DEF Inv, ShutdownOrder, IsIdle

-----------------------------------------------------------------------------
(* The invariant                                                           *)

LEMMA InitInv == Init => Inv
<1> SUFFICES ASSUME Init PROVE Inv
  OBVIOUS
<1>1. \A s \in Servers : \E c \in BOOLEAN : server[s] = Fresh(c)
  BY DEF Init
<1>2. \A c \in BOOLEAN : Fresh(c) \in Server
  <2> <<>> \in Seq(Callers)
    OBVIOUS
  <2> QED
    BY DEF Fresh, Server, MaybeId, MaybeCaller, Error
<1>3. Idle \in Task
  BY DEF Idle, Task, Op, Place, MaybeId, Error
<1>4. TypeOK
  BY <1>1, <1>2, <1>3 DEF Init, TypeOK, Phase
<1>5. \A t \in Callers : task[t] = Idle
  BY DEF Init
<1>6. TaskShape
  BY <1>5 DEF TaskShape, Idle, IsIdle, Busy
<1>7. HolderIsBusy /\ Accounts
  <2>1. \A s \in Servers : /\ server[s].holder = None
                           /\ server[s].session = None
                           /\ server[s].stack = None
                           /\ server[s].open = {}
    <3> TAKE s \in Servers
    <3>1. PICK c \in BOOLEAN : server[s] = Fresh(c)
      BY <1>1
    <3> QED
      BY <3>1 DEF Fresh
  <2> QED
    BY <2>1 DEF HolderIsBusy, Accounts
<1>8. ShutdownOrder
  BY <1>5 DEF Init, ShutdownOrder, IsIdle, Idle, Callers
<1> QED
  BY <1>4, <1>6, <1>7, <1>8 DEF Inv

LEMMA NextInv == Inv /\ [Next]_vars => Inv'
<1> SUFFICES ASSUME Inv, [Next]_vars PROVE Inv'
  OBVIOUS
<1>1. Core /\ todo \in SUBSET Servers /\ phase \in Phase
  BY DEF Inv, TypeOK, Core
<1>2. ASSUME Core', ShutdownOrder', todo' \in SUBSET Servers, phase' \in Phase
      PROVE  Inv'
  BY <1>2 DEF Inv, TypeOK, Core
<1>3. ASSUME NEW t \in Callers, Proceed(t) \/ Answer(t)
      PROVE  Inv'
  <2>1. Core'
    BY <1>1, <1>3, EnterCore, ClosedCore, CreatedCore, ListedCore, FailCore,
       UnwoundCore
    DEF Proceed, Answer, Refuse, Expire, Failure
  <2>2. phase' = phase /\ todo' \in SUBSET todo
    BY <1>1, <1>3, CallerEffect
  <2> QED
    BY <1>1, <1>2, <1>3, <2>1, <2>2, CallerOrder
<1>4. ASSUME NEW s \in Servers, UpsertConfig(s)
      PROVE  Inv'
  <2>1. /\ task' = task /\ todo' = todo /\ phase' = phase
        /\ phase = "running"
    BY <1>4 DEF UpsertConfig
  <2>2. ShutdownOrder'
    BY <2>1 DEF Inv, ShutdownOrder, IsIdle
  <2> QED
    BY <1>1, <1>2, <1>4, <2>1, <2>2, UpsertCore
<1>5. ASSUME NEW s \in Servers, NEW r \in Requests, Ask(r, s)
      PROVE  Inv'
  <2>1. phase' = phase /\ todo' = todo
    BY <1>5 DEF Ask, Connect, Disconnect, DeleteServer
  <2> QED
    BY <1>1, <1>2, <1>5, <2>1, AskCore, AskOrder
<1>6. CASE BootNext
  <2>1. phase' = phase /\ todo' \in SUBSET todo
    BY <1>6 DEF BootNext
  <2>2. Core'
    BY <1>1, <1>6, AcquireCore DEF BootNext, Callers, Op
  <2> QED
    BY <1>1, <1>2, <1>6, <2>1, <2>2, BootNextOrder
<1>7. CASE Shutdown
  <2>1. UNCHANGED <<server, task, todo>> /\ phase' = "draining"
          /\ phase = "running"
    BY <1>7 DEF Shutdown
  <2>2. Core'
    BY <1>1, <2>1 DEF Core, TaskShape, HolderIsBusy, Accounts, IsIdle
  <2>3. ShutdownOrder'
    BY <2>1 DEF Inv, ShutdownOrder, IsIdle
  <2> QED
    BY <1>1, <1>2, <2>1, <2>2, <2>3 DEF Phase
<1>8. CASE CancelBoot
  <2>1. phase' = "stopping" /\ todo' \in SUBSET todo
    BY <1>8 DEF CancelBoot
  <2>2. Core'
    BY <1>1, <1>8, CancelBootCore DEF Inv
  <2> QED
    BY <1>1, <1>2, <1>8, <2>1, <2>2, CancelBootOrder DEF Phase
<1>9. CASE ListConnected
  <2>1. /\ UNCHANGED <<server, task>> /\ phase' = "closing"
        /\ phase = "stopping" /\ IsIdle(Boot)
        /\ todo' = {s \in Servers : server[s].session # None}
    BY <1>9 DEF ListConnected
  <2>2. Core'
    BY <1>1, <2>1 DEF Core, TaskShape, HolderIsBusy, Accounts, IsIdle
  <2>3. ShutdownOrder'
    BY <2>1 DEF Inv, ShutdownOrder, IsIdle
  <2> QED
    BY <1>2, <2>1, <2>2, <2>3 DEF Phase
<1>10. CASE DisconnectNext
  <2>1. phase' = phase /\ todo' \in SUBSET todo
    BY <1>10 DEF DisconnectNext
  <2>2. Core'
    BY <1>1, <1>10, AcquireCore DEF DisconnectNext, Callers, Op
  <2> QED
    BY <1>1, <1>2, <1>10, <2>1, <2>2, DisconnectNextOrder
<1>11. CASE Exit
  <2>1. /\ UNCHANGED <<server, task, todo>> /\ phase' = "stopped"
        /\ phase = "closing" /\ IsIdle(Stop) /\ todo = {}
    BY <1>11 DEF Exit
  <2>2. Core'
    BY <1>1, <2>1 DEF Core, TaskShape, HolderIsBusy, Accounts, IsIdle
  <2>3. ShutdownOrder'
    BY <2>1 DEF Inv, ShutdownOrder, IsIdle
  <2> QED
    BY <1>1, <1>2, <2>1, <2>2, <2>3 DEF Phase
<1>12. CASE UNCHANGED vars
  <2>1. UNCHANGED <<server, task, todo, phase>>
    BY <1>12 DEF vars
  <2> QED
    BY <2>1
    DEF Inv, TypeOK, TaskShape, HolderIsBusy, Accounts, ShutdownOrder, IsIdle
<1> QED
  BY <1>3, <1>4, <1>5, <1>6, <1>7, <1>8, <1>9, <1>10, <1>11, <1>12
  DEF Next, Finish

\* The bookkeeping of connections, locks and callers is sound in every state
\* of the manager (mcp_manager.py).
THEOREM InvHolds == Spec => []Inv
BY InitInv, NextInv, PTL DEF Spec

-----------------------------------------------------------------------------
(* What follows from it                                                    *)

\* Nobody has a connection of an unlocked server in hand.
LEMMA HoldersLock ==
    ASSUME Inv, NEW s \in Servers, NEW t \in Holding(s)
    PROVE  server[s].holder = t /\ t # None
<1>1. t \in Callers /\ task[t].srv = s /\ task[t].conn # None
  BY DEF Holding
<1>2. task[t].at \in Busy
  BY <1>1 DEF Inv, TypeOK, TaskShape, Task, Place, Busy, IsIdle, Idle
<1> QED
  BY <1>1, <1>2, CallersAssumption DEF Inv, TaskShape

\* Variables keep their types.
THEOREM McpTypeCorrect == Spec => []TypeOK
<1>1. Inv => TypeOK
  BY DEF Inv
<1> QED
  BY <1>1, InvHolds, PTL

\* No open connection is ever out of reach of both the manager and its
\* callers (connect, disconnect, delete_config, _cleanup_runtime).
THEOREM NothingLost == Spec => []NoLostConnection
<1>1. ASSUME Inv PROVE NoLostConnection
  <2> SUFFICES ASSUME NEW s \in Servers, NEW i \in server[s].open
               PROVE  \/ server[s].stack = i
                      \/ \E t \in Holding(s) : task[t].conn = i
    BY DEF NoLostConnection
  <2>1. CASE server[s].holder = None
    BY <1>1, <2>1 DEF Inv, Accounts
  <2>2. CASE server[s].holder # None
    <3> DEFINE h == server[s].holder
    <3>1. h \in Callers /\ task[h].srv = s /\ task[h].conn = i
      BY <1>1, <2>2
      DEF Inv, TypeOK, Server, MaybeCaller, HolderIsBusy, Accounts
    <3>2. task[h].conn # None
      BY <1>1, <2>2, <3>1, CallersAssumption
      DEF Inv, TaskShape, HolderIsBusy
    <3> QED
      BY <3>1, <3>2 DEF Holding
  <2> QED
    BY <2>1, <2>2
<1> QED
  BY <1>1, InvHolds, PTL

\* A server never has two open connections (_connection_locks).
THEOREM OneAtATime == Spec => []OneConnection
<1>1. Inv => OneConnection
  BY DEF Inv, Accounts, OneConnection
<1> QED
  BY <1>1, InvHolds, PTL

\* A server reported as connected can be called, and nobody is about to close
\* the session a call takes (call_tool, is_connected).
THEOREM ConnectedWorks == Spec => []ConnectedIsUsable
<1>1. ASSUME Inv PROVE ConnectedIsUsable
  <2> SUFFICES ASSUME NEW s \in Servers, server[s].session # None
               PROVE  /\ server[s].session \in server[s].open
                      /\ server[s].stack = server[s].session
                      /\ server[s].tools = server[s].session
                      /\ server[s].error = "none"
                      /\ Holding(s) = {}
    BY DEF ConnectedIsUsable
  <2>1. server[s].holder = None
    BY <1>1 DEF Inv, Accounts
  <2> QED
    BY <1>1, <2>1, HoldersLock DEF Inv, Accounts
<1> QED
  BY <1>1, InvHolds, PTL

\* The shutdown hook leaves no connection open (shutdown_event).
THEOREM ShutdownCleans == Spec => []StoppedIsClean
<1>1. ASSUME Inv PROVE StoppedIsClean
  <2> SUFFICES ASSUME phase = "stopped", NEW s \in Servers
               PROVE  server[s].open = {}
    BY DEF StoppedIsClean
  <2>1. \A t \in Callers : IsIdle(t)
    BY <1>1 DEF Inv, ShutdownOrder, Callers
  <2>2. server[s].holder = None
    BY <1>1, <2>1
    DEF Inv, TypeOK, Server, MaybeCaller, HolderIsBusy, IsIdle, Busy
  <2>3. server[s].session = None
    BY <1>1, <2>1 DEF Inv, ShutdownOrder, IsIdle, Callers
  <2> QED
    BY <1>1, <2>2, <2>3 DEF Inv, Accounts
<1> QED
  BY <1>1, InvHolds, PTL
=============================================================================
