---------------------------- MODULE ChannelRouting ----------------------------
(***************************************************************************)
(* zen_claw/channels/routing.py: the agent that one chat of a user is bound *)
(* to, and its audit trail.  The gateway, the command line and the          *)
(* dashboard each have an AgentRouteStore on one SQLite file.  The lock of  *)
(* a store is held by one thread of its process at a time; between          *)
(* processes there is no lock, and SQLite only makes the statements of one  *)
(* commit appear together: a SELECT comes before the transaction that the   *)
(* first INSERT or DELETE begins.                                           *)
(*                                                                         *)
(* Abstractions: one route key, since no operation relates the rows of two; *)
(* the audit is the set of its rows, which is what the rollback queries.    *)
(***************************************************************************)
EXTENDS Integers

CONSTANTS
  Callers,    \* threads that call the store
  ProcessOf,  \* the process of each
  Agents,
  Nobody,     \* the empty agent id
  Grace,      \* grace_period_ms
  RouteTTL,   \* ttl_ms of gc_expired_routes
  MaxTime,    \* bound: the clock
  MaxCalls    \* bound: calls

ASSUME RouteAssumption ==
  Nobody \notin Agents /\ Grace \in Nat \ {0} /\ RouteTTL \in Nat \ {0}

VARIABLES
  route,    \* the row of routes: an agent (or Nobody: no row) and its time
  audit,    \* the rows of route_audit
  call,     \* what each caller is doing
  time,     \* _now_ms
  calls,    \* calls so far
  setBy,    \* history: the process that wrote the route
  held      \* history: agents that the chat has been bound to

routeVars == <<route, audit, call, time, calls, setBy, held>>

None == [agent |-> Nobody, at |-> 0]
Ops == {"bind", "clear", "rollback", "bulk"}
Steps == {"called", "looked", "read", "listed"}
Idle == [step |-> "idle"]
Rows == [agent: Agents \cup {Nobody}, at: Nat]
AuditRows == [prev: Agents \cup {Nobody}, new: Agents \cup {Nobody}, at: Nat]
Busy == [step: Steps, op: Ops, agent: Agents, at: Nat, seen: Rows]

RouteInit ==
  /\ route = None
  /\ audit = {}
  /\ call = [t \in Callers |-> Idle]
  /\ time = 1
  /\ calls = 0
  /\ setBy = Nobody
  /\ held = {}

-----------------------------------------------------------------------------
\* A caller between its query and its commit is inside "with self._lock".
Holds(t) == call[t].step \in {"looked", "read"}

\* Mutant of LockFree: a lock in every thread.
NoLock(t) == TRUE

LockFree(t) == \A u \in Callers : ProcessOf[u] = ProcessOf[t] => ~Holds(u)

Returns(t) == call' = [call EXCEPT ![t] = Idle]

\* Stands for the agent of a call that names none.
AnyAgent == CHOOSE a \in Agents : TRUE

\* The time of a call is taken before it waits for the lock.
Call(t, op, a) ==
  /\ call[t] = Idle /\ op # "bulk" /\ (op = "clear" => a = AnyAgent)
  /\ calls < MaxCalls /\ calls' = calls + 1
  /\ call' = [call EXCEPT ![t] = [step |-> "called", op |-> op, agent |-> a,
                                  at |-> time, seen |-> None]]
  /\ UNCHANGED <<route, audit, time, setBy, held>>

\* The query of soft_rollback_on_error; of rows of one time, any may come first.
Candidates(t) ==
  {r \in audit : r.new = call[t].agent /\ r.at >= call[t].at - Grace /\ r.prev # Nobody}

Latest(rows) == {r \in rows : \A s \in rows : s.at <= r.at}

LookUp(t) ==
  /\ call[t].step = "called" /\ call[t].op = "rollback"
  /\ LockFree(t)
  /\ \/ Candidates(t) = {} /\ Returns(t)
     \/ \E r \in Latest(Candidates(t)) :
          call' = [call EXCEPT ![t].step = "looked", ![t].agent = r.prev]
  /\ UNCHANGED <<route, audit, time, calls, setBy, held>>

\* The SELECT of set_route, which a rollback calls under its lock, and of clear_route.
ReadRoute(t) ==
  /\ \/ call[t].step = "called" /\ call[t].op # "rollback" /\ LockFree(t)
     \/ call[t].step = "looked"
  /\ call' = [call EXCEPT ![t].step = "read", ![t].seen = route]
  /\ UNCHANGED <<route, audit, time, calls, setBy, held>>

Stale(c) == c.seen # None /\ c.at < c.seen.at

\* Mutant of StaleRow: the switch that did not happen, backwards.
StaleRowSwapped(c) == [prev |-> c.agent, new |-> c.seen.agent, at |-> c.at]

StaleRow(c) == [prev |-> c.seen.agent, new |-> c.agent, at |-> c.at]

\* The commit of set_route: the row and its audit, or only the audit of an
\* update that comes too late.
WriteRoute(t) ==
  LET c == call[t] IN
  /\ c.step = "read" /\ c.op \in {"bind", "rollback"}
  /\ \/ /\ Stale(c)
        /\ audit' = audit \cup {StaleRow(c)}
        /\ UNCHANGED <<route, setBy, held>>
     \/ /\ ~Stale(c)
        /\ route' = [agent |-> c.agent, at |-> c.at]
        /\ audit' = audit \cup {[prev |-> c.seen.agent, new |-> c.agent, at |-> c.at]}
        /\ setBy' = ProcessOf[t]
        /\ held' = held \cup {c.agent}
  /\ Returns(t)
  /\ UNCHANGED <<time, calls>>

\* The commit of clear_route.
WriteClear(t) ==
  LET c == call[t] IN
  /\ c.step = "read" /\ c.op = "clear"
  /\ route' = IF c.seen # None THEN None ELSE route
  /\ audit' = audit \cup {[prev |-> c.seen.agent, new |-> Nobody, at |-> c.at]}
  /\ Returns(t)
  /\ UNCHANGED <<time, calls, setBy, held>>

\* clear_routes_by lists the routes of an agent, gives the lock back, ...
ListMatching(t, a) ==
  /\ call[t] = Idle /\ LockFree(t)
  /\ calls < MaxCalls /\ calls' = calls + 1
  /\ route.agent = a
  /\ call' = [call EXCEPT ![t] = [step |-> "listed", op |-> "bulk", agent |-> a,
                                  at |-> time, seen |-> route]]
  /\ UNCHANGED <<route, audit, time, setBy, held>>

\* ... and deletes what it listed, whatever the row says by now.
BulkDelete(t) ==
  LET c == call[t] IN
  /\ c.step = "listed" /\ LockFree(t)
  /\ route' = None
  /\ \E at \in c.at .. time :
       audit' = audit \cup {[prev |-> c.seen.agent, new |-> Nobody, at |-> at]}
  /\ Returns(t)
  /\ UNCHANGED <<time, calls, setBy, held>>

\* A locked database or the end of the process: nothing is committed.
Abandon(t) ==
  /\ call[t] # Idle
  /\ Returns(t)
  /\ UNCHANGED <<route, audit, time, calls, setBy, held>>

\* gc_expired_routes, from an idle outbound loop: one statement, no audit.
GcExpired(t) ==
  /\ call[t] = Idle /\ LockFree(t)
  /\ route # None /\ route.at < time - RouteTTL
  /\ route' = None
  /\ UNCHANGED <<audit, call, time, calls, setBy, held>>

TimePasses ==
  /\ time < MaxTime
  /\ time' = time + 1
  /\ UNCHANGED <<route, audit, call, calls, setBy, held>>

RouteNext ==
  \/ \E t \in Callers :
       \/ \E a \in Agents : \E op \in Ops : Call(t, op, a)
       \/ \E a \in Agents : ListMatching(t, a)
       \/ LookUp(t)
       \/ ReadRoute(t)
       \/ WriteRoute(t)
       \/ WriteClear(t)
       \/ BulkDelete(t)
       \/ Abandon(t)
       \/ GcExpired(t)
  \/ TimePasses

RouteSpec == RouteInit /\ [][RouteNext]_routeVars

-----------------------------------------------------------------------------
\* The shapes of the state.
RouteTypeOK ==
  /\ route \in Rows
  /\ audit \subseteq AuditRows
  /\ call \in [Callers -> Busy \cup {Idle}]
  /\ time \in Nat /\ calls \in Nat
  /\ held \subseteq Agents

\* Last writer wins (set_route): a binding gives way to an older one only
\* across processes, where the lock does not reach; never to a thread of the
\* process that wrote it, however long that thread waited.
NewestWins ==
  [][route # None /\ route' # None /\ route'.at < route.at => setBy' # setBy]_routeVars

\* soft_rollback_on_error sends a chat back only to an agent that it was bound
\* to, although the audit it consults also holds switches that never happened.
RollsBackToHeld ==
  \A t \in Callers :
    call[t] # Idle /\ call[t].op = "rollback" /\ call[t].step \in {"looked", "read"}
      => call[t].agent \in held
=============================================================================
