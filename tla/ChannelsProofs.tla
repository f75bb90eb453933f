---------------------------- MODULE ChannelsProofs ----------------------------
(*****************************************************************************)
(* Theorems about the ways of a message and of its answer, for any callers,  *)
(* senders, sockets, chats, rates and bounds: the routing store              *)
(* (ChannelRouting), the bus with the sending of replies (Outbound) and the  *)
(* router of what comes in (Inbound), and the web chat of the dashboard      *)
(* (WebChat).                                                                *)
(*****************************************************************************)
EXTENDS ChannelRouting, Outbound, Inbound, WebChat, TLAPS

-----------------------------------------------------------------------------
(* Part 1: the routing store (ChannelRouting)                               *)

(* The inductive invariant.  The lock of a process lets one of its threads  *)
(* between its query and its commit, so what such a thread has read is what *)
(* the table holds, if its own process wrote that; and every agent that the *)
(* table, the audit or a caller would send a chat back to has been bound.   *)

OneHolder ==
  \A t, u \in Callers :
    Holds(t) /\ Holds(u) /\ ProcessOf[t] = ProcessOf[u] => t = u

WasHeld(a) == a \in held \cup {Nobody}

ReadsOwnWrite(t) ==
  call[t].step = "read" /\ route # None /\ setBy = ProcessOf[t] => call[t].seen = route

SeesHeld(t) ==
  call[t] # Idle =>
    /\ WasHeld(call[t].seen.agent)
    /\ call[t].op = "rollback" /\ call[t].step \in {"looked", "read"} => call[t].agent \in held

RouteInv ==
  /\ RouteTypeOK
  /\ OneHolder
  /\ WasHeld(route.agent)
  /\ \A r \in audit : WasHeld(r.prev)
  /\ \A t \in Callers : ReadsOwnWrite(t) /\ SeesHeld(t)

LEMMA RouteShapes ==
  ASSUME NEW c \in Busy \cup {Idle}
  PROVE  /\ c # Idle <=> c \in Busy
         /\ c # Idle => c.step \in Steps
         /\ c = Idle => c.step = "idle"
         /\ c.step # "idle" => c \in Busy
<1>1. Idle.step = "idle"
  BY DEF Idle
<1>2. \A b \in Busy : b.step \in Steps /\ b.step # "idle"
  BY DEF Busy, Steps
<1> QED BY <1>1, <1>2

\* One caller moves: what it moves to is fine, and so are the others.
LEMMA OneCallerMoves ==
  ASSUME RouteInv, NEW t \in Callers, NEW c \in Busy \cup {Idle},
         call' = [call EXCEPT ![t] = c],
         route' \in Rows, audit' \subseteq AuditRows, time' \in Nat, calls' \in Nat,
         held' \subseteq Agents, held \subseteq held',
         route'.agent \in held' \cup {Nobody},
         \A r \in audit' : r.prev \in held' \cup {Nobody},
         c # Idle =>
           /\ c.seen.agent \in held' \cup {Nobody}
           /\ c.op = "rollback" /\ c.step \in {"looked", "read"} => c.agent \in held',
         c.step = "read" /\ route' # None /\ setBy' = ProcessOf[t] => c.seen = route',
         c.step \in {"looked", "read"} => Holds(t) \/ LockFree(t),
         \A u \in Callers \ {t} : ReadsOwnWrite(u)'
  PROVE  RouteInv'
<1>1. call \in [Callers -> Busy \cup {Idle}]
  BY DEF RouteInv, RouteTypeOK
<1>2. call'[t] = c /\ \A u \in Callers \ {t} : call'[u] = call[u]
  BY <1>1
<1>3. call' \in [Callers -> Busy \cup {Idle}]
  BY <1>1
<1>4. RouteTypeOK'
  BY <1>3 DEF RouteTypeOK
<1>5. OneHolder'
  <2> SUFFICES ASSUME NEW u \in Callers, NEW v \in Callers, u # v,
                      Holds(u)', Holds(v)', ProcessOf[u] = ProcessOf[v]
               PROVE  FALSE
    BY DEF OneHolder
  <2>1. \A w \in Callers \ {t} : Holds(w)' => Holds(w)
    BY <1>2 DEF Holds
  <2>2. Holds(t)' => Holds(t) \/ LockFree(t)
    BY <1>2 DEF Holds
  <2>3. CASE u # t /\ v # t
    BY <2>1, <2>3 DEF RouteInv, OneHolder
  <2>4. CASE u = t
    <3>1. Holds(v) /\ ProcessOf[v] = ProcessOf[t]
      BY <2>1, <2>4
    <3> QED BY <2>2, <2>4, <3>1 DEF RouteInv, OneHolder, LockFree
  <2>5. CASE v = t
    <3>1. Holds(u) /\ ProcessOf[u] = ProcessOf[t]
      BY <2>1, <2>5
    <3> QED BY <2>2, <2>5, <3>1 DEF RouteInv, OneHolder, LockFree
  <2> QED BY <2>3, <2>4, <2>5
<1>6. \A u \in Callers : ReadsOwnWrite(u)'
  <2>1. ReadsOwnWrite(t)'
    BY <1>2 DEF ReadsOwnWrite
  <2> QED BY <2>1
<1>7. \A u \in Callers : SeesHeld(u)'
  <2>1. SeesHeld(t)'
    BY <1>2 DEF SeesHeld, WasHeld
  <2>2. ASSUME NEW u \in Callers \ {t} PROVE SeesHeld(u)'
    <3>1. SeesHeld(u)
      BY DEF RouteInv
    <3> QED BY <1>2, <3>1 DEF SeesHeld, WasHeld
  <2> QED BY <2>1, <2>2
<1>8. WasHeld(route.agent)' /\ \A r \in audit' : WasHeld(r.prev)'
  BY DEF WasHeld
<1> QED BY <1>4, <1>5, <1>6, <1>7, <1>8 DEF RouteInv

-----------------------------------------------------------------------------
LEMMA RouteInitially == RouteInit => RouteInv
<1> SUFFICES ASSUME RouteInit PROVE RouteInv
  OBVIOUS
<1>1. RouteTypeOK
  BY DEF RouteInit, RouteTypeOK, None, Rows
<1>2. OneHolder
  BY DEF RouteInit, OneHolder, Holds, Idle
<1>3. WasHeld(route.agent)
  BY DEF RouteInit, WasHeld, None
<1>4. \A t \in Callers : ReadsOwnWrite(t) /\ SeesHeld(t)
  BY DEF RouteInit, ReadsOwnWrite, SeesHeld, Idle
<1> QED BY <1>1, <1>2, <1>3, <1>4 DEF RouteInit, RouteInv

\* A caller that returns leaves everything else as it is.
LEMMA ReturnsKeeps ==
  ASSUME RouteInv, NEW t \in Callers, Returns(t),
         route' \in Rows, audit' \subseteq AuditRows, UNCHANGED <<time, calls>>,
         held' \subseteq Agents, held \subseteq held',
         route'.agent \in held' \cup {Nobody},
         \A r \in audit' : r.prev \in held' \cup {Nobody},
         \A u \in Callers \ {t} : ReadsOwnWrite(u)'
  PROVE  RouteInv'
<1>1. time' \in Nat /\ calls' \in Nat
  BY DEF RouteInv, RouteTypeOK
<1>2. call' = [call EXCEPT ![t] = Idle]
  BY DEF Returns
<1>3. Idle.step = "idle"
  BY DEF Idle
<1>4. Idle \in Busy \cup {Idle}
  OBVIOUS
<1> HIDE DEF Idle
<1> QED BY <1>1, <1>2, <1>3, <1>4, OneCallerMoves

LEMMA RouteStep ==
  ASSUME RouteInv, [RouteNext]_routeVars
  PROVE  RouteInv'
<1>0. /\ route \in Rows /\ audit \subseteq AuditRows
      /\ call \in [Callers -> Busy \cup {Idle}]
      /\ time \in Nat /\ calls \in Nat /\ held \subseteq Agents
  BY DEF RouteInv, RouteTypeOK
<1>h. route.agent \in held \cup {Nobody} /\ \A r \in audit : r.prev \in held \cup {Nobody}
  BY DEF RouteInv, WasHeld
<1>r. \A u \in Callers : ReadsOwnWrite(u) /\ SeesHeld(u)
  BY DEF RouteInv
<1>n. None \in Rows /\ None.agent = Nobody
  BY DEF None, Rows
<1>o. ASSUME NEW t \in Callers, NEW c, call' = [call EXCEPT ![t] = c], UNCHANGED <<route, setBy>>
      PROVE  \A u \in Callers \ {t} : ReadsOwnWrite(u)'
  BY <1>0, <1>r, <1>o DEF ReadsOwnWrite
<1>1. ASSUME NEW t \in Callers, NEW a \in Agents, NEW op \in Ops, Call(t, op, a) PROVE RouteInv'
  <2> DEFINE c == [step |-> "called", op |-> op, agent |-> a, at |-> time, seen |-> None]
  <2>1. call' = [call EXCEPT ![t] = c] /\ UNCHANGED <<route, audit, time, setBy, held>>
        /\ calls' = calls + 1
    BY <1>1 DEF Call
  <2>2. c \in Busy /\ c.step = "called" /\ c.seen = None
    BY <1>0, <1>n DEF Busy, Steps
  <2>3. calls' \in Nat
    BY <1>0, <2>1
  <2> HIDE DEF c
  <2>4. \A u \in Callers \ {t} : ReadsOwnWrite(u)'
    BY <1>o, <2>1
  <2> QED BY <1>0, <1>h, <1>n, <2>1, <2>2, <2>3, <2>4, OneCallerMoves
<1>2. ASSUME NEW t \in Callers, NEW a \in Agents, ListMatching(t, a) PROVE RouteInv'
  <2> DEFINE c == [step |-> "listed", op |-> "bulk", agent |-> a, at |-> time, seen |-> route]
  <2>1. call' = [call EXCEPT ![t] = c] /\ UNCHANGED <<route, audit, time, setBy, held>>
        /\ calls' = calls + 1
    BY <1>2 DEF ListMatching
  <2>2. c \in Busy /\ c.step = "listed" /\ c.seen = route
    BY <1>0 DEF Busy, Steps, Ops
  <2>3. calls' \in Nat
    BY <1>0, <2>1
  <2> HIDE DEF c
  <2>4. \A u \in Callers \ {t} : ReadsOwnWrite(u)'
    BY <1>o, <2>1
  <2> QED BY <1>0, <1>h, <2>1, <2>2, <2>3, <2>4, OneCallerMoves
<1>3. ASSUME NEW t \in Callers, LookUp(t) PROVE RouteInv'
  <2>1. UNCHANGED <<route, audit, time, calls, setBy, held>>
    BY <1>3 DEF LookUp
  <2>2. CASE Returns(t)
    <3>1. \A u \in Callers \ {t} : ReadsOwnWrite(u)'
      BY <1>o, <2>1, <2>2 DEF Returns
    <3> QED BY <1>0, <1>h, <2>1, <2>2, <3>1, ReturnsKeeps
  <2>3. CASE \E r \in Latest(Candidates(t)) :
               call' = [call EXCEPT ![t].step = "looked", ![t].agent = r.prev]
    <3>1. PICK r \in Latest(Candidates(t)) :
            call' = [call EXCEPT ![t].step = "looked", ![t].agent = r.prev]
      BY <2>3
    <3>2. r \in audit /\ r.prev # Nobody
      BY DEF Latest, Candidates
    <3>3. r.prev \in held /\ r.prev \in Agents
      BY <1>0, <1>h, <3>2
    <3>4. call[t] \in Busy /\ LockFree(t)
      BY <1>0, <1>3, RouteShapes DEF LookUp
    <3> DEFINE c == [call[t] EXCEPT !.step = "looked", !.agent = r.prev]
    <3>5. call' = [call EXCEPT ![t] = c]
      BY <1>0, <3>1
    <3>6. c \in Busy /\ c.step = "looked" /\ c.seen = call[t].seen /\ c.agent = r.prev
      BY <3>3, <3>4 DEF Busy, Steps
    <3>7. c.seen.agent \in held \cup {Nobody}
      BY <1>r, <3>4, <3>6, RouteShapes DEF SeesHeld, WasHeld
    <3> HIDE DEF c
    <3>8. \A u \in Callers \ {t} : ReadsOwnWrite(u)'
      BY <1>o, <2>1, <3>5
    <3> QED BY <1>0, <1>h, <2>1, <3>3, <3>4, <3>5, <3>6, <3>7, <3>8, OneCallerMoves
  <2> QED BY <1>3, <2>2, <2>3 DEF LookUp
<1>4. ASSUME NEW t \in Callers, ReadRoute(t) PROVE RouteInv'
  <2>1. UNCHANGED <<route, audit, time, calls, setBy, held>>
    BY <1>4 DEF ReadRoute
  <2>2. call[t] \in Busy /\ (Holds(t) \/ LockFree(t))
        /\ (call[t].op = "rollback" => call[t].step = "looked")
    BY <1>0, <1>4, RouteShapes DEF ReadRoute, Holds
  <2> DEFINE c == [call[t] EXCEPT !.step = "read", !.seen = route]
  <2>3. call' = [call EXCEPT ![t] = c]
    BY <1>0, <1>4 DEF ReadRoute
  <2>4. c \in Busy /\ c.step = "read" /\ c.seen = route /\ c.op = call[t].op /\ c.agent = call[t].agent
    BY <1>0, <2>2 DEF Busy, Steps
  <2>5. c.op = "rollback" => c.agent \in held
    BY <1>r, <2>2, <2>4, RouteShapes DEF SeesHeld
  <2> HIDE DEF c
  <2>6. \A u \in Callers \ {t} : ReadsOwnWrite(u)'
    BY <1>o, <2>1, <2>3
  <2> QED BY <1>0, <1>h, <2>1, <2>2, <2>3, <2>4, <2>5, <2>6, OneCallerMoves
<1>b. ASSUME NEW t \in Callers, call[t] # Idle
      PROVE  /\ call[t] \in Busy /\ call[t].agent \in Agents /\ call[t].at \in Nat
             /\ call[t].seen.agent \in held \cup {Nobody}
  <2>1. call[t] \in Busy
    BY <1>0, <1>b, RouteShapes
  <2> QED BY <1>b, <1>r, <2>1 DEF Busy, SeesHeld, WasHeld
<1>5. ASSUME NEW t \in Callers, WriteRoute(t) PROVE RouteInv'
  <2>1. Returns(t) /\ UNCHANGED <<time, calls>> /\ call[t].step = "read"
    BY <1>5 DEF WriteRoute
  <2>2. call[t] # Idle
    BY <1>0, <2>1, RouteShapes
  <2>3. call[t].agent \in Agents /\ call[t].at \in Nat /\ call[t].seen.agent \in held \cup {Nobody}
    BY <1>b, <2>2
  <2>4. CASE Stale(call[t])
    <3>1. audit' = audit \cup {StaleRow(call[t])} /\ UNCHANGED <<route, setBy, held>>
      BY <1>5, <2>4 DEF WriteRoute
    <3>2. StaleRow(call[t]) \in AuditRows /\ StaleRow(call[t]).prev \in held \cup {Nobody}
      BY <1>0, <2>3 DEF StaleRow, AuditRows
    <3>3. \A u \in Callers \ {t} : ReadsOwnWrite(u)'
      BY <1>o, <2>1, <3>1 DEF Returns
    <3> QED BY <1>0, <1>h, <2>1, <3>1, <3>2, <3>3, ReturnsKeeps
  <2>5. CASE ~Stale(call[t])
    <3> DEFINE row == [agent |-> call[t].agent, at |-> call[t].at]
               note == [prev |-> call[t].seen.agent, new |-> call[t].agent, at |-> call[t].at]
    <3>1. /\ route' = row /\ audit' = audit \cup {note}
          /\ setBy' = ProcessOf[t] /\ held' = held \cup {call[t].agent}
      BY <1>5, <2>5 DEF WriteRoute
    <3>2. row \in Rows /\ row.agent = call[t].agent /\ note \in AuditRows
          /\ note.prev = call[t].seen.agent
      BY <1>0, <2>3 DEF Rows, AuditRows
    <3> HIDE DEF row, note
    <3>3. /\ route' \in Rows /\ audit' \subseteq AuditRows /\ held' \subseteq Agents
          /\ held \subseteq held' /\ route'.agent \in held' \cup {Nobody}
      BY <1>0, <2>3, <3>1, <3>2
    <3>4. \A r \in audit' : r.prev \in held' \cup {Nobody}
      BY <1>h, <2>3, <3>1, <3>2
    <3>5. \A u \in Callers \ {t} : call'[u] = call[u]
      BY <1>0, <2>1 DEF Returns
    <3>6. ASSUME NEW u \in Callers \ {t} PROVE ReadsOwnWrite(u)'
      <4>1. ~(call[u].step = "read" /\ ProcessOf[u] = ProcessOf[t])
        BY <2>1 DEF RouteInv, OneHolder, Holds
      <4> QED BY <3>1, <3>5, <4>1 DEF ReadsOwnWrite
    <3> QED BY <2>1, <3>3, <3>4, <3>6, ReturnsKeeps
  <2> QED BY <2>4, <2>5
<1>d. ASSUME NEW t \in Callers, NEW at \in Nat, Returns(t), call[t] # Idle,
             route' = None \/ route' = route,
             audit' = audit \cup {[prev |-> call[t].seen.agent, new |-> Nobody, at |-> at]},
             UNCHANGED <<time, calls, setBy, held>>
      PROVE  RouteInv'
  <2> DEFINE note == [prev |-> call[t].seen.agent, new |-> Nobody, at |-> at]
  <2>1. note \in AuditRows /\ note.prev \in held \cup {Nobody}
    BY <1>0, <1>b, <1>d DEF AuditRows
  <2>2. audit' = audit \cup {note}
    BY <1>d
  <2> HIDE DEF note
  <2>3. \A u \in Callers \ {t} : call'[u] = call[u]
    BY <1>0, <1>d DEF Returns
  <2>4. \A u \in Callers \ {t} : ReadsOwnWrite(u)'
    BY <1>d, <1>r, <2>3 DEF ReadsOwnWrite
  <2>5. route' \in Rows /\ route'.agent \in held' \cup {Nobody}
    BY <1>0, <1>d, <1>h, <1>n
  <2>6. audit' \subseteq AuditRows /\ \A r \in audit' : r.prev \in held' \cup {Nobody}
    BY <1>0, <1>d, <1>h, <2>1, <2>2
  <2> QED BY <1>0, <1>d, <2>4, <2>5, <2>6, ReturnsKeeps
<1>6. ASSUME NEW t \in Callers, WriteClear(t) PROVE RouteInv'
  <2>1. call[t].step = "read"
    BY <1>6 DEF WriteClear
  <2>2. call[t] # Idle
    BY <1>0, <2>1, RouteShapes
  <2>3. call[t].at \in Nat
    BY <1>b, <2>2
  <2> QED BY <1>6, <1>d, <2>2, <2>3 DEF WriteClear
<1>7. ASSUME NEW t \in Callers, BulkDelete(t) PROVE RouteInv'
  <2>1. call[t].step = "listed"
    BY <1>7 DEF BulkDelete
  <2>2. call[t] # Idle
    BY <1>0, <2>1, RouteShapes
  <2>3. call[t].at \in Nat
    BY <1>b, <2>2
  <2>4. PICK at \in call[t].at .. time :
          audit' = audit \cup {[prev |-> call[t].seen.agent, new |-> Nobody, at |-> at]}
    BY <1>7 DEF BulkDelete
  <2>5. at \in Nat
    BY <1>0, <2>3
  <2>6. Returns(t) /\ route' = None /\ UNCHANGED <<time, calls, setBy, held>>
    BY <1>7 DEF BulkDelete
  <2> QED BY <1>d, <2>2, <2>4, <2>5, <2>6
<1>8. ASSUME NEW t \in Callers, Abandon(t) PROVE RouteInv'
  <2>1. Returns(t) /\ UNCHANGED <<route, audit, time, calls, setBy, held>>
    BY <1>8 DEF Abandon
  <2>2. \A u \in Callers \ {t} : ReadsOwnWrite(u)'
    BY <1>o, <2>1 DEF Returns
  <2> QED BY <1>0, <1>h, <2>1, <2>2, ReturnsKeeps
<1>s. ASSUME UNCHANGED <<audit, call, calls, setBy, held>>, time' \in Nat,
             route' = None \/ route' = route
      PROVE  RouteInv'
  <2>1. RouteTypeOK'
    BY <1>0, <1>n, <1>s DEF RouteTypeOK
  <2>2. OneHolder'
    BY <1>s DEF RouteInv, OneHolder, Holds
  <2>3. WasHeld(route.agent)' /\ \A r \in audit' : WasHeld(r.prev)'
    BY <1>h, <1>n, <1>s DEF WasHeld
  <2>4. \A t \in Callers : ReadsOwnWrite(t)'
    BY <1>r, <1>s DEF ReadsOwnWrite
  <2>5. \A t \in Callers : SeesHeld(t)'
    BY <1>r, <1>s DEF SeesHeld, WasHeld
  <2> QED BY <2>1, <2>2, <2>3, <2>4, <2>5 DEF RouteInv
<1>9. ASSUME NEW t \in Callers, GcExpired(t) PROVE RouteInv'
  BY <1>0, <1>9, <1>s DEF GcExpired
<1>10. CASE TimePasses
  BY <1>0, <1>10, <1>s DEF TimePasses
<1>11. CASE UNCHANGED routeVars
  BY <1>0, <1>11, <1>s DEF routeVars
<1> QED BY <1>1, <1>2, <1>3, <1>4, <1>5, <1>6, <1>7, <1>8, <1>9, <1>10, <1>11 DEF RouteNext

-----------------------------------------------------------------------------
LEMMA RouteInvariance == RouteSpec => []RouteInv
<1>1. RouteInv /\ [RouteNext]_routeVars => RouteInv'
  BY RouteStep
<1> QED BY RouteInitially, <1>1, PTL DEF RouteSpec

\* The state keeps its shapes.
THEOREM RouteTypeCorrect == RouteSpec => []RouteTypeOK
<1>1. RouteInv => RouteTypeOK
  BY DEF RouteInv
<1> QED BY RouteInvariance, <1>1, PTL

\* A rollback, whatever ran between the failure and the query, and whatever
\* switches the audit holds that never happened, binds the chat to an agent
\* that it has been bound to.
THEOREM RollbackIsSafe == RouteSpec => []RollsBackToHeld
<1>1. RouteInv => RollsBackToHeld
  BY DEF RouteInv, SeesHeld, RollsBackToHeld
<1> QED BY RouteInvariance, <1>1, PTL

\* Only a writer of another process can replace a newer binding by an older one.
THEOREM LastWriterWins == RouteSpec => NewestWins
<1>1. ASSUME RouteInv, [RouteNext]_routeVars
      PROVE  [route # None /\ route' # None /\ route'.at < route.at => setBy' # setBy]_routeVars
  <2> SUFFICES ASSUME RouteNext, route # None, route' # None, route'.at < route.at
               PROVE  setBy' # setBy
    BY <1>1
  <2>1. route \in Rows /\ ~(route.at < route.at)
    BY <1>1 DEF RouteInv, RouteTypeOK, Rows
  <2>2. route' # route
    BY <2>1
  <2>3. PICK t \in Callers : WriteRoute(t)
    BY <2>2 DEF RouteNext, Call, ListMatching, LookUp, ReadRoute, WriteClear, BulkDelete,
                Abandon, GcExpired, TimePasses
  <2>4. /\ call[t].step = "read" /\ ~Stale(call[t]) /\ setBy' = ProcessOf[t]
        /\ route'.at = call[t].at
    BY <2>2, <2>3 DEF WriteRoute
  <2>5. setBy = ProcessOf[t] => call[t].seen = route
    BY <1>1, <2>4 DEF RouteInv, ReadsOwnWrite
  <2> QED BY <2>4, <2>5 DEF Stale
<1> QED BY RouteInvariance, <1>1, PTL DEF RouteSpec, NewestWins

-----------------------------------------------------------------------------
(* Part 2: the bus and the sending of replies (Outbound)                    *)

(* The inductive invariant: what a chat may still get and what it has got   *)
(* beyond its rate are together within the burst; what is queued or in hand *)
(* is what waits, in the order in which its sender put it.                  *)

Budget == \A c \in Chats : excess[c] + tokens[c] <= Full

Caring == loop \in {"delayed", "sending"}

InOrder ==
  /\ \A i, j \in DOMAIN outbox :
       i < j /\ outbox[i].sender = outbox[j].sender => outbox[i].n < outbox[j].n
  /\ Caring => \A j \in DOMAIN outbox :
       outbox[j].sender = hand.sender => hand.n < outbox[j].n

IsQueued(t, n) == \E i \in DOMAIN outbox : outbox[i].sender = t /\ outbox[i].n = n
IsHeld(t, n) == IsQueued(t, n) \/ (Caring /\ hand.sender = t /\ hand.n = n)

Fates ==
  \A t \in Senders, n \in 1 .. PerTurn :
    /\ fate[t][n] = "waiting" <=> IsHeld(t, n)
    /\ fate[t][n] = "unborn" <=> n > put[t]

OutInv == OutTypeOK /\ Budget /\ InOrder /\ Fates /\ TurnOrder

Fate == Settled \cup {"unborn", "waiting"}

-----------------------------------------------------------------------------
LEMMA FullIsNat == Full \in Nat
BY OutboundAssumption DEF Full

LEMMA BecomesIs ==
  ASSUME fate \in [Senders -> [1 .. PerTurn -> Fate]],
         NEW m \in Outgoing, NEW what \in Fate, Becomes(m, what)
  PROVE  /\ fate' \in [Senders -> [1 .. PerTurn -> Fate]]
         /\ fate'[m.sender][m.n] = what
         /\ \A t \in Senders, n \in 1 .. PerTurn :
              t # m.sender \/ n # m.n => fate'[t][n] = fate[t][n]
<1>1. m.sender \in Senders /\ m.n \in 1 .. PerTurn
  BY DEF Outgoing
<1>2. fate' = [fate EXCEPT ![m.sender] = [fate[m.sender] EXCEPT ![m.n] = what]]
  BY DEF Becomes
<1> DEFINE row == [fate[m.sender] EXCEPT ![m.n] = what]
<1>3. row \in [1 .. PerTurn -> Fate] /\ row[m.n] = what
      /\ \A n \in 1 .. PerTurn : n # m.n => row[n] = fate[m.sender][n]
  BY <1>1
<1>4. fate' = [fate EXCEPT ![m.sender] = row]
  BY <1>2
<1> HIDE DEF row
<1> QED BY <1>1, <1>3, <1>4

LEMMA TailIs ==
  ASSUME NEW q \in Seq(Outgoing), q # << >>
  PROVE  /\ Head(q) \in Outgoing /\ Head(q) = q[1] /\ 1 \in DOMAIN q
         /\ Tail(q) \in Seq(Outgoing)
         /\ \A i \in DOMAIN Tail(q) : i + 1 \in DOMAIN q /\ Tail(q)[i] = q[i + 1] /\ i + 1 > 1
         /\ \A i \in DOMAIN q : i # 1 => i - 1 \in DOMAIN Tail(q) /\ Tail(q)[i - 1] = q[i]
OBVIOUS

LEMMA AppendIs ==
  ASSUME NEW q \in Seq(Outgoing), NEW m \in Outgoing
  PROVE  /\ Append(q, m) \in Seq(Outgoing)
         /\ \A i \in DOMAIN q : i \in DOMAIN Append(q, m) /\ Append(q, m)[i] = q[i] /\ i < Len(q) + 1
         /\ Len(q) + 1 \in DOMAIN Append(q, m) /\ Append(q, m)[Len(q) + 1] = m
         /\ \A i \in DOMAIN Append(q, m) : i \in DOMAIN q \/ i = Len(q) + 1
         /\ DOMAIN q \subseteq Nat /\ Len(q) \in Nat
OBVIOUS

\* What is queued is a message.
LEMMA HeldIsOutgoing ==
  ASSUME OutTypeOK
  PROVE  /\ \A i \in DOMAIN outbox : outbox[i] \in Outgoing /\ i \in Nat
         /\ Caring => hand \in Outgoing
<1>1. \A i \in DOMAIN outbox : outbox[i] \in Outgoing /\ i \in Nat
  BY DEF OutTypeOK
<1>2. Caring => hand # NoMessage
  BY DEF OutTypeOK, Caring
<1> QED BY <1>1, <1>2 DEF OutTypeOK

-----------------------------------------------------------------------------
LEMMA OutInitially == OutInit => OutInv
<1> SUFFICES ASSUME OutInit PROVE OutInv
  OBVIOUS
<1>1. OutTypeOK
  <2>1. Full \in Nat /\ NoMessage \notin Outgoing
    BY FullIsNat, OutboundAssumption DEF Outgoing
  <2>2. PerTurn \in Nat
    BY OutboundAssumption
  <2> QED BY <2>1, <2>2 DEF OutInit, OutTypeOK, Settled
<1>2. Budget
  BY FullIsNat DEF OutInit, Budget
<1>3. InOrder
  BY DEF OutInit, InOrder, Caring
<1>4. \A t \in Senders, n \in 1 .. PerTurn : fate[t][n] = "unborn" /\ n > put[t] /\ ~IsHeld(t, n)
  BY OutboundAssumption DEF OutInit, IsHeld, IsQueued, Caring
<1>5. Fates /\ TurnOrder
  BY <1>4 DEF Fates, TurnOrder, Settled
<1> QED BY <1>1, <1>2, <1>3, <1>5 DEF OutInv

\* A step keeps the shapes, ...
LEMMA TypeNext ==
  ASSUME OutTypeOK, [OutNext]_outVars
  PROVE  OutTypeOK'
<1> USE DEF Fate
<1>0. /\ outbox \in Seq(Outgoing) /\ hand \in Outgoing \cup {NoMessage}
      /\ put \in [Senders -> 0 .. PerTurn] /\ tokens \in [Chats -> Nat]
      /\ quiet \in [Chats -> Nat] /\ fate \in [Senders -> [1 .. PerTurn -> Fate]]
      /\ excess \in [Chats -> Nat] /\ NoMessage \notin Outgoing
      /\ (loop \in {"delayed", "sending", "noticing"} <=> hand # NoMessage)
      /\ loop \in {"idle", "delayed", "sending", "noticing", "stopped"}
  BY OutboundAssumption DEF OutTypeOK, Outgoing
<1>a. Cost \in Nat \ {0} /\ Rate \in Nat \ {0} /\ PerTurn \in Nat /\ Cooldown \in Nat
  BY OutboundAssumption
<1>b. "unknown" \in Fate /\ "sent" \in Fate /\ "failed" \in Fate /\ "dropped" \in Fate
      /\ "lost" \in Fate /\ "waiting" \in Fate
  BY DEF Settled
<1>t. ASSUME Ready PROVE /\ Taken(outbox) \in Seq(Outgoing) /\ Head(outbox) \in Outgoing
                        /\ Head(outbox).chat \in Chats /\ hand = NoMessage
  BY <1>0, <1>t, TailIs DEF Ready, Taken, Outgoing
<1>c. ASSUME NEW c \in Chats, Acquire(c), tokens[c] >= Cost
      PROVE  tokens' \in [Chats -> Nat] /\ excess' \in [Chats -> Nat]
  BY <1>0, <1>a, <1>c DEF Acquire
<1>1. ASSUME NEW t \in Senders, NEW c \in Chats, Publish(t, c) PROVE OutTypeOK'
  <2> DEFINE m == [sender |-> t, n |-> put[t] + 1, chat |-> c]
  <2>1. m \in Outgoing
    BY <1>0, <1>1, <1>a DEF Publish, Outgoing
  <2>2. outbox' = Append(outbox, m) /\ Becomes(m, "waiting")
    BY <1>1 DEF Publish
  <2> HIDE DEF m
  <2>3. outbox' \in Seq(Outgoing)
    BY <1>0, <2>1, <2>2
  <2>4. fate' \in [Senders -> [1 .. PerTurn -> Fate]]
    BY <1>0, <1>b, <2>1, <2>2, BecomesIs
  <2>5. put' \in [Senders -> 0 .. PerTurn]
    BY <1>0, <1>1, <1>a DEF Publish
  <2> QED BY <1>0, <1>1, <2>3, <2>4, <2>5 DEF OutTypeOK, Publish
<1>2. CASE TakeUnknown
  <2>1. fate' \in [Senders -> [1 .. PerTurn -> Fate]]
    BY <1>0, <1>2, <1>b, <1>t, BecomesIs DEF TakeUnknown
  <2> QED BY <1>0, <1>2, <1>t, <2>1 DEF OutTypeOK, TakeUnknown
<1>3. CASE TakeAndSend
  <2>1. Ready
    BY <1>3 DEF TakeAndSend, Takes
  <2>2. tokens' \in [Chats -> Nat] /\ excess' \in [Chats -> Nat]
    BY <1>3, <1>c, <1>t, <2>1 DEF TakeAndSend
  <2> QED BY <1>0, <1>3, <1>t, <2>1, <2>2 DEF OutTypeOK, TakeAndSend, Takes
<1>4. CASE TakeAndWait
  BY <1>0, <1>4, <1>t DEF OutTypeOK, TakeAndWait, Takes
<1>5. CASE TakeAndDrop
  <2>1. fate' \in [Senders -> [1 .. PerTurn -> Fate]]
    BY <1>0, <1>5, <1>b, <1>t, BecomesIs DEF TakeAndDrop
  <2>2. quiet' \in [Chats -> Nat]
    BY <1>0, <1>5, <1>a DEF TakeAndDrop
  <2>3. /\ hand' \in Outgoing \cup {NoMessage}
        /\ loop' \in {"delayed", "sending", "noticing"} <=> hand' # NoMessage
        /\ loop' \in {"idle", "noticing"}
    BY <1>0, <1>5, <1>t DEF TakeAndDrop, Ready
  <2> QED BY <1>0, <1>5, <1>t, <2>1, <2>2, <2>3 DEF OutTypeOK, TakeAndDrop
<1>6. CASE Retry
  <2>1. hand.chat \in Chats
    BY <1>0, <1>6 DEF Retry, Outgoing
  <2>2. tokens' \in [Chats -> Nat] /\ excess' \in [Chats -> Nat]
    BY <1>6, <1>c, <2>1 DEF Retry
  <2> QED BY <1>0, <1>6, <2>2 DEF OutTypeOK, Retry
<1>7. CASE SendEnds
  <2>1. fate' \in [Senders -> [1 .. PerTurn -> Fate]]
    BY <1>0, <1>7, <1>b, BecomesIs DEF SendEnds, SendReturns, SendRaises
  <2> QED BY <1>0, <1>7, <2>1 DEF OutTypeOK, SendEnds, SendReturns, SendRaises
<1>8. CASE NoticeEnds
  BY <1>0, <1>8 DEF OutTypeOK, NoticeEnds
<1>9. CASE StopAll
  <2>1. fate' \in [Senders -> [1 .. PerTurn -> Fate]]
    BY <1>0, <1>9, <1>b, BecomesIs DEF StopAll
  <2> QED BY <1>0, <1>9, <2>1 DEF OutTypeOK, StopAll
<1>10. CASE ClockTicks
  <2>1. tokens' \in [Chats -> Nat]
    BY <1>0, <1>10, <1>a, FullIsNat DEF ClockTicks, Refilled
  <2>2. quiet' \in [Chats -> Nat] /\ excess' \in [Chats -> Nat]
    BY <1>0, <1>10, <1>a DEF ClockTicks
  <2> QED BY <1>0, <1>10, <2>1, <2>2 DEF OutTypeOK, ClockTicks
<1>11. CASE UNCHANGED outVars
  BY <1>0, <1>11 DEF OutTypeOK, outVars
<1> QED BY <1>1, <1>2, <1>3, <1>4, <1>5, <1>6, <1>7, <1>8, <1>9, <1>10, <1>11 DEF OutNext, Take

\* ... the budget ...
LEMMA BudgetNext ==
  ASSUME OutTypeOK, Budget, [OutNext]_outVars
  PROVE  Budget'
<1>0. tokens \in [Chats -> Nat] /\ excess \in [Chats -> Nat] /\ Full \in Nat
      /\ Cost \in Nat /\ Rate \in Nat
  BY FullIsNat, OutboundAssumption DEF OutTypeOK
<1>1. ASSUME NEW c \in Chats, Acquire(c) PROVE Budget'
  <2>1. \A d \in Chats : /\ tokens'[d] = IF d = c THEN tokens[c] - Cost ELSE tokens[d]
                         /\ excess'[d] = IF d = c THEN excess[c] + Cost ELSE excess[d]
    BY <1>0, <1>1 DEF Acquire
  <2>2. \A d \in Chats : excess'[d] + tokens'[d] = excess[d] + tokens[d]
    BY <1>0, <2>1
  <2> QED BY <2>2 DEF Budget
<1>2. CASE TakeAndSend
  <2>1. Head(outbox).chat \in Chats
    BY <1>2, TailIs DEF TakeAndSend, Takes, Ready, OutTypeOK, Outgoing
  <2> QED BY <1>1, <1>2, <2>1 DEF TakeAndSend
<1>3. CASE Retry
  <2>1. hand.chat \in Chats
    BY <1>3, HeldIsOutgoing DEF Retry, Caring, Outgoing
  <2> QED BY <1>1, <1>3, <2>1 DEF Retry
<1>4. CASE ClockTicks
  <2> SUFFICES ASSUME NEW c \in Chats PROVE excess'[c] + tokens'[c] <= Full
    BY DEF Budget
  <2>1. /\ tokens'[c] = IF tokens[c] + Rate < Full THEN tokens[c] + Rate ELSE Full
        /\ excess'[c] = IF excess[c] > Rate THEN excess[c] - Rate ELSE 0
    BY <1>4 DEF ClockTicks, Refilled
  <2>2. tokens[c] \in Nat /\ excess[c] \in Nat /\ excess[c] + tokens[c] <= Full
    BY <1>0 DEF Budget
  <2> QED BY <1>0, <2>1, <2>2
<1>5. ASSUME UNCHANGED <<tokens, excess>> PROVE Budget'
  BY <1>5 DEF Budget
<1> QED BY <1>2, <1>3, <1>4, <1>5 DEF OutNext, outVars, Publish, Take, TakeUnknown,
       TakeAndWait, TakeAndDrop, SendEnds, SendReturns, SendRaises, NoticeEnds, StopAll

\* ... and the order of what waits.
LEMMA CareNext ==
  ASSUME OutInv, OutTypeOK', [OutNext]_outVars
  PROVE  InOrder' /\ Fates' /\ TurnOrder'
<1>0. /\ outbox \in Seq(Outgoing) /\ put \in [Senders -> 0 .. PerTurn] /\ PerTurn \in Nat
      /\ fate \in [Senders -> [1 .. PerTurn -> Fate]]
      /\ \A i \in DOMAIN outbox : outbox[i] \in Outgoing /\ i \in Nat
      /\ Caring => hand \in Outgoing
  BY OutboundAssumption, HeldIsOutgoing DEF OutInv, OutTypeOK, Fate
<1>f. \A t \in Senders, n \in 1 .. PerTurn :
        /\ fate[t][n] = "waiting" <=> IsHeld(t, n)
        /\ fate[t][n] = "unborn" <=> n > put[t]
        /\ fate[t][n] \in Fate
  BY <1>0 DEF OutInv, Fates
<1>u. \A t \in Senders : \A i, j \in 1 .. PerTurn :
        i < j /\ fate[t][j] \in Settled => fate[t][i] \in Settled
  BY DEF OutInv, TurnOrder
<1>s. \A f \in Fate : f \in Settled <=> f # "unborn" /\ f # "waiting"
  BY DEF Fate, Settled
\* A message that has nothing of its sender before it may be settled.
<1>m. ASSUME NEW m \in Outgoing, NEW what \in Settled, Becomes(m, what), IsHeld(m.sender, m.n),
             UNCHANGED put,
             \A n \in 1 .. PerTurn : IsHeld(m.sender, n) => m.n <= n,
             \A t \in Senders, n \in 1 .. PerTurn :
               IsHeld(t, n)' <=> IsHeld(t, n) /\ (t # m.sender \/ n # m.n)
      PROVE  Fates' /\ TurnOrder'
  <2>1. what \in Fate /\ what # "unborn" /\ what # "waiting"
    BY <1>s DEF Fate, Settled
  <2>2. /\ m.sender \in Senders /\ m.n \in 1 .. PerTurn
        /\ fate'[m.sender][m.n] = what
        /\ \A t \in Senders, n \in 1 .. PerTurn :
             t # m.sender \/ n # m.n => fate'[t][n] = fate[t][n]
    BY <1>0, <1>m, <2>1, BecomesIs DEF Outgoing
  <2>3. fate[m.sender][m.n] = "waiting" /\ ~(m.n > put[m.sender])
    BY <1>f, <1>m, <2>2
  <2>4. Fates'
    <3> SUFFICES ASSUME NEW t \in Senders, NEW n \in 1 .. PerTurn
                 PROVE  /\ fate'[t][n] = "waiting" <=> IsHeld(t, n)'
                        /\ fate'[t][n] = "unborn" <=> n > put'[t]
      BY DEF Fates
    <3>1. CASE t = m.sender /\ n = m.n
      BY <1>m, <2>1, <2>2, <2>3, <3>1
    <3>2. CASE t # m.sender \/ n # m.n
      BY <1>f, <1>m, <2>2, <3>2
    <3> QED BY <3>1, <3>2
  <2>5. TurnOrder'
    <3> SUFFICES ASSUME NEW t \in Senders, NEW i \in 1 .. PerTurn, NEW j \in 1 .. PerTurn,
                        i < j, fate'[t][j] \in Settled
                 PROVE  fate'[t][i] \in Settled
      BY DEF TurnOrder
    <3>1. CASE t = m.sender /\ i = m.n
      BY <2>2, <3>1
    <3>2. CASE (t # m.sender \/ i # m.n) /\ (t # m.sender \/ j # m.n)
      BY <1>u, <2>2, <3>2
    <3>3. CASE t = m.sender /\ j = m.n /\ i # m.n
      <4>1. ~IsHeld(t, i)
        BY <1>0, <1>m, <2>2, <3>3 DEF Outgoing
      <4>2. ~(i > put[t])
        <5>1. put[t] \in 0 .. PerTurn
          BY <1>0
        <5> QED BY <1>0, <2>2, <2>3, <3>3, <5>1
      <4>3. fate[t][i] \in Settled
        BY <1>f, <1>s, <4>1, <4>2
      <4> QED BY <2>2, <3>3, <4>3
    <3> QED BY <3>1, <3>2, <3>3
  <2> QED BY <2>4, <2>5
\* The queue and the hand stay as they are.
<1>k. ASSUME UNCHANGED <<outbox, put, fate>>, Caring' <=> Caring, Caring => hand' = hand
      PROVE  InOrder' /\ Fates' /\ TurnOrder'
  <2>1. InOrder'
    BY <1>k DEF OutInv, InOrder
  <2>2. \A t \in Senders, n \in 1 .. PerTurn : IsHeld(t, n)' <=> IsHeld(t, n)
    BY <1>k DEF IsHeld, IsQueued
  <2>3. Fates' /\ TurnOrder'
    BY <1>k, <2>2 DEF OutInv, Fates, TurnOrder
  <2> QED BY <2>1, <2>3
\* A message joins the queue.
<1>1. ASSUME NEW t \in Senders, NEW c \in Chats, Publish(t, c)
      PROVE  InOrder' /\ Fates' /\ TurnOrder'
  <2> DEFINE m == [sender |-> t, n |-> put[t] + 1, chat |-> c]
  <2>1. m \in Outgoing /\ m.sender = t /\ m.n = put[t] + 1 /\ put[t] \in Nat
    BY <1>0, <1>1 DEF Publish, Outgoing
  <2>2. /\ outbox' = Append(outbox, m) /\ Becomes(m, "waiting")
        /\ UNCHANGED <<hand, loop>> /\ put' = [put EXCEPT ![t] = put[t] + 1]
    BY <1>1 DEF Publish
  <2> HIDE DEF m
  <2>3. /\ fate'[t][m.n] = "waiting" /\ m.n \in 1 .. PerTurn
        /\ \A u \in Senders, n \in 1 .. PerTurn :
             u # t \/ n # m.n => fate'[u][n] = fate[u][n]
    <3>1. "waiting" \in Fate
      BY DEF Fate
    <3> QED BY <1>0, <2>1, <2>2, <3>1, BecomesIs DEF Outgoing
  <2>4. \A u \in Senders, n \in 1 .. PerTurn : IsHeld(u, n) => n <= put[u]
    <3> SUFFICES ASSUME NEW u \in Senders, NEW n \in 1 .. PerTurn, IsHeld(u, n) PROVE n <= put[u]
      OBVIOUS
    <3>1. fate[u][n] = "waiting"
      BY <1>f
    <3>2. ~(n > put[u])
      BY <1>f, <3>1
    <3>3. put[u] \in 0 .. PerTurn
      BY <1>0
    <3> QED BY <1>0, <3>2, <3>3
  <2>5. \A u \in Senders, n \in 1 .. PerTurn :
          IsHeld(u, n)' <=> IsHeld(u, n) \/ (u = t /\ n = m.n)
    BY <1>0, <2>1, <2>2, AppendIs DEF IsHeld, IsQueued, Caring
  <2>6. \A i \in DOMAIN outbox : outbox[i].sender = t => outbox[i].n < m.n
    <3> SUFFICES ASSUME NEW i \in DOMAIN outbox, outbox[i].sender = t PROVE outbox[i].n < m.n
      OBVIOUS
    <3>1. outbox[i].n \in 1 .. PerTurn
      BY <1>0 DEF Outgoing
    <3>2. IsHeld(t, outbox[i].n)
      BY DEF IsHeld, IsQueued
    <3> QED BY <1>0, <2>1, <2>4, <3>1, <3>2
  <2>7. Caring /\ hand.sender = t => hand.n < m.n
    <3> SUFFICES ASSUME Caring, hand.sender = t PROVE hand.n < m.n
      OBVIOUS
    <3>1. hand.n \in 1 .. PerTurn
      BY <1>0 DEF Outgoing
    <3>2. IsHeld(t, hand.n)
      BY DEF IsHeld
    <3> QED BY <1>0, <2>1, <2>4, <3>1, <3>2
  <2>8. InOrder'
    <3>1. \A i, j \in DOMAIN outbox' :
            i < j /\ outbox'[i].sender = outbox'[j].sender => outbox'[i].n < outbox'[j].n
      <4> SUFFICES ASSUME NEW i \in DOMAIN outbox', NEW j \in DOMAIN outbox',
                          i < j, outbox'[i].sender = outbox'[j].sender
                   PROVE  outbox'[i].n < outbox'[j].n
        OBVIOUS
      <4>1. i \in DOMAIN outbox /\ outbox'[i] = outbox[i]
        BY <1>0, <2>1, <2>2, AppendIs
      <4>2. CASE j \in DOMAIN outbox
        <5>1. outbox'[j] = outbox[j]
          BY <1>0, <2>1, <2>2, <4>2, AppendIs
        <5> QED BY <4>1, <4>2, <5>1 DEF OutInv, InOrder
      <4>3. CASE j = Len(outbox) + 1
        <5>1. outbox'[j] = m
          BY <1>0, <2>1, <2>2, <4>3, AppendIs
        <5> QED BY <2>1, <2>6, <4>1, <5>1
      <4> QED BY <1>0, <2>1, <2>2, <4>2, <4>3, AppendIs
    <3>2. ASSUME Caring', NEW j \in DOMAIN outbox', outbox'[j].sender = hand'.sender
          PROVE  hand'.n < outbox'[j].n
      <4>1. Caring /\ hand' = hand
        BY <2>2, <3>2 DEF Caring
      <4>2. CASE j \in DOMAIN outbox
        <5>1. outbox'[j] = outbox[j]
          BY <1>0, <2>1, <2>2, <4>2, AppendIs
        <5> QED BY <3>2, <4>1, <4>2, <5>1 DEF OutInv, InOrder
      <4>3. CASE j = Len(outbox) + 1
        <5>1. outbox'[j] = m
          BY <1>0, <2>1, <2>2, <4>3, AppendIs
        <5> QED BY <2>1, <2>7, <3>2, <4>1, <5>1
      <4> QED BY <1>0, <2>1, <2>2, <4>2, <4>3, AppendIs
    <3> QED BY <3>1, <3>2 DEF InOrder
  <2>9. Fates'
    <3> SUFFICES ASSUME NEW u \in Senders, NEW n \in 1 .. PerTurn
                 PROVE  /\ fate'[u][n] = "waiting" <=> IsHeld(u, n)'
                        /\ fate'[u][n] = "unborn" <=> n > put'[u]
      BY DEF Fates
    <3>0. put'[u] = IF u = t THEN put[t] + 1 ELSE put[u]
      BY <1>0, <2>2
    <3>1. CASE u = t /\ n = m.n
      BY <2>1, <2>3, <2>5, <3>0, <3>1
    <3>2. CASE u # t \/ n # m.n
      <4>1. fate'[u][n] = fate[u][n]
        BY <2>3, <3>2
      <4>2. n > put'[u] <=> n > put[u]
        BY <2>1, <3>0, <3>2
      <4> QED BY <1>f, <2>5, <3>2, <4>1, <4>2
    <3> QED BY <3>1, <3>2
  <2>10. TurnOrder'
    <3> SUFFICES ASSUME NEW u \in Senders, NEW i \in 1 .. PerTurn, NEW j \in 1 .. PerTurn,
                        i < j, fate'[u][j] \in Settled
                 PROVE  fate'[u][i] \in Settled
      BY DEF TurnOrder
    <3>1. "waiting" \notin Settled
      BY DEF Settled
    <3>2. u # t \/ j # m.n
      BY <2>3, <3>1
    <3>3. fate[u][j] \in Settled
      BY <2>3, <3>2
    <3>4. fate[u][i] \in Settled
      BY <1>u, <3>3
    <3>5. u # t \/ i # m.n
      <4>1. fate[t][m.n] = "unborn"
        BY <1>f, <2>1, <2>3
      <4>2. "unborn" \notin Settled
        BY DEF Settled
      <4> QED BY <3>4, <4>1, <4>2
    <3> QED BY <2>3, <3>4, <3>5
  <2> QED BY <2>8, <2>9, <2>10
\* The head of the queue is taken.
<1>h. ASSUME Ready, outbox' = Taken(outbox)
      PROVE  /\ Head(outbox) \in Outgoing /\ Head(outbox) = outbox[1] /\ 1 \in DOMAIN outbox
             /\ \A i \in DOMAIN outbox' : i + 1 \in DOMAIN outbox /\ outbox'[i] = outbox[i + 1]
             /\ \A i \in DOMAIN outbox : i # 1 => i - 1 \in DOMAIN outbox' /\ outbox'[i - 1] = outbox[i]
             /\ \A i, j \in DOMAIN outbox' :
                  i < j /\ outbox'[i].sender = outbox'[j].sender => outbox'[i].n < outbox'[j].n
             /\ \A j \in DOMAIN outbox' :
                  outbox'[j].sender = Head(outbox).sender => Head(outbox).n < outbox'[j].n
             /\ ~Caring
  <2>1. /\ Head(outbox) \in Outgoing /\ Head(outbox) = outbox[1] /\ 1 \in DOMAIN outbox
        /\ \A i \in DOMAIN outbox' :
             i + 1 \in DOMAIN outbox /\ outbox'[i] = outbox[i + 1] /\ i \in Nat /\ i + 1 > 1
        /\ \A i \in DOMAIN outbox : i # 1 => i - 1 \in DOMAIN outbox' /\ outbox'[i - 1] = outbox[i]
    <3>1. outbox' \in Seq(Outgoing)
      BY DEF OutTypeOK
    <3>2. \A i \in DOMAIN outbox' : i \in Nat
      BY <3>1
    <3> QED BY <1>0, <1>h, <3>2, TailIs DEF Ready, Taken
  <2>2. \A i, j \in DOMAIN outbox :
          i < j /\ outbox[i].sender = outbox[j].sender => outbox[i].n < outbox[j].n
    BY DEF OutInv, InOrder
  <2>3. \A i, j \in DOMAIN outbox' :
          i < j /\ outbox'[i].sender = outbox'[j].sender => outbox'[i].n < outbox'[j].n
    <3> SUFFICES ASSUME NEW i \in DOMAIN outbox', NEW j \in DOMAIN outbox', i < j,
                        outbox'[i].sender = outbox'[j].sender
                 PROVE  outbox'[i].n < outbox'[j].n
      OBVIOUS
    <3>1. i + 1 < j + 1
      BY <2>1
    <3> QED BY <2>1, <2>2, <3>1
  <2>4. \A j \in DOMAIN outbox' :
          outbox'[j].sender = Head(outbox).sender => Head(outbox).n < outbox'[j].n
    <3> SUFFICES ASSUME NEW j \in DOMAIN outbox', outbox'[j].sender = Head(outbox).sender
                 PROVE  Head(outbox).n < outbox'[j].n
      OBVIOUS
    <3>1. 1 < j + 1
      BY <2>1
    <3> QED BY <2>1, <2>2, <3>1
  <2>5. ~Caring
    BY <1>h DEF Ready, Caring
  <2> QED BY <2>1, <2>3, <2>4, <2>5
<1>q. ASSUME Ready, outbox' = Taken(outbox)
      PROVE  \A t \in Senders, n \in 1 .. PerTurn :
               /\ IsHeld(t, n) <=> IsQueued(t, n)' \/ (t = Head(outbox).sender /\ n = Head(outbox).n)
               /\ IsQueued(t, n)' => t # Head(outbox).sender \/ n # Head(outbox).n
  <2> SUFFICES ASSUME NEW t \in Senders, NEW n \in 1 .. PerTurn
               PROVE  /\ IsHeld(t, n) <=> IsQueued(t, n)' \/ (t = Head(outbox).sender /\ n = Head(outbox).n)
                      /\ IsQueued(t, n)' => t # Head(outbox).sender \/ n # Head(outbox).n
    OBVIOUS
  <2>1. IsHeld(t, n) <=> \E i \in DOMAIN outbox : outbox[i].sender = t /\ outbox[i].n = n
    BY <1>h, <1>q DEF IsHeld, IsQueued
  <2>2. IsQueued(t, n)' <=> \E i \in DOMAIN outbox' : outbox'[i].sender = t /\ outbox'[i].n = n
    BY DEF IsQueued
  <2>3. IsHeld(t, n) => IsQueued(t, n)' \/ (t = Head(outbox).sender /\ n = Head(outbox).n)
    BY <1>h, <1>q, <2>1, <2>2
  <2>4. IsQueued(t, n)' => IsHeld(t, n)
    BY <1>h, <1>q, <2>1, <2>2
  <2>5. t = Head(outbox).sender /\ n = Head(outbox).n => IsHeld(t, n)
    BY <1>h, <1>q, <2>1
  <2>6. ASSUME IsQueued(t, n)', t = Head(outbox).sender, n = Head(outbox).n PROVE FALSE
    BY <1>h, <1>q, <2>2, <2>6
  <2> QED BY <2>3, <2>4, <2>5, <2>6
<1>2. ASSUME Ready, outbox' = Taken(outbox), ~Caring', UNCHANGED put,
             NEW what \in Settled, Becomes(Head(outbox), what)
      PROVE  InOrder' /\ Fates' /\ TurnOrder'
  <2>0. PICK m : m = Head(outbox)
    OBVIOUS
  <2>1. m \in Outgoing /\ m.sender \in Senders /\ m.n \in 1 .. PerTurn
    BY <1>h, <1>2, <2>0 DEF Outgoing
  <2>2. InOrder'
    BY <1>h, <1>2 DEF InOrder
  <2>3. \A t \in Senders, n \in 1 .. PerTurn : IsHeld(t, n)' <=> IsQueued(t, n)'
    BY <1>2 DEF IsHeld
  <2>4. \A t \in Senders, n \in 1 .. PerTurn :
          IsHeld(t, n)' <=> IsHeld(t, n) /\ (t # m.sender \/ n # m.n)
    BY <1>q, <1>2, <2>0, <2>3
  <2>5. IsHeld(m.sender, m.n)
    BY <1>q, <1>2, <2>0, <2>1
  <2>6. ASSUME NEW n \in 1 .. PerTurn, IsHeld(m.sender, n) PROVE m.n <= n
    <3>1. CASE n = m.n
      BY <2>1, <3>1
    <3>2. CASE n # m.n
      <4>1. IsQueued(m.sender, n)'
        <5>1. IsHeld(m.sender, n) <=> IsQueued(m.sender, n)' \/ n = m.n
          BY <1>q, <1>2, <2>0, <2>1
        <5> QED BY <2>6, <3>2, <5>1
      <4>2. PICK j \in DOMAIN outbox' : outbox'[j].sender = m.sender /\ outbox'[j].n = n
        BY <4>1 DEF IsQueued
      <4>3. m.n < outbox'[j].n
        BY <1>h, <1>2, <2>0, <4>2
      <4> QED BY <2>1, <4>2, <4>3
    <3> QED BY <3>1, <3>2
  <2> QED BY <1>2, <1>m, <2>0, <2>1, <2>2, <2>4, <2>5, <2>6
<1>3. ASSUME Ready, outbox' = Taken(outbox), hand' = Head(outbox), Caring', UNCHANGED <<put, fate>>
      PROVE  InOrder' /\ Fates' /\ TurnOrder'
  <2>1. InOrder'
    BY <1>h, <1>3 DEF InOrder
  <2>2. \A t \in Senders, n \in 1 .. PerTurn : IsHeld(t, n)' <=> IsHeld(t, n)
    BY <1>q, <1>3 DEF IsHeld
  <2>3. Fates' /\ TurnOrder'
    BY <1>3, <2>2 DEF OutInv, Fates, TurnOrder
  <2> QED BY <2>1, <2>3
\* What is in hand is settled.
<1>4. ASSUME Caring, ~Caring', UNCHANGED <<outbox, put>>, NEW what \in Settled, Becomes(hand, what)
      PROVE  InOrder' /\ Fates' /\ TurnOrder'
  <2>1. hand \in Outgoing /\ hand.sender \in Senders /\ hand.n \in 1 .. PerTurn
    BY <1>0, <1>4 DEF Outgoing
  <2>2. \A j \in DOMAIN outbox : outbox[j].sender = hand.sender => hand.n < outbox[j].n
    BY <1>4 DEF OutInv, InOrder
  <2>3. InOrder'
    BY <1>4 DEF OutInv, InOrder
  <2>4. \A t \in Senders, n \in 1 .. PerTurn :
          /\ IsHeld(t, n)' <=> IsQueued(t, n)
          /\ IsQueued(t, n) => t # hand.sender \/ n # hand.n
    BY <1>4, <2>1, <2>2 DEF IsHeld, IsQueued
  <2>5. \A t \in Senders, n \in 1 .. PerTurn :
          IsHeld(t, n)' <=> IsHeld(t, n) /\ (t # hand.sender \/ n # hand.n)
    BY <1>4, <2>4 DEF IsHeld
  <2>6. IsHeld(hand.sender, hand.n)
    BY <1>4 DEF IsHeld
  <2>7. \A n \in 1 .. PerTurn : IsHeld(hand.sender, n) => hand.n <= n
    BY <2>1, <2>2 DEF IsHeld, IsQueued
  <2> QED BY <1>4, <1>m, <2>1, <2>3, <2>5, <2>6, <2>7
<1>v. "unknown" \in Settled /\ "dropped" \in Settled /\ "sent" \in Settled
      /\ "failed" \in Settled /\ "lost" \in Settled
  BY DEF Settled
<1>5. CASE TakeUnknown
  BY <1>2, <1>5, <1>v DEF TakeUnknown, Ready, Caring
<1>6. CASE TakeAndDrop
  BY <1>2, <1>6, <1>v DEF TakeAndDrop, Ready, Caring
<1>7. CASE TakeAndSend \/ TakeAndWait
  BY <1>3, <1>7 DEF TakeAndSend, TakeAndWait, Takes, Caring
<1>8. CASE Retry
  BY <1>8, <1>k DEF Retry, Caring
<1>9. CASE SendEnds
  BY <1>4, <1>9, <1>v DEF SendEnds, SendReturns, SendRaises, Caring
<1>10. CASE NoticeEnds
  BY <1>10, <1>k DEF NoticeEnds, Caring
<1>11. CASE StopAll
  <2>1. ~Caring' /\ UNCHANGED <<outbox, put>>
    BY <1>11 DEF StopAll, Caring
  <2>2. CASE Caring
    BY <1>11, <1>4, <1>v, <2>1, <2>2 DEF StopAll, Caring
  <2>3. CASE ~Caring
    BY <1>11, <1>k, <2>1, <2>3 DEF StopAll, Caring
  <2> QED BY <2>2, <2>3
<1>12. CASE ClockTicks
  BY <1>12, <1>k DEF ClockTicks, Caring
<1>13. CASE UNCHANGED outVars
  BY <1>13, <1>k DEF outVars, Caring
<1> QED BY <1>1, <1>5, <1>6, <1>7, <1>8, <1>9, <1>10, <1>11, <1>12, <1>13 DEF OutNext, Take

-----------------------------------------------------------------------------
LEMMA OutInvariance == OutSpec => []OutInv
<1>1. OutInv /\ [OutNext]_outVars => OutInv'
  <2> SUFFICES ASSUME OutInv, [OutNext]_outVars PROVE OutInv'
    OBVIOUS
  <2>1. OutTypeOK' /\ Budget'
    BY TypeNext, BudgetNext DEF OutInv
  <2>2. InOrder' /\ Fates' /\ TurnOrder'
    BY CareNext, <2>1
  <2> QED BY <2>1, <2>2 DEF OutInv
<1> QED BY OutInitially, <1>1, PTL DEF OutSpec

\* The state keeps its shapes.
THEOREM OutTypeCorrect == OutSpec => []OutTypeOK
<1>1. OutInv => OutTypeOK
  BY DEF OutInv
<1> QED BY OutInvariance, <1>1, PTL

\* For any rate and burst, in both modes, and however the loop's waits and the
\* ticks interleave, no interval lets more through to a chat than the burst
\* and what the rate brings in it.
THEOREM RateIsBounded == OutSpec => []RateBound
<1>1. OutInv => RateBound
  <2> SUFFICES ASSUME OutInv, NEW c \in Chats PROVE excess[c] <= Full
    BY DEF RateBound
  <2>1. excess[c] \in Nat /\ tokens[c] \in Nat /\ excess[c] + tokens[c] <= Full
    BY DEF OutInv, OutTypeOK, Budget
  <2> QED BY <2>1, FullIsNat
<1> QED BY OutInvariance, <1>1, PTL

\* Nothing of one sender is settled before what it put earlier, whatever fails,
\* is dropped, waits or is stopped.
THEOREM SendersKeepTheirOrder == OutSpec => []TurnOrder
<1>1. OutInv => TurnOrder
  BY DEF OutInv
<1> QED BY OutInvariance, <1>1, PTL

\* A message that is not settled is in the queue or in hand, once.
THEOREM NoMessageVanishes == OutSpec => []NothingVanishes
<1>1. OutInv => NothingVanishes
  <2> SUFFICES ASSUME OutInv PROVE NothingVanishes
    OBVIOUS
  <2> DEFINE all == IF loop \in {"delayed", "sending"} THEN Append(outbox, hand) ELSE outbox
  <2>0. /\ outbox \in Seq(Outgoing)
        /\ \A i \in DOMAIN outbox : outbox[i] \in Outgoing /\ i \in Nat
        /\ Caring => hand \in Outgoing
    BY HeldIsOutgoing DEF OutInv, OutTypeOK
  <2>1. \A i \in DOMAIN outbox : i \in DOMAIN all /\ all[i] = outbox[i] /\ i # Len(outbox) + 1
    BY <2>0, AppendIs DEF Caring
  <2>2. Caring => Len(outbox) + 1 \in DOMAIN all /\ all[Len(outbox) + 1] = hand
    BY <2>0, AppendIs DEF Caring
  <2>3. \A i \in DOMAIN all : i \in DOMAIN outbox \/ (Caring /\ i = Len(outbox) + 1)
    BY <2>0, AppendIs DEF Caring
  <2> HIDE DEF all
  <2>4. ASSUME NEW i \in DOMAIN all, NEW j \in DOMAIN all, all[i] = all[j] PROVE i = j
    <3>1. CASE i \in DOMAIN outbox /\ j \in DOMAIN outbox
      <4>1. outbox[i] = outbox[j] /\ outbox[i].n \in Nat
        BY <2>0, <2>1, <2>4, <3>1 DEF Outgoing
      <4>2. ~(i < j) /\ ~(j < i)
        BY <3>1, <4>1 DEF OutInv, InOrder
      <4> QED BY <2>0, <3>1, <4>2
    <3>2. ASSUME NEW k \in DOMAIN outbox, Caring, outbox[k] = hand PROVE FALSE
      <4>1. hand.n < hand.n
        BY <3>2 DEF OutInv, InOrder
      <4> QED BY <2>0, <3>2, <4>1 DEF Outgoing
    <3> QED BY <2>1, <2>2, <2>3, <2>4, <3>1, <3>2
  <2>5. IsInjective(all)
    BY <2>4 DEF IsInjective
  <2>6. \A t \in Senders, n \in 1 .. PerTurn :
          IsHeld(t, n) <=> \E i \in DOMAIN all : all[i].sender = t /\ all[i].n = n
    BY <2>1, <2>2, <2>3 DEF IsHeld, IsQueued
  <2>7. \A t \in Senders, n \in 1 .. PerTurn :
          fate[t][n] = "waiting" <=> \E i \in DOMAIN all : all[i].sender = t /\ all[i].n = n
    BY <2>6 DEF OutInv, Fates
  <2> QED BY <2>5, <2>7 DEF NothingVanishes, all
<1> QED BY OutInvariance, <1>1, PTL

-----------------------------------------------------------------------------
(* Part 3: the inbound queue and the router (Inbound)                       *)

(* The inductive invariant: the router has a message exactly while it works *)
(* on one, and what was accepted is in one place, once.                     *)

IsInbox(m) == \E i \in 1 .. Len(inbox) : inbox[i] = m

Accepted(m) == sender[m] \in {"appended", "put"}

RouterHasMessage ==
  /\ router \in {"routing", "turn", "replying"} => msg \in Inbounds
  /\ router \in {"starting", "free", "empty", "asleep"} => msg = NoInbound

\* A message of the bus is queued, with the router or done with, and only one
\* of these; and nothing is there that nobody has put.
EachInOnePlace ==
  /\ \A i, j \in 1 .. Len(inbox) : inbox[i] = inbox[j] => i = j
  /\ \A m \in Inbounds :
       /\ Accepted(m) <=> IsInbox(m) \/ msg = m \/ m \in handled
       /\ ~(IsInbox(m) /\ msg = m) /\ ~(IsInbox(m) /\ m \in handled) /\ ~(msg = m /\ m \in handled)

InInv == InTypeOK /\ RouterHasMessage /\ EachInOnePlace

-----------------------------------------------------------------------------
LEMMA InConstants == NoInbound \notin Inbounds /\ MaxInbound \in Nat \ {0} /\ MaxReplies \in Nat \ {0}
BY InboundAssumption DEF Inbounds

SenderSteps == {"unborn", "working", "putting", "posting", "checked", "appended", "put", "refused",
                "stuck"}

\* What a step of a sender does to it.
LEMMA IsStep ==
  ASSUME InTypeOK, NEW m \in Inbounds, NEW step \in SenderSteps, Is(m, step)
  PROVE  /\ sender' \in [Inbounds -> SenderSteps] /\ sender'[m] = step
         /\ \A n \in Inbounds \ {m} : sender'[n] = sender[n]
BY DEF InTypeOK, Is, SenderSteps

\* A wake-up leaves the future of a get that nobody waits for alone.
LEMMA WakenedStep ==
  ASSUME InTypeOK, Wakened
  PROVE  getter' \in {"none", "pending", "set"} /\ (getter' # "none" => getter # "none")
BY DEF InTypeOK, Wakened

\* Steps that leave the messages where they are, and accept none.
LEMMA NoneAccepted ==
  ASSUME InInv, sender' \in [Inbounds -> SenderSteps],
         \A m \in Inbounds : Accepted(m)' <=> Accepted(m),
         UNCHANGED <<inbox, msg, handled>>
  PROVE  EachInOnePlace'
BY DEF InInv, EachInOnePlace, IsInbox

LEMMA InInitially == InInit => InInv
<1> SUFFICES ASSUME InInit PROVE InInv
  OBVIOUS
<1>1. /\ inbox = << >> /\ owner = "nobody" /\ getter = "none" /\ router = "starting"
      /\ sender = [m \in Inbounds |-> "unborn"] /\ msg = NoInbound /\ replies = 0 /\ handled = {}
  BY DEF InInit
<1>2. InTypeOK
  BY <1>1, InConstants DEF InTypeOK, AtWork
<1>3. EachInOnePlace
  BY <1>1, InConstants DEF EachInOnePlace, IsInbox, Accepted
<1> QED BY <1>1, <1>2, <1>3 DEF InInv, RouterHasMessage

\* A message that nobody has accepted yet goes to the end of the queue.
LEMMA AppendsStep ==
  ASSUME InInv, NEW m \in Inbounds, ~Accepted(m), NEW step \in {"appended", "put"}, Is(m, step),
         inbox' = Append(inbox, m), UNCHANGED <<msg, handled>>
  PROVE  inbox' \in Seq(Inbounds) /\ EachInOnePlace'
<1>1. InTypeOK /\ EachInOnePlace
  BY DEF InInv
<1>2. inbox \in Seq(Inbounds) /\ Len(inbox) \in Nat
  BY <1>1 DEF InTypeOK
<1>3. /\ inbox' \in Seq(Inbounds) /\ Len(inbox') = Len(inbox) + 1
      /\ \A i \in 1 .. Len(inbox) : inbox'[i] = inbox[i]
      /\ inbox'[Len(inbox) + 1] = m
  BY <1>2
<1>4. /\ ~IsInbox(m) /\ msg # m /\ m \notin handled
      /\ \A i, j \in 1 .. Len(inbox) : inbox[i] = inbox[j] => i = j
  BY <1>1 DEF EachInOnePlace
<1>5. \A i \in 1 .. Len(inbox) : inbox[i] # m
  BY <1>4 DEF IsInbox
<1>6. \A n \in Inbounds : IsInbox(n)' <=> IsInbox(n) \/ n = m
  <2> TAKE n \in Inbounds
  <2>1. ASSUME IsInbox(n)' PROVE IsInbox(n) \/ n = m
    <3>1. PICK i \in 1 .. Len(inbox') : inbox'[i] = n
      BY <2>1 DEF IsInbox
    <3>2. i \in 1 .. Len(inbox) \/ i = Len(inbox) + 1
      BY <1>2, <1>3
    <3> QED BY <1>3, <3>1, <3>2 DEF IsInbox
  <2>2. ASSUME IsInbox(n) PROVE IsInbox(n)'
    <3>1. PICK i \in 1 .. Len(inbox) : inbox[i] = n
      BY <2>2 DEF IsInbox
    <3>2. i \in 1 .. Len(inbox') /\ inbox'[i] = n
      BY <1>2, <1>3, <3>1
    <3> QED BY <3>2 DEF IsInbox
  <2>3. IsInbox(m)'
    <3>1. Len(inbox) + 1 \in 1 .. Len(inbox')
      BY <1>2, <1>3
    <3> QED BY <1>3, <3>1 DEF IsInbox
  <2> QED BY <2>1, <2>2, <2>3
<1>7. ASSUME NEW i \in 1 .. Len(inbox'), NEW j \in 1 .. Len(inbox'), inbox'[i] = inbox'[j]
      PROVE  i = j
  <2>1. /\ i \in 1 .. Len(inbox) \/ i = Len(inbox) + 1
        /\ j \in 1 .. Len(inbox) \/ j = Len(inbox) + 1
    BY <1>2, <1>3
  <2> QED BY <1>3, <1>4, <1>5, <1>7, <2>1
<1>8. Accepted(m)' /\ \A n \in Inbounds \ {m} : Accepted(n)' <=> Accepted(n)
  BY <1>1, IsStep DEF Accepted, SenderSteps
<1>9. ASSUME NEW n \in Inbounds
      PROVE  /\ Accepted(n)' <=> IsInbox(n)' \/ msg = n \/ n \in handled
             /\ ~(IsInbox(n)' /\ msg = n) /\ ~(IsInbox(n)' /\ n \in handled)
             /\ ~(msg = n /\ n \in handled)
  BY <1>1, <1>4, <1>6, <1>8 DEF EachInOnePlace
<1> QED BY <1>3, <1>7, <1>9 DEF EachInOnePlace

LEMMA SenderGoesOn ==
  ASSUME InInv, NEW m \in Inbounds,
         \/ Put(m) \/ PutFinds(m) \/ PostFinds(m) \/ PostChecks(m) \/ PostAppends(m) \/ PostWakens(m)
         \/ Arrive(m) \/ Post(m) \/ Spawn(m) \/ SubagentEnds(m)
  PROVE  InInv'
<1>1. InTypeOK /\ RouterHasMessage /\ EachInOnePlace
  BY DEF InInv
<1>2. UNCHANGED <<router, msg, replies, handled>>
  BY DEF Put, PutFinds, PostFinds, PostChecks, PostAppends, PostWakens, Arrive, Post, Spawn,
         SubagentEnds
<1>3. owner' \in {"nobody", "gateway", "thread"}
  BY <1>1 DEF InTypeOK, Put, PutFinds, PostFinds, PostChecks, PostAppends, PostWakens, Arrive, Post,
              Spawn, SubagentEnds
<1>4. getter' \in {"none", "pending", "set"} /\ (getter' # "none" => getter # "none")
  BY <1>1, WakenedStep DEF InTypeOK, Put, PutFinds, PostFinds, PostChecks, PostAppends, PostWakens,
              Arrive, Post, Spawn, SubagentEnds
<1>5. UNCHANGED sender \/ \E step \in SenderSteps : Is(m, step)
  BY DEF Put, PutFinds, PostFinds, PostChecks, PostAppends, PostWakens, Arrive, Post, Spawn,
         SubagentEnds, SenderSteps
<1>6. sender' \in [Inbounds -> SenderSteps]
  BY <1>1, <1>5, IsStep DEF InTypeOK, SenderSteps
<1>7. inbox' \in Seq(Inbounds) /\ EachInOnePlace'
  <2>1. CASE Put(m)
    <3>1. /\ ~Accepted(m) /\ Is(m, "put") /\ inbox' = Append(inbox, m) /\ UNCHANGED <<msg, handled>>
      BY <2>1 DEF Put, Accepted
    <3> QED BY <3>1, AppendsStep
  <2>2. CASE PostAppends(m) /\ inbox' = Append(inbox, m) /\ Is(m, "appended")
    <3>1. ~Accepted(m) /\ UNCHANGED <<msg, handled>>
      BY <2>2 DEF PostAppends, Accepted
    <3> QED BY <2>2, <3>1, AppendsStep
  <2>3. CASE /\ UNCHANGED inbox
             /\ UNCHANGED sender \/ \E step \in SenderSteps \ {"appended", "put"} :
                                      ~Accepted(m) /\ Is(m, step)
    <3>1. \A n \in Inbounds : Accepted(n)' <=> Accepted(n)
      BY <1>1, <2>3, IsStep DEF Accepted
    <3> QED BY <1>1, <1>2, <1>6, <2>3, <3>1, NoneAccepted DEF InTypeOK
  <2>4. CASE PostWakens(m)
    <3>1. UNCHANGED inbox /\ Accepted(m) /\ Is(m, "put")
      BY <2>4 DEF PostWakens, Accepted
    <3>2. \A n \in Inbounds : Accepted(n)' <=> Accepted(n)
      BY <1>1, <3>1, IsStep DEF Accepted, SenderSteps
    <3> QED BY <1>1, <1>2, <1>6, <3>1, <3>2, NoneAccepted DEF InTypeOK
  <2>5. CASE PutFinds(m) \/ PostFinds(m) \/ PostChecks(m) \/ Arrive(m) \/ Post(m) \/ Spawn(m)
             \/ SubagentEnds(m)
    <3>1. UNCHANGED inbox /\ ~Accepted(m)
      BY <2>5 DEF PutFinds, PostFinds, PostChecks, Arrive, Post, Spawn, SubagentEnds, Accepted
    <3>2. UNCHANGED sender \/ \E step \in SenderSteps \ {"appended", "put"} : Is(m, step)
      BY <2>5 DEF PutFinds, PostFinds, PostChecks, Arrive, Post, Spawn, SubagentEnds, SenderSteps
    <3> QED BY <2>3, <3>1, <3>2
  <2>6. CASE PostAppends(m) /\ Is(m, "refused") /\ UNCHANGED inbox
    <3>1. ~Accepted(m) /\ "refused" \in SenderSteps \ {"appended", "put"}
      BY <2>6 DEF PostAppends, Accepted, SenderSteps
    <3> QED BY <2>3, <2>6, <3>1
  <2> QED BY <2>1, <2>2, <2>4, <2>5, <2>6 DEF PostAppends
<1>8. InTypeOK'
  BY <1>1, <1>2, <1>3, <1>4, <1>6, <1>7 DEF InTypeOK, SenderSteps
<1> QED BY <1>1, <1>2, <1>7, <1>8 DEF InInv, RouterHasMessage

\* Steps of the router that move no message.
LEMMA RouterMoves ==
  ASSUME InInv,
         \/ Started \/ SeeEmpty \/ FallAsleep \/ WakeUp \/ TimeOut \/ Route \/ RouterRaises
         \/ GatewayEnds \/ ReplyTaken
  PROVE  InInv'
<1>1. InTypeOK /\ RouterHasMessage /\ EachInOnePlace
  BY DEF InInv
<1>2. UNCHANGED <<inbox, sender, msg, handled>>
  BY DEF Started, SeeEmpty, FallAsleep, WakeUp, TimeOut, Route, RouterRaises, GatewayEnds, ReplyTaken
<1>3. replies' \in 0 .. MaxReplies
  BY <1>1, InConstants DEF InTypeOK, Started, SeeEmpty, FallAsleep, WakeUp, TimeOut, Route,
                           RouterRaises, GatewayEnds, ReplyTaken
<1>4. /\ owner' \in {"nobody", "gateway", "thread"}
      /\ getter' \in {"none", "pending", "set"} /\ (getter' # "none" => router' \in {"asleep", "ended"})
      /\ router' \in AtWork \cup {"starting", "ended"}
  BY <1>1 DEF InTypeOK, AtWork, Started, SeeEmpty, FallAsleep, WakeUp, TimeOut, Route, RouterRaises,
              GatewayEnds, ReplyTaken, Becoming
<1>5. RouterHasMessage'
  BY <1>1 DEF RouterHasMessage, Started, SeeEmpty, FallAsleep, WakeUp, TimeOut, Route, RouterRaises,
              GatewayEnds, ReplyTaken, Becoming
<1>6. EachInOnePlace'
  BY <1>1, <1>2 DEF EachInOnePlace, IsInbox, Accepted
<1> QED BY <1>1, <1>2, <1>3, <1>4, <1>5, <1>6 DEF InInv, InTypeOK

LEMMA TakeInboundStep ==
  ASSUME InInv, TakeInbound
  PROVE  InInv'
<1>1. InTypeOK /\ RouterHasMessage /\ EachInOnePlace
  BY DEF InInv
<1>2. /\ router = "free" /\ router' = "routing" /\ inbox # << >>
      /\ inbox' = Tail(inbox) /\ msg' = Head(inbox)
      /\ UNCHANGED <<owner, getter, sender, replies, handled>>
  BY DEF TakeInbound, Becoming
<1>3. inbox \in Seq(Inbounds) /\ Len(inbox) \in Nat
  BY <1>1 DEF InTypeOK
<1>4. /\ Len(inbox) > 0 /\ msg' = inbox[1] /\ msg' \in Inbounds
      /\ inbox' \in Seq(Inbounds) /\ Len(inbox') = Len(inbox) - 1
      /\ \A i \in 1 .. Len(inbox) - 1 : inbox'[i] = inbox[i + 1]
  BY <1>2, <1>3
<1>5. \A m \in Inbounds : msg # m
  BY <1>1, <1>2, InConstants DEF RouterHasMessage
<1>6. /\ \A i, j \in 1 .. Len(inbox) : inbox[i] = inbox[j] => i = j
      /\ \A m \in Inbounds : /\ Accepted(m) <=> IsInbox(m) \/ m \in handled
                             /\ ~(IsInbox(m) /\ m \in handled)
  BY <1>1, <1>5 DEF EachInOnePlace
<1>7. \A m \in Inbounds : IsInbox(m) <=> IsInbox(m)' \/ m = msg'
  <2> TAKE m \in Inbounds
  <2>1. ASSUME IsInbox(m) PROVE IsInbox(m)' \/ m = msg'
    <3>1. PICK i \in 1 .. Len(inbox) : inbox[i] = m
      BY <2>1 DEF IsInbox
    <3>2. CASE i = 1
      BY <1>4, <3>1, <3>2
    <3>3. CASE i # 1
      <4>1. i - 1 \in 1 .. Len(inbox') /\ inbox'[i - 1] = m
        BY <1>3, <1>4, <3>1, <3>3
      <4> QED BY <4>1 DEF IsInbox
    <3> QED BY <3>2, <3>3
  <2>2. ASSUME IsInbox(m)' PROVE IsInbox(m)
    <3>1. PICK i \in 1 .. Len(inbox') : inbox'[i] = m
      BY <2>2 DEF IsInbox
    <3>2. i + 1 \in 1 .. Len(inbox) /\ inbox[i + 1] = m
      BY <1>3, <1>4, <3>1
    <3> QED BY <3>2 DEF IsInbox
  <2>3. ASSUME m = msg' PROVE IsInbox(m)
    <3>1. 1 \in 1 .. Len(inbox)
      BY <1>3, <1>4
    <3> QED BY <1>4, <2>3, <3>1 DEF IsInbox
  <2> QED BY <2>1, <2>2, <2>3
<1>8. ~\E i \in 1 .. Len(inbox') : inbox'[i] = msg'
  <2>1. ASSUME NEW i \in 1 .. Len(inbox'), inbox'[i] = msg'
        PROVE  FALSE
    <3>1. /\ i + 1 \in 1 .. Len(inbox) /\ 1 \in 1 .. Len(inbox) /\ inbox[i + 1] = inbox[1]
          /\ i + 1 # 1
      BY <1>3, <1>4, <2>1
    <3> QED BY <1>6, <3>1
  <2> QED BY <2>1
<1>9. ASSUME NEW i \in 1 .. Len(inbox'), NEW j \in 1 .. Len(inbox'), inbox'[i] = inbox'[j]
      PROVE  i = j
  <2>1. /\ i + 1 \in 1 .. Len(inbox) /\ j + 1 \in 1 .. Len(inbox)
        /\ inbox[i + 1] = inbox[j + 1]
    BY <1>3, <1>4, <1>9
  <2>2. i + 1 = j + 1
    BY <1>6, <2>1
  <2> QED BY <1>3, <1>4, <2>2
<1>10. EachInOnePlace'
  <2>1. ASSUME NEW m \in Inbounds
        PROVE  /\ Accepted(m)' <=> IsInbox(m)' \/ msg' = m \/ m \in handled'
               /\ ~(IsInbox(m)' /\ msg' = m) /\ ~(IsInbox(m)' /\ m \in handled')
               /\ ~(msg' = m /\ m \in handled')
    <3>1. Accepted(m)' <=> Accepted(m)
      BY <1>2 DEF Accepted
    <3>2. ~(IsInbox(m)' /\ msg' = m)
      BY <1>8 DEF IsInbox
    <3> QED BY <1>2, <1>6, <1>7, <3>1, <3>2
  <2> QED BY <1>9, <2>1 DEF EachInOnePlace
<1>11. RouterHasMessage'
  BY <1>2, <1>4 DEF RouterHasMessage
<1>12. InTypeOK'
  BY <1>1, <1>2, <1>4 DEF InTypeOK, AtWork
<1> QED BY <1>10, <1>11, <1>12 DEF InInv

LEMMA TurnOver ==
  ASSUME InInv, TurnEnds \/ Reply
  PROVE  InInv'
<1>1. InTypeOK /\ RouterHasMessage /\ EachInOnePlace
  BY DEF InInv
<1>2. /\ router \in {"turn", "replying"} /\ msg \in Inbounds
      /\ UNCHANGED <<inbox, owner, getter, sender>>
  BY <1>1 DEF TurnEnds, Reply, RouterHasMessage
<1>3. replies' \in 0 .. MaxReplies
  BY <1>1, InConstants DEF InTypeOK, TurnEnds, Reply
<1>4. getter = "none"
  BY <1>1, <1>2 DEF InTypeOK
<1>5. CASE router' = "replying" /\ UNCHANGED <<msg, handled>>
  <2>1. EachInOnePlace'
    BY <1>1, <1>2, <1>5 DEF EachInOnePlace, IsInbox, Accepted
  <2> QED BY <1>1, <1>2, <1>3, <1>4, <1>5, <2>1 DEF InInv, InTypeOK, RouterHasMessage, AtWork
<1>6. CASE router' = "free" /\ msg' = NoInbound /\ handled' = handled \cup {msg}
  <2>1. \A m \in Inbounds : (msg' # m) /\ (m \in handled' <=> msg = m \/ m \in handled)
    BY <1>6, InConstants
  <2>2. EachInOnePlace'
    BY <1>1, <1>2, <2>1 DEF EachInOnePlace, IsInbox, Accepted
  <2> QED BY <1>1, <1>2, <1>3, <1>4, <1>6, <2>2 DEF InInv, InTypeOK, RouterHasMessage, AtWork
<1> QED BY <1>5, <1>6 DEF TurnEnds, Reply, Becoming

LEMMA InStep == InInv /\ [InNext]_inVars => InInv'
<1> SUFFICES ASSUME InInv, [InNext]_inVars PROVE InInv'
  OBVIOUS
<1>1. CASE UNCHANGED inVars
  BY <1>1 DEF inVars, InInv, InTypeOK, RouterHasMessage, EachInOnePlace, IsInbox, Accepted
<1>2. ASSUME NEW m \in Inbounds, SenderStep(m) \/ Arrive(m) \/ Post(m) \/ Spawn(m)
      PROVE  InInv'
  BY <1>2, SenderGoesOn DEF SenderStep
<1>3. CASE Started \/ RouterRaises \/ GatewayEnds \/ ReplyTaken
  BY <1>3, RouterMoves
<1>4. CASE RouterStep
  BY <1>4, RouterMoves, TakeInboundStep, TurnOver DEF RouterStep
<1> QED BY <1>1, <1>2, <1>3, <1>4 DEF InNext, OtherStep

LEMMA InInvariance == InSpec => []InInv
<1> QED BY InInitially, InStep, PTL DEF InSpec

\* The queue, its senders and the router keep their shapes.
THEOREM InTypeCorrect == InSpec => []InTypeOK
<1>1. InInv => InTypeOK
  BY DEF InInv
<1> QED BY <1>1, InInvariance, PTL

\* However the threads' puts and the router's gets interleave, a message that was
\* accepted is queued, with the router, or done with, and never in two places: none
\* is lost, and none gets two turns.
THEOREM AcceptedIsKept == InSpec => []EachInOnePlace
<1>1. InInv => EachInOnePlace
  BY DEF InInv
<1> QED BY <1>1, InInvariance, PTL

-----------------------------------------------------------------------------
(* Part 4: the web chat (WebChat)                                           *)

(* The web chat: while nothing has set questions and answers apart there is *)
(* one message on its way, and it belongs to the last question.             *)

Numbers == 1 .. asked
Handlings == {"closed", "open", "direct", "sending", "waiting", "woken"}
Letters == Numbers \X {"question", "report"}

ChatShapes ==
  /\ chat \in {"none", "running", "stopping", "stopped"}
  /\ request \in [Operators -> {"unborn", "started", "failed", "stopping", "stopped", "applying",
                                "skipped", "restarted"}]
  /\ handler \in [Sockets -> Handlings]
  /\ asked \in 0 .. MaxQuestions /\ asking \in [Sockets -> 0 .. asked]
  /\ desk \in Seq(Letters) /\ answering \in {<< >>} \cup Letters
  /\ answers \in Seq(Numbers) /\ shelf \in Seq(Numbers) /\ getters \in Seq(Sockets)
  /\ later \subseteq Numbers \X Kinds
  /\ given \subseteq Numbers \X Numbers
  /\ causes \subseteq {"late", "extra", "overlap"}

\* Those who wait for the queue, in the eyes of waits, with what handlers say.
QueuedOnce(waits, handlers) ==
  /\ \A i \in 1 .. Len(waits) : handlers[waits[i]] = "waiting"
  /\ \A i, j \in 1 .. Len(waits) : waits[i] = waits[j] => i = j

\* Who waits has asked something; one that never had company, the last of all.
LastAsks ==
  \A k \in Sockets : Awaits(k) =>
    /\ asking[k] # 0
    /\ "overlap" \notin causes => asking[k] = asked /\ \A j \in Sockets : Awaits(j) => j = k

UnderWay == Len(desk) + (IF answering = << >> THEN 0 ELSE 1) + Len(answers) + Len(shelf)

OneMessage ==
  causes = {} =>
    /\ UnderWay <= 1 /\ (UnderWay = 1 => \E k \in Sockets : Awaits(k))
    /\ \A i \in 1 .. Len(desk) : desk[i][1] = asked
    /\ answering # << >> => answering[1] = asked
    /\ \A i \in 1 .. Len(answers) : answers[i] = asked
    /\ \A i \in 1 .. Len(shelf) : shelf[i] = asked

ChatInv ==
  ChatShapes /\ QueuedOnce(getters, handler) /\ LastAsks /\ OneMessage /\ MismatchHasACause

-----------------------------------------------------------------------------
\* What is left of a sequence without one element.
LEMMA TakenOut ==
  ASSUME NEW S, NEW s \in Seq(S), NEW i \in 1 .. Len(s)
  PROVE  /\ RemoveAt(s, i) \in Seq(S) /\ Len(RemoveAt(s, i)) = Len(s) - 1
         /\ \A j \in 1 .. Len(s) - 1 : RemoveAt(s, i)[j] = s[IF j < i THEN j ELSE j + 1]
<1>1. Len(s) \in Nat
  OBVIOUS
<1>2. PICK u, v : u = SubSeq(s, 1, i - 1) /\ v = SubSeq(s, i + 1, Len(s))
  OBVIOUS
<1>3. /\ u \in Seq(S) /\ Len(u) = i - 1 /\ \A j \in 1 .. i - 1 : u[j] = s[j]
  BY <1>1, <1>2
<1>4. /\ v \in Seq(S) /\ Len(v) = Len(s) - i /\ \A j \in 1 .. Len(s) - i : v[j] = s[j + i]
  BY <1>1, <1>2
<1>5. PICK w : w = u \o v
  OBVIOUS
<1>6. /\ w \in Seq(S) /\ Len(w) = Len(s) - 1
      /\ \A j \in 1 .. Len(w) : w[j] = IF j < i THEN u[j] ELSE v[j - (i - 1)]
  <2>0. u \in Seq(S) /\ v \in Seq(S)
    BY <1>3, <1>4
  <2>1. w \in Seq(S) /\ Len(w) = Len(u) + Len(v)
    BY <2>0, <1>5
  <2>2. Len(w) = Len(s) - 1
    BY <1>1, <1>3, <1>4, <2>1
  <2>3. \A j \in 1 .. Len(u) + Len(v) : w[j] = IF j <= Len(u) THEN u[j] ELSE v[j - Len(u)]
    BY <2>0, <1>5
  <2> QED BY <1>1, <1>3, <1>4, <2>1, <2>2, <2>3
<1>7. w = RemoveAt(s, i)
  BY <1>2, <1>5 DEF RemoveAt
<1>8. ASSUME NEW j \in 1 .. Len(s) - 1
      PROVE  w[j] = s[IF j < i THEN j ELSE j + 1]
  <2>1. CASE j < i
    BY <1>1, <1>3, <1>6, <2>1
  <2>2. CASE ~(j < i)
    <3>1. j - (i - 1) \in 1 .. Len(s) - i /\ (j - (i - 1)) + i = j + 1
      BY <1>1, <2>2
    <3>2. v[j - (i - 1)] = s[j + 1]
      BY <1>4, <3>1
    <3> QED BY <1>1, <1>6, <2>2, <3>2
  <2> QED BY <2>1, <2>2
<1> QED BY <1>6, <1>7, <1>8

LEMMA ChatConstants == MaxQuestions \in Nat /\ BusSize \in Nat
BY ChatAssumption

\* The lengths of the queues, and what a letter is.
LEMMA QueuesAre ==
  ASSUME ChatShapes
  PROVE  /\ Len(desk) \in Nat /\ Len(answers) \in Nat /\ Len(shelf) \in Nat /\ Len(getters) \in Nat
         /\ asked \in Nat
         /\ answering # << >> => answering \in Letters /\ answering[1] \in Numbers
         /\ desk # << >> => /\ Head(desk) \in Letters /\ Head(desk) = desk[1] /\ desk[1] # << >>
                            /\ Tail(desk) \in Seq(Letters) /\ Len(Tail(desk)) = Len(desk) - 1
                            /\ \A i \in 1 .. Len(desk) - 1 : Tail(desk)[i] = desk[i + 1]
         /\ answers # << >> => /\ Head(answers) \in Numbers /\ Head(answers) = answers[1]
                               /\ Tail(answers) \in Seq(Numbers)
                               /\ Len(Tail(answers)) = Len(answers) - 1
                               /\ \A i \in 1 .. Len(answers) - 1 : Tail(answers)[i] = answers[i + 1]
         /\ shelf # << >> => /\ Head(shelf) \in Numbers /\ Head(shelf) = shelf[1]
                             /\ Tail(shelf) \in Seq(Numbers)
                             /\ Len(Tail(shelf)) = Len(shelf) - 1 /\ Len(shelf) > 0
                             /\ \A i \in 1 .. Len(shelf) - 1 : Tail(shelf)[i] = shelf[i + 1]
<1>1. asked \in Nat
  BY ChatConstants DEF ChatShapes
<1>2. /\ desk \in Seq(Letters) /\ answers \in Seq(Numbers) /\ shelf \in Seq(Numbers)
      /\ getters \in Seq(Sockets)
  BY DEF ChatShapes
<1>3. \A l \in Letters : l[1] \in Numbers /\ l # << >>
  BY DEF Letters
<1>4. answering # << >> => answering \in Letters
  BY DEF ChatShapes
<1>5. ASSUME NEW S, NEW s \in Seq(S)
      PROVE  /\ Len(s) \in Nat
             /\ s # << >> => /\ Head(s) \in S /\ Head(s) = s[1] /\ Tail(s) \in Seq(S)
                             /\ Len(Tail(s)) = Len(s) - 1 /\ Len(s) > 0
                             /\ \A i \in 1 .. Len(s) - 1 : Tail(s)[i] = s[i + 1]
  OBVIOUS
<1>6. Len(desk) \in Nat /\ Len(answers) \in Nat /\ Len(shelf) \in Nat /\ Len(getters) \in Nat
  BY <1>2
<1>7. desk # << >> => /\ Head(desk) \in Letters /\ Head(desk) = desk[1]
                      /\ Tail(desk) \in Seq(Letters) /\ Len(Tail(desk)) = Len(desk) - 1
                      /\ \A i \in 1 .. Len(desk) - 1 : Tail(desk)[i] = desk[i + 1]
  BY <1>2, <1>5
<1>8. answers # << >> => /\ Head(answers) \in Numbers /\ Head(answers) = answers[1]
                         /\ Tail(answers) \in Seq(Numbers)
                         /\ Len(Tail(answers)) = Len(answers) - 1
                         /\ \A i \in 1 .. Len(answers) - 1 : Tail(answers)[i] = answers[i + 1]
  BY <1>2, <1>5
<1>9. shelf # << >> => /\ Head(shelf) \in Numbers /\ Head(shelf) = shelf[1]
                       /\ Tail(shelf) \in Seq(Numbers)
                       /\ Len(Tail(shelf)) = Len(shelf) - 1 /\ Len(shelf) > 0
                       /\ \A i \in 1 .. Len(shelf) - 1 : Tail(shelf)[i] = shelf[i + 1]
  BY <1>2, <1>5
<1> QED BY <1>1, <1>3, <1>4, <1>6, <1>7, <1>8, <1>9

LEMMA ChatInitially == ChatInit => ChatInv
<1> SUFFICES ASSUME ChatInit PROVE ChatInv
  OBVIOUS
<1>1. /\ chat = "none" /\ request = [o \in Operators |-> "unborn"]
      /\ handler = [k \in Sockets |-> "closed"]
      /\ asking = [k \in Sockets |-> 0] /\ asked = 0
      /\ later = {} /\ given = {} /\ causes = {}
  BY DEF ChatInit
<1>2. /\ desk = << >> /\ answering = << >> /\ answers = << >> /\ shelf = << >> /\ getters = << >>
  BY DEF ChatInit
<1>3. ChatShapes
  BY <1>1, <1>2, ChatConstants DEF ChatShapes, Handlings
<1>4. \A k \in Sockets : ~Awaits(k)
  BY <1>1 DEF Awaits
<1>5. UnderWay = 0 /\ OneMessage
  BY <1>2 DEF OneMessage, UnderWay
<1>6. QueuedOnce(getters, handler)
  BY <1>2 DEF QueuedOnce
<1> QED BY <1>1, <1>3, <1>4, <1>5, <1>6 DEF ChatInv, LastAsks, MismatchHasACause

-----------------------------------------------------------------------------
\* A socket that does not wait goes on to something else than waiting.
LEMMA HandlesQuietly ==
  ASSUME ChatInv, NEW k \in Sockets, NEW h \in {"closed", "open", "direct", "sending"},
         handler[k] \in {"closed", "open", "direct", "sending"},
         handler' = [handler EXCEPT ![k] = h],
         chat' \in {"none", "running", "stopping", "stopped"},
         UNCHANGED <<request, asking, asked, desk, answering, answers, shelf, getters, later,
                     given, causes>>
  PROVE  ChatInv'
<1>1. ChatShapes /\ QueuedOnce(getters, handler) /\ LastAsks /\ OneMessage /\ MismatchHasACause
  BY DEF ChatInv
<1>2. handler' \in [Sockets -> Handlings] /\ handler'[k] = h
      /\ \A m \in Sockets \ {k} : handler'[m] = handler[m]
  BY <1>1 DEF ChatShapes, Handlings
<1>3. \A m \in Sockets : Awaits(m)' <=> Awaits(m)
  BY <1>2 DEF Awaits
<1>4. ChatShapes'
  BY <1>1, <1>2 DEF ChatShapes, Numbers, Letters
<1>5. \A i \in 1 .. Len(getters) : handler'[getters[i]] = "waiting"
  BY <1>1, <1>2, QueuesAre DEF QueuedOnce, ChatShapes
<1>6. QueuedOnce(getters, handler)'
  BY <1>1, <1>5 DEF QueuedOnce
<1>7. LastAsks'
  BY <1>1, <1>3 DEF LastAsks
<1>8. OneMessage'
  BY <1>1, <1>3 DEF OneMessage, UnderWay
<1>9. MismatchHasACause'
  BY <1>1 DEF MismatchHasACause
<1> QED BY <1>4, <1>6, <1>7, <1>8, <1>9 DEF ChatInv

LEMMA SocketSteps ==
  ASSUME ChatInv, NEW k \in Sockets, Connect(k) \/ Disconnect(k) \/ Ask(k)
  PROVE  ChatInv'
<1>1. PICK h \in {"closed", "open", "direct", "sending"} : handler' = [handler EXCEPT ![k] = h]
  BY DEF Connect, Disconnect, Ask, Handles
<1>2. /\ handler[k] \in {"closed", "open", "direct", "sending"}
      /\ chat' \in {"none", "running", "stopping", "stopped"}
      /\ UNCHANGED <<request, asking, asked, desk, answering, answers, shelf, getters, later,
                     given, causes>>
  BY DEF Connect, Disconnect, Ask, Handles, ChatInv, ChatShapes
<1> QED BY <1>1, <1>2, HandlesQuietly

\* An operator's request takes at most a question away.
LEMMA OperatorSteps ==
  ASSUME ChatInv, NEW o \in Operators, StartChat(o) \/ StopChat(o) \/ ApplyChat(o) \/ ChatEnds(o)
  PROVE  ChatInv'
<1>1. /\ UNCHANGED <<handler, asking, asked, desk, answers, later, given, causes, shelf, getters>>
      /\ answering' = answering \/ answering' = << >>
  BY DEF StartChat, StopChat, ApplyChat, ChatEnds, ChatKept
<1>2. chat' \in {"none", "running", "stopping", "stopped"}
  BY DEF StartChat, StopChat, ApplyChat, ChatEnds, ChatInv, ChatShapes
<1>3. PICK r \in {"unborn", "started", "failed", "stopping", "stopped", "applying",
                  "skipped", "restarted"} : request' = [request EXCEPT ![o] = r]
  BY DEF StartChat, StopChat, ApplyChat, ChatEnds, Answered
<1>4. ChatShapes /\ QueuedOnce(getters, handler) /\ LastAsks /\ OneMessage /\ MismatchHasACause
  BY DEF ChatInv
<1>5. request' \in [Operators -> {"unborn", "started", "failed", "stopping", "stopped", "applying",
                                  "skipped", "restarted"}]
  BY <1>3, <1>4 DEF ChatShapes
<1>6. ChatShapes'
  BY <1>1, <1>2, <1>4, <1>5 DEF ChatShapes, Numbers, Letters
<1>7. QueuedOnce(getters, handler)' /\ LastAsks' /\ MismatchHasACause'
  BY <1>1, <1>4 DEF QueuedOnce, LastAsks, Awaits, MismatchHasACause
<1>8. OneMessage'
  <2>1. CASE answering' = answering
    BY <1>1, <1>4, <2>1 DEF OneMessage, UnderWay, Awaits
  <2>2. CASE answering' = << >>
    <3>1. /\ UnderWay' = Len(desk) + Len(answers) + Len(shelf)
          /\ UnderWay = Len(desk) + (IF answering = << >> THEN 0 ELSE 1) + Len(answers) + Len(shelf)
      BY <1>1, <1>4, <2>2, QueuesAre DEF UnderWay
    <3>2. UnderWay' \in Nat /\ UnderWay \in Nat /\ UnderWay' <= UnderWay
      BY <1>4, <3>1, QueuesAre
    <3> HIDE DEF UnderWay
    <3> QED BY <1>1, <1>4, <2>2, <3>2 DEF OneMessage, Awaits
  <2> QED BY <1>1, <2>1, <2>2
<1> QED BY <1>6, <1>7, <1>8 DEF ChatInv

LEMMA AgentTakesStep ==
  ASSUME ChatInv, AgentTakes
  PROVE  ChatInv'
<1>1. /\ answering = << >> /\ desk # << >> /\ answering' = Head(desk) /\ desk' = Tail(desk)
      /\ UNCHANGED <<chat, request, handler, asking, asked, answers, shelf, getters, later, given,
                     causes>>
  BY DEF AgentTakes
<1>2. ChatShapes /\ QueuedOnce(getters, handler) /\ LastAsks /\ OneMessage /\ MismatchHasACause
  BY DEF ChatInv
<1>3. /\ answering' \in Letters /\ answering' = desk[1] /\ answering' # << >>
      /\ desk' \in Seq(Letters) /\ Len(desk') = Len(desk) - 1
      /\ \A i \in 1 .. Len(desk) - 1 : desk'[i] = desk[i + 1]
  BY <1>1, <1>2, QueuesAre
<1>4. ChatShapes'
  BY <1>1, <1>2, <1>3 DEF ChatShapes, Numbers, Letters
<1>5. QueuedOnce(getters, handler)' /\ LastAsks' /\ MismatchHasACause'
  BY <1>1, <1>2 DEF QueuedOnce, LastAsks, Awaits, MismatchHasACause
<1>6. OneMessage'
  <2>1. UnderWay' = UnderWay
    BY <1>1, <1>2, <1>3, QueuesAre DEF UnderWay
  <2>2. ASSUME causes = {} PROVE /\ answering'[1] = asked
                                 /\ \A i \in 1 .. Len(desk') : desk'[i][1] = asked
    <3>1. Len(desk) \in Nat /\ Len(desk) > 0
      BY <1>1, <1>2, QueuesAre DEF ChatShapes
    <3>2. \A i \in 1 .. Len(desk) : desk[i][1] = asked
      BY <1>2, <2>2 DEF OneMessage
    <3> QED BY <1>3, <3>1, <3>2
  <2> QED BY <1>1, <1>2, <2>1, <2>2 DEF OneMessage, Awaits
<1> QED BY <1>4, <1>5, <1>6 DEF ChatInv

LEMMA AgentAnswersStep ==
  ASSUME ChatInv, AgentAnswers
  PROVE  ChatInv'
<1>1. /\ answering # << >> /\ answering' = << >> /\ answers' = Append(answers, answering[1])
      /\ UNCHANGED <<chat, request, handler, asking, asked, desk, shelf, getters, later, given,
                     causes>>
  BY DEF AgentAnswers, Replies
<1>2. ChatShapes /\ QueuedOnce(getters, handler) /\ LastAsks /\ OneMessage /\ MismatchHasACause
  BY DEF ChatInv
<1>3. answering[1] \in Numbers /\ answers \in Seq(Numbers)
  BY <1>1, <1>2, QueuesAre DEF ChatShapes
<1>4. /\ answers' \in Seq(Numbers) /\ Len(answers') = Len(answers) + 1
      /\ \A i \in 1 .. Len(answers) : answers'[i] = answers[i]
      /\ answers'[Len(answers) + 1] = answering[1]
  BY <1>1, <1>3
<1>5. ChatShapes'
  BY <1>1, <1>2, <1>4 DEF ChatShapes, Numbers, Letters
<1>6. QueuedOnce(getters, handler)' /\ LastAsks' /\ MismatchHasACause'
  BY <1>1, <1>2 DEF QueuedOnce, LastAsks, Awaits, MismatchHasACause
<1>7. OneMessage'
  <2>1. UnderWay' = UnderWay
    BY <1>1, <1>2, <1>4, QueuesAre DEF UnderWay
  <2>2. ASSUME causes = {} PROVE \A i \in 1 .. Len(answers') : answers'[i] = asked
    <3>1. /\ Len(answers) \in Nat /\ answering[1] = asked
          /\ \A i \in 1 .. Len(answers) : answers[i] = asked
      BY <1>1, <1>2, <2>2, QueuesAre DEF OneMessage
    <3> QED BY <1>4, <3>1
  <2> QED BY <1>1, <1>2, <2>1, <2>2 DEF OneMessage, Awaits
<1> QED BY <1>5, <1>6, <1>7 DEF ChatInv

\* What somebody else than the agent says of a question is a cause.
LEMMA SaysMore ==
  ASSUME ChatInv, causes' = causes \cup {"extra"}, desk' \in Seq(Letters), answers' \in Seq(Numbers),
         later' \subseteq later,
         UNCHANGED <<chat, request, handler, asking, asked, answering, shelf, getters, given>>
  PROVE  ChatInv'
<1>1. ChatShapes /\ QueuedOnce(getters, handler) /\ LastAsks /\ OneMessage /\ MismatchHasACause
  BY DEF ChatInv
<1>2. ChatShapes'
  BY <1>1 DEF ChatShapes, Numbers, Letters
<1>3. QueuedOnce(getters, handler)' /\ LastAsks'
  BY <1>1 DEF QueuedOnce, LastAsks, Awaits
<1>4. OneMessage' /\ MismatchHasACause'
  BY <1>1 DEF OneMessage, MismatchHasACause
<1> QED BY <1>2, <1>3, <1>4 DEF ChatInv

LEMMA NotifyApprovalStep ==
  ASSUME ChatInv, NotifyApproval
  PROVE  ChatInv'
<1>1. /\ answering # << >> /\ answers' = Append(answers, answering[1])
      /\ causes' = causes \cup {"extra"}
      /\ UNCHANGED <<chat, request, handler, asking, asked, desk, answering, shelf, getters, later,
                     given>>
  BY DEF NotifyApproval
<1>2. answering[1] \in Numbers /\ answers \in Seq(Numbers) /\ desk \in Seq(Letters)
  BY <1>1, QueuesAre DEF ChatInv, ChatShapes
<1>3. answers' \in Seq(Numbers)
  BY <1>1, <1>2
<1> QED BY <1>1, <1>2, <1>3, SaysMore

LEMMA LeaveWorkStep ==
  ASSUME ChatInv, NEW kind \in Kinds, LeaveWork(kind)
  PROVE  ChatInv'
<1>1. /\ answering # << >> /\ later' = {<<answering[1], kind>>}
      /\ UNCHANGED <<chat, request, handler, asking, asked, desk, answering, answers, shelf,
                     getters, given, causes>>
  BY DEF LeaveWork
<1>2. ChatShapes /\ QueuedOnce(getters, handler) /\ LastAsks /\ OneMessage /\ MismatchHasACause
  BY DEF ChatInv
<1>3. later' \subseteq Numbers \X Kinds
  BY <1>1, <1>2, QueuesAre
<1>4. ChatShapes'
  BY <1>1, <1>2, <1>3 DEF ChatShapes, Numbers, Letters
<1>5. QueuedOnce(getters, handler)' /\ LastAsks' /\ MismatchHasACause' /\ OneMessage'
  BY <1>1, <1>2 DEF QueuedOnce, LastAsks, Awaits, MismatchHasACause, OneMessage, UnderWay
<1> QED BY <1>4, <1>5 DEF ChatInv

LEMMA FinishesStep ==
  ASSUME ChatInv, NEW q \in Questions, NEW kind \in Kinds, Finishes(q, kind)
  PROVE  ChatInv'
<1>1. /\ <<q, kind>> \in later /\ later' = later \ {<<q, kind>>}
      /\ UNCHANGED <<chat, request, handler, asking, asked, answering, shelf, getters, given>>
  BY DEF Finishes
<1>2. ChatShapes /\ QueuedOnce(getters, handler) /\ LastAsks /\ OneMessage /\ MismatchHasACause
  BY DEF ChatInv
<1>3. /\ q \in Numbers /\ desk \in Seq(Letters) /\ answers \in Seq(Numbers)
  BY <1>1, <1>2 DEF ChatShapes
<1>4. CASE desk' = Append(desk, <<q, "report">>) /\ UNCHANGED answers
             /\ causes' = causes \cup {"extra"}
  <2>1. <<q, "report">> \in Letters
    BY <1>3 DEF Letters
  <2>2. desk' \in Seq(Letters)
    BY <1>3, <1>4, <2>1
  <2> QED BY <1>1, <1>3, <1>4, <2>2, SaysMore
<1>5. CASE answers' = Append(answers, q) /\ UNCHANGED desk /\ causes' = causes \cup {"extra"}
  <2>1. answers' \in Seq(Numbers)
    BY <1>3, <1>5
  <2> QED BY <1>1, <1>3, <1>5, <2>1, SaysMore
<1>6. CASE UNCHANGED <<desk, answers, causes>>
  <2>1. ChatShapes'
    BY <1>1, <1>2, <1>6 DEF ChatShapes, Numbers, Letters
  <2>2. QueuedOnce(getters, handler)' /\ LastAsks' /\ MismatchHasACause' /\ OneMessage'
    BY <1>1, <1>2, <1>6 DEF QueuedOnce, LastAsks, Awaits, MismatchHasACause, OneMessage, UnderWay
  <2> QED BY <2>1, <2>2 DEF ChatInv
<1> QED BY <1>4, <1>5, <1>6 DEF Finishes

-----------------------------------------------------------------------------
\* Waking the first of those who wait.
LEMMA WakesIs ==
  ASSUME NEW waits \in Seq(Sockets), NEW handlers \in [Sockets -> Handlings],
         QueuedOnce(waits, handlers), WakesFirst(waits, handlers)
  PROVE  /\ getters' \in Seq(Sockets) /\ handler' \in [Sockets -> Handlings]
         /\ QueuedOnce(getters, handler)'
         /\ \A k \in Sockets :
              handler'[k] \in {"waiting", "woken"} <=> handlers[k] \in {"waiting", "woken"}
<1>1. CASE waits = << >>
  BY <1>1 DEF WakesFirst, QueuedOnce
<1>2. CASE waits # << >>
  <2>1. /\ getters' = Tail(waits) /\ handler' = [handlers EXCEPT ![Head(waits)] = "woken"]
    BY <1>2 DEF WakesFirst
  <2>2. /\ Len(waits) \in Nat /\ Len(waits) > 0 /\ Head(waits) = waits[1] /\ waits[1] \in Sockets
        /\ Tail(waits) \in Seq(Sockets) /\ Len(Tail(waits)) = Len(waits) - 1
        /\ \A i \in 1 .. Len(waits) - 1 : Tail(waits)[i] = waits[i + 1]
    BY <1>2
  <2>3. /\ \A i \in 1 .. Len(waits) : waits[i] \in Sockets /\ handlers[waits[i]] = "waiting"
        /\ \A i, j \in 1 .. Len(waits) : waits[i] = waits[j] => i = j
    BY DEF QueuedOnce
  <2>4. /\ handler' \in [Sockets -> Handlings] /\ handler'[waits[1]] = "woken"
        /\ \A k \in Sockets \ {waits[1]} : handler'[k] = handlers[k]
    BY <2>1, <2>2 DEF Handlings
  <2>5. ASSUME NEW i \in 1 .. Len(getters')
        PROVE  handler'[getters'[i]] = "waiting"
    <3>1. /\ i + 1 \in 1 .. Len(waits) /\ getters'[i] = waits[i + 1] /\ i + 1 # 1
          /\ 1 \in 1 .. Len(waits)
      BY <2>1, <2>2
    <3> QED BY <2>3, <2>4, <3>1
  <2>6. ASSUME NEW i \in 1 .. Len(getters'), NEW j \in 1 .. Len(getters'), getters'[i] = getters'[j]
        PROVE  i = j
    <3>1. /\ i + 1 \in 1 .. Len(waits) /\ getters'[i] = waits[i + 1]
          /\ j + 1 \in 1 .. Len(waits) /\ getters'[j] = waits[j + 1]
      BY <2>1, <2>2
    <3>2. i + 1 = j + 1
      BY <2>3, <2>6, <3>1
    <3> QED BY <2>1, <2>2, <3>2
  <2>7. QueuedOnce(getters, handler)'
    BY <2>5, <2>6 DEF QueuedOnce
  <2>8. handlers[waits[1]] = "waiting"
    BY <2>2, <2>3
  <2> QED BY <2>1, <2>2, <2>4, <2>7, <2>8
<1> QED BY <1>1, <1>2

LEMMA DispatchStep ==
  ASSUME ChatInv, Dispatch
  PROVE  ChatInv'
<1>1. /\ answers # << >> /\ shelf' = Append(shelf, Head(answers)) /\ answers' = Tail(answers)
      /\ WakesFirst(getters, handler)
      /\ UNCHANGED <<chat, request, asking, asked, desk, answering, later, given, causes>>
  BY DEF Dispatch
<1>2. ChatShapes /\ QueuedOnce(getters, handler) /\ LastAsks /\ OneMessage /\ MismatchHasACause
  BY DEF ChatInv
<1>3. /\ Head(answers) \in Numbers /\ Head(answers) = answers[1] /\ shelf \in Seq(Numbers)
      /\ answers' \in Seq(Numbers) /\ Len(answers') = Len(answers) - 1
      /\ \A i \in 1 .. Len(answers) - 1 : answers'[i] = answers[i + 1]
  BY <1>1, <1>2, QueuesAre DEF ChatShapes
<1>4. /\ shelf' \in Seq(Numbers) /\ Len(shelf') = Len(shelf) + 1
      /\ \A i \in 1 .. Len(shelf) : shelf'[i] = shelf[i]
      /\ shelf'[Len(shelf) + 1] = answers[1]
  BY <1>1, <1>3
<1>5. /\ getters' \in Seq(Sockets) /\ handler' \in [Sockets -> Handlings]
      /\ QueuedOnce(getters, handler)'
      /\ \A k \in Sockets : Awaits(k)' <=> Awaits(k)
  BY <1>1, <1>2, WakesIs DEF ChatShapes, Awaits
<1>6. ChatShapes'
  BY <1>1, <1>2, <1>3, <1>4, <1>5 DEF ChatShapes, Numbers, Letters
<1>7. LastAsks' /\ MismatchHasACause'
  BY <1>1, <1>2, <1>5 DEF LastAsks, MismatchHasACause
<1>8. OneMessage'
  <2>1. UnderWay' = UnderWay
    <3>1. /\ Len(shelf) \in Nat /\ Len(answers) \in Nat /\ Len(desk) \in Nat
          /\ Len(shelf') = Len(shelf) + 1 /\ Len(answers') = Len(answers) - 1
      BY <1>2, <1>3, <1>4, QueuesAre
    <3>2. desk' = desk /\ answering' = answering
      BY <1>1
    <3>3. PICK n \in {0, 1} : n = IF answering = << >> THEN 0 ELSE 1
      OBVIOUS
    <3>4. UnderWay = Len(desk) + n + Len(answers) + Len(shelf)
      BY <3>3 DEF UnderWay
    <3>5. UnderWay' = Len(desk) + n + Len(answers') + Len(shelf')
      BY <3>2, <3>3 DEF UnderWay
    <3> QED BY <3>1, <3>4, <3>5
  <2>2. ASSUME causes = {}
        PROVE  /\ \A i \in 1 .. Len(shelf') : shelf'[i] = asked
               /\ \A i \in 1 .. Len(answers') : answers'[i] = asked
    <3>1. /\ Len(answers) \in Nat /\ Len(shelf) \in Nat /\ Len(answers) > 0
      BY <1>1, <1>2, QueuesAre DEF ChatShapes
    <3>2. /\ \A i \in 1 .. Len(answers) : answers[i] = asked
          /\ \A i \in 1 .. Len(shelf) : shelf[i] = asked
      BY <1>2, <2>2 DEF OneMessage
    <3> QED BY <1>3, <1>4, <3>1, <3>2
  <2> QED BY <1>1, <1>2, <1>5, <2>1, <2>2 DEF OneMessage
<1> QED BY <1>5, <1>6, <1>7, <1>8 DEF ChatInv

LEMMA GiveUpStep ==
  ASSUME ChatInv, NEW k \in Sockets, GiveUp(k)
  PROVE  ChatInv'
<1> DEFINE left == [handler EXCEPT ![k] = "closed"]
<1>1. /\ Awaits(k) /\ causes' = causes \cup {"late"}
      /\ UNCHANGED <<chat, request, asking, asked, desk, answering, answers, shelf, later, given>>
  BY DEF GiveUp
<1>2. ChatShapes /\ QueuedOnce(getters, handler) /\ LastAsks /\ OneMessage /\ MismatchHasACause
  BY DEF ChatInv
<1>3. /\ left \in [Sockets -> Handlings] /\ left[k] = "closed"
      /\ \A m \in Sockets \ {k} : left[m] = handler[m]
  BY <1>2 DEF ChatShapes, Handlings
<1>4. /\ getters \in Seq(Sockets) /\ Len(getters) \in Nat
      /\ \A i \in 1 .. Len(getters) : getters[i] \in Sockets /\ handler[getters[i]] = "waiting"
      /\ \A i, j \in 1 .. Len(getters) : getters[i] = getters[j] => i = j
  BY <1>2, QueuesAre DEF ChatShapes, QueuedOnce
<1> HIDE DEF left
<1>5. (\A i \in 1 .. Len(getters) : getters[i] # k) => QueuedOnce(getters, left)
  BY <1>3, <1>4 DEF QueuedOnce
<1>6. /\ getters' \in Seq(Sockets) /\ handler' \in [Sockets -> Handlings]
      /\ QueuedOnce(getters, handler)'
      /\ \A m \in Sockets :
           handler'[m] \in {"waiting", "woken"} <=> left[m] \in {"waiting", "woken"}
  <2>1. CASE handler[k] = "woken" /\ shelf # << >>
    <3>1. WakesFirst(getters, left)
      BY <2>1 DEF GiveUp, left
    <3>2. QueuedOnce(getters, left)
      BY <1>4, <1>5, <2>1
    <3> QED BY <1>3, <1>4, <3>1, <3>2, WakesIs
  <2>2. CASE ~(handler[k] = "woken" /\ shelf # << >>)
    <3>1. Withdraws(k) /\ handler' = left
      BY <2>2 DEF GiveUp, left
    <3>2. CASE ~Contains(getters, k) /\ UNCHANGED getters
      <4>1. QueuedOnce(getters, left)
        BY <1>5, <3>2 DEF Contains
      <4>2. QueuedOnce(getters, handler)'
        BY <3>1, <3>2, <4>1 DEF QueuedOnce
      <4> QED BY <1>3, <1>4, <3>1, <3>2, <4>2
    <3>3. CASE \E i \in DOMAIN getters : getters[i] = k /\ getters' = RemoveAt(getters, i)
      <4>1. PICK i \in 1 .. Len(getters) : getters[i] = k /\ getters' = RemoveAt(getters, i)
        BY <1>4, <3>3
      <4>2. /\ getters' \in Seq(Sockets) /\ Len(getters') = Len(getters) - 1
            /\ \A j \in 1 .. Len(getters) - 1 : getters'[j] = getters[IF j < i THEN j ELSE j + 1]
        BY <1>4, <4>1, TakenOut
      <4>3. ASSUME NEW j \in 1 .. Len(getters')
            PROVE  left[getters'[j]] = "waiting"
        <5>1. PICK n \in 1 .. Len(getters) : getters'[j] = getters[n] /\ n # i
          <6> DEFINE a == IF j < i THEN j ELSE j + 1
          <6>1. a \in 1 .. Len(getters) /\ a # i
            BY <1>4, <4>2
          <6>2. getters'[j] = getters[a]
            BY <4>2
          <6> HIDE DEF a
          <6> QED BY <6>1, <6>2
        <5>2. getters[n] \in Sockets \ {k} /\ handler[getters[n]] = "waiting"
          BY <1>4, <4>1, <5>1
        <5> QED BY <1>3, <5>1, <5>2
      <4>4. ASSUME NEW j \in 1 .. Len(getters'), NEW n \in 1 .. Len(getters'),
                   getters'[j] = getters'[n]
            PROVE  j = n
        <5> DEFINE a == IF j < i THEN j ELSE j + 1
                   b == IF n < i THEN n ELSE n + 1
        <5>1. a \in 1 .. Len(getters) /\ b \in 1 .. Len(getters) /\ (a = b => j = n)
          BY <1>4, <4>2
        <5>2. getters'[j] = getters[a] /\ getters'[n] = getters[b]
          BY <4>2
        <5> HIDE DEF a, b
        <5> QED BY <1>4, <4>4, <5>1, <5>2
      <4>5. QueuedOnce(getters, handler)'
        BY <3>1, <4>3, <4>4 DEF QueuedOnce
      <4> QED BY <1>3, <3>1, <4>2, <4>5
    <3> QED BY <3>1, <3>2, <3>3 DEF Withdraws
  <2> QED BY <2>1, <2>2
<1>7. \A m \in Sockets : Awaits(m)' => Awaits(m)
  BY <1>3, <1>6 DEF Awaits
<1>8. ChatShapes'
  BY <1>1, <1>2, <1>6 DEF ChatShapes, Numbers, Letters
<1>9. LastAsks'
  BY <1>1, <1>2, <1>7 DEF LastAsks
<1>10. OneMessage' /\ MismatchHasACause'
  BY <1>1, <1>2 DEF OneMessage, MismatchHasACause
<1> QED BY <1>6, <1>8, <1>9, <1>10 DEF ChatInv

\* A socket that takes a message hands it to its client, or finds it gone.
LEMMA GivesIs ==
  ASSUME ChatShapes, shelf # << >>, NEW k \in Sockets, NEW p \in Nat, Gives(k, p, Head(shelf))
  PROVE  /\ shelf' = Tail(shelf)
         /\ given' \subseteq given \cup {<<p, Head(shelf)>>}
         /\ handler' \in [Sockets -> Handlings] /\ handler'[k] \in {"open", "closed"}
         /\ \A m \in Sockets \ {k} : handler'[m] = handler[m]
<1>1. PICK h \in {"open", "closed"} : handler' = [handler EXCEPT ![k] = h]
  BY DEF Gives, Handles
<1>2. /\ handler' \in [Sockets -> Handlings] /\ handler'[k] \in {"open", "closed"}
      /\ \A m \in Sockets \ {k} : handler'[m] = handler[m]
  BY <1>1 DEF ChatShapes, Handlings
<1> QED BY <1>2 DEF Gives

\* A socket that is not among those who wait joins them at the end, or does
\* something else than waiting.
LEMMA Joins ==
  ASSUME ChatInv, NEW k \in Sockets, handler[k] # "waiting",
         handler' \in [Sockets -> Handlings],
         \A m \in Sockets \ {k} : handler'[m] = handler[m],
         getters' = getters \/ (getters' = Append(getters, k) /\ handler'[k] = "waiting")
  PROVE  getters' \in Seq(Sockets) /\ QueuedOnce(getters, handler)'
<1>1. getters \in Seq(Sockets) /\ Len(getters) \in Nat
  BY QueuesAre DEF ChatInv, ChatShapes
<1>2. /\ \A i \in 1 .. Len(getters) : getters[i] \in Sockets /\ handler[getters[i]] = "waiting"
      /\ \A i, j \in 1 .. Len(getters) : getters[i] = getters[j] => i = j
  BY <1>1 DEF ChatInv, QueuedOnce
<1>3. \A i \in 1 .. Len(getters) : getters[i] \in Sockets \ {k} /\ handler'[getters[i]] = "waiting"
  BY <1>2
<1>4. CASE getters' = getters
  BY <1>1, <1>2, <1>3, <1>4 DEF QueuedOnce
<1>5. CASE getters' = Append(getters, k) /\ handler'[k] = "waiting"
  <2>1. /\ getters' \in Seq(Sockets) /\ Len(getters') = Len(getters) + 1
        /\ \A i \in 1 .. Len(getters) : getters'[i] = getters[i]
        /\ getters'[Len(getters) + 1] = k
    BY <1>1, <1>5
  <2>2. ASSUME NEW i \in 1 .. Len(getters')
        PROVE  handler'[getters'[i]] = "waiting"
    <3>1. i \in 1 .. Len(getters) \/ i = Len(getters) + 1
      BY <1>1, <2>1
    <3> QED BY <1>3, <1>5, <2>1, <3>1
  <2>3. ASSUME NEW i \in 1 .. Len(getters'), NEW j \in 1 .. Len(getters'),
               getters'[i] = getters'[j]
        PROVE  i = j
    <3>1. /\ i \in 1 .. Len(getters) \/ i = Len(getters) + 1
          /\ j \in 1 .. Len(getters) \/ j = Len(getters) + 1
      BY <1>1, <2>1
    <3> QED BY <1>2, <1>3, <2>1, <2>3, <3>1
  <2> QED BY <2>1, <2>2, <2>3 DEF QueuedOnce
<1> QED BY <1>4, <1>5

LEMMA PutQuestionStep ==
  ASSUME ChatInv, NEW k \in Sockets, PutQuestion(k)
  PROVE  ChatInv'
<1>1. /\ handler[k] = "sending" /\ asked < MaxQuestions /\ asked' = asked + 1
      /\ asking' = [asking EXCEPT ![k] = asked'] /\ desk' = Append(desk, <<asked', "question">>)
      /\ causes' = IF \E j \in Sockets : Awaits(j) THEN causes \cup {"overlap"} ELSE causes
      /\ UNCHANGED <<chat, request, answering, answers, later>>
  BY DEF PutQuestion
<1>2. ChatShapes /\ QueuedOnce(getters, handler) /\ LastAsks /\ OneMessage /\ MismatchHasACause
  BY DEF ChatInv
<1>3. /\ asked \in Nat /\ asked' \in Numbers' /\ Numbers \subseteq Numbers' /\ asked \in 0 .. asked'
      /\ asked' \in 0 .. MaxQuestions
  BY <1>1, <1>2, ChatConstants, QueuesAre DEF Numbers
<1>4. Letters \subseteq Letters' /\ <<asked', "question">> \in Letters'
  BY <1>3 DEF Letters
<1>5. /\ desk \in Seq(Letters') /\ answers \in Seq(Numbers') /\ shelf \in Seq(Numbers')
      /\ Len(desk) \in Nat
  <2>1. desk \in Seq(Letters) /\ answers \in Seq(Numbers) /\ shelf \in Seq(Numbers)
    BY <1>2 DEF ChatShapes
  <2>2. ASSUME NEW S, NEW T, S \subseteq T PROVE Seq(S) \subseteq Seq(T)
    BY <2>2
  <2> QED BY <1>2, <1>3, <1>4, <2>1, <2>2, QueuesAre
<1>6. /\ desk' \in Seq(Letters') /\ Len(desk') = Len(desk) + 1
      /\ \A i \in 1 .. Len(desk) : desk'[i] = desk[i]
      /\ desk'[Len(desk) + 1] = <<asked', "question">>
  BY <1>1, <1>4, <1>5
<1>7. /\ asking' \in [Sockets -> 0 .. asked'] /\ asking'[k] = asked'
      /\ \A m \in Sockets \ {k} : asking'[m] = asking[m]
  <2>1. 0 .. asked \subseteq 0 .. asked' /\ asked' \in 0 .. asked'
    BY <1>1, <1>3
  <2> QED BY <1>1, <1>2, <2>1 DEF ChatShapes
<1>8. causes' \subseteq {"late", "extra", "overlap"} /\ causes \subseteq causes'
  BY <1>1, <1>2 DEF ChatShapes
<1>9. "overlap" \notin causes' => "overlap" \notin causes /\ \A j \in Sockets : ~Awaits(j)
  BY <1>1
<1>10. causes' = {} => causes = {} /\ UnderWay = 0
  <2> SUFFICES ASSUME causes' = {} PROVE causes = {} /\ UnderWay = 0
    OBVIOUS
  <2>1. causes = {} /\ \A j \in Sockets : ~Awaits(j)
    BY <1>8, <1>9
  <2>2. UnderWay \in Nat
    BY <1>2, QueuesAre DEF UnderWay
  <2> HIDE DEF UnderWay
  <2> QED BY <1>2, <2>1, <2>2 DEF OneMessage
<1>11. UnderWay = 0 => desk = << >> /\ answering = << >> /\ answers = << >> /\ shelf = << >>
  BY <1>2, QueuesAre DEF UnderWay, ChatShapes
<1>12. /\ answering' \in {<< >>} \cup Letters' /\ later' \subseteq Numbers' \X Kinds
       /\ given \subseteq Numbers' \X Numbers'
  BY <1>1, <1>2, <1>3, <1>4 DEF ChatShapes
<1>13. CASE chat # "stopped" /\ shelf # << >>
  <2>1. Gives(k, asked', Head(shelf)) /\ UNCHANGED getters
    BY <1>13 DEF PutQuestion
  <2>2. /\ shelf' = Tail(shelf) /\ given' \subseteq given \cup {<<asked', Head(shelf)>>}
        /\ handler' \in [Sockets -> Handlings] /\ handler'[k] \in {"open", "closed"}
        /\ \A m \in Sockets \ {k} : handler'[m] = handler[m]
    BY <1>2, <1>3, <1>13, <2>1, GivesIs DEF Numbers
  <2>3. getters' \in Seq(Sockets) /\ QueuedOnce(getters, handler)'
    BY <1>1, <2>1, <2>2, Joins
  <2>4. Head(shelf) \in Numbers /\ shelf' \in Seq(Numbers')
    <3>1. Head(shelf) \in Numbers
      BY <1>2, <1>13, QueuesAre
    <3>2. Tail(shelf) \in Seq(Numbers')
      BY <1>5, <1>13
    <3> QED BY <2>2, <3>1, <3>2
  <2>5. given' \subseteq Numbers' \X Numbers'
    BY <1>3, <1>12, <2>2, <2>4
  <2>6. ChatShapes'
    BY <1>1, <1>2, <1>3, <1>5, <1>6, <1>7, <1>8, <1>12, <2>2, <2>3, <2>4, <2>5 DEF ChatShapes
  <2>7. causes' # {}
    BY <1>10, <1>11, <1>13
  <2>8. \A j \in Sockets : Awaits(j)' => Awaits(j) /\ j # k
    BY <2>2 DEF Awaits
  <2>9. LastAsks'
    <3> SUFFICES ASSUME NEW j \in Sockets, Awaits(j)'
                 PROVE  asking'[j] # 0 /\ "overlap" \in causes'
      BY DEF LastAsks
    <3>1. Awaits(j) /\ j # k
      BY <2>8
    <3> QED BY <1>2, <1>7, <1>9, <3>1 DEF LastAsks
  <2>10. MismatchHasACause'
    <3> SUFFICES ASSUME NEW pair \in given', "overlap" \notin causes'
                 PROVE  pair[2] <= pair[1]
      BY <2>7 DEF MismatchHasACause
    <3>1. CASE pair \in given
      BY <1>2, <1>9, <3>1 DEF MismatchHasACause
    <3>2. CASE pair = <<asked', Head(shelf)>>
      BY <1>1, <1>3, <2>4, <3>2 DEF Numbers
    <3> QED BY <2>2, <3>1, <3>2
  <2>11. OneMessage'
    BY <2>7 DEF OneMessage
  <2> QED BY <2>3, <2>6, <2>9, <2>10, <2>11 DEF ChatInv
<1>14. CASE ~(chat # "stopped" /\ shelf # << >>)
  <2>1. /\ Handles(k, "waiting") /\ UNCHANGED <<shelf, given>>
        /\ getters' = getters \/ getters' = Append(getters, k)
    BY <1>14 DEF PutQuestion
  <2>2. /\ handler' \in [Sockets -> Handlings] /\ handler'[k] = "waiting"
        /\ \A m \in Sockets \ {k} : handler'[m] = handler[m]
    BY <1>2, <2>1 DEF Handles, ChatShapes, Handlings
  <2>3. getters' \in Seq(Sockets) /\ QueuedOnce(getters, handler)'
    BY <1>1, <2>1, <2>2, Joins
  <2>4. ChatShapes'
    BY <1>1, <1>2, <1>3, <1>5, <1>6, <1>7, <1>8, <1>12, <2>1, <2>2, <2>3 DEF ChatShapes
  <2>5. "overlap" \notin causes' => \A j \in Sockets : Awaits(j)' => j = k
    <3> SUFFICES ASSUME "overlap" \notin causes', NEW j \in Sockets, j # k PROVE ~Awaits(j)'
      OBVIOUS
    <3>1. ~Awaits(j)
      BY <1>9
    <3> QED BY <2>2, <3>1 DEF Awaits
  <2>6. LastAsks'
    <3> SUFFICES ASSUME NEW j \in Sockets, Awaits(j)'
                 PROVE  /\ asking'[j] # 0
                        /\ "overlap" \notin causes' =>
                             asking'[j] = asked' /\ \A m \in Sockets : Awaits(m)' => m = j
      BY DEF LastAsks
    <3>1. CASE j = k
      BY <1>1, <1>3, <1>7, <2>5, <3>1
    <3>2. CASE j # k
      <4>1. Awaits(j)
        BY <2>2, <3>2 DEF Awaits
      <4> QED BY <1>2, <1>7, <2>5, <3>2, <4>1 DEF LastAsks
    <3> QED BY <3>1, <3>2
  <2>7. MismatchHasACause'
    BY <1>2, <1>8, <1>9, <2>1 DEF MismatchHasACause
  <2>8. OneMessage'
    <3> SUFFICES ASSUME causes' = {} PROVE OneMessage'
      BY DEF OneMessage
    <3>1. desk = << >> /\ answering' = << >> /\ answers' = << >> /\ shelf' = << >>
      BY <1>1, <1>10, <1>11, <2>1
    <3>2. Len(desk') = 1 /\ desk'[1] = <<asked', "question">>
      BY <1>6, <3>1
    <3>3. Awaits(k)'
      BY <2>2 DEF Awaits
    <3>4. UnderWay' = 1 /\ \A i \in 1 .. Len(desk') : desk'[i][1] = asked'
      BY <3>1, <3>2 DEF UnderWay
    <3> QED BY <3>1, <3>3, <3>4 DEF OneMessage
  <2> QED BY <2>3, <2>4, <2>6, <2>7, <2>8 DEF ChatInv
<1> QED BY <1>13, <1>14

LEMMA TakeAnswerStep ==
  ASSUME ChatInv, NEW k \in Sockets, TakeAnswer(k)
  PROVE  ChatInv'
<1>1. /\ handler[k] = "woken"
      /\ UNCHANGED <<chat, request, asking, asked, desk, answering, answers, later, causes>>
  BY DEF TakeAnswer
<1>2. ChatShapes /\ QueuedOnce(getters, handler) /\ LastAsks /\ OneMessage /\ MismatchHasACause
  BY DEF ChatInv
<1>3. Awaits(k) /\ asking[k] \in 0 .. asked /\ asked \in Nat
  BY <1>1, <1>2, QueuesAre DEF Awaits, ChatShapes
<1>4. /\ asking[k] \in Numbers
      /\ "overlap" \notin causes => asking[k] = asked /\ \A j \in Sockets : Awaits(j) => j = k
  BY <1>2, <1>3 DEF LastAsks, Numbers
<1>5. CASE shelf # << >>
  <2>1. Gives(k, asking[k], Head(shelf)) /\ UNCHANGED getters
    BY <1>5 DEF TakeAnswer
  <2>2. /\ shelf' = Tail(shelf) /\ given' \subseteq given \cup {<<asking[k], Head(shelf)>>}
        /\ handler' \in [Sockets -> Handlings] /\ handler'[k] \in {"open", "closed"}
        /\ \A m \in Sockets \ {k} : handler'[m] = handler[m]
    BY <1>2, <1>3, <1>5, <2>1, GivesIs
  <2>3. getters' \in Seq(Sockets) /\ QueuedOnce(getters, handler)'
    BY <1>1, <2>1, <2>2, Joins
  <2>4. /\ Head(shelf) \in Numbers /\ Head(shelf) = shelf[1] /\ shelf' \in Seq(Numbers)
        /\ Len(shelf') = Len(shelf) - 1 /\ Len(shelf) \in Nat /\ Len(shelf) > 0
        /\ \A i \in 1 .. Len(shelf) - 1 : shelf'[i] = shelf[i + 1]
    BY <1>2, <1>5, <2>2, QueuesAre
  <2>5. given' \subseteq Numbers \X Numbers
    <3>1. given \subseteq Numbers \X Numbers
      BY <1>2 DEF ChatShapes
    <3> QED BY <1>4, <2>2, <2>4, <3>1
  <2>6. ChatShapes'
    BY <1>1, <1>2, <2>2, <2>3, <2>4, <2>5 DEF ChatShapes, Numbers, Letters
  <2>7. \A m \in Sockets : Awaits(m)' => Awaits(m) /\ m # k
    BY <2>2 DEF Awaits
  <2>8. LastAsks'
    BY <1>1, <1>2, <2>7 DEF LastAsks
  <2>9. causes = {} => UnderWay' = 0 /\ Head(shelf) = asked
    <3> SUFFICES ASSUME causes = {} PROVE UnderWay' = 0 /\ Head(shelf) = asked
      OBVIOUS
    <3>1. UnderWay <= 1 /\ \A i \in 1 .. Len(shelf) : shelf[i] = asked
      BY <1>2 DEF OneMessage
    <3>2. Len(desk) \in Nat /\ Len(answers) \in Nat /\ Len(desk') = Len(desk)
          /\ Len(answers') = Len(answers) /\ answering' = answering
      BY <1>1, <1>2, QueuesAre
    <3>3. UnderWay' = UnderWay - 1 /\ UnderWay >= 1 /\ UnderWay \in Nat /\ UnderWay' \in Nat
      BY <2>4, <3>2 DEF UnderWay
    <3>4. Head(shelf) = asked
      BY <2>4, <3>1
    <3> HIDE DEF UnderWay
    <3> QED BY <3>1, <3>3, <3>4
  <2>10. OneMessage'
    <3> SUFFICES ASSUME causes = {} PROVE OneMessage'
      BY <1>1 DEF OneMessage
    <3>1. \A i \in 1 .. Len(shelf') : shelf'[i] = asked
      <4>1. \A i \in 1 .. Len(shelf) : shelf[i] = asked
        BY <1>2 DEF OneMessage
      <4> QED BY <2>4, <4>1
    <3>2. UnderWay' = 0
      BY <2>9
    <3> HIDE DEF UnderWay
    <3> QED BY <1>1, <1>2, <3>1, <3>2 DEF OneMessage
  <2>11. MismatchHasACause'
    <3> SUFFICES ASSUME NEW pair \in given'
                 PROVE  /\ causes = {} => pair[2] = pair[1]
                        /\ "overlap" \notin causes => pair[2] <= pair[1]
      BY <1>1 DEF MismatchHasACause
    <3>1. CASE pair \in given
      BY <1>2, <3>1 DEF MismatchHasACause
    <3>2. CASE pair = <<asking[k], Head(shelf)>>
      <4>1. Head(shelf) <= asked
        BY <1>3, <2>4 DEF Numbers
      <4>2. pair[1] = asking[k] /\ pair[2] = Head(shelf)
        BY <3>2
      <4>3. causes = {} => pair[2] = pair[1]
        BY <1>4, <2>9, <4>2
      <4> QED BY <1>4, <4>1, <4>2, <4>3
    <3> QED BY <2>2, <3>1, <3>2
  <2> QED BY <2>3, <2>6, <2>8, <2>10, <2>11 DEF ChatInv
<1>6. CASE shelf = << >>
  <2>1. Handles(k, "waiting") /\ getters' = Append(getters, k) /\ UNCHANGED <<shelf, given>>
    BY <1>6 DEF TakeAnswer
  <2>2. /\ handler' \in [Sockets -> Handlings] /\ handler'[k] = "waiting"
        /\ \A m \in Sockets \ {k} : handler'[m] = handler[m]
    BY <1>2, <2>1 DEF Handles, ChatShapes, Handlings
  <2>3. getters' \in Seq(Sockets) /\ QueuedOnce(getters, handler)'
    BY <1>1, <2>1, <2>2, Joins
  <2>4. \A m \in Sockets : Awaits(m)' <=> Awaits(m)
    BY <1>1, <2>2 DEF Awaits
  <2>5. ChatShapes'
    BY <1>1, <1>2, <2>1, <2>2, <2>3 DEF ChatShapes, Numbers, Letters
  <2>6. LastAsks' /\ MismatchHasACause' /\ OneMessage'
    BY <1>1, <1>2, <2>1, <2>4 DEF LastAsks, MismatchHasACause, OneMessage, UnderWay
  <2> QED BY <2>3, <2>5, <2>6 DEF ChatInv
<1> QED BY <1>5, <1>6

-----------------------------------------------------------------------------
LEMMA ChatStep == ChatInv /\ [ChatNext]_chatVars => ChatInv'
<1> SUFFICES ASSUME ChatInv, [ChatNext]_chatVars PROVE ChatInv'
  OBVIOUS
<1>1. CASE UNCHANGED chatVars
  BY <1>1 DEF chatVars, ChatInv, ChatShapes, Numbers, Letters, QueuedOnce, LastAsks, Awaits,
              OneMessage, UnderWay, MismatchHasACause
<1>2. ASSUME NEW k \in Sockets,
             \/ Connect(k) \/ Disconnect(k) \/ Ask(k)
             \/ PutQuestion(k) \/ TakeAnswer(k) \/ GiveUp(k)
      PROVE  ChatInv'
  BY <1>2, SocketSteps, PutQuestionStep, TakeAnswerStep, GiveUpStep
<1>3. CASE AgentTakes \/ NotifyApproval \/ AgentAnswers \/ Dispatch
  BY <1>3, AgentTakesStep, NotifyApprovalStep, AgentAnswersStep, DispatchStep
<1>4. ASSUME NEW kind \in Kinds, LeaveWork(kind) PROVE ChatInv'
  BY <1>4, LeaveWorkStep
<1>5. ASSUME NEW q \in Questions, NEW kind \in Kinds, Finishes(q, kind) PROVE ChatInv'
  BY <1>5, FinishesStep
<1>6. ASSUME NEW o \in Operators, StartChat(o) \/ StopChat(o) \/ ApplyChat(o) \/ ChatEnds(o)
      PROVE  ChatInv'
  BY <1>6, OperatorSteps
<1> QED BY <1>1, <1>2, <1>3, <1>4, <1>5, <1>6 DEF ChatNext

LEMMA ChatInvariance == ChatSpec => []ChatInv
<1>1. ChatInit => ChatInv
  BY ChatInitially
<1>2. ChatInv /\ [ChatNext]_chatVars => ChatInv'
  BY ChatStep
<1> QED BY <1>1, <1>2, PTL DEF ChatSpec

\* The state keeps its shapes; no question has a number that nobody asked.
THEOREM ChatTypeCorrect == ChatSpec => []ChatTypeOK
<1>1. ChatInv => ChatTypeOK
  <2> SUFFICES ASSUME ChatInv PROVE ChatTypeOK
    OBVIOUS
  <2>1. ChatShapes
    BY DEF ChatInv
  <2>2. Numbers \subseteq Questions /\ Letters \subseteq Questions \X {"question", "report"}
    BY <2>1, ChatConstants, QueuesAre DEF ChatShapes, Numbers, Letters, Questions
  <2>3. ASSUME NEW S, NEW T, S \subseteq T PROVE Seq(S) \subseteq Seq(T)
    BY <2>3
  <2>4. /\ desk \in Seq(Questions \X {"question", "report"})
        /\ answers \in Seq(Questions) /\ shelf \in Seq(Questions)
    <3>1. desk \in Seq(Letters) /\ answers \in Seq(Numbers) /\ shelf \in Seq(Numbers)
      BY <2>1 DEF ChatShapes
    <3> HIDE DEF Numbers, Letters, Questions
    <3> QED BY <2>2, <2>3, <3>1
  <2>5. /\ answering \in {<< >>} \cup (Questions \X {"question", "report"})
        /\ later \subseteq Questions \X Kinds /\ given \subseteq Questions \X Questions
    BY <2>1, <2>2 DEF ChatShapes
  <2> QED BY <2>1, <2>4, <2>5 DEF ChatShapes, ChatTypeOK, Handlings
<1> QED BY <1>1, ChatInvariance, PTL

\* A client gets the answer to its own question unless one was given up, somebody
\* else has spoken, or two sockets have waited at once; and one to a later
\* question only in that last case.
THEOREM MismatchesAreExplained == ChatSpec => []MismatchHasACause
<1>1. ChatInv => MismatchHasACause
  BY DEF ChatInv
<1> QED BY <1>1, ChatInvariance, PTL
===============================================================================
