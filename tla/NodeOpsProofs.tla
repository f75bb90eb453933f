---------------------------- MODULE NodeOpsProofs ----------------------------
(***************************************************************************)
(* Facts about the operators of NodeOps, for every value of its constants:  *)
(* what each NodeService method keeps of a store and what it does to a task *)
(* and to the events.  NodeTasksProofs and NodeProcessesProofs build on it. *)
(***************************************************************************)
EXTENDS NodeOps, SequenceTheorems, TLAPS

-----------------------------------------------------------------------------
(* What each operator of NodeOps makes of a store.                          *)

\* Replacing the node table by one over at least the same ids.
LEMMA NodesReplaced ==
  ASSUME NEW s, IsStore(s), NEW f, DOMAIN s.nodes \subseteq DOMAIN f,
         DOMAIN f \subseteq Nodes, f \in [DOMAIN f -> Node]
  PROVE  /\ IsStore([s EXCEPT !.nodes = f])
         /\ [s EXCEPT !.nodes = f].tasks = s.tasks
         /\ [s EXCEPT !.nodes = f].events = s.events
BY DEF IsStore

LEMMA RotatedType ==
  ASSUME NEW nd \in Node, NEW t \in Nat
  PROVE  Rotated(nd, t, TokenTTL) \in Node
<1>1. Expiry(t, TokenTTL) \in Nat
  BY TimesAssumption DEF Expiry
<1>2. nd.token + 1 \in Nat
  BY DEF Node
<1> QED BY <1>1, <1>2 DEF Node, Rotated

\* The arguments of update_policy, before they are cleaned.
IsRaw(raw) ==
  /\ raw.allowed \subseteq Types /\ raw.approve \subseteq Types
  /\ raw.gateway \in BOOLEAN
  /\ raw.maxRunning \in Int /\ raw.timeout \in Int /\ raw.count \in Int

LEMMA CleanPolicyType ==
  ASSUME NEW raw, IsRaw(raw)
  PROVE  CleanPolicy(raw) \in Policy
BY DEF IsRaw, CleanPolicy, AtLeast, Policy

\* The operations on nodes keep the tasks and the events.
LEMMA RegisterKeeps ==
  ASSUME NEW s, IsStore(s), NEW n \in Nodes, NEW caps \in SUBSET Caps, NEW t \in Nat
  PROVE  /\ IsStore(RegisterNode(s, n, caps, t))
         /\ RegisterNode(s, n, caps, t).tasks = s.tasks
         /\ RegisterNode(s, n, caps, t).events = s.events
<1> DEFINE nd == [token |-> 1, revoked |-> FALSE, expires |-> Expiry(t, TokenTTL),
                  caps |-> caps, policy |-> DefaultPolicy]
           f == [m \in DOMAIN s.nodes \cup {n} |-> IF m = n THEN nd ELSE s.nodes[m]]
<1>1. nd \in Node
  BY TimesAssumption DEF Node, Expiry, DefaultPolicy, Policy
<1>2. f \in [DOMAIN f -> Node] /\ DOMAIN s.nodes \subseteq DOMAIN f /\ DOMAIN f \subseteq Nodes
  BY <1>1 DEF IsStore
<1>3. RegisterNode(s, n, caps, t) = [s EXCEPT !.nodes = f]
  BY DEF RegisterNode, IsStore
<1> HIDE DEF f
<1> QED BY <1>2, <1>3, NodesReplaced

LEMMA UpdatePolicyKeeps ==
  ASSUME NEW s, IsStore(s), NEW n \in DOMAIN s.nodes, NEW raw, IsRaw(raw)
  PROVE  /\ IsStore(UpdatePolicy(s, n, raw))
         /\ UpdatePolicy(s, n, raw).tasks = s.tasks
         /\ UpdatePolicy(s, n, raw).events = s.events
<1> DEFINE f == [s.nodes EXCEPT ![n].policy = CleanPolicy(raw)]
<1>1. f \in [DOMAIN f -> Node] /\ DOMAIN f = DOMAIN s.nodes
  BY CleanPolicyType DEF IsStore, Node
<1>2. UpdatePolicy(s, n, raw) = [s EXCEPT !.nodes = f]
  BY DEF UpdatePolicy, IsStore
<1> QED BY <1>1, <1>2, NodesReplaced DEF IsStore

LEMMA RotateTokenKeeps ==
  ASSUME NEW s, IsStore(s), NEW n \in DOMAIN s.nodes, NEW t \in Nat
  PROVE  /\ IsStore(RotateToken(s, n, t, TokenTTL))
         /\ RotateToken(s, n, t, TokenTTL).tasks = s.tasks
         /\ RotateToken(s, n, t, TokenTTL).events = s.events
<1> DEFINE f == [s.nodes EXCEPT ![n] = Rotated(@, t, TokenTTL)]
<1>1. f \in [DOMAIN f -> Node] /\ DOMAIN f = DOMAIN s.nodes
  BY RotatedType DEF IsStore
<1>2. RotateToken(s, n, t, TokenTTL) = [s EXCEPT !.nodes = f]
  BY DEF RotateToken, IsStore
<1> QED BY <1>1, <1>2, NodesReplaced DEF IsStore

LEMMA RevokeTokenKeeps ==
  ASSUME NEW s, IsStore(s), NEW n \in DOMAIN s.nodes
  PROVE  /\ IsStore(RevokeToken(s, n))
         /\ RevokeToken(s, n).tasks = s.tasks
         /\ RevokeToken(s, n).events = s.events
<1> DEFINE f == [s.nodes EXCEPT ![n].revoked = TRUE]
<1>1. f \in [DOMAIN f -> Node] /\ DOMAIN f = DOMAIN s.nodes
  BY DEF IsStore, Node
<1>2. RevokeToken(s, n) = [s EXCEPT !.nodes = f]
  BY DEF RevokeToken, IsStore
<1> QED BY <1>1, <1>2, NodesReplaced DEF IsStore

LEMMA ScanRotateKeeps ==
  ASSUME NEW s, IsStore(s), NEW t \in Nat, NEW w \in Nat
  PROVE  /\ IsStore(ScanRotate(s, t, w, TokenTTL))
         /\ ScanRotate(s, t, w, TokenTTL).tasks = s.tasks
         /\ ScanRotate(s, t, w, TokenTTL).events = s.events
<1> DEFINE f == [n \in DOMAIN s.nodes |->
                   IF NeedsRotation(s.nodes[n], t, w)
                     THEN Rotated(s.nodes[n], t, TokenTTL) ELSE s.nodes[n]]
<1>1. f \in [DOMAIN f -> Node] /\ DOMAIN f = DOMAIN s.nodes
  BY RotatedType DEF IsStore
<1>2. ScanRotate(s, t, w, TokenTTL) = [s EXCEPT !.nodes = f]
  BY DEF ScanRotate, IsStore
<1> QED BY <1>1, <1>2, NodesReplaced DEF IsStore

-----------------------------------------------------------------------------
(* The operations on tasks: what they keep, and what becomes of each task.  *)

LEMMA StoreForms ==
  ASSUME NEW s, IsStore(s), NEW ts, NEW ev
  PROVE  /\ [s EXCEPT !.tasks = ts] = [nodes |-> s.nodes, tasks |-> ts, events |-> s.events]
         /\ [s EXCEPT !.events = ev] = [nodes |-> s.nodes, tasks |-> s.tasks, events |-> ev]
<1>1. [s EXCEPT !.tasks = ts] = [nodes |-> s.nodes, tasks |-> ts, events |-> s.events]
  BY DEF IsStore
<1>2. [s EXCEPT !.events = ev] = [nodes |-> s.nodes, tasks |-> s.tasks, events |-> ev]
  BY DEF IsStore
<1> QED BY <1>1, <1>2

\* A store whose tasks are replaced one by one, with some more events.
LEMMA MakeStore ==
  ASSUME NEW s, IsStore(s), NEW ts, NEW ev \in SUBSET Event,
         ts \in [DOMAIN s.tasks -> Task],
         \A i \in DOMAIN s.tasks : ts[i].node = s.tasks[i].node
  PROVE  IsStore([nodes |-> s.nodes, tasks |-> ts, events |-> s.events \cup ev])
<1>1. ts \in Seq(Task)
  <2>1. DOMAIN s.tasks = 1 .. Len(s.tasks) /\ Len(s.tasks) \in Nat
    BY DEF IsStore
  <2> QED BY <2>1, SeqDef
<1>2. \A i \in DOMAIN ts : ts[i].node \in DOMAIN s.nodes
  BY DEF IsStore
<1> QED BY <1>1, <1>2 DEF IsStore

\* One task is changed, at most one event is recorded.
LEMMA OneTaskReplaced ==
  ASSUME NEW s, IsStore(s), NEW i \in DOMAIN s.tasks, NEW t \in Task,
         t.node = s.tasks[i].node
  PROVE  /\ IsStore([s EXCEPT !.tasks[i] = t])
         /\ [s EXCEPT !.tasks[i] = t].nodes = s.nodes
         /\ [s EXCEPT !.tasks[i] = t].tasks = [s.tasks EXCEPT ![i] = t]
         /\ [s EXCEPT !.tasks[i] = t].events = s.events
<1> DEFINE ts == [s.tasks EXCEPT ![i] = t]
<1>1. ts \in Seq(Task) /\ DOMAIN ts = DOMAIN s.tasks
  BY DEF IsStore
<1>2. [s EXCEPT !.tasks[i] = t] = [s EXCEPT !.tasks = ts]
  BY DEF IsStore
<1>3. \A j \in DOMAIN ts : ts[j].node \in DOMAIN s.nodes
  BY DEF IsStore
<1> HIDE DEF ts
<1>4. [s EXCEPT !.tasks = ts] = [nodes |-> s.nodes, tasks |-> ts, events |-> s.events]
  BY StoreForms
<1>5. IsStore([nodes |-> s.nodes, tasks |-> ts, events |-> s.events])
  BY <1>1, <1>3 DEF IsStore
<1> QED BY <1>2, <1>4, <1>5 DEF ts

LEMMA RecordKeeps ==
  ASSUME NEW s, IsStore(s), NEW i \in Nat, NEW action \in EventActions,
         NEW actor \in Approvers \cup {NoOwner}
  PROVE  /\ IsStore(Record(s, i, action, actor))
         /\ Record(s, i, action, actor).nodes = s.nodes
         /\ Record(s, i, action, actor).tasks = s.tasks
         /\ Record(s, i, action, actor).events =
              s.events \cup {[task |-> i, action |-> action, actor |-> actor]}
<1>1. [task |-> i, action |-> action, actor |-> actor] \in Event
  BY DEF Event
<1> DEFINE ev == {[task |-> i, action |-> action, actor |-> actor]}
<1>2. Record(s, i, action, actor)
        = [nodes |-> s.nodes, tasks |-> s.tasks, events |-> s.events \cup ev]
  BY StoreForms DEF Record
<1> HIDE DEF ev
<1>3. IsStore([nodes |-> s.nodes, tasks |-> s.tasks, events |-> s.events \cup ev])
  BY <1>1 DEF IsStore, ev
<1> QED BY <1>2, <1>3 DEF ev

LEMMA StartedType ==
  ASSUME NEW t \in Task, NEW status \in Active, NEW who \in Nodes \cup {Gateway}
  PROVE  /\ Started(t, status, who) \in Task
         /\ Started(t, status, who).node = t.node
BY DEF Started, Task, Status, Active

LEMMA ClosedType ==
  ASSUME NEW t \in Task, NEW status \in Terminal
  PROVE  Closed(t, status) \in Task /\ Closed(t, status).node = t.node
BY DEF Closed, Task, Status, Terminal

LEMMA ApprovedByType ==
  ASSUME NEW t \in Task, NEW who \in Approvers
  PROVE  ApprovedBy(t, who) \in Task /\ ApprovedBy(t, who).node = t.node
<1> DEFINE u == [t EXCEPT !.approvals = @ \cup {who}]
<1>1. u \in Task /\ u.node = t.node
  BY DEF Task
<1>2. ApprovedBy(t, who)
        = [u EXCEPT !.status = IF Quorum(u) THEN "pending" ELSE "pending_approval"]
  BY DEF ApprovedBy
<1>3. {"pending", "pending_approval"} \subseteq Status
  BY DEF Status
<1> HIDE DEF u
<1> QED BY <1>1, <1>2, <1>3 DEF Task

LEMMA StartStep ==
  ASSUME NEW s, IsStore(s), NEW i \in DOMAIN s.tasks, NEW status \in Active,
         NEW who \in Nodes \cup {Gateway}
  PROVE  /\ IsStore(Start(s, i, status, who))
         /\ Start(s, i, status, who).nodes = s.nodes
         /\ Start(s, i, status, who).tasks =
              [s.tasks EXCEPT ![i] = Started(s.tasks[i], status, who)]
         /\ Start(s, i, status, who).events = s.events
<1>1. s.tasks[i] \in Task
  BY DEF IsStore
<1>2. Start(s, i, status, who) = [s EXCEPT !.tasks[i] = Started(s.tasks[i], status, who)]
  BY DEF Start, IsStore
<1> QED BY <1>1, <1>2, StartedType, OneTaskReplaced

LEMMA CloseStep ==
  ASSUME NEW s, IsStore(s), NEW i \in DOMAIN s.tasks, NEW status \in Terminal
  PROVE  LET s2 == [s EXCEPT !.tasks[i] = Closed(@, status)]
         IN  /\ IsStore(s2)
             /\ s2.nodes = s.nodes
             /\ s2.tasks = [s.tasks EXCEPT ![i] = Closed(s.tasks[i], status)]
             /\ s2.events = s.events
<1>1. s.tasks[i] \in Task
  BY DEF IsStore
<1>2. [s EXCEPT !.tasks[i] = Closed(@, status)]
        = [s EXCEPT !.tasks[i] = Closed(s.tasks[i], status)]
  BY DEF IsStore
<1> QED BY <1>1, <1>2, ClosedType, OneTaskReplaced

LEMMA CompleteStep ==
  ASSUME NEW s, IsStore(s), NEW i \in DOMAIN s.tasks, NEW ok
  PROVE  /\ IsStore(Complete(s, i, ok))
         /\ Complete(s, i, ok).nodes = s.nodes
         /\ \E status \in {"done", "error"} :
              Complete(s, i, ok).tasks = [s.tasks EXCEPT ![i] = Closed(s.tasks[i], status)]
         /\ Complete(s, i, ok).events = s.events
<1> DEFINE status == IF ok THEN "done" ELSE "error"
<1>1. status \in {"done", "error"} /\ status \in Terminal
  BY DEF Terminal
<1>2. Complete(s, i, ok) = [s EXCEPT !.tasks[i] = Closed(@, status)]
  BY DEF Complete
<1> HIDE DEF status
<1> QED BY <1>1, <1>2, CloseStep

LEMMA RejectStep ==
  ASSUME NEW s, IsStore(s), NEW i \in DOMAIN s.tasks, NEW who \in Approvers
  PROVE  /\ IsStore(Reject(s, i, who))
         /\ Reject(s, i, who).nodes = s.nodes
         /\ Reject(s, i, who).tasks = [s.tasks EXCEPT ![i] = Closed(s.tasks[i], "rejected")]
         /\ Reject(s, i, who).events =
              s.events \cup {[task |-> i, action |-> "rejected", actor |-> who]}
<1> DEFINE s2 == [s EXCEPT !.tasks[i] = Closed(@, "rejected")]
<1>1. /\ IsStore(s2)
      /\ s2.nodes = s.nodes
      /\ s2.tasks = [s.tasks EXCEPT ![i] = Closed(s.tasks[i], "rejected")]
      /\ s2.events = s.events
  BY CloseStep DEF Terminal
<1>2. i \in Nat /\ "rejected" \in EventActions
  BY DEF IsStore, EventActions
<1>3. Reject(s, i, who) = Record(s2, i, "rejected", who)
  BY DEF Reject
<1> HIDE DEF s2
<1> QED BY <1>1, <1>2, <1>3, RecordKeeps

LEMMA ApproveStep ==
  ASSUME NEW s, IsStore(s), NEW i \in DOMAIN s.tasks, NEW who \in Approvers
  PROVE  LET u == ApprovedBy(s.tasks[i], who)
         IN  /\ IsStore(Approve(s, i, who))
             /\ Approve(s, i, who).nodes = s.nodes
             /\ Approve(s, i, who).tasks = [s.tasks EXCEPT ![i] = u]
             /\ Approve(s, i, who).events =
                  s.events \cup {[task |-> i, actor |-> who,
                                  action |-> IF Quorum(u) THEN "approved" ELSE "approved_step"]}
<1> DEFINE u == ApprovedBy(s.tasks[i], who)
           s2 == [s EXCEPT !.tasks[i] = u]
           action == IF Quorum(u) THEN "approved" ELSE "approved_step"
<1>1. u \in Task /\ u.node = s.tasks[i].node
  BY ApprovedByType DEF IsStore
<1>2. i \in Nat /\ action \in EventActions
  BY DEF IsStore, EventActions
<1>3. Approve(s, i, who) = Record(s2, i, action, who)
  BY DEF Approve
<1> HIDE DEF u, action
<1>4. /\ IsStore(s2)
      /\ s2.nodes = s.nodes
      /\ s2.tasks = [s.tasks EXCEPT ![i] = u]
      /\ s2.events = s.events
  BY <1>1, OneTaskReplaced
<1> HIDE DEF s2
<1>5. /\ IsStore(Approve(s, i, who))
      /\ Approve(s, i, who).nodes = s.nodes
      /\ Approve(s, i, who).tasks = [s.tasks EXCEPT ![i] = u]
      /\ Approve(s, i, who).events =
           s.events \cup {[task |-> i, action |-> action, actor |-> who]}
  BY <1>2, <1>3, <1>4, RecordKeeps
<1> QED BY <1>5 DEF u, action

LEMMA ExpireStep ==
  ASSUME NEW s, IsStore(s), NEW t \in Nat
  PROVE  LET late == {i \in DOMAIN s.tasks : Overdue(s.tasks[i], t)}
             s2   == ExpireApprovals(s, t)
         IN  /\ IsStore(s2)
             /\ s2.nodes = s.nodes
             /\ s2.tasks = [i \in DOMAIN s.tasks |->
                              IF i \in late THEN Closed(s.tasks[i], "rejected") ELSE s.tasks[i]]
             /\ s2.events = s.events \cup
                  {[task |-> i, action |-> "expired", actor |-> NoOwner] : i \in late}
<1> DEFINE late == {i \in DOMAIN s.tasks : Overdue(s.tasks[i], t)}
           ts == [i \in DOMAIN s.tasks |->
                    IF i \in late THEN Closed(s.tasks[i], "rejected") ELSE s.tasks[i]]
           ev == {[task |-> i, action |-> "expired", actor |-> NoOwner] : i \in late}
<1>1. \A i \in DOMAIN s.tasks : s.tasks[i] \in Task /\ i \in Nat
  BY DEF IsStore
<1>2. ev \in SUBSET Event
  BY <1>1 DEF Event, EventActions
<1>3. /\ ts \in [DOMAIN s.tasks -> Task]
      /\ \A i \in DOMAIN s.tasks : ts[i].node = s.tasks[i].node
  BY <1>1, ClosedType DEF Terminal
<1>4. ExpireApprovals(s, t) = [nodes |-> s.nodes, tasks |-> ts, events |-> s.events \cup ev]
  BY DEF ExpireApprovals, TimedOut
<1> HIDE DEF ts, ev
<1>5. /\ IsStore(ExpireApprovals(s, t))
      /\ ExpireApprovals(s, t).nodes = s.nodes
      /\ ExpireApprovals(s, t).tasks = ts
      /\ ExpireApprovals(s, t).events = s.events \cup ev
  <2>1. IsStore([nodes |-> s.nodes, tasks |-> ts, events |-> s.events \cup ev])
    BY <1>2, <1>3, MakeStore
  <2> QED BY <1>4, <2>1
<1> QED BY <1>5 DEF ts, ev

LEMMA AddStep ==
  ASSUME NEW s, IsStore(s), NEW n \in DOMAIN s.nodes, NEW req \in Requests,
         NEW key \in Keys \cup {NoKey}, NEW now0 \in Nat
  PROVE  LET t  == NewTask(s, n, req, key, now0)
             s2 == AddTask(s, n, req, key, now0)
         IN  /\ t \in Task
             /\ IsStore(s2)
             /\ s2.nodes = s.nodes
             /\ s2.tasks = Append(s.tasks, t)
             /\ s2.events = IF t.needs
                  THEN s.events \cup {[task |-> Len(s.tasks) + 1, action |-> "submitted",
                                       actor |-> NoOwner]}
                  ELSE s.events
<1> DEFINE t == NewTask(s, n, req, key, now0)
           s1 == [s EXCEPT !.tasks = Append(@, t)]
<1>1. s.nodes[n].policy \in Policy /\ n \in Nodes
  BY DEF IsStore, Node
<1>2. t \in Task /\ t.node = n
  <2>1. s.nodes[n].policy.count \in Nat \ {0} /\ s.nodes[n].policy.timeout \in Nat
    BY <1>1 DEF Policy
  <2>2. {"pending", "pending_approval"} \subseteq Status
    BY DEF Status
  <2> QED BY <1>1, <2>1, <2>2 DEF NewTask, Task
<1> HIDE DEF t
<1>3. Append(s.tasks, t) \in Seq(Task) /\ Len(s.tasks) + 1 \in Nat
  BY <1>2 DEF IsStore
<1>4. s1 = [nodes |-> s.nodes, tasks |-> Append(s.tasks, t), events |-> s.events]
  BY StoreForms
<1>5. \A i \in DOMAIN Append(s.tasks, t) : Append(s.tasks, t)[i].node \in DOMAIN s.nodes
  BY <1>2 DEF IsStore
<1>6. IsStore(s1) /\ s1.nodes = s.nodes /\ s1.tasks = Append(s.tasks, t) /\ s1.events = s.events
  BY <1>3, <1>4, <1>5 DEF IsStore
<1>7. Len(s1.tasks) = Len(s.tasks) + 1
  BY <1>6 DEF IsStore
<1>8. AddTask(s, n, req, key, now0)
        = IF t.needs THEN Record(s1, Len(s1.tasks), "submitted", NoOwner) ELSE s1
  BY DEF AddTask, t
<1> HIDE DEF s1
<1>9. "submitted" \in EventActions
  BY DEF EventActions
<1>10. CASE t.needs
  BY <1>2, <1>3, <1>6, <1>7, <1>8, <1>9, <1>10, RecordKeeps DEF t
<1>11. CASE ~t.needs
  BY <1>2, <1>6, <1>8, <1>11 DEF t
<1> QED BY <1>10, <1>11

-----------------------------------------------------------------------------
(* What a method may do to a task.                                         *)

TaskStep(t, u) ==
  \/ u = t
  \/ t.status = "pending_approval" /\ \E who \in Approvers : u = ApprovedBy(t, who)
  \/ /\ t.status \in {"pending", "leased"}
     /\ \E who \in {t.node, Gateway}, status \in Active :
          /\ u = Started(t, status, who)
          /\ status = "leased" => who = t.node /\ t.status = "pending"
          /\ who = Gateway => t.status = "pending"
  \/ \E status \in Terminal : u = Closed(t, status)

LEMMA TaskStepFields ==
  ASSUME NEW t \in Task, NEW u, TaskStep(t, u)
  PROVE  /\ u.node = t.node /\ u.key = t.key /\ u.created = t.created
         /\ u.needs = t.needs /\ u.count = t.count
         /\ u.status = "pending" /\ t.status # "pending" => Quorum(u)
         /\ t.status # "pending_approval" => u.approvals = t.approvals
<1>1. CASE u = t
  BY <1>1
<1>2. CASE t.status = "pending_approval" /\ \E who \in Approvers : u = ApprovedBy(t, who)
  <2>1. PICK who \in Approvers : u = ApprovedBy(t, who)
    BY <1>2
  <2> DEFINE v == [t EXCEPT !.approvals = @ \cup {who}]
  <2>2. u = [v EXCEPT !.status = IF Quorum(v) THEN "pending" ELSE "pending_approval"]
    BY <2>1 DEF ApprovedBy
  <2>3. v \in Task /\ v.node = t.node /\ v.key = t.key /\ v.created = t.created
        /\ v.needs = t.needs /\ v.count = t.count
    BY DEF Task
  <2> HIDE DEF v
  <2>4. u.approvals = v.approvals /\ u.count = v.count
    BY <2>2, <2>3 DEF Task
  <2>5. u.status = IF Quorum(v) THEN "pending" ELSE "pending_approval"
    BY <2>2, <2>3 DEF Task
  <2>6. Quorum(u) <=> Quorum(v)
    BY <2>4 DEF Quorum
  <2>8. u.node = v.node /\ u.key = v.key /\ u.created = v.created /\ u.needs = v.needs
    BY <2>2, <2>3 DEF Task
  <2> QED BY <1>2, <2>3, <2>4, <2>5, <2>6, <2>8
<1>3. CASE \E who \in {t.node, Gateway}, status \in Active :
             /\ t.status \in {"pending", "leased"}
             /\ u = Started(t, status, who)
             /\ status = "leased" => t.status = "pending"
  BY <1>3 DEF Started, Task, Active
<1>4. CASE \E status \in Terminal : u = Closed(t, status)
  BY <1>4 DEF Closed, Task, Terminal
<1> QED BY <1>1, <1>2, <1>3, <1>4 DEF TaskStep

OwnerOK(t) ==
  /\ t.status \in {"pending_approval", "pending"} => t.owner = NoOwner
  /\ t.status = "leased" => t.owner = t.node

QuorumOK(t) == t.needs /\ t.status \in {"pending"} \cup Active => Quorum(t)

LEMMA TaskStepOwner ==
  ASSUME NEW t \in Task, NEW u, TaskStep(t, u), OwnerOK(t)
  PROVE  OwnerOK(u) /\ (t.owner # NoOwner => u.owner = t.owner)
<1>1. CASE u = t
  BY <1>1
<1>2. CASE t.status = "pending_approval" /\ \E who \in Approvers : u = ApprovedBy(t, who)
  <2>1. t.owner = NoOwner
    BY <1>2 DEF OwnerOK
  <2>2. u.owner = t.owner /\ u.status \in {"pending", "pending_approval"}
    BY <1>2 DEF ApprovedBy, Task
  <2> QED BY <2>1, <2>2 DEF OwnerOK
<1>3. CASE \E who \in {t.node, Gateway}, status \in Active :
             /\ t.status \in {"pending", "leased"}
             /\ u = Started(t, status, who)
             /\ status = "leased" => who = t.node /\ t.status = "pending"
             /\ who = Gateway => t.status = "pending"
  BY <1>3, OwnersAssumption DEF Started, Task, Active, OwnerOK
<1>4. CASE \E status \in Terminal : u = Closed(t, status)
  BY <1>4 DEF Closed, Task, Terminal, OwnerOK
<1> QED BY <1>1, <1>2, <1>3, <1>4 DEF TaskStep

LEMMA TaskStepQuorum ==
  ASSUME NEW t \in Task, NEW u, TaskStep(t, u), QuorumOK(t)
  PROVE  QuorumOK(u)
<1>1. u = t \/ t.status = "pending_approval" \/ t.status \in {"pending", "leased"}
        \/ \E status \in Terminal : u = Closed(t, status)
  BY DEF TaskStep
<1>2. CASE u = t
  BY <1>2
<1>3. CASE t.status = "pending_approval"
  <2>1. u.status \in {"pending", "pending_approval"} \cup Terminal
    BY <1>3 DEF TaskStep, ApprovedBy, Closed, Task, Terminal
  <2>2. u.status = "pending" => Quorum(u)
    BY <1>3, TaskStepFields
  <2> QED BY <2>1, <2>2 DEF QuorumOK, Active, Terminal
<1>4. CASE t.status \in {"pending", "leased"}
  <2>1. u.approvals = t.approvals /\ u.count = t.count /\ u.needs = t.needs
    BY <1>4, TaskStepFields
  <2> QED BY <1>4, <2>1 DEF QuorumOK, Quorum, Active
<1>5. CASE \E status \in Terminal : u = Closed(t, status)
  BY <1>5 DEF Closed, Task, Terminal, Active, QuorumOK
<1> QED BY <1>1, <1>2, <1>3, <1>4, <1>5

-----------------------------------------------------------------------------
(* A sound store: a released task has its quorum, the events tell how each  *)
(* task came to its status, and no event is about a task that is not there. *)

Actors(ev, i, actions) == {e.actor : e \in {f \in ev : f.task = i /\ f.action \in actions}}

Explained(t, i, ev) ==
  /\ t.approvals = Actors(ev, i, {"approved", "approved_step"})
  /\ t.needs => Actors(ev, i, {"submitted"}) # {}
  /\ t.needs /\ t.status \in {"pending"} \cup Active => Actors(ev, i, {"approved"}) # {}
  /\ t.status = "rejected" => Actors(ev, i, {"rejected", "expired"}) # {}

Sound(s) ==
  /\ IsStore(s)
  /\ \A i \in DOMAIN s.tasks : QuorumOK(s.tasks[i]) /\ Explained(s.tasks[i], i, s.events)
  /\ \A e \in s.events : e.task \in DOMAIN s.tasks

LEMMA EmptySound == Sound(EmptyStore)
BY DEF Sound, EmptyStore, IsStore

\* Only the nodes are changed.
LEMMA NodesSound ==
  ASSUME NEW s, Sound(s), NEW s2, IsStore(s2), s2.tasks = s.tasks, s2.events = s.events
  PROVE  Sound(s2)
BY DEF Sound

\* One task is changed, and the new events are about it.
LEMMA OneTaskSound ==
  ASSUME NEW s, Sound(s), NEW s2, IsStore(s2), NEW i \in DOMAIN s.tasks, NEW u,
         s2.tasks = [s.tasks EXCEPT ![i] = u], s.events \subseteq s2.events,
         \A e \in s2.events \ s.events : e.task = i, QuorumOK(u), Explained(u, i, s2.events)
  PROVE  Sound(s2)
<1>1. DOMAIN s2.tasks = DOMAIN s.tasks
  OBVIOUS
<1>2. ASSUME NEW j \in DOMAIN s.tasks
      PROVE  QuorumOK(s2.tasks[j]) /\ Explained(s2.tasks[j], j, s2.events)
  <2>1. CASE j = i
    BY <2>1
  <2>2. CASE j # i
    <3>1. s2.tasks[j] = s.tasks[j] /\ QuorumOK(s.tasks[j]) /\ Explained(s.tasks[j], j, s.events)
      BY <2>2 DEF Sound
    <3>2. \A actions : Actors(s2.events, j, actions) = Actors(s.events, j, actions)
      BY <2>2 DEF Actors
    <3> QED BY <3>1, <3>2 DEF Explained
  <2> QED BY <2>1, <2>2
<1>3. \A e \in s2.events : e.task \in DOMAIN s2.tasks
  BY <1>1 DEF Sound
<1> QED BY <1>1, <1>2, <1>3 DEF Sound

LEMMA SoundTask ==
  ASSUME NEW s, Sound(s), NEW i \in DOMAIN s.tasks
  PROVE  /\ IsStore(s) /\ s.tasks[i] \in Task /\ i \in Nat
         /\ QuorumOK(s.tasks[i]) /\ Explained(s.tasks[i], i, s.events)
BY DEF Sound, IsStore

LEMMA StartSound ==
  ASSUME NEW s, Sound(s), NEW i \in DOMAIN s.tasks, NEW status \in Active,
         NEW who \in Nodes \cup {Gateway}, s.tasks[i].status \in {"pending", "leased"}
  PROVE  Sound(Start(s, i, status, who))
<1> DEFINE t == s.tasks[i]
           u == Started(t, status, who)
           s2 == Start(s, i, status, who)
<1>1. IsStore(s) /\ t \in Task /\ QuorumOK(t) /\ Explained(t, i, s.events)
  BY SoundTask
<1>2. IsStore(s2) /\ s2.tasks = [s.tasks EXCEPT ![i] = u] /\ s2.events = s.events
  BY <1>1, StartStep
<1>3. /\ u.approvals = t.approvals /\ u.needs = t.needs /\ u.count = t.count
      /\ u.status = status
  BY <1>1 DEF Started, Task
<1> HIDE DEF u, s2
<1>4. QuorumOK(u)
  BY <1>1, <1>3 DEF QuorumOK, Quorum, Active
<1>5. Explained(u, i, s2.events)
  BY <1>1, <1>2, <1>3 DEF Explained, Active
<1>7. Sound(s2)
  BY <1>2, <1>4, <1>5, OneTaskSound
<1> QED BY <1>7 DEF s2

LEMMA CompleteSound ==
  ASSUME NEW s, Sound(s), NEW i \in DOMAIN s.tasks, NEW ok
  PROVE  Sound(Complete(s, i, ok))
<1> DEFINE t == s.tasks[i]
           s2 == Complete(s, i, ok)
<1>1. IsStore(s) /\ t \in Task /\ QuorumOK(t) /\ Explained(t, i, s.events)
  BY SoundTask
<1>2. PICK status \in {"done", "error"} : s2.tasks = [s.tasks EXCEPT ![i] = Closed(t, status)]
  BY <1>1, CompleteStep
<1>3. IsStore(s2) /\ s2.events = s.events
  BY <1>1, CompleteStep
<1> DEFINE u == Closed(t, status)
<1>4. u.approvals = t.approvals /\ u.needs = t.needs /\ u.status = status
  BY <1>1 DEF Closed, Task
<1>5. s2.tasks = [s.tasks EXCEPT ![i] = u]
  BY <1>2
<1> HIDE DEF u, s2
<1>6. QuorumOK(u) /\ Explained(u, i, s2.events)
  BY <1>1, <1>3, <1>4 DEF QuorumOK, Explained, Active
<1>8. Sound(s2)
  BY <1>3, <1>5, <1>6, OneTaskSound
<1> QED BY <1>8 DEF s2

LEMMA RejectSound ==
  ASSUME NEW s, Sound(s), NEW i \in DOMAIN s.tasks, NEW who \in Approvers
  PROVE  Sound(Reject(s, i, who))
<1> DEFINE t == s.tasks[i]
           u == Closed(t, "rejected")
           e == [task |-> i, action |-> "rejected", actor |-> who]
           s2 == Reject(s, i, who)
<1>1. IsStore(s) /\ t \in Task /\ Explained(t, i, s.events)
  BY SoundTask
<1>2. IsStore(s2) /\ s2.tasks = [s.tasks EXCEPT ![i] = u] /\ s2.events = s.events \cup {e}
  BY <1>1, RejectStep
<1>3. u.approvals = t.approvals /\ u.needs = t.needs /\ u.status = "rejected"
  BY <1>1 DEF Closed, Task
<1>4. e.task = i /\ e.action = "rejected"
  OBVIOUS
<1> HIDE DEF u, s2, e
<1>5. /\ Actors(s2.events, i, {"approved", "approved_step"})
           = Actors(s.events, i, {"approved", "approved_step"})
      /\ Actors(s.events, i, {"submitted"}) \subseteq Actors(s2.events, i, {"submitted"})
      /\ Actors(s2.events, i, {"rejected", "expired"}) # {}
  BY <1>2, <1>4 DEF Actors
<1>6. QuorumOK(u) /\ Explained(u, i, s2.events)
  BY <1>1, <1>3, <1>5 DEF QuorumOK, Explained, Active
<1>7. Sound(s2)
  BY <1>2, <1>4, <1>6, OneTaskSound
<1> QED BY <1>7 DEF s2

LEMMA ApproveSound ==
  ASSUME NEW s, Sound(s), NEW i \in DOMAIN s.tasks, NEW who \in Approvers,
         s.tasks[i].status = "pending_approval"
  PROVE  Sound(Approve(s, i, who))
<1> DEFINE t == s.tasks[i]
           u == ApprovedBy(t, who)
           e == [task |-> i, actor |-> who,
                 action |-> IF Quorum(u) THEN "approved" ELSE "approved_step"]
           s2 == Approve(s, i, who)
<1>1. IsStore(s) /\ t \in Task /\ QuorumOK(t) /\ Explained(t, i, s.events)
  BY SoundTask
<1>2. IsStore(s2) /\ s2.tasks = [s.tasks EXCEPT ![i] = u] /\ s2.events = s.events \cup {e}
  BY <1>1, ApproveStep
<1>3. /\ u.approvals = t.approvals \cup {who} /\ u.needs = t.needs
      /\ u.status = IF Quorum(u) THEN "pending" ELSE "pending_approval"
  <2> DEFINE v == [t EXCEPT !.approvals = @ \cup {who}]
  <2>1. v \in Task /\ v.approvals = t.approvals \cup {who} /\ v.needs = t.needs
    BY <1>1 DEF Task
  <2>2. u = [v EXCEPT !.status = IF Quorum(v) THEN "pending" ELSE "pending_approval"]
    BY DEF ApprovedBy
  <2> HIDE DEF v
  <2>3. /\ u.approvals = v.approvals /\ u.needs = v.needs /\ u.count = v.count
        /\ u.status = IF Quorum(v) THEN "pending" ELSE "pending_approval"
    BY <2>1, <2>2 DEF Task
  <2>4. Quorum(u) <=> Quorum(v)
    BY <2>3 DEF Quorum
  <2> QED BY <2>1, <2>3, <2>4
<1>4. e.task = i /\ e.actor = who
      /\ e.action = IF Quorum(u) THEN "approved" ELSE "approved_step"
  OBVIOUS
<1> HIDE DEF u, s2, e
<1>5. QuorumOK(u)
  BY <1>3 DEF QuorumOK, Active
<1>6. /\ Actors(s2.events, i, {"approved", "approved_step"})
           = Actors(s.events, i, {"approved", "approved_step"}) \cup {who}
      /\ Actors(s.events, i, {"submitted"}) \subseteq Actors(s2.events, i, {"submitted"})
      /\ Quorum(u) => Actors(s2.events, i, {"approved"}) # {}
  BY <1>2, <1>4 DEF Actors
<1>7. Explained(u, i, s2.events)
  BY <1>1, <1>3, <1>6 DEF Explained, Active
<1>8. Sound(s2)
  BY <1>2, <1>4, <1>5, <1>7, OneTaskSound
<1> QED BY <1>8 DEF s2

LEMMA ExpireSound ==
  ASSUME NEW s, Sound(s), NEW t \in Nat
  PROVE  Sound(ExpireApprovals(s, t))
<1> DEFINE late == {i \in DOMAIN s.tasks : Overdue(s.tasks[i], t)}
           ev == {[task |-> i, action |-> "expired", actor |-> NoOwner] : i \in late}
           s2 == ExpireApprovals(s, t)
<1>1. IsStore(s)
  BY DEF Sound
<1>2. /\ IsStore(s2)
      /\ s2.tasks = [i \in DOMAIN s.tasks |->
                       IF i \in late THEN Closed(s.tasks[i], "rejected") ELSE s.tasks[i]]
      /\ s2.events = s.events \cup ev
  BY <1>1, ExpireStep
<1>3. /\ \A e \in ev : e.task \in late /\ e.action = "expired"
      /\ \A i \in late : [task |-> i, action |-> "expired", actor |-> NoOwner] \in ev
      /\ late \subseteq DOMAIN s.tasks
  OBVIOUS
<1> HIDE DEF late, ev, s2
<1>4. ASSUME NEW i \in DOMAIN s.tasks
      PROVE  QuorumOK(s2.tasks[i]) /\ Explained(s2.tasks[i], i, s2.events)
  <2>1. s.tasks[i] \in Task /\ QuorumOK(s.tasks[i]) /\ Explained(s.tasks[i], i, s.events)
    BY SoundTask
  <2>2. /\ Actors(s2.events, i, {"approved", "approved_step"})
             = Actors(s.events, i, {"approved", "approved_step"})
        /\ Actors(s.events, i, {"submitted"}) \subseteq Actors(s2.events, i, {"submitted"})
        /\ Actors(s.events, i, {"approved"}) \subseteq Actors(s2.events, i, {"approved"})
        /\ Actors(s.events, i, {"rejected", "expired"})
             \subseteq Actors(s2.events, i, {"rejected", "expired"})
    BY <1>2, <1>3 DEF Actors
  <2>3. CASE i \in late
    <3> DEFINE u == Closed(s.tasks[i], "rejected")
               e == [task |-> i, action |-> "expired", actor |-> NoOwner]
    <3>1. s2.tasks[i] = u /\ u.approvals = s.tasks[i].approvals /\ u.needs = s.tasks[i].needs
          /\ u.status = "rejected"
      BY <1>2, <2>1, <2>3 DEF Closed, Task
    <3>2. e \in s2.events /\ e.task = i /\ e.action = "expired"
      BY <1>2, <1>3, <2>3
    <3> HIDE DEF u, e
    <3>3. Actors(s2.events, i, {"rejected", "expired"}) # {}
      BY <3>2 DEF Actors
    <3> QED BY <2>1, <2>2, <3>1, <3>3 DEF QuorumOK, Explained, Active
  <2>4. CASE i \notin late
    BY <1>2, <2>1, <2>2, <2>4 DEF Explained
  <2> QED BY <2>3, <2>4
<1>5. \A e \in s2.events : e.task \in DOMAIN s2.tasks
  BY <1>2, <1>3 DEF Sound
<1>6. Sound(s2)
  BY <1>2, <1>4, <1>5 DEF Sound
<1> QED BY <1>6 DEF s2

LEMMA AddSound ==
  ASSUME NEW s, Sound(s), NEW n \in DOMAIN s.nodes, NEW req \in Requests,
         NEW key \in Keys \cup {NoKey}, NEW now0 \in Nat
  PROVE  Sound(AddTask(s, n, req, key, now0))
<1> DEFINE t == NewTask(s, n, req, key, now0)
           k == Len(s.tasks) + 1
           e == [task |-> k, action |-> "submitted", actor |-> NoOwner]
           s2 == AddTask(s, n, req, key, now0)
<1>1. IsStore(s) /\ s.tasks \in Seq(Task)
  BY DEF Sound, IsStore
<1>2. /\ t \in Task /\ IsStore(s2) /\ s2.tasks = Append(s.tasks, t)
      /\ s2.events = IF t.needs THEN s.events \cup {e} ELSE s.events
  BY <1>1, AddStep
<1>3. t.approvals = {} /\ t.status = IF t.needs THEN "pending_approval" ELSE "pending"
  BY DEF NewTask
<1>4. e.task = k /\ e.action = "submitted"
  OBVIOUS
<1> HIDE DEF t, s2, e
<1>5. /\ k \notin DOMAIN s.tasks /\ DOMAIN s2.tasks = DOMAIN s.tasks \cup {k}
      /\ s2.tasks[k] = t /\ \A i \in DOMAIN s.tasks : s2.tasks[i] = s.tasks[i]
  BY <1>1, <1>2
<1> HIDE DEF k
<1>6. \A actions : Actors(s.events, k, actions) = {}
  BY <1>5 DEF Sound, Actors
<1>7. /\ Actors(s2.events, k, {"approved", "approved_step"}) = {}
      /\ t.needs => Actors(s2.events, k, {"submitted"}) # {}
  <2>1. CASE t.needs
    <3>1. e \in s2.events /\ \A f \in s2.events : f \in s.events \/ f = e
      BY <1>2, <2>1
    <3>2. \A f \in s.events : f.task # k
      BY <1>5 DEF Sound
    <3>3. Actors(s2.events, k, {"approved", "approved_step"}) = {}
      BY <3>1, <3>2, <1>4 DEF Actors
    <3>4. Actors(s2.events, k, {"submitted"}) # {}
      BY <3>1, <1>4 DEF Actors
    <3> QED BY <3>3, <3>4
  <2>2. CASE ~t.needs
    BY <1>2, <1>6, <2>2
  <2> QED BY <2>1, <2>2
<1>8. QuorumOK(t) /\ Explained(t, k, s2.events)
  BY <1>3, <1>7 DEF QuorumOK, Explained, Active
<1>9. ASSUME NEW i \in DOMAIN s.tasks
      PROVE  QuorumOK(s2.tasks[i]) /\ Explained(s2.tasks[i], i, s2.events)
  <2>1. i # k /\ \A actions : Actors(s2.events, i, actions) = Actors(s.events, i, actions)
    BY <1>2, <1>4, <1>5 DEF Actors
  <2> QED BY <1>5, <2>1, SoundTask DEF Explained
<1>10. \A f \in s2.events : f.task \in DOMAIN s2.tasks
  BY <1>2, <1>4, <1>5 DEF Sound
<1>11. Sound(s2)
  BY <1>2, <1>5, <1>8, <1>9, <1>10 DEF Sound
<1> QED BY <1>11 DEF s2
=============================================================================
