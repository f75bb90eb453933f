--------------------------- MODULE NodeTasksProofs ---------------------------
(* Theorems about NodeTasks, for every value of its constants.              *)
EXTENDS NodeTasks, NodeOpsProofs

-----------------------------------------------------------------------------
(* Every step of Next keeps the shape of the store, and either adds a task  *)
(* or takes every task one step further.                                    *)

TasksStep(ts, us) ==
  DOMAIN us = DOMAIN ts /\ \A i \in DOMAIN ts : TaskStep(ts[i], us[i])

Added(s, s2) ==
  \E n \in DOMAIN s.nodes, req \in Requests, key \in Keys \cup {NoKey} :
    /\ Admits(s, n, req, key, now)
    /\ s2 = AddTask(s, n, req, key, now)

StoreStep(s, s2) ==
  /\ IsStore(s2)
  /\ TasksStep(s.tasks, s2.tasks) \/ Added(s, s2)

LEMMA NodesOnly ==
  ASSUME NEW s, NEW s2, IsStore(s2), s2.tasks = s.tasks
  PROVE  StoreStep(s, s2)
BY DEF StoreStep, TasksStep, TaskStep

LEMMA OneTask ==
  ASSUME NEW s, IsStore(s), NEW s2, IsStore(s2), NEW i \in DOMAIN s.tasks, NEW u,
         s2.tasks = [s.tasks EXCEPT ![i] = u], TaskStep(s.tasks[i], u)
  PROVE  StoreStep(s, s2)
<1>1. \A j \in DOMAIN s.tasks : TaskStep(s.tasks[j], s2.tasks[j])
  <2> SUFFICES ASSUME NEW j \in DOMAIN s.tasks PROVE TaskStep(s.tasks[j], s2.tasks[j])
    OBVIOUS
  <2>1. CASE j = i
    BY <2>1
  <2>2. CASE j # i
    BY <2>2 DEF TaskStep
  <2> QED BY <2>1, <2>2
<1>2. DOMAIN s2.tasks = DOMAIN s.tasks
  OBVIOUS
<1> QED BY <1>1, <1>2 DEF StoreStep, TasksStep

LEMMA RegisterShape ==
  ASSUME TypeOK, NEW n \in Nodes, NEW caps \in CapSets, Register(n, caps)
  PROVE  StoreStep(store, store')
BY RegisterKeeps, NodesOnly, InputsAssumption DEF TypeOK, Register

LEMMA RawPoliciesAreRaw == \A raw \in RawPolicies : IsRaw(raw)
BY InputsAssumption DEF IsRaw

LEMMA SetPolicyShape ==
  ASSUME TypeOK, NEW n \in Nodes, NEW raw \in RawPolicies, SetPolicy(n, raw)
  PROVE  StoreStep(store, store')
BY UpdatePolicyKeeps, NodesOnly, RawPoliciesAreRaw DEF TypeOK, SetPolicy

LEMMA RotateShape ==
  ASSUME TypeOK, NEW n \in Nodes, Rotate(n)
  PROVE  StoreStep(store, store')
BY RotateTokenKeeps, NodesOnly DEF TypeOK, Rotate

LEMMA RevokeShape ==
  ASSUME TypeOK, NEW n \in Nodes, Revoke(n)
  PROVE  StoreStep(store, store')
BY RevokeTokenKeeps, NodesOnly DEF TypeOK, Revoke

LEMMA ScanShape ==
  ASSUME TypeOK, NEW w \in Windows, Scan(w)
  PROVE  StoreStep(store, store')
BY ScanRotateKeeps, NodesOnly, BoundsAssumption DEF TypeOK, Scan

LEMMA AddShape ==
  ASSUME TypeOK, NEW n \in Nodes, NEW req \in Requests, NEW key \in Keys \cup {NoKey},
         Add(n, req, key)
  PROVE  StoreStep(store, store')
<1>1. n \in DOMAIN store.nodes /\ Admits(store, n, req, key, now)
  BY DEF Add, Admits
<1>2. store' = AddTask(store, n, req, key, now)
  BY DEF Add
<1>3. IsStore(store')
  BY <1>1, <1>2, AddStep DEF TypeOK
<1> QED BY <1>1, <1>2, <1>3 DEF StoreStep, Added

LEMMA PullShape ==
  ASSUME TypeOK, NEW n \in Nodes, NEW tok \in Tokens, Pull(n, tok)
  PROVE  StoreStep(store, store')
<1>1. PICK i \in Pullable(store, n) : store' = Start(store, i, "leased", n)
  BY DEF Pull
<1>2. i \in DOMAIN store.tasks /\ store.tasks[i].node = n /\ store.tasks[i].status = "pending"
  BY <1>1 DEF Pullable
<1>3. IsStore(store') /\ store'.tasks =
        [store.tasks EXCEPT ![i] = Started(store.tasks[i], "leased", n)]
  <2>1. IsStore(store) /\ "leased" \in Active
    BY DEF TypeOK, Active
  <2> QED BY <1>1, <1>2, <2>1, StartStep
<1>4. TaskStep(store.tasks[i], Started(store.tasks[i], "leased", n))
  BY <1>2, OwnersAssumption DEF TaskStep, Active
<1> QED BY <1>2, <1>3, <1>4, OneTask DEF TypeOK

LEMMA AckShape ==
  ASSUME TypeOK, NEW n \in Nodes, NEW tok \in Tokens, NEW i \in Tasks, Ack(n, tok, i)
  PROVE  StoreStep(store, store')
<1>1. store.tasks[i].node = n /\ store.tasks[i].status \in {"leased", "pending"}
  BY DEF Ack, Ackable
<1>2. i \in DOMAIN store.tasks /\ store' = Start(store, i, "running", n)
  BY DEF Ack, Tasks
<1>3. IsStore(store') /\ store'.tasks =
        [store.tasks EXCEPT ![i] = Started(store.tasks[i], "running", n)]
  <2>1. IsStore(store) /\ "running" \in Active
    BY DEF TypeOK, Active
  <2> QED BY <1>2, <2>1, StartStep
<1>4. TaskStep(store.tasks[i], Started(store.tasks[i], "running", n))
  BY <1>1, OwnersAssumption DEF TaskStep, Active
<1> QED BY <1>2, <1>3, <1>4, OneTask DEF TypeOK

LEMMA CompleteShape ==
  ASSUME NEW s, IsStore(s), NEW i \in DOMAIN s.tasks, NEW ok
  PROVE  StoreStep(s, Complete(s, i, ok))
<1>1. PICK status \in {"done", "error"} :
        Complete(s, i, ok).tasks = [s.tasks EXCEPT ![i] = Closed(s.tasks[i], status)]
  BY CompleteStep
<1>2. IsStore(Complete(s, i, ok))
  BY CompleteStep
<1>3. TaskStep(s.tasks[i], Closed(s.tasks[i], status))
  BY DEF TaskStep, Terminal
<1> QED BY <1>1, <1>2, <1>3, OneTask

LEMMA ReportShape ==
  ASSUME TypeOK, NEW n \in Nodes, NEW tok \in Tokens, NEW i \in Tasks, NEW ok \in BOOLEAN,
         Report(n, tok, i, ok)
  PROVE  StoreStep(store, store')
BY CompleteShape DEF TypeOK, Report, Tasks

LEMMA ApproveShape ==
  ASSUME TypeOK, NEW i \in Tasks, NEW who \in Approvers, ApproveTask(i, who)
  PROVE  StoreStep(store, store')
<1> DEFINE u == ApprovedBy(store.tasks[i], who)
<1>1. i \in DOMAIN store.tasks /\ store.tasks[i].status = "pending_approval"
  BY DEF ApproveTask, Tasks
<1>2. IsStore(store') /\ store'.tasks = [store.tasks EXCEPT ![i] = u]
  <2>1. IsStore(store) /\ store' = Approve(store, i, who)
    BY DEF TypeOK, ApproveTask
  <2> QED BY <1>1, <2>1, ApproveStep
<1>3. TaskStep(store.tasks[i], u)
  BY <1>1 DEF TaskStep
<1> HIDE DEF u
<1> QED BY <1>1, <1>2, <1>3, OneTask DEF TypeOK

LEMMA RejectShape ==
  ASSUME TypeOK, NEW i \in Tasks, NEW who \in Approvers, RejectTask(i, who)
  PROVE  StoreStep(store, store')
<1>1. i \in DOMAIN store.tasks
  BY DEF Tasks
<1>2. IsStore(store') /\ store'.tasks =
        [store.tasks EXCEPT ![i] = Closed(store.tasks[i], "rejected")]
  BY <1>1, RejectStep DEF RejectTask, TypeOK
<1>3. TaskStep(store.tasks[i], Closed(store.tasks[i], "rejected"))
  BY DEF TaskStep, Terminal
<1> QED BY <1>1, <1>2, <1>3, OneTask DEF TypeOK

LEMMA RunOnceShape ==
  ASSUME TypeOK, RunOnce
  PROVE  StoreStep(store, store')
<1> DEFINE late == {i \in DOMAIN store.tasks : Overdue(store.tasks[i], now)}
           swept == ExpireApprovals(store, now)
<1>1. /\ IsStore(swept)
      /\ DOMAIN swept.tasks = DOMAIN store.tasks
      /\ \A i \in DOMAIN store.tasks :
           swept.tasks[i] = IF i \in late THEN Closed(store.tasks[i], "rejected") ELSE store.tasks[i]
  <2>1. IsStore(store) /\ now \in Nat
    BY DEF TypeOK
  <2>2. /\ IsStore(swept)
        /\ swept.tasks = [i \in DOMAIN store.tasks |->
             IF i \in late THEN Closed(store.tasks[i], "rejected") ELSE store.tasks[i]]
    BY <2>1, ExpireStep
  <2> HIDE DEF swept, late
  <2> QED BY <2>2
<1>2. \A i \in DOMAIN store.tasks : TaskStep(store.tasks[i], swept.tasks[i])
  BY <1>1 DEF TaskStep, Terminal
<1>3. \A i \in DOMAIN store.tasks :
        swept.tasks[i].status = "pending" => swept.tasks[i] = store.tasks[i]
  <2>1. \A i \in DOMAIN store.tasks : store.tasks[i] \in Task
    BY DEF TypeOK, IsStore
  <2> QED BY <1>1, <2>1 DEF Task, Closed
<1> HIDE DEF swept, late
<1>4. CASE store' = swept
  BY <1>1, <1>2, <1>4 DEF StoreStep, TasksStep
<1>5. CASE \E i \in Claimable(swept) : store' = Start(swept, i, "running", Gateway)
  <2>1. PICK i \in Claimable(swept) : store' = Start(swept, i, "running", Gateway)
    BY <1>5
  <2>2. i \in DOMAIN swept.tasks /\ swept.tasks[i].status = "pending"
    BY <2>1 DEF Claimable
  <2>3. IsStore(store') /\ store'.tasks =
          [swept.tasks EXCEPT ![i] = Started(swept.tasks[i], "running", Gateway)]
    <3>1. "running" \in Active
      BY DEF Active
    <3> QED BY <1>1, <2>1, <2>2, <3>1, StartStep
  <2>4. TaskStep(swept.tasks[i], Started(swept.tasks[i], "running", Gateway))
    BY <2>2 DEF TaskStep, Active
  <2>5. \A j \in DOMAIN store.tasks : TaskStep(store.tasks[j], store'.tasks[j])
    BY <1>1, <1>2, <1>3, <2>2, <2>3, <2>4
  <2> QED BY <1>1, <2>3, <2>5 DEF StoreStep, TasksStep
<1> QED BY <1>4, <1>5 DEF RunOnce, swept

\* The dispatcher executes a task of the store.
WorkerOK ==
  wstate = "exec" => wtask \in DOMAIN store.tasks /\ store.tasks[wtask].owner = Gateway

LEMMA FinishShape ==
  ASSUME TypeOK, WorkerOK, NEW ok \in BOOLEAN, Finish(ok)
  PROVE  StoreStep(store, store')
BY CompleteShape DEF TypeOK, WorkerOK, Finish

LEMMA StoreStepOfNext ==
  ASSUME TypeOK, WorkerOK, [Next]_vars
  PROVE  StoreStep(store, store')
<1>1. CASE store' = store
  BY <1>1, NodesOnly DEF TypeOK
<1>2. CASE Operator
  BY <1>2, RegisterShape, SetPolicyShape, RotateShape, RevokeShape, AddShape, ScanShape,
     ApproveShape, RejectShape DEF Operator
<1>3. CASE NodeSide
  BY <1>3, PullShape, AckShape, ReportShape DEF NodeSide
<1>4. CASE Dispatcher
  BY <1>1, <1>4, RunOnceShape, FinishShape DEF Dispatcher, DispatcherStart, DispatcherStop
<1> QED BY <1>1, <1>2, <1>3, <1>4 DEF Next, Tick, vars

\* What one step does to the rank of a task.
LEMMA TaskStepRank ==
  ASSUME NEW t \in Task, NEW u, TaskStep(t, u)
  PROVE  Rank(u.status) >= Rank(t.status)
<1>1. CASE u = t
  BY <1>1 DEF Rank, Task, Status, Active, Terminal
<1>2. CASE t.status = "pending_approval" /\ \E who \in Approvers : u = ApprovedBy(t, who)
  BY <1>2 DEF ApprovedBy, Task, Rank
<1>3. CASE \E who \in {t.node, Gateway}, status \in Active :
             /\ t.status \in {"pending", "leased"}
             /\ u = Started(t, status, who)
             /\ status = "leased" => t.status = "pending"
  BY <1>3 DEF Started, Task, Rank, Active
<1>4. CASE \E status \in Terminal : u = Closed(t, status)
  BY <1>4 DEF Closed, Task, Rank, Terminal, Status, Active
<1> QED BY <1>1, <1>2, <1>3, <1>4 DEF TaskStep

-----------------------------------------------------------------------------
(* Type correctness.                                                        *)

LEMMA InitType == Init => TypeOK /\ WorkerOK
BY DEF Init, TypeOK, WorkerOK, IsStore, EmptyStore

LEMMA TypeStep ==
  ASSUME TypeOK, WorkerOK, [Next]_vars
  PROVE  TypeOK'
<1>1. IsStore(store')
  BY StoreStepOfNext DEF StoreStep
<1>2. now' \in Nat
  BY DEF TypeOK, Next, Operator, NodeSide, Dispatcher, Tick, Register, SetPolicy, Rotate,
         Revoke, Add, Scan, ApproveTask, RejectTask, Pull, Ack, Report, DispatcherStart,
         RunOnce, Finish, DispatcherStop, vars
<1>3. CASE RunOnce
  <2>1. Claimable(ExpireApprovals(store, now)) \subseteq Nat
    <3>1. IsStore(ExpireApprovals(store, now))
      BY ExpireStep DEF TypeOK
    <3> QED BY <3>1 DEF Claimable, IsStore
  <2>2. wstate' \in {"poll", "exec"} /\ wtask' \in Nat
    BY <1>3, <2>1 DEF TypeOK, RunOnce, worker
  <2>3. orphans' \subseteq Nat
    BY <1>3, <2>1 DEF TypeOK, RunOnce, worker
  <2> QED BY <1>1, <1>2, <2>2, <2>3 DEF TypeOK
<1>4. CASE UNCHANGED worker
  BY <1>1, <1>2, <1>4 DEF TypeOK, worker
<1>5. CASE DispatcherStart \/ (\E ok \in BOOLEAN : Finish(ok)) \/ DispatcherStop
  <2>1. wstate' \in {"poll", "down"} /\ wtask' \in Nat /\ orphans' \subseteq Nat
    <3>1. CASE DispatcherStart
      BY <3>1 DEF TypeOK, DispatcherStart
    <3>2. CASE \E ok \in BOOLEAN : Finish(ok)
      BY <3>2 DEF TypeOK, Finish
    <3>3. CASE DispatcherStop
      BY <3>3 DEF TypeOK, DispatcherStop
    <3> QED BY <1>5, <3>1, <3>2, <3>3
  <2> QED BY <1>1, <1>2, <2>1 DEF TypeOK
<1>6. RunOnce \/ UNCHANGED worker
        \/ DispatcherStart \/ (\E ok \in BOOLEAN : Finish(ok)) \/ DispatcherStop
  BY DEF Next, Operator, NodeSide, Dispatcher, Tick, Register, SetPolicy, Rotate,
         Revoke, Add, Scan, ApproveTask, RejectTask, Pull, Ack, Report, vars, worker
<1> QED BY <1>3, <1>4, <1>5, <1>6

-----------------------------------------------------------------------------
(* The inductive invariant: nobody owns a queued task, a leased task belongs *)
(* to its node, and a released task has its quorum.                          *)

TasksOK == \A i \in DOMAIN store.tasks : OwnerOK(store.tasks[i]) /\ QuorumOK(store.tasks[i])

Inv == TypeOK /\ WorkerOK /\ TasksOK /\ Sound(store) /\ GatewayRunsTracked /\ OneTaskPerKey

\* The tasks of the next state, one by one.
LEMMA NextTasks ==
  ASSUME TypeOK, WorkerOK, [Next]_vars
  PROVE  /\ store.tasks \in Seq(Task) /\ store'.tasks \in Seq(Task)
         /\ DOMAIN store.tasks \subseteq DOMAIN store'.tasks
         /\ \A i \in DOMAIN store.tasks : TaskStep(store.tasks[i], store'.tasks[i])
         /\ \A i \in DOMAIN store'.tasks \ DOMAIN store.tasks :
              \E n \in Nodes, req \in Requests, key \in Keys \cup {NoKey} :
                /\ store'.tasks[i] = NewTask(store, n, req, key, now)
                /\ Admits(store, n, req, key, now)
<1>1. StoreStep(store, store') /\ IsStore(store) /\ now \in Nat
  BY StoreStepOfNext DEF TypeOK
<1>2. store.tasks \in Seq(Task) /\ store'.tasks \in Seq(Task) /\ DOMAIN store.nodes \subseteq Nodes
  BY <1>1 DEF StoreStep, IsStore
<1>3. CASE TasksStep(store.tasks, store'.tasks)
  BY <1>2, <1>3 DEF TasksStep
<1>4. CASE Added(store, store')
  <2>1. PICK n \in DOMAIN store.nodes, req \in Requests, key \in Keys \cup {NoKey} :
          Admits(store, n, req, key, now) /\ store' = AddTask(store, n, req, key, now)
    BY <1>4 DEF Added
  <2> DEFINE t == NewTask(store, n, req, key, now)
  <2>2. t \in Task /\ store'.tasks = Append(store.tasks, t)
    BY <1>1, <2>1, AddStep
  <2> HIDE DEF t
  <2>3. /\ DOMAIN store.tasks \subseteq DOMAIN store'.tasks
        /\ \A i \in DOMAIN store.tasks : store'.tasks[i] = store.tasks[i]
        /\ \A i \in DOMAIN store'.tasks \ DOMAIN store.tasks : store'.tasks[i] = t
    BY <1>2, <2>2
  <2>4. \A i \in DOMAIN store.tasks : TaskStep(store.tasks[i], store'.tasks[i])
    BY <2>3 DEF TaskStep
  <2> QED BY <1>2, <2>1, <2>3, <2>4 DEF t
<1> QED BY <1>1, <1>3, <1>4 DEF StoreStep

LEMMA LengthStep ==
  ASSUME TypeOK, WorkerOK, [Next]_vars
  PROVE  Len(store'.tasks) <= Len(store.tasks) + 1
<1>1. StoreStep(store, store') /\ IsStore(store) /\ now \in Nat
  BY StoreStepOfNext DEF TypeOK
<1>2. store.tasks \in Seq(Task) /\ store'.tasks \in Seq(Task)
  BY <1>1 DEF StoreStep, IsStore
<1>3. CASE TasksStep(store.tasks, store'.tasks)
  BY <1>2, <1>3 DEF TasksStep
<1>4. CASE Added(store, store')
  <2>1. PICK n \in DOMAIN store.nodes, req \in Requests, key \in Keys \cup {NoKey} :
          store' = AddTask(store, n, req, key, now)
    BY <1>4 DEF Added
  <2> DEFINE t == NewTask(store, n, req, key, now)
  <2>2. store'.tasks = Append(store.tasks, t)
    BY <1>1, <2>1, AddStep
  <2> HIDE DEF t
  <2> QED BY <1>2, <2>2
<1> QED BY <1>1, <1>3, <1>4 DEF StoreStep

LEMMA TasksStepOK ==
  ASSUME Inv, [Next]_vars
  PROVE  TasksOK'
<1> SUFFICES ASSUME NEW i \in DOMAIN store'.tasks
             PROVE  OwnerOK(store'.tasks[i]) /\ QuorumOK(store'.tasks[i])
  BY DEF TasksOK
<1>1. CASE i \in DOMAIN store.tasks
  <2>1. store.tasks[i] \in Task /\ TaskStep(store.tasks[i], store'.tasks[i])
    BY <1>1, NextTasks DEF Inv
  <2>2. OwnerOK(store.tasks[i]) /\ QuorumOK(store.tasks[i])
    BY <1>1 DEF Inv, TasksOK
  <2> QED BY <2>1, <2>2, TaskStepOwner, TaskStepQuorum
<1>2. CASE i \notin DOMAIN store.tasks
  <2>1. PICK n \in Nodes, req \in Requests, key \in Keys \cup {NoKey} :
          store'.tasks[i] = NewTask(store, n, req, key, now)
    BY <1>2, NextTasks DEF Inv
  <2> DEFINE u == store'.tasks[i]
             needs == req.type \in store.nodes[n].policy.approve
  <2>2. u.owner = NoOwner /\ u.needs = needs
        /\ u.status = IF needs THEN "pending_approval" ELSE "pending"
    BY <2>1 DEF NewTask
  <2> HIDE DEF u, needs
  <2>3. OwnerOK(u)
    BY <2>2 DEF OwnerOK
  <2>4. QuorumOK(u)
    BY <2>2 DEF QuorumOK, Active
  <2> QED BY <2>3, <2>4 DEF u
<1> QED BY <1>1, <1>2

LEMMA WorkerStep ==
  ASSUME Inv, [Next]_vars
  PROVE  WorkerOK'
<1>1. /\ DOMAIN store.tasks \subseteq DOMAIN store'.tasks
      /\ \A i \in DOMAIN store.tasks :
           /\ store.tasks[i] \in Task
           /\ TaskStep(store.tasks[i], store'.tasks[i])
           /\ OwnerOK(store.tasks[i])
  BY NextTasks DEF Inv, TasksOK
<1>2. \A i \in DOMAIN store.tasks :
        store.tasks[i].owner # NoOwner => store'.tasks[i].owner = store.tasks[i].owner
  BY <1>1, TaskStepOwner
<1>3. CASE UNCHANGED <<wstate, wtask>>
  BY <1>1, <1>2, <1>3, OwnersAssumption DEF Inv, WorkerOK
<1>4. CASE RunOnce /\ wstate' = "exec"
  <2> DEFINE swept == ExpireApprovals(store, now)
  <2>1. IsStore(swept)
    BY ExpireStep DEF Inv, TypeOK
  <2>2. CASE wstate' = wstate
    BY <1>4, <2>2 DEF RunOnce
  <2>3. CASE wstate' # wstate
    <3>1. PICK i \in Claimable(swept) :
            store' = Start(swept, i, "running", Gateway) /\ wtask' = i
      BY <1>4, <2>3 DEF RunOnce, worker
    <3> HIDE DEF swept
    <3>2. i \in DOMAIN swept.tasks /\ swept.tasks[i] \in Task
      BY <2>1, <3>1 DEF Claimable, IsStore
    <3>3. "running" \in Active
      BY DEF Active
    <3>4. store'.tasks = [swept.tasks EXCEPT ![i] = Started(swept.tasks[i], "running", Gateway)]
      BY <2>1, <3>1, <3>2, <3>3, StartStep
    <3>5. wtask' \in DOMAIN store'.tasks /\ store'.tasks[wtask'].owner = Gateway
      BY <3>1, <3>2, <3>4 DEF Started, Task
    <3> QED BY <3>5 DEF WorkerOK
  <2> QED BY <2>2, <2>3
<1>5. UNCHANGED <<wstate, wtask>> \/ (RunOnce /\ wstate' = "exec") \/ wstate' # "exec"
  BY DEF Next, Operator, NodeSide, Dispatcher, Tick, Register, SetPolicy, Rotate, Revoke, Add,
         Scan, ApproveTask, RejectTask, Pull, Ack, Report, DispatcherStart, RunOnce, Finish,
         DispatcherStop, vars, worker
<1> QED BY <1>3, <1>4, <1>5 DEF WorkerOK

-----------------------------------------------------------------------------
(* The events and the tasks: every step keeps the store sound.              *)

LEMMA OperatorSound ==
  ASSUME TypeOK, Sound(store), Operator
  PROVE  Sound(store')
<1> USE DEF TypeOK
<1>1. ASSUME NEW n \in Nodes, NEW caps \in CapSets, Register(n, caps) PROVE Sound(store')
  BY <1>1, RegisterKeeps, NodesSound, InputsAssumption DEF Register
<1>2. ASSUME NEW n \in Nodes, NEW raw \in RawPolicies, SetPolicy(n, raw) PROVE Sound(store')
  BY <1>2, UpdatePolicyKeeps, NodesSound, RawPoliciesAreRaw DEF SetPolicy
<1>3. ASSUME NEW n \in Nodes, Rotate(n) PROVE Sound(store')
  BY <1>3, RotateTokenKeeps, NodesSound DEF Rotate
<1>4. ASSUME NEW n \in Nodes, Revoke(n) PROVE Sound(store')
  BY <1>4, RevokeTokenKeeps, NodesSound DEF Revoke
<1>5. ASSUME NEW within \in Windows, Scan(within) PROVE Sound(store')
  BY <1>5, ScanRotateKeeps, NodesSound, BoundsAssumption DEF Scan
<1>6. ASSUME NEW n \in Nodes, NEW req \in Requests, NEW key \in Keys \cup {NoKey},
             Add(n, req, key)
      PROVE  Sound(store')
  BY <1>6, AddSound DEF Add, Admits
<1>7. ASSUME NEW i \in Tasks, NEW who \in Approvers, ApproveTask(i, who) PROVE Sound(store')
  BY <1>7, ApproveSound DEF ApproveTask, Tasks
<1>8. ASSUME NEW i \in Tasks, NEW who \in Approvers, RejectTask(i, who) PROVE Sound(store')
  BY <1>8, RejectSound DEF RejectTask, Tasks
<1> QED BY <1>1, <1>2, <1>3, <1>4, <1>5, <1>6, <1>7, <1>8 DEF Operator

LEMMA NodeSideSound ==
  ASSUME Sound(store), NodeSide
  PROVE  Sound(store')
<1>1. ASSUME NEW n \in Nodes, NEW tok \in Tokens, Pull(n, tok) PROVE Sound(store')
  <2>1. PICK i \in Pullable(store, n) : store' = Start(store, i, "leased", n)
    BY <1>1 DEF Pull
  <2>2. /\ i \in DOMAIN store.tasks /\ store.tasks[i].status \in {"pending", "leased"}
        /\ "leased" \in Active /\ n \in Nodes \cup {Gateway}
    BY <2>1 DEF Pullable, Active
  <2> QED BY <2>1, <2>2, StartSound
<1>2. ASSUME NEW n \in Nodes, NEW tok \in Tokens, NEW i \in Tasks, Ack(n, tok, i)
      PROVE  Sound(store')
  <2>1. /\ i \in DOMAIN store.tasks /\ store.tasks[i].status \in {"pending", "leased"}
        /\ "running" \in Active /\ n \in Nodes \cup {Gateway}
        /\ store' = Start(store, i, "running", n)
    BY <1>2 DEF Ack, Ackable, Tasks, Active
  <2> QED BY <2>1, StartSound
<1>3. ASSUME NEW n \in Nodes, NEW tok \in Tokens, NEW i \in Tasks, NEW ok \in BOOLEAN,
             Report(n, tok, i, ok)
      PROVE  Sound(store')
  BY <1>3, CompleteSound DEF Report, Tasks
<1> QED BY <1>1, <1>2, <1>3 DEF NodeSide

LEMMA DispatcherSound ==
  ASSUME TypeOK, WorkerOK, Sound(store), Dispatcher
  PROVE  Sound(store')
<1>1. CASE RunOnce
  <2> DEFINE swept == ExpireApprovals(store, now)
  <2>1. Sound(swept)
    BY ExpireSound DEF TypeOK
  <2> HIDE DEF swept
  <2>2. CASE store' = swept
    BY <2>1, <2>2
  <2>3. CASE \E i \in Claimable(swept) : store' = Start(swept, i, "running", Gateway)
    <3>1. PICK i \in Claimable(swept) : store' = Start(swept, i, "running", Gateway)
      BY <2>3
    <3>2. /\ i \in DOMAIN swept.tasks /\ swept.tasks[i].status \in {"pending", "leased"}
          /\ "running" \in Active /\ Gateway \in Nodes \cup {Gateway}
      BY <3>1 DEF Claimable, Active
    <3> QED BY <2>1, <3>1, <3>2, StartSound
  <2> QED BY <1>1, <2>2, <2>3 DEF RunOnce, swept
<1>2. ASSUME NEW ok \in BOOLEAN, Finish(ok) PROVE Sound(store')
  BY <1>2, CompleteSound DEF Finish, WorkerOK
<1>3. CASE DispatcherStart \/ DispatcherStop
  BY <1>3 DEF DispatcherStart, DispatcherStop
<1> QED BY <1>1, <1>2, <1>3 DEF Dispatcher

LEMMA SoundStep ==
  ASSUME TypeOK, WorkerOK, Sound(store), [Next]_vars
  PROVE  Sound(store')
<1>1. CASE Tick \/ UNCHANGED vars
  BY <1>1 DEF Tick, vars
<1> QED BY <1>1, OperatorSound, NodeSideSound, DispatcherSound DEF Next

-----------------------------------------------------------------------------
(* What is running for the gateway is what the dispatcher executes, or what *)
(* it let go of at a stop or when the save of the claim raised.             *)

ForGateway(s) == {i \in DOMAIN s.tasks : s.tasks[i].status = "running" /\ s.tasks[i].owner = Gateway}

LEMMA SameForGateway ==
  ASSUME NEW s, NEW s2, s2.tasks = s.tasks
  PROVE  ForGateway(s2) = ForGateway(s)
BY DEF ForGateway

\* One task is changed, and it is not the gateway's afterwards.
LEMMA NotForGateway ==
  ASSUME NEW s, IsStore(s), NEW s2, NEW i \in DOMAIN s.tasks, NEW u,
         s2.tasks = [s.tasks EXCEPT ![i] = u], ~(u.status = "running" /\ u.owner = Gateway)
  PROVE  ForGateway(s2) \subseteq ForGateway(s) \ {i}
BY DEF ForGateway

LEMMA CompleteForGateway ==
  ASSUME NEW s, IsStore(s), NEW i \in DOMAIN s.tasks, NEW ok
  PROVE  ForGateway(Complete(s, i, ok)) \subseteq ForGateway(s) \ {i}
<1>1. PICK status \in {"done", "error"} :
        Complete(s, i, ok).tasks = [s.tasks EXCEPT ![i] = Closed(s.tasks[i], status)]
  BY CompleteStep
<1>2. s.tasks[i] \in Task
  BY DEF IsStore
<1>3. Closed(s.tasks[i], status).status # "running"
  BY <1>2 DEF Closed, Task
<1> QED BY <1>1, <1>3, NotForGateway

LEMMA OperatorForGateway ==
  ASSUME TypeOK, Operator
  PROVE  ForGateway(store') \subseteq ForGateway(store)
<1> USE DEF TypeOK
<1>1. ASSUME store'.tasks = store.tasks
      PROVE  ForGateway(store') \subseteq ForGateway(store)
  BY <1>1, SameForGateway
<1>2. ASSUME NEW n \in Nodes, NEW caps \in CapSets, Register(n, caps)
      PROVE  store'.tasks = store.tasks
  BY <1>2, RegisterKeeps, InputsAssumption DEF Register
<1>3. ASSUME NEW n \in Nodes, NEW raw \in RawPolicies, SetPolicy(n, raw)
      PROVE  store'.tasks = store.tasks
  BY <1>3, UpdatePolicyKeeps, RawPoliciesAreRaw DEF SetPolicy
<1>4. ASSUME NEW n \in Nodes, Rotate(n) \/ Revoke(n)
      PROVE  store'.tasks = store.tasks
  BY <1>4, RotateTokenKeeps, RevokeTokenKeeps DEF Rotate, Revoke
<1>5. ASSUME NEW within \in Windows, Scan(within)
      PROVE  store'.tasks = store.tasks
  BY <1>5, ScanRotateKeeps, BoundsAssumption DEF Scan
<1>6. ASSUME NEW n \in Nodes, NEW req \in Requests, NEW key \in Keys \cup {NoKey},
             Add(n, req, key)
      PROVE  ForGateway(store') \subseteq ForGateway(store)
  <2> DEFINE t == NewTask(store, n, req, key, now)
  <2>1. store'.tasks = Append(store.tasks, t) /\ t \in Task
    BY <1>6, AddStep DEF Add, Admits
  <2>2. t.status # "running"
    BY DEF NewTask
  <2> HIDE DEF t
  <2>3. store.tasks \in Seq(Task)
    BY DEF IsStore
  <2> QED BY <2>1, <2>2, <2>3 DEF ForGateway
<1>7. ASSUME NEW i \in Tasks, NEW who \in Approvers, ApproveTask(i, who)
      PROVE  ForGateway(store') \subseteq ForGateway(store)
  <2> DEFINE u == ApprovedBy(store.tasks[i], who)
  <2>1. i \in DOMAIN store.tasks /\ store.tasks[i] \in Task
    BY DEF Tasks, IsStore
  <2>2. store'.tasks = [store.tasks EXCEPT ![i] = u]
    BY <1>7, <2>1, ApproveStep DEF ApproveTask
  <2>3. u.status # "running"
    BY <2>1 DEF ApprovedBy, Task
  <2> HIDE DEF u
  <2> QED BY <2>1, <2>2, <2>3, NotForGateway
<1>8. ASSUME NEW i \in Tasks, NEW who \in Approvers, RejectTask(i, who)
      PROVE  ForGateway(store') \subseteq ForGateway(store)
  <2> DEFINE u == Closed(store.tasks[i], "rejected")
  <2>1. i \in DOMAIN store.tasks /\ store.tasks[i] \in Task
    BY DEF Tasks, IsStore
  <2>2. store'.tasks = [store.tasks EXCEPT ![i] = u]
    BY <1>8, <2>1, RejectStep DEF RejectTask
  <2>3. u.status # "running"
    BY <2>1 DEF Closed, Task
  <2> HIDE DEF u
  <2> QED BY <2>1, <2>2, <2>3, NotForGateway
<1> QED BY <1>1, <1>2, <1>3, <1>4, <1>5, <1>6, <1>7, <1>8 DEF Operator

LEMMA NodeSideForGateway ==
  ASSUME TypeOK, NodeSide
  PROVE  ForGateway(store') \subseteq ForGateway(store)
<1>1. ASSUME NEW n \in Nodes, NEW i \in DOMAIN store.tasks, NEW status \in Active,
             store' = Start(store, i, status, n)
      PROVE  ForGateway(store') \subseteq ForGateway(store)
  <2> DEFINE u == Started(store.tasks[i], status, n)
  <2>0. IsStore(store) /\ n \in Nodes \cup {Gateway}
    BY DEF TypeOK
  <2>1. store'.tasks = [store.tasks EXCEPT ![i] = u] /\ store.tasks[i] \in Task
    <3>1. store'.tasks = [store.tasks EXCEPT ![i] = u]
      BY <1>1, <2>0, StartStep
    <3> QED BY <2>0, <3>1 DEF IsStore
  <2>2. u.owner # Gateway
    BY <2>1, OwnersAssumption DEF Started, Task
  <2> HIDE DEF u
  <2> QED BY <2>1, <2>2, NotForGateway DEF TypeOK
<1>2. ASSUME NEW n \in Nodes, NEW tok \in Tokens, Pull(n, tok)
      PROVE  ForGateway(store') \subseteq ForGateway(store)
  BY <1>1, <1>2 DEF Pull, Pullable, Active
<1>3. ASSUME NEW n \in Nodes, NEW tok \in Tokens, NEW i \in Tasks, Ack(n, tok, i)
      PROVE  ForGateway(store') \subseteq ForGateway(store)
  BY <1>1, <1>3 DEF Ack, Active, Tasks
<1>4. ASSUME NEW n \in Nodes, NEW tok \in Tokens, NEW i \in Tasks, NEW ok \in BOOLEAN,
             Report(n, tok, i, ok)
      PROVE  ForGateway(store') \subseteq ForGateway(store)
  BY <1>4, CompleteForGateway DEF Report, Tasks, TypeOK
<1> QED BY <1>2, <1>3, <1>4 DEF NodeSide

LEMMA SweptForGateway ==
  ASSUME NEW s, IsStore(s), NEW t \in Nat
  PROVE  /\ ForGateway(ExpireApprovals(s, t)) = ForGateway(s)
         /\ \A i \in ForGateway(s) : s.tasks[i].status # "pending"
<1> DEFINE late == {i \in DOMAIN s.tasks : Overdue(s.tasks[i], t)}
<1>1. ExpireApprovals(s, t).tasks =
        [i \in DOMAIN s.tasks |->
           IF i \in late THEN Closed(s.tasks[i], "rejected") ELSE s.tasks[i]]
  BY ExpireStep
<1>2. \A i \in late : /\ s.tasks[i].status = "pending_approval"
                      /\ Closed(s.tasks[i], "rejected").status = "rejected"
  BY DEF Overdue, Closed, Task, IsStore
<1> HIDE DEF late
<1> QED BY <1>1, <1>2 DEF ForGateway

LEMMA TrackedStep ==
  ASSUME TypeOK, WorkerOK, GatewayRunsTracked, [Next]_vars
  PROVE  GatewayRunsTracked'
<1> DEFINE tracked == {i \in Nat : (wstate = "exec" /\ wtask = i) \/ i \in orphans}
<1>1. IsStore(store) /\ now \in Nat /\ ForGateway(store) \subseteq tracked
  BY DEF TypeOK, GatewayRunsTracked, ForGateway, IsStore
<1>2. SUFFICES \A i \in ForGateway(store') : (wstate' = "exec" /\ wtask' = i) \/ i \in orphans'
  BY DEF GatewayRunsTracked, ForGateway
<1>3. CASE Operator \/ NodeSide
  <2>1. ForGateway(store') \subseteq ForGateway(store)
    BY <1>3, OperatorForGateway, NodeSideForGateway
  <2>2. UNCHANGED <<wstate, wtask, orphans>>
    BY <1>3 DEF Operator, NodeSide, Register, SetPolicy, Rotate, Revoke, Add, Scan, ApproveTask,
         RejectTask, Pull, Ack, Report, worker
  <2> QED BY <1>1, <2>1, <2>2
<1>4. CASE RunOnce
  <2> DEFINE swept == ExpireApprovals(store, now)
  <2>1. IsStore(swept) /\ ForGateway(swept) = ForGateway(store)
    BY <1>1, ExpireStep, SweptForGateway
  <2>2. wstate = "poll"
    BY <1>4 DEF RunOnce
  <2> DEFINE Claims(i) == \/ wstate' = "exec" /\ wtask' = i /\ orphans' = orphans
                         \/ orphans' = orphans \cup {i}
  <2> HIDE DEF swept
  <2>3. CASE store' = swept /\ UNCHANGED worker
    BY <1>1, <2>1, <2>2, <2>3 DEF worker
  <2>4. CASE \E i \in Claimable(swept) : store' = Start(swept, i, "running", Gateway) /\ Claims(i)
    <3>1. PICK i \in Claimable(swept) : store' = Start(swept, i, "running", Gateway) /\ Claims(i)
      BY <2>4
    <3>2. i \in DOMAIN swept.tasks /\ "running" \in Active /\ Gateway \in Nodes \cup {Gateway}
      BY <3>1 DEF Claimable, Active
    <3>3. store'.tasks = [swept.tasks EXCEPT ![i] = Started(swept.tasks[i], "running", Gateway)]
      BY <2>1, <3>1, <3>2, StartStep
    <3>4. ForGateway(store') \subseteq ForGateway(swept) \cup {i}
      BY <3>2, <3>3 DEF ForGateway
    <3> QED BY <1>1, <2>1, <2>2, <3>1, <3>4
  <2> QED BY <1>4, <2>3, <2>4 DEF RunOnce, swept
<1>5. ASSUME NEW ok \in BOOLEAN, Finish(ok)
      PROVE  \A i \in ForGateway(store') : (wstate' = "exec" /\ wtask' = i) \/ i \in orphans'
  <2>1. wstate = "exec" /\ wtask \in DOMAIN store.tasks /\ orphans' = orphans
        /\ store' = Complete(store, wtask, ok)
    BY <1>5 DEF Finish, WorkerOK
  <2>2. ForGateway(store') \subseteq ForGateway(store) \ {wtask}
    BY <1>1, <2>1, CompleteForGateway
  <2> QED BY <1>1, <2>1, <2>2
<1>6. CASE DispatcherStart
  BY <1>1, <1>6 DEF DispatcherStart
<1>7. CASE DispatcherStop
  BY <1>1, <1>7 DEF DispatcherStop
<1>8. CASE Tick \/ UNCHANGED vars
  BY <1>1, <1>8 DEF Tick, vars, worker
<1> QED BY <1>3, <1>4, <1>5, <1>6, <1>7, <1>8 DEF Next, Dispatcher

-----------------------------------------------------------------------------
(* One task per key within the window.                                      *)

LEMMA KeyStep ==
  ASSUME TypeOK, WorkerOK, OneTaskPerKey, [Next]_vars
  PROVE  OneTaskPerKey'
<1>1. /\ store.tasks \in Seq(Task) /\ store'.tasks \in Seq(Task)
      /\ DOMAIN store.tasks \subseteq DOMAIN store'.tasks
      /\ \A i \in DOMAIN store.tasks : TaskStep(store.tasks[i], store'.tasks[i])
      /\ \A i \in DOMAIN store'.tasks \ DOMAIN store.tasks :
           \E n \in Nodes, req \in Requests, key \in Keys \cup {NoKey} :
             /\ store'.tasks[i] = NewTask(store, n, req, key, now)
             /\ Admits(store, n, req, key, now)
  BY NextTasks
<1>2. Len(store'.tasks) <= Len(store.tasks) + 1
  BY LengthStep
<1>3. SUFFICES ASSUME NEW i \in DOMAIN store'.tasks, NEW j \in DOMAIN store'.tasks, i < j,
                      store'.tasks[i].node = store'.tasks[j].node,
                      store'.tasks[i].key = store'.tasks[j].key,
                      store'.tasks[i].key # NoKey
               PROVE  IdemWindow # 0
                      /\ store'.tasks[j].created - store'.tasks[i].created > IdemWindow
  BY DEF OneTaskPerKey
<1>4. \A k \in DOMAIN store.tasks :
        /\ store'.tasks[k].node = store.tasks[k].node
        /\ store'.tasks[k].key = store.tasks[k].key
        /\ store'.tasks[k].created = store.tasks[k].created
  BY <1>1, TaskStepFields
<1>5. i \in DOMAIN store.tasks
  BY <1>1, <1>2, <1>3
<1>6. CASE j \in DOMAIN store.tasks
  BY <1>3, <1>4, <1>5, <1>6 DEF OneTaskPerKey
<1>7. CASE j \notin DOMAIN store.tasks
  <2>1. PICK n \in Nodes, req \in Requests, key \in Keys \cup {NoKey} :
          /\ store'.tasks[j] = NewTask(store, n, req, key, now)
          /\ Admits(store, n, req, key, now)
    BY <1>1, <1>7
  <2>2. /\ store'.tasks[j].node = n /\ store'.tasks[j].key = key
        /\ store'.tasks[j].created = now
    BY <2>1 DEF NewTask
  <2>3. ~InWindow(store.tasks[i], now)
    <3>1. store.tasks[i].node = n /\ store.tasks[i].key = key /\ key # NoKey
      BY <1>3, <1>4, <1>5, <2>2
    <3>2. ~KeyTaken(store, n, key, now)
      BY <2>1 DEF Admits
    <3> QED BY <1>5, <3>1, <3>2 DEF KeyTaken
  <2>4. store.tasks[i].created \in Nat /\ now \in Nat /\ IdemWindow \in Nat
    <3>1. store.tasks[i] \in Task
      BY <1>1, <1>5
    <3> QED BY <3>1, TimesAssumption DEF Task, TypeOK
  <2> QED BY <1>4, <1>5, <2>2, <2>3, <2>4 DEF InWindow
<1> QED BY <1>6, <1>7

-----------------------------------------------------------------------------
(* The quota of active tasks.                                               *)

Taken(s, s2, n) == ActiveTasks(s2, n) \ ActiveTasks(s, n)

\* One task is changed: no other becomes active.
LEMMA OneTaken ==
  ASSUME NEW s, IsStore(s), NEW s2, NEW i \in DOMAIN s.tasks, NEW u, NEW n,
         s2.tasks = [s.tasks EXCEPT ![i] = u]
  PROVE  /\ Taken(s, s2, n) \subseteq {i}
         /\ u.status \notin Active => Taken(s, s2, n) = {}
         /\ i \in Taken(s, s2, n) => u.node = n
BY DEF Taken, ActiveTasks

LEMMA CompleteTakes ==
  ASSUME NEW s, IsStore(s), NEW i \in DOMAIN s.tasks, NEW ok, NEW n
  PROVE  Taken(s, Complete(s, i, ok), n) = {}
<1>1. PICK status \in {"done", "error"} :
        Complete(s, i, ok).tasks = [s.tasks EXCEPT ![i] = Closed(s.tasks[i], status)]
  BY CompleteStep
<1>2. s.tasks[i] \in Task
  BY DEF IsStore
<1> DEFINE u == Closed(s.tasks[i], status)
<1>3. u.status \notin Active
  BY <1>2 DEF Closed, Task, Active
<1>4. Complete(s, i, ok).tasks = [s.tasks EXCEPT ![i] = u]
  BY <1>1
<1> HIDE DEF u
<1> QED BY <1>3, <1>4, OneTaken

\* Operators start nothing.
LEMMA OperatorTakes ==
  ASSUME TypeOK, Operator, NEW n
  PROVE  Taken(store, store', n) = {}
<1> USE DEF TypeOK
<1>1. ASSUME store'.tasks = store.tasks
      PROVE  Taken(store, store', n) = {}
  BY <1>1 DEF Taken, ActiveTasks
<1>2. ASSUME NEW m \in Nodes, NEW caps \in CapSets, Register(m, caps)
      PROVE  store'.tasks = store.tasks
  BY <1>2, RegisterKeeps, InputsAssumption DEF Register
<1>3. ASSUME NEW m \in Nodes, NEW raw \in RawPolicies, SetPolicy(m, raw)
      PROVE  store'.tasks = store.tasks
  BY <1>3, UpdatePolicyKeeps, RawPoliciesAreRaw DEF SetPolicy
<1>4. ASSUME NEW m \in Nodes, Rotate(m) \/ Revoke(m)
      PROVE  store'.tasks = store.tasks
  BY <1>4, RotateTokenKeeps, RevokeTokenKeeps DEF Rotate, Revoke
<1>5. ASSUME NEW within \in Windows, Scan(within)
      PROVE  store'.tasks = store.tasks
  BY <1>5, ScanRotateKeeps, BoundsAssumption DEF Scan
<1>6. ASSUME NEW m \in Nodes, NEW req \in Requests, NEW key \in Keys \cup {NoKey},
             Add(m, req, key)
      PROVE  Taken(store, store', n) = {}
  <2> DEFINE t == NewTask(store, m, req, key, now)
  <2>1. store'.tasks = Append(store.tasks, t)
    BY <1>6, AddStep DEF Add, Admits
  <2>2. t.status \notin Active
    BY DEF NewTask, Active
  <2> HIDE DEF t
  <2>3. store.tasks \in Seq(Task)
    BY DEF IsStore
  <2> QED BY <2>1, <2>2, <2>3 DEF Taken, ActiveTasks
<1>7. ASSUME NEW i \in Tasks, NEW who \in Approvers, ApproveTask(i, who)
      PROVE  Taken(store, store', n) = {}
  <2> DEFINE u == ApprovedBy(store.tasks[i], who)
  <2>1. i \in DOMAIN store.tasks /\ store.tasks[i] \in Task
    BY DEF Tasks, IsStore
  <2>2. store'.tasks = [store.tasks EXCEPT ![i] = u]
    BY <1>7, <2>1, ApproveStep DEF ApproveTask
  <2>3. u.status \notin Active
    BY <2>1 DEF ApprovedBy, Task, Active
  <2> HIDE DEF u
  <2> QED BY <2>1, <2>2, <2>3, OneTaken
<1>8. ASSUME NEW i \in Tasks, NEW who \in Approvers, RejectTask(i, who)
      PROVE  Taken(store, store', n) = {}
  <2> DEFINE u == Closed(store.tasks[i], "rejected")
  <2>1. i \in DOMAIN store.tasks /\ store.tasks[i] \in Task
    BY DEF Tasks, IsStore
  <2>2. store'.tasks = [store.tasks EXCEPT ![i] = u]
    BY <1>8, <2>1, RejectStep DEF RejectTask
  <2>3. u.status \notin Active
    BY <2>1 DEF Closed, Task, Active
  <2> HIDE DEF u
  <2> QED BY <2>1, <2>2, <2>3, OneTaken
<1> QED BY <1>1, <1>2, <1>3, <1>4, <1>5, <1>6, <1>7, <1>8 DEF Operator

LEMMA SweptActive ==
  ASSUME NEW s, IsStore(s), NEW t \in Nat, NEW n
  PROVE  /\ ActiveTasks(ExpireApprovals(s, t), n) = ActiveTasks(s, n)
         /\ HasRoom(ExpireApprovals(s, t), n) <=> HasRoom(s, n)
<1> DEFINE late == {i \in DOMAIN s.tasks : Overdue(s.tasks[i], t)}
<1>1. /\ ExpireApprovals(s, t).tasks =
           [i \in DOMAIN s.tasks |->
              IF i \in late THEN Closed(s.tasks[i], "rejected") ELSE s.tasks[i]]
      /\ ExpireApprovals(s, t).nodes = s.nodes
  BY ExpireStep
<1>2. \A i \in late : /\ s.tasks[i].status = "pending_approval"
                      /\ Closed(s.tasks[i], "rejected").status = "rejected"
  BY DEF Overdue, Closed, Task, IsStore
<1> HIDE DEF late
<1>3. ActiveTasks(ExpireApprovals(s, t), n) = ActiveTasks(s, n)
  BY <1>1, <1>2 DEF ActiveTasks, Active
<1> QED BY <1>1, <1>3 DEF HasRoom

LEMMA QuotaStep ==
  ASSUME TypeOK, WorkerOK, [Next]_vars, NEW n \in DOMAIN store.nodes,
         NEW i \in Taken(store, store', n)
  PROVE  HasRoom(store, n) \/ store'.tasks[i] = [store.tasks[i] EXCEPT
                                !.status = "running", !.owner = n]
<1>1. IsStore(store) /\ now \in Nat
  BY DEF TypeOK
<1>2. CASE Operator
  BY <1>2, OperatorTakes
<1>3. ASSUME NEW m \in Nodes, NEW tok \in Tokens, Pull(m, tok)
      PROVE  HasRoom(store, n)
  <2>1. PICK k \in Pullable(store, m) : store' = Start(store, k, "leased", m)
    BY <1>3 DEF Pull
  <2>2. k \in DOMAIN store.tasks /\ HasRoom(store, m) /\ store.tasks[k].node = m
        /\ "leased" \in Active /\ m \in Nodes \cup {Gateway}
    BY <2>1 DEF Pullable, Active
  <2> DEFINE u == Started(store.tasks[k], "leased", m)
  <2>3. store'.tasks = [store.tasks EXCEPT ![k] = u]
    BY <1>1, <2>1, <2>2, StartStep
  <2>4. u.node = m
    BY <1>1, <2>2 DEF Started, Task, IsStore
  <2> HIDE DEF u
  <2>5. i = k /\ u.node = n
    BY <1>1, <2>2, <2>3, OneTaken
  <2> QED BY <2>2, <2>4, <2>5
<1>4. ASSUME NEW m \in Nodes, NEW tok \in Tokens, NEW k \in Tasks, Ack(m, tok, k)
      PROVE  store'.tasks[i] = [store.tasks[i] EXCEPT !.status = "running", !.owner = n]
  <2>1. k \in DOMAIN store.tasks /\ store.tasks[k].node = m /\ "running" \in Active
        /\ m \in Nodes \cup {Gateway} /\ store' = Start(store, k, "running", m)
    BY <1>4 DEF Ack, Ackable, Tasks, Active
  <2> DEFINE u == Started(store.tasks[k], "running", m)
  <2>2. store'.tasks = [store.tasks EXCEPT ![k] = u] /\ DOMAIN store'.tasks = DOMAIN store.tasks
    BY <1>1, <2>1, StartStep
  <2>3. u.node = m
    BY <1>1, <2>1 DEF Started, Task, IsStore
  <2>4. i = k /\ u.node = n
    <3> HIDE DEF u
    <3> QED BY <1>1, <2>1, <2>2, OneTaken
  <2> QED BY <2>1, <2>2, <2>3, <2>4 DEF Started
<1>5. ASSUME NEW m \in Nodes, NEW tok \in Tokens, NEW k \in Tasks, NEW ok \in BOOLEAN,
             Report(m, tok, k, ok)
      PROVE  FALSE
  BY <1>1, <1>5, CompleteTakes DEF Report, Tasks
<1>6. CASE RunOnce
  <2> DEFINE swept == ExpireApprovals(store, now)
  <2>1. IsStore(swept) /\ ActiveTasks(swept, n) = ActiveTasks(store, n)
        /\ (HasRoom(swept, n) <=> HasRoom(store, n))
    BY <1>1, ExpireStep, SweptActive
  <2> HIDE DEF swept
  <2>2. CASE store' = swept
    BY <2>1, <2>2 DEF Taken
  <2>3. CASE \E k \in Claimable(swept) : store' = Start(swept, k, "running", Gateway)
    <3>1. PICK k \in Claimable(swept) : store' = Start(swept, k, "running", Gateway)
      BY <2>3
    <3>2. k \in DOMAIN swept.tasks /\ HasRoom(swept, swept.tasks[k].node)
          /\ "running" \in Active /\ Gateway \in Nodes \cup {Gateway}
      BY <3>1 DEF Claimable, Active
    <3> DEFINE u == Started(swept.tasks[k], "running", Gateway)
    <3>3. store'.tasks = [swept.tasks EXCEPT ![k] = u]
      BY <2>1, <3>1, <3>2, StartStep
    <3>4. u.node = swept.tasks[k].node
      BY <2>1, <3>2 DEF Started, Task, IsStore
    <3>5. i \in Taken(swept, store', n)
      BY <2>1 DEF Taken
    <3> HIDE DEF u
    <3>6. u.node = n
      BY <2>1, <3>2, <3>3, <3>5, OneTaken
    <3> QED BY <2>1, <3>2, <3>4, <3>6
  <2> QED BY <1>6, <2>2, <2>3 DEF RunOnce, swept
<1>7. ASSUME NEW ok \in BOOLEAN, Finish(ok)
      PROVE  FALSE
  BY <1>1, <1>7, CompleteTakes DEF Finish, WorkerOK
<1>8. CASE UNCHANGED store
  BY <1>8 DEF Taken
<1> QED
  BY <1>2, <1>3, <1>4, <1>5, <1>6, <1>7, <1>8
  DEF Next, NodeSide, Dispatcher, DispatcherStart, DispatcherStop, Tick, vars

-----------------------------------------------------------------------------
LEMMA Invariance == Spec => []Inv
<1>1. Init => Inv
  BY InitType, EmptySound DEF Init, Inv, TasksOK, EmptyStore, GatewayRunsTracked, OneTaskPerKey
<1>2. Inv /\ [Next]_vars => Inv'
  BY TypeStep, WorkerStep, TasksStepOK, SoundStep, TrackedStep, KeyStep DEF Inv
<1> QED BY <1>1, <1>2, PTL DEF Spec

\* The store keeps its shape: every task is filed under a registered node and
\* every field holds a value the code can read back.
THEOREM TypeCorrect == Spec => []TypeOK
BY Invariance, PTL DEF Inv

\* For any number of nodes, tasks, approvers and policies: a task that needs
\* approval is queued or worked on only with its quorum of distinct approvers.
THEOREM QuorumBeforeWork == Spec => []ReleasedByQuorum
<1>1. Inv => ReleasedByQuorum
  BY DEF Inv, TasksOK, QuorumOK, ReleasedByQuorum
<1> QED BY <1>1, Invariance, PTL

\* For any number of approvers and any interleaving, the approval events tell
\* how each task came to be queued, worked on or rejected, and by whom.
THEOREM EventsTellAll == Spec => []EventsExplainTasks
<1>1. Inv => EventsExplainTasks
  BY DEF Inv, Sound, Explained, Actors, EventsExplainTasks, Recorded
<1> QED BY <1>1, Invariance, PTL

\* What is running for the gateway is being executed by the dispatcher, or was
\* let go of for one of two causes: a stop cut its execution off, or the save
\* of its claim raised.  Nothing else that fails strands a claimed task.
THEOREM NothingClaimedIsLost == Spec => []GatewayRunsTracked
BY Invariance, PTL DEF Inv

\* However many tasks are added in whatever order, a node never holds two of
\* one idempotency key created within the window.
THEOREM KeysAreIdempotent == Spec => []OneTaskPerKey
BY Invariance, PTL DEF Inv

\* No step takes a task back to an earlier stage of its life: what was
\* rejected, leased, started or finished is not queued again.
THEOREM LifeGoesForward == Spec => StatusNeverGoesBack
<1>1. Inv /\ [Next]_vars =>
        [\A i \in DOMAIN store.tasks :
           Rank(store'.tasks[i].status) >= Rank(store.tasks[i].status)]_vars
  <2> SUFFICES ASSUME Inv, [Next]_vars, NEW i \in DOMAIN store.tasks
               PROVE  Rank(store'.tasks[i].status) >= Rank(store.tasks[i].status)
    OBVIOUS
  <2>1. store.tasks[i] \in Task /\ TaskStep(store.tasks[i], store'.tasks[i])
    BY NextTasks DEF Inv
  <2> QED BY <2>1, TaskStepRank
<1> QED BY <1>1, Invariance, PTL DEF Spec, StatusNeverGoesBack

\* Whoever takes a task keeps it, whatever nodes, operators and the dispatcher
\* do meanwhile.
THEOREM OwnersKeepTheirTasks == Spec => OwnerNeverChanges
<1>1. Inv /\ [Next]_vars =>
        [\A i \in DOMAIN store.tasks :
           store.tasks[i].owner # NoOwner
             => store'.tasks[i].owner = store.tasks[i].owner]_vars
  <2> SUFFICES ASSUME Inv, [Next]_vars, NEW i \in DOMAIN store.tasks,
                      store.tasks[i].owner # NoOwner
               PROVE  store'.tasks[i].owner = store.tasks[i].owner
    OBVIOUS
  <2>1. store.tasks[i] \in Task /\ TaskStep(store.tasks[i], store'.tasks[i])
    BY NextTasks DEF Inv
  <2>2. OwnerOK(store.tasks[i])
    BY DEF Inv, TasksOK
  <2> QED BY <2>1, <2>2, TaskStepOwner
<1> QED BY <1>1, Invariance, PTL DEF Spec, OwnerNeverChanges

\* A task becomes active on a node that has no room for it only when the node
\* itself acks it: pulls and the dispatcher's claims respect the quota.
THEOREM OnlyAcksExceedQuota == Spec => QuotaExceededOnlyByAck
<1>1. Inv /\ [Next]_vars =>
        [\A n \in DOMAIN store.nodes :
           \A i \in ActiveTasks(store', n) \ ActiveTasks(store, n) :
             HasRoom(store, n) \/ store'.tasks[i] = [store.tasks[i] EXCEPT
                                    !.status = "running", !.owner = n]]_vars
  BY QuotaStep DEF Inv, Taken
<1> QED BY <1>1, Invariance, PTL DEF Spec, QuotaExceededOnlyByAck
=============================================================================
