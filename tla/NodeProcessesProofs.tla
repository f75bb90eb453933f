------------------------- MODULE NodeProcessesProofs -------------------------
(***************************************************************************)
(* Theorems about NodeProcesses, for any number of commands, nodes, tasks   *)
(* and approvers.                                                           *)
(***************************************************************************)
EXTENDS NodeProcesses, NodeOpsProofs

-----------------------------------------------------------------------------
(* The inductive invariant.                                                *)

\* A document that one NodeService could have written, in which every task
\* stands for one of the add_task calls of m and no two for the same one.
Good(s, m) ==
  /\ Sound(s)
  /\ \A i \in DOMAIN s.tasks : s.tasks[i].req \in m
  /\ \A i, j \in DOMAIN s.tasks : s.tasks[i].req = s.tasks[j].req => i = j

AllGood ==
  /\ Good(file, made) /\ Good(gw, made)
  /\ \A c \in DOMAIN copy : Good(copy[c], made)

\* What the gateway has executed in this life is not pending in its cache.
RunOnlyOnce ==
  /\ runs \in [Requests -> Nat]
  /\ \A r \in Requests : runs[r] <= 1
  /\ \A i \in DOMAIN gw.tasks : runs[gw.tasks[i].req] # 0 => gw.tasks[i].status # "pending"

ExecutesCached == state = "exec" => task \in DOMAIN gw.tasks

Inv == AllGood /\ RunOnlyOnce /\ ExecutesCached /\ now \in Nat

-----------------------------------------------------------------------------
(* Good documents.                                                         *)

LEMMA EmptyGood == \A m : Good(EmptyStore, m)
BY EmptySound DEF Good, EmptyStore

LEMMA GoodIs ==
  ASSUME NEW s, NEW m, Good(s, m)
  PROVE  /\ Sound(s) /\ IsStore(s) /\ s.tasks \in Seq(Task)
         /\ \A i \in DOMAIN s.tasks : s.tasks[i] \in Task /\ s.tasks[i].req \in Requests
<1>1. Sound(s) /\ IsStore(s) /\ s.tasks \in Seq(Task)
  BY DEF Good, Sound, IsStore
<1>2. ASSUME NEW i \in DOMAIN s.tasks PROVE s.tasks[i] \in Task /\ s.tasks[i].req \in Requests
  <2>1. s.tasks[i] \in Task
    BY <1>1
  <2> QED BY <2>1 DEF Task
<1> QED BY <1>1, <1>2

SameRequests(s, s2) ==
  /\ DOMAIN s2.tasks = DOMAIN s.tasks
  /\ \A i \in DOMAIN s.tasks : s2.tasks[i].req = s.tasks[i].req

LEMMA StaysGood ==
  ASSUME NEW s, NEW s2, NEW m, Good(s, m), Sound(s2), SameRequests(s, s2)
  PROVE  Good(s2, m)
BY DEF Good, SameRequests

LEMMA MoreRequests ==
  ASSUME NEW s, NEW m, NEW m2, m \subseteq m2, Good(s, m)
  PROVE  Good(s, m2)
BY DEF Good

LEMMA NodesGood ==
  ASSUME NEW s, NEW s2, NEW m, Good(s, m), IsStore(s2), s2.tasks = s.tasks,
         s2.events = s.events
  PROVE  Good(s2, m)
BY NodesSound, StaysGood DEF Good, SameRequests

LEMMA OneSameRequest ==
  ASSUME NEW s, NEW s2, NEW i \in DOMAIN s.tasks, NEW u,
         s2.tasks = [s.tasks EXCEPT ![i] = u], u.req = s.tasks[i].req
  PROVE  SameRequests(s, s2)
BY DEF SameRequests

LEMMA StartGood ==
  ASSUME NEW s, NEW m, Good(s, m), NEW i \in DOMAIN s.tasks, NEW status \in Active,
         NEW who \in Nodes \cup {Gateway}, s.tasks[i].status \in {"pending", "leased"}
  PROVE  Good(Start(s, i, status, who), m)
<1> DEFINE u == Started(s.tasks[i], status, who)
<1>1. IsStore(s) /\ Sound(s) /\ s.tasks[i] \in Task
  BY GoodIs
<1>2. Start(s, i, status, who).tasks = [s.tasks EXCEPT ![i] = u]
  BY <1>1, StartStep
<1>3. u.req = s.tasks[i].req
  BY <1>1 DEF Started, Task
<1> HIDE DEF u
<1> QED BY <1>1, <1>2, <1>3, OneSameRequest, StartSound, StaysGood

LEMMA CompleteGood ==
  ASSUME NEW s, NEW m, Good(s, m), NEW i \in DOMAIN s.tasks, NEW ok
  PROVE  Good(Complete(s, i, ok), m)
<1>1. IsStore(s) /\ Sound(s) /\ s.tasks[i] \in Task
  BY GoodIs
<1>2. PICK status \in {"done", "error"} :
        Complete(s, i, ok).tasks = [s.tasks EXCEPT ![i] = Closed(s.tasks[i], status)]
  BY <1>1, CompleteStep
<1> DEFINE u == Closed(s.tasks[i], status)
<1>3. u.req = s.tasks[i].req
  BY <1>1 DEF Closed, Task
<1>4. Complete(s, i, ok).tasks = [s.tasks EXCEPT ![i] = u]
  BY <1>2
<1> HIDE DEF u
<1> QED BY <1>1, <1>3, <1>4, OneSameRequest, CompleteSound, StaysGood

LEMMA RejectGood ==
  ASSUME NEW s, NEW m, Good(s, m), NEW i \in DOMAIN s.tasks, NEW who \in Approvers
  PROVE  Good(Reject(s, i, who), m)
<1> DEFINE u == Closed(s.tasks[i], "rejected")
<1>1. IsStore(s) /\ Sound(s) /\ s.tasks[i] \in Task
  BY GoodIs
<1>2. Reject(s, i, who).tasks = [s.tasks EXCEPT ![i] = u]
  BY <1>1, RejectStep
<1>3. u.req = s.tasks[i].req
  BY <1>1 DEF Closed, Task
<1> HIDE DEF u
<1> QED BY <1>1, <1>2, <1>3, OneSameRequest, RejectSound, StaysGood

LEMMA ApproveGood ==
  ASSUME NEW s, NEW m, Good(s, m), NEW i \in DOMAIN s.tasks, NEW who \in Approvers,
         s.tasks[i].status = "pending_approval"
  PROVE  Good(Approve(s, i, who), m)
<1> DEFINE u == ApprovedBy(s.tasks[i], who)
<1>1. IsStore(s) /\ Sound(s) /\ s.tasks[i] \in Task
  BY GoodIs
<1>2. Approve(s, i, who).tasks = [s.tasks EXCEPT ![i] = u]
  BY <1>1, ApproveStep
<1>3. u.req = s.tasks[i].req
  BY <1>1 DEF ApprovedBy, Task
<1> HIDE DEF u
<1>4. SameRequests(s, Approve(s, i, who))
  BY <1>2, <1>3, OneSameRequest
<1>5. Sound(Approve(s, i, who))
  BY <1>1, ApproveSound
<1> QED BY <1>4, <1>5, StaysGood

LEMMA AddGood ==
  ASSUME NEW s, NEW m, Good(s, m), NEW n \in DOMAIN s.nodes, NEW r \in Requests, r \notin m,
         NEW t \in Nat
  PROVE  Good(AddTask(s, n, r, NoKey, t), m \cup {r})
<1> DEFINE u == NewTask(s, n, r, NoKey, t)
           s2 == AddTask(s, n, r, NoKey, t)
<1>1. IsStore(s) /\ Sound(s) /\ s.tasks \in Seq(Task)
  BY GoodIs
<1>2. NoKey \in Keys \cup {NoKey}
  OBVIOUS
<1>3. s2.tasks = Append(s.tasks, u)
  BY <1>1, <1>2, AddStep
<1>4. Sound(s2)
  BY <1>1, <1>2, AddSound
<1>5. u.req = r
  BY DEF NewTask
<1> HIDE DEF u, s2
<1>6. /\ \A i \in DOMAIN s.tasks : i \in DOMAIN s2.tasks /\ s2.tasks[i] = s.tasks[i]
      /\ \A i \in DOMAIN s2.tasks \ DOMAIN s.tasks : i = Len(s.tasks) + 1 /\ s2.tasks[i] = u
  BY <1>1, <1>3
<1>7. \A i \in DOMAIN s2.tasks : s2.tasks[i].req \in m \cup {r}
  BY <1>5, <1>6 DEF Good
<1>8. \A i, j \in DOMAIN s2.tasks : s2.tasks[i].req = s2.tasks[j].req => i = j
  BY <1>5, <1>6 DEF Good
<1> QED BY <1>4, <1>7, <1>8 DEF Good, s2

LEMMA ExpireGood ==
  ASSUME NEW s, NEW m, Good(s, m), NEW t \in Nat
  PROVE  /\ Good(ExpireApprovals(s, t), m)
         /\ SameRequests(s, ExpireApprovals(s, t))
         /\ \A i \in DOMAIN s.tasks :
              ExpireApprovals(s, t).tasks[i].status = "pending" => s.tasks[i].status = "pending"
<1> DEFINE late == {i \in DOMAIN s.tasks : Overdue(s.tasks[i], t)}
           s2 == ExpireApprovals(s, t)
<1>1. IsStore(s) /\ Sound(s) /\ \A i \in DOMAIN s.tasks : s.tasks[i] \in Task
  BY GoodIs
<1>2. s2.tasks = [i \in DOMAIN s.tasks |->
                    IF i \in late THEN Closed(s.tasks[i], "rejected") ELSE s.tasks[i]]
  BY <1>1, ExpireStep
<1>3. \A i \in late : /\ Closed(s.tasks[i], "rejected").req = s.tasks[i].req
                      /\ Closed(s.tasks[i], "rejected").status = "rejected"
  BY <1>1 DEF Closed, Task
<1>4. Sound(s2)
  BY <1>1, ExpireSound
<1> HIDE DEF late, s2
<1>5. SameRequests(s, s2)
  BY <1>2, <1>3 DEF SameRequests
<1>6. \A i \in DOMAIN s.tasks : s2.tasks[i].status = "pending" => s.tasks[i].status = "pending"
  BY <1>2, <1>3
<1>7. Good(s2, m)
  BY <1>4, <1>5, StaysGood
<1> QED BY <1>5, <1>6, <1>7 DEF s2

-----------------------------------------------------------------------------
(* The commands.                                                           *)

\* What a command leaves of the copies, the gateway and the clock.
LEMMA CommandKeeps ==
  ASSUME Inv, NEW c \in DOMAIN copy, copy' = Gone(c), made \subseteq made',
         UNCHANGED <<gw, state, task, runs, now>>, Good(file', made')
  PROVE  Inv'
<1>1. DOMAIN copy' \subseteq DOMAIN copy /\ \A d \in DOMAIN copy' : copy'[d] = copy[d]
  BY DEF Gone, Restrict
<1>2. Good(gw, made') /\ \A d \in DOMAIN copy' : Good(copy'[d], made')
  BY <1>1, MoreRequests DEF Inv, AllGood
<1> QED BY <1>2 DEF Inv, AllGood, RunOnlyOnce, ExecutesCached

LEMMA SaveKeeps ==
  ASSUME Inv, NEW c, NEW s, Save(c, s), made \subseteq made', Good(s, made')
  PROVE  Inv'
BY CommandKeeps DEF Save, gateway

LEMMA OpenKeeps ==
  ASSUME Inv, NEW c, Open(c)
  PROVE  Inv'
<1>1. PICK s \in {file, EmptyStore} :
        copy' = [d \in DOMAIN copy \cup {c} |-> IF d = c THEN s ELSE copy[d]]
  BY DEF Open, Read
<1>2. Good(s, made)
  BY EmptyGood DEF Inv, AllGood
<1>3. \A d \in DOMAIN copy' : Good(copy'[d], made)
  BY <1>1, <1>2 DEF Inv, AllGood
<1> QED BY <1>3 DEF Inv, AllGood, RunOnlyOnce, ExecutesCached, Open, gateway

LEMMA CloseKeeps ==
  ASSUME Inv, NEW c \in DOMAIN copy, Close(c) \/ Tear(c)
  PROVE  Inv'
<1>1. copy' = Gone(c) /\ made' = made /\ UNCHANGED <<gw, state, task, runs, now>>
  BY DEF Close, Tear, gateway
<1>2. Good(file', made')
  BY EmptyGood DEF Inv, AllGood, Close, Tear
<1> QED BY <1>1, <1>2, CommandKeeps

LEMMA CommandStep ==
  ASSUME Inv, NEW c \in Commands, Command(c)
  PROVE  Inv'
<1>1. CASE Open(c)
  BY <1>1, OpenKeeps
<1>2. SUFFICES ASSUME c \in DOMAIN copy, ~Open(c) PROVE Inv'
  BY <1>1 DEF Command
<1> DEFINE s == copy[c]
<1>3. Good(s, made) /\ IsStore(s) /\ now \in Nat
  BY <1>2, GoodIs DEF Inv, AllGood
<1>4. CASE Close(c) \/ Tear(c)
  BY <1>2, <1>4, CloseKeeps
<1>5. ASSUME NEW n \in Nodes, NodeRegister(c, n) PROVE Inv'
  <2>1. {} \in SUBSET Caps
    OBVIOUS
  <2>2. Good(RegisterNode(s, n, {}, now), made)
    BY <1>3, <2>1, RegisterKeeps, NodesGood
  <2>3. made \subseteq made' /\ Save(c, RegisterNode(s, n, {}, now))
    BY <1>5 DEF NodeRegister
  <2> QED BY <2>2, <2>3, MoreRequests, SaveKeeps
<1>6. ASSUME NEW n \in Nodes, NEW raw \in RawPolicies, NodePolicySet(c, n, raw) PROVE Inv'
  <2>1. IsRaw(raw)
    BY ProcessesAssumption DEF IsRaw
  <2>2. n \in DOMAIN s.nodes /\ made' = made /\ Save(c, UpdatePolicy(s, n, raw))
    BY <1>6 DEF NodePolicySet
  <2>3. Good(UpdatePolicy(s, n, raw), made)
    BY <1>3, <2>1, <2>2, UpdatePolicyKeeps, NodesGood
  <2> QED BY <2>2, <2>3, SaveKeeps
<1>7. ASSUME NEW n \in Nodes, NEW r \in Requests, NodeTaskAdd(c, n, r) PROVE Inv'
  <2>1. /\ n \in DOMAIN s.nodes /\ r \notin made /\ made' = made \cup {r}
        /\ Save(c, AddTask(s, n, r, NoKey, now))
    BY <1>7 DEF NodeTaskAdd, Admits
  <2>2. Good(AddTask(s, n, r, NoKey, now), made')
    BY <1>3, <2>1, AddGood
  <2> QED BY <2>1, <2>2, SaveKeeps
<1>8. ASSUME NEW n \in Nodes, NodeTaskPull(c, n) PROVE Inv'
  <2>1. PICK i \in Pullable(s, n) : Save(c, Start(s, i, "leased", n))
    BY <1>8 DEF NodeTaskPull
  <2>2. /\ i \in DOMAIN s.tasks /\ s.tasks[i].status \in {"pending", "leased"}
        /\ "leased" \in Active /\ n \in Nodes \cup {Gateway} /\ made' = made
    BY <1>8, <2>1 DEF NodeTaskPull, Pullable, Active
  <2>3. Good(Start(s, i, "leased", n), made)
    BY <1>3, <2>2, StartGood
  <2> QED BY <2>1, <2>2, <2>3, SaveKeeps
<1>9. ASSUME NEW n \in Nodes, NEW i \in DOMAIN s.tasks, NodeTaskAck(c, n, i) PROVE Inv'
  <2>1. /\ s.tasks[i].status \in {"pending", "leased"} /\ made' = made
        /\ "running" \in Active /\ n \in Nodes \cup {Gateway}
        /\ Save(c, Start(s, i, "running", n))
    BY <1>9 DEF NodeTaskAck, Ackable, Active
  <2>2. Good(Start(s, i, "running", n), made)
    BY <1>3, <2>1, StartGood
  <2> QED BY <2>1, <2>2, SaveKeeps
<1>10. ASSUME NEW n \in Nodes, NEW i \in DOMAIN s.tasks, NEW ok \in BOOLEAN,
              NodeTaskResult(c, n, i, ok)
       PROVE  Inv'
  <2>1. Save(c, Complete(s, i, ok)) /\ made' = made
    BY <1>10 DEF NodeTaskResult
  <2>2. Good(Complete(s, i, ok), made)
    BY <1>3, CompleteGood
  <2> QED BY <2>1, <2>2, SaveKeeps
<1>11. ASSUME NEW i \in DOMAIN s.tasks, NEW who \in Approvers, NodeTaskApprove(c, i, who)
       PROVE  Inv'
  <2>1. s.tasks[i].status = "pending_approval" /\ Save(c, Approve(s, i, who)) /\ made' = made
    BY <1>11 DEF NodeTaskApprove
  <2>2. Good(Approve(s, i, who), made)
    BY <1>3, <2>1, ApproveGood
  <2> QED BY <2>1, <2>2, SaveKeeps
<1>12. ASSUME NEW i \in DOMAIN s.tasks, NEW who \in Approvers, NodeTaskReject(c, i, who)
       PROVE  Inv'
  <2>1. Save(c, Reject(s, i, who)) /\ made' = made
    BY <1>12 DEF NodeTaskReject
  <2>2. Good(Reject(s, i, who), made)
    BY <1>3, RejectGood
  <2> QED BY <2>1, <2>2, SaveKeeps
<1> QED
  BY <1>2, <1>4, <1>5, <1>6, <1>7, <1>8, <1>9, <1>10, <1>11, <1>12 DEF Command

-----------------------------------------------------------------------------
(* The gateway.                                                            *)

LEMMA StartStepKeeps ==
  ASSUME Inv, GatewayStart
  PROVE  Inv'
<1>1. gw' \in {file, EmptyStore} /\ state' = "poll" /\ runs' = NoRuns
  BY DEF GatewayStart, Read
<1>2. Good(gw', made)
  BY <1>1, EmptyGood DEF Inv, AllGood
<1>3. \A i \in DOMAIN gw'.tasks : gw'.tasks[i].req \in Requests
  BY <1>2, GoodIs
<1>4. RunOnlyOnce'
  BY <1>1, <1>3 DEF RunOnlyOnce, NoRuns
<1>5. ExecutesCached'
  BY <1>1 DEF ExecutesCached
<1> QED BY <1>2, <1>4, <1>5 DEF Inv, AllGood, GatewayStart

LEMMA PollKeeps ==
  ASSUME Inv, Poll
  PROVE  Inv'
<1> DEFINE swept == ExpireApprovals(gw, now)
<1>1. /\ Good(gw, made) /\ Good(file, made) /\ now \in Nat /\ RunOnlyOnce
      /\ \A c \in DOMAIN copy : Good(copy[c], made)
  BY DEF Inv, AllGood
<1>2. /\ Good(swept, made) /\ SameRequests(gw, swept)
      /\ \A i \in DOMAIN gw.tasks : swept.tasks[i].status = "pending"
                                      => gw.tasks[i].status = "pending"
  BY <1>1, ExpireGood
<1>3. UNCHANGED <<copy, now, made>> /\ state = "poll"
  BY DEF Poll, PollOn
<1>4. \/ /\ gw' = swept /\ file' \in {file, swept, EmptyStore}
         /\ UNCHANGED <<state, task, runs>>
      \/ \E i \in Claimable(swept) : Claim(gw, swept, i)
  BY DEF Poll, PollOn, Sweep, CutShort
<1> HIDE DEF swept
<1>5. CASE gw' = swept /\ file' \in {file, swept, EmptyStore} /\ UNCHANGED <<state, task, runs>>
  <2>1. AllGood'
    BY <1>1, <1>2, <1>3, <1>5, EmptyGood DEF AllGood
  <2>2. RunOnlyOnce' /\ ExecutesCached'
    BY <1>1, <1>2, <1>3, <1>5 DEF RunOnlyOnce, ExecutesCached, SameRequests
  <2> QED BY <1>1, <1>3, <2>1, <2>2 DEF Inv
<1>6. ASSUME NEW i \in Claimable(swept), Claim(gw, swept, i)
      PROVE  Inv'
  <2> DEFINE u == Started(swept.tasks[i], "running", Gateway)
             r == swept.tasks[i].req
  <2>1. /\ i \in DOMAIN swept.tasks /\ swept.tasks[i].status \in {"pending", "leased"}
        /\ swept.tasks[i].status = "pending"
        /\ "running" \in Active /\ Gateway \in Nodes \cup {Gateway}
    BY DEF Claimable, Active
  <2>2. IsStore(swept) /\ r \in Requests /\ swept.tasks[i] \in Task
    BY <1>2, <2>1, GoodIs
  <2>3. gw' = Start(swept, i, "running", Gateway)
    BY <1>6 DEF Claim
  <2>4. Good(gw', made)
    BY <1>2, <2>1, <2>3, StartGood
  <2>5. gw'.tasks = [swept.tasks EXCEPT ![i] = u]
    BY <2>1, <2>2, <2>3, StartStep
  <2>6. u.req = r /\ u.status = "running"
    BY <2>2 DEF Started, Task
  <2>7. runs \in [Requests -> Nat] /\ \A q \in Requests : runs[q] <= 1 /\ runs[q] \in Nat
    BY <1>1 DEF RunOnlyOnce
  <2>8. runs[r] = 0
    BY <1>1, <1>2, <2>1, <2>2, <2>7 DEF RunOnlyOnce, SameRequests
  <2>9. AllGood'
    <3>1. file' \in {gw', file, swept, EmptyStore}
      BY <1>6 DEF Claim
    <3> QED BY <1>1, <1>2, <1>3, <2>4, <3>1, EmptyGood DEF AllGood
  <2>10. runs' \in {runs, [runs EXCEPT ![r] = 1]}
    BY <1>6, <2>8 DEF Claim
  <2>11. ExecutesCached'
    BY <1>3, <1>6, <2>1, <2>5 DEF Claim, ExecutesCached
  <2> HIDE DEF u, r
  <2>12. /\ runs' \in [Requests -> Nat] /\ runs'[r] <= 1
         /\ \A q \in Requests \ {r} : runs'[q] = runs[q]
    BY <2>2, <2>7, <2>8, <2>10
  <2>13. ASSUME NEW j \in DOMAIN gw'.tasks, runs'[gw'.tasks[j].req] # 0
         PROVE  gw'.tasks[j].status # "pending"
    <3>1. CASE j = i
      BY <2>1, <2>5, <2>6, <3>1
    <3>2. CASE j # i
      <4>1. j \in DOMAIN swept.tasks /\ gw'.tasks[j] = swept.tasks[j]
        BY <2>5, <3>2
      <4>2. swept.tasks[j].req # r /\ swept.tasks[j].req \in Requests
        BY <1>2, <2>1, <3>2, <4>1, GoodIs DEF Good, r
      <4>3. runs[swept.tasks[j].req] # 0
        BY <2>12, <2>13, <4>1, <4>2
      <4> QED BY <1>1, <1>2, <4>1, <4>3 DEF RunOnlyOnce, SameRequests
    <3> QED BY <3>1, <3>2
  <2>14. RunOnlyOnce'
    BY <2>7, <2>12, <2>13 DEF RunOnlyOnce
  <2> QED BY <1>1, <1>3, <2>9, <2>11, <2>14 DEF Inv
<1> QED BY <1>4, <1>5, <1>6

LEMMA FinishKeeps ==
  ASSUME Inv, NEW ok \in BOOLEAN, Finish(ok)
  PROVE  Inv'
<1>1. /\ Good(gw, made) /\ RunOnlyOnce /\ task \in DOMAIN gw.tasks
      /\ gw' = Complete(gw, task, ok) /\ file' \in {gw', file, EmptyStore} /\ state' = "poll"
      /\ UNCHANGED <<copy, now, made, runs>>
  BY DEF Inv, AllGood, ExecutesCached, Finish, CutShort
<1>2. IsStore(gw) /\ gw.tasks[task] \in Task
  BY <1>1, GoodIs
<1>3. PICK status \in {"done", "error"} :
        gw'.tasks = [gw.tasks EXCEPT ![task] = Closed(gw.tasks[task], status)]
  BY <1>1, <1>2, CompleteStep
<1> DEFINE u == Closed(gw.tasks[task], status)
<1>4. u.status # "pending" /\ u.req = gw.tasks[task].req
  BY <1>2 DEF Closed, Task
<1>5. gw'.tasks = [gw.tasks EXCEPT ![task] = u]
  BY <1>3
<1> HIDE DEF u
<1>6. RunOnlyOnce'
  BY <1>1, <1>4, <1>5 DEF RunOnlyOnce
<1>7. AllGood'
  BY <1>1, CompleteGood, EmptyGood DEF Inv, AllGood
<1> QED BY <1>1, <1>6, <1>7 DEF Inv, ExecutesCached

LEMMA EndKeeps ==
  ASSUME Inv, NEW torn \in BOOLEAN, GatewayEnd(torn)
  PROVE  Inv'
<1>1. gw' = EmptyStore /\ DOMAIN gw'.tasks = {} /\ file' \in {file, EmptyStore}
      /\ state' = "down" /\ UNCHANGED <<copy, now, made, runs>>
  BY DEF GatewayEnd, EmptyStore
<1>2. AllGood'
  BY <1>1, EmptyGood DEF Inv, AllGood
<1> QED BY <1>1, <1>2 DEF Inv, RunOnlyOnce, ExecutesCached

-----------------------------------------------------------------------------
LEMMA ProcessesInvariance == Spec => []Inv
<1>1. Init => Inv
  <2> SUFFICES ASSUME Init PROVE Inv
    OBVIOUS
  <2>1. AllGood
    BY EmptyGood DEF Init, AllGood
  <2>2. RunOnlyOnce /\ ExecutesCached /\ now \in Nat
    BY DEF Init, RunOnlyOnce, ExecutesCached, EmptyStore, NoRuns
  <2> QED BY <2>1, <2>2 DEF Inv
<1>2. Inv /\ [Next]_vars => Inv'
  <2> SUFFICES ASSUME Inv, [Next]_vars PROVE Inv'
    OBVIOUS
  <2>1. CASE Tick \/ UNCHANGED vars
    BY <2>1 DEF Inv, AllGood, RunOnlyOnce, ExecutesCached, Tick, vars, gateway
  <2> QED
    BY <2>1, CommandStep, StartStepKeeps, PollKeeps, FinishKeeps, EndKeeps DEF Next
<1> QED BY <1>1, <1>2, PTL DEF Spec

\* Whatever the processes undo of each other's work, torn files included, each
\* document that one of them holds is one a single NodeService could have
\* written: released tasks have their quorum, and the events tell who approved.
THEOREM CopiesAreSound == Spec => []EveryCopyIsSound
<1>1. Inv => EveryCopyIsSound
  <2> SUFFICES ASSUME Inv, NEW s \in Stores
               PROVE  /\ IsStore(s)
                      /\ \A i \in DOMAIN s.tasks :
                           LET t == s.tasks[i]
                           IN  /\ t.needs /\ t.status \in {"pending"} \cup Active => Quorum(t)
                               /\ t.approvals = Recorded(s, i, {"approved", "approved_step"})
                               /\ t.status = "rejected"
                                    => Recorded(s, i, {"rejected", "expired"}) # {}
    BY DEF EveryCopyIsSound
  <2>1. Sound(s)
    BY DEF Inv, AllGood, Good, Stores
  <2> QED BY <2>1 DEF Sound, Explained, QuorumOK, Actors, Recorded
<1> QED BY <1>1, ProcessesInvariance, PTL

\* The gateway executes no task twice in its life, whatever the commands write
\* back to the file.
THEOREM OnceInItsLife == Spec => []OncePerLife
<1>1. Inv => OncePerLife
  BY DEF Inv, RunOnlyOnce, OncePerLife
<1> QED BY <1>1, ProcessesInvariance, PTL
=============================================================================
