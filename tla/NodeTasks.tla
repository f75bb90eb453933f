------------------------------ MODULE NodeTasks ------------------------------
(***************************************************************************)
(* One NodeService (zen_claw/node/service.py) shared by everybody who calls *)
(* it, and the NodeTaskDispatcher (node/dispatcher.py) that executes the    *)
(* gateway's share of the queue.  Every method of NodeService runs to its   *)
(* end without an await, so it is one action; the dispatcher awaits the     *)
(* agent and the connector sidecar while it executes a task, and anything   *)
(* may happen in between.                                                   *)
(*                                                                         *)
(* A _save that raises changes nothing here but the dispatcher's course     *)
(* (RunOnce): every method has changed the cache before it saves, the cache *)
(* stays, and an operator or a node is answered with an error for what has  *)
(* happened.  (Scan saves once for every token it rotates: cut short, it is *)
(* some Rotates.)  The file and its readers are the matter of NodeProcesses. *)
(***************************************************************************)
EXTENDS NodeOps

CONSTANTS
  CapSets,        \* the capability sets nodes register with
  RawPolicies,    \* the arguments update_policy is called with
  Windows,        \* within_sec of scan_token_rotation
  MaxTasks,       \* bound: tasks ever added
  MaxToken,       \* bound: tokens ever issued to a node
  MaxClock        \* bound: the clock

ASSUME BoundsAssumption ==
  /\ MaxTasks \in Nat /\ MaxToken \in Nat /\ MaxClock \in Nat
  /\ Windows \subseteq Nat
ASSUME InputsAssumption ==
  /\ CapSets \subseteq SUBSET Caps
  /\ \A p \in RawPolicies :
       /\ p.allowed \subseteq Types /\ p.approve \subseteq Types
       /\ p.gateway \in BOOLEAN
       /\ p.maxRunning \in Int /\ p.timeout \in Int /\ p.count \in Int

VARIABLES
  store,    \* NodeService._cache
  now,      \* _now_ms()
  wstate,   \* the dispatcher: "down", "poll" (in its loop) or "exec" (awaiting)
  wtask,    \* the task it claimed and is executing, 0 when none
  orphans   \* history: tasks it claimed and let go of unfinished: a stop cut
            \* their execution off, or the save of their claim raised

vars == <<store, now, wstate, wtask, orphans>>
worker == <<wstate, wtask, orphans>>

Init ==
  /\ store = EmptyStore
  /\ now = 1
  /\ wstate = "down"
  /\ wtask = 0
  /\ orphans = {}

-----------------------------------------------------------------------------
Register(n, caps) ==
  /\ n \notin DOMAIN store.nodes
  /\ store' = RegisterNode(store, n, caps, now)
  /\ UNCHANGED <<now, worker>>

SetPolicy(n, raw) ==
  /\ n \in DOMAIN store.nodes
  /\ store' = UpdatePolicy(store, n, raw)
  /\ UNCHANGED <<now, worker>>

Rotate(n) ==
  /\ n \in DOMAIN store.nodes
  /\ store.nodes[n].token < MaxToken
  /\ store' = RotateToken(store, n, now, TokenTTL)
  /\ UNCHANGED <<now, worker>>

Revoke(n) ==
  /\ n \in DOMAIN store.nodes
  /\ store' = RevokeToken(store, n)
  /\ UNCHANGED <<now, worker>>

Scan(within) ==
  /\ \A n \in DOMAIN store.nodes : store.nodes[n].token < MaxToken
  /\ store' = ScanRotate(store, now, within, TokenTTL)
  /\ UNCHANGED <<now, worker>>

Add(n, req, key) ==
  /\ Len(store.tasks) < MaxTasks
  /\ Admits(store, n, req, key, now)
  /\ store' = AddTask(store, n, req, key, now)
  /\ UNCHANGED <<now, worker>>

Pull(n, tok) ==
  /\ Auth(store, n, tok, now)
  /\ \E i \in Pullable(store, n) :
       /\ IsFirst(i, Pullable(store, n))
       /\ store' = Start(store, i, "leased", n)
  /\ UNCHANGED <<now, worker>>

Ack(n, tok, i) ==
  /\ Auth(store, n, tok, now)
  /\ Ackable(store, n, i)
  /\ store' = Start(store, i, "running", n)
  /\ UNCHANGED <<now, worker>>

\* The node reports a result.
Report(n, tok, i, ok) ==
  /\ Auth(store, n, tok, now)
  /\ store.tasks[i].node = n
  /\ store' = Complete(store, i, ok)
  /\ UNCHANGED <<now, worker>>

\* Mutant of ApproveTask: the status is not looked at.
ApproveTaskAnytime(i, who) ==
  /\ store' = Approve(store, i, who)
  /\ UNCHANGED <<now, worker>>

ApproveTask(i, who) ==
  /\ store.tasks[i].status = "pending_approval"
  /\ store' = Approve(store, i, who)
  /\ UNCHANGED <<now, worker>>

RejectTask(i, who) ==
  /\ Rejectable(store, i)
  /\ store' = Reject(store, i, who)
  /\ UNCHANGED <<now, worker>>

-----------------------------------------------------------------------------
DispatcherStart ==
  /\ wstate = "down"
  /\ wstate' = "poll"
  /\ UNCHANGED <<store, now, wtask, orphans>>

\* run_once up to the first await of _execute_task: expire, then claim.  When
\* the sweep's _save raises there is no claim; when the claim's does, the task
\* is already the gateway's in the cache: _run_loop logs the error and polls
\* on, and nobody executes the task.
RunOnce ==
  /\ wstate = "poll"
  /\ LET swept == ExpireApprovals(store, now)
     IN  \/ /\ Claimable(swept) = {} \/ swept # store
            /\ store' = swept
            /\ UNCHANGED worker
         \/ \E i \in Claimable(swept) :
              /\ IsFirst(i, Claimable(swept))
              /\ store' = Start(swept, i, "running", Gateway)
              /\ \/ wstate' = "exec" /\ wtask' = i /\ UNCHANGED orphans
                 \/ orphans' = orphans \cup {i} /\ UNCHANGED <<wstate, wtask>>
  /\ UNCHANGED now

\* Mutant of Finish: the exception handler does not complete the task.
FinishOnSuccess(ok) ==
  /\ wstate = "exec"
  /\ store' = IF ok THEN Complete(store, wtask, ok) ELSE store
  /\ wstate' = "poll"
  /\ wtask' = 0
  /\ UNCHANGED <<now, orphans>>

\* The agent or the sidecar has answered (ok), or an exception was caught.  A
\* _save that raises in completing is such an exception, the handler completes
\* the task once more, as an error, and a second one goes to _run_loop.
Finish(ok) ==
  /\ wstate = "exec"
  /\ store' = Complete(store, wtask, ok)
  /\ wstate' = "poll"
  /\ wtask' = 0
  /\ UNCHANGED <<now, orphans>>

\* stop() cancels the loop where it awaits, and CancelledError passes through
\* "except Exception": the claimed task keeps its status.
DispatcherStop ==
  /\ wstate # "down"
  /\ orphans' = IF wstate = "exec" THEN orphans \cup {wtask} ELSE orphans
  /\ wstate' = "down"
  /\ wtask' = 0
  /\ UNCHANGED <<store, now>>

Tick ==
  /\ now < MaxClock
  /\ now' = now + 1
  /\ UNCHANGED <<store, worker>>

-----------------------------------------------------------------------------
Tasks == DOMAIN store.tasks
Tokens == 1 .. MaxToken

Operator ==
  \/ \E n \in Nodes :
       \/ \E caps \in CapSets : Register(n, caps)
       \/ \E raw \in RawPolicies : SetPolicy(n, raw)
       \/ Rotate(n)
       \/ Revoke(n)
       \/ \E req \in Requests, key \in Keys \cup {NoKey} : Add(n, req, key)
  \/ \E within \in Windows : Scan(within)
  \/ \E i \in Tasks, who \in Approvers : ApproveTask(i, who) \/ RejectTask(i, who)

NodeSide ==
  \E n \in Nodes, tok \in Tokens :
    \/ Pull(n, tok)
    \/ \E i \in Tasks : Ack(n, tok, i) \/ \E ok \in BOOLEAN : Report(n, tok, i, ok)

Dispatcher ==
  DispatcherStart \/ RunOnce \/ (\E ok \in BOOLEAN : Finish(ok)) \/ DispatcherStop

Next == Operator \/ NodeSide \/ Dispatcher \/ Tick

Spec == Init /\ [][Next]_vars

\* asyncio runs the dispatcher's loop again after each sleep; the prompt it
\* awaits ends (the agent loop bounds its iterations and its provider calls
\* time out).
FairSpec == Spec /\ WF_vars(RunOnce) /\ WF_vars(\E ok \in BOOLEAN : Finish(ok))

-----------------------------------------------------------------------------
\* The store is a document of the shape _load sets up, every task is filed
\* under a registered node, and every event is about a task.
TypeOK ==
  /\ IsStore(store)
  /\ now \in Nat
  /\ wstate \in {"down", "poll", "exec"}
  /\ wtask \in Nat
  /\ orphans \subseteq Nat

-----------------------------------------------------------------------------
(* Safety.                                                                 *)

\* Approval before execution ("--require-approval-task-type ... before
\* execution", cli/commands.py): whatever the interleaving of approvers,
\* policy changes, expiry and nodes that ack by id, a task that needed
\* approval is queued or worked on only with its quorum of distinct approvers,
\* and the quorum it was submitted under.
ReleasedByQuorum ==
  \A i \in DOMAIN store.tasks :
    LET t == store.tasks[i]
    IN  t.needs /\ t.status \in {"pending"} \cup Active => Quorum(t)

\* The approval events explain every decision: the approvals of a task are
\* exactly those recorded for it, a task released from approval has its
\* "approved" event and a rejected one the event of the rejection or expiry.
Recorded(i, actions) ==
  {e.actor : e \in {f \in store.events : f.task = i /\ f.action \in actions}}

EventsExplainTasks ==
  \A i \in DOMAIN store.tasks :
    LET t == store.tasks[i]
    IN  /\ t.approvals = Recorded(i, {"approved", "approved_step"})
        /\ t.needs => Recorded(i, {"submitted"}) # {}
        /\ t.needs /\ t.status \in {"pending"} \cup Active => Recorded(i, {"approved"}) # {}
        /\ t.status = "rejected" => Recorded(i, {"rejected", "expired"}) # {}

\* add_task's idempotency: a node never holds two tasks added under one key
\* within the window, whatever their status and whatever was added between.
OneTaskPerKey ==
  \A i, j \in DOMAIN store.tasks :
    LET t == store.tasks[i]  u == store.tasks[j]
    IN  i < j /\ t.node = u.node /\ t.key = u.key /\ t.key # NoKey
          => IdemWindow # 0 /\ u.created - t.created > IdemWindow

\* A task that is running for the gateway is the one the dispatcher is
\* executing, or one it let go of for the two causes named at orphans: a stop,
\* or a save of the claim that raised.  No answer of the agent or the sidecar,
\* no exception on the way and no save of a completion strands another.
GatewayRunsTracked ==
  \A i \in DOMAIN store.tasks :
    store.tasks[i].status = "running" /\ store.tasks[i].owner = Gateway
      => (wstate = "exec" /\ wtask = i) \/ i \in orphans

\* The life of a task only goes forward.  A task that was rejected, leased,
\* started or finished is never queued again, so no payload is handed out
\* twice.
Rank(status) ==
  CASE status = "pending_approval" -> 0
    [] status = "pending" -> 1
    [] status = "leased" -> 2
    [] status = "running" -> 3
    [] OTHER -> 4

StatusNeverGoesBack ==
  [][\A i \in DOMAIN store.tasks :
       Rank(store'.tasks[i].status) >= Rank(store.tasks[i].status)]_vars

\* Whoever takes a task keeps it: a node cannot take over what the dispatcher
\* claimed, nor the dispatcher what a node pulled, nor a node another's task.
OwnerNeverChanges ==
  [][\A i \in DOMAIN store.tasks :
       store.tasks[i].owner # NoOwner
         => store'.tasks[i].owner = store.tasks[i].owner]_vars

\* max_running_tasks as pull_task and claim_next_gateway_task apply it: a
\* task becomes active where the node has no room only when the node acks it.
QuotaExceededOnlyByAck ==
  [][\A n \in DOMAIN store.nodes :
       \A i \in ActiveTasks(store', n) \ ActiveTasks(store, n) :
         HasRoom(store, n) \/ store'.tasks[i] = [store.tasks[i] EXCEPT
                                !.status = "running", !.owner = n]]_vars

-----------------------------------------------------------------------------
(* Liveness, under FairSpec.                                               *)

IsLate(i) == i \in Tasks /\ Overdue(store.tasks[i], now)

\* A task whose approval deadline has passed leaves pending_approval, as long
\* as the dispatcher is not down.
OverdueApprovalsResolve ==
  \A i \in 1 .. MaxTasks : IsLate(i) ~> (~IsLate(i) \/ wstate = "down")

-----------------------------------------------------------------------------
(* What the command line's help says and the code does not keep.           *)

\* "Max concurrent leased/running tasks" (cli/commands.py, policy set
\* --max-running-tasks): no step that makes a task active leaves its node
\* with more active tasks than the policy allows.
MaxConcurrent ==
  [][\A n \in DOMAIN store.nodes :
       ActiveTasks(store', n) \ ActiveTasks(store, n) # {}
         => Cardinality(ActiveTasks(store', n)) <= store.nodes[n].policy.maxRunning]_vars

\* "Approval timeout in seconds" (cli/commands.py, policy set
\* --approval-timeout-sec): a task is not released once its timeout is over.
NoLateRelease ==
  [][\A i \in DOMAIN store.tasks :
       Overdue(store.tasks[i], now) => store'.tasks[i].status # "pending"]_vars
=============================================================================
