---------------------------- MODULE NodeProcesses ----------------------------
(***************************************************************************)
(* nodes/state.json between the processes that use it.  Every "zen-claw     *)
(* node" command (cli/commands.py) is a process with a NodeService of its   *)
(* own: it reads the file, calls one method and, if that changed anything,  *)
(* overwrites the file.  The gateway's dispatcher has one NodeService from  *)
(* its start to its end, which never reads the file again (_cache).  What   *)
(* the methods do is in NodeOps; NodeTasks is the same service with a       *)
(* single process.                                                          *)
(*                                                                         *)
(* Abstractions: a request stands for one add_task, so that it tells tasks  *)
(* of different copies apart as the task id does; tokens are left to        *)
(* NodeTasks, every node has its first one.                                 *)
(***************************************************************************)
EXTENDS NodeOps, Functions

CONSTANTS
  Commands,       \* command-line processes that may run at one time
  RawPolicies,    \* the arguments of "node policy set"
  MaxClock        \* bound: the clock

ASSUME ProcessesAssumption ==
  /\ MaxClock \in Nat
  /\ \A p \in RawPolicies :
       /\ p.allowed \subseteq Types /\ p.approve \subseteq Types
       /\ p.gateway \in BOOLEAN
       /\ p.maxRunning \in Int /\ p.timeout \in Int /\ p.count \in Int

VARIABLES
  file,     \* nodes/state.json
  copy,     \* the copy of each command that has read it
  gw,       \* the gateway's _cache
  state,    \* the dispatcher: "down", "poll" or "exec"
  task,     \* the task it is executing, 0 when none
  now,      \* _now_ms()
  made,     \* history: the nodes registered and the requests added
  runs      \* history: executions of each request in this life of the gateway

vars == <<file, copy, gw, state, task, now, made, runs>>
gateway == <<gw, state, task, runs>>

NoRuns == [r \in Requests |-> 0]

Init ==
  /\ file = EmptyStore
  /\ copy = << >>
  /\ gw = EmptyStore
  /\ state = "down"
  /\ task = 0
  /\ now = 1
  /\ made = {}
  /\ runs = NoRuns

-----------------------------------------------------------------------------
\* _load: the file, or the empty document when the file is found in the middle
\* of a save by one of the others.
Read(others) == {file} \cup (IF others THEN {EmptyStore} ELSE {})

Open(c) ==
  /\ c \notin DOMAIN copy
  /\ \E s \in Read(state # "down" \/ copy # << >>) :
       copy' = [d \in DOMAIN copy \cup {c} |-> IF d = c THEN s ELSE copy[d]]
  /\ UNCHANGED <<file, gateway, now, made>>

Gone(c) == Restrict(copy, DOMAIN copy \ {c})

\* A command that changes nothing: it lists, it is refused, it is killed, or
\* its save raises before the file is touched.
Close(c) ==
  /\ c \in DOMAIN copy
  /\ copy' = Gone(c)
  /\ UNCHANGED <<file, gateway, now, made>>

\* It is killed in the middle of its save, or the save raises there: what is
\* left is not read.
Tear(c) ==
  /\ c \in DOMAIN copy
  /\ file' = EmptyStore
  /\ copy' = Gone(c)
  /\ UNCHANGED <<gateway, now, made>>

\* Its method has made s of its copy: _save, and the process ends.
Save(c, s) ==
  /\ c \in DOMAIN copy
  /\ file' = s
  /\ copy' = Gone(c)
  /\ UNCHANGED <<gateway, now>>

NodeRegister(c, n) ==
  /\ n \notin made
  /\ Save(c, RegisterNode(copy[c], n, {}, now))
  /\ made' = made \cup {n}

NodePolicySet(c, n, raw) ==
  /\ n \in DOMAIN copy[c].nodes
  /\ Save(c, UpdatePolicy(copy[c], n, raw))
  /\ UNCHANGED made

NodeTaskAdd(c, n, r) ==
  /\ r \notin made
  /\ Admits(copy[c], n, r, NoKey, now)
  /\ Save(c, AddTask(copy[c], n, r, NoKey, now))
  /\ made' = made \cup {r}

NodeTaskPull(c, n) ==
  /\ Auth(copy[c], n, 1, now)
  /\ \E i \in Pullable(copy[c], n) :
       /\ IsFirst(i, Pullable(copy[c], n))
       /\ Save(c, Start(copy[c], i, "leased", n))
  /\ UNCHANGED made

NodeTaskAck(c, n, i) ==
  /\ Auth(copy[c], n, 1, now)
  /\ Ackable(copy[c], n, i)
  /\ Save(c, Start(copy[c], i, "running", n))
  /\ UNCHANGED made

NodeTaskResult(c, n, i, ok) ==
  /\ Auth(copy[c], n, 1, now)
  /\ copy[c].tasks[i].node = n
  /\ Save(c, Complete(copy[c], i, ok))
  /\ UNCHANGED made

NodeTaskApprove(c, i, who) ==
  /\ copy[c].tasks[i].status = "pending_approval"
  /\ Save(c, Approve(copy[c], i, who))
  /\ UNCHANGED made

NodeTaskReject(c, i, who) ==
  /\ Rejectable(copy[c], i)
  /\ Save(c, Reject(copy[c], i, who))
  /\ UNCHANGED made

Command(c) ==
  \/ Open(c)
  \/ /\ c \in DOMAIN copy
     /\ \/ Close(c)
        \/ Tear(c)
        \/ \E n \in Nodes :
             \/ NodeRegister(c, n)
             \/ \E raw \in RawPolicies : NodePolicySet(c, n, raw)
             \/ \E r \in Requests : NodeTaskAdd(c, n, r)
             \/ NodeTaskPull(c, n)
             \/ \E i \in DOMAIN copy[c].tasks :
                  NodeTaskAck(c, n, i) \/ \E ok \in BOOLEAN : NodeTaskResult(c, n, i, ok)
        \/ \E i \in DOMAIN copy[c].tasks, who \in Approvers :
             NodeTaskApprove(c, i, who) \/ NodeTaskReject(c, i, who)

-----------------------------------------------------------------------------
(* The gateway.                                                            *)

\* start(), and the _load of the first poll.
GatewayStart ==
  /\ state = "down"
  /\ gw' \in Read(copy # << >>)
  /\ state' = "poll"
  /\ runs' = NoRuns
  /\ UNCHANGED <<file, copy, task, now, made>>

\* What a _save that raises leaves of the file: it has not touched it, or it
\* has cut it short.  The cache keeps what was to be saved.
CutShort == {file, EmptyStore}

\* The sweep: expire_pending_approvals, which saves if anything has expired.  No
\* claim follows when there is nothing to claim, or when the save raises.
Sweep(s, swept) ==
  /\ gw' = swept
  /\ \/ Claimable(swept) = {} /\ file' = (IF swept = s THEN file ELSE swept)
     \/ swept # s /\ file' \in CutShort
  /\ UNCHANGED <<state, task, runs>>

\* claim_next_gateway_task: when its save raises, the task is claimed in the
\* cache, on the file it is as the sweep left it, and nobody executes it.
Claim(s, swept, i) ==
  /\ IsFirst(i, Claimable(swept))
  /\ gw' = Start(swept, i, "running", Gateway)
  /\ \/ /\ file' = gw'
        /\ state' = "exec"
        /\ task' = i
        /\ runs' = [runs EXCEPT ![swept.tasks[i].req] = @ + 1]
     \/ /\ file' \in {IF swept = s THEN file ELSE swept, EmptyStore}
        /\ UNCHANGED <<state, task, runs>>

\* run_once on the cache s.
PollOn(s) ==
  /\ state = "poll"
  /\ LET swept == ExpireApprovals(s, now)
     IN  Sweep(s, swept) \/ \E i \in Claimable(swept) : Claim(s, swept, i)
  /\ UNCHANGED <<copy, now, made>>

\* Mutant of Poll: the file is read again before every poll.
PollFile == PollOn(file)

Poll == PollOn(gw)

\* A completion that the file has not got is one whose handler, and so the
\* save of its error, raised as well (see NodeTasks).
Finish(ok) ==
  /\ state = "exec"
  /\ gw' = Complete(gw, task, ok)
  /\ file' = gw' \/ (~ok /\ file' \in CutShort)
  /\ state' = "poll"
  /\ task' = 0
  /\ UNCHANGED <<copy, now, made, runs>>

\* The gateway ends or crashes, where it waits or in the middle of a save.
GatewayEnd(torn) ==
  /\ state # "down"
  /\ file' = IF torn THEN EmptyStore ELSE file
  /\ gw' = EmptyStore
  /\ state' = "down"
  /\ task' = 0
  /\ UNCHANGED <<copy, now, made, runs>>

Tick ==
  /\ now < MaxClock
  /\ now' = now + 1
  /\ UNCHANGED <<file, copy, gateway, made>>

Next ==
  \/ \E c \in Commands : Command(c)
  \/ GatewayStart
  \/ Poll
  \/ \E ok \in BOOLEAN : Finish(ok)
  \/ \E torn \in BOOLEAN : GatewayEnd(torn)
  \/ Tick

Spec == Init /\ [][Next]_vars

\* As in NodeTasks: the loop comes back, and what it awaits ends.
FairSpec == Spec /\ WF_vars(Poll) /\ WF_vars(\E ok \in BOOLEAN : Finish(ok))

-----------------------------------------------------------------------------
Stores == {file, gw} \cup {copy[c] : c \in DOMAIN copy}

Recorded(s, i, actions) ==
  {e.actor : e \in {f \in s.events : f.task = i /\ f.action \in actions}}

\* Whatever the processes undo of each other's work, every document that one
\* of them holds is one that a single NodeService could have written: what is
\* queued or worked on has its quorum, and the events tell who approved it.
EveryCopyIsSound ==
  \A s \in Stores :
    /\ IsStore(s)
    /\ \A i \in DOMAIN s.tasks :
         LET t == s.tasks[i]
         IN  /\ t.needs /\ t.status \in {"pending"} \cup Active => Quorum(t)
             /\ t.approvals = Recorded(s, i, {"approved", "approved_step"})
             /\ t.status = "rejected" => Recorded(s, i, {"rejected", "expired"}) # {}

\* The gateway executes no task twice in its life, whatever commands write
\* back to the file from a copy in which the task is still pending.
OncePerLife == \A r \in Requests : runs[r] <= 1

Waiting(s, r) == \E i \in Claimable(s) : s.tasks[i].req = r

\* "Bridge node task queue to gateway+agent execution loop." (cli/commands.py):
\* what the file offers to a running gateway is executed, or taken from the
\* queue.
QueuedTasksRun ==
  \A r \in Requests :
    (state # "down" /\ Waiting(file, r))
      ~> (state = "down" \/ runs[r] > 0 \/ ~Waiting(file, r))
=============================================================================
