------------------------------- MODULE NodeOps -------------------------------
(***************************************************************************)
(* The data of zen_claw/node/service.py and what each NodeService method    *)
(* does to it, as operators on a store [nodes, tasks, events]: the JSON     *)
(* document that NodeService._load returns and NodeService._save writes.    *)
(* The modules that EXTEND this one decide who calls the operators, on      *)
(* which copy of the store, and when.                                       *)
(*                                                                         *)
(* Abstractions: a task id is the task's position in the append-only list   *)
(* "tasks"; a task-type pattern list is the set of types it matches; a      *)
(* token is the number of the token issued to its node, so a token handed   *)
(* out earlier is a smaller number; a time of 0 stands for None.  The order *)
(* of the approval events, their hashes and the 2000-event cut belong to    *)
(* another module: here "events" is the set of what was recorded.           *)
(***************************************************************************)
EXTENDS Integers, Sequences, FiniteSets

CONSTANTS
  Nodes,          \* ids register_node can hand out
  Approvers,      \* the identities that approve or reject
  Types,          \* task types
  GatewayTypes,   \* agent.prompt and message.send
  Caps,           \* capability names
  Requests,       \* what add_task is asked for: [type, payload, cap]
  Refused,        \* requests over 100 KiB or failing the static checks
  Keys,           \* idempotency keys
  Gateway,        \* leased_by of a task the dispatcher claimed
  NoOwner,        \* leased_by = None
  NoKey,          \* idempotency_key = ""
  NoCap,          \* required_capability = ""
  TokenTTL,       \* _default_token_ttl_sec, 0: tokens do not expire
  IdemWindow      \* _idempotency_window_sec, 0: keys never age

ASSUME TypesAssumption == GatewayTypes \subseteq Types
ASSUME OwnersAssumption ==
  /\ Gateway \notin Nodes
  /\ NoOwner \notin Nodes
  /\ Gateway # NoOwner
ASSUME NamesAssumption ==
  /\ NoKey \notin Keys
  /\ NoCap \notin Caps
ASSUME TimesAssumption == TokenTTL \in Nat /\ IdemWindow \in Nat
ASSUME RequestsAssumption ==
  /\ \A r \in Requests : r.type \in Types /\ r.cap \in Caps \cup {NoCap}
  /\ Refused \subseteq Requests

-----------------------------------------------------------------------------
Active == {"leased", "running"}
Terminal == {"done", "error", "rejected"}
Status == {"pending_approval", "pending"} \cup Active \cup Terminal

Policy == [allowed: SUBSET Types, gateway: BOOLEAN, maxRunning: Nat \ {0},
           approve: SUBSET Types, timeout: Nat, count: Nat \ {0}]

Node == [token: Nat, revoked: BOOLEAN, expires: Nat,
         caps: SUBSET Caps, policy: Policy]

Task == [node: Nodes, req: Requests, key: Keys \cup {NoKey},
         status: Status, needs: BOOLEAN, count: Nat \ {0}, deadline: Nat,
         approvals: SUBSET Approvers, owner: Nodes \cup {Gateway, NoOwner},
         created: Nat]

EventActions == {"submitted", "approved", "approved_step", "rejected", "expired"}

\* system stands for the actors "system" and "system-timeout".
Event == [task: Nat, action: EventActions, actor: Approvers \cup {NoOwner}]

IsStore(s) ==
  /\ s = [nodes |-> s.nodes, tasks |-> s.tasks, events |-> s.events]
  /\ DOMAIN s.nodes \subseteq Nodes
  /\ s.nodes \in [DOMAIN s.nodes -> Node]
  /\ s.tasks \in Seq(Task)
  /\ \A i \in DOMAIN s.tasks : s.tasks[i].node \in DOMAIN s.nodes
  /\ s.events \subseteq Event

EmptyStore == [nodes |-> << >>, tasks |-> << >>, events |-> {}]

-----------------------------------------------------------------------------
(* Nodes, tokens and policies.                                             *)

DefaultPolicy ==
  [allowed |-> Types, gateway |-> TRUE, maxRunning |-> 1,
   approve |-> {}, timeout |-> 0, count |-> 1]

AtLeast(lo, x) == IF x < lo THEN lo ELSE x

\* Mutant of CleanPolicy: the numbers are stored as given.
UnclampedPolicy(raw) == [raw EXCEPT !.allowed = IF @ = {} THEN Types ELSE @]

\* What update_policy stores for the values it is given: an empty allow list
\* means "*", and the numbers are clamped.  An argument left out keeps the
\* current value, which is the same as giving the current value.
CleanPolicy(raw) ==
  [allowed    |-> IF raw.allowed = {} THEN Types ELSE raw.allowed,
   gateway    |-> raw.gateway,
   maxRunning |-> AtLeast(1, raw.maxRunning),
   approve    |-> raw.approve,
   timeout    |-> AtLeast(0, raw.timeout),
   count      |-> AtLeast(1, raw.count)]

Expiry(now, ttl) == IF ttl > 0 THEN now + ttl ELSE 0

RegisterNode(s, n, caps, now) ==
  [s EXCEPT !.nodes = [m \in DOMAIN @ \cup {n} |->
     IF m = n THEN [token |-> 1, revoked |-> FALSE, expires |-> Expiry(now, TokenTTL),
                    caps |-> caps, policy |-> DefaultPolicy]
              ELSE @[m]]]

TokenExpired(nd, now) == nd.expires > 0 /\ nd.expires <= now

\* _auth: the current token, not revoked, not past its expiry.
Auth(s, n, tok, now) ==
  /\ n \in DOMAIN s.nodes
  /\ s.nodes[n].token = tok
  /\ ~s.nodes[n].revoked
  /\ ~TokenExpired(s.nodes[n], now)

Rotated(nd, now, ttl) ==
  [nd EXCEPT !.token = @ + 1, !.revoked = FALSE, !.expires = Expiry(now, ttl)]

RotateToken(s, n, now, ttl) == [s EXCEPT !.nodes[n] = Rotated(@, now, ttl)]

RevokeToken(s, n) == [s EXCEPT !.nodes[n].revoked = TRUE]

\* scan_token_rotation's candidates: revoked, expired, expiring_soon, no_expiry.
NeedsRotation(nd, now, within) ==
  \/ nd.revoked
  \/ TokenExpired(nd, now)
  \/ nd.expires > now /\ within > 0 /\ nd.expires - now <= within
  \/ nd.expires = 0 /\ within > 0

ScanRotate(s, now, within, ttl) ==
  [s EXCEPT !.nodes = [n \in DOMAIN @ |->
     IF NeedsRotation(@[n], now, within) THEN Rotated(@[n], now, ttl) ELSE @[n]]]

UpdatePolicy(s, n, raw) == [s EXCEPT !.nodes[n].policy = CleanPolicy(raw)]

-----------------------------------------------------------------------------
(* The task queue.                                                         *)

Record(s, i, action, actor) ==
  [s EXCEPT !.events = @ \cup {[task |-> i, action |-> action, actor |-> actor]}]

ActiveTasks(s, n) ==
  {i \in DOMAIN s.tasks : s.tasks[i].node = n /\ s.tasks[i].status \in Active}

HasRoom(s, n) == Cardinality(ActiveTasks(s, n)) < s.nodes[n].policy.maxRunning

\* Mutant of InWindow: a row as old as the window no longer counts.
InOpenWindow(row, now) == IdemWindow = 0 \/ now - row.created < IdemWindow

\* The row add_task would answer for (or refuse because of) the same key.
InWindow(row, now) == IdemWindow = 0 \/ now - row.created <= IdemWindow

KeyTaken(s, n, key, now) ==
  /\ key # NoKey
  /\ \E i \in DOMAIN s.tasks :
       s.tasks[i].node = n /\ s.tasks[i].key = key /\ InWindow(s.tasks[i], now)

Admits(s, n, req, key, now) ==
  /\ n \in DOMAIN s.nodes
  /\ req \notin Refused
  /\ req.type \in s.nodes[n].policy.allowed
  /\ req.cap = NoCap \/ req.cap \in s.nodes[n].caps
  /\ ~KeyTaken(s, n, key, now)

NewTask(s, n, req, key, now) ==
  LET p     == s.nodes[n].policy
      needs == req.type \in p.approve
  IN  [node |-> n, req |-> req, key |-> key,
       status |-> IF needs THEN "pending_approval" ELSE "pending",
       needs |-> needs, count |-> p.count,
       deadline |-> IF needs /\ p.timeout > 0 THEN now + p.timeout ELSE 0,
       approvals |-> {}, owner |-> NoOwner, created |-> now]

AddTask(s, n, req, key, now) ==
  LET t  == NewTask(s, n, req, key, now)
      s2 == [s EXCEPT !.tasks = Append(@, t)]
  IN  IF t.needs THEN Record(s2, Len(s2.tasks), "submitted", NoOwner) ELSE s2

Started(t, status, who) == [t EXCEPT !.status = status, !.owner = who]

Start(s, i, status, who) == [s EXCEPT !.tasks[i] = Started(@, status, who)]

\* pull_task takes the first of these; the quota is read before the scan.
Pullable(s, n) ==
  {i \in DOMAIN s.tasks :
     HasRoom(s, n) /\ s.tasks[i].node = n /\ s.tasks[i].status = "pending"}

\* Mutant of Claimable: the dispatcher does not look at max_running_tasks.
ClaimableBeyondQuota(s) ==
  {i \in DOMAIN s.tasks :
     /\ s.tasks[i].status = "pending"
     /\ s.tasks[i].req.type \in GatewayTypes
     /\ s.nodes[s.tasks[i].node].policy.gateway}

\* claim_next_gateway_task takes the first of these.
Claimable(s) ==
  {i \in DOMAIN s.tasks :
     /\ s.tasks[i].status = "pending"
     /\ s.tasks[i].req.type \in GatewayTypes
     /\ s.nodes[s.tasks[i].node].policy.gateway
     /\ HasRoom(s, s.tasks[i].node)}

IsFirst(i, S) == i \in S /\ \A j \in S : i <= j

\* Mutants of Ackable: a task still waiting for approval can be acked, a task
\* that is already running can be acked.
AckableUnapproved(s, n, i) ==
  s.tasks[i].node = n /\ s.tasks[i].status \in {"leased", "pending", "pending_approval"}
AckableRunning(s, n, i) ==
  s.tasks[i].node = n /\ s.tasks[i].status \in {"leased", "pending", "running"}

Ackable(s, n, i) ==
  s.tasks[i].node = n /\ s.tasks[i].status \in {"leased", "pending"}

Closed(t, status) == [t EXCEPT !.status = status]

\* complete_task and complete_task_system: whatever the status was.
Complete(s, i, ok) ==
  [s EXCEPT !.tasks[i] = Closed(@, IF ok THEN "done" ELSE "error")]

Quorum(t) == Cardinality(t.approvals) >= t.count

ApprovedBy(t, who) ==
  LET u == [t EXCEPT !.approvals = @ \cup {who}]
  IN  [u EXCEPT !.status = IF Quorum(u) THEN "pending" ELSE "pending_approval"]

Approve(s, i, who) ==
  LET u == ApprovedBy(s.tasks[i], who)
  IN  Record([s EXCEPT !.tasks[i] = u], i,
             IF Quorum(u) THEN "approved" ELSE "approved_step", who)

Rejectable(s, i) == s.tasks[i].status \in {"pending_approval", "pending"}

Reject(s, i, who) ==
  Record([s EXCEPT !.tasks[i] = Closed(@, "rejected")], i, "rejected", who)

Overdue(t, now) ==
  t.status = "pending_approval" /\ t.deadline > 0 /\ t.deadline <= now

\* Mutants of ExpireApprovals: no event is recorded, a task that has an
\* approval already is passed over.
ExpireUnrecorded(s, now) ==
  [s EXCEPT !.tasks = [i \in DOMAIN @ |->
     IF Overdue(@[i], now) THEN Closed(@[i], "rejected") ELSE @[i]]]

TimedOut(s, late) ==
  [nodes  |-> s.nodes,
   tasks  |-> [i \in DOMAIN s.tasks |->
                 IF i \in late THEN Closed(s.tasks[i], "rejected") ELSE s.tasks[i]],
   events |-> s.events \cup
                {[task |-> i, action |-> "expired", actor |-> NoOwner] : i \in late}]

ExpireUntouched(s, now) ==
  TimedOut(s, {i \in DOMAIN s.tasks :
                 Overdue(s.tasks[i], now) /\ s.tasks[i].approvals = {}})

ExpireApprovals(s, now) ==
  TimedOut(s, {i \in DOMAIN s.tasks : Overdue(s.tasks[i], now)})
=============================================================================
