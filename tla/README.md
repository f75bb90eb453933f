# A formal model of zen-claw

zen-claw is a personal agent gateway: chat channels feed messages to agent
loops, agents call tools (through policies, approvals and sidecar processes),
and a few stateful services run beside them: a queue of tasks for remote
nodes, a job scheduler, a router of chats to agents, supervisors of helper
processes.  This directory holds TLA+ modules that model those services,
configurations that check them with TLC, and proofs checked by TLAPS.

`PROJECT.json` lists components, runs, findings, hazards and theorems, and maps
every definition to the lines it models.  Paths below are relative to `src/`.

## 1. The system

| Component | State | Operations | Hard behaviour | What makes it correct |
|---|---|---|---|---|
| Node service `zen_claw/node/service.py` | `state.json`, cached whole: nodes with token and policy, tasks, approval events | register, rotate/revoke/scan tokens, set policy, add, pull, ack, complete, approve, reject, expire, claim, verify the event chain | callers race (operators, nodes, dispatcher); processes with caches of their own; retries under a key; deadlines | approval before work; one task per key; a task has one owner and only goes forward; quotas; events explain decisions |
| Dispatcher `zen_claw/node/dispatcher.py` | its loop, the task it executes | start, stop, run once | awaits an agent turn while everything else goes on; cancelled there by stop | what it claims finishes, unless a stop cuts it off or its claim cannot be saved |
| Cron service `zen_claw/cron/service.py` | jobs in memory and in `jobs.json`, one timer task | start, stop, add, remove, enable, run | the timer task is cancelled by the operations its own job performs; command-line processes on the same file; restarts | the timer is exact; due jobs run; one-shots run once |
| Approval gate `zen_claw/agent/approval_gate.py` | records of sensitive calls and their status, on file | request, approve, deny, expire, consume | decision after the TTL, restart, one gate per agent loop on one file | an execution needs an approval of that very call, and uses it up |
| Channel routing `zen_claw/channels/routing.py` | SQLite: routes and their audit | set (last writer wins), handoff, soft rollback, clear, bulk clear, gc | several processes on one database, a lock per process; rollback reads the audit it extends | the newest update wins; a rollback goes to an agent the chat had |
| Channel manager and limiter `zen_claw/channels/manager.py`, bus `zen_claw/bus/queue.py` | two bounded queues, token buckets, one outbound loop | publish, consume, drop or delay, stop | head-of-line waits, full queues, a message in hand when stopped | each accepted message is sent, dropped with a notice, or logged as failed; no chat gets more than its rate |
| Inbound router `zen_claw/cli/commands.py`, channels, subagents | the inbound queue, the turn under way | receive, post a webhook, announce, route, end | webhooks are put by loops in threads of the HTTP server; both queues full; what the router raises | every message gets its turn while the gateway lives |
| Sidecar supervisor `zen_claw/runtime/sidecar_supervisor.py` | process, retry time, failure window and circuit of each sidecar | start, monitor, stop | health polls between awaits, backoff and circuit on one clock | no process while it waits; failed starts are bounded; a fit sidecar comes up |
| Agent loop `zen_claw/agent/loop.py`, tool registry | what a turn sets on a shared registry, its rounds of model and tools | process a message, call tools | two turns interleave at awaits; a batch of calls is cut short | a call is judged by the policies of its own turn; every call has its result |
| Sessions and compression `zen_claw/session/manager.py`, `agent/context_compression.py` | messages, summary and its mark, in the cache of each loop and in a file | add, save, load, clear, summarise | a summary is written long after it was planned; loops overwrite each other's file | a summary stands for the messages before its mark and for no others; question and answer stay together; a saved turn stays |
| Skills `zen_claw/agent/skills.py` | skill directories, states, the install journal | install, uninstall, enable, recover | copies cut short; loaders of other processes at work at once | a copy cut short is in the journal, unless a write of the journal was itself cut short; a whole one is not in it |
| Audit `zen_claw/observability/audit.py` | a file of hash-chained records for each day | record, verify | the hash is read before a wait and written after it; torn lines, midnight | the chain breaks only where records met |
| Execution sidecar `go/sec-execd/main.go` | sessions: status, process, output, marks | start, kill, signal, read, write, resize, close stdin, list | goroutines, readers, timeout and handlers on one record | a kill is kept; an ended session stays as it is; every session ends |
| Web chat `zen_claw/dashboard/server.py`, `channels/webchat.py` | a runtime with a bus, an agent and a dispatcher; a queue for each session | connect, ask, wait for an answer, start, stop, apply | timeouts, background work and several sockets on one queue that knows no questions | the client reads the answer to its own question; a restart restarts |
| Intent router, memory, knowledge, providers, the other views and adapters | data, text, I/O | | | outside the model (section 7) |

Interaction: channels put inbound messages on the bus, the router picks an
agent loop (by the bindings of the channel routing), the loop's turn calls
tools (the cron tool calls the gateway's CronService, sensitive tools go through
the approval gate, commands run in sidecars) and publishes replies on the bus
for the channel manager.  Subagents report through the inbound queue.  The
dispatcher, the cron timer and the heartbeat start agent turns of their own
beside the router's.  The command line and the dashboard work on the files of
the node service, the cron service, the skills, the sessions and the routes from
processes of their own.

## 2. Modules

| Module | Models | Extends |
|---|---|---|
| `NodeOps` | the data of the node service and what each method does to it, as operators on a store `[nodes, tasks, events]` | |
| `NodeTasks` | one service shared by operators, nodes and the dispatcher | `NodeOps` |
| `NodeOpsProofs` | lemmas about those operators | `NodeOps`, `TLAPS` |
| `NodeTasksProofs`, `NodeProcessesProofs` | theorems about `NodeTasks` and about `NodeProcesses` | the module, `NodeOpsProofs` |
| `MCNodeTasks` | constants for TLC | `NodeTasks` |
| `NodeProcesses`, `MCNodeProcesses` | the node commands and the gateway, each with a copy of `state.json` | `NodeOps` |
| `CronService` | the gateway's cron service with its timer task, the cron tool, and the command line's processes | |
| `CronServiceProofs` | theorems about `CronService` | `CronService`, `TLAPS` |
| `MCCronService` | constants for TLC | `CronService` |
| `OneTimePermits` | abstract: permits that are asked for, decided once, and good for one use | |
| `ApprovalGate` | the gates of any number of agent loops on one file; implements `OneTimePermits` when there is one | |
| `MCApprovalGate` | `ApprovalGate`, checked as it is | `ApprovalGate` |
| `ChannelRouting` | one route key and its audit, statement by statement, by threads of several processes | |
| `SidecarSupervisor` | the supervisor's start, monitor and stop, and sidecars that fail and recover | |
| `Outbound` | the outbound queue, the token buckets and the loop that sends | |
| `Inbound` | the inbound queue with its putters, in the gateway's loop and in threads, and the router | |
| `SkillInstall` | installs, uninstalls and recoveries by loaders of several processes, one file operation at a time | |
| `Conversation` | one conversation in a file and in the caches of several loops, with its rolling summary | |
| `AuditChain` | the audit workers' records in the files of a few days | |
| `TurnContext` | the turns of one agent loop and what they share on the tool registry | |
| `ExecSessions` | the background sessions of the execution sidecar | |
| `WebChat` | the dashboard's web chat: runtime, sockets, operators | |
| `ChannelsProofs` | theorems about how messages come in and leave | `ChannelRouting`, `Outbound`, `Inbound`, `WebChat`, `TLAPS` |
| `SidecarProofs` | theorems about the sidecars | `SidecarSupervisor`, `ExecSessions`, `TLAPS` |
| `AgentProofs` | theorems about what the agent works with | `TurnContext`, `Conversation`, `SkillInstall`, `AuditChain`, `ApprovalGate`, `TLAPS` |
| `MCServices` | the services that share no state, in one run | `ChannelRouting`, `SidecarSupervisor`, `Outbound`, `SkillInstall`, `AuditChain`, `TurnContext`, `ExecSessions`, `Inbound`, `ApprovalGate` |
| `ServicesProofs` | the run of `MCServices` and the theorems of its services | `MCServices`, `ChannelsProofs`, `SidecarProofs`, `AgentProofs` |
| `MCCronAndChat` | the cron service, the web chat and the conversations, in one run | `MCCronService`, `WebChat`, `Conversation` |

`NodeTasks` composes the node service with its dispatcher; `TurnContext`,
`Conversation`, `Outbound` and `Inbound` are four sides of the same turns: what
they share, what they leave in the session, how their replies leave and how
their messages come in.  `Inbound` relies on `EveryReplySettled` of `Outbound`
for the fairness of its outgoing queue.

**Node tasks.** No method of `NodeService` awaits, so each is one action:
`Register`, `SetPolicy`, `Rotate`, `Revoke`, `Scan`, `Add`, `Pull`, `Ack`,
`Report` (`complete_task`), `ApproveTask`, `RejectTask`.  `_execute_task` of the
dispatcher awaits, so the dispatcher has `RunOnce` (expire, then claim), then
`Finish(ok)`, and `DispatcherStop` at any point between.  `store` is the
service's cache, which every method changes before it saves: a caller whose
`_save` raises gets the error, and the change stays.  Where that matters it is a
step of its own: a sweep whose save raises is followed by no claim; a claim
whose save raises has made the task the gateway's, but the loop logs the error
and polls on, and nobody executes it (`orphans`, where the tasks that a stop has cut
off are too); a completion whose save raises is made once more, as an error.  A task id is the position in the
append-only list; a pattern list is the set of types it matches; a token is the
number of the token issued to that node, so a token handed out earlier can be
used in any action that takes one; 0 stands for None in times.  Whether a
request is too large or fails the static checks is a property of the request
(`Refused`).

**Node processes.** `NodeTasks` has one store, as the tests have.  The program
has one for each process: a `zen-claw node` command reads the file (`Open`), calls
one method and overwrites the file (`NodeTaskAdd` and so on, by `Save`), or ends
without (`Close`); the gateway reads it when its dispatcher first polls
(`GatewayStart`) and never again, and overwrites it with each expiry, claim and result.
`NodeProcesses` composes the same operators that way.  A file that is found in the
middle of a save, or that a crash has left so (`Tear`, `GatewayEnd(TRUE)`),
is read as the empty document, as `_load` does.  A save of the gateway may
raise as well, with the file untouched or cut short (`CutShort`), while the gateway
goes on with its copy (`Sweep`, `Claim`, `Finish`).  Two copies may hold different tasks in
one position, so a task is told by its request, of which each is added once.

**Cron.** asyncio makes everything between two awaits atomic, and the timer
task awaits in its sleep and in `on_job`.  `timer` is that task: none, asleep
until `wake`, or executing `cur` with `due` still to come.  `_arm_timer`
cancels it wherever it is, so `ToolAdd` and `ToolRemove` end a job that is
being executed (`cut` remembers it).  A `zen-claw cron` command is one action:
its own service loads the file, changes it and saves it, and since it has no
`on_job`, its `run_job` executes nothing.  The gateway reads the file when it
asks for the status, before it starts the service (`Load`,
`cli/commands.py:1302`), and never again: `Start` computes the next runs of
what was loaded.  A schedule of no interval, or an expression that does not
parse, has no next run.  `Exit` stands for `stop()` followed
by the end of the process, and for a crash: neither saves.

**Approval gate.** Every agent loop creates a gate, which loads
`approvals/pending.json` then and never again (`Load`), and writes all it holds
with each change.  No method awaits before it saves, so `Request`, `Consume`,
`Decide` and `List` are one action each; `Exit` is the end or the crash of the
loop's process, `SaveCut` its end in the middle of a save, after which the file is not
read.  A call stands for session, tool and arguments, which is what
`consume_approved` compares.  `List` models the expiry that `get` and
`list_pending` perform; nothing in the program calls them, so a request that
outlived its TTL may wait to be expired for good, and can be approved meanwhile.
`used`, `granted` and `execs` are history variables: ids handed out, ids
approved, executions each id was good for.  Under the refinement mapping
`PermitOf`, a permit is on file as asked, granted or refused; one that was
handed out and is gone from the file is used if it has permitted an execution, and
lost otherwise.  `Request` implements `Ask`, `Decide` `Grant` or `Refuse`,
`Consume` `Use`, `List` `Lapse` and `SaveCut` `Lose`; `Load`, `Exit` and
`GateClock` change nothing of it.

**Channel routing.** The lock of an `AgentRouteStore` is per process, so a call
is `call[t]`: idle, waiting for the lock, or with what it has read.  `ReadRoute`
is the SELECT, `WriteRoute` the commit; between two processes anything comes in
between.  `LookUp` is the query of `soft_rollback_on_error`, under the same lock
as the binding it ends in; `ListMatching` and `BulkDelete` of `clear_routes_by`
are not, and delete what was bound anew.  `Abandon` is a locked database or the
end of the process.  The time of a call is taken before it waits.

**Sidecar supervisor.** `_ensure_running` waits only while it polls what it
started, so a pass over a service is one action (`Wait`, `Answers`, `CannotLaunch`,
`PopenRaises`, `Launch`), and after `Launch` one per round of polls (`NotYet`,
`StartWorks`, `StartFails`).  Delay, circuit and the ages of the failures are
relative to now; `Tick` lets them age.  A gateway
that is killed leaves its sidecars to the next one, which takes them for
somebody else's.  An exception in `_ensure_running` ends the monitor task, and
`stop()` raises it again before it has ended a process.

**Outbound.** `Publish` waits while the queue is full; `Take`, `Retry`, `SendEnds` and
`NoticeEnds` are the steps of the one loop, which holds `hand` meanwhile; `StopAll`
cancels it at any of them, and what it held is lost.  A token is `Cost` units, of
which a tick brings back `Rate`, so a fractional rate is exact.

**Inbound.** What an `asyncio.Queue` does between two waits is one step for the
gateway's tasks.  A webhook is put by `asyncio.run` in a thread of the HTTP
server, so its steps (room seen, put, wake-up) interleave with the router's
(empty seen, wait).  A queue is bound to the loop that first waits on it: a
thread that finds it full before the gateway's loop has waited binds it to its
own, and the router's next wait raises.  What a lookup of a route, a binding or
the start of an agent's loop raises ends the router and with it the gateway
(`cli/commands.py:1316-1331`).

**Skills.** `_install_skill_tree` is journal read, journal write, mkdir, copy,
state file, journal read, journal write; a loader that is created reads the
journal and deletes what it names, in as many steps.  So a loader of another
process deletes an install that is under way, an error in the write of the
journal is swallowed, and `uninstall_skill` has no journal at all: the
properties say what holds of loaders that come one after the other, with
crashes and errors at any step (`trouble`: two were at work at once, or a write failed unseen).
The journal is written in place, and one that cannot be read counts as empty: a
process that ends, or a write that fails, in the middle of it leaves no journal
(`CutShort`, in `JournalAdd`, `JournalRemove`, `RecoverDone` and `Crash`).  So
the entries of earlier installs can be lost with nobody at fault, and a copy that one
of them left cut short is then found by nobody: `lost` remembers the names, and
`PartialIsJournaled` excepts them.

**Conversation.** A turn is routed, planned (with or without a summary), asked
and saved; other turns of the loop go on at each wait, and loops on other
processes overwrite the file with their cached copy.  A summary is the set of the
messages that it was made from.  The plan is made before the wait for the summary
and used after it; `SummaryIsOfPrefix` holds because nothing but an append can
happen to the messages meanwhile.  The token budget may ask for a summary when
the plan sees no need of one: the plan is made again of the same messages
(`loop.py:2440`) and comes out the same, so a conversation longer than
`keep_recent` gets none, and a shorter one is sent to be summed up with an empty
prefix and its mark left where it is (`Planned`); what is recent is then
the list of messages itself, with what was added during the wait (`RecentNow`).

`NothingForgotten` speaks of turns whose summary came and of conversations that
`get_history` returns whole.  Two cases are outside it.  An empty answer leaves a gap
in one request: the old summary and the recent messages, without what lies in
between.  And with no summary due, a conversation of more than 50 messages
is asked with the last 50 and without its rolling summary (`loop.py:2431`).

A `save` opens the file for writing and may raise or be cut short there, with
the loop going on: `NotSaved` leaves the file as it was or a part of it, in the turn's
save, in the follow-up of a failed intent (which comes before or after the turn's
save, and whose errors are logged) and in a slash command.  A copy saved over a
later one, or a save cut short, is `mishap`, after which nothing is claimed; a
save that has not touched the file is not.  Sessions whose
keys become the same file name are the same session; one file is modelled.

**Audit.** `audit_turn` reads the last line of the file (`PrevHash`), then waits
for its sink's lock; `_append` may be cut short in the middle of a line.
`BrokenAt` is what `verify_audit_log` reports.  `alone` remembers the records that
met no other one and no midnight on their way.

**Turns.** `_process_message` sets the policy scopes, the request context and the
chats of the message and spawn tools in one step (`BeginRun`), and every tool call
is judged by what then stands in the registry.  `solo` holds the turns that
have met no other one.  Two turns at once overwrite each other's scopes; a deferred retry sets
policies but no request context; and outside the command line a call that waits
for an approval cuts its batch short, so the model is asked again with calls that
have no result.  The properties state exactly what is left.

**Execution sessions.** A session is its record (status, output, marks, whether a
process is attached), the goroutine that runs it (`Runner`), two readers and a
context.  `Wait` closes the pipes when the process ends, readers or no readers, so the
end of the output may be lost (`main.go:1954`); a process that the command left
behind keeps them open until its context ends it or for good.  A signal of the
kind "kill" marks the session even when its delivery fails.  A session that is
past its time answers `session_expired` to its owner, who never sees "timeout".

**Web chat.** The runtime of a loop is `chat`.  A socket's handler connects (and
finds the runtime, stopped or not, or makes one), puts a question on the bus and
waits 120 s for the next message of the session's queue.  `PutQuestion` takes a
message that is there before anyone who waits, `Dispatch` wakes the first who
waits, `GiveUp` passes a wake-up on, as `asyncio.Queue` does.  A turn may leave a subagent
or a deferred retry behind, and an approval notice goes out beside the reply; each is one
more message on the queue.  `given` and `causes` are history: which answer was read
for which question, and what may have set them apart.

## 3. What the runs check

| Run | Question | Result |
|---|---|---|
| `NodeApprovals` | two approvers, a node, the dispatcher, policies with and without timeout and quorum 2: `ReleasedByQuorum`, `EventsExplainTasks`, `GatewayRunsTracked`, `StatusNeverGoesBack`, and under `FairSpec` `OverdueApprovalsResolve` | holds |
| `NodeQueue` | retries across the idempotency window, token expiry, scans, a node and the dispatcher under a shrinking quota: `OneTaskPerKey`, `OwnerNeverChanges`, `QuotaExceededOnlyByAck` | holds |
| `NodeProcesses` | a command beside the gateway, two tasks, torn saves, restarts: `EveryCopyIsSound`, `OncePerLife` | holds |
| `NodeQueuedUnseen` | `QueuedTasksRun` under `FairSpec` | violated: finding |
| `NodeQuotaExceeded` | `MaxConcurrent` | violated: finding |
| `NodeLateApproval` | `NoLateRelease` | violated: finding |
| `CronAndChat` | two jobs, every kind of schedule, restarts, three calls: `TimerExact`, `OneShotRunsOnce`, `CutShortIsRetried`, `DueJobRuns`; two sockets, an operator, two questions: `MismatchHasACause`; two loops on one conversation, three turns, failing saves: `PairsStayTogether`, `SummaryIsOfPrefix`, `NothingForgotten`, `StoredTurnsStay` | holds |
| `Services` | one service of nine in each behaviour, below | holds |
| `GateReuse` | two gates on one file: `UsedOnce` | violated: finding |
| `CronMissed` | `OneShotNotLost` | violated: finding |
| `CronRemoved` | `RemovedNeverStarts` | violated: finding |
| `ChatRestart` | `RestartedRuns` | violated: finding |

`Services` chooses one of nine services in its initial state and leaves the
others in theirs.  They share no state, so this is as good as nine runs, and the
fairness of one that rests is vacuous; `CronAndChat` does the same with three
parts.  What `Services` checks:

| Service | Properties | In words |
|---|---|---|
| routing | `NewestWins`, `RollsBackToHeld` | a binding gives way to an older one only to another process; a rollback goes to an agent the chat had |
| supervisor | `StartFailuresBounded`, `SidecarComesUp` | no window has more failed starts than the threshold; a sidecar that is fit for good comes up |
| outbound | `RateBound`, `TurnOrder`, `NothingVanishes`, `EveryReplySettled` | a chat's rate holds in every interval; each sender's order is kept; a message is queued, in hand or settled; it is settled in the end, once the outbound loop runs (which `start_all` leaves out when no channel is enabled, `manager.py:290`) |
| inbound | `EveryMessageHandled` | every message gets its turn once the gateway has started, as long as it lives |
| skills | `PartialIsJournaled`, `InstalledStaysWhole` | a copy cut short is in the journal, or was lost with one; a restart deletes nothing that was reported installed |
| audit | `ChainBreaksOnlyOnOverlap` | `verify_audit_log` complains only where records met, a line was torn or a midnight came in between |
| turns | `OwnPolicies`, `BatchesAnswered` | own policies for a turn that met no other; a result for each call, in batches that no approval cuts |
| exec | `KillIsKept`, `SettledForGood`, `SessionsEnd` | who was told of a kill does not find the session done; an ended session stays as it is; every session ends |
| gate | `NoExecutionUnapproved`, `ImplementsPermits` | one gate, three approvals of two calls, decisions, expiry, restarts and torn saves: a source of one-time permits, for the calls that ask it (an explicit one-shot approval lets a call past the gate, `loop.py:2861-2866`) |

`TypesOK` is the conjunction of their type invariants.  In `CronAndChat` the
conversation has: answers follow their questions; a summary is of what it
replaces; a turn whose summary came, or whose conversation is short enough for
`get_history`, is asked with all of it; saved turns stay until they are cleared.

The findings:

- **Tasks unseen** (a bug).  Tasks are added and approved by `zen-claw node`
  commands, processes of their own, and the gateway's service answers every call
  from the copy that its first poll has loaded.  What is added while the gateway
  runs is executed after a restart at the earliest, and lost if the gateway saves
  before: `QueuedTasksRun`, under the dispatcher's fairness.  `EveryCopyIsSound` and
  `OncePerLife` say what the processes do not break: no copy ever has unapproved
  work in it, and the gateway does no task twice in one life.  (Across lives it may:
  a command that overlaps it writes the task back as pending; and a node may pull
  what the gateway then claims in its own copy.)
- **Quota.** `ack_task` starts a pending task by id without reading
  `max_running_tasks`.  `QuotaExceededOnlyByAck` shows it is the only way.
- **Late approval.** `approve_task` does not read the deadline; only the
  dispatcher's sweep enforces it, so an approval between deadline and sweep
  counts.
- **Missed one-shot.** `start()` recomputes next runs and gives an `at` job in
  the past none; it stays enabled and never runs.
- **Removed job.** A running gateway never reads `jobs.json` again; it runs a
  job the command line removed, and its next save brings the job back.
- **Approval used twice.** Two loops that hold the same approval (say two
  command lines, whose sessions have the same key) each consume their copy, and
  a save of one brings back on file what the other consumed.
- **Web chat restart** (a bug).  `_restart_webchat_runtime` stops the runtime and
  starts what `_get_webchat_runtime` answers, which is the stopped runtime, still
  in its dictionary.  The apply reports "restarted", and no question is answered
  until the process ends; stop and start do the same.  The tests replace both
  functions.

Things the models show that contradict no document, and so are no findings: with
one session the web chat's clients read answers to earlier questions after a
timeout, a subagent's report, a retry or an approval notice (`MismatchHasACause`
names the causes, and that later ones come only with two sockets waiting at once); a
loader deletes another process's install; two agent loops overwrite each other's
turns; the output of a command may lose its end; `clear_routes_by` deletes a
route that was bound anew; a webhook thread may end the gateway; a task whose claim could
not be saved blocks its node's quota; a torn journal forgets a copy cut short;
a long conversation with no summary due is asked without its summary.  Seen while
reading, outside the models: `on_node_agent_prompt` passes a `trace_id` that
`process_direct` does not take (`cli/commands.py:1279`, `agent/loop.py:1584`), and the
reload of channels calls the web chat's restart with an argument it does not
take (`dashboard/server.py:6163`).

### Bounds

`MaxTasks`, `MaxToken`, `MaxClock`, `MaxCalls` bound the histories; they are
guards of the actions that grow them.  Two tasks are enough for a quota of one
to be contended, for a second submission under a key and for a sweep that
rejects one task and keeps another; two approvers reach a quorum of two and fall
short of it; a clock of 2 or 3 passes a timeout or window of 1 and leaves a step
before it.  Two jobs give a batch of two due jobs with a step between them; with
three calls a job can be added, cut short and removed.  With a TTL of 0
and a clock of 2 a record expires, or is decided after it could have; three
approvals of two calls give a call that two records match.  In each passing run
every action of its specification that its constants enable is taken.  One node
is enough for the quota and the owners, since no method relates two nodes; the proofs
are for any number.  Symmetry (of the two payloads) is used in `NodeProcesses` only,
which checks invariants.

`Services`: two threads of the gateway and a command line, two agents, a clock
of 3 with a grace and a lifetime of 1 and three calls: two writers in one process
and one in another, a stale update and a rollback after it.  One sidecar (the
monitor walks them in turn and they share nothing) with a window and a circuit
of 4, a threshold of 2, delays up to 2 and two polls: the window closes while a backoff runs.
Two senders with two messages each, three chats (one that drops, one whose channel
is gone), a queue of two, buckets of one message that refill in two ticks: a
delay that holds up other chats behind a full queue.  Two loaders, two skills,
two installs.  Two workers, three records, two
days.  Two turns, each with two
rounds of two calls.  One command (sessions share only
the map) with output of two units on each stream and a buffer of three, so that it is cut.
One channel message, two webhooks, one report and queues of one: full queues
and threads against each other.  `CronAndChat`: two sockets, one operator, two questions,
a bus of one message and one message besides the replies (`NoExtraYet`); with two the
result is the same.  Two loops on one conversation and three turns, with a
summary due from the third message on and a history of one message: one turn
summarises while another adds, and a loop saves what the other has not read.  The
conversation is not followed beyond a `mishap`, of which its properties say
nothing, and of the two loops, which are alike, a certain one begins.

### Fairness

`FairSpec` of `NodeTasks`: `RunOnce` (the loop comes back after
`poll_interval_sec`), `Finish` (the agent loop bounds its iterations, provider
and sidecar calls have timeouts).  No fairness for operators, nodes,
`DispatcherStart` or `DispatcherStop`: the properties end in "or the dispatcher
is down".  `FairSpec` of `NodeProcesses` is the same of `Poll` and `Finish`.  `FairSpec` of `CronService`: the timer's wake-up, the end of
`on_job`, and time.  Calls may cut a run short again and again; they are bounded
by `MaxCalls`, and in the code by `max_jobs` of the session for a job whose own
turn keeps adding jobs.

`SupFairness`: the monitor task is run when it is ready, and time passes.
`OutFairness`: the loop goes on, sends end (the channels' HTTP calls have
timeouts), time passes.  `ExecFairness`: goroutines that can go on do, a kill
arrives, a session's clock passes; nothing is assumed of the command or of what
it leaves behind.  `InFairness`: weak for the router, whose wait ends after the second
of its `wait_for` at the latest; strong for the other tasks and threads, since
a task of the gateway is not ready in the middle of a step of the router.  There
is no fairness for operators, clients or stops; the liveness properties end
in "or it has been stopped" where the code's promise does.

## 4. What is proved

Every invariant and every action property that a passing run checks is a theorem of
its specification, for all values of the constants that satisfy the assumptions
named in the modules (names are distinct, inputs have their types, bounds are
numbers), which TLC evaluates in every run.  So are the type
invariants (`...TypeCorrect`).  What the proofs rest on, one component at a time:

**Node tasks** (`NodeTasksProofs`), for any nodes, approvers, types, requests, keys, policies.

| Theorem | Property |
|---|---|
| `QuorumBeforeWork` | `ReleasedByQuorum` |
| `EventsTellAll` | `EventsExplainTasks` |
| `NothingClaimedIsLost` | `GatewayRunsTracked` |
| `KeysAreIdempotent` | `OneTaskPerKey` |
| `LifeGoesForward` | `StatusNeverGoesBack` |
| `OwnersKeepTheirTasks` | `OwnerNeverChanges` |
| `OnlyAcksExceedQuota` | `QuotaExceededOnlyByAck` |

For each operator on the store, `NodeOpsProofs` says what it does to each task and to
the events; a step theorem has one case per action and cites the lemma of its
operator.  Inductive is `Inv`.  `ReleasedByQuorum` alone is not: that the
dispatcher's `Finish` only closes a task it runs needs `WorkerOK` (an executing dispatcher
holds an existing task), and quorum and rank need, for each task, which of status, owner
and approvals go together (`TasksOK`: among others, nobody owns a task that is
waiting, and one that waits for approval did ask for it).  `Sound`, that the
approval events name the approvers of each task, is what one document promises on its own, so
that `NodeProcessesProofs` can use it too.  `OneTaskPerKey` holds of a
new task by what `add_task` has compared it with, and later because node, key and
creation time of a task never change.

**Node processes** (`NodeProcessesProofs`), for any number of commands: `CopiesAreSound`
(`EveryCopyIsSound`) and `OnceInItsLife` (`OncePerLife`).  Inductive is that every copy, the
file and the gateway's cache are documents that a single `NodeService` could have written
(`Good`): overwriting then only replaces one such document by another, and the
empty document, which a torn file is read as, is one too.  For the second, a task that the
gateway has executed in this life is not pending in its cache (`RunOnlyOnce`).

**Cron** (`CronServiceProofs`), for any ids, schedules and sessions: `TimerIsExact`
(`TimerExact`), `OneShotAtMostOnce` (`OneShotRunsOnce`) and `CutShortRunsAgain`
(`CutShortIsRetried`).  `TimerExact` needs that what the timer executes is due until it
is done (`ExecutesDue`).  `OneShotRunsOnce` needs that a one-shot job that was run has its
time behind it, in memory and on file (`OneShotsPast`), so that neither a restart nor a
command that enables it gives it a next run, and that an id is one job for good
(`OneJobPerId`).

**Approval gate** (`AgentProofs`, part 5), for any calls, ids, TTL:

- `ApprovalFirst`: `GateSpec => []NoExecutionUnapproved`, for any number of gates.  Inductive
  is `GateInv`: what each gate holds, and what is on file, consists of ids handed out,
  and whatever is approved there has been granted (`Honest`).  That is
  what survives the gates' overwriting each other; which record is the latest
  does not.
- `OneGateIssuesPermits`: `GateSpec => ImplementsPermits` when there is at most one
  gate.  It needs `InSync`, that what the gate holds is what is on file; so the
  fate of a permit can be read off the file and changes with its own record only
  (`FateKept`), and that no record on file has permitted an execution, so that a
  torn save loses permits and revives none.  `GateReuse` shows that the assumption is needed.

**Channel routing** (`ChannelsProofs`, part 1), for any callers, processes, agents:
`RollbackIsSafe` (`RollsBackToHeld`) and `LastWriterWins`
(`NewestWins`).  Inductive is, among others, that a process has one holder of its lock
(`OneHolder`), that a caller has read the route as it is if its own process
wrote it last (`ReadsOwnWrite`), and that the previous agent of every row of the
audit, and whatever a rollback has found there, was held (`SeesHeld`): an update that
never happened is in the audit too, but with a previous agent that was held.

**Outbound** (part 2), for any senders, chats, sizes, burst, rate and cost:
`RateIsBounded` (`RateBound`), `SendersKeepTheirOrder`
(`TurnOrder`) and `NoMessageVanishes` (`NothingVanishes`).  The rate follows from
a potential, `Budget`: what a chat has had above its rate in the interval, and
the tokens it holds, are at most a full bucket.  The order needs that queue and hand
hold each sender's messages in order (`InOrder`) and that a message waits
exactly when it is there (`Fates`).

**Inbound** (part 3), for any messages and bounds: `AcceptedIsKept`, a theorem beyond the
runs: a message that was accepted is in the queue, with the router or done with, in one
place only (`EachInOnePlace`), however the steps of the threads interleave with those of the
router.

**Web chat** (part 4), for any sockets and operators: `MismatchesAreExplained`
(`MismatchHasACause`).  Two facts carry it.  As long as no two sockets have waited at once, who
waits has asked the last question (`LastAsks`).  As long as nothing at all has happened that may
set questions and answers apart, there is at most one message under way, between the bus and the
session's queue, somebody waits for it, and it belongs to the last question
(`OneMessage`).  Sockets that wait are in the queue once (`QueuedOnce`), so a wake-up goes to one that waits.

**Sidecar supervisor** (`SidecarProofs`, part 1), for any services and numbers:
`NoChildWhileWaiting` (`WaitingHasNoChild`), and `FailuresAreBounded` (`StartFailuresBounded`), for a
circuit at least as long as the window.  Inductive are the counts of the failure
window together with how long an open circuit has still to run
(`CircuitHolds`: once the threshold is reached, the circuit outlasts every failure by
`OpenFor`; `FewFailures`): so a service that may be tried has fewer failures than the
threshold, or one at the very end of the window.

**Execution sessions** (part 2), for any sessions, units and buffers: `KillsAreKept`
(`KillIsKept`) and `SettledStays` (`SettledForGood`).  The invariant says, for each session, which status,
marks, step of its goroutine and state of its command go together (`Agree`): in particular
the record has the mark of every kill that somebody was told of, and its goroutine
settles it with that mark read.

**Turns** (`AgentProofs`, part 1), for any bounds: `PoliciesAreOwn`
(`OwnPolicies`) and `EveryCallHasItsResult` (`BatchesAnswered`).  A turn that has met no
other is the only one under way (`AloneIsAlone`), so what stands on the registry is
its own; a contract that stands there belongs to a turn in its loop
(`ContractIsLive`); and the results a turn has are the calls it has gone through
(`Progress`).

**Conversation** (part 2), for any loops, turns and numbers: `AnswersFollowQuestions`
(`PairsStayTogether`), `SummaryFitsItsMark` (`SummaryIsOfPrefix`), `AskedWithEverything`
(`NothingForgotten`) and `SavedTurnsAreKept` (`StoredTurnsStay`).  What a turn has read before a
wait is the beginning of its loop's copy after it (`TurnGood`, with `Extends`); that is
what makes a summary fit that was planned before the wait.  A copy that is not behind the file
holds all that the file holds (`FreshIsLater`), so saving it loses nothing.  All four are claimed
until a `mishap`; a save that raises without having touched the file is none, and they survive it
(`SavesIs`, `NotSavedIs`: what each outcome of a save leaves of file and copies).

**Skills** (part 3), for any loaders and skills: `CutShortIsFound` (`PartialIsJournaled`) and
`RecoverySparesInstalled` (`InstalledStaysWhole`).  As long as loaders come one at a time and no failure is
swallowed, only one is at work (`OneBusy`), and what it has read of the journal is the
journal as it is (`Recovers`, `Installs`).  What leaves the journal without having been deleted or
finished does so in a write that the end of the process cut short, and `lost` has it.

**Audit** (part 4), for any workers, records, days: `ChainIsExplained`
(`ChainBreaksOnlyOnOverlap`).  A record that is alone on its way carries the hash of what is still
the last line of the file it goes to (`AloneExtends`).

**Services together** (`ServicesProofs`): `ServicesAreThemselves`, that the run `Services` is, for
each of its services, a behaviour of that service's own specification, fairness
included; so what is proved of a service alone holds there, and
`TypesCorrect` (`TypesOK`) follows from the nine type theorems.

Two proofs have changed a model.  The type invariant of `Inbound` claimed nothing
of the future `getter`, for want of a line break between two conjuncts; and `GiveUp` of `WebChat`
took a socket out of those who wait by an operator that would have taken it out as often as it is
there, which `QueuedOnce` shows to be once.

## 5. Only model-checked

Liveness (fairness and ENABLED are out of the prover's reach): `DueJobRuns`,
`OverdueApprovalsResolve`, `SidecarComesUp`,
`EveryReplySettled`, `SessionsEnd`, `EveryMessageHandled`.  There are no
recursive operators, so no induction over data is needed.  The type invariants of
`CronService`, `WebChat` and `Conversation`, `WaitingHasNoChild` and `EachInOnePlace` are proved and in no run.

## 6. Plan

Proofs that would be worth adding:

1. that the node service, as long as one process uses it, implements an abstract queue
   (a task is released, taken by one owner and closed once), and that `Outbound` and
   `Inbound` implement a lossless queue up to their stops;
2. that in `NodeProcesses`, with one process at a time, the theorems of `NodeTasks` hold;
3. `MCCronAndChat` as `ServicesProofs` does it for `MCServices`.

Models that would be worth adding: the hash chain of the approval events, cut
to 2000; failing saves of the cron service; the browser sidecar's step limit, which is read before a wait and counted after it.

## 7. Not modelled

Text and data processing (intent router, memory, knowledge, providers,
prompts), adapters of external services (channel clients, bridge, browser
sidecar, tunnel), requests without state (one-shot execution and net-proxy of
the Go sidecars, gateway envelopes), record stores without concurrency of their
own (auth, history, telemetry), sliding-window quotas in memory, and the other views
of the dashboard.  They change no state that a property here speaks of.

Inside the modelled components: the hash chain of the approval events; `heartbeat`'s `last_seen`, trace ids and notes; the dispatcher's channel
circuit and chaos helpers, which nothing calls; cron payload fields and `last_*`
bookkeeping, `delete_after_run` (no caller sets it), the cron tool's
confirmation checks; the mid-turn reload, which nothing can trigger; status files, which are only
written.

Failing and torn writes, component by component:

- Node service: saves that raise in the dispatcher's sweep, claim and completion, in both modules;
  torn files in `NodeProcesses`.  Each method is one step, so an exception in the middle of
  one, between the change of a task and its event, is not modelled.
- Cron service: its saves are taken to succeed.  One that raises in `_on_timer`
  would end the timer task before it is armed again, and a torn `jobs.json` reads as no jobs.
- Approval gate: a save cut short by the end of the process (`SaveCut`).  One that raises
  while the gate goes on is not modelled.
- Sessions: saves that raise or are cut short, with the loop going on or ending.
- Skills: errors at every step of an install, and writes of the journal that fail, or are cut
  short by an error or by the end of the process.  The write of the state file is done or not done.
- Audit: a line that is cut short or not written (`LoseLine`).
- Routes: a call that is given up before its commit (`Abandon`); SQLite keeps the rest.
