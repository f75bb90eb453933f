----------------------------- MODULE CronService -----------------------------
(***************************************************************************)
(* zen_claw/cron/service.py as the gateway and the command line use it.     *)
(* The gateway's CronService keeps the jobs in memory and runs the due ones *)
(* from one timer task; the cron tool of any agent turn, the turn of a cron *)
(* job included, adds and removes jobs meanwhile.  Every "zen-claw cron"    *)
(* command is a CronService of its own on the same file: it loads, changes  *)
(* and saves, and its timer never runs.                                     *)
(*                                                                         *)
(* asyncio is cooperative: everything between two awaits is one step, and   *)
(* the timer task awaits in its sleep and in on_job only.  _arm_timer       *)
(* cancels the task wherever it awaits, in the middle of a job too.         *)
(*                                                                         *)
(* Abstractions: a job is its schedule, enabled flag, next run and session; *)
(* a next run of 0 is None.  delete_after_run is left out: no caller sets   *)
(* it.  The cron tool's confirmation and channel checks are left out.       *)
(* Every save is taken to succeed, and the file to be one that can be read. *)
(***************************************************************************)
EXTENDS Integers, FiniteSets

CONSTANTS
  Ids,         \* job ids, each handed out once (uuid4)
  Schedules,   \* [kind: {"at"}, at] and [kind: {"every", "cron"}, period]; period 0:
               \* every_ms is none or not positive, or croniter refuses expr
  Sessions,    \* (channel, to) pairs
  NoSession,   \* no channel or no recipient
  NoJob,       \* no current job
  MaxJobs,     \* max_jobs of add_job
  MaxClock,    \* bound: the clock
  MaxCalls     \* bound: calls of the cron tool and the command line

ASSUME BoundsAssumption == MaxJobs \in Nat /\ MaxClock \in Nat /\ MaxCalls \in Nat
ASSUME NamesAssumption == NoJob \notin Ids /\ NoSession \notin Sessions
ASSUME SchedulesAssumption ==
  \A s \in Schedules :
    \/ s.kind = "at" /\ s.at \in Nat
    \/ s.kind \in {"every", "cron"} /\ s.period \in Nat

VARIABLES
  jobs,      \* the gateway's _store.jobs, by id
  disk,      \* jobs.json
  loaded,    \* the gateway has its _store
  running,   \* the gateway's _running
  timer,     \* its _timer_task
  now,       \* _now_ms()
  used,      \* history: ids handed out
  gone,      \* history: ids whose removal was reported
  ran,       \* history: runs the timer completed, by job
  cut,       \* history: jobs whose run was cut short, and not run since
  calls      \* history: tool and command line calls so far

vars == <<jobs, disk, loaded, running, timer, now, used, gone, ran, cut, calls>>

Job == [sched: Schedules, enabled: BOOLEAN, next: Nat, created: Nat,
        session: Sessions \cup {NoSession}]

\* pc "none": there is no task, or it has ended; "sleep": until wake; "exec":
\* awaiting on_job(cur), with the jobs of due still to come.
Timer == [pc: {"none", "sleep", "exec"}, wake: Nat, cur: Ids \cup {NoJob},
          due: SUBSET Ids]

NoTimer == [pc |-> "none", wake |-> 0, cur |-> NoJob, due |-> {}]
Sleeping(w) == [pc |-> "sleep", wake |-> w, cur |-> NoJob, due |-> {}]
Executing(j, due) == [pc |-> "exec", wake |-> 0, cur |-> j, due |-> due]

Init ==
  /\ jobs = << >>
  /\ disk = << >>
  /\ loaded = FALSE /\ running = FALSE
  /\ timer = NoTimer
  /\ now = 1
  /\ used = {}
  /\ gone = {}
  /\ ran = [j \in Ids |-> 0]
  /\ cut = {}
  /\ calls = 0

-----------------------------------------------------------------------------
(* Operations on a list of jobs.                                           *)

\* Mutant of NextRun: a time in the past is still a next run.
NextRunAnyTime(s) ==
  CASE s.kind = "at"    -> s.at
    [] s.kind # "at" /\ s.period = 0 -> 0
    [] s.kind = "every" /\ s.period # 0 -> now + s.period
    [] s.kind = "cron" /\ s.period # 0 -> ((now \div s.period) + 1) * s.period

\* _compute_next_run; croniter's next match of a cron expression is the next
\* multiple of its period.
NextRun(s) ==
  CASE s.kind = "at"    -> IF s.at > now THEN s.at ELSE 0
    [] s.kind # "at" /\ s.period = 0 -> 0
    [] s.kind = "every" /\ s.period # 0 -> now + s.period
    [] s.kind = "cron" /\ s.period # 0 -> ((now \div s.period) + 1) * s.period

Waiting(js, j) == js[j].enabled /\ js[j].next # 0
Wakes(js) == {js[j].next : j \in {k \in DOMAIN js : Waiting(js, k)}}
Due(js, j) == Waiting(js, j) /\ js[j].next <= now

OfSession(js, s) == {j \in DOMAIN js : js[j].session = s}

HasSlot(js, s) == s = NoSession \/ Cardinality(OfSession(js, s)) < MaxJobs

Added(js, j, sched, s) ==
  [k \in DOMAIN js \cup {j} |->
     IF k = j THEN [sched |-> sched, enabled |-> TRUE, next |-> NextRun(sched),
                    created |-> now, session |-> s]
              ELSE js[k]]

Removed(js, j) == [k \in DOMAIN js \ {j} |-> js[k]]

Enabled(js, j, b) ==
  [js EXCEPT ![j].enabled = b, ![j].next = IF b THEN NextRun(js[j].sched) ELSE 0]

\* What _execute_job leaves of the jobs once on_job has returned or raised.
AfterRun(js, j) ==
  IF js[j].sched.kind = "at"
  THEN [js EXCEPT ![j].enabled = FALSE, ![j].next = 0]
  ELSE [js EXCEPT ![j].next = NextRun(js[j].sched)]

\* _recompute_next_runs.
Recomputed(js) ==
  [j \in DOMAIN js |-> IF js[j].enabled THEN [js[j] EXCEPT !.next = NextRun(js[j].sched)]
                                        ELSE js[j]]

-----------------------------------------------------------------------------
(* The gateway.                                                            *)

IsMin(w, S) == w \in S /\ \A v \in S : w <= v

\* Mutant of Arm: a timer that sleeps already is left alone.
ArmIfNone(js, on) ==
  IF on /\ Wakes(js) # {}
  THEN IF timer.pc = "sleep" THEN timer' = timer
       ELSE \E w \in Wakes(js) : IsMin(w, Wakes(js)) /\ timer' = Sleeping(w)
  ELSE timer' = NoTimer

\* _arm_timer: the old task is cancelled, a new one sleeps until the earliest
\* next run.
Arm(js, on) ==
  IF on /\ Wakes(js) # {}
  THEN \E w \in Wakes(js) : IsMin(w, Wakes(js)) /\ timer' = Sleeping(w)
  ELSE timer' = NoTimer

\* _save_store and _arm_timer, as every operation of the gateway ends.
SaveAndArm(js, on) ==
  /\ jobs' = js
  /\ disk' = js
  /\ Arm(js, on)

\* The job in whose on_job the cancelled timer task was awaiting.
CutShort == IF timer.pc = "exec" THEN {timer.cur} ELSE {}

\* The gateway calls status(), which loads the file, well before it calls start().
Load ==
  /\ ~loaded /\ loaded' = TRUE
  /\ jobs' = disk
  /\ UNCHANGED <<disk, running, timer, now, used, gone, ran, cut, calls>>

\* start(), with the jobs as they were loaded.
Start ==
  /\ loaded /\ ~running
  /\ running' = TRUE
  /\ SaveAndArm(Recomputed(jobs), TRUE)
  /\ UNCHANGED <<loaded, now, used, gone, ran, cut, calls>>

\* stop() and the end of the process, or a crash: neither saves.
Exit ==
  /\ loaded /\ loaded' = FALSE
  /\ running' = FALSE
  /\ jobs' = << >>
  /\ timer' = NoTimer
  /\ cut' = {}
  /\ UNCHANGED <<disk, now, used, gone, ran, calls>>

\* The cron tool adds recurring jobs, for the session of the turn.
ToolAdd(j, sched, s) ==
  /\ running /\ calls < MaxCalls
  /\ j \notin used
  /\ sched.kind # "at"
  /\ HasSlot(jobs, s)
  /\ SaveAndArm(Added(jobs, j, sched, s), TRUE)
  /\ used' = used \cup {j}
  /\ cut' = cut \cup CutShort
  /\ calls' = calls + 1
  /\ UNCHANGED <<running, loaded, now, gone, ran>>

\* It removes jobs of the session of the turn, whichever that is.
ToolRemove(j) ==
  /\ running /\ calls < MaxCalls
  /\ j \in DOMAIN jobs
  /\ jobs[j].session # NoSession
  /\ SaveAndArm(Removed(jobs, j), TRUE)
  /\ gone' = gone \cup {j}
  /\ cut' = cut \cup CutShort
  /\ calls' = calls + 1
  /\ UNCHANGED <<running, loaded, now, used, ran>>

\* Mutant of TimerFires: the next run is cleared before the job is executed.
TimerFiresCleared(j) ==
  /\ timer.pc = "sleep" /\ timer.wake <= now
  /\ j \in DOMAIN jobs /\ Due(jobs, j)
  /\ timer' = Executing(j, {k \in DOMAIN jobs : Due(jobs, k)} \ {j})
  /\ jobs' = [jobs EXCEPT ![j].next = 0]
  /\ UNCHANGED <<disk, running, loaded, now, used, gone, ran, cut, calls>>

\* tick() wakes up and _on_timer takes the due jobs, in some order; there is
\* one, for every change of a next run arms the timer anew.
TimerFires(j) ==
  /\ timer.pc = "sleep" /\ timer.wake <= now
  /\ j \in DOMAIN jobs /\ Due(jobs, j)
  /\ timer' = Executing(j, {k \in DOMAIN jobs : Due(jobs, k)} \ {j})
  /\ UNCHANGED <<jobs, disk, running, loaded, now, used, gone, ran, cut, calls>>

\* Mutant of JobDone: the timer is not armed again after the last job.
JobDoneUnarmed ==
  /\ timer.pc = "exec"
  /\ jobs' = AfterRun(jobs, timer.cur)
  /\ \/ timer.due = {} /\ disk' = AfterRun(jobs, timer.cur) /\ timer' = NoTimer
     \/ \E k \in timer.due :
          timer' = Executing(k, timer.due \ {k}) /\ UNCHANGED disk
  /\ ran' = [ran EXCEPT ![timer.cur] = @ + 1]
  /\ cut' = cut \ {timer.cur}
  /\ UNCHANGED <<running, loaded, now, used, gone, calls>>

\* on_job has returned or raised: the next due job, or save and arm again.
JobDone ==
  /\ timer.pc = "exec"
  /\ \/ /\ timer.due = {}
        /\ SaveAndArm(AfterRun(jobs, timer.cur), running)
     \/ \E k \in timer.due :
          /\ timer' = Executing(k, timer.due \ {k})
          /\ jobs' = AfterRun(jobs, timer.cur)
          /\ UNCHANGED disk
  /\ ran' = [ran EXCEPT ![timer.cur] = @ + 1]
  /\ cut' = cut \ {timer.cur}
  /\ UNCHANGED <<running, loaded, now, used, gone, calls>>

-----------------------------------------------------------------------------
(* The command line: each command loads the file, changes it and saves it.  *)

Command(js) ==
  /\ calls < MaxCalls
  /\ disk' = js
  /\ calls' = calls + 1
  /\ UNCHANGED <<jobs, running, loaded, timer, now, ran, cut>>

CliAdd(j, sched, s) ==
  /\ j \notin used
  /\ HasSlot(disk, s)
  /\ Command(Added(disk, j, sched, s))
  /\ used' = used \cup {j}
  /\ UNCHANGED gone

CliRemove(j) ==
  /\ j \in DOMAIN disk
  /\ Command(Removed(disk, j))
  /\ gone' = gone \cup {j}
  /\ UNCHANGED used

CliEnable(j, b) ==
  /\ j \in DOMAIN disk
  /\ Command(Enabled(disk, j, b))
  /\ UNCHANGED <<used, gone>>

\* "cron run", and the dashboard's trigger with force: the service was given
\* no on_job, so run_job executes nothing and only updates the job.
CliRun(j, force) ==
  /\ j \in DOMAIN disk
  /\ force \/ disk[j].enabled
  /\ Command(AfterRun(disk, j))
  /\ UNCHANGED <<used, gone>>

Clock ==
  /\ now < MaxClock
  /\ now' = now + 1
  /\ UNCHANGED <<jobs, disk, running, loaded, timer, used, gone, ran, cut, calls>>

-----------------------------------------------------------------------------
Gateway ==
  \/ Load \/ Start \/ Exit
  \/ \E j \in Ids, sched \in Schedules, s \in Sessions : ToolAdd(j, sched, s)
  \/ \E j \in Ids : ToolRemove(j) \/ TimerFires(j)
  \/ JobDone

CommandLine ==
  \/ \E j \in Ids, sched \in Schedules, s \in Sessions \cup {NoSession} :
       CliAdd(j, sched, s)
  \/ \E j \in Ids : CliRemove(j) \/ \E b \in BOOLEAN : CliEnable(j, b) \/ CliRun(j, b)

Next == Gateway \/ CommandLine \/ Clock

Spec == Init /\ [][Next]_vars

\* The event loop runs the timer task when its sleep is over, on_job returns
\* (agent turns are bounded, its HTTP calls have timeouts) and time passes.
CronFairness ==
  /\ WF_vars(\E j \in Ids : TimerFires(j))
  /\ WF_vars(JobDone)
  /\ WF_vars(Clock)

FairSpec == Spec /\ CronFairness

-----------------------------------------------------------------------------
IsJobs(js) == DOMAIN js \subseteq Ids /\ js \in [DOMAIN js -> Job]

\* The shapes of the state; a gateway that has not loaded the file has no jobs, and
\* one that has not started, or is down, has no timer.
TypeOK ==
  /\ IsJobs(jobs) /\ IsJobs(disk)
  /\ loaded \in BOOLEAN /\ running \in BOOLEAN
  /\ timer \in Timer
  /\ ~loaded => jobs = << >> /\ ~running
  /\ ~running => timer = NoTimer
  /\ timer.pc = "exec" => {timer.cur} \cup timer.due \subseteq DOMAIN jobs
  /\ now \in Nat /\ calls \in Nat
  /\ used \subseteq Ids /\ gone \subseteq used /\ cut \subseteq Ids
  /\ ran \in [Ids -> Nat]

\* _arm_timer (cron/service.py): whatever the tool adds, removes or cuts
\* short, an idle gateway sleeps until the earliest next run of its jobs, and
\* has no timer only when nothing waits.
TimerExact ==
  running /\ timer.pc # "exec" =>
    IF Wakes(jobs) = {} THEN timer = NoTimer
    ELSE timer.pc = "sleep" /\ IsMin(timer.wake, Wakes(jobs))

\* A one-shot job is run to its end at most once, across crashes that lose
\* the record of its run, restarts, and commands that enable it again.
OneShotRunsOnce ==
  \A j \in DOMAIN disk : disk[j].sched.kind = "at" => ran[j] <= 1

\* A job that the tool cut short by arming the timer (its own turn may have
\* done that) is still due, and a timer is there to run it again.
CutShortIsRetried ==
  \A j \in cut \cap DOMAIN jobs : Due(jobs, j) /\ timer.pc # "none"

\* A due job of the gateway is run, removed or cut off by the gateway's end;
\* the tool's calls, each of which restarts the timer, are MaxCalls at most.
IsDue(j) == running /\ j \in DOMAIN jobs /\ Due(jobs, j)
DueJobRuns == \A j \in Ids : IsDue(j) ~> ~IsDue(j)

-----------------------------------------------------------------------------
(* What the command line says and the code does not keep.                  *)

\* "Run once at time" (cli/commands.py, cron add --at): an enabled one-shot
\* job whose time was still to come when it was added has a next run in a
\* running gateway.
OneShotNotLost ==
  running => \A j \in DOMAIN jobs :
    LET job == jobs[j]
    IN  job.sched.kind = "at" /\ job.enabled /\ job.sched.at > job.created => job.next # 0

\* "Removed job" (cli/commands.py, cron remove): the gateway starts no job
\* whose removal was reported.
RemovedNeverStarts ==
  [][timer'.pc = "exec" /\ timer' # timer => timer'.cur \notin gone]_vars
=============================================================================
