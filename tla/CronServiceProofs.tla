-------------------------- MODULE CronServiceProofs --------------------------
(***************************************************************************)
(* Theorems about CronService, for any ids, schedules, sessions and bounds. *)
(***************************************************************************)
EXTENDS CronService, TLAPS

-----------------------------------------------------------------------------
(* The inductive invariant.                                                *)

\* An id is handed out once, so that a job is the same job wherever it is.
OneJobPerId ==
  /\ DOMAIN jobs \cup DOMAIN disk \subseteq used
  /\ \A j \in DOMAIN jobs \cap DOMAIN disk : jobs[j].sched = disk[j].sched
  /\ \A j \in Ids : ran[j] # 0 => j \in used
  /\ cut \subseteq used

\* What the timer executes is due until it is done.
ExecutesDue ==
  timer.pc = "exec" =>
    timer.cur \notin timer.due /\ \A j \in {timer.cur} \cup timer.due : Due(jobs, j)

\* A one-shot job that was run has its time behind it, so that nothing gives it
\* a next run again: no restart, and no command that enables it.
Past(j, sched) == sched.kind = "at" => ran[j] <= 1 /\ (ran[j] = 1 => sched.at <= now)

OneShot(j, job) ==
  job.sched.kind = "at" /\ job.enabled =>
    job.next \in {0, job.sched.at} /\ (ran[j] = 1 => job.next = 0)

OneShotsPast ==
  /\ \A j \in DOMAIN jobs : Past(j, jobs[j].sched) /\ (running => OneShot(j, jobs[j]))
  /\ \A j \in DOMAIN disk : Past(j, disk[j].sched)

CutOnlyWhileRunning == ~running => cut = {}

Inv ==
  /\ TypeOK /\ OneJobPerId /\ ExecutesDue /\ OneShotsPast
  /\ CutOnlyWhileRunning /\ TimerExact /\ CutShortIsRetried

-----------------------------------------------------------------------------
(* The operations on a list of jobs.                                       *)

LEMMA ScheduleIs ==
  ASSUME NEW s \in Schedules
  PROVE  \/ s.kind = "at" /\ s.at \in Nat
         \/ s.kind \in {"every", "cron"} /\ s.period \in Nat
BY SchedulesAssumption

LEMMA NextRunIs ==
  ASSUME NEW s \in Schedules, now \in Nat
  PROVE  /\ NextRun(s) \in Nat
         /\ s.kind = "at" => NextRun(s) = IF s.at > now THEN s.at ELSE 0
<1>1. CASE s.kind = "at" /\ s.at \in Nat
  BY <1>1 DEF NextRun
<1>2. CASE s.kind \in {"every", "cron"} /\ s.period = 0
  BY <1>2 DEF NextRun
<1>3. CASE s.kind = "every" /\ s.period \in Nat \ {0}
  BY <1>3 DEF NextRun
<1>4. CASE s.kind = "cron" /\ s.period \in Nat \ {0}
  <2>1. now \div s.period \in Nat
    BY <1>4
  <2>2. ((now \div s.period) + 1) * s.period \in Nat
    BY <1>4, <2>1
  <2> QED BY <1>4, <2>2 DEF NextRun
<1> QED BY <1>1, <1>2, <1>3, <1>4, ScheduleIs

LEMMA JobIs ==
  ASSUME NEW js, IsJobs(js), NEW j \in DOMAIN js
  PROVE  /\ j \in Ids /\ js[j] \in Job /\ js[j].sched \in Schedules /\ js[j].enabled \in BOOLEAN
         /\ js[j].next \in Nat
BY DEF IsJobs, Job

Adds(js, j, sched, more) ==
  /\ IsJobs(more) /\ DOMAIN more = DOMAIN js \cup {j}
  /\ \A k \in DOMAIN js \ {j} : more[k] = js[k]
  /\ more[j].sched = sched

LEMMA AddedIs ==
  ASSUME NEW js, NEW j, NEW sched, NEW s,
         IsJobs(js), j \in Ids, sched \in Schedules, s \in Sessions \cup {NoSession}, now \in Nat
  PROVE  Adds(js, j, sched, Added(js, j, sched, s))
<1> DEFINE new == [sched |-> sched, enabled |-> TRUE, next |-> NextRun(sched),
                   created |-> now, session |-> s]
<1>1. new \in Job /\ new.sched = sched /\ new.next = NextRun(sched)
  BY NextRunIs DEF Job
<1>2. Added(js, j, sched, s) = [k \in DOMAIN js \cup {j} |-> IF k = j THEN new ELSE js[k]]
  BY DEF Added
<1> HIDE DEF new
<1> QED BY <1>1, <1>2 DEF IsJobs, Adds

LEMMA RemovedIs ==
  ASSUME NEW js, IsJobs(js), NEW j
  PROVE  /\ IsJobs(Removed(js, j))
         /\ DOMAIN Removed(js, j) = DOMAIN js \ {j}
         /\ \A k \in DOMAIN js \ {j} : Removed(js, j)[k] = js[k]
BY DEF IsJobs, Removed

LEMMA EnabledIs ==
  ASSUME NEW js, IsJobs(js), NEW j \in DOMAIN js, NEW b \in BOOLEAN, now \in Nat
  PROVE  /\ IsJobs(Enabled(js, j, b)) /\ DOMAIN Enabled(js, j, b) = DOMAIN js
         /\ \A k \in DOMAIN js : Enabled(js, j, b)[k].sched = js[k].sched
<1> DEFINE n == IF b THEN NextRun(js[j].sched) ELSE 0
           new == [js[j] EXCEPT !.enabled = b, !.next = n]
<1>1. n \in Nat
  BY JobIs, NextRunIs
<1>2. Enabled(js, j, b) = [js EXCEPT ![j] = new]
  BY DEF Enabled, IsJobs
<1> HIDE DEF n
<1>3. new \in Job /\ new.sched = js[j].sched
  BY <1>1, JobIs DEF Job
<1> HIDE DEF new
<1> QED BY <1>2, <1>3 DEF IsJobs

LEMMA AfterRunIs ==
  ASSUME NEW js, IsJobs(js), NEW j \in DOMAIN js, now \in Nat
  PROVE  /\ IsJobs(AfterRun(js, j)) /\ DOMAIN AfterRun(js, j) = DOMAIN js
         /\ \A k \in DOMAIN js : AfterRun(js, j)[k].sched = js[k].sched
         /\ \A k \in DOMAIN js \ {j} : AfterRun(js, j)[k] = js[k]
         /\ js[j].sched.kind = "at" => ~AfterRun(js, j)[j].enabled
<1> DEFINE sch == js[j].sched
           new == IF sch.kind = "at" THEN [js[j] EXCEPT !.enabled = FALSE, !.next = 0]
                                     ELSE [js[j] EXCEPT !.next = NextRun(sch)]
<1>1. NextRun(sch) \in Nat
  BY JobIs, NextRunIs
<1>2. AfterRun(js, j) = [js EXCEPT ![j] = new]
  <2>0. js = [k \in DOMAIN js |-> js[k]] /\ js[j] = [js[j] EXCEPT !.next = js[j].next]
    BY JobIs DEF IsJobs, Job
  <2>1. CASE sch.kind = "at"
    BY <2>0, <2>1 DEF AfterRun
  <2>2. CASE sch.kind # "at"
    BY <2>0, <2>2 DEF AfterRun
  <2> QED BY <2>1, <2>2
<1>3. new \in Job /\ new.sched = sch /\ (sch.kind = "at" => ~new.enabled)
  <2>0. js[j] \in Job /\ DOMAIN js[j] = {"sched", "enabled", "next", "created", "session"}
    BY JobIs DEF Job
  <2>1. CASE sch.kind = "at"
    BY <2>0, <2>1 DEF Job
  <2>2. CASE sch.kind # "at"
    BY <2>0, <2>2, <1>1 DEF Job
  <2> QED BY <2>1, <2>2
<1> HIDE DEF new
<1> QED BY <1>2, <1>3 DEF IsJobs

LEMMA RecomputedIs ==
  ASSUME NEW js, IsJobs(js), now \in Nat
  PROVE  /\ IsJobs(Recomputed(js)) /\ DOMAIN Recomputed(js) = DOMAIN js
         /\ \A j \in DOMAIN js :
              /\ Recomputed(js)[j].sched = js[j].sched
              /\ Recomputed(js)[j].enabled => Recomputed(js)[j].next = NextRun(js[j].sched)
<1> DEFINE new(j) == IF js[j].enabled THEN [js[j] EXCEPT !.next = NextRun(js[j].sched)]
                                      ELSE js[j]
<1>1. ASSUME NEW j \in DOMAIN js
      PROVE  new(j) \in Job /\ new(j).sched = js[j].sched
             /\ (new(j).enabled => new(j).next = NextRun(js[j].sched))
  <2>1. NextRun(js[j].sched) \in Nat /\ js[j] \in Job
    BY JobIs, NextRunIs
  <2> QED BY <2>1 DEF Job
<1>2. Recomputed(js) = [j \in DOMAIN js |-> new(j)]
  BY DEF Recomputed
<1> HIDE DEF new
<1> QED BY <1>1, <1>2 DEF IsJobs

LEMMA WakesAre ==
  ASSUME NEW js, IsJobs(js)
  PROVE  /\ Wakes(js) \subseteq Nat
         /\ \A j \in DOMAIN js : Waiting(js, j) => js[j].next \in Wakes(js)
<1>1. Wakes(js) \subseteq Nat
  BY JobIs DEF Wakes
<1> QED BY <1>1 DEF Wakes

\* What _arm_timer leaves: as TimerExact says.
LEMMA ArmIs ==
  ASSUME NEW js, IsJobs(js), NEW on, on = TRUE, Arm(js, on)
  PROVE  /\ timer' \in Timer /\ timer'.pc # "exec"
         /\ IF Wakes(js) = {} THEN timer' = NoTimer
            ELSE timer'.pc = "sleep" /\ IsMin(timer'.wake, Wakes(js))
<1>1. CASE Wakes(js) = {}
  BY <1>1 DEF Arm, NoTimer, Timer
<1>2. CASE Wakes(js) # {}
  <2>1. PICK w \in Wakes(js) : IsMin(w, Wakes(js)) /\ timer' = Sleeping(w)
    BY <1>2 DEF Arm
  <2>2. w \in Nat
    BY <2>1, WakesAre
  <2>3. timer' \in Timer /\ timer'.pc = "sleep" /\ timer'.wake = w
    BY <2>1, <2>2 DEF Sleeping, Timer
  <2> QED BY <1>2, <2>1, <2>3
<1> QED BY <1>1, <1>2
\* What _save_store and _arm_timer make of a list of jobs.
LEMMA Armed ==
  ASSUME NEW js, IsJobs(js), NEW on, on = TRUE, SaveAndArm(js, on), running' = TRUE
  PROVE  /\ jobs' = js /\ disk' = js
         /\ timer' \in Timer /\ timer'.pc # "exec"
         /\ TimerExact'
         /\ \A j \in DOMAIN js : Waiting(js, j) => timer'.pc # "none"
<1>1. jobs' = js /\ disk' = js /\ Arm(js, on)
  BY DEF SaveAndArm
<1>2. /\ timer' \in Timer /\ timer'.pc # "exec"
      /\ IF Wakes(js) = {} THEN timer' = NoTimer
         ELSE timer'.pc = "sleep" /\ IsMin(timer'.wake, Wakes(js))
  BY <1>1, ArmIs
<1>3. Wakes(jobs)' = Wakes(js)
  BY <1>1 DEF Wakes, Waiting
<1>4. TimerExact'
  BY <1>2, <1>3 DEF TimerExact, IsMin
<1>5. \A j \in DOMAIN js : Waiting(js, j) => timer'.pc # "none"
  BY <1>2, WakesAre
<1> QED BY <1>1, <1>2, <1>4, <1>5

-----------------------------------------------------------------------------
(* The gateway's steps.                                                    *)

LEMMA CronInitially == Init => Inv
<1> SUFFICES ASSUME Init PROVE Inv
  OBVIOUS
<1>1. DOMAIN jobs = {} /\ DOMAIN disk = {} /\ IsJobs(jobs) /\ IsJobs(disk)
  BY DEF Init, IsJobs
<1>2. timer \in Timer /\ timer = NoTimer /\ timer.pc = "none"
  BY DEF Init, NoTimer, Timer
<1> QED
  BY <1>1, <1>2 DEF Init, Inv, TypeOK, OneJobPerId, ExecutesDue, OneShotsPast,
       CutOnlyWhileRunning, TimerExact, CutShortIsRetried

\* Executing, or not: a gateway that is up, with the jobs the timer still has.
LEMMA ExecutingRuns ==
  ASSUME Inv, timer.pc = "exec"
  PROVE  /\ running = TRUE /\ timer.cur \in DOMAIN jobs /\ timer.due \subseteq DOMAIN jobs
         /\ timer.cur \in Ids /\ timer.due \subseteq Ids
BY DEF Inv, TypeOK, NoTimer, IsJobs

\* Nothing is executed, and nothing was cut short, before the start.
LEMMA LoadKeeps == Inv /\ Load => Inv'
<1> SUFFICES ASSUME Inv, Load PROVE Inv'
  OBVIOUS
<1>1. /\ jobs' = disk /\ loaded' = TRUE /\ ~running
      /\ UNCHANGED <<disk, running, timer, now, used, gone, ran, cut, calls>>
  BY DEF Load, Inv, TypeOK
<1>2. timer = NoTimer /\ timer.pc = "none" /\ cut = {}
  BY <1>1 DEF Inv, TypeOK, NoTimer, CutOnlyWhileRunning
<1>3. TypeOK'
  BY <1>1, <1>2 DEF Inv, TypeOK, IsJobs
<1>4. OneJobPerId' /\ OneShotsPast'
  BY <1>1 DEF Inv, OneJobPerId, OneShotsPast, Past
<1> QED
  BY <1>1, <1>2, <1>3, <1>4
  DEF Inv, ExecutesDue, CutOnlyWhileRunning, TimerExact, CutShortIsRetried

LEMMA StartKeeps == Inv /\ Start => Inv'
<1> SUFFICES ASSUME Inv, Start PROVE Inv'
  OBVIOUS
<1> DEFINE js == Recomputed(jobs)
<1>1. /\ IsJobs(jobs) /\ loaded /\ now \in Nat /\ cut = {} /\ DOMAIN jobs \subseteq used
      /\ \A j \in DOMAIN jobs : Past(j, jobs[j].sched)
      /\ \A j \in Ids : ran[j] # 0 => j \in used
  BY DEF Inv, TypeOK, Start, CutOnlyWhileRunning, OneShotsPast, OneJobPerId
<1>2. /\ IsJobs(js) /\ DOMAIN js = DOMAIN jobs
      /\ \A j \in DOMAIN js : js[j].sched = jobs[j].sched
                 /\ (js[j].enabled => js[j].next = NextRun(jobs[j].sched))
  BY <1>1, RecomputedIs
<1> HIDE DEF js
<1>3. /\ running' = TRUE /\ SaveAndArm(js, TRUE)
      /\ UNCHANGED <<loaded, now, used, gone, ran, cut, calls>>
  BY DEF Start, js
<1>4. /\ jobs' = js /\ disk' = js /\ timer' \in Timer /\ timer'.pc # "exec" /\ TimerExact'
  BY <1>2, <1>3, Armed
<1>5. TypeOK'
  BY <1>1, <1>2, <1>3, <1>4 DEF Inv, TypeOK
<1>6. OneJobPerId'
  BY <1>1, <1>2, <1>3, <1>4 DEF OneJobPerId
<1>7. OneShotsPast'
  <2>1. ASSUME NEW j \in DOMAIN js
        PROVE  Past(j, js[j].sched) /\ OneShot(j, js[j])
    <3>1. j \in DOMAIN jobs /\ Past(j, jobs[j].sched) /\ js[j].sched = jobs[j].sched
      BY <1>1, <1>2
    <3>2. js[j].sched \in Schedules /\ (js[j].enabled => js[j].next = NextRun(js[j].sched))
      BY <1>2, <3>1, JobIs
    <3>3. js[j].sched.kind = "at" => js[j].sched.at \in Nat
      BY <3>2, ScheduleIs
    <3>4. js[j].sched.kind = "at" =>
            NextRun(js[j].sched) = IF js[j].sched.at > now THEN js[j].sched.at ELSE 0
      BY <3>2, <1>1, NextRunIs
    <3> QED BY <3>1, <3>2, <3>3, <3>4, <1>1 DEF Past, OneShot
  <2> QED BY <2>1, <1>3, <1>4 DEF OneShotsPast, Past, OneShot
<1> QED
  BY <1>1, <1>3, <1>4, <1>5, <1>6, <1>7
  DEF Inv, ExecutesDue, CutOnlyWhileRunning, CutShortIsRetried

LEMMA ExitKeeps == Inv /\ Exit => Inv'
<1> SUFFICES ASSUME Inv, Exit PROVE Inv'
  OBVIOUS
<1>1. DOMAIN jobs' = {} /\ IsJobs(jobs)'
  BY DEF Exit, IsJobs
<1>2. timer' \in Timer /\ timer' = NoTimer /\ timer'.pc = "none"
  BY DEF Exit, NoTimer, Timer
<1>3. TypeOK'
  BY <1>1, <1>2 DEF Inv, TypeOK, Exit, IsJobs
<1>4. OneJobPerId' /\ OneShotsPast'
  BY <1>1 DEF Inv, OneJobPerId, OneShotsPast, Past, OneShot, Exit
<1> QED
  BY <1>1, <1>2, <1>3, <1>4
  DEF Inv, Exit, ExecutesDue, CutOnlyWhileRunning, TimerExact, CutShortIsRetried

\* The tool's calls cut the timer short and arm it anew.
LEMMA CutIsDue ==
  ASSUME Inv
  PROVE  /\ CutShort \subseteq DOMAIN jobs
         /\ \A j \in (cut \cup CutShort) \cap DOMAIN jobs : Due(jobs, j)
         /\ cut \cup CutShort \subseteq used
<1>1. CASE timer.pc = "exec"
  BY <1>1, ExecutingRuns DEF Inv, CutShort, ExecutesDue, CutShortIsRetried, OneJobPerId
<1>2. CASE timer.pc # "exec"
  BY <1>2 DEF Inv, CutShort, CutShortIsRetried, OneJobPerId
<1> QED BY <1>1, <1>2

LEMMA ToolAddKeeps ==
  ASSUME Inv, NEW j \in Ids, NEW sched \in Schedules, NEW s \in Sessions, ToolAdd(j, sched, s)
  PROVE  Inv'
<1> DEFINE js == Added(jobs, j, sched, s)
<1>1. IsJobs(jobs) /\ now \in Nat /\ DOMAIN jobs \subseteq used /\ j \notin used
      /\ j \notin DOMAIN jobs
  BY DEF Inv, TypeOK, OneJobPerId, ToolAdd
<1>2. /\ IsJobs(js) /\ DOMAIN js = DOMAIN jobs \cup {j}
      /\ \A k \in DOMAIN jobs : js[k] = jobs[k]
      /\ js[j].sched = sched
  <2>1. s \in Sessions \cup {NoSession}
    OBVIOUS
  <2>2. IsJobs(jobs) /\ now \in Nat
    BY <1>1
  <2>3. Adds(jobs, j, sched, js)
    BY <2>1, <2>2, AddedIs
  <2> HIDE DEF js
  <2> QED BY <1>1, <2>3 DEF Adds
<1> HIDE DEF js
<1>3. /\ SaveAndArm(js, TRUE) /\ running = TRUE /\ running' = TRUE
      /\ sched.kind # "at"
      /\ used' = used \cup {j} /\ cut' = cut \cup CutShort /\ calls' = calls + 1
      /\ UNCHANGED <<loaded, now, gone, ran>>
  BY DEF ToolAdd, js, Inv, TypeOK
<1>4. /\ jobs' = js /\ disk' = js /\ timer' \in Timer /\ timer'.pc # "exec" /\ TimerExact'
      /\ \A k \in DOMAIN js : Waiting(js, k) => timer'.pc # "none"
  BY <1>2, <1>3, Armed
<1>5. TypeOK'
  BY <1>2, <1>3, <1>4, CutIsDue DEF Inv, TypeOK
<1>6. OneJobPerId'
  BY <1>1, <1>2, <1>3, <1>4, CutIsDue DEF Inv, OneJobPerId
<1>7. OneShotsPast'
  BY <1>2, <1>3, <1>4 DEF Inv, OneShotsPast, Past, OneShot
<1>8. CutShortIsRetried'
  <2> SUFFICES ASSUME NEW k \in cut' \cap DOMAIN jobs'
               PROVE  Due(jobs, k)' /\ timer'.pc # "none"
    BY DEF CutShortIsRetried
  <2>1. k \in cut \cup CutShort /\ k # j /\ k \in DOMAIN jobs
    BY <1>1, <1>2, <1>3, <1>4, CutIsDue
  <2>2. Due(jobs, k) /\ js[k] = jobs[k] /\ k \in DOMAIN js
    BY <2>1, <1>2, CutIsDue
  <2> QED BY <2>2, <1>3, <1>4 DEF Due, Waiting
<1> QED
  BY <1>3, <1>4, <1>5, <1>6, <1>7, <1>8 DEF Inv, ExecutesDue, CutOnlyWhileRunning

LEMMA ToolRemoveKeeps ==
  ASSUME Inv, NEW j \in Ids, ToolRemove(j)
  PROVE  Inv'
<1> DEFINE js == Removed(jobs, j)
<1>1. IsJobs(jobs) /\ now \in Nat /\ DOMAIN jobs \subseteq used /\ j \in used
  BY DEF Inv, TypeOK, OneJobPerId, ToolRemove
<1>2. /\ IsJobs(js) /\ DOMAIN js = DOMAIN jobs \ {j}
      /\ \A k \in DOMAIN js : js[k] = jobs[k]
  BY <1>1, RemovedIs
<1> HIDE DEF js
<1>3. /\ SaveAndArm(js, TRUE) /\ running = TRUE /\ running' = TRUE
      /\ gone' = gone \cup {j} /\ cut' = cut \cup CutShort /\ calls' = calls + 1
      /\ UNCHANGED <<loaded, now, used, ran>>
  BY DEF ToolRemove, js, Inv, TypeOK
<1>4. /\ jobs' = js /\ disk' = js /\ timer' \in Timer /\ timer'.pc # "exec" /\ TimerExact'
      /\ \A k \in DOMAIN js : Waiting(js, k) => timer'.pc # "none"
  BY <1>2, <1>3, Armed
<1>5. TypeOK'
  BY <1>1, <1>2, <1>3, <1>4, CutIsDue DEF Inv, TypeOK
<1>6. OneJobPerId'
  BY <1>1, <1>2, <1>3, <1>4, CutIsDue DEF Inv, OneJobPerId
<1>7. OneShotsPast'
  BY <1>2, <1>3, <1>4 DEF Inv, OneShotsPast, Past, OneShot
<1>8. CutShortIsRetried'
  <2> SUFFICES ASSUME NEW k \in cut' \cap DOMAIN jobs'
               PROVE  Due(jobs, k)' /\ timer'.pc # "none"
    BY DEF CutShortIsRetried
  <2>1. k \in cut \cup CutShort /\ k \in DOMAIN js /\ k \in DOMAIN jobs
    BY <1>2, <1>3, <1>4
  <2>2. Due(jobs, k) /\ js[k] = jobs[k]
    BY <2>1, <1>2, CutIsDue
  <2> QED BY <2>1, <2>2, <1>3, <1>4 DEF Due, Waiting
<1> QED
  BY <1>3, <1>4, <1>5, <1>6, <1>7, <1>8 DEF Inv, ExecutesDue, CutOnlyWhileRunning

LEMMA TimerFiresKeeps ==
  ASSUME Inv, NEW j \in Ids, TimerFires(j)
  PROVE  Inv'
<1> DEFINE due == {k \in DOMAIN jobs : Due(jobs, k)} \ {j}
<1>1. /\ j \in DOMAIN jobs /\ Due(jobs, j) /\ due \subseteq DOMAIN jobs /\ due \subseteq Ids
      /\ \A k \in due : Due(jobs, k)
  BY DEF Inv, TypeOK, TimerFires, IsJobs
<1>2. /\ timer' = Executing(j, due) /\ timer.pc = "sleep"
      /\ UNCHANGED <<jobs, disk, running, loaded, now, used, gone, ran, cut, calls>>
  BY DEF TimerFires
<1>3. j \notin due
  OBVIOUS
<1> HIDE DEF due
<1>4. /\ timer' \in Timer /\ timer'.pc = "exec" /\ timer'.cur = j /\ timer'.due = due
  BY <1>1, <1>2 DEF Executing, Timer
<1>5. running
  BY <1>2 DEF Inv, TypeOK, NoTimer
<1>6. TypeOK'
  BY <1>1, <1>2, <1>4, <1>5 DEF Inv, TypeOK, IsJobs
<1>7. OneJobPerId' /\ OneShotsPast' /\ CutOnlyWhileRunning'
  BY <1>2 DEF Inv, OneJobPerId, OneShotsPast, CutOnlyWhileRunning, Past, OneShot
<1>8. ExecutesDue'
  BY <1>1, <1>2, <1>3, <1>4 DEF ExecutesDue, Due, Waiting
<1>9. TimerExact' /\ CutShortIsRetried'
  BY <1>2, <1>4 DEF Inv, TimerExact, CutShortIsRetried, Due, Waiting
<1> QED BY <1>6, <1>7, <1>8, <1>9 DEF Inv

\* The history of one job's run.
LEMMA RanIs ==
  ASSUME Inv, timer.pc = "exec", ran' = [ran EXCEPT ![timer.cur] = @ + 1]
  PROVE  /\ ran' \in [Ids -> Nat]
         /\ ran'[timer.cur] = ran[timer.cur] + 1
         /\ \A k \in Ids \ {timer.cur} : ran'[k] = ran[k]
<1>0. timer.cur \in Ids /\ ran \in [Ids -> Nat]
  BY ExecutingRuns DEF Inv, TypeOK
<1>1. timer.cur \in Ids /\ ran \in [Ids -> Nat] /\ ran[timer.cur] + 1 \in Nat
  BY <1>0
<1> DEFINE c == timer.cur
           n == ran[c] + 1
<1>2. ran' = [ran EXCEPT ![c] = n]
  OBVIOUS
<1> HIDE DEF c, n
<1>3. /\ ran' \in [Ids -> Nat] /\ ran'[c] = n
      /\ \A k \in Ids \ {c} : ran'[k] = ran[k]
  BY <1>1, <1>2 DEF c, n
<1> QED BY <1>3 DEF c, n

\* A one-shot job that is being executed was not run before, and its time has come.
LEMMA FirstRun ==
  ASSUME Inv, timer.pc = "exec", jobs[timer.cur].sched.kind = "at"
  PROVE  ran[timer.cur] = 0 /\ jobs[timer.cur].sched.at <= now
<1>1. Due(jobs, timer.cur) /\ timer.cur \in DOMAIN jobs /\ timer.cur \in Ids
  BY ExecutingRuns DEF Inv, ExecutesDue
<1>2. Past(timer.cur, jobs[timer.cur].sched) /\ OneShot(timer.cur, jobs[timer.cur])
  BY <1>1, ExecutingRuns DEF Inv, OneShotsPast
<1>3. ran[timer.cur] \in Nat
  BY <1>1 DEF Inv, TypeOK
<1> QED BY <1>1, <1>2, <1>3 DEF Past, OneShot, Due, Waiting

LEMMA JobDoneKeeps == Inv /\ JobDone => Inv'
<1> SUFFICES ASSUME Inv, JobDone PROVE Inv'
  OBVIOUS
<1> DEFINE cur == timer.cur
           js == AfterRun(jobs, cur)
<1>1. /\ timer.pc = "exec" /\ running = TRUE /\ cur \in DOMAIN jobs /\ cur \in Ids
      /\ timer.due \subseteq DOMAIN jobs /\ timer.due \subseteq Ids /\ cur \notin timer.due
      /\ \A k \in timer.due : Due(jobs, k)
      /\ IsJobs(jobs) /\ now \in Nat
  BY ExecutingRuns DEF JobDone, Inv, TypeOK, ExecutesDue
<1>2. /\ IsJobs(js) /\ DOMAIN js = DOMAIN jobs
      /\ \A k \in DOMAIN js : js[k].sched = jobs[k].sched
      /\ \A k \in DOMAIN js \ {cur} : js[k] = jobs[k]
      /\ jobs[cur].sched.kind = "at" => ~js[cur].enabled
  BY <1>1, AfterRunIs
<1>3. /\ ran' \in [Ids -> Nat] /\ ran'[cur] = ran[cur] + 1
      /\ \A k \in Ids \ {cur} : ran'[k] = ran[k]
      /\ \A k \in Ids : ran[k] \in Nat
  BY <1>1, RanIs DEF JobDone, Inv, TypeOK
<1>4. jobs[cur].sched.kind = "at" => ran[cur] = 0 /\ jobs[cur].sched.at <= now
  BY <1>1, FirstRun
<1>5. /\ jobs' = js /\ cut' = cut \ {cur}
      /\ UNCHANGED <<running, loaded, now, used, gone, calls>>
      /\ disk' = js \/ disk' = disk
  BY DEF JobDone, SaveAndArm
<1>6. \/ timer.due = {} /\ SaveAndArm(js, running)
      \/ \E k \in timer.due : timer' = Executing(k, timer.due \ {k}) /\ disk' = disk
  BY DEF JobDone
<1> HIDE DEF js, cur
<1>7. OneJobPerId'
  BY <1>1, <1>2, <1>3, <1>5 DEF Inv, OneJobPerId
<1>8. ASSUME NEW k \in DOMAIN jobs
      PROVE  Past(k, jobs[k].sched)' /\ OneShot(k, jobs[k])'
  <2>1. Past(k, jobs[k].sched) /\ OneShot(k, jobs[k]) /\ k \in Ids
    BY <1>1, JobIs DEF Inv, OneShotsPast
  <2>2. CASE k = cur
    <3>1. js[k].sched = jobs[k].sched /\ (jobs[k].sched.kind = "at" => ~js[k].enabled)
      BY <2>2, <1>2
    <3>2. jobs[k].sched.kind = "at" => ran'[k] = 1 /\ jobs[k].sched.at <= now
      BY <2>2, <1>3, <1>4
    <3> QED BY <3>1, <3>2, <1>5 DEF Past, OneShot
  <2>3. CASE k # cur
    <3>1. js[k] = jobs[k] /\ ran'[k] = ran[k]
      BY <2>1, <2>3, <1>2, <1>3
    <3> QED BY <3>1, <2>1, <1>5 DEF Past, OneShot
  <2> QED BY <2>2, <2>3
<1>9. ASSUME NEW k \in DOMAIN disk, disk' = disk
      PROVE  Past(k, disk[k].sched)'
  <2>1. Past(k, disk[k].sched) /\ k \in Ids
    BY JobIs DEF Inv, OneShotsPast, TypeOK
  <2>2. CASE k = cur
    <3>1. disk[k].sched = jobs[k].sched
      BY <2>2, <1>1 DEF Inv, OneJobPerId
    <3> QED BY <1>3, <1>4, <1>5, <1>9, <2>2, <3>1 DEF Past
  <2>3. CASE k # cur
    BY <2>1, <2>3, <1>3, <1>5, <1>9 DEF Past
  <2> QED BY <2>2, <2>3
<1>10. OneShotsPast'
  <2>1. \A k \in DOMAIN jobs' : Past(k, jobs[k].sched)' /\ OneShot(k, jobs[k])'
    BY <1>2, <1>5, <1>8
  <2>2. CASE disk' = js
    BY <2>1, <2>2, <1>5 DEF OneShotsPast, Past
  <2>3. CASE disk' = disk
    BY <2>1, <2>3, <1>9 DEF OneShotsPast
  <2> QED BY <2>2, <2>3, <1>5
<1>11. \A k \in cut' \cap DOMAIN jobs' : k # cur /\ Due(jobs, k)' /\ Waiting(js, k) /\ k \in DOMAIN js
  BY <1>2, <1>5 DEF Inv, CutShortIsRetried, Due, Waiting
<1>12. /\ timer' \in Timer /\ TimerExact' /\ ExecutesDue' /\ CutShortIsRetried'
       /\ timer'.pc = "exec" => {timer'.cur} \cup timer'.due \subseteq DOMAIN js
  <2>1. CASE timer.due = {} /\ SaveAndArm(js, running)
    <3>1. /\ timer' \in Timer /\ timer'.pc # "exec" /\ TimerExact'
          /\ \A k \in DOMAIN js : Waiting(js, k) => timer'.pc # "none"
      BY <2>1, <1>1, <1>2, <1>5, Armed
    <3> QED BY <3>1, <1>11 DEF ExecutesDue, CutShortIsRetried
  <2>2. ASSUME NEW k \in timer.due, timer' = Executing(k, timer.due \ {k})
        PROVE  /\ timer' \in Timer /\ TimerExact' /\ ExecutesDue' /\ CutShortIsRetried'
               /\ timer'.pc = "exec" => {timer'.cur} \cup timer'.due \subseteq DOMAIN js
    <3>1. /\ timer' \in Timer /\ timer'.pc = "exec" /\ timer'.cur = k
          /\ timer'.due = timer.due \ {k}
      BY <2>2, <1>1 DEF Executing, Timer
    <3>2. \A i \in timer.due : Due(jobs, i)'
      BY <1>1, <1>2, <1>5 DEF Due, Waiting
    <3> QED BY <3>1, <3>2, <1>1, <1>2, <1>11 DEF TimerExact, ExecutesDue, CutShortIsRetried
  <2> QED BY <2>1, <2>2, <1>6
<1>13. TypeOK'
  BY <1>1, <1>2, <1>3, <1>5, <1>12 DEF Inv, TypeOK
<1>14. CutOnlyWhileRunning'
  BY <1>1, <1>5 DEF CutOnlyWhileRunning
<1> QED BY <1>7, <1>10, <1>12, <1>13, <1>14 DEF Inv

-----------------------------------------------------------------------------
(* The command line's steps, and time.                                     *)

\* A command leaves the gateway alone and writes the file.
LEMMA CommandKeeps ==
  ASSUME Inv, NEW js, Command(js), gone' \subseteq used', IsJobs(js),
         used \subseteq used', used' \subseteq Ids, DOMAIN js \subseteq used',
         \A k \in DOMAIN jobs \cap DOMAIN js : jobs[k].sched = js[k].sched,
         \A k \in DOMAIN js : Past(k, js[k].sched)
  PROVE  Inv'
<1>1. /\ disk' = js /\ calls' = calls + 1
      /\ UNCHANGED <<jobs, running, loaded, timer, now, ran, cut>>
  BY DEF Command
<1>2. TypeOK'
  BY <1>1 DEF Inv, TypeOK, IsJobs
<1>3. OneJobPerId'
  BY <1>1 DEF Inv, OneJobPerId
<1>4. OneShotsPast'
  BY <1>1 DEF Inv, OneShotsPast, Past, OneShot
<1>5. ExecutesDue' /\ CutOnlyWhileRunning' /\ CutShortIsRetried'
  BY <1>1 DEF Inv, ExecutesDue, CutOnlyWhileRunning, CutShortIsRetried, Due, Waiting
<1>6. TimerExact'
  BY <1>1 DEF Inv, TimerExact, Wakes, Waiting, IsMin
<1> QED BY <1>2, <1>3, <1>4, <1>5, <1>6 DEF Inv

\* What a command makes of one job keeps its schedule and its history.
LEMMA FileKeeps ==
  ASSUME Inv, NEW js, IsJobs(js), DOMAIN js \subseteq DOMAIN disk,
         \A k \in DOMAIN js : js[k].sched = disk[k].sched
  PROVE  /\ DOMAIN js \subseteq used
         /\ \A k \in DOMAIN jobs \cap DOMAIN js : jobs[k].sched = js[k].sched
         /\ \A k \in DOMAIN js : Past(k, js[k].sched)
<1>1. /\ DOMAIN disk \subseteq used
      /\ \A k \in DOMAIN jobs \cap DOMAIN disk : jobs[k].sched = disk[k].sched
      /\ \A k \in DOMAIN disk : Past(k, disk[k].sched)
  BY DEF Inv, OneJobPerId, OneShotsPast
<1>2. ASSUME NEW k \in DOMAIN js PROVE Past(k, js[k].sched)
  <2>1. k \in DOMAIN disk /\ js[k].sched = disk[k].sched
    OBVIOUS
  <2> QED BY <1>1, <2>1
<1> QED BY <1>1, <1>2

LEMMA CliAddKeeps ==
  ASSUME Inv, NEW j \in Ids, NEW sched \in Schedules, NEW s \in Sessions \cup {NoSession},
         CliAdd(j, sched, s)
  PROVE  Inv'
<1> DEFINE js == Added(disk, j, sched, s)
<1>1. /\ IsJobs(disk) /\ now \in Nat /\ j \notin used /\ ran[j] = 0
      /\ DOMAIN disk \subseteq used /\ DOMAIN jobs \subseteq used /\ used \subseteq Ids
  BY DEF Inv, TypeOK, OneJobPerId, CliAdd
<1>2. /\ IsJobs(js) /\ DOMAIN js = DOMAIN disk \cup {j}
      /\ \A k \in DOMAIN disk \ {j} : js[k] = disk[k]
      /\ js[j].sched = sched
  <2>1. Adds(disk, j, sched, js)
    BY <1>1, AddedIs
  <2> HIDE DEF js
  <2> QED BY <2>1 DEF Adds
<1>3. Command(js) /\ UNCHANGED gone /\ used' = used \cup {j}
  BY DEF CliAdd
<1> HIDE DEF js
<1>4. \A k \in DOMAIN jobs \cap DOMAIN js : jobs[k].sched = js[k].sched
  BY <1>1, <1>2 DEF Inv, OneJobPerId
<1>5. ASSUME NEW k \in DOMAIN js PROVE Past(k, js[k].sched)
  <2>1. CASE k = j
    BY <2>1, <1>1 DEF Past
  <2>2. CASE k # j
    <3>1. k \in DOMAIN disk /\ js[k] = disk[k]
      BY <2>2, <1>2
    <3> QED BY <3>1 DEF Inv, OneShotsPast
  <2> QED BY <2>1, <2>2
<1>6. /\ used \subseteq used' /\ used' \subseteq Ids /\ DOMAIN js \subseteq used'
      /\ gone' \subseteq used'
  BY <1>1, <1>2, <1>3 DEF Inv, TypeOK
<1> QED BY <1>2, <1>3, <1>4, <1>5, <1>6, CommandKeeps

LEMMA CliRemoveKeeps ==
  ASSUME Inv, NEW j \in Ids, CliRemove(j)
  PROVE  Inv'
<1> DEFINE js == Removed(disk, j)
<1>1. IsJobs(disk) /\ DOMAIN disk \subseteq used /\ j \in used
  BY DEF Inv, TypeOK, OneJobPerId, CliRemove
<1>2. IsJobs(js) /\ DOMAIN js \subseteq DOMAIN disk /\ \A k \in DOMAIN js : js[k] = disk[k]
  BY <1>1, RemovedIs
<1>3. Command(js) /\ gone' = gone \cup {j} /\ used' = used
  BY DEF CliRemove
<1> HIDE DEF js
<1>4. /\ DOMAIN js \subseteq used
      /\ \A k \in DOMAIN jobs \cap DOMAIN js : jobs[k].sched = js[k].sched
      /\ \A k \in DOMAIN js : Past(k, js[k].sched)
  BY <1>2, FileKeeps
<1>5. used' \subseteq Ids /\ gone' \subseteq used' /\ used \subseteq used'
  BY <1>1, <1>3 DEF Inv, TypeOK
<1> QED BY <1>1, <1>2, <1>3, <1>4, <1>5, CommandKeeps

LEMMA CliEnableKeeps ==
  ASSUME Inv, NEW j \in Ids, NEW b \in BOOLEAN, CliEnable(j, b)
  PROVE  Inv'
<1> DEFINE js == Enabled(disk, j, b)
<1>1. IsJobs(disk) /\ now \in Nat /\ j \in DOMAIN disk
  BY DEF Inv, TypeOK, CliEnable
<1>2. /\ IsJobs(js) /\ DOMAIN js \subseteq DOMAIN disk
      /\ \A k \in DOMAIN js : js[k].sched = disk[k].sched
  BY <1>1, EnabledIs
<1>3. Command(js) /\ gone' = gone /\ used' = used
  BY DEF CliEnable
<1> HIDE DEF js
<1>4. /\ DOMAIN js \subseteq used
      /\ \A k \in DOMAIN jobs \cap DOMAIN js : jobs[k].sched = js[k].sched
      /\ \A k \in DOMAIN js : Past(k, js[k].sched)
  BY <1>2, FileKeeps
<1>5. used' \subseteq Ids /\ gone' \subseteq used'
  BY <1>3 DEF Inv, TypeOK
<1> QED BY <1>2, <1>3, <1>4, <1>5, CommandKeeps

LEMMA CliRunKeeps ==
  ASSUME Inv, NEW j \in Ids, NEW b \in BOOLEAN, CliRun(j, b)
  PROVE  Inv'
<1> DEFINE js == AfterRun(disk, j)
<1>1. IsJobs(disk) /\ now \in Nat /\ j \in DOMAIN disk
  BY DEF Inv, TypeOK, CliRun
<1>2. /\ IsJobs(js) /\ DOMAIN js \subseteq DOMAIN disk
      /\ \A k \in DOMAIN js : js[k].sched = disk[k].sched
  BY <1>1, AfterRunIs
<1>3. Command(js) /\ gone' = gone /\ used' = used
  BY DEF CliRun
<1> HIDE DEF js
<1>4. /\ DOMAIN js \subseteq used
      /\ \A k \in DOMAIN jobs \cap DOMAIN js : jobs[k].sched = js[k].sched
      /\ \A k \in DOMAIN js : Past(k, js[k].sched)
  BY <1>2, FileKeeps
<1>5. used' \subseteq Ids /\ gone' \subseteq used'
  BY <1>3 DEF Inv, TypeOK
<1> QED BY <1>2, <1>3, <1>4, <1>5, CommandKeeps

\* Time only makes more jobs due.
LEMMA ClockKeeps == Inv /\ Clock => Inv'
<1> SUFFICES ASSUME Inv, Clock PROVE Inv'
  OBVIOUS
<1>1. /\ now' = now + 1 /\ now \in Nat /\ IsJobs(jobs) /\ IsJobs(disk)
      /\ UNCHANGED <<jobs, disk, running, loaded, timer, used, gone, ran, cut, calls>>
  BY DEF Clock, Inv, TypeOK
<1>2. ASSUME NEW j \in DOMAIN jobs, Due(jobs, j) PROVE Due(jobs, j)'
  BY <1>1, <1>2, JobIs DEF Due, Waiting
<1>3. ASSUME NEW j, NEW sched \in Schedules, Past(j, sched)
      PROVE  Past(j, sched)'
  BY <1>1, <1>3, ScheduleIs DEF Past
<1>4. TypeOK' /\ OneJobPerId' /\ CutOnlyWhileRunning'
  BY <1>1 DEF Inv, TypeOK, OneJobPerId, CutOnlyWhileRunning, IsJobs
<1>5. ExecutesDue'
  <2> SUFFICES ASSUME timer.pc = "exec"
               PROVE  /\ timer.cur \notin timer.due
                      /\ \A j \in {timer.cur} \cup timer.due : Due(jobs, j)'
    BY <1>1 DEF ExecutesDue
  <2>1. {timer.cur} \cup timer.due \subseteq DOMAIN jobs
    BY ExecutingRuns
  <2> QED BY <1>2, <2>1 DEF Inv, ExecutesDue
<1>6. OneShotsPast'
  <2>1. ASSUME NEW j \in DOMAIN jobs
        PROVE  Past(j, jobs[j].sched)' /\ (running' => OneShot(j, jobs[j])')
    <3>1. jobs[j].sched \in Schedules /\ Past(j, jobs[j].sched) /\ (running => OneShot(j, jobs[j]))
      BY <1>1, JobIs DEF Inv, OneShotsPast
    <3>2. jobs'[j] = jobs[j]
      BY <1>1
    <3>3. Past(j, jobs[j].sched)'
      BY <3>1, <3>2, <1>1, ScheduleIs DEF Past
    <3> QED BY <3>1, <3>2, <3>3, <1>1 DEF OneShot
  <2>2. ASSUME NEW j \in DOMAIN disk PROVE Past(j, disk[j].sched)'
    <3>1. disk[j].sched \in Schedules /\ Past(j, disk[j].sched)
      BY <1>1, JobIs DEF Inv, OneShotsPast
    <3> QED BY <3>1, <1>1, ScheduleIs DEF Past
  <2> QED BY <2>1, <2>2, <1>1 DEF OneShotsPast
<1>7. TimerExact'
  BY <1>1 DEF Inv, TimerExact, Wakes, Waiting, IsMin
<1>8. CutShortIsRetried'
  BY <1>1, <1>2 DEF Inv, CutShortIsRetried
<1> QED BY <1>4, <1>5, <1>6, <1>7, <1>8 DEF Inv

LEMMA CronStep == Inv /\ [Next]_vars => Inv'
<1> SUFFICES ASSUME Inv, [Next]_vars PROVE Inv'
  OBVIOUS
<1>1. CASE Gateway
  BY <1>1, LoadKeeps, StartKeeps, ExitKeeps, ToolAddKeeps, ToolRemoveKeeps, TimerFiresKeeps, JobDoneKeeps
  DEF Gateway
<1>2. CASE CommandLine
  BY <1>2, CliAddKeeps, CliRemoveKeeps, CliEnableKeeps, CliRunKeeps DEF CommandLine
<1>3. CASE Clock
  BY <1>3, ClockKeeps
<1>4. CASE UNCHANGED vars
  <2>1. TypeOK' /\ OneJobPerId' /\ CutOnlyWhileRunning'
    BY <1>4 DEF vars, Inv, TypeOK, IsJobs, OneJobPerId, CutOnlyWhileRunning
  <2>2. ExecutesDue' /\ OneShotsPast' /\ CutShortIsRetried'
    BY <1>4 DEF vars, Inv, ExecutesDue, OneShotsPast, Past, OneShot, CutShortIsRetried, Due,
         Waiting
  <2>3. TimerExact'
    BY <1>4 DEF vars, Inv, TimerExact, Wakes, Waiting, IsMin
  <2> QED BY <2>1, <2>2, <2>3 DEF Inv
<1> QED BY <1>1, <1>2, <1>3, <1>4 DEF Next

LEMMA CronInvariance == Spec => []Inv
BY CronInitially, CronStep, PTL DEF Spec

-----------------------------------------------------------------------------
(* The theorems.                                                           *)

\* The lists of jobs, the timer and the histories have their types in every
\* reachable state; a gateway has jobs once it has loaded them, and a timer once it
\* has started.
THEOREM CronTypeCorrect == Spec => []TypeOK
<1>1. Inv => TypeOK
  BY DEF Inv
<1> QED BY <1>1, CronInvariance, PTL

\* An idle gateway sleeps until the earliest next run of its jobs, and has no
\* timer only when nothing waits (_arm_timer, cron/service.py).
THEOREM TimerIsExact == Spec => []TimerExact
<1>1. Inv => TimerExact
  BY DEF Inv
<1> QED BY <1>1, CronInvariance, PTL

\* A one-shot job of the file was run to its end at most once, whatever
\* crashes, restarts and enabling commands come in between.
THEOREM OneShotAtMostOnce == Spec => []OneShotRunsOnce
<1>1. Inv => OneShotRunsOnce
  BY DEF Inv, OneShotsPast, Past, OneShotRunsOnce
<1> QED BY <1>1, CronInvariance, PTL

\* A job whose run the tool cut short by arming the timer is still due, and a
\* timer is there to run it again.
THEOREM CutShortRunsAgain == Spec => []CutShortIsRetried
<1>1. Inv => CutShortIsRetried
  BY DEF Inv
<1> QED BY <1>1, CronInvariance, PTL
=============================================================================
