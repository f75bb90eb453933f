-------------------------- MODULE SidecarSupervisor --------------------------
(***************************************************************************)
(* zen_claw/runtime/sidecar_supervisor.py: the gateway starts its sidecars  *)
(* and a monitor task makes sure of each of them in turn, for ever.         *)
(* _ensure_running waits only while it polls a process it has started;      *)
(* everything before and after is one step.  stop() may come at any wait.   *)
(*                                                                         *)
(* Abstractions: seconds are counted down or up by Tick, with no relation   *)
(* to the length of a poll; the list of specs is walked in any order; the   *)
(* status files, which nobody reads back, and the sandbox are left out.     *)
(***************************************************************************)
EXTENDS Integers, FiniteSets

CONSTANTS
  Services,
  NoService,
  Window,     \* _fail_window_sec
  Threshold,  \* _fail_threshold
  OpenFor,    \* _circuit_open_sec
  MaxDelay,   \* the 30 seconds of _record_start_failure
  Polls       \* the 20 polls of a start

ASSUME SupervisorAssumption ==
  /\ NoService \notin Services
  /\ Window \in Nat \ {0} /\ Threshold \in Nat \ {0} /\ OpenFor \in Nat \ {0}
  /\ MaxDelay \in Nat \ {0} /\ Polls \in Nat \ {0}

VARIABLES
  phase,     \* off, starting, watching, dead (the monitor), failed (start), stopped
  todo,      \* services this pass has not come to
  trying,    \* the service whose start is polled
  polls,     \* polls left for it
  child,     \* the process in _procs: none, coming, up, dead
  other,     \* some process that is not ours answers the health check
  fit,       \* the program would start and answer
  retryIn,   \* next_retry_at_unix, from now
  attempts,  \* attempts in a row, up to 6
  fails,     \* _failure_history: ages of the failures, up to the window
  openIn     \* _circuit_open_until, from now

health == <<child, other, fit>>
books == <<retryIn, attempts, fails, openIn>>
supVars == <<phase, todo, trying, polls, health, books>>

Running == phase \in {"starting", "watching"}
Alive(c) == c \in {"coming", "up"}
PhaseNames == {"off", "starting", "watching", "dead", "failed", "stopped"}
Clear(v) == [s \in Services |-> v]
Ages == SUBSET (0 .. Window)

NewBooks ==
  /\ retryIn = Clear(0) /\ attempts = Clear(0)
  /\ fails = Clear({}) /\ openIn = Clear(0)

SupInit ==
  /\ phase = "off" /\ todo = {} /\ trying = NoService /\ polls = 0
  /\ child = Clear("none") /\ other = Clear(FALSE) /\ fit = Clear(TRUE)
  /\ NewBooks

-----------------------------------------------------------------------------
\* 2 ** min(attempts - 1, 5)
Backoff == << 1, 2, 4, 8, 16, 32 >>

\* Mutant of Delay: without the cap.
DelayUncapped(n) == Backoff[n]

Delay(n) == IF Backoff[n] < MaxDelay THEN Backoff[n] ELSE MaxDelay

\* Mutant of RecordFailure: attempts count, failures do not.
RecordAttempt(s) ==
  LET n == IF attempts[s] < 6 THEN attempts[s] + 1 ELSE 6 IN
  /\ attempts' = [attempts EXCEPT ![s] = n]
  /\ retryIn' = [retryIn EXCEPT ![s] = Delay(n)]
  /\ fails' = [fails EXCEPT ![s] = @ \cup {0}]
  /\ UNCHANGED openIn

\* _record_start_failure
RecordFailure(s) ==
  LET n == IF attempts[s] < 6 THEN attempts[s] + 1 ELSE 6
      recent == fails[s] \cup {0}
  IN
  /\ attempts' = [attempts EXCEPT ![s] = n]
  /\ retryIn' = [retryIn EXCEPT ![s] = Delay(n)]
  /\ fails' = [fails EXCEPT ![s] = recent]
  /\ openIn' = [openIn EXCEPT ![s] = IF Cardinality(recent) >= Threshold THEN OpenFor ELSE @]

\* The pass goes on; the first one is start(), which then makes the monitor.
Done(s) ==
  /\ todo' = todo \ {s}
  /\ trying' = NoService /\ polls' = 0
  /\ phase' = IF todo = {s} THEN "watching" ELSE phase

SupStart ==
  /\ phase = "off"
  /\ phase' = "starting" /\ todo' = Services
  /\ UNCHANGED <<trying, polls, health, books>>

\* The monitor wakes up.
NextPass ==
  /\ phase = "watching" /\ todo = {}
  /\ todo' = Services
  /\ UNCHANGED <<phase, trying, polls, health, books>>

Turn(s) == Running /\ trying = NoService /\ s \in todo

\* Mutant of MayTry: the supervisor gives up.
MayTryAgain(s) == openIn[s] = 0 /\ retryIn[s] = 0 /\ attempts[s] < 3

MayTry(s) == openIn[s] = 0 /\ retryIn[s] = 0

\* The circuit is open or the backoff runs: the service is not looked at.
Wait(s) ==
  /\ Turn(s) /\ ~MayTry(s)
  /\ Done(s)
  /\ UNCHANGED <<health, books>>

\* Ours answers, or else something does: another process, or ours in the
\* moment between the two checks.
Answers(s) ==
  /\ Turn(s) /\ MayTry(s)
  /\ \/ (child[s] = "up" \/ other[s]) /\ UNCHANGED child
     \/ child[s] = "coming" /\ fit[s] /\ child' = [child EXCEPT ![s] = "up"]
  /\ Done(s)
  /\ UNCHANGED <<other, fit, books>>

Silent(s) == Turn(s) /\ MayTry(s) /\ child[s] # "up" /\ ~other[s]

\* What _terminate_process leaves of a process.
Ended(c) == IF Alive(c) THEN "dead" ELSE c

\* No launcher or no directory, after a process that did not answer was ended.
CannotLaunch(s) ==
  /\ Silent(s) /\ ~fit[s]
  /\ child' = [child EXCEPT ![s] = Ended(@)]
  /\ RecordFailure(s)
  /\ Done(s)
  /\ UNCHANGED <<other, fit>>

\* Popen raises: start() fails, or the monitor task ends.
PopenRaises(s) ==
  /\ Silent(s) /\ ~fit[s]
  /\ child' = [child EXCEPT ![s] = Ended(@)]
  /\ phase' = IF phase = "starting" THEN "failed" ELSE "dead"
  /\ todo' = {}
  /\ UNCHANGED <<trying, polls, other, fit, books>>

Launch(s) ==
  /\ Silent(s)
  /\ child' = [child EXCEPT ![s] = "coming"]
  /\ trying' = s /\ polls' = Polls
  /\ UNCHANGED <<phase, todo, other, fit, books>>

\* One round of the polls: the process is gone, or something answers, or not yet.
StartFails(s) ==
  /\ Running /\ trying = s
  /\ \/ child[s] = "dead"
     \/ child[s] = "coming" /\ ~other[s] /\ ~fit[s] /\ polls = 1
  /\ child' = [child EXCEPT ![s] = Ended(@)]
  /\ RecordFailure(s)
  /\ Done(s)
  /\ UNCHANGED <<other, fit>>

\* A fit program answers in the last round if it has not done so before.
StartWorks(s) ==
  /\ Running /\ trying = s
  /\ \/ (child[s] = "up" \/ (child[s] = "coming" /\ other[s])) /\ UNCHANGED child
     \/ child[s] = "coming" /\ fit[s] /\ polls = 1 /\ child' = [child EXCEPT ![s] = "up"]
  /\ retryIn' = [retryIn EXCEPT ![s] = 0] /\ attempts' = [attempts EXCEPT ![s] = 0]
  /\ fails' = [fails EXCEPT ![s] = {}] /\ openIn' = [openIn EXCEPT ![s] = 0]
  /\ Done(s)
  /\ UNCHANGED <<other, fit>>

NotYet(s) ==
  /\ Running /\ trying = s
  /\ child[s] = "coming" /\ ~other[s] /\ polls > 1
  /\ polls' = polls - 1
  /\ UNCHANGED <<phase, todo, trying, health, books>>

\* stop(): the monitor is cancelled wherever it waits, every process ended.
SupStop ==
  /\ phase \notin {"off", "stopped", "dead"}
  /\ phase' = "stopped" /\ todo' = {} /\ trying' = NoService /\ polls' = 0
  /\ child' = Clear("none")
  /\ UNCHANGED <<other, fit, books>>

\* The gateway is killed, or stop() raises what the monitor died of before it
\* has ended a process: what was started lives on, and to the supervisor of
\* the next gateway it is somebody else's.
Killed ==
  /\ phase \notin {"off", "stopped"}
  /\ phase' = "off" /\ todo' = {} /\ trying' = NoService /\ polls' = 0
  /\ other' = [s \in Services |-> other[s] \/ child[s] = "up"]
  /\ child' = Clear("none")
  /\ retryIn' = Clear(0) /\ attempts' = Clear(0) /\ fails' = Clear({}) /\ openIn' = Clear(0)
  /\ UNCHANGED fit

-----------------------------------------------------------------------------
\* What the sidecars and the machine do.
ComesUp(s) ==
  /\ child[s] = "coming" /\ fit[s]
  /\ child' = [child EXCEPT ![s] = "up"]
  /\ UNCHANGED <<phase, todo, trying, polls, other, fit, books>>

Fails(s) ==
  /\ Alive(child[s]) /\ ~fit[s]
  /\ \E c \in {"coming", "dead"} : c # child[s] /\ child' = [child EXCEPT ![s] = c]
  /\ UNCHANGED <<phase, todo, trying, polls, other, fit, books>>

Change(s) ==
  /\ \/ fit' = [fit EXCEPT ![s] = ~@] /\ UNCHANGED other
     \/ other' = [other EXCEPT ![s] = ~@] /\ UNCHANGED fit
  /\ UNCHANGED <<phase, todo, trying, polls, child, books>>

Less(n) == IF n > 0 THEN n - 1 ELSE 0
Older(ages) == {a + 1 : a \in ages} \cap (0 .. Window)

Tick ==
  /\ retryIn' = [s \in Services |-> Less(retryIn[s])]
  /\ openIn' = [s \in Services |-> Less(openIn[s])]
  /\ fails' = [s \in Services |-> Older(fails[s])]
  /\ UNCHANGED <<phase, todo, trying, polls, health, attempts>>

Watch == NextPass \/ \E s \in Services :
  \/ Wait(s) \/ Answers(s) \/ CannotLaunch(s) \/ Launch(s)
  \/ StartFails(s) \/ StartWorks(s) \/ NotYet(s)

SupNext ==
  \/ SupStart
  \/ Watch
  \/ \E s \in Services : PopenRaises(s) \/ ComesUp(s) \/ Fails(s) \/ Change(s)
  \/ SupStop
  \/ Killed
  \/ Tick

\* The monitor is a task of the gateway's loop, which runs what is ready, and
\* time passes.
SupFairness == WF_supVars(Watch) /\ WF_supVars(Tick)

SupSpec == SupInit /\ [][SupNext]_supVars /\ SupFairness

-----------------------------------------------------------------------------
\* The shapes of the state.
SupTypeOK ==
  /\ phase \in PhaseNames
  /\ todo \subseteq Services
  /\ trying \in Services \cup {NoService}
  /\ polls \in 0 .. Polls
  /\ child \in [Services -> {"none", "coming", "up", "dead"}]
  /\ other \in [Services -> BOOLEAN] /\ fit \in [Services -> BOOLEAN]
  /\ retryIn \in [Services -> 0 .. MaxDelay]
  /\ attempts \in [Services -> 0 .. 6]
  /\ fails \in [Services -> Ages]
  /\ openIn \in [Services -> 0 .. OpenFor]

\* While a backoff or a circuit keeps the supervisor from looking at a service
\* there is no process of it, as the status that is then written says.
WaitingHasNoChild ==
  \A s \in Services : ~MayTry(s) => ~Alive(child[s])

\* The circuit does its work across backoffs, polls and successes: unless it
\* is shorter than the window, no window sees more failed starts than the
\* threshold (two, when the threshold is one).
StartFailuresBounded ==
  OpenFor >= Window =>
    \A s \in Services :
      Cardinality(fails[s]) <= IF Threshold = 1 THEN 2 ELSE Threshold

\* A sidecar that is fit for good is up again and again, whatever failures,
\* backoffs and open circuits came before, unless the supervisor has ended.
SidecarComesUp ==
  \A s \in Services :
    <>[]fit[s] => []<>(child[s] = "up" \/ other[s] \/ ~Running)
=============================================================================
