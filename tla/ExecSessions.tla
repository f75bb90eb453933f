----------------------------- MODULE ExecSessions -----------------------------
(***************************************************************************)
(* The background sessions of the execution sidecar (go/sec-execd/main.go):  *)
(* every session has a goroutine that builds, starts and waits for its       *)
(* command, two more that read its output, a context that ends with the      *)
(* timeout, and the HTTP handlers that come in between, each a goroutine     *)
(* of its own.  They share a record under a mutex; the map of the sessions    *)
(* has one of its own.                                                      *)
(*                                                                         *)
(* Abstractions: the output is a sequence of units, each the n-th of its     *)
(* stream; of the clock there is whether a session is past its timeout and   *)
(* whether it has been finished for longer than the retention; approval      *)
(* tokens, signatures, directories and window sizes are left out, and so is  *)
(* the input of the command, which it may or may not read.                   *)
(***************************************************************************)
EXTENDS Integers, SequencesExt

CONSTANTS
  Execs,      \* the ids a sidecar hands out, s-1, s-2, ...
  Owners,     \* security contexts
  MaxKept,    \* SEC_EXECD_MAX_OUTPUT_BYTES
  PerStream   \* bound: units that a command writes to a stream

ASSUME ExecAssumption == MaxKept \in Nat \ {0} /\ PerStream \in Nat

VARIABLES
  listed, \* ids in sessionManager.sessions
  session,    \* sessionRecord
  task,   \* the goroutines of each session
  cmd,    \* its command, pipes and context
  told    \* history: sessions of which a client has heard that it is killed

execVars == <<listed, session, task, cmd, told>>

Streams == {"stdout", "stderr"}
NoOutput == [st \in Streams |-> << >>]
Final == {"done", "failed", "timeout", "killed"}

NoRecord == [status |-> "none", out |-> << >>, truncated |-> FALSE, kill |-> FALSE]
NoTask == [step |-> "none", reading |-> {}, hand |-> NoOutput]
NoCommand ==
  [child |-> "none", helper |-> FALSE, open |-> FALSE, ctx |-> "none", pipe |-> NoOutput,
   wrote |-> [st \in Streams |-> 0], expired |-> FALSE, aged |-> FALSE, owner |-> "none"]

ExecInit ==
  /\ listed = {} /\ told = {}
  /\ session = [s \in Execs |-> NoRecord]
  /\ task = [s \in Execs |-> NoTask]
  /\ cmd = [s \in Execs |-> NoCommand]

-----------------------------------------------------------------------------
IsRunning(s) == session[s].status = "running"

\* gcExpiredLocked
Collected == {s \in listed : session[s].status \in Final /\ cmd[s].aged}

\* enforceSessionOwner
MayUse(o, s) == cmd[s].owner = o /\ ~cmd[s].expired

StartSession(o, s) ==
  /\ session[s] = NoRecord
  /\ listed' = (listed \ Collected) \cup {s}
  /\ session' = [session EXCEPT ![s].status = "running"]
  /\ task' = [task EXCEPT ![s].step = "building"]
  /\ cmd' = [cmd EXCEPT ![s].ctx = "open", ![s].owner = o]
  /\ UNCHANGED told

\* list, get, read, write and resize: what they change here is the map.
Look ==
  /\ listed # {}
  /\ listed' = listed \ Collected
  /\ UNCHANGED <<session, task, cmd, told>>

Cancelled(s) == [cmd EXCEPT ![s].ctx = IF @ = "open" THEN "cancelled" ELSE @]

\* Mutant of KillSession: it cancels the context and leaves no mark.
KillSessionUnmarked(o, s) ==
  /\ s \in listed /\ MayUse(o, s) /\ IsRunning(s)
  /\ cmd' = Cancelled(s)
  /\ told' = told \cup {s}
  /\ UNCHANGED <<listed, session, task>>

KillSession(o, s) ==
  /\ s \in listed /\ MayUse(o, s) /\ IsRunning(s)
  /\ session' = [session EXCEPT ![s].kill = TRUE]
  /\ cmd' = Cancelled(s)
  /\ told' = told \cup {s}
  /\ UNCHANGED <<listed, task>>

\* The command is in the record once its pipes are read.
Attached(s) == task[s].step \in {"waiting", "draining"}

\* signal "terminate" or "kill": the mark is set before the signal is sent,
\* which fails when the process is being waited for or has been.
SignalSession(o, s) ==
  /\ s \in listed \ Collected /\ MayUse(o, s) /\ IsRunning(s) /\ Attached(s)
  /\ listed' = listed \ Collected
  /\ session' = [session EXCEPT ![s].kill = TRUE]
  /\ cmd' = [cmd EXCEPT ![s].child = IF @ = "alive" THEN "ended" ELSE @]
  /\ \/ task[s].step = "waiting" /\ told' = told \cup {s}
     \/ cmd[s].child # "alive" /\ UNCHANGED told
  /\ UNCHANGED task

-----------------------------------------------------------------------------
(* The goroutine of a session *)
Settle(s, status) ==
  /\ session' = [session EXCEPT ![s].status = status]
  /\ task' = [task EXCEPT ![s].step = "over"]

\* There is no pseudo terminal, or no pipe.
BuildFails(s) ==
  /\ task[s].step = "building"
  /\ Settle(s, "failed")
  /\ UNCHANGED <<listed, cmd, told>>

\* cmd.Start: refused when the context is over already.
SpawnFails(s) ==
  /\ task[s].step = "building"
  /\ Settle(s, IF session[s].kill \/ cmd[s].ctx = "cancelled" THEN "killed" ELSE "failed")
  /\ UNCHANGED <<listed, cmd, told>>

Spawns(s) ==
  /\ task[s].step = "building" /\ cmd[s].ctx = "open"
  /\ task' = [task EXCEPT ![s].step = "started"]
  /\ cmd' = [cmd EXCEPT ![s].child = "alive", ![s].open = TRUE]
  /\ UNCHANGED <<listed, session, told>>

\* The record gets the command; two goroutines begin to read.
Attach(s) ==
  /\ task[s].step = "started"
  /\ task' = [task EXCEPT ![s].step = "waiting", ![s].reading = Streams]
  /\ UNCHANGED <<listed, session, cmd, told>>

\* A reader gets some of what there is.
Reads(s, st) ==
  /\ st \in task[s].reading /\ task[s].hand[st] = << >> /\ cmd[s].open
  /\ \E k \in 1 .. Len(cmd[s].pipe[st]) :
       /\ task' = [task EXCEPT ![s].hand[st] = SubSeq(cmd[s].pipe[st], 1, k)]
       /\ cmd' = [cmd EXCEPT ![s].pipe[st] = SubSeq(@, k + 1, Len(@))]
  /\ UNCHANGED <<listed, session, told>>

Room(s) == MaxKept - Len(session[s].out)

\* appendOutput
Kept(s, chunk) ==
  IF session[s].truncated THEN session[s]
  ELSE IF Len(chunk) > Room(s)
       THEN [session[s] EXCEPT !.out = @ \o SubSeq(chunk, 1, Room(s)), !.truncated = TRUE]
       ELSE [session[s] EXCEPT !.out = @ \o chunk]

Keeps(s, st) ==
  /\ task[s].hand[st] # << >>
  /\ session' = [session EXCEPT ![s] = Kept(s, task[s].hand[st])]
  /\ task' = [task EXCEPT ![s].hand[st] = << >>]
  /\ UNCHANGED <<listed, cmd, told>>

\* A reader is at the end, or its pipe has been closed under it.
StopsReading(s, st) ==
  /\ st \in task[s].reading /\ task[s].hand[st] = << >>
  /\ \/ ~cmd[s].open
     \/ cmd[s].pipe[st] = << >> /\ cmd[s].child # "alive" /\ ~cmd[s].helper
  /\ task' = [task EXCEPT ![s].reading = @ \ {st}]
  /\ UNCHANGED <<listed, session, cmd, told>>

\* Mutant of WaitReturns: the readers are waited for first, as the
\* documentation of StdoutPipe asks.
WaitReturnsDrained(s) ==
  /\ task[s].step = "waiting" /\ cmd[s].child # "alive" /\ task[s].reading = {}
  /\ task' = [task EXCEPT ![s].step = "draining"]
  /\ cmd' = [cmd EXCEPT ![s].open = FALSE, ![s].helper = FALSE,
                        ![s].pipe = NoOutput]
  /\ UNCHANGED <<listed, session, told>>

\* cmd.Wait closes the pipes once the process has ended: what nobody has read
\* by then is lost.
WaitReturns(s) ==
  /\ task[s].step = "waiting" /\ cmd[s].child # "alive"
  /\ task' = [task EXCEPT ![s].step = "draining"]
  /\ cmd' = [cmd EXCEPT ![s].open = FALSE, ![s].helper = FALSE,
                        ![s].pipe = NoOutput]
  /\ UNCHANGED <<listed, session, told>>

Outcome(s) ==
  IF cmd[s].ctx = "deadline" THEN "timeout"
  ELSE IF session[s].kill THEN "killed"
  ELSE IF cmd[s].child = "zero" THEN "done" ELSE "failed"

\* Mutant of Concludes: the readers are not waited for.
ConcludesAtOnce(s) ==
  /\ task[s].step = "draining"
  /\ Settle(s, Outcome(s))
  /\ UNCHANGED <<listed, cmd, told>>

\* wg.Wait is over.
Concludes(s) ==
  /\ task[s].step = "draining" /\ task[s].reading = {}
  /\ Settle(s, Outcome(s))
  /\ UNCHANGED <<listed, cmd, told>>

-----------------------------------------------------------------------------
(* The operating system and the clock *)

\* The command writes, or a process that it has left behind.
Writes(s, st) ==
  /\ cmd[s].open /\ (cmd[s].child = "alive" \/ cmd[s].helper)
  /\ cmd[s].wrote[st] < PerStream
  /\ cmd' = [cmd EXCEPT ![s].wrote[st] = @ + 1,
                        ![s].pipe[st] = Append(@, <<st, cmd[s].wrote[st] + 1>>)]
  /\ UNCHANGED <<listed, session, task, told>>

Exits(s, how) ==
  /\ cmd[s].child = "alive"
  /\ cmd' = [cmd EXCEPT ![s].child = how]
  /\ UNCHANGED <<listed, session, task, told>>

\* A process that holds the pipes, and may outlive the command, comes and goes.
Helper(s) ==
  /\ cmd[s].open /\ (cmd[s].child = "alive" \/ cmd[s].helper)
  /\ cmd' = [cmd EXCEPT ![s].helper = ~@]
  /\ UNCHANGED <<listed, session, task, told>>

\* exec.CommandContext: the process is killed when the context is over.
ContextKills(s) ==
  /\ cmd[s].ctx # "open"
  /\ Exits(s, "ended")

\* ExpiresAtMs
Expires(s) ==
  /\ session[s] # NoRecord /\ ~cmd[s].expired
  /\ cmd' = [cmd EXCEPT ![s].expired = TRUE]
  /\ UNCHANGED <<listed, session, task, told>>

Deadline(s) ==
  /\ cmd[s].expired /\ cmd[s].ctx = "open" /\ task[s].step # "over"
  /\ cmd' = [cmd EXCEPT ![s].ctx = "deadline"]
  /\ UNCHANGED <<listed, session, task, told>>

\* The retention is over.
RetentionEnds(s) ==
  /\ session[s].status \in Final /\ ~cmd[s].aged
  /\ cmd' = [cmd EXCEPT ![s].aged = TRUE]
  /\ UNCHANGED <<listed, session, task, told>>

\* The goroutines of a session, and its clock.
Runner(s) ==
  BuildFails(s) \/ SpawnFails(s) \/ Spawns(s) \/ Attach(s) \/ WaitReturns(s) \/ Concludes(s)

Reader(s, st) == Reads(s, st) \/ Keeps(s, st) \/ StopsReading(s, st)

Clock(s) == Expires(s) \/ Deadline(s)

ExecNext ==
  \/ Look
  \/ \E s \in Execs :
       \/ \E o \in Owners : StartSession(o, s) \/ KillSession(o, s) \/ SignalSession(o, s)
       \/ Runner(s)
       \/ \E st \in Streams : Reader(s, st) \/ Writes(s, st)
       \/ \E how \in {"zero", "ended"} : Exits(s, how)
       \/ Helper(s) \/ ContextKills(s) \/ Clock(s) \/ RetentionEnds(s)

\* Goroutines that can go on do, a kill arrives and time passes; a command may
\* run for as long as it is let, and a process it leaves behind for good.
ExecFairness ==
  \A s \in Execs :
    /\ WF_execVars(Runner(s)) /\ \A st \in Streams : WF_execVars(Reader(s, st))
    /\ WF_execVars(ContextKills(s)) /\ WF_execVars(Clock(s))

ExecSpec == ExecInit /\ [][ExecNext]_execVars /\ ExecFairness

-----------------------------------------------------------------------------
Units == Streams \X (1 .. PerStream)

\* The shapes of the state.
ExecTypeOK ==
  /\ listed \subseteq Execs /\ told \subseteq Execs
  /\ session \in [Execs -> [status: Final \cup {"none", "running"}, out: Seq(Units),
                        truncated: BOOLEAN, kill: BOOLEAN]]
  /\ task \in [Execs ->
       [step: {"none", "building", "started", "waiting", "draining", "over"},
        reading: SUBSET Streams, hand: [Streams -> Seq(Units)]]]
  /\ cmd \in [Execs ->
       [child: {"none", "alive", "zero", "ended"}, helper: BOOLEAN, open: BOOLEAN,
        ctx: {"none", "open", "cancelled", "deadline"}, pipe: [Streams -> Seq(Units)],
        wrote: [Streams -> 0 .. PerStream], expired: BOOLEAN, aged: BOOLEAN,
        owner: Owners \cup {"none"}]]

\* A client that has heard that its session is killed does not find it done,
\* nor failed if its command ever ran, whatever the command did meanwhile.
KillIsKept ==
  \A s \in told :
    session[s].status \in {"running", "killed", "timeout"}
      \/ (session[s].status = "failed" /\ cmd[s].child = "none")

\* A session ends once, and what it then says of itself stays, its output
\* included; until then the output only grows, so that a cursor remains good.
SettledForGood ==
  [][\A s \in Execs :
       /\ session[s].status \in Final => session'[s] = session[s]
       /\ IsPrefix(session[s].out, session'[s].out)]_execVars

\* Every session ends, by its timeout at the latest, even when a process that
\* its command has left behind keeps the pipes.
SessionsEnd == \A s \in Execs : []<>(~IsRunning(s))
===============================================================================
