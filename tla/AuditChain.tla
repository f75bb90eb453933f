----------------------------- MODULE AuditChain -----------------------------
(***************************************************************************)
(* zen_claw/observability/audit.py: every tool call, inbound message and    *)
(* approval becomes a record in the file of the day.  A record carries the  *)
(* hash of the one before it, which audit_turn reads from the file before   *)
(* it waits; the record is appended later, by a thread, under the lock of   *)
(* its sink.  Each AgentLoop and each ApprovalGate has a worker of its own. *)
(*                                                                         *)
(* Abstractions: a record is its number, which stands for its hash; the     *)
(* external sinks and the signatures are left out; the path of a record is  *)
(* computed in the step in which its hash is read or in a later one.        *)
(***************************************************************************)
EXTENDS Integers, Sequences

CONSTANTS
  Workers,    \* AuditWorkers on one data directory
  MaxRecords, \* bound: records
  MaxDay      \* bound: days

ASSUME AuditAssumption == MaxRecords \in Nat /\ MaxDay \in Nat \ {0}

VARIABLES
  log,    \* the file of each day: records, and lines that cannot be read
  day,    \* the UTC day
  rec,    \* each record on its way: step, worker, prev_hash, the day of its path
  made,   \* records made
  alone,  \* history: records that no other one, and no midnight, has met on its way
  torn    \* history: days whose file ends in the part of a line

auditVars == <<log, day, rec, made, alone, torn>>

Days == 1 .. MaxDay
Records == 1 .. MaxRecords
NoHash == 0
NoWorker == ""
Garbage == [id |-> -1, prev |-> NoHash]
OnItsWay == {r \in Records : rec[r].step \in {"hashed", "queued"}}

AuditInit ==
  /\ log = [d \in Days |-> << >>]
  /\ day = 1
  /\ rec = [r \in Records |-> [step |-> "none", worker |-> NoWorker, prev |-> NoHash, path |-> 1]]
  /\ made = 0
  /\ alone = {}
  /\ torn = {}

-----------------------------------------------------------------------------
\* Mutant of PrevHash: the lines are not read backwards.
PrevHashFirst(file) ==
  IF file = << >> \/ file[1] = Garbage THEN NoHash ELSE file[1].id

\* _get_prev_hash: nothing, when the last line cannot be read.
PrevHash(file) ==
  IF file = << >> \/ file[Len(file)] = Garbage THEN NoHash ELSE file[Len(file)].id

\* audit_turn, up to its wait.
MakeRecord(w) ==
  /\ made < MaxRecords /\ made' = made + 1
  /\ rec' = [rec EXCEPT ![made + 1] =
              [step |-> "hashed", worker |-> w, prev |-> PrevHash(log[day]), path |-> day]]
  /\ alone' = IF OnItsWay = {} THEN alone \cup {made + 1} ELSE alone \ OnItsWay
  /\ UNCHANGED <<log, day, torn>>

\* emit asks for the path and for the lock; records of a worker queue in order.
Queue(r) ==
  /\ rec[r].step = "hashed"
  /\ \A q \in Records : q < r /\ rec[q].worker = rec[r].worker => rec[q].step # "hashed"
  /\ rec' = [rec EXCEPT ![r].step = "queued", ![r].path = day]
  /\ UNCHANGED <<log, day, made, alone, torn>>

Ends(r) == rec' = [rec EXCEPT ![r].step = "over"]
Line(r) == [id |-> r, prev |-> rec[r].prev]

\* The lock is fair.
HasLock(r) ==
  \A q \in Records : q < r /\ rec[q].worker = rec[r].worker => rec[q].step # "queued"

\* _append; after the part of a line there is no new one.
WriteLine(r) ==
  /\ rec[r].step = "queued" /\ HasLock(r)
  /\ LET d == rec[r].path IN
       /\ log' = [log EXCEPT ![d] = IF d \in torn THEN @ ELSE Append(@, Line(r))]
       /\ torn' = torn \ {d}
  /\ Ends(r)
  /\ UNCHANGED <<day, made, alone>>

\* The append fails, or the process ends, before or in the middle of the line.
LoseLine(r) ==
  /\ rec[r].step \in {"hashed", "queued"}
  /\ Ends(r)
  /\ \/ UNCHANGED <<log, torn>>
     \/ /\ rec[r].step = "queued" /\ HasLock(r) /\ rec[r].path \notin torn
        /\ log' = [log EXCEPT ![rec[r].path] = Append(@, Garbage)]
        /\ torn' = torn \cup {rec[r].path}
  /\ UNCHANGED <<day, made, alone>>

Midnight ==
  /\ day < MaxDay
  /\ day' = day + 1
  /\ alone' = alone \ OnItsWay
  /\ UNCHANGED <<log, rec, made, torn>>

AuditNext ==
  \/ \E w \in Workers : MakeRecord(w)
  \/ \E r \in Records : Queue(r) \/ WriteLine(r) \/ LoseLine(r)
  \/ Midnight

AuditSpec == AuditInit /\ [][AuditNext]_auditVars

-----------------------------------------------------------------------------
\* The shapes of the state.
AuditTypeOK ==
  /\ \A d \in Days : \A i \in DOMAIN log[d] :
       log[d][i] = Garbage \/ (log[d][i].id \in Records /\ log[d][i].prev \in {NoHash} \cup Records)
  /\ day \in Days
  /\ made \in 0 .. MaxRecords
  /\ alone \subseteq Records /\ torn \subseteq Days

\* verify_audit_log: what breaks the chain at line i.
BrokenAt(file, i) ==
  \/ file[i] = Garbage
  \/ file[i].prev # IF i = 1 THEN NoHash ELSE file[i - 1].id

\* The chain breaks only where a line was torn, after such a line, or at a
\* record that met another one or a midnight between its hash and its line; a
\* record that was alone extends the chain, whatever was lost before.
ChainBreaksOnlyOnOverlap ==
  \A d \in Days : \A i \in DOMAIN log[d] :
    BrokenAt(log[d], i) =>
      log[d][i] = Garbage \/ log[d][i].id \notin alone \/ (i > 1 /\ log[d][i - 1] = Garbage)
=============================================================================
