----------------------------- MODULE ApprovalGate -----------------------------
(***************************************************************************)
(* zen_claw/agent/approval_gate.py as agent/loop.py uses it.  Every         *)
(* AgentLoop has a gate of its own: the gateway's default loop, each loop   *)
(* of the agent pool, the loops of the command line and the dashboard.  All *)
(* of them keep their records in memory, read approvals/pending.json when   *)
(* they are created and overwrite it with every change.  The methods do not *)
(* await before they save, so each is one action.                           *)
(*                                                                         *)
(* Abstractions: a call stands for the session, the tool and its arguments, *)
(* all that consume_approved compares; the other fields of a record, the    *)
(* notification and the audit trail are left out.                           *)
(***************************************************************************)
EXTENDS Integers

CONSTANTS
  Gates,      \* agent loops that have a gate on the file
  Ids,        \* approval ids, each handed out once (uuid4)
  Calls,      \* sensitive calls: session, tool, arguments
  TTL,        \* ttl_seconds
  MaxClock    \* bound: the clock

ASSUME GateAssumption == TTL \in Nat /\ MaxClock \in Nat

VARIABLES
  up,        \* the gates whose loops exist
  mem,       \* _pending of each gate
  disk,      \* approvals/pending.json
  now,
  used,      \* history: ids handed out
  granted,   \* history: ids somebody approved
  execs      \* history: executions each id has permitted

gateVars == <<up, mem, disk, now, used, granted, execs>>

Status == {"pending", "approved", "denied", "expired"}
Approval == [call: Calls, status: Status, created: Nat]
IsBook(b) == DOMAIN b \subseteq Ids /\ b \in [DOMAIN b -> Approval]

GateInit ==
  /\ up = {}
  /\ mem = [g \in Gates |-> << >>]
  /\ disk = << >>
  /\ now = 0
  /\ used = {}
  /\ granted = {}
  /\ execs = [i \in Ids |-> 0]

-----------------------------------------------------------------------------
Save(g, book) ==
  /\ mem' = [mem EXCEPT ![g] = book]
  /\ disk' = book

Load(g) ==
  /\ g \notin up
  /\ up' = up \cup {g}
  /\ mem' = [mem EXCEPT ![g] = disk]
  /\ UNCHANGED <<disk, now, used, granted, execs>>

\* The end of the process of the loop, or its crash.
Exit(g) ==
  /\ g \in up
  /\ up' = up \ {g}
  /\ mem' = [mem EXCEPT ![g] = << >>]
  /\ UNCHANGED <<disk, now, used, granted, execs>>

\* The process ends in the middle of a _save: what it leaves of the file is not
\* read by any later _load.
SaveCut(g) ==
  /\ g \in up
  /\ up' = up \ {g}
  /\ mem' = [mem EXCEPT ![g] = << >>]
  /\ disk' = << >>
  /\ UNCHANGED <<now, used, granted, execs>>

\* Mutant of Matching: a request that waits for its decision is good enough.
MatchingUndecided(book, c) ==
  {i \in DOMAIN book : book[i].status \in {"approved", "pending"} /\ book[i].call = c}

Matching(book, c) ==
  {i \in DOMAIN book : book[i].status = "approved" /\ book[i].call = c}

Requested(book, i, c) ==
  [k \in DOMAIN book \cup {i} |->
     IF k = i THEN [call |-> c, status |-> "pending", created |-> now] ELSE book[k]]

Consumed(book, i) == [k \in DOMAIN book \ {i} |-> book[k]]

Decided(book, i, status) == [book EXCEPT ![i].status = status]

\* A turn comes to a sensitive call that no approved record matches.
Request(g, c, i) ==
  /\ g \in up /\ i \notin used
  /\ Matching(mem[g], c) = {}
  /\ Save(g, Requested(mem[g], i, c))
  /\ used' = used \cup {i}
  /\ UNCHANGED <<up, now, granted, execs>>

\* Mutant of Consume: the file still holds the record.
ConsumeUnsaved(g, c) ==
  /\ g \in up
  /\ \E i \in Matching(mem[g], c) :
       /\ mem' = [mem EXCEPT ![g] = Consumed(mem[g], i)]
       /\ execs' = [execs EXCEPT ![i] = @ + 1]
  /\ UNCHANGED <<up, disk, now, used, granted>>

\* It comes to one that records match: the first of them in the order of the
\* dictionary, here any, is removed and the call goes on.
Consume(g, c) ==
  /\ g \in up
  /\ \E i \in Matching(mem[g], c) :
       /\ Save(g, Consumed(mem[g], i))
       /\ execs' = [execs EXCEPT ![i] = @ + 1]
  /\ UNCHANGED <<up, now, used, granted>>

\* "/approve id" and "/deny id", from any session of the loop.
Decide(g, i, status) ==
  /\ g \in up /\ i \in DOMAIN mem[g]
  /\ mem[g][i].status = "pending"
  /\ Save(g, Decided(mem[g], i, status))
  /\ granted' = IF status = "approved" THEN granted \cup {i} ELSE granted
  /\ UNCHANGED <<up, now, used, execs>>

\* get and list_pending, which only the tests call: _expire_old.
TooOld(r) == r.status = "pending" /\ now - r.created > TTL

Expired(book) ==
  [i \in DOMAIN book |-> IF TooOld(book[i]) THEN [book[i] EXCEPT !.status = "expired"]
                                            ELSE book[i]]

List(g) ==
  /\ g \in up
  /\ \E i \in DOMAIN mem[g] : TooOld(mem[g][i])
  /\ Save(g, Expired(mem[g]))
  /\ UNCHANGED <<up, now, used, granted, execs>>

GateClock ==
  /\ now < MaxClock
  /\ now' = now + 1
  /\ UNCHANGED <<up, mem, disk, used, granted, execs>>

GateNext ==
  \/ \E g \in Gates :
       \/ Load(g)
       \/ Exit(g) \/ SaveCut(g)
       \/ \E c \in Calls : Consume(g, c) \/ \E i \in Ids : Request(g, c, i)
       \/ \E i \in Ids : \E status \in {"approved", "denied"} : Decide(g, i, status)
       \/ List(g)
  \/ GateClock

GateSpec == GateInit /\ [][GateNext]_gateVars

-----------------------------------------------------------------------------
\* The shapes of the state.
GateTypeOK ==
  /\ up \subseteq Gates
  /\ mem = [g \in Gates |-> mem[g]]
  /\ \A g \in Gates : IsBook(mem[g])
  /\ IsBook(disk)
  /\ now \in Nat
  /\ used \subseteq Ids /\ granted \subseteq used
  /\ execs \in [Ids -> Nat]

\* A sensitive call is executed only by virtue of a record that somebody
\* approved, whatever gates share the file, restart and overwrite each other.
NoExecutionUnapproved == \A i \in Ids : execs[i] > 0 => i \in granted

\* With one gate, requests, decisions, expiry, executions, restarts and saves
\* cut short make it a source of one-time permits: decisions stand, and an
\* approval permits one execution, in this life of the process or a later one.
PermitOf(i) ==
  IF i \in DOMAIN disk
  THEN CASE disk[i].status = "pending" -> "asked"
         [] disk[i].status = "approved" -> "granted"
         [] OTHER -> "refused"
  ELSE CASE i \notin used -> "none"
         [] i \in used /\ execs[i] > 0 -> "used"
         [] OTHER -> "lost"

Permits == INSTANCE OneTimePermits WITH permit <- [i \in Ids |-> PermitOf(i)], uses <- execs

ImplementsPermits == Permits!Spec

\* docs/architecture-and-design-principles.md, 4.7, has an approval consumed by
\* the execution it matches, so that it is not reused: with any gates on the
\* file, an approval permits one execution at most.
UsedOnce == \A i \in Ids : execs[i] <= 1
=============================================================================
