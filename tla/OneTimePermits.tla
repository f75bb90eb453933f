---------------------------- MODULE OneTimePermits ----------------------------
(***************************************************************************)
(* What an approval gate promises: a permit is asked for, granted or        *)
(* refused once, and a granted one is good for one execution, which         *)
(* consumes it (docs/architecture-and-design-principles.md, 4.7).  All that  *)
(* are not used may be lost, and a lost one is good for nothing.            *)
(***************************************************************************)
EXTENDS Integers

CONSTANT Ids

VARIABLES
  permit,   \* what has become of each permit
  uses      \* executions each one was good for

Init ==
  /\ permit = [i \in Ids |-> "none"]
  /\ uses = [i \in Ids |-> 0]

Becomes(i, from, to) ==
  /\ permit[i] = from
  /\ permit' = [permit EXCEPT ![i] = to]

Ask(i) == Becomes(i, "none", "asked") /\ UNCHANGED uses
Grant(i) == Becomes(i, "asked", "granted") /\ UNCHANGED uses
Refuse(i) == Becomes(i, "asked", "refused") /\ UNCHANGED uses
Use(i) == Becomes(i, "granted", "used") /\ uses' = [uses EXCEPT ![i] = @ + 1]

\* Many permits may lapse together.
Lapse(S) ==
  /\ \A i \in S : permit[i] = "asked"
  /\ permit' = [i \in Ids |-> IF i \in S THEN "refused" ELSE permit[i]]
  /\ UNCHANGED uses

Lose ==
  /\ permit' = [i \in Ids |-> IF permit[i] \in {"asked", "granted", "refused"} THEN "lost"
                                                                     ELSE permit[i]]
  /\ UNCHANGED uses

Next ==
  \/ \E i \in Ids : Ask(i) \/ Grant(i) \/ Refuse(i) \/ Use(i)
  \/ \E S \in SUBSET Ids : Lapse(S)
  \/ Lose

Spec == Init /\ [][Next]_<<permit, uses>>
=============================================================================
