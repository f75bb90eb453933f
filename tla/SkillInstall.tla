----------------------------- MODULE SkillInstall -----------------------------
(***************************************************************************)
(* How agent/skills.py puts a skill into the workspace: every way in (a     *)
(* directory, a zip, a registry snapshot, the staging area) ends in         *)
(* _install_skill_tree, which writes the skill down in a journal, copies    *)
(* the tree and crosses the skill out; a SkillsLoader that is created       *)
(* deletes what the journal still names.  Every agent loop, every command   *)
(* and nearly every request of the dashboard creates one, in processes that *)
(* share nothing but the files, so the steps below are one file operation   *)
(* each.                                                                   *)
(*                                                                         *)
(* Abstractions: the layout with one directory per skill, which is the      *)
(* default; the checks of the source, which come before anything is         *)
(* written; the mapping file, which is a cache of the directories.  A write *)
(* of the journal may be cut short by the end of the process or fail        *)
(* half-way; one of the state file is done or not done.                     *)
(***************************************************************************)
EXTENDS Integers, FiniteSets

CONSTANTS
  Loaders,    \* SkillsLoaders that may be at work at once
  Skills,
  MaxInstalls \* bound: installs begun

VARIABLES
  dir,       \* workspace/skills: absent, partial (a copy cut short), whole, torn
  journal,   \* the names in the journal
  off,       \* the disabled names in the state file
  at,        \* what each loader is doing
  installs,  \* installs begun
  lost,      \* history: names a journal write that was cut short took with it,
             \* not written down again since
  trouble,   \* history: two loaders at once, or a file operation failed unseen
  installed  \* history: installs reported done, not overwritten or removed since

skillVars == <<dir, journal, lost, off, at, installs, trouble, installed>>

At(step, n, over, seen) == [step |-> step, skill |-> n, over |-> over, seen |-> seen]
Resting == [step |-> "idle"]
Down == [step |-> "down"]
InstallSteps == {"add", "copy", "copying", "enable", "remove"}

SkillInit ==
  /\ dir = [n \in Skills |-> "absent"]
  /\ journal = {} /\ lost = {} /\ off = {}
  /\ at = [l \in Loaders |-> Down]
  /\ installs = 0
  /\ trouble = FALSE
  /\ installed = {}

-----------------------------------------------------------------------------
Alone(l) == \A m \in Loaders \ {l} : at[m] \in {Resting, Down}
Continues(l, to) == at' = [at EXCEPT ![l] = to]
MovesTo(l, step) == Continues(l, [at[l] EXCEPT !.step = step])
Noted(l, failed) == trouble' = (trouble \/ failed \/ ~Alone(l))

\* The constructor: the journal is read and, unless it is empty, worked off.
Construct(l) ==
  /\ at[l] \in {Resting, Down}
  /\ Continues(l, IF journal = {} THEN Resting ELSE [step |-> "recover", seen |-> journal])
  /\ Noted(l, FALSE)
  /\ UNCHANGED <<dir, journal, lost, off, installs, installed>>

\* _journal_recovery: rmtree, which ignores errors, ...
RecoverTree(l, n) ==
  /\ at[l].step = "recover" /\ n \in at[l].seen
  /\ Continues(l, [at[l] EXCEPT !.seen = @ \ {n}])
  /\ \/ dir' = [dir EXCEPT ![n] = "absent"] /\ Noted(l, FALSE)
     \/ dir[n] # "absent" /\ UNCHANGED dir /\ Noted(l, TRUE)
  /\ UNCHANGED <<journal, lost, off, installs, installed>>

\* What a write of the journal leaves that fails or is cut short: _save_journal
\* is a plain write_text, which empties the file first, and _load_journal reads
\* what it cannot parse as an empty journal.
CutShort == journal' \in {journal, {}}

\* ... and an empty journal.  Errors of the write are swallowed.
RecoverDone(l) ==
  /\ at[l].step = "recover" /\ at[l].seen = {}
  /\ Continues(l, Resting)
  /\ \/ journal' = {} /\ Noted(l, FALSE)
     \/ CutShort /\ Noted(l, TRUE)
  /\ UNCHANGED <<dir, lost, off, installs, installed>>

\* _install_skill_tree, up to the read of _journal_add.
BeginInstall(l, n, over) ==
  /\ at[l] = Resting
  /\ dir[n] # "absent" => over
  /\ installs < MaxInstalls /\ installs' = installs + 1
  /\ Continues(l, At("add", n, over, journal))
  /\ installed' = installed \ {n}
  /\ Noted(l, FALSE)
  /\ UNCHANGED <<dir, journal, lost, off>>

\* The write of _journal_add, which swallows its errors.
JournalAdd(l) ==
  /\ at[l].step = "add"
  /\ Continues(l, [at[l] EXCEPT !.step = "copy", !.seen = {}])
  /\ \/ /\ journal' = at[l].seen \cup {at[l].skill}
        /\ lost' = lost \ {at[l].skill}
        /\ Noted(l, FALSE)
     \/ CutShort /\ UNCHANGED lost /\ Noted(l, TRUE)
  /\ UNCHANGED <<dir, off, installs, installed>>

\* copytree makes the directory, or meets one that it may not overwrite, ...
CopyBegins(l) ==
  /\ at[l].step = "copy"
  /\ dir[at[l].skill] # "absent" => at[l].over
  /\ dir' = [dir EXCEPT ![at[l].skill] = "partial"]
  /\ MovesTo(l, "copying")
  /\ Noted(l, FALSE)
  /\ UNCHANGED <<journal, lost, off, installs, installed>>

\* ... and ends, if nobody has taken the directory away.
CopyEnds(l) ==
  /\ at[l].step = "copying"
  /\ dir[at[l].skill] \in {"partial", "whole"}
  /\ dir' = [dir EXCEPT ![at[l].skill] = "whole"]
  /\ MovesTo(l, "enable")
  /\ Noted(l, FALSE)
  /\ UNCHANGED <<journal, lost, off, installs, installed>>

\* Mutant of InstallRaises: the failed install is crossed out.
InstallForgotten(l) ==
  /\ at[l].step \in {"copy", "copying", "enable"}
  /\ journal' = journal \ {at[l].skill}
  /\ Continues(l, Resting)
  /\ Noted(l, FALSE)
  /\ UNCHANGED <<dir, lost, off, installs, installed>>

\* An error in the copy or in the state file: the journal keeps the skill.  A
\* copy whose directory was taken away may have made it again.
InstallRaises(l) ==
  /\ at[l].step \in {"copy", "copying", "enable"}
  /\ \/ UNCHANGED dir
     \/ /\ at[l].step = "copying" /\ dir[at[l].skill] = "absent"
        /\ dir' = [dir EXCEPT ![at[l].skill] = "partial"]
  /\ Continues(l, Resting)
  /\ Noted(l, FALSE)
  /\ UNCHANGED <<journal, lost, off, installs, installed>>

\* set_skill_enabled, and the read of _journal_remove.
Enable(l) ==
  /\ at[l].step = "enable"
  /\ off' = IF dir[at[l].skill] = "absent" THEN off ELSE off \ {at[l].skill}
  /\ Continues(l, [at[l] EXCEPT !.step = "remove", !.seen = journal])
  /\ Noted(l, FALSE)
  /\ UNCHANGED <<dir, journal, lost, installs, installed>>

\* Mutant of CrossedOut: only other skills.
CrossedOutOthers(seen, n) == seen

CrossedOut(seen, n) == seen \ {n}

\* The write of _journal_remove, and the install is reported done.
JournalRemove(l) ==
  /\ at[l].step = "remove"
  /\ Continues(l, Resting)
  /\ \/ journal' = CrossedOut(at[l].seen, at[l].skill) /\ Noted(l, FALSE)
     \/ CutShort /\ Noted(l, TRUE)
  /\ installed' = installed \cup {at[l].skill}
  /\ UNCHANGED <<dir, lost, off, installs>>

\* uninstall_skill has no journal: a process that ends in it leaves a torn skill.
Uninstall(l, n) ==
  /\ at[l] = Resting /\ dir[n] # "absent"
  /\ \/ dir' = [dir EXCEPT ![n] = "absent"] /\ off' = off \ {n} /\ UNCHANGED at
     \/ dir' = [dir EXCEPT ![n] = "torn"] /\ Continues(l, Down) /\ UNCHANGED off
  /\ installed' = installed \ {n}
  /\ Noted(l, FALSE)
  /\ UNCHANGED <<journal, lost, installs>>

\* set_skill_enabled, by an operator.
Toggle(l, n) ==
  /\ at[l] = Resting /\ dir[n] # "absent"
  /\ off' = IF n \in off THEN off \ {n} ELSE off \cup {n}
  /\ Noted(l, FALSE)
  /\ UNCHANGED <<dir, journal, lost, at, installs, installed>>

\* The process ends, where it is or in the middle of a write of the journal: of
\* the one in "add" or "remove", which takes every earlier name with it, or of
\* the one that empties it after a recovery.
Crash(l) ==
  /\ at[l] # Down
  /\ Continues(l, Down)
  /\ \/ UNCHANGED <<journal, lost>>
     \/ at[l].step \in {"add", "remove"} /\ journal' = {} /\ lost' = lost \cup journal
     \/ at[l].step = "recover" /\ at[l].seen = {} /\ journal' = {} /\ UNCHANGED lost
  /\ UNCHANGED <<dir, off, installs, trouble, installed>>

SkillNext ==
  \E l \in Loaders :
    \/ Construct(l) \/ RecoverDone(l)
    \/ JournalAdd(l) \/ CopyBegins(l) \/ CopyEnds(l) \/ InstallRaises(l)
    \/ Enable(l) \/ JournalRemove(l) \/ Crash(l)
    \/ \E n \in Skills :
         \/ RecoverTree(l, n) \/ Uninstall(l, n) \/ Toggle(l, n)
         \/ \E over \in BOOLEAN : BeginInstall(l, n, over)

SkillSpec == SkillInit /\ [][SkillNext]_skillVars

-----------------------------------------------------------------------------
Doing ==
  {Resting, Down}
    \cup [step: {"recover"}, seen: SUBSET Skills]
    \cup [step: InstallSteps, skill: Skills, over: BOOLEAN, seen: SUBSET Skills]

\* The shapes of the state.
SkillTypeOK ==
  /\ dir \in [Skills -> {"absent", "partial", "whole", "torn"}]
  /\ journal \subseteq Skills /\ lost \subseteq Skills /\ off \subseteq Skills
  /\ at \in [Loaders -> Doing]
  /\ installs \in Nat
  /\ trouble \in BOOLEAN
  /\ installed \subseteq Skills

\* A copy that was cut short, by an error or by the end of the process, in this
\* install or an earlier one of the same skill, is in the journal, where the
\* next loader finds it (_install_skill_tree: "Journal says recovery should
\* delete partial dirs").  The one exception while loaders work one at a time
\* and nothing fails unseen: the journal is not replaced in one step, and a
\* process that ends inside a write of it loses what earlier installs left.
PartialIsJournaled ==
  ~trouble => \A n \in Skills : dir[n] = "partial" => n \in journal \cup lost

\* A skill that was reported installed is whole, and no restart takes it for a
\* copy that was cut short, until somebody overwrites or removes it.
InstalledStaysWhole ==
  ~trouble => \A n \in installed : dir[n] = "whole" /\ n \notin journal
=============================================================================
