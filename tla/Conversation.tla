---------------------------- MODULE Conversation ----------------------------
(***************************************************************************)
(* One conversation: session/manager.py keeps it in a file and in the cache *)
(* of every AgentLoop that works on the workspace (the gateway, its cron    *)
(* jobs and heartbeat in one loop; the webchat runtime; one loop for each   *)
(* request of the dashboard), agent/loop.py adds to it turn by turn, and    *)
(* agent/context_compression.py replaces its beginning by a summary when a  *)
(* turn asks the model.  A turn waits while its message is routed, while    *)
(* the summary is written, while the model thinks and while its memory is   *)
(* extracted; other turns, of the same loop too, go on in between.          *)
(*                                                                         *)
(* Abstractions: a message is its turn and its role; a summary is the set   *)
(* of messages it was made from; whether the token budget is exceeded, with *)
(* its cooldown, is left open.  A file is opened and written, and either    *)
(* may raise: then the loop goes on with a copy that is not saved.          *)
(***************************************************************************)
EXTENDS Integers, Sequences

CONSTANTS
  Loops,     \* AgentLoops of the workspace, each with a SessionManager
  MaxTurns,  \* bound: turns begun
  Trigger,   \* trigger_messages
  Keep,      \* keep_recent
  MinNew,    \* min_new_messages
  MaxSeen    \* max_messages of get_history

ASSUME ConversationAssumption ==
  /\ MaxTurns \in Nat /\ Trigger \in Nat /\ Keep \in Nat
  /\ MinNew \in Nat \ {0} /\ MaxSeen \in Nat \ {0}

VARIABLES
  file,     \* the session file; NoCopy: there is none that can be read
  cache,    \* the copy in the cache of each loop
  turn,     \* what each turn is doing
  begun,    \* turns begun
  fresh,    \* history: loops whose copy is the file as it is, or was when it was read
  stored,   \* history: turns saved, and not cleared since
  mishap    \* history: a copy was saved over a later one, or a save cut short

convVars == <<file, cache, turn, begun, fresh, stored, mishap>>

Turns == 1 .. MaxTurns
Messages == [turn: Turns, role: {"user", "reply", "followup"}]
NoCopy == [made |-> FALSE, messages |-> << >>, summary |-> {}, upto |-> 0]
Empty == [NoCopy EXCEPT !.made = TRUE]
Unborn == [step |-> "unborn"]
Over == [step |-> "over"]

ConvInit ==
  /\ file = NoCopy
  /\ cache = [l \in Loops |-> NoCopy]
  /\ turn = [t \in Turns |-> Unborn]
  /\ begun = 0
  /\ fresh = {}
  /\ stored = {} /\ mishap = FALSE

-----------------------------------------------------------------------------
Among(s, a, b) == {s.messages[i] : i \in a .. b}
All(s) == Among(s, 1, Len(s.messages))
Said(t, role) == [turn |-> t, role |-> role]

\* Mutant of Loaded: the file is not read.
LoadedNew(l) == IF cache[l].made THEN cache[l] ELSE Empty

\* get_or_create: the copy in the cache, or the file, or a new session.
Loaded(l) == IF cache[l].made THEN cache[l] ELSE IF file.made THEN file ELSE Empty

\* A copy that is not in the cache is now as late as the file.
Took(l) == IF cache[l].made THEN fresh ELSE fresh \cup {l}

Goes(t, to) == turn' = [turn EXCEPT ![t] = to]
Mine(t) == cache[turn[t].loop]

\* _process_message, up to where its message is routed.
BeginTurn(l) ==
  /\ begun < MaxTurns /\ begun' = begun + 1
  /\ cache' = [cache EXCEPT ![l] = Loaded(l)]
  /\ fresh' = Took(l)
  /\ Goes(begun', [step |-> "routing", loop |-> l])
  /\ UNCHANGED <<file, stored, mishap>>

Cutoff(s) == IF Len(s.messages) > Keep THEN Len(s.messages) - Keep ELSE 0

\* plan
ShouldCompress(s) ==
  /\ Len(s.messages) > Trigger
  /\ Cutoff(s) > s.upto /\ Cutoff(s) - s.upto >= MinNew

\* get_history
History(s) ==
  LET n == Len(s.messages) IN
  Among(s, IF n > MaxSeen THEN n - MaxSeen + 1 ELSE 1, n)

Thinking(t, seen, complete) ==
  Goes(t, [step |-> "thinking", loop |-> turn[t].loop, seen |-> seen, complete |-> complete])

\* _build_history_with_compression: no summary is due, ...
AskWithHistory(t) ==
  /\ turn[t].step = "routing" /\ ~ShouldCompress(Mine(t))
  /\ Thinking(t, History(Mine(t)),
       Len(Mine(t).messages) <= MaxSeen => All(Mine(t)) \subseteq History(Mine(t)))
  /\ UNCHANGED <<file, cache, begun, fresh, stored, mishap>>

\* Mutant of Recent: one message is left out.
RecentShort(s) == Among(s, Cutoff(s) + 2, Len(s.messages))

\* prefix_messages, summarized_upto and recent_messages
Planned(s) == IF ShouldCompress(s) THEN Cutoff(s) ELSE s.upto
Prefix(s) == Among(s, s.upto + 1, Planned(s))
Recent(s) == Among(s, Cutoff(s) + 1, Len(s.messages))

\* ... or one is, or the token budget is exceeded while the plan keeps everything:
\* the plan and the summary so far are put into the prompt.
AskForSummary(t) ==
  LET s == Mine(t) IN
  /\ turn[t].step = "routing"
  /\ ShouldCompress(s) \/ Len(s.messages) <= Keep
  /\ Goes(t, [step |-> "summing", loop |-> turn[t].loop, all |-> All(s),
              summary |-> s.summary \cup Prefix(s), upto |-> Planned(s),
              recent |-> Recent(s), cut |-> ShouldCompress(s)])
  /\ UNCHANGED <<file, cache, begun, fresh, stored, mishap>>

\* The recent messages by now: a plan that cuts nothing has the list itself.
RecentNow(t) == IF turn[t].cut THEN turn[t].recent ELSE All(Mine(t))

\* Mutant of Summarised: what is summarised is counted when the answer comes.
SummarisedLate(s, p) == [s EXCEPT !.summary = p.summary, !.upto = Cutoff(s)]

Summarised(s, p) == [s EXCEPT !.summary = p.summary, !.upto = p.upto]

\* The summary comes.
SummaryComes(t) ==
  LET s == Summarised(Mine(t), turn[t])
      seen == s.summary \cup RecentNow(t)
  IN
  /\ turn[t].step = "summing"
  /\ cache' = [cache EXCEPT ![turn[t].loop] = s]
  /\ Thinking(t, seen, turn[t].all \subseteq seen)
  /\ UNCHANGED <<file, begun, fresh, stored, mishap>>

\* The answer is empty, or there is none: the summary so far, if there is one,
\* and the recent messages, or the history as it is by now.
SummaryFails(t) ==
  /\ turn[t].step = "summing"
  /\ \/ Thinking(t, Mine(t).summary \cup RecentNow(t), TRUE)
     \/ Thinking(t, History(Mine(t)), TRUE)
  /\ UNCHANGED <<file, cache, begun, fresh, stored, mishap>>

\* Mutant of AddPair: the question first, and the answer when it comes.
AddPairApart(t) ==
  /\ turn[t].step \in {"routing", "thinking", "asked"}
  /\ LET asked == turn[t].step = "asked" IN
       /\ cache' = [cache EXCEPT ![turn[t].loop].messages =
                      Append(@, Said(t, IF asked THEN "reply" ELSE "user"))]
       /\ Goes(t, [step |-> IF asked THEN "storing" ELSE "asked", loop |-> turn[t].loop])
  /\ UNCHANGED <<file, begun, fresh, stored, mishap>>

\* The question and the answer, of the model or of a direct intent.
AddPair(t) ==
  /\ turn[t].step \in {"routing", "thinking"}
  /\ cache' = [cache EXCEPT ![turn[t].loop].messages =
                 @ \o << Said(t, "user"), Said(t, "reply") >>]
  /\ Goes(t, [step |-> "storing", loop |-> turn[t].loop])
  /\ UNCHANGED <<file, begun, fresh, stored, mishap>>

\* save, of the copy of loop l as it is after the step.
Saves(l) ==
  /\ file' = cache'[l]
  /\ fresh' = {l}
  /\ mishap' = (mishap \/ (cache[l].made /\ l \notin fresh))

\* A write in open(path, "w") that is cut short: what can be read is a part, or nothing.
Torn(s) ==
  {NoCopy} \cup {[s EXCEPT !.messages = SubSeq(@, 1, k)] : k \in 0 .. Len(s.messages) - 1}

\* ... or save raises, or the process ends in it: the file is not opened, or it is
\* not written to its end.
NotSaved(l) ==
  \/ fresh' = Took(l) /\ UNCHANGED <<file, mishap>>
  \/ file' \in Torn(cache'[l]) /\ fresh' = {} /\ mishap' = TRUE

\* The memory of the turn is extracted, and its session saved.
StoreTurn(t) ==
  /\ turn[t].step \in {"storing", "followed"}
  /\ UNCHANGED cache
  /\ \/ Saves(turn[t].loop) /\ stored' = stored \cup {t}
     \/ NotSaved(turn[t].loop) /\ UNCHANGED stored
  /\ Goes(t, IF turn[t].step = "storing" THEN [step |-> "done", loop |-> turn[t].loop] ELSE Over)
  /\ UNCHANGED begun

\* _run_deferred_retry, after a direct intent that failed: one more message, before
\* the turn is saved or after.  What save raises is logged.
FollowUp(t) ==
  /\ turn[t].step \in {"storing", "done"}
  /\ cache' = [cache EXCEPT ![turn[t].loop] = [Loaded(turn[t].loop) EXCEPT
                 !.messages = Append(@, Said(t, "followup"))]]
  /\ Saves(turn[t].loop) \/ NotSaved(turn[t].loop)
  /\ Goes(t, IF turn[t].step = "storing" THEN [step |-> "followed", loop |-> turn[t].loop] ELSE Over)
  /\ UNCHANGED <<begun, stored>>

\* The turn raises and is answered with an error, is cancelled, or asks for an approval.
TurnFails(t) ==
  /\ turn[t].step \in {"routing", "summing", "thinking", "storing", "followed"}
  /\ Goes(t, Over)
  /\ UNCHANGED <<file, cache, begun, fresh, stored, mishap>>

Quiet(l) == ~\E t \in Turns : turn[t].step \notin {"unborn", "done", "over"} /\ turn[t].loop = l

Cleared(s) == Empty

\* A command, which comes through the queue of the loop as its turns do: "/clear",
\* or one that changes nothing here and saves.
SlashCommand(l) ==
  /\ begun < MaxTurns /\ begun' = begun + 1
  /\ Quiet(l)
  /\ Goes(begun', Over)
  /\ \/ /\ cache' = [cache EXCEPT ![l] = Cleared(Loaded(l))]
        /\ \/ file' = cache'[l] /\ fresh' = {l} /\ UNCHANGED mishap
           \/ NotSaved(l)
        /\ stored' = {}
     \/ /\ cache' = [cache EXCEPT ![l] = Loaded(l)]
        /\ Saves(l) \/ NotSaved(l)
        /\ UNCHANGED stored

\* The loop ends: the process stops, or the request is answered.
LoopEnds(l) ==
  /\ cache[l].made
  /\ cache' = [cache EXCEPT ![l] = NoCopy]
  /\ turn' = [t \in Turns |-> IF turn[t].step # "unborn" /\ turn[t] # Over /\ turn[t].loop = l
                               THEN Over ELSE turn[t]]
  /\ fresh' = fresh \ {l}
  /\ UNCHANGED <<file, begun, stored, mishap>>

ConvNext ==
  \/ \E l \in Loops : BeginTurn(l) \/ SlashCommand(l) \/ LoopEnds(l)
  \/ \E t \in Turns :
       \/ AskWithHistory(t) \/ AskForSummary(t)
       \/ SummaryComes(t) \/ SummaryFails(t)
       \/ AddPair(t) \/ StoreTurn(t) \/ FollowUp(t) \/ TurnFails(t)

ConvSpec == ConvInit /\ [][ConvNext]_convVars

-----------------------------------------------------------------------------
SessionLike(s) ==
  /\ s.made \in BOOLEAN /\ s.upto \in Nat
  /\ s.messages \in Seq(Messages) /\ s.summary \subseteq Messages

\* The shapes of the state.
ConvTypeOK ==
  /\ SessionLike(file) /\ \A l \in Loops : SessionLike(cache[l])
  /\ \A t \in Turns : turn[t].step \notin {"unborn", "over"} => turn[t].loop \in Loops
  /\ begun \in 0 .. MaxTurns
  /\ fresh \subseteq Loops
  /\ stored \subseteq Turns /\ mishap \in BOOLEAN

Copies == {cache[l] : l \in Loops}

\* Whatever turns of the loop went on at the same time, a question is followed
\* by the answer to it.
PairsStayTogether ==
  ~mishap => \A s \in Copies \cup {file} : \A i \in DOMAIN s.messages :
    s.messages[i].role = "user" =>
      i < Len(s.messages) /\ s.messages[i + 1] = Said(s.messages[i].turn, "reply")

\* The summary stands for the messages up to rolling_summary_upto, all of them
\* and nothing else, although both are written long after they were read.
SummaryIsOfPrefix ==
  ~mishap => \A s \in Copies \cup {file} :
    s.upto <= Len(s.messages) /\ s.summary = Among(s, 1, s.upto)

\* A turn whose summary came, or whose conversation is short enough for
\* get_history, is asked with every message so far, summed up or word by word.
NothingForgotten ==
  ~mishap => \A t \in Turns : turn[t].step = "thinking" => turn[t].complete

\* A turn that was saved is in the file until the conversation is cleared,
\* unless a loop saved a copy that it had read before.
StoredTurnsStay ==
  ~mishap => \A t \in stored : Said(t, "reply") \in All(file)
=============================================================================
