---------------------------- MODULE MCCronAndChat ----------------------------
(***************************************************************************)
(* The cron service, the web chat and the conversations, which share no      *)
(* state, in one run: a behaviour chooses one of them, the others rest in    *)
(* their initial state.                                                      *)
(***************************************************************************)
EXTENDS MCCronService, WebChat, Conversation

VARIABLE part

partVars == <<part, vars, chatVars, convVars>>

PartInit == part \in {"cron", "chat", "conversation"} /\ Init /\ ChatInit /\ ConvInit

Scheduling == part = "cron" /\ Next /\ UNCHANGED <<part, chatVars, convVars>>
Chatting == part = "chat" /\ ChatNext /\ UNCHANGED <<part, vars, convVars>>

\* Bounds: a conversation is not followed beyond a mishap, of which its properties
\* say nothing; and of the loops, which are alike, a certain one begins.
Talking ==
  /\ part = "conversation" /\ ~mishap /\ ConvNext
  /\ begun = 0 => cache'[CHOOSE l \in Loops : TRUE].made
  /\ UNCHANGED <<part, vars, chatVars>>

\* The fairness is that of CronService; the web chat and the conversations, of
\* which only invariants are checked, need none.
PartSpec ==
  /\ PartInit /\ [][Scheduling \/ Chatting \/ Talking]_partVars
  /\ part = "cron" => CronFairness
==============================================================================
