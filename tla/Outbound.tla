------------------------------- MODULE Outbound -------------------------------
(***************************************************************************)
(* The way of a reply: bus/queue.py, where turns put messages into a        *)
(* bounded queue, and channels/manager.py, where one loop takes them out,   *)
(* asks the token bucket of their chat, and sends them.                     *)
(*                                                                         *)
(* Abstractions: a message is its sender, its number there and its chat; a    *)
(* token is Cost units, of which Rate come back in a tick: the bucket       *)
(* refills as time passes, where the code adds up the elapsed time when it  *)
(* is asked; the statistics, the audit and the way a channel sends (itself, *)
(* or through the connector sidecar) are left out.                          *)
(***************************************************************************)
EXTENDS Integers, Sequences, Functions

CONSTANTS
  Senders,       \* agent turns, cron jobs, the node dispatcher
  Chats,
  DropChats,   \* chats of channels in "drop" mode; the others delay
  LostChats,   \* chats of channels that are not enabled
  NoMessage,
  MaxQueue,    \* the 1000 of MessageBus
  Burst,       \* outbound_rate_limit_burst
  Cost, Rate,  \* outbound_rate_limit_per_sec is Rate / Cost tokens a tick
  Cooldown,    \* outbound_rate_limit_drop_notice_cooldown_sec
  PerTurn      \* bound: messages of a sender

ASSUME OutboundAssumption ==
  /\ DropChats \subseteq Chats /\ LostChats \subseteq Chats
  /\ MaxQueue \in Nat \ {0} /\ Burst \in Nat \ {0}
  /\ Cost \in Nat \ {0} /\ Rate \in Nat \ {0}
  /\ Cooldown \in Nat /\ PerTurn \in Nat
  /\ NoMessage \notin [sender: Senders, n: 1 .. PerTurn, chat: Chats]

VARIABLES
  outbox,   \* bus.outbound
  hand,     \* the message in the hands of the loop
  loop,     \* idle, delayed, sending, noticing, stopped
  put,      \* messages each sender has put
  tokens,   \* the bucket of each chat, in units
  quiet,    \* ticks until the next drop notice to a chat
  fate,     \* history: what became of each message
  excess    \* history: the most that any interval up to now has let through to
            \* a chat, less what the rate brings in that interval

outVars == <<outbox, hand, loop, put, tokens, quiet, fate, excess>>

Outgoing == [sender: Senders, n: 1 .. PerTurn, chat: Chats]
Settled == {"sent", "failed", "dropped", "unknown", "lost"}
Full == Burst * Cost

OutInit ==
  /\ outbox = << >> /\ hand = NoMessage /\ loop = "idle"
  /\ put = [t \in Senders |-> 0]
  /\ tokens = [c \in Chats |-> Full]
  /\ quiet = [c \in Chats |-> 0]
  /\ fate = [t \in Senders |-> [n \in 1 .. PerTurn |-> "unborn"]]
  /\ excess = [c \in Chats |-> 0]

-----------------------------------------------------------------------------
FateOf(m) == fate[m.sender][m.n]
Becomes(m, what) == fate' = [fate EXCEPT ![m.sender][m.n] = what]

\* publish_outbound, which waits while the queue is full.
Publish(t, c) ==
  /\ put[t] < PerTurn /\ Len(outbox) < MaxQueue
  /\ put' = [put EXCEPT ![t] = @ + 1]
  /\ LET m == [sender |-> t, n |-> put[t] + 1, chat |-> c] IN
       /\ outbox' = Append(outbox, m)
       /\ Becomes(m, "waiting")
  /\ UNCHANGED <<hand, loop, tokens, quiet, excess>>

Ready == loop = "idle" /\ outbox # << >>

\* Mutant of Taken: the message is left in the queue.
TakenNot(q) == q

Taken(q) == Tail(q)

Acquire(c) ==
  /\ tokens' = [tokens EXCEPT ![c] = @ - Cost]
  /\ excess' = [excess EXCEPT ![c] = @ + Cost]

\* The loop takes a message of a channel that is not there.
TakeUnknown ==
  /\ Ready /\ Head(outbox).chat \in LostChats
  /\ outbox' = Taken(outbox)
  /\ Becomes(Head(outbox), "unknown")
  /\ UNCHANGED <<hand, loop, put, tokens, quiet, excess>>

Takes(step) ==
  /\ Ready /\ Head(outbox).chat \notin LostChats
  /\ outbox' = Taken(outbox) /\ hand' = Head(outbox) /\ loop' = step

\* There is a token, in either mode.
TakeAndSend ==
  /\ Takes("sending")
  /\ tokens[Head(outbox).chat] >= Cost
  /\ Acquire(Head(outbox).chat)
  /\ UNCHANGED <<put, quiet, fate>>

\* There is none and the channel delays: the loop sleeps, with the message.
TakeAndWait ==
  /\ Takes("delayed")
  /\ tokens[Head(outbox).chat] < Cost /\ Head(outbox).chat \notin DropChats
  /\ UNCHANGED <<put, tokens, quiet, fate, excess>>

\* There is none and the channel drops, with a notice unless there was one.
TakeAndDrop ==
  LET c == Head(outbox).chat IN
  /\ Ready /\ c \notin LostChats
  /\ tokens[c] < Cost /\ c \in DropChats
  /\ outbox' = Taken(outbox)
  /\ Becomes(Head(outbox), "dropped")
  /\ IF quiet[c] > 0
     THEN UNCHANGED <<hand, loop, quiet>>
     ELSE /\ hand' = Head(outbox) /\ loop' = "noticing"
          /\ quiet' = [quiet EXCEPT ![c] = Cooldown]
  /\ UNCHANGED <<put, tokens, excess>>

\* acquire: the sleep is over and the bucket is asked again.
Retry ==
  /\ loop = "delayed" /\ tokens[hand.chat] >= Cost
  /\ Acquire(hand.chat)
  /\ loop' = "sending"
  /\ UNCHANGED <<outbox, hand, put, quiet, fate>>

\* The send returns, or it or what comes before it raises.
SendReturns ==
  /\ loop = "sending"
  /\ Becomes(hand, "sent")
  /\ loop' = "idle" /\ hand' = NoMessage
  /\ UNCHANGED <<outbox, put, tokens, quiet, excess>>

\* Mutant of SendRaises: the message is put back, to be tried again.
SendRetried ==
  /\ loop = "sending"
  /\ outbox' = Append(outbox, hand)
  /\ loop' = "idle" /\ hand' = NoMessage
  /\ UNCHANGED <<put, tokens, quiet, fate, excess>>

SendRaises ==
  /\ loop = "sending"
  /\ Becomes(hand, "failed")
  /\ loop' = "idle" /\ hand' = NoMessage
  /\ UNCHANGED <<outbox, put, tokens, quiet, excess>>

\* The notice is sent, or fails: either way the loop goes on.
NoticeEnds ==
  /\ loop = "noticing"
  /\ loop' = "idle" /\ hand' = NoMessage
  /\ UNCHANGED <<outbox, put, tokens, quiet, fate, excess>>

\* stop_all cancels the loop at whatever it waits for.
StopAll ==
  /\ loop # "stopped"
  /\ loop' = "stopped" /\ hand' = NoMessage
  /\ IF loop \in {"delayed", "sending"} THEN Becomes(hand, "lost") ELSE UNCHANGED fate
  /\ UNCHANGED <<outbox, put, tokens, quiet, excess>>

\* Mutants of Refilled: without the cap, and in whole tokens.
RefilledBeyond(n) == n + Rate
RefilledWhole(n) == IF n + (Rate \div Cost) * Cost < Full THEN n + (Rate \div Cost) * Cost ELSE Full

Refilled(n) == IF n + Rate < Full THEN n + Rate ELSE Full

ClockTicks ==
  /\ tokens' = [c \in Chats |-> Refilled(tokens[c])]
  /\ quiet' = [c \in Chats |-> IF quiet[c] > 0 THEN quiet[c] - 1 ELSE 0]
  /\ excess' = [c \in Chats |-> IF excess[c] > Rate THEN excess[c] - Rate ELSE 0]
  /\ UNCHANGED <<outbox, hand, loop, put, fate>>

Take == TakeUnknown \/ TakeAndSend \/ TakeAndWait \/ TakeAndDrop
SendEnds == SendReturns \/ SendRaises

OutNext ==
  \/ \E t \in Senders, c \in Chats : Publish(t, c)
  \/ Take \/ Retry \/ SendEnds \/ NoticeEnds
  \/ StopAll
  \/ ClockTicks

\* The event loop runs what is ready, time passes, and a send ends: the HTTP
\* calls of the channels have timeouts.
OutFairness ==
  /\ WF_outVars(Take) /\ WF_outVars(Retry)
  /\ WF_outVars(SendEnds) /\ WF_outVars(NoticeEnds)
  /\ WF_outVars(ClockTicks)

OutSpec == OutInit /\ [][OutNext]_outVars /\ OutFairness

-----------------------------------------------------------------------------
\* The shapes of the state.
OutTypeOK ==
  /\ outbox \in Seq(Outgoing)
  /\ hand \in Outgoing \cup {NoMessage}
  /\ loop \in {"idle", "delayed", "sending", "noticing", "stopped"}
  /\ loop \in {"delayed", "sending", "noticing"} <=> hand # NoMessage
  /\ put \in [Senders -> 0 .. PerTurn]
  /\ tokens \in [Chats -> Nat]
  /\ quiet \in [Chats -> Nat]
  /\ fate \in [Senders -> [1 .. PerTurn -> Settled \cup {"unborn", "waiting"}]]
  /\ excess \in [Chats -> Nat]

\* In no interval does a chat get more messages than the burst and what the
\* rate brings in that interval, in either mode, whatever the loop was doing
\* when time passed (drop notices come on top).
RateBound == \A c \in Chats : excess[c] <= Full

\* The messages of a sender are settled in the order in which it put them: a
\* failure, a delay or a drop does not let a later one overtake.
TurnOrder ==
  \A t \in Senders : \A i, j \in 1 .. PerTurn :
    i < j /\ fate[t][j] \in Settled => fate[t][i] \in Settled

\* A message that is not settled is in the queue or in hand, once.
NothingVanishes ==
  LET held == IF loop \in {"delayed", "sending"} THEN Append(outbox, hand) ELSE outbox IN
  /\ IsInjective(held)
  /\ \A t \in Senders, n \in 1 .. PerTurn :
       fate[t][n] = "waiting" <=> \E i \in DOMAIN held : held[i].sender = t /\ held[i].n = n

\* Every reply is settled in the end, behind whatever other chats keep the one
\* loop waiting, unless the channels are stopped.  (Senders put a bounded number
\* of messages, so that one formula can speak of all of them.)
EveryReplySettled ==
  []<>(loop = "stopped" \/ \A t \in Senders, n \in 1 .. PerTurn : fate[t][n] # "waiting")
=============================================================================
