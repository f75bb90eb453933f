-------------------------------- MODULE Inbound --------------------------------
(***************************************************************************)
(* The way of a message into the gateway: channels, the threads of the HTTP  *)
(* server that take webhooks, and subagents put it into the bounded inbound  *)
(* queue of bus/queue.py; one router (cli/commands.py) takes messages out,   *)
(* finds the agent, and waits for its turn and for room for its reply.       *)
(*                                                                         *)
(* The queue is an asyncio.Queue.  For the tasks of the gateway's loop what  *)
(* it does between two waits is one step.  A webhook is put by the loop of   *)
(* a thread of its own (asyncio.run), for which the queue was not made: its  *)
(* steps come in between those of the router, a futile wake-up included, and *)
(* the loop that first waits on the queue is the only one that ever can.     *)
(*                                                                         *)
(* Abstractions: a message is a name; which agent it goes to is the business *)
(* of ChannelRouting, what its turn does of TurnContext, and how replies     *)
(* leave of Outbound; here a turn ends, with or without a reply, and may     *)
(* spawn subagents.                                                         *)
(***************************************************************************)
EXTENDS Integers, Sequences

CONSTANTS
  Arrivals,   \* messages that channels bring
  Posts,      \* messages that webhooks bring
  Reports,    \* announcements of subagents
  NoInbound,
  MaxInbound, \* the 1000 of MessageBus
  MaxReplies  \* the 1000 of MessageBus, on the way out

ASSUME InboundAssumption ==
  /\ NoInbound \notin Arrivals \cup Posts \cup Reports
  /\ Arrivals \cap Posts = {} /\ (Arrivals \cup Posts) \cap Reports = {}
  /\ MaxInbound \in Nat \ {0} /\ MaxReplies \in Nat \ {0}

VARIABLES
  inbox,   \* bus.inbound
  owner,   \* whose loop the queue is bound to: nobody, gateway, thread
  getter,  \* the future of a get that waits: none, pending, set
  sender,  \* how far the sender of each message is
  router,  \* run_inbound_router
  msg,     \* the message it works on
  replies, \* messages in bus.outbound
  handled  \* history: messages whose turn is over and whose reply is put

inVars == <<inbox, owner, getter, sender, router, msg, replies, handled>>

Inbounds == Arrivals \cup Posts \cup Reports
AtWork == {"free", "empty", "asleep", "routing", "turn", "replying"}

\* Other tasks of the gateway run while the router waits, or between two steps.
LoopRuns == router \in AtWork \ {"empty"}

InInit ==
  /\ inbox = << >> /\ owner = "nobody" /\ getter = "none"
  /\ sender = [m \in Inbounds |-> "unborn"]
  /\ router = "starting" /\ msg = NoInbound
  /\ replies = 0
  /\ handled = {}

-----------------------------------------------------------------------------
(* The queue *)
IsFull == Len(inbox) >= MaxInbound
Is(m, step) == sender' = [sender EXCEPT ![m] = step]
Wakened == getter' = IF getter = "pending" THEN "set" ELSE getter

\* A put by a task of the gateway, when there is room.
Put(m) ==
  /\ LoopRuns
  /\ sender[m] = "putting" /\ ~IsFull
  /\ inbox' = Append(inbox, m)
  /\ Wakened
  /\ Is(m, "put")
  /\ UNCHANGED <<owner, router, msg, replies, handled>>

\* When there is none it waits, which binds the queue, or raises, when the
\* queue is bound to a thread.
PutFinds(m) ==
  /\ LoopRuns
  /\ sender[m] = "putting" /\ IsFull /\ owner # "gateway"
  /\ IF owner = "nobody"
     THEN owner' = "gateway" /\ UNCHANGED sender
     ELSE Is(m, "refused") /\ UNCHANGED owner
  /\ UNCHANGED <<inbox, getter, router, msg, replies, handled>>

\* A put by a thread: the queue is full, ...
PostFinds(m) ==
  /\ sender[m] = "posting" /\ IsFull
  /\ IF owner = "nobody"
     THEN owner' = "thread" /\ Is(m, "stuck")
     ELSE Is(m, "refused") /\ UNCHANGED owner
  /\ UNCHANGED <<inbox, getter, router, msg, replies, handled>>

\* ... or it was not when the thread looked, ...
PostChecks(m) ==
  /\ sender[m] = "posting" /\ ~IsFull
  /\ Is(m, "checked")
  /\ UNCHANGED <<inbox, owner, getter, router, msg, replies, handled>>

\* ... nor when put_nowait looked again: the message is in the queue, ...
PostAppends(m) ==
  /\ sender[m] = "checked"
  /\ \/ inbox' = Append(inbox, m) /\ Is(m, "appended")
     \/ IsFull /\ Is(m, "refused") /\ UNCHANGED inbox
  /\ UNCHANGED <<owner, getter, router, msg, replies, handled>>

\* ... and a get that waits by now is wakened; the webhook is answered.
PostWakens(m) ==
  /\ sender[m] = "appended"
  /\ Wakened
  /\ Is(m, "put")
  /\ UNCHANGED <<inbox, owner, router, msg, replies, handled>>

-----------------------------------------------------------------------------
(* Senders *)

\* A channel that runs has a message of a sender who is allowed.
Arrive(m) ==
  /\ m \in Arrivals /\ sender[m] = "unborn" /\ LoopRuns
  /\ Is(m, "putting")
  /\ UNCHANGED <<inbox, owner, getter, router, msg, replies, handled>>

\* A webhook is valid; the HTTP server runs before the gateway's loop does.
Post(m) ==
  /\ m \in Posts /\ sender[m] = "unborn" /\ router # "ended"
  /\ Is(m, "posting")
  /\ UNCHANGED <<inbox, owner, getter, router, msg, replies, handled>>

\* The turn spawns a subagent, a task of its own, ...
Spawn(m) ==
  /\ m \in Reports /\ sender[m] = "unborn" /\ router = "turn"
  /\ Is(m, "working")
  /\ UNCHANGED <<inbox, owner, getter, router, msg, replies, handled>>

\* ... which announces its result, or its error.
SubagentEnds(m) ==
  /\ sender[m] = "working" /\ LoopRuns
  /\ Is(m, "putting")
  /\ UNCHANGED <<inbox, owner, getter, router, msg, replies, handled>>

-----------------------------------------------------------------------------
(* The router *)
Becoming(step) == router' = step

\* The sidecars, cron, heartbeat and the dispatcher are started.
Started ==
  /\ router = "starting"
  /\ Becoming("free")
  /\ UNCHANGED <<inbox, owner, getter, sender, msg, replies, handled>>

TakeInbound ==
  /\ router = "free" /\ inbox # << >>
  /\ inbox' = Tail(inbox) /\ msg' = Head(inbox)
  /\ Becoming("routing")
  /\ UNCHANGED <<owner, getter, sender, replies, handled>>

\* get finds the queue empty, and only then begins to wait for a wake-up, or
\* raises, when the queue is bound to a thread; that ends the gateway.
SeeEmpty ==
  /\ router = "free" /\ inbox = << >>
  /\ Becoming("empty")
  /\ UNCHANGED <<inbox, owner, getter, sender, msg, replies, handled>>

FallAsleep ==
  /\ router = "empty"
  /\ IF owner = "thread"
     THEN Becoming("ended") /\ UNCHANGED <<owner, getter>>
     ELSE Becoming("asleep") /\ owner' = "gateway" /\ getter' = "pending"
  /\ UNCHANGED <<inbox, sender, msg, replies, handled>>

WakeUp ==
  /\ router = "asleep" /\ getter = "set"
  /\ getter' = "none"
  /\ Becoming("free")
  /\ UNCHANGED <<inbox, owner, sender, msg, replies, handled>>

\* Mutant of TimeOut: get waits for as long as it takes.
TimeOutNever ==
  /\ router = "asleep" /\ getter = "set"
  /\ getter' = "none"
  /\ Becoming("free")
  /\ UNCHANGED <<inbox, owner, sender, msg, replies, handled>>

\* The second of wait_for is over.
TimeOut ==
  /\ router = "asleep"
  /\ getter' = "none"
  /\ Becoming("free")
  /\ UNCHANGED <<inbox, owner, sender, msg, replies, handled>>

\* The agent is found and its loop is there.
Route ==
  /\ router = "routing"
  /\ Becoming("turn")
  /\ UNCHANGED <<inbox, owner, getter, sender, msg, replies, handled>>

\* The turn is over; an exception becomes a reply as well.
TurnEnds ==
  /\ router = "turn"
  /\ \/ Becoming("replying") /\ UNCHANGED <<msg, handled>>
     \/ Becoming("free") /\ msg' = NoInbound /\ handled' = handled \cup {msg}
  /\ UNCHANGED <<inbox, owner, getter, sender, replies>>

Reply ==
  /\ router = "replying" /\ replies < MaxReplies
  /\ replies' = replies + 1
  /\ handled' = handled \cup {msg} /\ msg' = NoInbound
  /\ Becoming("free")
  /\ UNCHANGED <<inbox, owner, getter, sender>>

\* What a lookup or a binding of a route or the start of an agent's loop raises
\* ends the router, and that the gateway.
RouterRaises ==
  /\ router = "routing"
  /\ Becoming("ended")
  /\ UNCHANGED <<inbox, owner, getter, sender, msg, replies, handled>>

\* The gateway is stopped or killed.
GatewayEnds ==
  /\ router \in AtWork \cup {"starting"}
  /\ Becoming("ended")
  /\ UNCHANGED <<inbox, owner, getter, sender, msg, replies, handled>>

\* The outbound loop takes a reply.
ReplyTaken ==
  /\ replies > 0 /\ LoopRuns
  /\ replies' = replies - 1
  /\ UNCHANGED <<inbox, owner, getter, sender, router, msg, handled>>

RouterStep ==
  \/ TakeInbound \/ SeeEmpty \/ FallAsleep \/ WakeUp \/ TimeOut
  \/ Route \/ TurnEnds \/ Reply

SenderStep(m) ==
  Put(m) \/ PutFinds(m) \/ PostFinds(m) \/ PostChecks(m) \/ PostAppends(m)
    \/ PostWakens(m) \/ SubagentEnds(m)

OtherStep == ReplyTaken \/ \E m \in Inbounds : SenderStep(m)

InNext ==
  \/ Started \/ RouterStep \/ RouterRaises \/ GatewayEnds \/ OtherStep
  \/ \E m \in Inbounds : Arrive(m) \/ Post(m) \/ Spawn(m)

\* The loop and the threads run what is ready, in its order, turns and subagents
\* end (rounds are bounded, calls have timeouts), and replies leave the outbound
\* queue (EveryReplySettled).  Strong, as a task is not ready in the middle of a
\* step of the router; for all the others at once, as each has so many steps.
InFairness == WF_inVars(RouterStep) /\ SF_inVars(OtherStep)

InSpec == InInit /\ [][InNext]_inVars /\ InFairness

-----------------------------------------------------------------------------
\* The shapes of the state.
InTypeOK ==
  /\ inbox \in Seq(Inbounds) /\ owner \in {"nobody", "gateway", "thread"}
  /\ getter \in {"none", "pending", "set"}
  /\ getter # "none" => router \in {"asleep", "ended"}
  /\ sender \in [Inbounds -> {"unborn", "working", "putting", "posting", "checked", "appended",
                              "put", "refused", "stuck"}]
  /\ router \in AtWork \cup {"starting", "ended"}
  /\ msg \in Inbounds \cup {NoInbound}
  /\ replies \in 0 .. MaxReplies
  /\ handled \subseteq Inbounds

\* Whatever a channel, a webhook that was not refused or a subagent has for the
\* gateway gets its turn, once the gateway has started and as long as it lives: no
\* wake-up that comes between the router's look and its wait, and no two full
\* queues, keep it for good.  (Senders have a bounded number of messages, so that one formula can
\* speak of all of them.)
EveryMessageHandled ==
  []<>(router \in {"starting", "ended"} \/ \A m \in Inbounds :
         m \in handled \/ sender[m] \in {"unborn", "refused", "stuck"})
================================================================================
