-------------------------------- MODULE WebChat --------------------------------
(***************************************************************************)
(* The web chat of the dashboard (dashboard/server.py, channels/webchat.py): *)
(* a runtime with a bus, an agent loop and a dispatcher of its own; sockets  *)
(* that put a question on the bus and give their client the next message of  *)
(* the session's queue, or an error after 120 s; and operators who start,    *)
(* stop and apply the runtime.                                              *)
(*                                                                         *)
(* All of it runs in one loop of asyncio: what happens between two waits is  *)
(* one action.  Which of the sockets that wait is served, and which one a    *)
(* newcomer overtakes, is that of asyncio.Queue.                            *)
(*                                                                         *)
(* Abstractions: one session, as others only keep the agent busy; a message  *)
(* is the number of the question it belongs to, in the order in which the    *)
(* questions were put on the bus; access to the socket, transcription and    *)
(* the streaming of an answer are waits without effect.                      *)
(***************************************************************************)
EXTENDS Integers, Sequences, SequencesExt

CONSTANTS
  Sockets,      \* websockets of the session's clients
  Operators,    \* requests to start, stop or apply the runtime
  BusSize,      \* the 1000 of MessageBus
  MaxQuestions  \* bound: questions asked

ASSUME ChatAssumption == BusSize \in Nat \ {0} /\ MaxQuestions \in Nat

VARIABLES
  chat,      \* the runtime: none, running, stopping, stopped
  request,   \* how far each operator's request is
  handler,   \* how far the handler of each socket is
  asking,    \* the question it waits for
  asked,     \* questions so far
  desk,      \* bus.inbound: questions, and reports of subagents
  answering, \* what the agent has a turn for, << >> for nothing
  answers,   \* bus.outbound
  shelf,     \* the session's queue of WebChatChannel
  getters,   \* sockets that wait for it, as the queue knows them
  later,     \* background work that turns have left: question and kind
  given,     \* history: which message a client got for which question
  causes     \* history: what may set questions and answers apart

chatVars == <<chat, request, handler, asking, asked, desk, answering, answers,
              shelf, getters, later, given, causes>>

Questions == 1 .. MaxQuestions
Kinds == {"report", "followup"}

ChatInit ==
  /\ chat = "none"
  /\ request = [o \in Operators |-> "unborn"]
  /\ handler = [k \in Sockets |-> "closed"]
  /\ asking = [k \in Sockets |-> 0] /\ asked = 0
  /\ desk = << >> /\ answering = << >> /\ answers = << >>
  /\ shelf = << >> /\ getters = << >>
  /\ later = {} /\ given = {} /\ causes = {}

Awaits(k) == handler[k] \in {"waiting", "woken"}
Handles(k, step) == handler' = [handler EXCEPT ![k] = step]
Answered(o, outcome) == request' = [request EXCEPT ![o] = outcome]

-----------------------------------------------------------------------------
(* Sockets *)

\* _get_webchat_runtime finds the runtime of the loop, stopped or not, or
\* creates one; when that fails, the socket asks an agent of its own.
Connect(k) ==
  /\ handler[k] = "closed"
  /\ \/ chat # "none" /\ Handles(k, "open") /\ UNCHANGED chat
     \/ chat = "none" /\ Handles(k, "open") /\ chat' = "running"
     \/ chat = "none" /\ Handles(k, "direct") /\ UNCHANGED chat
  /\ UNCHANGED <<request, asking, asked, desk, answering, answers, shelf, getters,
                 later, given, causes>>

\* The client leaves; a handler that waits for an answer does not notice.
Disconnect(k) ==
  /\ handler[k] \in {"open", "direct"}
  /\ Handles(k, "closed")
  /\ UNCHANGED <<chat, request, asking, asked, desk, answering, answers, shelf, getters,
                 later, given, causes>>

Ask(k) ==
  /\ handler[k] = "open" /\ asked < MaxQuestions
  /\ Handles(k, "sending")
  /\ UNCHANGED <<chat, request, asking, asked, desk, answering, answers, shelf, getters,
                 later, given, causes>>

\* The socket has taken q for its question p, and gives it to its client, if
\* that is still there; the next question comes, or the handler ends.
Gives(k, p, q) ==
  /\ shelf' = Tail(shelf)
  /\ \/ given' = given \cup {<<p, q>>} /\ Handles(k, "open")
     \/ UNCHANGED given /\ Handles(k, "closed")

\* The question is put on the bus, and an answer asked for: one that is there
\* is taken before anybody who waits for it.  (A runtime that was stopped has
\* forgotten its queues; in the new one there will never be anything.)
PutQuestion(k) ==
  /\ handler[k] = "sending" /\ asked < MaxQuestions /\ Len(desk) < BusSize
  /\ asked' = asked + 1
  /\ asking' = [asking EXCEPT ![k] = asked']
  /\ desk' = Append(desk, <<asked', "question">>)
  /\ causes' = IF \E j \in Sockets : Awaits(j) THEN causes \cup {"overlap"} ELSE causes
  /\ IF chat # "stopped" /\ shelf # << >>
     THEN Gives(k, asked', Head(shelf)) /\ UNCHANGED getters
     ELSE /\ Handles(k, "waiting")
          /\ getters' = IF chat = "stopped" THEN getters ELSE Append(getters, k)
          /\ UNCHANGED <<shelf, given>>
  /\ UNCHANGED <<chat, request, answering, answers, later>>

\* A socket that was woken takes the answer, unless a newcomer has taken it.
TakeAnswer(k) ==
  /\ handler[k] = "woken"
  /\ IF shelf # << >>
     THEN Gives(k, asking[k], Head(shelf)) /\ UNCHANGED getters
     ELSE Handles(k, "waiting") /\ getters' = Append(getters, k) /\ UNCHANGED <<shelf, given>>
  /\ UNCHANGED <<chat, request, asking, asked, desk, answering, answers, later, causes>>

\* Wakes the first of those who wait.
WakesFirst(waiting, handlers) ==
  IF waiting = << >>
  THEN getters' = waiting /\ handler' = handlers
  ELSE getters' = Tail(waiting) /\ handler' = [handlers EXCEPT ![Head(waiting)] = "woken"]

\* The socket is taken out of those who wait, if it is among them.
Withdraws(k) ==
  \/ ~Contains(getters, k) /\ UNCHANGED getters
  \/ \E i \in DOMAIN getters : getters[i] = k /\ getters' = RemoveAt(getters, i)

\* 120 s are over: the client gets an error, and the socket is closed.  One that
\* was woken passes it on.
GiveUp(k) ==
  /\ Awaits(k)
  /\ LET left == [handler EXCEPT ![k] = "closed"]
     IN  IF handler[k] = "woken" /\ shelf # << >>
         THEN WakesFirst(getters, left)
         ELSE Withdraws(k) /\ handler' = left
  /\ causes' = causes \cup {"late"}
  /\ UNCHANGED <<chat, request, asking, asked, desk, answering, answers, shelf, later, given>>

-----------------------------------------------------------------------------
(* The agent loop and the dispatcher of the runtime *)

AgentTakes ==
  /\ chat = "running" /\ answering = << >> /\ desk # << >>
  /\ answering' = Head(desk) /\ desk' = Tail(desk)
  /\ UNCHANGED <<chat, request, handler, asking, asked, answers, shelf, getters, later, given,
                 causes>>

\* Mutant of Replies: the error of a turn that has replied is another reply.
RepliesTwice(q) == answers' = answers \o <<q>> \/ answers' = answers \o <<q, q>>

Replies(q) == answers' = Append(answers, q)

\* Bound: one message besides the replies.
NoExtraYet == later = {} /\ "extra" \notin causes

\* A tool call that needs an approval: the gate sends its notice by itself, and
\* the reply of the turn comes later.
NotifyApproval ==
  /\ chat = "running" /\ answering # << >> /\ Len(answers) < BusSize
  /\ NoExtraYet
  /\ answers' = Append(answers, answering[1])
  /\ causes' = causes \cup {"extra"}
  /\ UNCHANGED <<chat, request, handler, asking, asked, desk, answering, shelf, getters, later,
                 given>>

\* A turn spawns a subagent or schedules a deferred retry.
LeaveWork(kind) ==
  /\ chat = "running" /\ answering # << >> /\ answering[2] = "question"
  /\ NoExtraYet
  /\ later' = {<<answering[1], kind>>}
  /\ UNCHANGED <<chat, request, handler, asking, asked, desk, answering, answers, shelf, getters,
                 given, causes>>

\* A turn ends in one reply; an exception becomes one as well.
AgentAnswers ==
  /\ chat = "running" /\ answering # << >> /\ Len(answers) < BusSize
  /\ Replies(answering[1])
  /\ answering' = << >>
  /\ UNCHANGED <<chat, request, handler, asking, asked, desk, shelf, getters, later, given,
                 causes>>

\* The subagent reports through the bus, the retry replies by itself, if it
\* has anything to say; both outlive the runtime.
Finishes(q, kind) ==
  /\ <<q, kind>> \in later
  /\ later' = later \ {<<q, kind>>}
  /\ \/ /\ kind = "report" /\ Len(desk) < BusSize
        /\ desk' = Append(desk, <<q, "report">>) /\ UNCHANGED answers
        /\ causes' = causes \cup {"extra"}
     \/ /\ kind = "followup" /\ Len(answers) < BusSize
        /\ answers' = Append(answers, q) /\ UNCHANGED desk
        /\ causes' = causes \cup {"extra"}
     \/ kind = "followup" /\ UNCHANGED <<desk, answers, causes>>
  /\ UNCHANGED <<chat, request, handler, asking, asked, answering, shelf, getters, given>>

\* The dispatcher puts a message into the session's queue, which wakes the
\* first socket that waits.
Dispatch ==
  /\ chat = "running" /\ answers # << >>
  /\ shelf' = Append(shelf, Head(answers)) /\ answers' = Tail(answers)
  /\ WakesFirst(getters, handler)
  /\ UNCHANGED <<chat, request, asking, asked, desk, answering, later, given, causes>>

-----------------------------------------------------------------------------
(* Operators *)
ChatKept == <<handler, asking, asked, desk, answers, later, given, causes>>

\* Start finds the runtime in the dictionary, or makes it, or fails.
StartChat(o) ==
  /\ request[o] = "unborn"
  /\ \/ chat # "none" /\ Answered(o, "started") /\ UNCHANGED chat
     \/ chat = "none" /\ Answered(o, "started") /\ chat' = "running"
     \/ chat = "none" /\ Answered(o, "failed") /\ UNCHANGED chat
  /\ UNCHANGED ChatKept /\ UNCHANGED <<answering, shelf, getters>>

\* Stop cancels agent and dispatcher, the turn with them, and waits for their
\* end; what is not running is left alone.
StopChat(o) ==
  /\ request[o] = "unborn"
  /\ IF chat = "running"
     THEN chat' = "stopping" /\ answering' = << >> /\ Answered(o, "stopping")
     ELSE Answered(o, "stopped") /\ UNCHANGED <<chat, answering>>
  /\ UNCHANGED ChatKept /\ UNCHANGED <<shelf, getters>>

\* Apply restarts the runtime if it runs: it stops it, ...
ApplyChat(o) ==
  /\ request[o] = "unborn"
  /\ IF chat = "running"
     THEN chat' = "stopping" /\ answering' = << >> /\ Answered(o, "applying")
     ELSE Answered(o, "skipped") /\ UNCHANGED <<chat, answering>>
  /\ UNCHANGED ChatKept /\ UNCHANGED <<shelf, getters>>

\* ... and, when it has ended and its channel has forgotten the queues (those
\* who wait keep the one they had), starts what it finds in the dictionary.
ChatEnds(o) ==
  /\ chat = "stopping" /\ request[o] \in {"stopping", "applying"}
  /\ chat' = "stopped"
  /\ Answered(o, IF request[o] = "stopping" THEN "stopped" ELSE "restarted")
  /\ UNCHANGED ChatKept /\ UNCHANGED <<answering, shelf, getters>>

ChatNext ==
  \/ \E k \in Sockets :
       Connect(k) \/ Disconnect(k) \/ Ask(k) \/ PutQuestion(k) \/ TakeAnswer(k) \/ GiveUp(k)
  \/ AgentTakes \/ NotifyApproval \/ AgentAnswers \/ Dispatch
  \/ \E kind \in Kinds : LeaveWork(kind)
  \/ \E q \in Questions, kind \in Kinds : Finishes(q, kind)
  \/ \E o \in Operators : StartChat(o) \/ StopChat(o) \/ ApplyChat(o) \/ ChatEnds(o)

ChatSpec == ChatInit /\ [][ChatNext]_chatVars

-----------------------------------------------------------------------------
\* The shapes of the state.
ChatTypeOK ==
  /\ chat \in {"none", "running", "stopping", "stopped"}
  /\ request \in [Operators -> {"unborn", "started", "failed", "stopping", "stopped", "applying",
                                "skipped", "restarted"}]
  /\ handler \in [Sockets -> {"closed", "open", "direct", "sending", "waiting", "woken"}]
  /\ asking \in [Sockets -> 0 .. asked] /\ asked \in 0 .. MaxQuestions
  /\ desk \in Seq(Questions \X {"question", "report"})
  /\ answering \in {<< >>} \cup (Questions \X {"question", "report"})
  /\ answers \in Seq(Questions) /\ shelf \in Seq(Questions) /\ getters \in Seq(Sockets)
  /\ later \subseteq Questions \X Kinds
  /\ given \subseteq Questions \X Questions
  /\ causes \subseteq {"late", "extra", "overlap"}

\* The queue of a session knows nothing of questions, and its sockets take what
\* comes next.  Still a client gets the answer to its own question, unless a
\* question of the session was given up, a subagent, a retry or the approval gate has
\* spoken, or two sockets have waited at once; and never, but for the last, one to a
\* question that was asked after its own.
MismatchHasACause ==
  \A pair \in given :
    /\ causes = {} => pair[2] = pair[1]
    /\ "overlap" \notin causes => pair[2] <= pair[1]

\* tests/test_api_gateway.py, test_channel_reload_ack_restarts_webchat_runtime_when_pending,
\* has the state "running" after an apply that reports "restarted".
RestartedRuns ==
  [][\A o \in Operators :
       request[o] # "restarted" /\ request'[o] = "restarted" => chat' = "running"]_chatVars
================================================================================
