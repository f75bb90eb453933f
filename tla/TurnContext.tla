----------------------------- MODULE TurnContext -----------------------------
(***************************************************************************)
(* The turns of one AgentLoop (agent/loop.py) and the tool registry they    *)
(* share.  A turn sets the policy scopes, the request context and the chat  *)
(* of the message tool when it begins; its tool calls are judged by what    *)
(* stands there when they come, many waits later.  The inbound router works *)
(* on one message at a time, but cron jobs, the heartbeat, node prompts and *)
(* the retries of failed direct intents run beside it on the same loop.     *)
(*                                                                         *)
(* Abstractions: what is set is the turn that set it; the gates that are    *)
(* set once (kill switch, skills, profile), the resource policy, quotas and *)
(* the decisions of the approval gate are outcomes of a call; reflection,   *)
(* which adds a message, and the mid-turn reload, which no tool can trigger *)
(* since the registry catches what tools raise, are left out.               *)
(***************************************************************************)
EXTENDS Integers

CONSTANTS
  MaxRuns,   \* bound: turns begun
  MaxAsks,   \* max_iterations
  MaxBatch   \* bound: tool calls of one answer

ASSUME TurnAssumption == MaxRuns \in Nat /\ MaxAsks \in Nat \ {0} /\ MaxBatch \in Nat \ {0}

VARIABLES
  doing,    \* what each turn is doing
  ran,      \* turns begun
  layers,   \* whose channel, role and session policies are in the registry
  contract, \* whose intent contract is, if any
  context,  \* whose request context is
  target,   \* to whose chat the message tool writes
  solo      \* history: turns that have met no other one

turnVars == <<doing, ran, layers, contract, context, target, solo>>

Runs == 1 .. MaxRuns
NoRun == 0
Unbegun == [step |-> "unbegun"]
Waiting == [step |-> "waiting"]
Finished == [step |-> "finished"]
InLoop == {"asking", "calling", "running"}
Live(r) == doing[r].step \in {"routing", "preparing"} \cup InLoop
LiveRuns == {r \in Runs : Live(r)}

TurnInit ==
  /\ doing = [r \in Runs |-> Unbegun]
  /\ ran = 0
  /\ layers = NoRun /\ contract = NoRun /\ context = NoRun /\ target = NoRun
  /\ solo = {}

-----------------------------------------------------------------------------
To(r, state) == doing' = [doing EXCEPT ![r] = state]

Meets(r) == solo' = IF LiveRuns = {} THEN solo \cup {r} ELSE solo \ (LiveRuns \cup {r})

Begun(kind, cli, step) ==
  [step |-> step, kind |-> kind, cli |-> cli, replan |-> FALSE,
   asks |-> 0, calls |-> 0, handled |-> 0, results |-> 0, cut |-> FALSE]

\* _process_message up to the wait for its route, and _process_system_message
\* up to the wait for the history: everything shared is set in one go.
BeginRun(kind, cli) ==
  LET r == ran + 1 IN
  /\ ran < MaxRuns /\ ran' = r
  /\ To(r, Begun(kind, cli, IF kind = "message" THEN "routing" ELSE "preparing"))
  /\ layers' = r /\ context' = r /\ target' = r
  /\ Meets(r)
  /\ UNCHANGED contract

\* The route is known: a reply that needs no model, a second try of a direct
\* intent later on, or the model, restricted to the tools of a contract or not.
Routed(r) ==
  /\ doing[r].step = "routing"
  /\ \/ To(r, Finished)
     \/ doing[r].kind = "message" /\ ~doing[r].cli /\ To(r, Waiting)
     \/ /\ doing[r].kind = "message"
        /\ \E b \in BOOLEAN : To(r, [doing[r] EXCEPT !.step = "preparing", !.replan = b])
  /\ UNCHANGED <<ran, layers, contract, context, target, solo>>

\* _run_deferred_retry sets the policies and nothing else.
RetryBegins(r) ==
  /\ doing[r].step = "waiting"
  /\ To(r, Begun("retry", FALSE, "routing"))
  /\ layers' = r
  /\ Meets(r)
  /\ UNCHANGED <<ran, contract, context, target>>

\* The history is there; the contract becomes a policy scope.
Prepared(r) ==
  /\ doing[r].step = "preparing"
  /\ To(r, [doing[r] EXCEPT !.step = "asking"])
  /\ contract' = IF doing[r].replan THEN r ELSE contract
  /\ UNCHANGED <<ran, layers, context, target, solo>>

\* Mutant of Unscoped: cleared by a turn that had a contract and answered.
UnscopedIfAnswered(r) == IF doing[r].step = "asking" THEN NoRun ELSE contract

\* The "finally" of _process_message; a system message has none.
Unscoped(r) == IF doing[r].kind = "message" THEN NoRun ELSE contract

Leave(r) == To(r, Finished) /\ contract' = Unscoped(r)

\* An exception, or a cancellation, before the loop or in it.
RunRaises(r) ==
  /\ \/ doing[r].step \in {"waiting", "preparing"} /\ To(r, Finished) /\ UNCHANGED contract
     \/ doing[r].step \in InLoop /\ Leave(r)
  /\ UNCHANGED <<ran, layers, context, target, solo>>

\* The model answers, with a text or with tool calls.
ModelAnswers(r) ==
  /\ doing[r].step = "asking"
  /\ \/ Leave(r)
     \/ /\ \E n \in 1 .. MaxBatch :
             To(r, [doing[r] EXCEPT !.step = "calling", !.asks = @ + 1, !.calls = n,
                                    !.handled = 0, !.results = 0, !.cut = FALSE])
        /\ UNCHANGED contract
  /\ UNCHANGED <<ran, layers, context, target, solo>>

\* After a call: the next one, the model again, or the end of the loop.
AfterCall(r, n, cut) ==
  LET d == [doing[r] EXCEPT !.handled = @ + 1, !.results = @ + n, !.cut = cut] IN
  \/ /\ ~cut /\ d.handled < d.calls
     /\ To(r, [d EXCEPT !.step = "calling"]) /\ UNCHANGED contract
  \/ /\ cut \/ d.handled = d.calls
     /\ IF d.asks < MaxAsks
        THEN To(r, [d EXCEPT !.step = "asking"]) /\ UNCHANGED contract
        ELSE Leave(r)

\* Mutant of CallRefused: the refusal is not told to the model.
CallRefusedSilently(r) ==
  /\ doing[r].step = "calling"
  /\ AfterCall(r, 0, FALSE)
  /\ UNCHANGED <<ran, layers, context, target, solo>>

\* The contract or, for a sensitive tool, the policy refuses the call.
CallRefused(r) ==
  /\ doing[r].step = "calling"
  /\ AfterCall(r, 1, FALSE)
  /\ UNCHANGED <<ran, layers, context, target, solo>>

\* A sensitive tool has no approval: the rest of the batch is not looked at,
\* and on the command line the turn is over.
CallNeedsApproval(r) ==
  /\ doing[r].step = "calling"
  /\ IF doing[r].cli THEN Leave(r) ELSE AfterCall(r, 1, TRUE)
  /\ UNCHANGED <<ran, layers, context, target, solo>>

\* The registry judges the call and the tool is waited for, or not; the result
\* may be that a sidecar asks for an approval.
CallRuns(r) ==
  /\ doing[r].step = "calling"
  /\ To(r, [doing[r] EXCEPT !.step = "running"])
  /\ UNCHANGED <<ran, layers, contract, context, target, solo>>

CallReturns(r) ==
  /\ doing[r].step = "running"
  /\ \E cut \in BOOLEAN : AfterCall(r, 1, cut)
  /\ UNCHANGED <<ran, layers, context, target, solo>>

TurnNext ==
  \/ \E cli \in BOOLEAN : BeginRun("message", cli)
  \/ BeginRun("system", FALSE)
  \/ \E r \in Runs :
       \/ Routed(r) \/ RetryBegins(r) \/ Prepared(r) \/ RunRaises(r)
       \/ ModelAnswers(r) \/ CallRefused(r) \/ CallNeedsApproval(r)
       \/ CallRuns(r) \/ CallReturns(r)

TurnSpec == TurnInit /\ [][TurnNext]_turnVars

-----------------------------------------------------------------------------
Active ==
  [step: {"routing", "preparing"} \cup InLoop, kind: {"message", "system", "retry"},
   cli: BOOLEAN, replan: BOOLEAN, asks: 0 .. MaxAsks, calls: 0 .. MaxBatch,
   handled: Nat, results: Nat, cut: BOOLEAN]

\* The shapes of the state.
TurnTypeOK ==
  /\ ran \in 0 .. MaxRuns
  /\ \A v \in {layers, contract, context, target} : v \in Runs \cup {NoRun}
  /\ solo \subseteq Runs
  /\ doing \in [Runs -> Active \cup {Unbegun, Waiting, Finished}]

\* A turn that has met no other one is judged by its own policies, and by a
\* contract only if it is its own, whatever earlier turns have left behind when
\* they raised, were cancelled or waited for an approval; and, unless it is a
\* retry, it acts under its own request context and writes to its own chat.
OwnPolicies ==
  \A r \in solo : Live(r) =>
    /\ layers = r
    /\ contract = IF doing[r].step \in InLoop /\ doing[r].replan THEN r ELSE NoRun
    /\ doing[r].kind # "retry" => context = r /\ target = r

\* The model is asked again only when every call of its last answer has its
\* result, unless one of them waits for an approval.
BatchesAnswered ==
  \A r \in Runs :
    doing[r].step = "asking" /\ ~doing[r].cut => doing[r].results = doing[r].calls
=============================================================================
