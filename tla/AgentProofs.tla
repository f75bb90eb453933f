------------------------------ MODULE AgentProofs -----------------------------
(*****************************************************************************)
(* Theorems about what the agent works with, for any turns, loaders, workers *)
(* and bounds: the contracts and policies of its turns (TurnContext), the    *)
(* conversations it keeps (Conversation), its skills (SkillInstall) and its  *)
(* audit chain (AuditChain), and the gates its sensitive calls go through    *)
(* (ApprovalGate).                                                           *)
(*****************************************************************************)
EXTENDS TurnContext, Conversation, SkillInstall, AuditChain, ApprovalGate, TLAPS

-----------------------------------------------------------------------------
(* Part 1: the turns (TurnContext)                                          *)

(* The inductive invariant: a contract belongs to a turn that is in its     *)
(* loop, and a turn that is alone has set what the registry holds.          *)

InItsLoop(r) == doing[r].step \in InLoop

ContractIsLive ==
  contract # NoRun =>
    contract \in Runs /\ InItsLoop(contract) /\ doing[contract].replan
      /\ doing[contract].kind = "message"

AloneIsAlone ==
  \A r \in solo : Live(r) =>
    /\ \A q \in Runs : Live(q) => q = r
    /\ layers = r
    /\ InItsLoop(r) /\ doing[r].replan => contract = r
    /\ doing[r].kind # "retry" => context = r /\ target = r

\* How far a turn is with the calls of an answer.
Progress(d) ==
  /\ d.step = "routing" => ~d.replan
  /\ d.step \in {"routing", "preparing"} => d.calls = 0 /\ d.results = 0 /\ d.asks = 0
  /\ d.replan => d.kind = "message"
  /\ d.step = "asking" => d.asks < MaxAsks /\ (~d.cut => d.results = d.calls)
  /\ d.step \in {"calling", "running"} =>
       ~d.cut /\ d.results = d.handled /\ d.handled < d.calls

TurnInv ==
  /\ TurnTypeOK
  /\ ContractIsLive
  /\ AloneIsAlone
  /\ \A r \in Runs : doing[r] \in Active => Progress(doing[r])
  /\ \A r \in Runs : r > ran => doing[r] = Unbegun

-----------------------------------------------------------------------------
LEMMA TurnConstants == MaxRuns \in Nat /\ MaxAsks \in Nat \ {0} /\ MaxBatch \in Nat
BY TurnAssumption

LEMMA StepTells ==
  ASSUME NEW d \in Active \cup {Unbegun, Waiting, Finished}
  PROVE  /\ d \in Active <=> d.step \in {"routing", "preparing"} \cup InLoop
         /\ d.step = "waiting" => d = Waiting
<1>1. Unbegun.step = "unbegun" /\ Waiting.step = "waiting" /\ Finished.step = "finished"
  BY DEF Unbegun, Waiting, Finished
<1>2. \A e \in Active : e.step \in {"routing", "preparing"} \cup InLoop
  BY DEF Active
<1> QED BY <1>1, <1>2 DEF InLoop

LEMMA TurnInitially == TurnInit => TurnInv
<1> SUFFICES ASSUME TurnInit PROVE TurnInv
  OBVIOUS
<1>1. \A r \in Runs : doing[r] = Unbegun /\ doing[r].step = "unbegun"
  BY DEF TurnInit, Unbegun
<1>2. TurnTypeOK
  BY TurnConstants DEF TurnInit, TurnTypeOK, Runs, NoRun
<1>3. ContractIsLive /\ AloneIsAlone
  BY DEF TurnInit, ContractIsLive, AloneIsAlone
<1>4. \A r \in Runs : doing[r] \notin Active
  BY <1>1, StepTells DEF InLoop, Active
<1> QED BY <1>1, <1>2, <1>3, <1>4 DEF TurnInv

\* The one that moves, and the others.
LEMMA OneTurnMoves ==
  ASSUME TurnInv, NEW r \in Runs, NEW d \in Active \cup {Unbegun, Waiting, Finished}, To(r, d),
         d \in Active => Progress(d),
         ran' \in 0 .. MaxRuns, ran' >= ran, r <= ran'
  PROVE  /\ doing'[r] = d /\ \A q \in Runs \ {r} : doing'[q] = doing[q]
         /\ doing' \in [Runs -> Active \cup {Unbegun, Waiting, Finished}]
         /\ \A q \in Runs : doing'[q] \in Active => Progress(doing'[q])
         /\ \A q \in Runs : q > ran' => doing'[q] = Unbegun
<1>1. doing \in [Runs -> Active \cup {Unbegun, Waiting, Finished}] /\ ran \in Nat
  BY TurnConstants DEF TurnInv, TurnTypeOK
<1>2. doing' = [doing EXCEPT ![r] = d]
  BY DEF To
<1>3. /\ doing'[r] = d /\ \A q \in Runs \ {r} : doing'[q] = doing[q]
      /\ doing' \in [Runs -> Active \cup {Unbegun, Waiting, Finished}]
  BY <1>1, <1>2
<1>4. \A q \in Runs : doing'[q] \in Active => Progress(doing'[q])
  BY <1>3 DEF TurnInv
<1>5. \A q \in Runs : q > ran' => doing'[q] = Unbegun
  BY <1>1, <1>3, TurnConstants DEF TurnInv, Runs
<1> QED BY <1>3, <1>4, <1>5

\* A turn that is under way goes on, or is over.
LEMMA StaysOrLeaves ==
  ASSUME TurnInv, NEW r \in Runs, NEW d \in Active \cup {Unbegun, Waiting, Finished}, To(r, d),
         d \in Active => Progress(d) /\ Live(r) /\ d.kind = doing[r].kind
                         /\ (doing[r].step # "routing" => d.replan = doing[r].replan),
         r <= ran,
         UNCHANGED <<ran, layers, context, target, solo>>,
         \/ contract' = contract /\ (InItsLoop(r) => d.step \in InLoop)
                                 /\ (d.step \in InLoop /\ d.replan => InItsLoop(r))
         \/ contract' = r /\ d.step \in InLoop /\ d.replan
         \/ contract' = NoRun /\ d = Finished /\ Live(r)
         \/ contract' = contract /\ d = Finished /\ doing[r].kind # "message" /\ Live(r)
  PROVE  TurnInv'
<1>0. /\ doing \in [Runs -> Active \cup {Unbegun, Waiting, Finished}] /\ ran \in 0 .. MaxRuns
      /\ ran \in Nat /\ solo \subseteq Runs
  BY TurnConstants DEF TurnInv, TurnTypeOK
<1>f. Finished.step = "finished" /\ "finished" \notin InLoop
  BY DEF Finished, InLoop
<1>1. /\ doing'[r] = d /\ \A q \in Runs \ {r} : doing'[q] = doing[q]
      /\ doing' \in [Runs -> Active \cup {Unbegun, Waiting, Finished}]
      /\ \A q \in Runs : doing'[q] \in Active => Progress(doing'[q])
      /\ \A q \in Runs : q > ran' => doing'[q] = Unbegun
  <2>1. ran' \in 0 .. MaxRuns /\ ran' >= ran /\ r <= ran'
    BY <1>0
  <2> QED BY <2>1, OneTurnMoves
<1>2. TurnTypeOK'
  BY <1>1 DEF TurnInv, TurnTypeOK
<1>3. \A q \in Runs : Live(q)' => Live(q)
  <2>1. Live(r)' => Live(r)
    <3>1. Live(r)' => d \in Active
      BY <1>1, StepTells DEF Live
    <3> QED BY <3>1
  <2> QED BY <1>1, <2>1 DEF Live
<1>4. ContractIsLive'
  <2>1. CASE contract' = contract /\ (InItsLoop(r) => d.step \in InLoop)
    <3> SUFFICES ASSUME contract # NoRun
                 PROVE  /\ contract \in Runs /\ doing'[contract].step \in InLoop
                        /\ doing'[contract].replan /\ doing'[contract].kind = "message"
      BY <2>1 DEF ContractIsLive, InItsLoop
    <3>1. contract \in Runs /\ InItsLoop(contract) /\ doing[contract].replan
          /\ doing[contract].kind = "message"
      BY DEF TurnInv, ContractIsLive
    <3>2. CASE contract # r
      BY <1>1, <3>1, <3>2 DEF InItsLoop
    <3>3. CASE contract = r
      <4>1. d.step \in InLoop /\ doing[r].step # "routing"
        BY <2>1, <3>1, <3>3 DEF InItsLoop, InLoop
      <4>2. d \in Active
        BY <4>1, StepTells
      <4> QED BY <1>1, <3>1, <3>3, <4>1, <4>2
    <3> QED BY <3>2, <3>3
  <2>2. CASE contract' = r /\ d.step \in InLoop /\ d.replan
    <3>1. d \in Active /\ d.kind = "message"
      BY <2>2, StepTells DEF Progress
    <3> QED BY <1>1, <2>2, <3>1 DEF ContractIsLive, InItsLoop
  <2>3. CASE contract' = NoRun
    BY <2>3 DEF ContractIsLive
  <2>4. CASE contract' = contract /\ doing[r].kind # "message"
    <3>1. contract # NoRun => contract # r
      BY <2>4 DEF TurnInv, ContractIsLive
    <3> QED BY <1>1, <2>4, <3>1 DEF TurnInv, ContractIsLive, InItsLoop
  <2> QED BY <2>1, <2>2, <2>3, <2>4
<1>5. AloneIsAlone'
  <2> SUFFICES ASSUME NEW q \in solo, Live(q)'
               PROVE  /\ \A p \in Runs : Live(p)' => p = q
                      /\ layers = q
                      /\ doing'[q].step \in InLoop /\ doing'[q].replan => contract' = q
                      /\ doing'[q].kind # "retry" => context = q /\ target = q
    BY DEF AloneIsAlone, InItsLoop
  <2>1. /\ q \in Runs /\ Live(q) /\ \A p \in Runs : Live(p) => p = q
        /\ layers = q
        /\ InItsLoop(q) /\ doing[q].replan => contract = q
        /\ doing[q].kind # "retry" => context = q /\ target = q
    BY <1>0, <1>3 DEF TurnInv, AloneIsAlone
  <2>2. CASE q # r
    <3>1. ~Live(r) /\ doing'[q] = doing[q]
      BY <1>1, <2>1, <2>2
    <3>2. d \notin Active
      BY <3>1
    <3>3. d.step \notin InLoop
      BY <3>2, StepTells
    <3>4. contract' = contract
      BY <3>1, <3>3
    <3> QED BY <1>3, <2>1, <3>1, <3>4 DEF InItsLoop
  <2>3. CASE q = r
    <3>1. d \in Active
      BY <1>1, <2>3, StepTells DEF Live
    <3>2. d.kind = doing[r].kind /\ doing'[q] = d /\ d # Finished
      BY <1>1, <1>f, <2>3, <3>1, StepTells DEF InLoop
    <3>3. d.step \in InLoop /\ d.replan => contract' = r
      <4>1. CASE contract' = contract
        <5> SUFFICES ASSUME d.step \in InLoop, d.replan PROVE contract = r
          BY <4>1
        <5>1. InItsLoop(r) \/ contract = r
          BY <3>2, <4>1
        <5>2. InItsLoop(r) => doing[r].replan
          BY <3>1 DEF InItsLoop, InLoop
        <5> QED BY <2>1, <2>3, <5>1, <5>2
      <4> QED BY <3>2, <4>1
    <3> QED BY <1>3, <2>1, <2>3, <3>2, <3>3
  <2> QED BY <2>2, <2>3
<1> QED BY <1>1, <1>2, <1>4, <1>5 DEF TurnInv

\* A turn begins, or comes back: it is the one whose policies are set.
LEMMA BeginsKeeps ==
  ASSUME TurnInv, NEW r \in Runs, NEW d \in Active, To(r, d), Progress(d), d.step \notin InLoop,
         ~Live(r), ran' \in 0 .. MaxRuns, ran' >= ran, r <= ran', Meets(r), UNCHANGED contract,
         layers' = r,
         context' \in Runs \cup {NoRun}, target' \in Runs \cup {NoRun},
         d.kind # "retry" => context' = r /\ target' = r
  PROVE  TurnInv'
<1>0. /\ solo \subseteq Runs /\ contract \in Runs \cup {NoRun}
      /\ doing \in [Runs -> Active \cup {Unbegun, Waiting, Finished}]
  BY DEF TurnInv, TurnTypeOK
<1>1. /\ doing'[r] = d /\ \A q \in Runs \ {r} : doing'[q] = doing[q]
      /\ doing' \in [Runs -> Active \cup {Unbegun, Waiting, Finished}]
      /\ \A q \in Runs : doing'[q] \in Active => Progress(doing'[q])
      /\ \A q \in Runs : q > ran' => doing'[q] = Unbegun
  BY OneTurnMoves
<1>2. \A q \in Runs \ {r} : Live(q)' <=> Live(q)
  BY <1>1 DEF Live
<1>3. solo' = IF LiveRuns = {} THEN solo \cup {r} ELSE solo \ (LiveRuns \cup {r})
  BY DEF Meets
<1>4. TurnTypeOK'
  BY <1>0, <1>1, <1>3 DEF TurnTypeOK
<1>5. ContractIsLive'
  <2>1. contract # r
    BY DEF TurnInv, ContractIsLive, InItsLoop, Live, Runs, NoRun
  <2> QED BY <1>1, <2>1 DEF TurnInv, ContractIsLive, InItsLoop
<1>6. AloneIsAlone'
  <2> SUFFICES ASSUME NEW q \in solo', Live(q)'
               PROVE  /\ \A p \in Runs : Live(p)' => p = q
                      /\ layers' = q
                      /\ doing'[q].step \in InLoop /\ doing'[q].replan => contract' = q
                      /\ doing'[q].kind # "retry" => context' = q /\ target' = q
    BY DEF AloneIsAlone, InItsLoop
  <2>1. q \in Runs
    BY <1>0, <1>3
  <2>2. q = r /\ LiveRuns = {}
    BY <1>2, <1>3, <2>1 DEF LiveRuns
  <2>3. \A p \in Runs : Live(p)' => p = q
    BY <1>2, <2>2 DEF LiveRuns
  <2> QED BY <1>1, <2>2, <2>3
<1> QED BY <1>1, <1>4, <1>5, <1>6 DEF TurnInv

\* After a call the turn has done one more of them.
LEMMA AfterCallKeeps ==
  ASSUME TurnInv, NEW r \in Runs, doing[r].step \in {"calling", "running"}, NEW cut \in BOOLEAN,
         AfterCall(r, 1, cut), UNCHANGED <<ran, layers, context, target, solo>>
  PROVE  TurnInv'
<1> DEFINE d == [doing[r] EXCEPT !.handled = @ + 1, !.results = @ + 1, !.cut = cut]
<1>0. doing[r] \in Active /\ Progress(doing[r]) /\ Live(r) /\ InItsLoop(r) /\ r <= ran
  <2>1. doing \in [Runs -> Active \cup {Unbegun, Waiting, Finished}] /\ ran \in Nat
    BY TurnConstants DEF TurnInv, TurnTypeOK
  <2>2. doing[r] \in Active
    BY <2>1, StepTells DEF InLoop
  <2>3. doing[r] # Unbegun
    BY DEF Unbegun
  <2> QED BY <2>1, <2>2, <2>3, TurnConstants DEF TurnInv, Live, InItsLoop, InLoop, Runs
<1>1. /\ d \in Active /\ d.step = doing[r].step /\ d.kind = doing[r].kind
      /\ d.replan = doing[r].replan /\ d.asks = doing[r].asks /\ d.calls = doing[r].calls
      /\ d.handled = doing[r].handled + 1 /\ d.results = doing[r].results + 1 /\ d.cut = cut
  <2>1. doing[r].handled + 1 \in Nat /\ doing[r].results + 1 \in Nat
    BY <1>0 DEF Active
  <2>2. PICK e, h, k : e = doing[r] /\ h = doing[r].handled + 1 /\ k = doing[r].results + 1
    OBVIOUS
  <2>3. e \in Active /\ h \in Nat /\ k \in Nat
    BY <1>0, <2>1, <2>2
  <2>4. d = [e EXCEPT !.handled = h, !.results = k, !.cut = cut]
    BY <2>2
  <2> HIDE DEF d
  <2>5. /\ d \in Active /\ d.step = e.step /\ d.kind = e.kind
        /\ d.replan = e.replan /\ d.asks = e.asks /\ d.calls = e.calls
        /\ d.handled = h /\ d.results = k /\ d.cut = cut
    BY <2>3, <2>4 DEF Active
  <2> QED BY <2>2, <2>5
<1> DEFINE next == [d EXCEPT !.step = "calling"]
           again == [d EXCEPT !.step = "asking"]
<1>2. \/ ~cut /\ d.handled < d.calls /\ To(r, next) /\ UNCHANGED contract
      \/ /\ cut \/ d.handled = d.calls
         /\ d.asks < MaxAsks /\ To(r, again) /\ UNCHANGED contract
      \/ Leave(r)
  BY DEF AfterCall
<1> HIDE DEF d
<1>3. /\ next \in Active /\ next.step = "calling" /\ next.kind = d.kind /\ next.replan = d.replan
      /\ next.calls = d.calls /\ next.handled = d.handled /\ next.results = d.results
      /\ next.cut = d.cut
  BY <1>1 DEF Active, InLoop
<1>4. /\ again \in Active /\ again.step = "asking" /\ again.kind = d.kind
      /\ again.replan = d.replan /\ again.asks = d.asks /\ again.calls = d.calls
      /\ again.results = d.results /\ again.cut = d.cut
  BY <1>1 DEF Active, InLoop
<1> HIDE DEF next, again
<1>5. CASE ~cut /\ d.handled < d.calls /\ To(r, next) /\ UNCHANGED contract
  <2>1. Progress(next)
    BY <1>0, <1>1, <1>3, <1>5 DEF Progress
  <2> QED BY <1>0, <1>1, <1>3, <1>5, <2>1, StaysOrLeaves DEF InLoop
<1>6. CASE (cut \/ d.handled = d.calls) /\ d.asks < MaxAsks /\ To(r, again) /\ UNCHANGED contract
  <2>1. Progress(again)
    BY <1>0, <1>1, <1>4, <1>6 DEF Progress
  <2> QED BY <1>0, <1>1, <1>4, <1>6, <2>1, StaysOrLeaves DEF InLoop
<1>7. CASE Leave(r)
  <2>1. Finished \notin Active
    BY DEF Finished, Active
  <2> QED BY <1>0, <1>7, <2>1, StaysOrLeaves DEF Leave, Unscoped
<1> QED BY <1>2, <1>5, <1>6, <1>7

LEMMA TurnStep ==
  ASSUME TurnInv, [TurnNext]_turnVars
  PROVE  TurnInv'
<1>0. /\ doing \in [Runs -> Active \cup {Unbegun, Waiting, Finished}] /\ ran \in 0 .. MaxRuns
      /\ ran \in Nat /\ MaxRuns \in Nat /\ Runs = 1 .. MaxRuns
      /\ layers \in Runs \cup {NoRun} /\ context \in Runs \cup {NoRun}
      /\ target \in Runs \cup {NoRun}
  BY TurnConstants DEF TurnInv, TurnTypeOK, Runs
<1>n. /\ Unbegun \notin Active /\ Waiting \notin Active /\ Finished \notin Active
      /\ Unbegun.step = "unbegun" /\ Waiting.step = "waiting" /\ Finished.step = "finished"
  BY DEF Unbegun, Waiting, Finished, Active
<1>r. ASSUME NEW r \in Runs, doing[r].step # "unbegun" PROVE r <= ran
  BY <1>0, <1>n, <1>r DEF TurnInv
<1>a. ASSUME NEW r \in Runs, Live(r) PROVE doing[r] \in Active /\ Progress(doing[r]) /\ r <= ran
  <2>1. doing[r] \in Active /\ doing[r].step # "unbegun"
    BY <1>0, <1>a, StepTells DEF Live, InLoop
  <2> QED BY <1>r, <2>1 DEF TurnInv
<1>b. ASSUME NEW kind \in {"message", "system", "retry"}, NEW cli \in BOOLEAN,
             NEW step \in {"routing", "preparing"}
      PROVE  /\ Begun(kind, cli, step) \in Active /\ Begun(kind, cli, step).step = step
             /\ Begun(kind, cli, step).kind = kind /\ Progress(Begun(kind, cli, step))
  BY TurnConstants DEF Begun, Active, Progress
<1>l. "routing" \notin InLoop /\ "preparing" \notin InLoop /\ "asking" \in InLoop
      /\ "calling" \in InLoop /\ "running" \in InLoop /\ "waiting" \notin InLoop
      /\ "finished" \notin InLoop /\ "unbegun" \notin InLoop
  BY DEF InLoop
<1>1. ASSUME NEW kind \in {"message", "system"}, NEW cli \in BOOLEAN, BeginRun(kind, cli)
      PROVE  TurnInv'
  <2>0. PICK r : r = ran + 1
    OBVIOUS
  <2>1. /\ r \in Runs /\ ran' = r /\ layers' = r /\ context' = r /\ target' = r
        /\ Meets(r) /\ UNCHANGED contract
        /\ To(r, Begun(kind, cli, IF kind = "message" THEN "routing" ELSE "preparing"))
    BY <1>0, <1>1, <2>0 DEF BeginRun
  <2>2. doing[r] = Unbegun /\ r > ran
    BY <1>0, <2>0, <2>1 DEF TurnInv
  <2>3. ~Live(r)
    BY <1>l, <1>n, <2>2 DEF Live
  <2>4. ran' \in 0 .. MaxRuns /\ ran' >= ran /\ r <= ran'
    BY <1>0, <2>0, <2>1
  <2> QED BY <1>b, <1>l, <2>1, <2>3, <2>4, BeginsKeeps
<1>2. ASSUME NEW r \in Runs, Routed(r) PROVE TurnInv'
  <2>1. /\ doing[r].step = "routing" /\ Live(r) /\ ~InItsLoop(r)
        /\ UNCHANGED <<ran, layers, contract, context, target, solo>>
    BY <1>2, <1>l DEF Routed, Live, InItsLoop
  <2>2. doing[r] \in Active /\ Progress(doing[r]) /\ r <= ran
    BY <1>a, <2>1
  <2>3. CASE To(r, Finished)
    BY <1>l, <1>n, <2>1, <2>2, <2>3, StaysOrLeaves
  <2>4. CASE To(r, Waiting)
    BY <1>l, <1>n, <2>1, <2>2, <2>4, StaysOrLeaves
  <2>5. ASSUME NEW b \in BOOLEAN, doing[r].kind = "message",
               To(r, [doing[r] EXCEPT !.step = "preparing", !.replan = b])
        PROVE  TurnInv'
    <3> DEFINE d == [doing[r] EXCEPT !.step = "preparing", !.replan = b]
    <3>1. /\ d \in Active /\ d.step = "preparing" /\ d.kind = "message"
          /\ d.calls = doing[r].calls /\ d.results = doing[r].results /\ d.asks = doing[r].asks
      BY <2>2, <2>5 DEF Active
    <3>2. To(r, d)
      BY <2>5
    <3> HIDE DEF d
    <3>3. Progress(d)
      BY <2>1, <2>2, <3>1 DEF Progress
    <3> QED BY <1>l, <2>1, <2>2, <2>5, <3>1, <3>2, <3>3, StaysOrLeaves
  <2> QED BY <1>2, <2>3, <2>4, <2>5 DEF Routed
<1>3. ASSUME NEW r \in Runs, RetryBegins(r) PROVE TurnInv'
  <2>1. /\ doing[r].step = "waiting" /\ To(r, Begun("retry", FALSE, "routing"))
        /\ layers' = r /\ Meets(r) /\ UNCHANGED <<ran, contract, context, target>>
    BY <1>3 DEF RetryBegins
  <2>2. ~Live(r) /\ r <= ran
    BY <1>l, <1>r, <2>1 DEF Live
  <2> DEFINE d == Begun("retry", FALSE, "routing")
  <2>3. /\ d \in Active /\ Progress(d) /\ d.step \notin InLoop /\ d.kind = "retry"
    BY <1>b, <1>l
  <2>4. To(r, d)
    BY <2>1
  <2> HIDE DEF d
  <2>5. /\ ran' \in 0 .. MaxRuns /\ ran' >= ran /\ r <= ran'
        /\ context' \in Runs \cup {NoRun} /\ target' \in Runs \cup {NoRun}
    BY <1>0, <2>1, <2>2
  <2> QED BY <2>1, <2>2, <2>3, <2>4, <2>5, BeginsKeeps
<1>4. ASSUME NEW r \in Runs, Prepared(r) PROVE TurnInv'
  <2> DEFINE d == [doing[r] EXCEPT !.step = "asking"]
  <2>1. /\ doing[r].step = "preparing" /\ Live(r) /\ ~InItsLoop(r) /\ To(r, d)
        /\ contract' = IF doing[r].replan THEN r ELSE contract
        /\ UNCHANGED <<ran, layers, context, target, solo>>
    BY <1>4, <1>l DEF Prepared, Live, InItsLoop
  <2>2. doing[r] \in Active /\ Progress(doing[r]) /\ r <= ran
    BY <1>a, <2>1
  <2>3. /\ d \in Active /\ d.step = "asking" /\ d.kind = doing[r].kind
        /\ d.replan = doing[r].replan /\ d.calls = doing[r].calls
        /\ d.results = doing[r].results /\ d.asks = doing[r].asks
    BY <1>l, <2>2 DEF Active
  <2> HIDE DEF d
  <2>4. Progress(d)
    BY <2>1, <2>2, <2>3, TurnConstants DEF Progress
  <2> QED BY <1>l, <2>1, <2>2, <2>3, <2>4, StaysOrLeaves
<1>e. ASSUME NEW r \in Runs, doing[r].step \in InLoop, Leave(r),
             UNCHANGED <<ran, layers, context, target, solo>>
      PROVE  TurnInv'
  <2>1. Live(r)
    BY <1>e DEF Live
  <2>2. r <= ran
    BY <1>a, <2>1
  <2> QED BY <1>e, <1>n, <2>1, <2>2, StaysOrLeaves DEF Leave, Unscoped
<1>5. ASSUME NEW r \in Runs, RunRaises(r) PROVE TurnInv'
  <2>1. UNCHANGED <<ran, layers, context, target, solo>>
    BY <1>5 DEF RunRaises
  <2>2. CASE doing[r].step \in {"waiting", "preparing"} /\ To(r, Finished) /\ UNCHANGED contract
    <3>1. r <= ran /\ ~InItsLoop(r)
      BY <1>l, <1>r, <2>2 DEF InItsLoop
    <3> QED BY <1>l, <1>n, <2>1, <2>2, <3>1, StaysOrLeaves
  <2>3. CASE doing[r].step \in InLoop /\ Leave(r)
    BY <1>e, <2>1, <2>3
  <2> QED BY <1>5, <2>2, <2>3 DEF RunRaises
<1>6. ASSUME NEW r \in Runs, ModelAnswers(r) PROVE TurnInv'
  <2>1. /\ doing[r].step = "asking" /\ Live(r) /\ InItsLoop(r)
        /\ UNCHANGED <<ran, layers, context, target, solo>>
    BY <1>6, <1>l DEF ModelAnswers, Live, InItsLoop
  <2>2. doing[r] \in Active /\ Progress(doing[r]) /\ r <= ran
    BY <1>a, <2>1
  <2>3. CASE Leave(r)
    BY <1>e, <1>l, <2>1, <2>3
  <2>4. ASSUME NEW n \in 1 .. MaxBatch, UNCHANGED contract,
               To(r, [doing[r] EXCEPT !.step = "calling", !.asks = @ + 1, !.calls = n,
                                      !.handled = 0, !.results = 0, !.cut = FALSE])
        PROVE  TurnInv'
    <3> DEFINE d == [doing[r] EXCEPT !.step = "calling", !.asks = @ + 1, !.calls = n,
                                     !.handled = 0, !.results = 0, !.cut = FALSE]
    <3>1. doing[r].asks \in 0 .. MaxAsks /\ doing[r].asks < MaxAsks
      BY <2>1, <2>2 DEF Active, Progress
    <3>2. doing[r].asks + 1 \in 0 .. MaxAsks /\ n \in 0 .. MaxBatch
      BY <3>1, TurnConstants
    <3>3. /\ d \in Active /\ d.step = "calling" /\ d.kind = doing[r].kind
          /\ d.replan = doing[r].replan /\ d.calls = n /\ d.handled = 0 /\ d.results = 0
          /\ d.cut = FALSE
      BY <1>l, <2>2, <3>2 DEF Active
    <3>4. To(r, d)
      BY <2>4
    <3> HIDE DEF d
    <3>5. Progress(d)
      BY <2>2, <3>3, TurnConstants DEF Progress
    <3> QED BY <1>l, <2>1, <2>2, <2>4, <3>3, <3>4, <3>5, StaysOrLeaves
  <2> QED BY <1>6, <2>3, <2>4 DEF ModelAnswers
<1>7. ASSUME NEW r \in Runs, CallRefused(r) PROVE TurnInv'
  BY <1>7, AfterCallKeeps DEF CallRefused
<1>8. ASSUME NEW r \in Runs, CallNeedsApproval(r) PROVE TurnInv'
  <2>1. doing[r].step = "calling" /\ UNCHANGED <<ran, layers, context, target, solo>>
        /\ (Leave(r) \/ AfterCall(r, 1, TRUE))
    BY <1>8 DEF CallNeedsApproval
  <2> QED BY <1>e, <1>l, <2>1, AfterCallKeeps
<1>9. ASSUME NEW r \in Runs, CallRuns(r) PROVE TurnInv'
  <2> DEFINE d == [doing[r] EXCEPT !.step = "running"]
  <2>1. /\ doing[r].step = "calling" /\ Live(r) /\ InItsLoop(r) /\ To(r, d)
        /\ UNCHANGED <<ran, layers, contract, context, target, solo>>
    BY <1>9, <1>l DEF CallRuns, Live, InItsLoop
  <2>2. doing[r] \in Active /\ Progress(doing[r]) /\ r <= ran
    BY <1>a, <2>1
  <2>3. /\ d \in Active /\ d.step = "running" /\ d.kind = doing[r].kind
        /\ d.replan = doing[r].replan /\ d.calls = doing[r].calls /\ d.cut = doing[r].cut
        /\ d.results = doing[r].results /\ d.handled = doing[r].handled
    BY <1>l, <2>2 DEF Active
  <2> HIDE DEF d
  <2>4. Progress(d)
    BY <2>1, <2>2, <2>3 DEF Progress
  <2> QED BY <1>l, <2>1, <2>2, <2>3, <2>4, StaysOrLeaves
<1>10. ASSUME NEW r \in Runs, CallReturns(r) PROVE TurnInv'
  BY <1>10, AfterCallKeeps DEF CallReturns
<1>11. CASE UNCHANGED turnVars
  BY <1>11 DEF turnVars, TurnInv, TurnTypeOK, ContractIsLive, AloneIsAlone, InItsLoop, Live
<1> QED BY <1>1, <1>2, <1>3, <1>4, <1>5, <1>6, <1>7, <1>8, <1>9, <1>10, <1>11 DEF TurnNext

-----------------------------------------------------------------------------
LEMMA TurnInvariance == TurnSpec => []TurnInv
<1>1. TurnInv /\ [TurnNext]_turnVars => TurnInv'
  BY TurnStep
<1> QED BY TurnInitially, <1>1, PTL DEF TurnSpec

\* The state keeps its shapes.
THEOREM TurnTypeCorrect == TurnSpec => []TurnTypeOK
<1>1. TurnInv => TurnTypeOK
  BY DEF TurnInv
<1> QED BY TurnInvariance, <1>1, PTL

\* Whatever earlier turns left in the registry, and wherever they ended, a turn
\* that has met no other one acts under its own policies and contract.
THEOREM PoliciesAreOwn == TurnSpec => []OwnPolicies
<1>1. TurnInv => OwnPolicies
  <2> SUFFICES ASSUME TurnInv, NEW r \in solo, Live(r)
               PROVE  /\ layers = r
                      /\ contract = IF doing[r].step \in InLoop /\ doing[r].replan THEN r ELSE NoRun
                      /\ doing[r].kind # "retry" => context = r /\ target = r
    BY DEF OwnPolicies
  <2>1. /\ \A q \in Runs : Live(q) => q = r
        /\ layers = r
        /\ InItsLoop(r) /\ doing[r].replan => contract = r
        /\ doing[r].kind # "retry" => context = r /\ target = r
    BY DEF TurnInv, AloneIsAlone
  <2>2. contract # NoRun => contract \in Runs /\ InItsLoop(contract) /\ doing[contract].replan
    BY DEF TurnInv, ContractIsLive
  <2>3. contract # NoRun => contract = r
    BY <2>1, <2>2 DEF Live, InItsLoop
  <2> QED BY <2>1, <2>2, <2>3 DEF InItsLoop
<1> QED BY TurnInvariance, <1>1, PTL

\* The model is never asked again with a call of its last answer left without
\* a result, unless an approval cut the batch short.
THEOREM EveryCallHasItsResult == TurnSpec => []BatchesAnswered
<1>1. TurnInv => BatchesAnswered
  <2> SUFFICES ASSUME TurnInv, NEW r \in Runs, doing[r].step = "asking", ~doing[r].cut
               PROVE  doing[r].results = doing[r].calls
    BY DEF BatchesAnswered
  <2>1. doing[r] \in Active
    BY StepTells DEF TurnInv, TurnTypeOK, InLoop
  <2> QED BY <2>1 DEF TurnInv, Progress
<1> QED BY TurnInvariance, <1>1, PTL

-----------------------------------------------------------------------------
(* Part 2: the conversations (Conversation)                                 *)

(* The conversation: what turns of the same loop have read of its copy       *)
(* before a wait is the beginning of the copy after it.                     *)

Sess == [made: BOOLEAN, messages: Seq(Messages), summary: SUBSET Messages, upto: Nat]

PairsKept(s) ==
  /\ \A i \in 1 .. Len(s.messages) : s.messages[i].role = "user" =>
       i < Len(s.messages) /\ s.messages[i + 1] = Said(s.messages[i].turn, "reply")
  /\ s.upto <= Len(s.messages) /\ s.summary = Among(s, 1, s.upto)

\* r has the messages of s, and perhaps more.
Extends(s, r) ==
  /\ Len(s.messages) <= Len(r.messages)
  /\ \A i \in 1 .. Len(s.messages) : r.messages[i] = s.messages[i]

TurnAtWork(d) == d.step \notin {"unborn", "over"}

PlanHolds(s, p) ==
  /\ p.upto <= Len(s.messages) /\ p.summary = Among(s, 1, p.upto)
  /\ p.all \subseteq p.summary \cup p.recent
  /\ ~p.cut => p.recent \subseteq All(s)

TurnGood(t) ==
  /\ TurnAtWork(turn[t]) => turn[t].loop \in Loops /\ Mine(t).made
  /\ turn[t].step \in {"storing", "followed"} => Said(t, "reply") \in All(Mine(t))
  /\ turn[t].step = "summing" =>
       /\ turn[t].upto \in Nat /\ turn[t].summary \subseteq Messages
       /\ ~mishap => PlanHolds(Mine(t), turn[t])
  /\ turn[t].step = "thinking" /\ ~mishap => turn[t].complete

ConvShapes ==
  /\ file \in Sess /\ cache \in [Loops -> Sess] /\ DOMAIN turn = Turns
  /\ begun \in 0 .. MaxTurns /\ fresh \subseteq Loops /\ stored \subseteq Turns
  /\ mishap \in BOOLEAN
  /\ ~file.made => file = NoCopy

FreshIsLater == ~mishap => \A l \in fresh : \A t \in stored : Said(t, "reply") \in All(cache[l])

ConvInv ==
  /\ ConvShapes /\ FreshIsLater
  /\ ~mishap => PairsKept(file) /\ \A l \in Loops : PairsKept(cache[l])
  /\ StoredTurnsStay
  /\ \A t \in Turns : TurnGood(t)

-----------------------------------------------------------------------------
\* Sessions.
LEMMA SessIs ==
  ASSUME NEW s \in Sess
  PROVE  /\ s.made \in BOOLEAN /\ s.messages \in Seq(Messages) /\ Len(s.messages) \in Nat
         /\ s.summary \subseteq Messages /\ s.upto \in Nat /\ SessionLike(s)
         /\ DOMAIN s.messages = 1 .. Len(s.messages)
         /\ \A i \in 1 .. Len(s.messages) : s.messages[i] \in Messages
         /\ All(s) \subseteq Messages
         /\ Cutoff(s) \in Nat /\ Cutoff(s) <= Len(s.messages)
<1>1. /\ s.made \in BOOLEAN /\ s.messages \in Seq(Messages) /\ s.summary \subseteq Messages
      /\ s.upto \in Nat
  BY DEF Sess
<1>2. /\ Len(s.messages) \in Nat /\ DOMAIN s.messages = 1 .. Len(s.messages)
      /\ \A i \in 1 .. Len(s.messages) : s.messages[i] \in Messages
  BY <1>1
<1>3. All(s) \subseteq Messages
  BY <1>2 DEF All, Among
<1>4. Cutoff(s) \in Nat /\ Cutoff(s) <= Len(s.messages)
  BY <1>2, ConversationAssumption DEF Cutoff
<1> QED BY <1>1, <1>2, <1>3, <1>4 DEF SessionLike

LEMMA NewSessions ==
  /\ NoCopy \in Sess /\ Empty \in Sess /\ Empty.made /\ ~NoCopy.made
  /\ PairsKept(NoCopy) /\ PairsKept(Empty) /\ All(NoCopy) = {} /\ All(Empty) = {}
<1>1. << >> \in Seq(Messages)
  OBVIOUS
<1>2. NoCopy \in Sess
  BY <1>1 DEF NoCopy, Sess
<1>3. Empty \in Sess
  BY <1>2 DEF Empty, Sess
<1>4. /\ Empty.made /\ ~NoCopy.made
      /\ NoCopy.messages = << >> /\ NoCopy.summary = {} /\ NoCopy.upto = 0
      /\ Empty.messages = << >> /\ Empty.summary = {} /\ Empty.upto = 0
  BY DEF NoCopy, Empty
<1>5. \A i : i \notin 1 .. 0
  OBVIOUS
<1> QED BY <1>2, <1>3, <1>4, <1>5 DEF PairsKept, All, Among

LEMMA ExtendsSays ==
  ASSUME NEW s \in Sess, NEW r \in Sess, Extends(s, r)
  PROVE  /\ \A b \in Nat : b <= Len(s.messages) => Among(r, 1, b) = Among(s, 1, b)
         /\ All(s) \subseteq All(r)
<1>1. Len(s.messages) \in Nat /\ Len(r.messages) \in Nat /\ Len(s.messages) <= Len(r.messages)
  BY SessIs DEF Extends
<1>2. ASSUME NEW b \in Nat, b <= Len(s.messages)
      PROVE  Among(r, 1, b) = Among(s, 1, b)
  <2>1. \A i \in 1 .. b : r.messages[i] = s.messages[i]
    BY <1>1, <1>2 DEF Extends
  <2> QED BY <2>1 DEF Among
<1>3. All(s) \subseteq All(r)
  BY <1>1 DEF All, Among, Extends
<1> QED BY <1>2, <1>3

\* A summary of the first k messages, and of the rest, is of all of them.
LEMMA AmongSplits ==
  ASSUME NEW s \in Sess, NEW a \in Nat, NEW k \in Nat, NEW b \in Nat, a <= k + 1, k <= b
  PROVE  Among(s, a, b) = Among(s, a, k) \cup Among(s, k + 1, b)
<1>1. \A i : i \in a .. b <=> i \in a .. k \/ i \in k + 1 .. b
  OBVIOUS
<1> QED BY <1>1 DEF Among

WithPair(s, t) == [s EXCEPT !.messages = @ \o << Said(t, "user"), Said(t, "reply") >>]
WithFollowUp(s, t) == [s EXCEPT !.messages = Append(@, Said(t, "followup"))]

LEMMA AddsPair ==
  ASSUME NEW s \in Sess, NEW t \in Turns, NEW r, r = WithPair(s, t)
  PROVE  /\ r \in Sess /\ r.made = s.made /\ Extends(s, r)
         /\ Said(t, "reply") \in All(r)
         /\ PairsKept(s) => PairsKept(r)
<1> DEFINE n == Len(s.messages)
<1>1. Said(t, "user") \in Messages /\ Said(t, "reply") \in Messages
  BY DEF Said, Messages
<1>2. /\ s.messages \in Seq(Messages) /\ n \in Nat /\ s.upto \in Nat
  BY SessIs
<1>3. PICK pair : pair = << Said(t, "user"), Said(t, "reply") >>
  OBVIOUS
<1>4. pair \in Seq(Messages) /\ Len(pair) = 2 /\ pair[1] = Said(t, "user") /\ pair[2] = Said(t, "reply")
  BY <1>1, <1>3
<1>5. PICK m : m = s.messages \o pair
  OBVIOUS
<1>6. /\ m \in Seq(Messages) /\ Len(m) = n + 2 /\ \A i \in 1 .. n : m[i] = s.messages[i]
      /\ m[n + 1] = Said(t, "user") /\ m[n + 2] = Said(t, "reply")
  BY <1>2, <1>3, <1>4, <1>5
<1>7. /\ r \in Sess /\ r.messages = m /\ r.made = s.made
      /\ r.summary = s.summary /\ r.upto = s.upto
  BY <1>3, <1>5, <1>6 DEF Sess, WithPair
<1>8. Extends(s, r)
  BY <1>2, <1>6, <1>7 DEF Extends
<1>9. Said(t, "reply") \in All(r)
  <2>1. n + 2 \in 1 .. Len(r.messages) /\ r.messages[n + 2] = Said(t, "reply")
    BY <1>2, <1>6, <1>7
  <2> QED BY <2>1 DEF All, Among
<1>10. ASSUME PairsKept(s) PROVE PairsKept(r)
  <2>1. ASSUME NEW i \in 1 .. Len(m), m[i].role = "user"
        PROVE  i < Len(m) /\ m[i + 1] = Said(m[i].turn, "reply")
    <3>1. CASE i \in 1 .. n
      <4>1. i < n /\ s.messages[i + 1] = Said(s.messages[i].turn, "reply")
        BY <1>6, <1>10, <2>1, <3>1 DEF PairsKept
      <4>2. i + 1 \in 1 .. n
        BY <1>2, <3>1, <4>1
      <4> QED BY <1>2, <1>6, <3>1, <4>1, <4>2
    <3>2. CASE i = n + 1
      <4>1. Said(t, "user").turn = t
        BY DEF Said
      <4>2. i < Len(m) /\ i + 1 = n + 2
        BY <1>2, <1>6, <3>2
      <4> QED BY <1>6, <3>2, <4>1, <4>2
    <3>3. CASE i = n + 2
      <4>1. Said(t, "reply").role = "reply"
        BY DEF Said
      <4> QED BY <1>6, <2>1, <3>3, <4>1
    <3> QED BY <1>2, <1>6, <3>1, <3>2, <3>3
  <2>2. r.upto <= Len(r.messages)
    BY <1>2, <1>6, <1>7, <1>10 DEF PairsKept
  <2>3. Among(r, 1, r.upto) = Among(s, 1, s.upto)
    BY <1>2, <1>7, <1>8, <1>10, ExtendsSays DEF PairsKept
  <2> QED BY <1>7, <1>10, <2>1, <2>2, <2>3 DEF PairsKept
<1> QED BY <1>7, <1>8, <1>9, <1>10

LEMMA AddsFollowUp ==
  ASSUME NEW s \in Sess, NEW t \in Turns, NEW r, r = WithFollowUp(s, t)
  PROVE  /\ r \in Sess /\ r.made = s.made /\ Extends(s, r)
         /\ PairsKept(s) => PairsKept(r)
<1> DEFINE n == Len(s.messages)
<1>1. Said(t, "followup") \in Messages
  BY DEF Said, Messages
<1>2. /\ s.messages \in Seq(Messages) /\ n \in Nat /\ s.upto \in Nat
  BY SessIs
<1>3. PICK m : m = Append(s.messages, Said(t, "followup"))
  OBVIOUS
<1>4. /\ m \in Seq(Messages) /\ Len(m) = n + 1 /\ \A i \in 1 .. n : m[i] = s.messages[i]
      /\ m[n + 1] = Said(t, "followup")
  BY <1>1, <1>2, <1>3
<1>5. /\ r \in Sess /\ r.messages = m /\ r.made = s.made
      /\ r.summary = s.summary /\ r.upto = s.upto
  BY <1>3, <1>4 DEF Sess, WithFollowUp
<1>6. Extends(s, r)
  BY <1>2, <1>4, <1>5 DEF Extends
<1>7. ASSUME PairsKept(s) PROVE PairsKept(r)
  <2>1. ASSUME NEW i \in 1 .. Len(m), m[i].role = "user"
        PROVE  i < Len(m) /\ m[i + 1] = Said(m[i].turn, "reply")
    <3>1. CASE i \in 1 .. n
      <4>1. i < n /\ s.messages[i + 1] = Said(s.messages[i].turn, "reply")
        BY <1>4, <1>7, <2>1, <3>1 DEF PairsKept
      <4>2. i + 1 \in 1 .. n
        BY <1>2, <3>1, <4>1
      <4> QED BY <1>2, <1>4, <3>1, <4>1, <4>2
    <3>2. CASE i = n + 1
      <4>1. Said(t, "followup").role = "followup"
        BY DEF Said
      <4> QED BY <1>4, <2>1, <3>2, <4>1
    <3> QED BY <1>2, <1>4, <3>1, <3>2
  <2>2. r.upto <= Len(r.messages)
    BY <1>2, <1>4, <1>5, <1>7 DEF PairsKept
  <2>3. Among(r, 1, r.upto) = Among(s, 1, s.upto)
    BY <1>2, <1>5, <1>6, <1>7, ExtendsSays DEF PairsKept
  <2> QED BY <1>5, <1>7, <2>1, <2>2, <2>3 DEF PairsKept
<1> QED BY <1>5, <1>6, <1>7

\* A session that is summed up has the same messages.
LEMMA SumsUp ==
  ASSUME NEW s \in Sess, NEW p, NEW r, r = Summarised(s, p),
         p.upto \in Nat, p.summary \subseteq Messages
  PROVE  /\ r \in Sess /\ r.made = s.made /\ Extends(s, r) /\ r.summary = p.summary
         /\ PairsKept(s) /\ PlanHolds(s, p) => PairsKept(r)
<1>1. /\ r \in Sess /\ r.messages = s.messages /\ r.made = s.made
      /\ r.summary = p.summary /\ r.upto = p.upto
  BY DEF Summarised, Sess
<1>2. Extends(s, r)
  BY <1>1, SessIs DEF Extends
<1>3. PairsKept(s) /\ PlanHolds(s, p) => PairsKept(r)
  BY <1>1 DEF PairsKept, PlanHolds, Among
<1> QED BY <1>1, <1>2, <1>3

\* The plan of a session.
LEMMA PlanOf ==
  ASSUME NEW s \in Sess, ShouldCompress(s) \/ Len(s.messages) <= Keep
  PROVE  /\ s.summary \cup Prefix(s) \subseteq Messages
         /\ Planned(s) \in Nat
         /\ ~ShouldCompress(s) => Recent(s) = All(s)
         /\ PairsKept(s) => /\ Planned(s) <= Len(s.messages)
                       /\ s.summary \cup Prefix(s) = Among(s, 1, Planned(s))
                       /\ All(s) \subseteq s.summary \cup Prefix(s) \cup Recent(s)
<1>1. /\ s.upto \in Nat /\ Cutoff(s) \in Nat /\ Len(s.messages) \in Nat
      /\ Cutoff(s) <= Len(s.messages) /\ s.summary \subseteq Messages
  BY SessIs
<1>2. CASE ShouldCompress(s)
  <2>1. s.upto < Cutoff(s) /\ Planned(s) = Cutoff(s)
    BY <1>1, <1>2 DEF ShouldCompress, Planned
  <2>2. Prefix(s) \subseteq Messages
    <3>1. \A i \in s.upto + 1 .. Planned(s) : i \in 1 .. Len(s.messages)
      BY <1>1, <2>1
    <3> QED BY <3>1, SessIs DEF Prefix, Among
  <2>3. Among(s, 1, Planned(s)) = Among(s, 1, s.upto) \cup Prefix(s)
    <3> DEFINE k == s.upto
               b == Planned(s)
    <3>1. k \in Nat /\ b \in Nat /\ 1 \in Nat /\ 1 <= k + 1 /\ k <= b
      BY <1>1, <2>1
    <3>2. Prefix(s) = Among(s, k + 1, b)
      BY DEF Prefix
    <3> HIDE DEF k, b
    <3>3. Among(s, 1, b) = Among(s, 1, k) \cup Among(s, k + 1, b)
      BY ONLY s \in Sess, <3>1, AmongSplits
    <3> QED BY <3>2, <3>3 DEF k, b
  <2>4. All(s) = Among(s, 1, Planned(s)) \cup Recent(s)
    BY <1>1, <2>1, AmongSplits DEF All, Recent
  <2> QED BY <1>1, <1>2, <2>1, <2>2, <2>3, <2>4 DEF PairsKept
<1>3. CASE ~ShouldCompress(s)
  <2>1. Cutoff(s) = 0 /\ Planned(s) = s.upto
    BY <1>1, <1>3, ConversationAssumption DEF Cutoff, Planned
  <2>2. Prefix(s) = {}
    BY <1>1, <2>1 DEF Prefix, Among
  <2>3. Recent(s) = All(s)
    BY <2>1 DEF Recent, All
  <2> QED BY <1>1, <1>3, <2>1, <2>2, <2>3 DEF PairsKept
<1> QED BY <1>2, <1>3

-----------------------------------------------------------------------------
\* The session that a loop finds.
LEMMA LoadedIs ==
  ASSUME ConvInv, NEW l \in Loops
  PROVE  /\ cache[l] \in Sess /\ Loaded(l) \in Sess /\ Loaded(l).made
         /\ cache[l].made => Loaded(l) = cache[l]
         /\ ~cache[l].made => All(file) \subseteq All(Loaded(l))
         /\ ~mishap => PairsKept(Loaded(l)) /\ PairsKept(cache[l])
<1>1. cache[l] \in Sess /\ file \in Sess
  BY DEF ConvInv, ConvShapes
<1>2. CASE cache[l].made
  BY <1>1, <1>2 DEF Loaded, ConvInv
<1>3. CASE ~cache[l].made /\ file.made
  BY <1>1, <1>3 DEF Loaded, ConvInv
<1>4. CASE ~cache[l].made /\ ~file.made
  <2>1. All(file) = {} /\ Loaded(l) = Empty
    BY <1>4, NewSessions DEF Loaded, ConvInv, ConvShapes
  <2> QED BY <1>1, <1>4, <2>1, NewSessions DEF ConvInv
<1> QED BY <1>2, <1>3, <1>4

\* One loop's copy changes, if any, to one that turns at work can go on with.
Changes(l) ==
  /\ cache' \in [Loops -> Sess] /\ \A m \in Loops \ {l} : cache'[m] = cache[m]
  /\ \A t \in Turns :
       \/ TurnGood(t)'
       \/ /\ turn'[t] = turn[t]
          /\ TurnAtWork(turn[t]) /\ turn[t].loop = l =>
               cache'[l].made /\ Extends(cache[l], cache'[l])

LEMMA ConvSteps ==
  ASSUME ConvInv, NEW l \in Loops, Changes(l),
         file' \in Sess, DOMAIN turn' = Turns, begun' \in 0 .. MaxTurns, fresh' \subseteq Loops,
         stored' \subseteq Turns, mishap' \in BOOLEAN, mishap => mishap',
         ~file'.made => file' = NoCopy,
         FreshIsLater', StoredTurnsStay', ~mishap' => PairsKept(cache'[l]) /\ PairsKept(file')
  PROVE  ConvInv'
<1>1. ConvShapes'
  BY DEF ConvShapes, Changes
<1>2. ASSUME ~mishap', NEW m \in Loops
      PROVE  PairsKept(cache'[m])
  <2>1. CASE m = l
    BY <1>2, <2>1
  <2>2. CASE m # l
    BY <1>2, <2>2 DEF ConvInv, Changes
  <2> QED BY <2>1, <2>2
<1>3. ASSUME NEW t \in Turns
      PROVE  TurnGood(t)'
  <2>1. SUFFICES ASSUME turn'[t] = turn[t],
                        TurnAtWork(turn[t]) /\ turn[t].loop = l =>
                          cache'[l].made /\ Extends(cache[l], cache'[l])
                 PROVE  TurnGood(t)'
    BY DEF Changes
  <2>2. TurnGood(t)
    BY DEF ConvInv
  <2>3. CASE ~TurnAtWork(turn[t])
    BY <2>1, <2>3 DEF TurnAtWork, TurnGood
  <2>4. CASE TurnAtWork(turn[t])
    <3>1. turn[t].loop \in Loops /\ cache[turn[t].loop].made
      BY <2>2, <2>4 DEF TurnGood, Mine
    <3>2. cache[turn[t].loop] \in Sess /\ cache'[turn[t].loop] \in Sess
      BY <3>1 DEF ConvInv, ConvShapes, Changes
    <3>3. \A s \in Sess : Extends(s, s)
      BY SessIs DEF Extends
    <3>4. cache'[turn[t].loop].made /\ Extends(cache[turn[t].loop], cache'[turn[t].loop])
      BY <2>1, <2>4, <3>1, <3>2, <3>3 DEF Changes
    <3>5. All(cache[turn[t].loop]) \subseteq All(cache'[turn[t].loop])
      BY <3>2, <3>4, ExtendsSays
    <3>6. ASSUME turn[t].step = "summing", ~mishap'
          PROVE  PlanHolds(cache'[turn[t].loop], turn[t])
      <4>1. turn[t].upto \in Nat /\ PlanHolds(cache[turn[t].loop], turn[t])
        BY <2>2, <3>6 DEF TurnGood, Mine
      <4>2. Among(cache'[turn[t].loop], 1, turn[t].upto) = Among(cache[turn[t].loop], 1, turn[t].upto)
        BY <3>2, <3>4, <4>1, ExtendsSays DEF PlanHolds
      <4>3. turn[t].upto <= Len(cache'[turn[t].loop].messages)
        BY <3>2, <3>4, <4>1, SessIs DEF PlanHolds, Extends
      <4> QED BY <3>5, <4>1, <4>2, <4>3 DEF PlanHolds
    <3> QED BY <2>1, <2>2, <3>1, <3>4, <3>5, <3>6 DEF TurnGood, Mine
  <2> QED BY <2>3, <2>4
<1> QED BY <1>1, <1>2, <1>3 DEF ConvInv

\* A turn goes on to p.
LEMMA GoesOn ==
  ASSUME ConvInv, NEW t \in Turns, NEW p, Goes(t, p)
  PROVE  /\ DOMAIN turn' = Turns /\ turn'[t] = p
         /\ \A u \in Turns \ {t} : turn'[u] = turn[u]
BY DEF Goes, ConvInv, ConvShapes

\* A turn that goes on, or ends, with the copies as they are.
LEMMA GoesOnAlone ==
  ASSUME ConvInv, NEW t \in Turns, TurnAtWork(turn[t]), NEW p, Goes(t, p), TurnGood(t)',
         UNCHANGED <<file, cache, begun, fresh, stored, mishap>>
  PROVE  ConvInv'
<1>1. PICK l \in Loops : l = turn[t].loop
  BY DEF ConvInv, TurnGood
<1>2. Extends(cache[l], cache[l])
  BY SessIs DEF Extends, ConvInv, ConvShapes
<1>3. ASSUME NEW u \in Turns
      PROVE  \/ TurnGood(u)'
             \/ /\ turn'[u] = turn[u]
                /\ TurnAtWork(turn[u]) /\ turn[u].loop = l =>
                     cache'[l].made /\ Extends(cache[l], cache'[l])
  <2>1. TurnGood(u)
    BY DEF ConvInv
  <2>2. CASE u = t
    BY <2>2
  <2>3. CASE u # t
    <3>1. turn'[u] = turn[u]
      BY <2>3, GoesOn
    <3> QED BY <1>2, <2>1, <3>1 DEF TurnGood, Mine
  <2> QED BY <2>2, <2>3
<1>4. Changes(l)
  BY <1>3 DEF Changes, ConvInv, ConvShapes
<1>5. FreshIsLater' /\ StoredTurnsStay' /\ (~mishap' => PairsKept(cache'[l]) /\ PairsKept(file'))
  BY DEF ConvInv, FreshIsLater, StoredTurnsStay
<1>6. DOMAIN turn' = Turns
  BY GoesOn
<1> QED BY <1>4, <1>5, <1>6, ConvSteps DEF ConvInv, ConvShapes

LEMMA AskWithHistoryStep ==
  ASSUME ConvInv, NEW t \in Turns, AskWithHistory(t)
  PROVE  ConvInv'
<1> DEFINE p == [step |-> "thinking", loop |-> turn[t].loop, seen |-> History(Mine(t)),
                 complete |-> Len(Mine(t).messages) <= MaxSeen
                                => All(Mine(t)) \subseteq History(Mine(t))]
<1>1. /\ turn[t].step = "routing" /\ Goes(t, p)
      /\ UNCHANGED <<file, cache, begun, fresh, stored, mishap>>
  BY DEF AskWithHistory, Thinking
<1>2. TurnAtWork(turn[t]) /\ turn[t].loop \in Loops /\ Mine(t).made /\ Mine(t) \in Sess
  BY <1>1 DEF TurnAtWork, ConvInv, TurnGood, Mine, ConvShapes
<1>3. p.complete
  <2>1. Len(Mine(t).messages) <= MaxSeen => History(Mine(t)) = All(Mine(t))
    BY <1>2, SessIs, ConversationAssumption DEF History, All
  <2> QED BY <2>1
<1>4. turn'[t] = p
  BY <1>1, GoesOn
<1>5. turn'[t].step = "thinking" /\ turn'[t].loop = turn[t].loop /\ turn'[t].complete
  BY <1>3, <1>4
<1>6. TurnGood(t)'
  BY <1>1, <1>2, <1>5 DEF TurnGood, Mine, TurnAtWork
<1> HIDE DEF p
<1> QED BY <1>1, <1>2, <1>6, GoesOnAlone

LEMMA AskForSummaryStep ==
  ASSUME ConvInv, NEW t \in Turns, AskForSummary(t)
  PROVE  ConvInv'
<1> DEFINE s == Mine(t)
           p == [step |-> "summing", loop |-> turn[t].loop, all |-> All(s),
                 summary |-> s.summary \cup Prefix(s), upto |-> Planned(s), recent |-> Recent(s),
                 cut |-> ShouldCompress(s)]
<1>1. /\ turn[t].step = "routing" /\ Goes(t, p)
      /\ ShouldCompress(s) \/ Len(s.messages) <= Keep
      /\ UNCHANGED <<file, cache, begun, fresh, stored, mishap>>
  BY DEF AskForSummary
<1>2. TurnAtWork(turn[t]) /\ turn[t].loop \in Loops /\ s.made /\ s \in Sess
  BY <1>1 DEF TurnAtWork, ConvInv, TurnGood, Mine, ConvShapes
<1>3. turn'[t] = p
  BY <1>1, GoesOn
<1>4. /\ turn'[t].step = "summing" /\ turn'[t].loop = turn[t].loop /\ turn'[t].all = All(s)
      /\ turn'[t].summary = s.summary \cup Prefix(s) /\ turn'[t].upto = Planned(s)
      /\ turn'[t].recent = Recent(s) /\ turn'[t].cut = ShouldCompress(s)
  BY <1>3
<1>5. s' = s
  BY <1>1, <1>4 DEF Mine
<1> HIDE DEF p
<1>6. ~mishap => PairsKept(s)
  BY <1>2 DEF ConvInv, Mine
<1> HIDE DEF s
<1>7. /\ Planned(s) \in Nat /\ s.summary \cup Prefix(s) \subseteq Messages
      /\ ~ShouldCompress(s) => Recent(s) = All(s)
      /\ PairsKept(s) => /\ Planned(s) <= Len(s.messages)
                    /\ s.summary \cup Prefix(s) = Among(s, 1, Planned(s))
                    /\ All(s) \subseteq s.summary \cup Prefix(s) \cup Recent(s)
  BY <1>1, <1>2, PlanOf
<1>8. ~mishap => PlanHolds(s, turn'[t])
  BY <1>4, <1>6, <1>7 DEF PlanHolds
<1>9. Mine(t)' = s
  BY <1>5 DEF s
<1>10. TurnGood(t)'
  BY <1>1, <1>2, <1>4, <1>7, <1>8, <1>9 DEF TurnGood, TurnAtWork
<1> QED BY <1>1, <1>2, <1>10, GoesOnAlone

LEMMA SummaryFailsStep ==
  ASSUME ConvInv, NEW t \in Turns, SummaryFails(t)
  PROVE  ConvInv'
<1>1. /\ turn[t].step = "summing" /\ UNCHANGED <<file, cache, begun, fresh, stored, mishap>>
  BY DEF SummaryFails
<1>2. PICK seen :
        Goes(t, [step |-> "thinking", loop |-> turn[t].loop, seen |-> seen, complete |-> TRUE])
  BY DEF SummaryFails, Thinking
<1>3. TurnAtWork(turn[t]) /\ turn[t].loop \in Loops /\ Mine(t).made
  BY <1>1 DEF TurnAtWork, ConvInv, TurnGood
<1>4. turn'[t].step = "thinking" /\ turn'[t].loop = turn[t].loop /\ turn'[t].complete
  BY <1>2, GoesOn
<1>5. TurnGood(t)'
  BY <1>1, <1>3, <1>4 DEF TurnGood, Mine, TurnAtWork
<1> QED BY <1>1, <1>2, <1>3, <1>5, GoesOnAlone

LEMMA TurnFailsStep ==
  ASSUME ConvInv, NEW t \in Turns, TurnFails(t)
  PROVE  ConvInv'
<1>1. /\ turn[t].step \in {"routing", "summing", "thinking", "storing", "followed"}
      /\ Goes(t, Over)
      /\ UNCHANGED <<file, cache, begun, fresh, stored, mishap>>
  BY DEF TurnFails
<1>2. TurnAtWork(turn[t])
  BY <1>1 DEF TurnAtWork
<1>3. turn'[t].step = "over"
  BY <1>1, GoesOn DEF Over
<1>4. TurnGood(t)'
  BY <1>3 DEF TurnGood, TurnAtWork
<1> QED BY <1>1, <1>2, <1>4, GoesOnAlone

\* A turn t changes the copy of its loop to c, which has what it had.
LEMMA CopyGrows ==
  ASSUME ConvInv, NEW t \in Turns, TurnAtWork(turn[t]), NEW p, Goes(t, p), TurnGood(t)',
         NEW l \in Loops, l = turn[t].loop, NEW c \in Sess, c.made, Extends(cache[l], c),
         cache' = [cache EXCEPT ![l] = c]
  PROVE  /\ Changes(l) /\ DOMAIN turn' = Turns /\ cache'[l] = c
         /\ \A m \in Loops : All(cache[m]) \subseteq All(cache'[m])
<1>1. /\ cache' \in [Loops -> Sess] /\ cache'[l] = c
      /\ \A m \in Loops \ {l} : cache'[m] = cache[m]
  BY DEF ConvInv, ConvShapes
<1>2. \A u \in Turns \ {t} : turn'[u] = turn[u]
  BY GoesOn
<1>3. Changes(l)
  BY <1>1, <1>2 DEF Changes
<1>4. All(cache[l]) \subseteq All(c)
  BY ExtendsSays DEF ConvInv, ConvShapes
<1>5. DOMAIN turn' = Turns
  BY GoesOn
<1> QED BY <1>1, <1>3, <1>4, <1>5

LEMMA SummaryComesStep ==
  ASSUME ConvInv, NEW t \in Turns, SummaryComes(t)
  PROVE  ConvInv'
<1> DEFINE l == turn[t].loop
           c == Summarised(Mine(t), turn[t])
           seen == c.summary \cup RecentNow(t)
           p == [step |-> "thinking", loop |-> turn[t].loop, seen |-> seen,
                 complete |-> turn[t].all \subseteq seen]
<1>1. /\ turn[t].step = "summing" /\ cache' = [cache EXCEPT ![l] = c] /\ Goes(t, p)
      /\ UNCHANGED <<file, begun, fresh, stored, mishap>>
  BY DEF SummaryComes, Thinking
<1>2. /\ TurnAtWork(turn[t]) /\ l \in Loops /\ Mine(t).made /\ Mine(t) \in Sess
      /\ turn[t].upto \in Nat /\ turn[t].summary \subseteq Messages
      /\ ~mishap => PlanHolds(Mine(t), turn[t]) /\ PairsKept(Mine(t))
  BY <1>1 DEF TurnAtWork, ConvInv, TurnGood, Mine, ConvShapes
<1>3. /\ c \in Sess /\ c.made = Mine(t).made /\ Extends(Mine(t), c)
      /\ c.summary = turn[t].summary
      /\ PairsKept(Mine(t)) /\ PlanHolds(Mine(t), turn[t]) => PairsKept(c)
  <2>1. PICK s, q, r : s = Mine(t) /\ q = turn[t] /\ r = Summarised(s, q)
    OBVIOUS
  <2>2. s \in Sess /\ q.upto \in Nat /\ q.summary \subseteq Messages
    BY <1>2, <2>1
  <2>3. /\ r \in Sess /\ r.made = s.made /\ Extends(s, r) /\ r.summary = q.summary
        /\ PairsKept(s) /\ PlanHolds(s, q) => PairsKept(r)
    BY <2>1, <2>2, SumsUp
  <2> QED BY <2>1, <2>3
<1>4. turn'[t] = p
  BY <1>1, GoesOn
<1>5. /\ turn'[t].step = "thinking" /\ turn'[t].loop = l
      /\ turn'[t].complete = (turn[t].all \subseteq seen)
  BY <1>4
<1>6. ~mishap => turn'[t].complete
  <2>1. ~mishap => turn[t].recent \subseteq RecentNow(t)
    BY <1>2 DEF PlanHolds, RecentNow
  <2> QED BY <1>2, <1>3, <1>5, <2>1 DEF PlanHolds
<1> HIDE DEF p, c
<1>7. /\ cache'[l] = c /\ cache'[l].made
  BY <1>1, <1>2, <1>3 DEF ConvInv, ConvShapes
<1>8. TurnGood(t)'
  BY <1>1, <1>2, <1>5, <1>6, <1>7 DEF TurnGood, Mine, TurnAtWork
<1>9. /\ Changes(l) /\ DOMAIN turn' = Turns
      /\ \A m \in Loops : All(cache[m]) \subseteq All(cache'[m])
  BY <1>1, <1>2, <1>3, <1>8, CopyGrows DEF Mine
<1>10. FreshIsLater' /\ StoredTurnsStay'
  BY <1>1, <1>9 DEF ConvInv, ConvShapes, FreshIsLater, StoredTurnsStay
<1>11. ~mishap' => PairsKept(cache'[l]) /\ PairsKept(file')
  BY <1>1, <1>2, <1>3, <1>7 DEF ConvInv
<1> HIDE DEF l
<1> QED BY <1>1, <1>2, <1>9, <1>10, <1>11, ConvSteps DEF ConvInv, ConvShapes

LEMMA AddPairStep ==
  ASSUME ConvInv, NEW t \in Turns, AddPair(t)
  PROVE  ConvInv'
<1> DEFINE l == turn[t].loop
           c == WithPair(Mine(t), t)
           p == [step |-> "storing", loop |-> turn[t].loop]
<1>1. /\ turn[t].step \in {"routing", "thinking"} /\ Goes(t, p)
      /\ UNCHANGED <<file, begun, fresh, stored, mishap>>
  BY DEF AddPair
<1>2. /\ TurnAtWork(turn[t]) /\ l \in Loops /\ Mine(t).made /\ Mine(t) \in Sess
      /\ ~mishap => PairsKept(Mine(t))
  BY <1>1 DEF TurnAtWork, ConvInv, TurnGood, Mine, ConvShapes
<1>3. cache' = [cache EXCEPT ![l] = c]
  BY DEF AddPair, Mine, WithPair
<1>4. /\ c \in Sess /\ c.made = Mine(t).made /\ Extends(Mine(t), c)
      /\ Said(t, "reply") \in All(c) /\ (PairsKept(Mine(t)) => PairsKept(c))
  BY <1>2, AddsPair
<1>5. turn'[t] = p
  BY <1>1, GoesOn
<1>6. turn'[t].step = "storing" /\ turn'[t].loop = l
  BY <1>5
<1> HIDE DEF p, c
<1>7. /\ cache'[l] = c /\ cache'[l].made
  BY <1>1, <1>2, <1>3, <1>4 DEF ConvInv, ConvShapes
<1>8. TurnGood(t)'
  BY <1>1, <1>2, <1>4, <1>6, <1>7 DEF TurnGood, Mine, TurnAtWork
<1>9. /\ Changes(l) /\ DOMAIN turn' = Turns
      /\ \A m \in Loops : All(cache[m]) \subseteq All(cache'[m])
  BY <1>1, <1>2, <1>3, <1>4, <1>8, CopyGrows DEF Mine
<1>10. FreshIsLater' /\ StoredTurnsStay'
  BY <1>1, <1>9 DEF ConvInv, ConvShapes, FreshIsLater, StoredTurnsStay
<1>11. ~mishap' => PairsKept(cache'[l]) /\ PairsKept(file')
  BY <1>1, <1>2, <1>4, <1>7 DEF ConvInv
<1> HIDE DEF l
<1> QED BY <1>1, <1>2, <1>9, <1>10, <1>11, ConvSteps DEF ConvInv, ConvShapes

\* The copy of l loses nothing that it had, or that it finds in the file.
CopyKeeps(l) ==
  /\ cache' \in [Loops -> Sess] /\ \A m \in Loops \ {l} : cache'[m] = cache[m]
  /\ cache[l].made => All(cache[l]) \subseteq All(cache'[l])
  /\ ~cache[l].made => All(file) \subseteq All(cache'[l])

\* What there is after a save, or after one that failed.
Saved(l) ==
  /\ file' \in Sess /\ fresh' \subseteq Loops /\ mishap' \in BOOLEAN /\ (mishap => mishap')
  /\ ~file'.made => file' = NoCopy
  /\ FreshIsLater' /\ StoredTurnsStay'
  /\ ~mishap' => file' = cache'[l] \/ file' = file

LEMMA SavesIs ==
  ASSUME ConvInv, NEW l \in Loops, Saves(l), CopyKeeps(l), cache'[l].made,
         \A t \in stored' \ stored : Said(t, "reply") \in All(cache'[l])
  PROVE  Saved(l)
<1>1. /\ file' = cache'[l] /\ fresh' = {l}
      /\ mishap' = (mishap \/ (cache[l].made /\ l \notin fresh))
  BY DEF Saves
<1>2. mishap \in BOOLEAN /\ cache'[l] \in Sess
  BY DEF ConvInv, ConvShapes, CopyKeeps
<1>3. ASSUME ~mishap', NEW t \in stored' PROVE Said(t, "reply") \in All(cache'[l])
  <2>1. CASE t \notin stored
    BY <2>1
  <2>2. CASE t \in stored /\ cache[l].made
    <3>1. Said(t, "reply") \in All(cache[l])
      BY <1>1, <1>2, <1>3, <2>2 DEF ConvInv, FreshIsLater
    <3> QED BY <2>2, <3>1 DEF CopyKeeps
  <2>3. CASE t \in stored /\ ~cache[l].made
    <3>1. Said(t, "reply") \in All(file)
      BY <1>1, <1>2, <1>3, <2>3 DEF ConvInv, StoredTurnsStay
    <3> QED BY <2>3, <3>1 DEF CopyKeeps
  <2> QED BY <2>1, <2>2, <2>3
<1>4. FreshIsLater' /\ StoredTurnsStay'
  BY <1>1, <1>3 DEF FreshIsLater, StoredTurnsStay
<1> QED BY <1>1, <1>2, <1>4 DEF Saved

LEMMA TornIs ==
  ASSUME NEW s \in Sess, s.made, NEW r \in Torn(s)
  PROVE  r \in Sess /\ (~r.made => r = NoCopy)
<1>1. CASE r = NoCopy
  BY <1>1, NewSessions
<1>2. CASE r \in {[s EXCEPT !.messages = SubSeq(@, 1, k)] : k \in 0 .. Len(s.messages) - 1}
  <2>1. PICK k \in 0 .. Len(s.messages) - 1 : r = [s EXCEPT !.messages = SubSeq(@, 1, k)]
    BY <1>2
  <2>2. SubSeq(s.messages, 1, k) \in Seq(Messages)
    BY <2>1, SessIs
  <2>3. r \in Sess /\ r.made = s.made
    BY <2>1, <2>2 DEF Sess
  <2> QED BY <2>3
<1> QED BY <1>1, <1>2 DEF Torn

\* The copy of a loop that takes it out of the cache, or reads it, is as late as
\* the file.
LEMMA TookIs ==
  ASSUME ConvInv, NEW l \in Loops, fresh' = Took(l), UNCHANGED <<file, mishap>>, CopyKeeps(l),
         UNCHANGED stored
  PROVE  FreshIsLater' /\ StoredTurnsStay'
<1>1. StoredTurnsStay'
  BY DEF ConvInv, StoredTurnsStay
<1>2. ASSUME ~mishap', NEW m \in fresh', NEW t \in stored'
      PROVE  Said(t, "reply") \in All(cache'[m])
  <2>1. m \in Loops
    BY <1>2 DEF Took, ConvInv, ConvShapes
  <2>2. CASE m = l /\ ~cache[l].made
    <3>1. Said(t, "reply") \in All(file)
      BY <1>2 DEF ConvInv, StoredTurnsStay
    <3> QED BY <2>2, <3>1 DEF CopyKeeps
  <2>3. CASE m = l /\ cache[l].made
    <3>1. Said(t, "reply") \in All(cache[l])
      BY <1>2, <2>3 DEF Took, ConvInv, FreshIsLater
    <3> QED BY <2>3, <3>1 DEF CopyKeeps
  <2>4. CASE m # l
    <3>1. m \in fresh
      BY <1>2, <2>4 DEF Took
    <3>2. Said(t, "reply") \in All(cache[m])
      BY <1>2, <3>1 DEF ConvInv, FreshIsLater
    <3> QED BY <2>1, <2>4, <3>2 DEF CopyKeeps
  <2> QED BY <2>2, <2>3, <2>4
<1> QED BY <1>1, <1>2 DEF FreshIsLater

LEMMA NotSavedIs ==
  ASSUME ConvInv, NEW l \in Loops, NotSaved(l), cache' \in [Loops -> Sess], cache'[l].made,
         stored' = {} \/ (CopyKeeps(l) /\ UNCHANGED stored)
  PROVE  Saved(l)
<1>1. CASE fresh' = Took(l) /\ UNCHANGED <<file, mishap>>
  <2>1. FreshIsLater' /\ StoredTurnsStay'
    <3>1. CASE stored' = {}
      BY <3>1 DEF FreshIsLater, StoredTurnsStay
    <3> QED BY <1>1, <3>1, TookIs
  <2> QED BY <1>1, <2>1 DEF Saved, Took, ConvInv, ConvShapes
<1>2. CASE file' \in Torn(cache'[l]) /\ fresh' = {} /\ mishap' = TRUE
  <2>1. file' \in Sess /\ (~file'.made => file' = NoCopy)
    BY <1>2, TornIs
  <2>2. FreshIsLater' /\ StoredTurnsStay'
    BY <1>2 DEF FreshIsLater, StoredTurnsStay
  <2> QED BY <1>2, <2>1, <2>2 DEF Saved
<1> QED BY <1>1, <1>2 DEF NotSaved

LEMMA StoreTurnStep ==
  ASSUME ConvInv, NEW t \in Turns, StoreTurn(t)
  PROVE  ConvInv'
<1> DEFINE l == turn[t].loop
           p == IF turn[t].step = "storing" THEN [step |-> "done", loop |-> turn[t].loop] ELSE Over
<1>1. /\ turn[t].step \in {"storing", "followed"} /\ Goes(t, p) /\ UNCHANGED <<cache, begun>>
      /\ \/ Saves(l) /\ stored' = stored \cup {t}
         \/ NotSaved(l) /\ UNCHANGED stored
  BY DEF StoreTurn
<1>2. /\ TurnAtWork(turn[t]) /\ l \in Loops /\ cache[l].made /\ cache[l] \in Sess
      /\ Said(t, "reply") \in All(cache[l])
      /\ cache \in [Loops -> Sess]
  BY <1>1 DEF TurnAtWork, ConvInv, TurnGood, Mine, ConvShapes
<1>3. (turn'[t].step = "done" /\ turn'[t].loop = l) \/ turn'[t].step = "over"
  BY <1>1, GoesOn DEF Over
<1> HIDE DEF p, l
<1>4. TurnGood(t)'
  BY <1>1, <1>2, <1>3 DEF TurnGood, Mine, TurnAtWork
<1>5. CopyKeeps(l)
  BY <1>1, <1>2 DEF CopyKeeps
<1>6. Saved(l)
  BY <1>1, <1>2, <1>5, SavesIs, NotSavedIs
<1>7. Extends(cache[l], cache[l]) /\ cache = [cache EXCEPT ![l] = cache[l]]
  BY <1>2, SessIs DEF Extends
<1>8. Changes(l) /\ DOMAIN turn' = Turns
  BY <1>1, <1>2, <1>4, <1>7, CopyGrows DEF l
<1>9. ~mishap' => PairsKept(cache'[l]) /\ PairsKept(file')
  BY <1>1, <1>2, <1>6 DEF ConvInv, Saved
<1>10. begun' \in 0 .. MaxTurns /\ stored' \subseteq Turns
  BY <1>1 DEF ConvInv, ConvShapes
<1> QED BY <1>2, <1>6, <1>8, <1>9, <1>10, ConvSteps DEF Saved

LEMMA FollowUpStep ==
  ASSUME ConvInv, NEW t \in Turns, FollowUp(t)
  PROVE  ConvInv'
<1> DEFINE l == turn[t].loop
           c == WithFollowUp(cache[l], t)
           p == IF turn[t].step = "storing" THEN [step |-> "followed", loop |-> turn[t].loop]
                ELSE Over
<1>1. /\ turn[t].step \in {"storing", "done"} /\ Goes(t, p) /\ UNCHANGED <<begun, stored>>
      /\ Saves(l) \/ NotSaved(l)
      /\ cache' = [cache EXCEPT ![l] = WithFollowUp(Loaded(l), t)]
  BY DEF FollowUp, WithFollowUp
<1>2. /\ TurnAtWork(turn[t]) /\ l \in Loops /\ cache[l].made /\ cache[l] \in Sess
      /\ cache \in [Loops -> Sess]
      /\ turn[t].step = "storing" => Said(t, "reply") \in All(cache[l])
  BY <1>1 DEF TurnAtWork, ConvInv, TurnGood, Mine, ConvShapes
<1>3. Loaded(l) = cache[l]
  BY <1>2 DEF Loaded
<1>4. cache' = [cache EXCEPT ![l] = c]
  BY <1>1, <1>3
<1>5. /\ c \in Sess /\ c.made = cache[l].made /\ Extends(cache[l], c)
      /\ All(cache[l]) \subseteq All(c)
      /\ PairsKept(cache[l]) => PairsKept(c)
  <2>1. PICK s, r : s = cache[l] /\ r = WithFollowUp(s, t)
    OBVIOUS
  <2>2. /\ r \in Sess /\ r.made = s.made /\ Extends(s, r)
        /\ PairsKept(s) => PairsKept(r)
    BY <1>2, <2>1, AddsFollowUp
  <2>3. All(s) \subseteq All(r)
    BY <1>2, <2>1, <2>2, ExtendsSays
  <2> QED BY <2>1, <2>2, <2>3
<1>6. \/ turn'[t].step = "over"
      \/ turn[t].step = "storing" /\ turn'[t].step = "followed" /\ turn'[t].loop = l
  <2>1. turn'[t] = p
    BY <1>1, GoesOn
  <2>2. CASE turn[t].step = "storing"
    BY <2>1, <2>2
  <2>3. CASE turn[t].step # "storing"
    BY <2>1, <2>3 DEF Over
  <2> QED BY <2>2, <2>3
<1> HIDE DEF l, c, p
<1>7. cache'[l] = c
  BY <1>2, <1>4
<1>8. TurnGood(t)'
  BY <1>2, <1>5, <1>6, <1>7 DEF TurnGood, TurnAtWork, Mine
<1>9. /\ Changes(l) /\ DOMAIN turn' = Turns
  BY <1>1, <1>2, <1>4, <1>5, <1>8, CopyGrows DEF l
<1>10. CopyKeeps(l)
  BY <1>2, <1>5, <1>7, <1>9 DEF CopyKeeps, Changes
<1>11. Saved(l)
  BY <1>1, <1>2, <1>5, <1>7, <1>9, <1>10, SavesIs, NotSavedIs DEF Changes
<1>12. ~mishap' => PairsKept(cache'[l]) /\ PairsKept(file')
  BY <1>2, <1>5, <1>7, <1>11 DEF ConvInv, Saved
<1>13. begun' \in 0 .. MaxTurns /\ stored' \subseteq Turns
  BY <1>1 DEF ConvInv, ConvShapes
<1> QED BY <1>2, <1>9, <1>11, <1>12, <1>13, ConvSteps DEF Saved

\* The turn, or the command, that begins.
LEMMA Begins ==
  ASSUME ConvInv, begun < MaxTurns, begun' = begun + 1
  PROVE  begun' \in Turns /\ begun' \in 0 .. MaxTurns
BY ConversationAssumption DEF ConvInv, ConvShapes, Turns

\* A loop that takes its copy out of the cache, or reads it.
LEMMA Loads ==
  ASSUME ConvInv, NEW l \in Loops, cache' = [cache EXCEPT ![l] = Loaded(l)],
         NEW t \in Turns, TurnGood(t)', \A u \in Turns \ {t} : turn'[u] = turn[u]
  PROVE  /\ Changes(l) /\ cache'[l] = Loaded(l) /\ CopyKeeps(l)
<1>1. cache[l] \in Sess /\ Loaded(l) \in Sess /\ Loaded(l).made
  BY LoadedIs
<1>2. /\ cache' \in [Loops -> Sess] /\ cache'[l] = Loaded(l)
      /\ \A m \in Loops \ {l} : cache'[m] = cache[m]
  BY <1>1 DEF ConvInv, ConvShapes
<1>3. Extends(cache[l], cache[l])
  BY <1>1, SessIs DEF Extends
<1>4. ASSUME NEW u \in Turns, u # t, TurnAtWork(turn[u]), turn[u].loop = l
      PROVE  cache'[l].made /\ Extends(cache[l], cache'[l])
  <2>1. cache[l].made
    BY <1>4 DEF ConvInv, TurnGood, Mine
  <2> QED BY <1>1, <1>2, <1>3, <2>1, LoadedIs
<1>5. Changes(l)
  BY <1>2, <1>4 DEF Changes
<1>6. CopyKeeps(l)
  BY <1>2, LoadedIs DEF CopyKeeps
<1> QED BY <1>2, <1>5, <1>6

LEMMA BeginTurnStep ==
  ASSUME ConvInv, NEW l \in Loops, BeginTurn(l)
  PROVE  ConvInv'
<1>1. /\ begun < MaxTurns /\ begun' = begun + 1 /\ cache' = [cache EXCEPT ![l] = Loaded(l)]
      /\ fresh' = Took(l)
      /\ Goes(begun', [step |-> "routing", loop |-> l]) /\ UNCHANGED <<file, stored, mishap>>
  BY DEF BeginTurn
<1>2. PICK t \in Turns : t = begun'
  BY <1>1, Begins
<1>3. /\ turn'[t] = [step |-> "routing", loop |-> l] /\ DOMAIN turn' = Turns
      /\ \A u \in Turns \ {t} : turn'[u] = turn[u]
  BY <1>1, <1>2, GoesOn
<1>4. cache'[l] = Loaded(l) /\ Loaded(l).made /\ Loaded(l) \in Sess
  BY <1>1, LoadedIs DEF ConvInv, ConvShapes
<1>5. TurnGood(t)'
  BY <1>3, <1>4 DEF TurnGood, Mine
<1>6. Changes(l) /\ CopyKeeps(l)
  BY <1>1, <1>3, <1>5, Loads
<1>7. FreshIsLater' /\ StoredTurnsStay'
  BY <1>1, <1>6, TookIs
<1>8. ~mishap' => PairsKept(cache'[l]) /\ PairsKept(file')
  BY <1>1, <1>4, LoadedIs DEF ConvInv
<1>9. begun' \in 0 .. MaxTurns /\ fresh' \subseteq Loops
  BY <1>1, Begins DEF Took, ConvInv, ConvShapes
<1> QED BY <1>1, <1>3, <1>6, <1>7, <1>8, <1>9, ConvSteps DEF ConvInv, ConvShapes

LEMMA ConvCommandStep ==
  ASSUME ConvInv, NEW l \in Loops, SlashCommand(l)
  PROVE  ConvInv'
<1>1. /\ begun < MaxTurns /\ begun' = begun + 1 /\ Quiet(l) /\ Goes(begun', Over)
  BY DEF SlashCommand
<1>2. PICK t \in Turns : t = begun' /\ begun' \in 0 .. MaxTurns
  BY <1>1, Begins
<1>3. /\ turn'[t] = Over /\ DOMAIN turn' = Turns
      /\ \A u \in Turns \ {t} : turn'[u] = turn[u]
  BY <1>1, <1>2, GoesOn
<1>4. TurnGood(t)'
  BY <1>3 DEF TurnGood, TurnAtWork, Over
<1>5. CASE /\ cache' = [cache EXCEPT ![l] = Cleared(Loaded(l))]
           /\ \/ file' = cache'[l] /\ fresh' = {l} /\ UNCHANGED mishap
              \/ NotSaved(l)
           /\ stored' = {}
  <2>1. /\ cache' \in [Loops -> Sess] /\ cache'[l] = Empty
        /\ \A m \in Loops \ {l} : cache'[m] = cache[m]
    BY <1>5, NewSessions DEF Cleared, ConvInv, ConvShapes
  <2>2. ASSUME NEW u \in Turns, u # t, TurnAtWork(turn[u]), turn[u].loop = l
        PROVE  TurnGood(u)'
    <3>1. turn[u].step = "done"
      BY <1>1, <2>2 DEF Quiet, TurnAtWork
    <3> QED BY <1>3, <2>1, <2>2, <3>1, NewSessions DEF TurnGood, Mine
  <2>3. Changes(l)
    BY <1>3, <1>4, <2>1, <2>2 DEF Changes
  <2>4. Saved(l)
    <3>1. CASE file' = cache'[l] /\ fresh' = {l} /\ UNCHANGED mishap
      BY <1>5, <2>1, <3>1, NewSessions
         DEF Saved, FreshIsLater, StoredTurnsStay, ConvInv, ConvShapes
    <3>2. CASE NotSaved(l)
      BY <1>5, <2>1, <3>2, NewSessions, NotSavedIs
    <3> QED BY <1>5, <3>1, <3>2
  <2>5. /\ ~mishap' => PairsKept(cache'[l]) /\ PairsKept(file')
        /\ stored' \subseteq Turns
    BY <1>5, <2>1, <2>4, NewSessions DEF Saved, ConvInv
  <2> QED BY <1>2, <1>3, <2>3, <2>4, <2>5, ConvSteps DEF Saved
<1>6. CASE /\ cache' = [cache EXCEPT ![l] = Loaded(l)]
           /\ Saves(l) \/ NotSaved(l)
           /\ UNCHANGED stored
  <2>1. Changes(l) /\ cache'[l] = Loaded(l) /\ CopyKeeps(l)
    BY <1>3, <1>4, <1>6, Loads
  <2>2. Saved(l)
    BY <1>6, <2>1, LoadedIs, SavesIs, NotSavedIs DEF Changes
  <2>3. ~mishap' => PairsKept(cache'[l]) /\ PairsKept(file')
    BY <2>1, <2>2, LoadedIs DEF Saved, ConvInv
  <2>4. stored' \subseteq Turns
    BY <1>6 DEF ConvInv, ConvShapes
  <2> QED BY <1>2, <1>3, <2>1, <2>2, <2>3, <2>4, ConvSteps DEF Saved
<1> QED BY <1>5, <1>6 DEF SlashCommand

LEMMA LoopEndsStep ==
  ASSUME ConvInv, NEW l \in Loops, LoopEnds(l)
  PROVE  ConvInv'
<1>1. /\ cache[l].made /\ cache' = [cache EXCEPT ![l] = NoCopy]
      /\ turn' = [t \in Turns |-> IF turn[t].step # "unborn" /\ turn[t] # Over /\ turn[t].loop = l
                                   THEN Over ELSE turn[t]]
      /\ UNCHANGED <<begun, stored>>
  BY DEF LoopEnds
<1>2. /\ cache' \in [Loops -> Sess] /\ cache'[l] = NoCopy /\ cache[l] \in Sess
      /\ \A m \in Loops \ {l} : cache'[m] = cache[m]
  BY <1>1, NewSessions DEF ConvInv, ConvShapes
<1>3. Over.step = "over"
  BY DEF Over
<1>4. \A u \in Turns :
        \/ turn'[u].step = "over"
        \/ turn'[u] = turn[u] /\ ~(TurnAtWork(turn[u]) /\ turn[u].loop = l)
  BY <1>1, <1>3 DEF TurnAtWork
<1>5. \A u \in Turns : turn'[u].step = "over" => TurnGood(u)'
  BY DEF TurnGood, TurnAtWork
<1>6. Changes(l) /\ DOMAIN turn' = Turns
  BY <1>1, <1>2, <1>4, <1>5 DEF Changes
<1>7. PairsKept(cache'[l])
  BY <1>2, NewSessions
<1>8. begun' \in 0 .. MaxTurns /\ stored' \subseteq Turns
  BY <1>1 DEF ConvInv, ConvShapes
<1>9. fresh' = fresh \ {l} /\ UNCHANGED <<file, mishap>>
  BY DEF LoopEnds
<1>10. FreshIsLater'
  BY <1>1, <1>2, <1>9 DEF ConvInv, ConvShapes, FreshIsLater
<1>11. StoredTurnsStay' /\ (~mishap' => PairsKept(file'))
  BY <1>1, <1>9 DEF ConvInv, StoredTurnsStay
<1>12. fresh' \subseteq Loops
  BY <1>9 DEF ConvInv, ConvShapes
<1> QED BY <1>6, <1>7, <1>8, <1>9, <1>10, <1>11, <1>12, ConvSteps DEF ConvInv, ConvShapes

LEMMA ConvInitially == ConvInit => ConvInv
<1> SUFFICES ASSUME ConvInit PROVE ConvInv
  OBVIOUS
<1>1. /\ file = NoCopy /\ cache = [l \in Loops |-> NoCopy]
      /\ turn = [t \in Turns |-> Unborn] /\ begun = 0 /\ fresh = {} /\ stored = {}
      /\ mishap = FALSE
  BY DEF ConvInit
<1>2. ConvShapes
  <2>1. begun \in 0 .. MaxTurns
    BY <1>1, ConversationAssumption
  <2>2. DOMAIN turn = Turns
    BY <1>1
  <2> QED BY <1>1, <2>1, <2>2, NewSessions DEF ConvShapes
<1>3. FreshIsLater /\ StoredTurnsStay
  BY <1>1 DEF FreshIsLater, StoredTurnsStay
<1>4. \A t \in Turns : turn[t].step = "unborn"
  BY <1>1 DEF Unborn
<1>5. \A t \in Turns : TurnGood(t)
  BY <1>4 DEF TurnGood, TurnAtWork
<1>6. PairsKept(file) /\ \A l \in Loops : PairsKept(cache[l])
  BY <1>1, NewSessions
<1> QED BY <1>2, <1>3, <1>5, <1>6 DEF ConvInv

LEMMA ConvStep == ConvInv /\ [ConvNext]_convVars => ConvInv'
<1> SUFFICES ASSUME ConvInv, [ConvNext]_convVars PROVE ConvInv'
  OBVIOUS
<1>1. CASE UNCHANGED convVars
  BY <1>1 DEF ConvInv, ConvShapes, FreshIsLater, StoredTurnsStay, TurnGood, Mine, convVars
<1>2. ASSUME NEW l \in Loops, BeginTurn(l) \/ SlashCommand(l) \/ LoopEnds(l)
      PROVE  ConvInv'
  BY <1>2, BeginTurnStep, ConvCommandStep, LoopEndsStep
<1>3. ASSUME NEW t \in Turns,
             \/ AskWithHistory(t) \/ AskForSummary(t)
             \/ SummaryComes(t) \/ SummaryFails(t)
             \/ AddPair(t) \/ StoreTurn(t) \/ FollowUp(t) \/ TurnFails(t)
      PROVE  ConvInv'
  BY <1>3, AskWithHistoryStep, AskForSummaryStep, SummaryComesStep, SummaryFailsStep,
     AddPairStep, StoreTurnStep, FollowUpStep, TurnFailsStep
<1> QED BY <1>1, <1>2, <1>3 DEF ConvNext

LEMMA ConvInvariance == ConvSpec => []ConvInv
BY ConvInitially, ConvStep, PTL DEF ConvSpec

\* The shapes of the session file, of the copies and of the turns.
THEOREM ConvTypeCorrect == ConvSpec => []ConvTypeOK
<1>1. ConvInv => ConvTypeOK
  BY SessIs DEF ConvInv, ConvShapes, ConvTypeOK, TurnGood, TurnAtWork
<1> QED BY <1>1, ConvInvariance, PTL

\* The messages that _process_message adds in one go are never parted, by turns
\* of the same loop or by the loops that share the file.
THEOREM AnswersFollowQuestions == ConvSpec => []PairsStayTogether
<1>1. ASSUME ConvInv PROVE PairsStayTogether
  <2>1. \A s \in Copies \cup {file} : s \in Sess /\ (~mishap => PairsKept(s))
    BY <1>1 DEF ConvInv, ConvShapes, Copies
  <2> QED BY <2>1, SessIs DEF PairsStayTogether, PairsKept
<1> QED BY <1>1, ConvInvariance, PTL

\* The summary and rolling_summary_upto, written when the model has answered, fit
\* the messages that are there by then.
THEOREM SummaryFitsItsMark == ConvSpec => []SummaryIsOfPrefix
<1>1. ASSUME ConvInv PROVE SummaryIsOfPrefix
  <2>1. \A s \in Copies \cup {file} : ~mishap => PairsKept(s)
    BY <1>1 DEF ConvInv, Copies
  <2> QED BY <2>1 DEF SummaryIsOfPrefix, PairsKept
<1> QED BY <1>1, ConvInvariance, PTL

\* A turn whose summary came, or whose conversation is not longer than get_history
\* reaches, is asked with all of it, although the history, the plan and the summary
\* were read at different times.  Without a summary that is due, of a longer one
\* only the last messages are asked with.
THEOREM AskedWithEverything == ConvSpec => []NothingForgotten
<1>1. ConvInv => NothingForgotten
  BY DEF ConvInv, TurnGood, NothingForgotten
<1> QED BY <1>1, ConvInvariance, PTL

\* A turn that was saved is lost only when a loop saves a copy older than the
\* file, or when a save is cut short.
THEOREM SavedTurnsAreKept == ConvSpec => []StoredTurnsStay
<1>1. ConvInv => StoredTurnsStay
  BY DEF ConvInv
<1> QED BY <1>1, ConvInvariance, PTL

-----------------------------------------------------------------------------
(* Part 3: the skills (SkillInstall)                                        *)

(* The installation of skills: while loaders work one at a time and no      *)
(* failure is swallowed, what the one at work has read of the journal is    *)
(* the journal as it is.                                                    *)

LoaderBusy(d) == d.step \notin {"idle", "down"}

OneBusy == \A l, m \in Loaders : LoaderBusy(at[l]) /\ LoaderBusy(at[m]) => l = m

Recovers(d) ==
  d.step = "recover" => d.seen \subseteq journal /\ \A n \in journal \ d.seen : dir[n] = "absent"

Installs(d) ==
  /\ d.step \in InstallSteps => d.skill \in Skills \ installed
  /\ d.step \in InstallSteps \ {"add"} => d.skill \in journal
  /\ d.step \in {"add", "remove"} => d.seen = journal
  /\ d.step \in {"enable", "remove"} => dir[d.skill] = "whole"

SkillInv ==
  /\ SkillTypeOK /\ PartialIsJournaled /\ InstalledStaysWhole
  /\ ~trouble => OneBusy /\ \A l \in Loaders : Recovers(at[l]) /\ Installs(at[l])

\* What a loader may be doing, by its step.
LEMMA DoingIs ==
  ASSUME SkillTypeOK, NEW l \in Loaders
  PROVE  /\ at[l] \in Doing
         /\ at[l].step \in {"idle", "down", "recover"} \cup InstallSteps
         /\ at[l].step = "recover" =>
              at[l] = [step |-> "recover", seen |-> at[l].seen] /\ at[l].seen \subseteq Skills
         /\ at[l].step \in InstallSteps =>
              /\ at[l] = [step |-> at[l].step, skill |-> at[l].skill, over |-> at[l].over,
                          seen |-> at[l].seen]
              /\ at[l].skill \in Skills /\ at[l].over \in BOOLEAN /\ at[l].seen \subseteq Skills
         /\ ~LoaderBusy(at[l]) <=> at[l] \in {Resting, Down}
<1>1. at[l] \in Doing
  BY DEF SkillTypeOK
<1>2. CASE at[l] \in {Resting, Down}
  BY <1>1, <1>2 DEF Resting, Down, InstallSteps, LoaderBusy
<1>3. CASE at[l] \in [step: {"recover"}, seen: SUBSET Skills]
  BY <1>1, <1>3 DEF Resting, Down, InstallSteps, LoaderBusy
<1>4. CASE at[l] \in [step: InstallSteps, skill: Skills, over: BOOLEAN, seen: SUBSET Skills]
  BY <1>1, <1>4 DEF Resting, Down, InstallSteps, LoaderBusy
<1> QED BY <1>1, <1>2, <1>3, <1>4 DEF Doing

LEMMA NewDoing ==
  /\ Resting \in Doing /\ Down \in Doing
  /\ \A seen \in SUBSET Skills : [step |-> "recover", seen |-> seen] \in Doing
  /\ \A step \in InstallSteps, n \in Skills, over \in BOOLEAN, seen \in SUBSET Skills :
       [step |-> step, skill |-> n, over |-> over, seen |-> seen] \in Doing
BY DEF Doing

\* What a loader at work may do next.
InstallGoesOn == [step: InstallSteps, skill: Skills, over: BOOLEAN, seen: SUBSET Skills]

GoneOn(r, step, seen) == [r EXCEPT !.step = step, !.seen = seen]
Stepped(r, step) == [r EXCEPT !.step = step]

LEMMA InstallingGoesOn ==
  ASSUME NEW r \in InstallGoesOn, NEW step \in InstallSteps, NEW seen \in SUBSET Skills
  PROVE  /\ GoneOn(r, step, seen) \in Doing
         /\ GoneOn(r, step, seen).step = step
         /\ GoneOn(r, step, seen).skill = r.skill
         /\ GoneOn(r, step, seen).seen = seen
         /\ Stepped(r, step) \in Doing
         /\ Stepped(r, step).step = step
         /\ Stepped(r, step).skill = r.skill
<1>1. GoneOn(r, step, seen) \in InstallGoesOn /\ Stepped(r, step) \in InstallGoesOn
  BY DEF InstallGoesOn, GoneOn, Stepped
<1>2. InstallGoesOn \subseteq Doing
  BY DEF InstallGoesOn, Doing
<1> QED BY <1>1, <1>2 DEF InstallGoesOn, GoneOn, Stepped

LEMMA RecoveringGoesOn ==
  ASSUME NEW r, NEW saw, NEW seen, r = [step |-> "recover", seen |-> saw]
  PROVE  [r EXCEPT !.seen = seen] = [step |-> "recover", seen |-> seen]
OBVIOUS

LEMMA LoaderAtWork ==
  ASSUME SkillInv, NEW l \in Loaders, at[l].step \in InstallSteps
  PROVE  at[l] \in InstallGoesOn
<1>1. /\ at[l] = [step |-> at[l].step, skill |-> at[l].skill, over |-> at[l].over,
                  seen |-> at[l].seen]
      /\ at[l].skill \in Skills /\ at[l].over \in BOOLEAN /\ at[l].seen \subseteq Skills
  BY DoingIs DEF SkillInv
<1> QED BY <1>1 DEF InstallGoesOn

\* One loader goes on to d, alone.
LEMMA OneGoesOn ==
  ASSUME SkillInv, NEW l \in Loaders, NEW d, Continues(l, d)
  PROVE  /\ DOMAIN at' = Loaders /\ at'[l] = d
         /\ \A m \in Loaders \ {l} : at'[m] = at[m]
         /\ d \in Doing => at' \in [Loaders -> Doing]
         /\ Alone(l) => OneBusy'
<1>1. /\ at \in [Loaders -> Doing] /\ at' = [at EXCEPT ![l] = d]
  BY DEF SkillInv, SkillTypeOK, Continues
<1>2. \A m \in Loaders : ~LoaderBusy(at[m]) <=> at[m] \in {Resting, Down}
  BY DoingIs DEF SkillInv
<1>3. /\ DOMAIN at' = Loaders /\ at'[l] = d
      /\ \A m \in Loaders \ {l} : at'[m] = at[m]
      /\ d \in Doing => at' \in [Loaders -> Doing]
  BY <1>1
<1> QED BY <1>2, <1>3 DEF OneBusy, Alone

\* The idle loaders have nothing to keep.
LEMMA IdleIs ==
  ASSUME NEW d, d \in {Resting, Down}
  PROVE  Recovers(d) /\ Installs(d) /\ Recovers(d)' /\ Installs(d)' /\ ~LoaderBusy(d)
BY DEF Resting, Down, Recovers, Installs, InstallSteps, LoaderBusy

\* A step that is not noted as trouble is one of the only loader at work.
LEMMA OnlyOne ==
  ASSUME SkillInv, NEW l \in Loaders, NEW failed \in BOOLEAN, Noted(l, failed)
  PROVE  /\ trouble' \in BOOLEAN
         /\ ~trouble' =>
              /\ ~trouble /\ Alone(l) /\ ~failed
              /\ PartialIsJournaled /\ InstalledStaysWhole
              /\ Recovers(at[l]) /\ Installs(at[l])
<1>1. trouble \in BOOLEAN
  BY DEF SkillInv, SkillTypeOK
<1>2. (~trouble') => ~trouble /\ Alone(l) /\ ~failed
  BY <1>1 DEF Noted
<1>3. trouble' \in BOOLEAN
  BY DEF Noted
<1> QED BY <1>1, <1>2, <1>3 DEF SkillInv

\* What is left to show of a step of loader l.
LEMMA LoaderSteps ==
  ASSUME SkillInv, NEW l \in Loaders, NEW d \in Doing, Continues(l, d),
         NEW failed \in BOOLEAN, Noted(l, failed),
         dir' \in [Skills -> {"absent", "partial", "whole", "torn"}],
         journal' \subseteq Skills, lost' \subseteq Skills, off' \subseteq Skills, installs' \in Nat,
         installed' \subseteq Skills,
         ~trouble' => /\ \A n \in Skills : dir'[n] = "partial" => n \in journal' \cup lost'
                      /\ \A n \in installed' : dir'[n] = "whole" /\ n \notin journal'
                      /\ Recovers(at[l])' /\ Installs(at[l])'
  PROVE  SkillInv'
<1>1. /\ at'[l] = d /\ \A m \in Loaders \ {l} : at'[m] = at[m]
      /\ at' \in [Loaders -> Doing]
      /\ Alone(l) => OneBusy'
  BY OneGoesOn
<1>2. /\ trouble' \in BOOLEAN
      /\ ~trouble' => ~trouble /\ Alone(l)
  BY OnlyOne
<1>3. SkillTypeOK'
  BY <1>1, <1>2 DEF SkillTypeOK
<1>4. PartialIsJournaled' /\ InstalledStaysWhole'
  BY DEF PartialIsJournaled, InstalledStaysWhole
<1>5. ASSUME ~trouble', NEW m \in Loaders
      PROVE  Recovers(at[m])' /\ Installs(at[m])'
  <2>1. CASE m = l
    BY <1>5, <2>1
  <2>2. CASE m # l
    <3>1. at'[m] \in {Resting, Down}
      BY <1>1, <1>2, <1>5, <2>2 DEF Alone
    <3> QED BY <3>1 DEF Resting, Down, Recovers, Installs, InstallSteps
  <2> QED BY <2>1, <2>2
<1> QED BY <1>1, <1>2, <1>3, <1>4, <1>5 DEF SkillInv

LEMMA SkillInitially == SkillInit => SkillInv
<1> SUFFICES ASSUME SkillInit PROVE SkillInv
  OBVIOUS
<1>1. \A l \in Loaders : at[l] = Down
  BY DEF SkillInit
<1>2. SkillTypeOK
  BY NewDoing DEF SkillInit, SkillTypeOK
<1>3. PartialIsJournaled /\ InstalledStaysWhole
  BY DEF SkillInit, PartialIsJournaled, InstalledStaysWhole
<1>4. OneBusy /\ \A l \in Loaders : Recovers(at[l]) /\ Installs(at[l])
  BY <1>1 DEF OneBusy, LoaderBusy, Down, Recovers, Installs, InstallSteps
<1> QED BY <1>2, <1>3, <1>4 DEF SkillInv

LEMMA ConstructStep ==
  ASSUME SkillInv, NEW l \in Loaders, Construct(l)
  PROVE  SkillInv'
<1> DEFINE d == IF journal = {} THEN Resting ELSE [step |-> "recover", seen |-> journal]
<1>1. /\ d \in Doing /\ Continues(l, d) /\ Noted(l, FALSE)
      /\ UNCHANGED <<dir, journal, lost, off, installs, installed>>
  BY NewDoing DEF Construct, SkillInv, SkillTypeOK
<1>2. at'[l] = d
  BY <1>1, OneGoesOn
<1>3. Recovers(at[l])' /\ Installs(at[l])'
  BY <1>1, <1>2 DEF Recovers, Installs, Resting, InstallSteps
<1> HIDE DEF d
<1>4. (~trouble') => PartialIsJournaled /\ InstalledStaysWhole /\ ~trouble
  BY <1>1, OnlyOne
<1> QED
  BY <1>1, <1>3, <1>4, LoaderSteps
  DEF SkillInv, SkillTypeOK, PartialIsJournaled, InstalledStaysWhole

LEMMA RecoverTreeStep ==
  ASSUME SkillInv, NEW l \in Loaders, NEW n \in Skills, RecoverTree(l, n)
  PROVE  SkillInv'
<1> DEFINE d == [at[l] EXCEPT !.seen = @ \ {n}]
<1>1. /\ at[l].step = "recover" /\ n \in at[l].seen
      /\ Continues(l, d) /\ UNCHANGED <<journal, lost, off, installs, installed>>
  BY DEF RecoverTree
<1>2. PICK failed \in BOOLEAN :
        /\ Noted(l, failed)
        /\ IF failed THEN dir' = dir ELSE dir' = [dir EXCEPT ![n] = "absent"]
  BY DEF RecoverTree
<1>3. at[l].seen \subseteq Skills /\ at[l] = [step |-> "recover", seen |-> at[l].seen]
  BY <1>1, DoingIs DEF SkillInv
<1>4. d = [step |-> "recover", seen |-> at[l].seen \ {n}]
  BY <1>3, RecoveringGoesOn
<1>5. d \in Doing
  BY <1>3, <1>4, NewDoing
<1>6. at'[l] = d
  BY <1>1, <1>5, OneGoesOn
<1>7. /\ dir \in [Skills -> {"absent", "partial", "whole", "torn"}]
      /\ dir' \in [Skills -> {"absent", "partial", "whole", "torn"}]
      /\ journal' \subseteq Skills /\ lost' \subseteq Skills /\ off' \subseteq Skills /\ installs' \in Nat
      /\ installed' \subseteq Skills
  BY <1>1, <1>2 DEF SkillInv, SkillTypeOK
<1>8. ASSUME ~trouble'
      PROVE  /\ \A k \in Skills : dir'[k] = "partial" => k \in journal' \cup lost'
             /\ \A k \in installed' : dir'[k] = "whole" /\ k \notin journal'
             /\ Recovers(at[l])' /\ Installs(at[l])'
  <2>1. /\ ~trouble /\ ~failed /\ PartialIsJournaled /\ InstalledStaysWhole /\ Recovers(at[l])
    BY <1>2, <1>8, OnlyOne
  <2>2. dir' = [dir EXCEPT ![n] = "absent"]
    BY <1>2, <2>1
  <2>3. /\ \A k \in Skills : dir[k] = "partial" => k \in journal \cup lost
        /\ \A k \in installed : dir[k] = "whole" /\ k \notin journal
        /\ at[l].seen \subseteq journal /\ \A k \in journal \ at[l].seen : dir[k] = "absent"
    BY <1>1, <2>1 DEF PartialIsJournaled, InstalledStaysWhole, Recovers
  <2>4. n \in journal /\ journal \subseteq Skills /\ installed \subseteq Skills
    BY <1>1, <2>3 DEF SkillInv, SkillTypeOK
  <2>5. /\ dir'[n] = "absent" /\ \A k \in Skills \ {n} : dir'[k] = dir[k]
    BY <2>2, <1>7
  <2>6. /\ at'[l].step = "recover" /\ at'[l].seen = at[l].seen \ {n}
    BY <1>4, <1>6
  <2>7. Recovers(at[l])'
    BY <1>1, <2>3, <2>4, <2>5, <2>6 DEF Recovers
  <2>8. Installs(at[l])'
    BY <2>6 DEF Installs, InstallSteps
  <2> QED BY <1>1, <2>3, <2>4, <2>5, <2>7, <2>8
<1> HIDE DEF d
<1> QED BY <1>1, <1>2, <1>5, <1>7, <1>8, LoaderSteps

LEMMA RecoverDoneStep ==
  ASSUME SkillInv, NEW l \in Loaders, RecoverDone(l)
  PROVE  SkillInv'
<1>1. /\ at[l].step = "recover" /\ at[l].seen = {}
      /\ Continues(l, Resting) /\ UNCHANGED <<dir, lost, off, installs, installed>>
  BY DEF RecoverDone
<1>2. PICK failed \in BOOLEAN :
        /\ Noted(l, failed)
        /\ IF failed THEN CutShort ELSE journal' = {}
  BY DEF RecoverDone
<1>3. at'[l] = Resting /\ Resting \in Doing
  BY <1>1, OneGoesOn, NewDoing
<1>4. Recovers(at[l])' /\ Installs(at[l])'
  BY <1>3 DEF Recovers, Installs, Resting, InstallSteps
<1>5. ASSUME ~trouble'
      PROVE  /\ \A k \in Skills : dir'[k] = "partial" => k \in journal' \cup lost'
             /\ \A k \in installed' : dir'[k] = "whole" /\ k \notin journal'
  <2>1. /\ ~trouble /\ ~failed /\ PartialIsJournaled /\ InstalledStaysWhole /\ Recovers(at[l])
    BY <1>2, <1>5, OnlyOne
  <2> QED BY <1>1, <1>2, <2>1 DEF PartialIsJournaled, InstalledStaysWhole, Recovers
<1> QED
  BY <1>1, <1>2, <1>3, <1>4, <1>5, LoaderSteps DEF SkillInv, SkillTypeOK, CutShort

LEMMA BeginInstallStep ==
  ASSUME SkillInv, NEW l \in Loaders, NEW n \in Skills, NEW over \in BOOLEAN,
         BeginInstall(l, n, over)
  PROVE  SkillInv'
<1> DEFINE d == At("add", n, over, journal)
<1>1. /\ Continues(l, d) /\ Noted(l, FALSE) /\ installed' = installed \ {n}
      /\ installs' = installs + 1 /\ UNCHANGED <<dir, journal, lost, off>>
  BY DEF BeginInstall
<1>2. d \in Doing
  BY NewDoing DEF At, InstallSteps, SkillInv, SkillTypeOK
<1>3. at'[l] = [step |-> "add", skill |-> n, over |-> over, seen |-> journal]
  BY <1>1, <1>2, OneGoesOn DEF At
<1>4. Recovers(at[l])' /\ Installs(at[l])'
  BY <1>1, <1>3 DEF Recovers, Installs, InstallSteps
<1> HIDE DEF d
<1>5. (~trouble') => PartialIsJournaled /\ InstalledStaysWhole /\ ~trouble
  BY <1>1, OnlyOne
<1>6. /\ dir' \in [Skills -> {"absent", "partial", "whole", "torn"}]
      /\ journal' \subseteq Skills /\ lost' \subseteq Skills /\ off' \subseteq Skills /\ installs' \in Nat
      /\ installed' \subseteq Skills
  BY <1>1 DEF SkillInv, SkillTypeOK
<1>7. (~trouble') => /\ \A k \in Skills : dir'[k] = "partial" => k \in journal' \cup lost'
                     /\ \A k \in installed' : dir'[k] = "whole" /\ k \notin journal'
  BY <1>1, <1>5 DEF PartialIsJournaled, InstalledStaysWhole
<1> QED
  BY <1>1, <1>2, <1>4, <1>6, <1>7, LoaderSteps

LEMMA JournalAddStep ==
  ASSUME SkillInv, NEW l \in Loaders, JournalAdd(l)
  PROVE  SkillInv'
<1> DEFINE d == GoneOn(at[l], "copy", {})
<1>1. /\ at[l].step = "add"
      /\ Continues(l, d) /\ UNCHANGED <<dir, off, installs, installed>>
      /\ lost' \subseteq lost
  BY DEF JournalAdd, GoneOn
<1>2. PICK failed \in BOOLEAN :
        /\ Noted(l, failed)
        /\ IF failed THEN CutShort
           ELSE /\ journal' = at[l].seen \cup {at[l].skill}
                /\ lost' = lost \ {at[l].skill}
  BY DEF JournalAdd
<1>3. at[l] \in InstallGoesOn /\ at[l].skill \in Skills /\ at[l].seen \subseteq Skills
  BY <1>1, LoaderAtWork DEF InstallGoesOn, InstallSteps
<1>4. d \in Doing /\ d.step = "copy" /\ d.skill = at[l].skill /\ d.seen = {}
  BY <1>3, InstallingGoesOn DEF InstallSteps
<1>6. at'[l] = d
  BY <1>1, <1>4, OneGoesOn
<1>7. ASSUME ~trouble'
      PROVE  /\ \A k \in Skills : dir'[k] = "partial" => k \in journal' \cup lost'
             /\ \A k \in installed' : dir'[k] = "whole" /\ k \notin journal'
             /\ Recovers(at[l])' /\ Installs(at[l])'
  <2>1. /\ ~trouble /\ ~failed /\ PartialIsJournaled /\ InstalledStaysWhole /\ Installs(at[l])
    BY <1>2, <1>7, OnlyOne
  <2>2. /\ at[l].seen = journal /\ at[l].skill \in Skills \ installed
    BY <1>1, <2>1 DEF Installs, InstallSteps
  <2>3. journal' = journal \cup {at[l].skill} /\ lost' = lost \ {at[l].skill}
    BY <1>2, <2>1, <2>2
  <2>4. at'[l].step = "copy" /\ at'[l].skill = at[l].skill
    BY <1>4, <1>6
  <2>5. Recovers(at[l])' /\ Installs(at[l])'
    BY <1>1, <2>2, <2>3, <2>4 DEF Recovers, Installs, InstallSteps
  <2> QED
    BY <1>1, <2>1, <2>2, <2>3, <2>5 DEF PartialIsJournaled, InstalledStaysWhole
<1> HIDE DEF d
<1>8. journal' \subseteq Skills
  BY <1>2, <1>3 DEF SkillInv, SkillTypeOK, CutShort
<1> QED
  BY <1>1, <1>2, <1>4, <1>7, <1>8, LoaderSteps DEF SkillInv, SkillTypeOK

LEMMA CopyBeginsStep ==
  ASSUME SkillInv, NEW l \in Loaders, CopyBegins(l)
  PROVE  SkillInv'
<1> DEFINE d == Stepped(at[l], "copying")
<1>1. /\ at[l].step = "copy" /\ Continues(l, d) /\ Noted(l, FALSE)
      /\ dir' = [dir EXCEPT ![at[l].skill] = "partial"]
      /\ UNCHANGED <<journal, lost, off, installs, installed>>
  BY DEF CopyBegins, MovesTo, Stepped
<1>2. at[l] \in InstallGoesOn /\ at[l].skill \in Skills
  BY <1>1, LoaderAtWork DEF InstallGoesOn, InstallSteps
<1>3. d \in Doing /\ d.step = "copying" /\ d.skill = at[l].skill
  BY <1>2, InstallingGoesOn DEF InstallSteps
<1>4. at'[l] = d
  BY <1>1, <1>3, OneGoesOn
<1> HIDE DEF d
<1>5. /\ dir' \in [Skills -> {"absent", "partial", "whole", "torn"}]
      /\ dir'[at[l].skill] = "partial"
      /\ \A k \in Skills \ {at[l].skill} : dir'[k] = dir[k]
  BY <1>1, <1>2 DEF SkillInv, SkillTypeOK
<1>6. ASSUME ~trouble'
      PROVE  /\ \A k \in Skills : dir'[k] = "partial" => k \in journal' \cup lost'
             /\ \A k \in installed' : dir'[k] = "whole" /\ k \notin journal'
             /\ Recovers(at[l])' /\ Installs(at[l])'
  <2>1. /\ ~trouble /\ PartialIsJournaled /\ InstalledStaysWhole /\ Installs(at[l])
    BY <1>1, <1>6, OnlyOne
  <2>2. at[l].skill \in Skills \ installed /\ at[l].skill \in journal
    BY <1>1, <2>1 DEF Installs, InstallSteps
  <2>3. Recovers(at[l])' /\ Installs(at[l])'
    BY <1>1, <1>3, <1>4, <2>2 DEF Recovers, Installs, InstallSteps
  <2>4. installed \subseteq Skills
    BY DEF SkillInv, SkillTypeOK
  <2> QED
    BY <1>1, <1>5, <2>1, <2>2, <2>3, <2>4 DEF PartialIsJournaled, InstalledStaysWhole
<1> QED
  BY <1>1, <1>3, <1>5, <1>6, LoaderSteps DEF SkillInv, SkillTypeOK

LEMMA CopyEndsStep ==
  ASSUME SkillInv, NEW l \in Loaders, CopyEnds(l)
  PROVE  SkillInv'
<1> DEFINE d == Stepped(at[l], "enable")
<1>1. /\ at[l].step = "copying" /\ Continues(l, d) /\ Noted(l, FALSE)
      /\ dir' = [dir EXCEPT ![at[l].skill] = "whole"]
      /\ UNCHANGED <<journal, lost, off, installs, installed>>
  BY DEF CopyEnds, MovesTo, Stepped
<1>2. at[l] \in InstallGoesOn /\ at[l].skill \in Skills
  BY <1>1, LoaderAtWork DEF InstallGoesOn, InstallSteps
<1>3. d \in Doing /\ d.step = "enable" /\ d.skill = at[l].skill
  BY <1>2, InstallingGoesOn DEF InstallSteps
<1>4. at'[l] = d
  BY <1>1, <1>3, OneGoesOn
<1> HIDE DEF d
<1>5. /\ dir' \in [Skills -> {"absent", "partial", "whole", "torn"}]
      /\ dir'[at[l].skill] = "whole"
      /\ \A k \in Skills \ {at[l].skill} : dir'[k] = dir[k]
  BY <1>1, <1>2 DEF SkillInv, SkillTypeOK
<1>6. ASSUME ~trouble'
      PROVE  /\ \A k \in Skills : dir'[k] = "partial" => k \in journal' \cup lost'
             /\ \A k \in installed' : dir'[k] = "whole" /\ k \notin journal'
             /\ Recovers(at[l])' /\ Installs(at[l])'
  <2>1. /\ ~trouble /\ PartialIsJournaled /\ InstalledStaysWhole /\ Installs(at[l])
    BY <1>1, <1>6, OnlyOne
  <2>2. at[l].skill \in Skills \ installed /\ at[l].skill \in journal
    BY <1>1, <2>1 DEF Installs, InstallSteps
  <2>3. Recovers(at[l])' /\ Installs(at[l])'
    BY <1>1, <1>3, <1>4, <1>5, <2>2 DEF Recovers, Installs, InstallSteps
  <2>4. installed \subseteq Skills
    BY DEF SkillInv, SkillTypeOK
  <2> QED
    BY <1>1, <1>5, <2>1, <2>2, <2>3, <2>4 DEF PartialIsJournaled, InstalledStaysWhole
<1> QED
  BY <1>1, <1>3, <1>5, <1>6, LoaderSteps DEF SkillInv, SkillTypeOK

LEMMA InstallRaisesStep ==
  ASSUME SkillInv, NEW l \in Loaders, InstallRaises(l)
  PROVE  SkillInv'
<1>1. /\ at[l].step \in {"copy", "copying", "enable"}
      /\ \/ dir' = dir
         \/ dir' = [dir EXCEPT ![at[l].skill] = "partial"]
      /\ Continues(l, Resting) /\ Noted(l, FALSE)
      /\ UNCHANGED <<journal, lost, off, installs, installed>>
  BY DEF InstallRaises
<1>2. at[l] \in InstallGoesOn /\ at[l].skill \in Skills
  BY <1>1, LoaderAtWork DEF InstallGoesOn, InstallSteps
<1>3. at'[l] = Resting /\ Resting \in Doing
  BY <1>1, OneGoesOn, NewDoing
<1>4. /\ dir' \in [Skills -> {"absent", "partial", "whole", "torn"}]
      /\ \A k \in Skills \ {at[l].skill} : dir'[k] = dir[k]
  BY <1>1, <1>2 DEF SkillInv, SkillTypeOK
<1>5. Recovers(at[l])' /\ Installs(at[l])'
  BY <1>3 DEF Recovers, Installs, Resting, InstallSteps
<1>6. ASSUME ~trouble'
      PROVE  /\ \A k \in Skills : dir'[k] = "partial" => k \in journal' \cup lost'
             /\ \A k \in installed' : dir'[k] = "whole" /\ k \notin journal'
  <2>1. /\ ~trouble /\ PartialIsJournaled /\ InstalledStaysWhole /\ Installs(at[l])
    BY <1>1, <1>6, OnlyOne
  <2>2. at[l].skill \in Skills \ installed /\ at[l].skill \in journal
    BY <1>1, <2>1 DEF Installs, InstallSteps
  <2>3. installed \subseteq Skills
    BY DEF SkillInv, SkillTypeOK
  <2> QED BY <1>1, <1>4, <2>1, <2>2, <2>3 DEF PartialIsJournaled, InstalledStaysWhole
<1> QED
  BY <1>1, <1>3, <1>4, <1>5, <1>6, LoaderSteps DEF SkillInv, SkillTypeOK

LEMMA EnableStep ==
  ASSUME SkillInv, NEW l \in Loaders, Enable(l)
  PROVE  SkillInv'
<1> DEFINE d == GoneOn(at[l], "remove", journal)
<1>1. /\ at[l].step = "enable" /\ Continues(l, d) /\ Noted(l, FALSE)
      /\ UNCHANGED <<dir, journal, lost, installs, installed>>
      /\ off' = off \/ off' = off \ {at[l].skill}
  BY DEF Enable, GoneOn
<1>2. at[l] \in InstallGoesOn /\ at[l].skill \in Skills /\ journal \in SUBSET Skills
  BY <1>1, LoaderAtWork DEF InstallGoesOn, InstallSteps, SkillInv, SkillTypeOK
<1>3. d \in Doing /\ d.step = "remove" /\ d.skill = at[l].skill /\ d.seen = journal
  BY <1>2, InstallingGoesOn DEF InstallSteps
<1>4. at'[l] = d
  BY <1>1, <1>3, OneGoesOn
<1> HIDE DEF d
<1>5. ASSUME ~trouble'
      PROVE  /\ \A k \in Skills : dir'[k] = "partial" => k \in journal' \cup lost'
             /\ \A k \in installed' : dir'[k] = "whole" /\ k \notin journal'
             /\ Recovers(at[l])' /\ Installs(at[l])'
  <2>1. /\ ~trouble /\ PartialIsJournaled /\ InstalledStaysWhole /\ Installs(at[l])
    BY <1>1, <1>5, OnlyOne
  <2>2. /\ at[l].skill \in Skills \ installed /\ at[l].skill \in journal
        /\ dir[at[l].skill] = "whole"
    BY <1>1, <2>1 DEF Installs, InstallSteps
  <2>3. Recovers(at[l])' /\ Installs(at[l])'
    BY <1>1, <1>3, <1>4, <2>2 DEF Recovers, Installs, InstallSteps
  <2> QED BY <1>1, <2>1, <2>3 DEF PartialIsJournaled, InstalledStaysWhole
<1>6. /\ dir' \in [Skills -> {"absent", "partial", "whole", "torn"}]
      /\ journal' \subseteq Skills /\ lost' \subseteq Skills /\ off' \subseteq Skills /\ installs' \in Nat
      /\ installed' \subseteq Skills
  BY <1>1 DEF SkillInv, SkillTypeOK
<1> QED BY <1>1, <1>3, <1>5, <1>6, LoaderSteps

LEMMA JournalRemoveStep ==
  ASSUME SkillInv, NEW l \in Loaders, JournalRemove(l)
  PROVE  SkillInv'
<1>1. /\ at[l].step = "remove" /\ Continues(l, Resting)
      /\ installed' = installed \cup {at[l].skill} /\ UNCHANGED <<dir, lost, off, installs>>
  BY DEF JournalRemove
<1>2. PICK failed \in BOOLEAN :
        /\ Noted(l, failed)
        /\ IF failed THEN CutShort ELSE journal' = at[l].seen \ {at[l].skill}
  BY DEF JournalRemove, CrossedOut
<1>3. at[l] \in InstallGoesOn /\ at[l].skill \in Skills /\ at[l].seen \subseteq Skills
  BY <1>1, LoaderAtWork DEF InstallGoesOn, InstallSteps
<1>4. at'[l] = Resting /\ Resting \in Doing
  BY <1>1, OneGoesOn, NewDoing
<1>5. Recovers(at[l])' /\ Installs(at[l])'
  BY <1>4 DEF Recovers, Installs, Resting, InstallSteps
<1>6. ASSUME ~trouble'
      PROVE  /\ \A k \in Skills : dir'[k] = "partial" => k \in journal' \cup lost'
             /\ \A k \in installed' : dir'[k] = "whole" /\ k \notin journal'
  <2>1. /\ ~trouble /\ ~failed /\ PartialIsJournaled /\ InstalledStaysWhole /\ Installs(at[l])
    BY <1>2, <1>6, OnlyOne
  <2>2. /\ at[l].seen = journal /\ dir[at[l].skill] = "whole"
    BY <1>1, <2>1 DEF Installs, InstallSteps
  <2>3. journal' = journal \ {at[l].skill}
    BY <1>2, <2>1, <2>2
  <2> QED BY <1>1, <2>1, <2>2, <2>3 DEF PartialIsJournaled, InstalledStaysWhole
<1>7. /\ dir' \in [Skills -> {"absent", "partial", "whole", "torn"}]
      /\ journal' \subseteq Skills /\ lost' \subseteq Skills /\ off' \subseteq Skills /\ installs' \in Nat
      /\ installed' \subseteq Skills
  BY <1>1, <1>2, <1>3 DEF SkillInv, SkillTypeOK, CutShort
<1> QED BY <1>1, <1>2, <1>4, <1>5, <1>6, <1>7, LoaderSteps

LEMMA UninstallStep ==
  ASSUME SkillInv, NEW l \in Loaders, NEW n \in Skills, Uninstall(l, n)
  PROVE  SkillInv'
<1>1. PICK d \in {Resting, Down} : Continues(l, d)
  <2>1. CASE at' = at
    <3>1. at' = [at EXCEPT ![l] = Resting]
      BY <2>1 DEF Uninstall, SkillInv, SkillTypeOK
    <3> QED BY <3>1 DEF Continues
  <2>2. CASE Continues(l, Down)
    BY <2>2
  <2> QED BY <2>1, <2>2 DEF Uninstall
<1>2. /\ Noted(l, FALSE) /\ installed' = installed \ {n} /\ UNCHANGED <<journal, lost, installs>>
      /\ off' \subseteq off
      /\ \/ dir' = [dir EXCEPT ![n] = "absent"]
         \/ dir' = [dir EXCEPT ![n] = "torn"]
  BY DEF Uninstall
<1>3. d \in Doing /\ at'[l] = d
  BY <1>1, OneGoesOn, NewDoing
<1>4. Recovers(at[l])' /\ Installs(at[l])'
  BY <1>3 DEF Recovers, Installs, Resting, Down, InstallSteps
<1>5. /\ dir' \in [Skills -> {"absent", "partial", "whole", "torn"}]
      /\ dir'[n] # "partial" /\ \A k \in Skills \ {n} : dir'[k] = dir[k]
      /\ journal' \subseteq Skills /\ lost' \subseteq Skills /\ off' \subseteq Skills /\ installs' \in Nat
      /\ installed' \subseteq Skills /\ installed \subseteq Skills
  BY <1>2 DEF SkillInv, SkillTypeOK
<1>6. (~trouble') => PartialIsJournaled /\ InstalledStaysWhole /\ ~trouble
  BY <1>2, OnlyOne
<1>7. (~trouble') => /\ \A k \in Skills : dir'[k] = "partial" => k \in journal' \cup lost'
                     /\ \A k \in installed' : dir'[k] = "whole" /\ k \notin journal'
  BY <1>2, <1>5, <1>6 DEF PartialIsJournaled, InstalledStaysWhole
<1> QED BY <1>1, <1>2, <1>3, <1>4, <1>5, <1>7, LoaderSteps

LEMMA ToggleStep ==
  ASSUME SkillInv, NEW l \in Loaders, NEW n \in Skills, Toggle(l, n)
  PROVE  SkillInv'
<1>1. Continues(l, Resting) /\ Resting \in Doing
  BY NewDoing DEF Toggle, Continues, SkillInv, SkillTypeOK
<1>2. /\ Noted(l, FALSE) /\ UNCHANGED <<dir, journal, lost, installs, installed>>
      /\ off' \subseteq off \cup {n}
  BY DEF Toggle
<1>3. at'[l] = Resting
  BY <1>1, OneGoesOn
<1>4. Recovers(at[l])' /\ Installs(at[l])'
  BY <1>3 DEF Recovers, Installs, Resting, InstallSteps
<1>5. (~trouble') => PartialIsJournaled /\ InstalledStaysWhole /\ ~trouble
  BY <1>2, OnlyOne
<1>6. /\ dir' \in [Skills -> {"absent", "partial", "whole", "torn"}]
      /\ journal' \subseteq Skills /\ lost' \subseteq Skills /\ off' \subseteq Skills /\ installs' \in Nat
      /\ installed' \subseteq Skills
  BY <1>2 DEF SkillInv, SkillTypeOK
<1> QED
  BY <1>1, <1>2, <1>4, <1>5, <1>6, LoaderSteps DEF PartialIsJournaled, InstalledStaysWhole

\* The process may end inside a write of the journal: only its own loader was
\* at work, and what the journal named is in it still, or lost, or recovered.
LEMMA LoaderEndsStep ==
  ASSUME SkillInv, NEW l \in Loaders, Crash(l)
  PROVE  SkillInv'
<1>1. /\ Continues(l, Down) /\ Down \in Doing
      /\ UNCHANGED <<dir, off, installs, trouble, installed>>
      /\ \/ UNCHANGED <<journal, lost>>
         \/ LoaderBusy(at[l]) /\ journal' = {} /\ lost' = lost \cup journal
         \/ /\ LoaderBusy(at[l]) /\ journal' = {} /\ lost' = lost
            /\ at[l].step = "recover" /\ at[l].seen = {}
  BY NewDoing DEF Crash, LoaderBusy
<1>2. /\ at'[l] = Down /\ \A m \in Loaders \ {l} : at'[m] = at[m]
      /\ at' \in [Loaders -> Doing]
  BY <1>1, OneGoesOn
<1>3. SkillTypeOK'
  BY <1>1, <1>2 DEF SkillInv, SkillTypeOK
<1>4. (~trouble) => OneBusy'
  BY <1>2 DEF SkillInv, OneBusy, LoaderBusy, Down
<1>5. ASSUME ~trouble, NEW m \in Loaders
      PROVE  Recovers(at[m])' /\ Installs(at[m])'
  <2>1. CASE m = l
    BY <1>2, <2>1 DEF Recovers, Installs, Down, InstallSteps
  <2>2. CASE m # l /\ UNCHANGED <<journal, lost>>
    BY <1>1, <1>2, <1>5, <2>2 DEF SkillInv, Recovers, Installs
  <2>3. CASE m # l /\ LoaderBusy(at[l])
    <3>1. at'[m] \in {Resting, Down}
      BY <1>2, <1>5, <2>3, DoingIs DEF SkillInv, OneBusy
    <3> QED BY <3>1 DEF Resting, Down, Recovers, Installs, InstallSteps
  <2> QED BY <1>1, <2>1, <2>2, <2>3
<1>6. PartialIsJournaled' /\ InstalledStaysWhole'
  <2> SUFFICES ASSUME ~trouble'
               PROVE  /\ \A k \in Skills : dir'[k] = "partial" => k \in journal' \cup lost'
                      /\ \A k \in installed' : dir'[k] = "whole" /\ k \notin journal'
    BY DEF PartialIsJournaled, InstalledStaysWhole
  <2>1. /\ PartialIsJournaled /\ InstalledStaysWhole /\ Recovers(at[l]) /\ ~trouble
    BY <1>1 DEF SkillInv
  <2> QED BY <1>1, <2>1 DEF PartialIsJournaled, InstalledStaysWhole, Recovers
<1> QED BY <1>1, <1>3, <1>4, <1>5, <1>6 DEF SkillInv

LEMMA SkillStep == SkillInv /\ [SkillNext]_skillVars => SkillInv'
<1> SUFFICES ASSUME SkillInv, [SkillNext]_skillVars PROVE SkillInv'
  OBVIOUS
<1>1. CASE UNCHANGED skillVars
  BY <1>1
  DEF SkillInv, SkillTypeOK, PartialIsJournaled, InstalledStaysWhole, OneBusy, Recovers,
      Installs, skillVars
<1>2. ASSUME NEW l \in Loaders,
             \/ Construct(l) \/ RecoverDone(l)
             \/ JournalAdd(l) \/ CopyBegins(l) \/ CopyEnds(l) \/ InstallRaises(l)
             \/ Enable(l) \/ JournalRemove(l) \/ Crash(l)
      PROVE  SkillInv'
  BY <1>2, ConstructStep, RecoverDoneStep, JournalAddStep, CopyBeginsStep, CopyEndsStep,
     InstallRaisesStep, EnableStep, JournalRemoveStep, LoaderEndsStep
<1>3. ASSUME NEW l \in Loaders, NEW n \in Skills,
             \/ RecoverTree(l, n) \/ Uninstall(l, n) \/ Toggle(l, n)
             \/ \E over \in BOOLEAN : BeginInstall(l, n, over)
      PROVE  SkillInv'
  BY <1>3, RecoverTreeStep, UninstallStep, ToggleStep, BeginInstallStep
<1> QED BY <1>1, <1>2, <1>3 DEF SkillNext

LEMMA SkillInvariance == SkillSpec => []SkillInv
BY SkillInitially, SkillStep, PTL DEF SkillSpec

\* The shapes of the state of the skills' directories, journal and loaders.
THEOREM SkillTypeCorrect == SkillSpec => []SkillTypeOK
<1>1. SkillInv => SkillTypeOK
  BY DEF SkillInv
<1> QED BY <1>1, SkillInvariance, PTL

\* However an install is cut short, the next SkillsLoader finds the partial copy
\* in the journal that _install_skill_tree wrote before it copied, unless a
\* later write of the journal was itself cut short and took the name with it.
THEOREM CutShortIsFound == SkillSpec => []PartialIsJournaled
<1>1. SkillInv => PartialIsJournaled
  BY DEF SkillInv
<1> QED BY <1>1, SkillInvariance, PTL

\* The recovery of a later loader never deletes what an install has reported
\* done: it is whole and the journal does not name it.
THEOREM RecoverySparesInstalled == SkillSpec => []InstalledStaysWhole
<1>1. SkillInv => InstalledStaysWhole
  BY DEF SkillInv
<1> QED BY <1>1, SkillInvariance, PTL

-----------------------------------------------------------------------------
(* Part 4: the audit chain (AuditChain)                                     *)

(* The audit chain: a record that is alone on its way has the hash of what   *)
(* is still the last line of the file it goes to.                           *)

Line0 == [id: Records, prev: {NoHash} \cup Records]

AuditShapes ==
  /\ log \in [Days -> Seq(Line0 \cup {Garbage})]
  /\ rec \in [Records -> [step: {"none", "hashed", "queued", "over"}, worker: Workers \cup {NoWorker},
                          prev: {NoHash} \cup Records, path: Days]]
  /\ day \in Days /\ made \in 0 .. MaxRecords /\ torn \subseteq Days

OnlyMade ==
  /\ \A r \in Records : r > made => rec[r].step = "none"
  /\ \A r \in alone : r \in Records /\ r <= made
  /\ \A d \in Days : \A i \in 1 .. Len(log[d]) : log[d][i] # Garbage => log[d][i].id <= made

AloneExtends ==
  \A r \in alone : rec[r].step \in {"hashed", "queued"} =>
    /\ \A q \in OnItsWay : q = r
    /\ rec[r].path = day /\ rec[r].prev = PrevHash(log[day])

AuditInv == AuditShapes /\ OnlyMade /\ AloneExtends /\ ChainBreaksOnlyOnOverlap

LEMMA AuditConstants ==
  /\ MaxRecords \in Nat /\ MaxDay \in Nat /\ 1 \in Days
  /\ \A d \in Days : d \in Nat
  /\ \A r \in Records : r \in Nat
BY AuditAssumption DEF Days, Records

\* A line is a record's or it is garbage, and never both.
LEMMA LineIs ==
  ASSUME AuditShapes, NEW d \in Days, NEW i \in 1 .. Len(log[d])
  PROVE  /\ log[d] \in Seq(Line0 \cup {Garbage}) /\ DOMAIN log[d] = 1 .. Len(log[d])
         /\ log[d][i] \in Line0 \cup {Garbage}
         /\ log[d][i] # Garbage => log[d][i].id \in Records /\ log[d][i].prev \in {NoHash} \cup Records
<1>1. log[d] \in Seq(Line0 \cup {Garbage})
  BY DEF AuditShapes
<1>2. log[d][i] \in Line0 \cup {Garbage} /\ DOMAIN log[d] = 1 .. Len(log[d])
  BY <1>1
<1> QED BY <1>1, <1>2 DEF Line0

\* The hash of the last line.
LEMMA PrevHashIs ==
  ASSUME AuditShapes, NEW d \in Days
  PROVE  PrevHash(log[d]) \in {NoHash} \cup Records
<1>1. log[d] \in Seq(Line0 \cup {Garbage})
  BY DEF AuditShapes
<1>2. CASE log[d] = << >>
  BY <1>2 DEF PrevHash
<1>3. CASE log[d] # << >>
  <2>1. Len(log[d]) \in 1 .. Len(log[d])
    BY <1>1, <1>3
  <2> QED BY <2>1, LineIs DEF PrevHash
<1> QED BY <1>2, <1>3

LEMMA AuditInitially == AuditInit => AuditInv
<1> SUFFICES ASSUME AuditInit PROVE AuditInv
  OBVIOUS
<1>1. log = [d \in Days |-> << >>]
  BY DEF AuditInit
<1>2. /\ day = 1 /\ made = 0 /\ alone = {} /\ torn = {}
      /\ rec = [r \in Records |-> [step |-> "none", worker |-> NoWorker, prev |-> NoHash, path |-> 1]]
  BY DEF AuditInit
<1>3. PICK none : none = << >>
  OBVIOUS
<1>4. none \in Seq(Line0 \cup {Garbage}) /\ Len(none) = 0 /\ DOMAIN none = {}
  BY <1>3
<1>5. /\ log \in [Days -> Seq(Line0 \cup {Garbage})]
      /\ \A d \in Days : Len(log[d]) = 0 /\ DOMAIN log[d] = {}
  BY <1>1, <1>3, <1>4, Zenon
<1>6. AuditShapes
  BY <1>2, <1>5, AuditConstants DEF AuditShapes
<1>7. OnlyMade
  BY <1>2, <1>5 DEF OnlyMade
<1>8. AloneExtends /\ ChainBreaksOnlyOnOverlap
  BY <1>2, <1>5 DEF AloneExtends, ChainBreaksOnlyOnOverlap
<1> QED BY <1>6, <1>7, <1>8 DEF AuditInv

LEMMA MakeRecordStep ==
  ASSUME AuditInv, NEW w \in Workers, MakeRecord(w)
  PROVE  AuditInv'
<1> DEFINE new == [step |-> "hashed", worker |-> w, prev |-> PrevHash(log[day]), path |-> day]
<1>1. /\ made < MaxRecords /\ made' = made + 1 /\ rec' = [rec EXCEPT ![made + 1] = new]
      /\ alone' = IF OnItsWay = {} THEN alone \cup {made + 1} ELSE alone \ OnItsWay
      /\ UNCHANGED <<log, day, torn>>
  BY DEF MakeRecord
<1>2. AuditShapes /\ OnlyMade /\ AloneExtends /\ ChainBreaksOnlyOnOverlap
  BY DEF AuditInv
<1>3. made + 1 \in Records /\ made' \in 0 .. MaxRecords /\ made \in Nat
  BY <1>1, <1>2, AuditConstants DEF AuditShapes, Records
<1>4. new.prev \in {NoHash} \cup Records
  BY <1>2, PrevHashIs DEF AuditShapes
<1>5. /\ rec' \in [Records -> [step: {"none", "hashed", "queued", "over"},
                               worker: Workers \cup {NoWorker}, prev: {NoHash} \cup Records, path: Days]]
      /\ rec'[made + 1] = new /\ \A r \in Records \ {made + 1} : rec'[r] = rec[r]
  BY <1>1, <1>2, <1>3, <1>4 DEF AuditShapes
<1>6. AuditShapes'
  BY <1>1, <1>2, <1>3, <1>5 DEF AuditShapes
<1>7. OnlyMade'
  <2>1. \A r \in Records : r > made' => rec'[r].step = "none"
    BY <1>1, <1>2, <1>3, <1>5, AuditConstants DEF OnlyMade
  <2>2. \A r \in alone' : r \in Records /\ r <= made'
    BY <1>1, <1>2, <1>3, AuditConstants DEF OnlyMade
  <2>3. ASSUME NEW d \in Days, NEW i \in 1 .. Len(log[d]), log[d][i] # Garbage
        PROVE  log[d][i].id <= made'
    <3>1. log[d][i].id \in Records /\ log[d][i].id <= made
      BY <1>2, <2>3, LineIs DEF OnlyMade
    <3> QED BY <1>1, <1>3, <3>1, AuditConstants
  <2> QED BY <1>1, <2>1, <2>2, <2>3 DEF OnlyMade
<1>8. AloneExtends'
  <2>1. OnItsWay' = OnItsWay \cup {made + 1}
    BY <1>3, <1>5 DEF OnItsWay
  <2>2. made + 1 \notin alone
    BY <1>2, <1>3 DEF OnlyMade
  <2>3. CASE OnItsWay = {}
    <3>1. \A r \in alone : rec'[r].step \notin {"hashed", "queued"}
      BY <1>2, <1>5, <2>2, <2>3 DEF OnItsWay, OnlyMade
    <3> QED BY <1>1, <1>5, <2>1, <2>3, <3>1 DEF AloneExtends
  <2>4. CASE OnItsWay # {}
    <3>1. \A r \in alone' : r \in Records /\ r # made + 1 /\ r \notin OnItsWay
      BY <1>1, <1>2, <2>2, <2>4 DEF OnlyMade
    <3>2. \A r \in alone' : rec'[r].step \notin {"hashed", "queued"}
      BY <1>5, <3>1 DEF OnItsWay
    <3> QED BY <3>2 DEF AloneExtends
  <2> QED BY <2>3, <2>4
<1>9. ChainBreaksOnlyOnOverlap'
  <2>1. ASSUME NEW d \in Days, NEW i \in DOMAIN log[d], BrokenAt(log[d], i), log[d][i] # Garbage,
               log[d][i].id \in alone'
        PROVE  i > 1 /\ log[d][i - 1] = Garbage
    <3>1. i \in 1 .. Len(log[d])
      BY <1>2 DEF AuditShapes
    <3>2. log[d][i].id \in Records /\ log[d][i].id <= made
      BY <1>2, <2>1, <3>1, LineIs DEF OnlyMade
    <3>3. log[d][i].id \in alone
      BY <1>1, <1>3, <2>1, <3>2, AuditConstants
    <3> QED BY <1>2, <2>1, <3>3 DEF ChainBreaksOnlyOnOverlap
  <2> QED BY <1>1, <2>1 DEF ChainBreaksOnlyOnOverlap, BrokenAt
<1> QED BY <1>6, <1>7, <1>8, <1>9 DEF AuditInv

LEMMA QueueStep ==
  ASSUME AuditInv, NEW r \in Records, Queue(r)
  PROVE  AuditInv'
<1>1. /\ rec[r].step = "hashed"
      /\ rec' = [rec EXCEPT ![r].step = "queued", ![r].path = day]
      /\ UNCHANGED <<log, day, made, alone, torn>>
  BY DEF Queue
<1>2. AuditShapes /\ OnlyMade /\ AloneExtends /\ ChainBreaksOnlyOnOverlap
  BY DEF AuditInv
<1>3. /\ rec' \in [Records -> [step: {"none", "hashed", "queued", "over"},
                               worker: Workers \cup {NoWorker}, prev: {NoHash} \cup Records, path: Days]]
      /\ rec'[r].step = "queued" /\ rec'[r].path = day /\ rec'[r].prev = rec[r].prev
      /\ \A q \in Records \ {r} : rec'[q] = rec[q]
  BY <1>1, <1>2 DEF AuditShapes
<1>4. AuditShapes'
  BY <1>1, <1>2, <1>3 DEF AuditShapes
<1>5. OnlyMade'
  BY <1>1, <1>2, <1>3 DEF OnlyMade
<1>6. OnItsWay' = OnItsWay
  BY <1>1, <1>3 DEF OnItsWay
<1>7. AloneExtends'
  <2>1. ASSUME NEW q \in alone, rec'[q].step \in {"hashed", "queued"}
        PROVE  /\ \A p \in OnItsWay : p = q
               /\ rec'[q].path = day /\ rec'[q].prev = PrevHash(log[day])
    <3>1. q \in Records /\ rec[q].step \in {"hashed", "queued"}
      BY <1>1, <1>2, <1>3, <2>1 DEF OnlyMade
    <3> QED BY <1>2, <1>3, <3>1 DEF AloneExtends
  <2> QED BY <1>1, <1>6, <2>1 DEF AloneExtends
<1>8. ChainBreaksOnlyOnOverlap'
  BY <1>1, <1>2 DEF ChainBreaksOnlyOnOverlap, BrokenAt
<1> QED BY <1>4, <1>5, <1>7, <1>8 DEF AuditInv

\* A record that leaves its way, alone or not, leaves no other one alone there.
LEMMA Leaves ==
  ASSUME AuditInv, NEW r \in Records, Ends(r), rec[r].step \in {"hashed", "queued"},
         UNCHANGED alone
  PROVE  /\ rec' \in [Records -> [step: {"none", "hashed", "queued", "over"},
                               worker: Workers \cup {NoWorker}, prev: {NoHash} \cup Records, path: Days]]
         /\ AloneExtends'
         /\ \A q \in Records : rec[q].step = "none" => rec'[q].step = "none"
<1>1. AuditShapes /\ OnlyMade /\ AloneExtends
  BY DEF AuditInv
<1>2. /\ rec' \in [Records -> [step: {"none", "hashed", "queued", "over"},
                               worker: Workers \cup {NoWorker}, prev: {NoHash} \cup Records, path: Days]]
      /\ rec'[r].step = "over" /\ \A q \in Records \ {r} : rec'[q] = rec[q]
  BY <1>1 DEF AuditShapes, Ends
<1>3. ASSUME NEW q \in alone, rec'[q].step \in {"hashed", "queued"}
      PROVE  FALSE
  <2>1. q \in Records /\ q # r /\ rec[q].step \in {"hashed", "queued"}
    BY <1>1, <1>2, <1>3 DEF OnlyMade
  <2>2. r \in OnItsWay
    BY DEF OnItsWay
  <2> QED BY <1>1, <2>1, <2>2 DEF AloneExtends
<1>4. AloneExtends'
  BY <1>3 DEF AloneExtends
<1> QED BY <1>2, <1>4

\* One more line of a file.
LEMMA OneMoreLine ==
  ASSUME AuditInv, NEW d \in Days, NEW line \in Line0 \cup {Garbage},
         log' = [log EXCEPT ![d] = Append(@, line)],
         alone' = alone, made' = made,
         line # Garbage => line.id <= made,
         line # Garbage /\ line.id \in alone => line.prev = PrevHash(log[d])
  PROVE  /\ log' \in [Days -> Seq(Line0 \cup {Garbage})]
         /\ \A e \in Days : \A i \in 1 .. Len(log'[e]) :
              log'[e][i] # Garbage => log'[e][i].id <= made'
         /\ ChainBreaksOnlyOnOverlap'
<1>1. AuditShapes /\ OnlyMade /\ ChainBreaksOnlyOnOverlap
  BY DEF AuditInv
<1>2. /\ log' \in [Days -> Seq(Line0 \cup {Garbage})]
      /\ log'[d] = Append(log[d], line)
      /\ \A e \in Days \ {d} : log'[e] = log[e]
  BY <1>1 DEF AuditShapes
<1>3. log[d] \in Seq(Line0 \cup {Garbage}) /\ Len(log[d]) \in Nat
  BY <1>1 DEF AuditShapes
<1>4. /\ Len(log'[d]) = Len(log[d]) + 1 /\ DOMAIN log'[d] = 1 .. Len(log[d]) + 1
      /\ log'[d][Len(log[d]) + 1] = line
      /\ \A i \in 1 .. Len(log[d]) : log'[d][i] = log[d][i]
      /\ DOMAIN log[d] = 1 .. Len(log[d])
  BY <1>2, <1>3
<1>5. ASSUME NEW e \in Days, NEW i \in 1 .. Len(log'[e]), log'[e][i] # Garbage
      PROVE  log'[e][i].id <= made'
  <2>1. CASE e # d
    BY <1>1, <1>2, <1>5, <2>1 DEF OnlyMade
  <2>2. CASE e = d /\ i = Len(log[d]) + 1
    BY <1>4, <1>5, <2>2
  <2>3. CASE e = d /\ i # Len(log[d]) + 1
    <3>1. i \in 1 .. Len(log[d])
      BY <1>3, <1>4, <2>3
    <3> QED BY <1>1, <1>4, <1>5, <2>3, <3>1 DEF OnlyMade
  <2> QED BY <2>1, <2>2, <2>3
<1>6. ASSUME NEW e \in Days, NEW i \in DOMAIN log'[e], BrokenAt(log'[e], i),
             log'[e][i] # Garbage, log'[e][i].id \in alone
      PROVE  i > 1 /\ log'[e][i - 1] = Garbage
  <2>1. CASE e # d
    <3>1. i \in DOMAIN log[e] /\ BrokenAt(log[e], i) /\ log[e][i] # Garbage
            /\ log[e][i].id \in alone
      BY <1>2, <1>6, <2>1
    <3> QED BY <1>1, <1>2, <2>1, <3>1 DEF ChainBreaksOnlyOnOverlap
  <2>2. CASE e = d /\ i = Len(log[d]) + 1
    <3>1. log'[d][i] = line /\ line # Garbage /\ line.prev = PrevHash(log[d])
      BY <1>4, <1>6, <2>2
    <3>2. CASE log[d] = << >>
      <4>1. i = 1 /\ line.prev = NoHash
        BY <2>2, <3>1, <3>2 DEF PrevHash
      <4> QED BY <1>6, <2>2, <3>1, <4>1 DEF BrokenAt
    <3>3. CASE log[d] # << >>
      <4>1. Len(log[d]) \in 1 .. Len(log[d]) /\ i > 1 /\ i - 1 = Len(log[d])
        BY <1>3, <2>2, <3>3
      <4>2. log'[d][i - 1] = log[d][Len(log[d])]
        BY <1>4, <4>1
      <4>3. log[d][Len(log[d])] # Garbage => line.prev = log'[d][i - 1].id
        BY <3>1, <3>3, <4>2 DEF PrevHash
      <4>4. line.prev # log'[d][i - 1].id
        BY <1>6, <2>2, <3>1, <4>1 DEF BrokenAt
      <4> QED BY <2>2, <4>1, <4>2, <4>3, <4>4
    <3> QED BY <3>2, <3>3
  <2>3. CASE e = d /\ i # Len(log[d]) + 1
    <3>1. i \in 1 .. Len(log[d]) /\ (i # 1 => i - 1 \in 1 .. Len(log[d]))
      BY <1>3, <1>4, <1>6, <2>3
    <3>2. log'[d][i] = log[d][i] /\ (i # 1 => log'[d][i - 1] = log[d][i - 1])
      BY <1>4, <3>1
    <3>3. BrokenAt(log[d], i) /\ log[d][i] # Garbage /\ log[d][i].id \in alone
      BY <1>6, <2>3, <3>2 DEF BrokenAt
    <3>4. i > 1 /\ log[d][i - 1] = Garbage
      BY <1>1, <1>4, <3>1, <3>3 DEF ChainBreaksOnlyOnOverlap
    <3> QED BY <2>3, <3>2, <3>4
  <2> QED BY <2>1, <2>2, <2>3
<1>7. ChainBreaksOnlyOnOverlap'
  BY <1>6 DEF ChainBreaksOnlyOnOverlap
<1> QED BY <1>2, <1>5, <1>7

LEMMA WriteLineStep ==
  ASSUME AuditInv, NEW r \in Records, WriteLine(r)
  PROVE  AuditInv'
<1> DEFINE d == rec[r].path
<1>1. /\ rec[r].step = "queued" /\ Ends(r)
      /\ log' = [log EXCEPT ![d] = IF d \in torn THEN @ ELSE Append(@, Line(r))]
      /\ torn' = torn \ {d} /\ UNCHANGED <<day, made, alone>>
  BY DEF WriteLine
<1>2. AuditShapes /\ OnlyMade /\ AloneExtends /\ ChainBreaksOnlyOnOverlap
  BY DEF AuditInv
<1>3. /\ d \in Days /\ rec[r].prev \in {NoHash} \cup Records /\ made \in Nat
  BY <1>2 DEF AuditShapes
<1>4. r <= made
  BY <1>1, <1>2, <1>3, AuditConstants DEF OnlyMade
<1>5. /\ rec' \in [Records -> [step: {"none", "hashed", "queued", "over"},
                               worker: Workers \cup {NoWorker}, prev: {NoHash} \cup Records, path: Days]]
      /\ AloneExtends'
      /\ \A q \in Records : rec[q].step = "none" => rec'[q].step = "none"
  BY <1>1, Leaves
<1>6. Line(r) \in Line0 /\ Line(r).id = r /\ Line(r).prev = rec[r].prev
  BY <1>3 DEF Line, Line0
<1>7. r \in alone => rec[r].prev = PrevHash(log[d])
  BY <1>1, <1>2 DEF AloneExtends
<1> HIDE DEF d
<1>8. CASE d \in torn
  <2>1. log' = log
    BY <1>1, <1>2, <1>3, <1>8 DEF AuditShapes
  <2>2. ChainBreaksOnlyOnOverlap'
    BY <1>1, <1>2, <2>1 DEF ChainBreaksOnlyOnOverlap, BrokenAt
  <2> QED BY <1>1, <1>2, <1>5, <2>1, <2>2 DEF AuditInv, AuditShapes, OnlyMade
<1>9. CASE d \notin torn
  <2>1. log' = [log EXCEPT ![d] = Append(@, Line(r))]
    BY <1>1, <1>9
  <2>2. /\ log' \in [Days -> Seq(Line0 \cup {Garbage})]
        /\ \A e \in Days : \A i \in 1 .. Len(log'[e]) :
             log'[e][i] # Garbage => log'[e][i].id <= made'
        /\ ChainBreaksOnlyOnOverlap'
    BY <1>1, <1>3, <1>4, <1>6, <1>7, <2>1, OneMoreLine
  <2> QED BY <1>1, <1>2, <1>5, <2>2 DEF AuditInv, AuditShapes, OnlyMade
<1> QED BY <1>8, <1>9

LEMMA LoseLineStep ==
  ASSUME AuditInv, NEW r \in Records, LoseLine(r)
  PROVE  AuditInv'
<1>1. /\ rec[r].step \in {"hashed", "queued"} /\ Ends(r) /\ UNCHANGED <<day, made, alone>>
  BY DEF LoseLine
<1>2. AuditShapes /\ OnlyMade /\ AloneExtends /\ ChainBreaksOnlyOnOverlap
  BY DEF AuditInv
<1>3. /\ rec' \in [Records -> [step: {"none", "hashed", "queued", "over"},
                               worker: Workers \cup {NoWorker}, prev: {NoHash} \cup Records, path: Days]]
      /\ AloneExtends'
      /\ \A q \in Records : rec[q].step = "none" => rec'[q].step = "none"
  BY <1>1, Leaves
<1>4. CASE UNCHANGED <<log, torn>>
  <2>1. ChainBreaksOnlyOnOverlap'
    BY <1>1, <1>2, <1>4 DEF ChainBreaksOnlyOnOverlap, BrokenAt
  <2> QED BY <1>1, <1>2, <1>3, <1>4, <2>1 DEF AuditInv, AuditShapes, OnlyMade
<1>5. CASE /\ log' = [log EXCEPT ![rec[r].path] = Append(@, Garbage)]
           /\ torn' = torn \cup {rec[r].path}
  <2>1. rec[r].path \in Days
    BY <1>2 DEF AuditShapes
  <2>2. /\ log' \in [Days -> Seq(Line0 \cup {Garbage})]
        /\ \A e \in Days : \A i \in 1 .. Len(log'[e]) :
             log'[e][i] # Garbage => log'[e][i].id <= made'
        /\ ChainBreaksOnlyOnOverlap'
    BY <1>1, <1>5, <2>1, OneMoreLine
  <2> QED BY <1>1, <1>2, <1>3, <1>5, <2>1, <2>2 DEF AuditInv, AuditShapes, OnlyMade
<1> QED BY <1>4, <1>5 DEF LoseLine

LEMMA MidnightStep ==
  ASSUME AuditInv, Midnight
  PROVE  AuditInv'
<1>1. /\ day < MaxDay /\ day' = day + 1 /\ alone' = alone \ OnItsWay
      /\ UNCHANGED <<log, rec, made, torn>>
  BY DEF Midnight
<1>2. AuditShapes /\ OnlyMade /\ ChainBreaksOnlyOnOverlap
  BY DEF AuditInv
<1>3. day' \in Days
  BY <1>1, <1>2, AuditConstants DEF AuditShapes, Days
<1>4. AuditShapes'
  BY <1>1, <1>2, <1>3 DEF AuditShapes
<1>5. OnlyMade' /\ ChainBreaksOnlyOnOverlap'
  BY <1>1, <1>2 DEF OnlyMade, ChainBreaksOnlyOnOverlap, BrokenAt
<1>6. AloneExtends'
  BY <1>1, <1>2 DEF AloneExtends, OnItsWay, OnlyMade
<1> QED BY <1>4, <1>5, <1>6 DEF AuditInv

LEMMA AuditStep == AuditInv /\ [AuditNext]_auditVars => AuditInv'
<1> SUFFICES ASSUME AuditInv, [AuditNext]_auditVars PROVE AuditInv'
  OBVIOUS
<1>1. CASE UNCHANGED auditVars
  BY <1>1 DEF AuditInv, AuditShapes, OnlyMade, AloneExtends, ChainBreaksOnlyOnOverlap, BrokenAt,
              OnItsWay, auditVars
<1>2. ASSUME NEW w \in Workers, MakeRecord(w) PROVE AuditInv'
  BY <1>2, MakeRecordStep
<1>3. ASSUME NEW r \in Records, Queue(r) \/ WriteLine(r) \/ LoseLine(r) PROVE AuditInv'
  BY <1>3, QueueStep, WriteLineStep, LoseLineStep
<1>4. CASE Midnight
  BY <1>4, MidnightStep
<1> QED BY <1>1, <1>2, <1>3, <1>4 DEF AuditNext

LEMMA AuditInvariance == AuditSpec => []AuditInv
BY AuditInitially, AuditStep, PTL DEF AuditSpec

\* The shapes of the state of the audit files and of the records on their way.
THEOREM AuditTypeCorrect == AuditSpec => []AuditTypeOK
<1>1. ASSUME AuditInv PROVE AuditTypeOK
  <2>1. AuditShapes /\ OnlyMade
    BY <1>1 DEF AuditInv
  <2>2. ASSUME NEW d \in Days, NEW i \in DOMAIN log[d]
        PROVE  log[d][i] = Garbage
                 \/ (log[d][i].id \in Records /\ log[d][i].prev \in {NoHash} \cup Records)
    <3>1. i \in 1 .. Len(log[d])
      BY <2>1 DEF AuditShapes
    <3> QED BY <2>1, <3>1, LineIs
  <2> QED BY <2>1, <2>2 DEF AuditTypeOK, AuditShapes, OnlyMade
<1> QED BY <1>1, AuditInvariance, PTL

\* Whatever lines are lost or torn: where verify_audit_log finds a break there is
\* such a line, or a record that overlapped with another one or with midnight.
THEOREM ChainIsExplained == AuditSpec => []ChainBreaksOnlyOnOverlap
<1>1. AuditInv => ChainBreaksOnlyOnOverlap
  BY DEF AuditInv
<1> QED BY <1>1, AuditInvariance, PTL

-----------------------------------------------------------------------------
(* Part 5: the approval gates (ApprovalGate)                                *)

(* What the operations on a book of records return.                        *)

LEMMA RequestedBook ==
  ASSUME NEW b, IsBook(b), NEW i \in Ids, NEW c \in Calls, now \in Nat
  PROVE  /\ IsBook(Requested(b, i, c))
         /\ DOMAIN Requested(b, i, c) = DOMAIN b \cup {i}
         /\ Requested(b, i, c)[i].status = "pending"
         /\ \A k \in DOMAIN b \ {i} : Requested(b, i, c)[k] = b[k]
<1>1. DOMAIN Requested(b, i, c) = DOMAIN b \cup {i}
  BY DEF Requested
<1>2. Requested(b, i, c)[i] = [call |-> c, status |-> "pending", created |-> now]
  BY DEF Requested
<1>3. \A k \in DOMAIN b \ {i} : Requested(b, i, c)[k] = b[k]
  BY DEF Requested
<1>4. Requested(b, i, c)[i] \in Approval
  BY <1>2 DEF Approval, Status
<1>5. \A k \in DOMAIN b \cup {i} : Requested(b, i, c)[k] \in Approval
  BY <1>3, <1>4 DEF IsBook
<1>6. Requested(b, i, c) \in [DOMAIN b \cup {i} -> Approval]
  BY <1>5 DEF Requested
<1> QED BY <1>1, <1>2, <1>3, <1>6 DEF IsBook

LEMMA ConsumedBook ==
  ASSUME NEW b, IsBook(b), NEW i \in DOMAIN b
  PROVE  /\ IsBook(Consumed(b, i))
         /\ DOMAIN Consumed(b, i) = DOMAIN b \ {i}
         /\ \A k \in DOMAIN b \ {i} : Consumed(b, i)[k] = b[k]
BY DEF Consumed, IsBook

LEMMA DecidedBook ==
  ASSUME NEW b, IsBook(b), NEW i \in DOMAIN b, NEW s \in Status
  PROVE  /\ IsBook(Decided(b, i, s))
         /\ DOMAIN Decided(b, i, s) = DOMAIN b
         /\ Decided(b, i, s)[i].status = s
         /\ \A k \in DOMAIN b \ {i} : Decided(b, i, s)[k] = b[k]
<1>1. b[i] \in Approval
  BY DEF IsBook
<1>2. [b[i] EXCEPT !.status = s] \in Approval
  BY <1>1 DEF Approval
<1>3. [b[i] EXCEPT !.status = s].status = s
  BY <1>1 DEF Approval
<1>4. Decided(b, i, s) = [k \in DOMAIN b |->
         IF k = i THEN [b[i] EXCEPT !.status = s] ELSE b[k]]
  BY DEF IsBook, Decided
<1> QED BY <1>2, <1>3, <1>4 DEF IsBook

LEMMA ExpiredBook ==
  ASSUME NEW b, IsBook(b)
  PROVE  /\ IsBook(Expired(b))
         /\ DOMAIN Expired(b) = DOMAIN b
         /\ \A k \in DOMAIN b :
              IF TooOld(b[k]) THEN Expired(b)[k].status = "expired"
                              ELSE Expired(b)[k] = b[k]
<1>1. DOMAIN Expired(b) = DOMAIN b
  BY DEF Expired
<1>2. \A k \in DOMAIN b : b[k] \in Approval
  BY DEF IsBook
<1>3. \A k \in DOMAIN b : TooOld(b[k]) =>
        /\ Expired(b)[k] = [b[k] EXCEPT !.status = "expired"]
        /\ Expired(b)[k].status = "expired"
        /\ Expired(b)[k] \in Approval
  BY <1>2 DEF Expired, Approval, Status
<1>4. \A k \in DOMAIN b : ~TooOld(b[k]) => Expired(b)[k] = b[k]
  BY DEF Expired
<1>5. \A k \in DOMAIN b : Expired(b)[k] \in Approval
  BY <1>2, <1>3, <1>4
<1>6. Expired(b) \in [DOMAIN b -> Approval]
  BY <1>5 DEF Expired
<1> QED BY <1>1, <1>3, <1>4, <1>6 DEF IsBook

-----------------------------------------------------------------------------
(* The inductive invariant: every book on file or in memory holds records   *)
(* of ids handed out, and an approved one somebody did approve.             *)

Honest(b) ==
  /\ DOMAIN b \subseteq used
  /\ \A i \in DOMAIN b : b[i].status = "approved" => i \in granted

GateInv ==
  /\ GateTypeOK
  /\ NoExecutionUnapproved
  /\ Honest(disk)
  /\ \A g \in Gates : Honest(mem[g])

LEMMA SaveKeeps ==
  ASSUME GateInv, NEW g \in Gates, NEW b, Save(g, b), IsBook(b)
  PROVE  /\ mem' = [h \in Gates |-> mem'[h]]
         /\ \A h \in Gates : IsBook(mem'[h])
         /\ IsBook(disk')
         /\ disk' = b /\ mem'[g] = b
         /\ \A h \in Gates \ {g} : mem'[h] = mem[h]
<1>1. mem = [h \in Gates |-> mem[h]] /\ \A h \in Gates : IsBook(mem[h])
  BY DEF GateInv, GateTypeOK
<1>2. mem' = [h \in Gates |-> IF h = g THEN b ELSE mem[h]]
  BY <1>1 DEF Save
<1>3. disk' = b /\ mem'[g] = b /\ \A h \in Gates \ {g} : mem'[h] = mem[h]
  BY <1>2 DEF Save
<1>4. mem' = [h \in Gates |-> mem'[h]]
  BY <1>2
<1> HIDE DEF IsBook
<1> QED BY <1>1, <1>3, <1>4

\* A grown set of ids and approvals keeps a book honest.
LEMMA HonestGrows ==
  ASSUME NEW b, Honest(b), used \subseteq used', granted \subseteq granted'
  PROVE  /\ DOMAIN b \subseteq used'
         /\ \A i \in DOMAIN b : b[i].status = "approved" => i \in granted'
BY DEF Honest

LEMMA GateInitially == GateInit => GateInv
<1> SUFFICES ASSUME GateInit PROVE GateInv
  OBVIOUS
<1>1. IsBook(<< >>)
  BY DEF IsBook
<1>2. GateTypeOK
  BY <1>1 DEF GateInit, GateTypeOK
<1>3. NoExecutionUnapproved
  BY DEF GateInit, NoExecutionUnapproved
<1>4. Honest(<< >>)
  BY DEF Honest
<1>5. Honest(disk) /\ \A g \in Gates : Honest(mem[g])
  BY <1>4 DEF GateInit
<1> QED BY <1>2, <1>3, <1>5 DEF GateInv

LEMMA GateStep ==
  ASSUME GateInv, [GateNext]_gateVars
  PROVE  GateInv'
<1> DEFINE Fine(b) == /\ DOMAIN b \subseteq used'
                      /\ \A i \in DOMAIN b : b[i].status = "approved" => i \in granted'
<1>0. /\ up \subseteq Gates /\ now \in Nat /\ used \subseteq Ids
      /\ granted \subseteq used /\ execs \in [Ids -> Nat]
      /\ mem = [g \in Gates |-> mem[g]] /\ IsBook(disk)
      /\ \A g \in Gates : IsBook(mem[g])
  BY DEF GateInv, GateTypeOK
<1>h. Honest(disk) /\ \A g \in Gates : Honest(mem[g])
  BY DEF GateInv
<1>n. \A i \in Ids : execs[i] > 0 => i \in granted
  BY DEF GateInv, NoExecutionUnapproved
<1>q. ASSUME up' \subseteq Gates, now' \in Nat, used' \subseteq Ids, granted' \subseteq used',
             execs' \in [Ids -> Nat], mem' = [g \in Gates |-> mem'[g]], IsBook(disk'),
             \A g \in Gates : IsBook(mem'[g]),
             \A i \in Ids : execs'[i] > 0 => i \in granted',
             Fine(disk'), \A g \in Gates : Fine(mem'[g])
      PROVE  GateInv'
  BY <1>q DEF GateInv, GateTypeOK, NoExecutionUnapproved, Honest, IsBook
<1>1. ASSUME NEW g \in Gates, Load(g) PROVE GateInv'
  <2>1. mem' = [h \in Gates |-> IF h = g THEN disk ELSE mem[h]]
    BY <1>0, <1>1 DEF Load
  <2>2. \A h \in Gates : mem'[h] = disk \/ mem'[h] = mem[h]
    BY <2>1
  <2>3. mem' = [h \in Gates |-> mem'[h]]
    BY <2>1
  <2>4. up' \subseteq Gates /\ UNCHANGED <<disk, now, used, granted, execs>>
    BY <1>0, <1>1 DEF Load
  <2>5. Fine(disk) /\ \A h \in Gates : Fine(mem[h])
    BY <1>h, <2>4, HonestGrows
  <2> HIDE DEF Fine
  <2>6. \A h \in Gates : IsBook(mem'[h]) /\ Fine(mem'[h])
    BY <1>0, <2>2, <2>5
  <2>7. IsBook(disk')
    BY <1>0, <2>4
  <2>8. \A i \in Ids : execs'[i] > 0 => i \in granted'
    BY <1>n, <2>4
  <2> QED BY <1>0, <1>q, <2>3, <2>4, <2>5, <2>6, <2>7, <2>8
<1>2. ASSUME NEW g \in Gates, Exit(g) PROVE GateInv'
  <2>1. mem' = [h \in Gates |-> IF h = g THEN << >> ELSE mem[h]]
    BY <1>0, <1>2 DEF Exit
  <2>2. \A h \in Gates : mem'[h] = << >> \/ mem'[h] = mem[h]
    BY <2>1
  <2>3. mem' = [h \in Gates |-> mem'[h]]
    BY <2>1
  <2>4. up' \subseteq Gates /\ UNCHANGED <<disk, now, used, granted, execs>>
    BY <1>0, <1>2 DEF Exit
  <2>5. Fine(disk) /\ \A h \in Gates : Fine(mem[h])
    BY <1>h, <2>4, HonestGrows
  <2>e. IsBook(<< >>) /\ Fine(<< >>)
    BY DEF IsBook
  <2> HIDE DEF Fine
  <2>6. \A h \in Gates : IsBook(mem'[h]) /\ Fine(mem'[h])
    BY <1>0, <2>2, <2>5, <2>e
  <2>7. IsBook(disk')
    BY <1>0, <2>4
  <2>8. \A i \in Ids : execs'[i] > 0 => i \in granted'
    BY <1>n, <2>4
  <2> QED BY <1>0, <1>q, <2>3, <2>4, <2>5, <2>6, <2>7, <2>8
<1>s. ASSUME NEW g \in Gates, NEW b, Save(g, b), IsBook(b), Fine(b),
             UNCHANGED up, now' \in Nat, used \subseteq used', used' \subseteq Ids,
             granted \subseteq granted', granted' \subseteq used',
             execs' \in [Ids -> Nat], \A i \in Ids : execs'[i] > 0 => i \in granted'
      PROVE  GateInv'
  <2>1. /\ mem' = [h \in Gates |-> mem'[h]]
        /\ \A h \in Gates : IsBook(mem'[h])
        /\ IsBook(disk')
        /\ disk' = b /\ mem'[g] = b
        /\ \A h \in Gates \ {g} : mem'[h] = mem[h]
    BY <1>s, SaveKeeps
  <2>2. \A h \in Gates : Fine(mem[h])
    BY <1>h, <1>s, HonestGrows
  <2> HIDE DEF Fine
  <2>3. Fine(disk') /\ \A h \in Gates : Fine(mem'[h])
    BY <1>s, <2>1, <2>2
  <2> QED BY <1>0, <1>q, <1>s, <2>1, <2>3
<1>3. ASSUME NEW g \in Gates, NEW c \in Calls, NEW i \in Ids, Request(g, c, i) PROVE GateInv'
  <2> DEFINE b == Requested(mem[g], i, c)
  <2>1. Save(g, b) /\ UNCHANGED <<up, now, granted, execs>> /\ used' = used \cup {i}
    BY <1>3 DEF Request
  <2>2. /\ IsBook(b) /\ DOMAIN b = DOMAIN mem[g] \cup {i}
        /\ b[i].status = "pending"
        /\ \A k \in DOMAIN mem[g] \ {i} : b[k] = mem[g][k]
    BY <1>0, RequestedBook
  <2> HIDE DEF b
  <2>3. Fine(b)
    BY <1>h, <2>1, <2>2 DEF Honest
  <2> HIDE DEF Fine
  <2> QED BY <1>0, <1>n, <1>s, <2>1, <2>2, <2>3
<1>4. ASSUME NEW g \in Gates, NEW c \in Calls, Consume(g, c) PROVE GateInv'
  <2>1. PICK i \in Matching(mem[g], c) :
          Save(g, Consumed(mem[g], i)) /\ execs' = [execs EXCEPT ![i] = @ + 1]
    BY <1>4 DEF Consume
  <2>2. UNCHANGED <<up, now, used, granted>>
    BY <1>4 DEF Consume
  <2>3. i \in DOMAIN mem[g] /\ mem[g][i].status = "approved"
    BY DEF Matching
  <2>4. i \in granted /\ i \in Ids
    BY <1>0, <1>h, <2>3 DEF Honest
  <2>5. execs' \in [Ids -> Nat] /\ \A k \in Ids : execs'[k] > 0 => k \in granted'
    BY <1>0, <1>n, <2>1, <2>2, <2>4
  <2> DEFINE b == Consumed(mem[g], i)
  <2>6. /\ IsBook(b) /\ DOMAIN b = DOMAIN mem[g] \ {i}
        /\ \A k \in DOMAIN mem[g] \ {i} : b[k] = mem[g][k]
    BY <1>0, <2>3, ConsumedBook
  <2>7. Save(g, b)
    BY <2>1
  <2> HIDE DEF b
  <2>8. Fine(b)
    BY <1>h, <2>2, <2>6 DEF Honest
  <2> HIDE DEF Fine
  <2> QED BY <1>0, <1>s, <2>2, <2>5, <2>6, <2>7, <2>8
<1>5. ASSUME NEW g \in Gates, NEW i \in Ids, NEW s \in {"approved", "denied"}, Decide(g, i, s)
      PROVE  GateInv'
  <2> DEFINE b == Decided(mem[g], i, s)
  <2>1. /\ Save(g, b) /\ UNCHANGED <<up, now, used, execs>> /\ i \in DOMAIN mem[g]
        /\ granted' = IF s = "approved" THEN granted \cup {i} ELSE granted
    BY <1>5 DEF Decide
  <2>s. s \in Status
    BY DEF Status
  <2>2. /\ IsBook(b) /\ DOMAIN b = DOMAIN mem[g]
        /\ b[i].status = s
        /\ \A k \in DOMAIN mem[g] \ {i} : b[k] = mem[g][k]
    BY <1>0, <2>1, <2>s, DecidedBook
  <2> HIDE DEF b
  <2>3. i \in used
    BY <1>h, <2>1 DEF Honest
  <2>4. Fine(b)
    BY <1>h, <2>1, <2>2 DEF Honest
  <2>5. granted \subseteq granted' /\ granted' \subseteq used'
    BY <1>0, <2>1, <2>3
  <2> HIDE DEF Fine
  <2> QED BY <1>0, <1>n, <1>s, <2>1, <2>2, <2>4, <2>5
<1>6. ASSUME NEW g \in Gates, List(g) PROVE GateInv'
  <2> DEFINE b == Expired(mem[g])
  <2>1. Save(g, b) /\ UNCHANGED <<up, now, used, granted, execs>>
    BY <1>6 DEF List
  <2>2. /\ IsBook(b) /\ DOMAIN b = DOMAIN mem[g]
        /\ \A k \in DOMAIN mem[g] : b[k].status = "expired" \/ b[k] = mem[g][k]
    BY <1>0, ExpiredBook
  <2> HIDE DEF b
  <2>3. Fine(b)
    BY <1>h, <2>1, <2>2 DEF Honest
  <2> HIDE DEF Fine
  <2> QED BY <1>0, <1>n, <1>s, <2>1, <2>2, <2>3
<1>7. CASE GateClock
  <2>1. UNCHANGED <<up, mem, disk, used, granted, execs>> /\ now' \in Nat
    BY <1>0, <1>7 DEF GateClock
  <2> QED BY <2>1 DEF GateInv, GateTypeOK, NoExecutionUnapproved, Honest, IsBook
<1>8. CASE UNCHANGED gateVars
  BY <1>8 DEF gateVars, GateInv, GateTypeOK, NoExecutionUnapproved, Honest, IsBook
<1>9. ASSUME NEW g \in Gates, SaveCut(g) PROVE GateInv'
  <2>1. mem' = [h \in Gates |-> IF h = g THEN << >> ELSE mem[h]]
    BY <1>0, <1>9 DEF SaveCut
  <2>2. \A h \in Gates : mem'[h] = << >> \/ mem'[h] = mem[h]
    BY <2>1
  <2>3. mem' = [h \in Gates |-> mem'[h]]
    BY <2>1
  <2>4. up' \subseteq Gates /\ disk' = << >> /\ UNCHANGED <<now, used, granted, execs>>
    BY <1>0, <1>9 DEF SaveCut
  <2>5. \A h \in Gates : Fine(mem[h])
    BY <1>h, <2>4, HonestGrows
  <2>e. IsBook(<< >>) /\ Fine(<< >>)
    BY DEF IsBook
  <2> HIDE DEF Fine
  <2>6. \A h \in Gates : IsBook(mem'[h]) /\ Fine(mem'[h])
    BY <1>0, <2>2, <2>5, <2>e
  <2>7. IsBook(disk') /\ Fine(disk')
    BY <2>4, <2>e
  <2>8. \A i \in Ids : execs'[i] > 0 => i \in granted'
    BY <1>n, <2>4
  <2> QED BY <1>0, <1>q, <2>3, <2>4, <2>6, <2>7, <2>8
<1> QED BY <1>1, <1>2, <1>3, <1>4, <1>5, <1>6, <1>7, <1>8, <1>9 DEF GateNext

-----------------------------------------------------------------------------
LEMMA GateInvariance == GateSpec => []GateInv
<1>1. GateInv /\ [GateNext]_gateVars => GateInv'
  BY GateStep
<1> QED BY GateInitially, <1>1, PTL DEF GateSpec

\* The state keeps its shapes.
THEOREM GateTypeCorrect == GateSpec => []GateTypeOK
<1>1. GateInv => GateTypeOK
  BY DEF GateInv
<1> QED BY GateInvariance, <1>1, PTL

\* With any number of gates that overwrite each other's file, restart and
\* load what the others wrote, no call is executed that nobody approved.
THEOREM ApprovalFirst == GateSpec => []NoExecutionUnapproved
<1>1. GateInv => NoExecutionUnapproved
  BY DEF GateInv
<1> QED BY GateInvariance, <1>1, PTL

-----------------------------------------------------------------------------
(* One gate on the file implements OneTimePermits: what it holds in memory  *)
(* is what is on file, so the fate of an approval can be read there, and no *)
(* record that is on file has permitted an execution.                       *)

InSync ==
  /\ \A g \in up : mem[g] = disk
  /\ \A i \in DOMAIN disk : execs[i] = 0

LEMMA StaysInSync ==
  ASSUME \A g, h \in Gates : g = h, GateInv, InSync, [GateNext]_gateVars
  PROVE  InSync'
<1>0. /\ up \subseteq Gates /\ mem = [g \in Gates |-> mem[g]] /\ IsBook(disk)
      /\ now \in Nat /\ DOMAIN disk \subseteq Ids /\ execs \in [Ids -> Nat]
      /\ granted \subseteq used
  BY DEF GateInv, GateTypeOK, IsBook
<1>n. \A i \in Ids : execs[i] > 0 => i \in granted
  BY DEF GateInv, NoExecutionUnapproved
<1>m. (\A g \in up : mem[g] = disk) /\ \A i \in DOMAIN disk : execs[i] = 0
  BY DEF InSync
<1>1. ASSUME NEW g \in Gates, NEW b, Save(g, b), UNCHANGED up,
             \A i \in DOMAIN b : execs'[i] = 0
      PROVE  InSync'
  BY <1>0, <1>1 DEF InSync, Save
<1>2. ASSUME NEW g \in Gates, Load(g) PROVE InSync'
  BY <1>0, <1>2 DEF InSync, Load
<1>3. ASSUME NEW g \in Gates, Exit(g) PROVE InSync'
  BY <1>0, <1>3 DEF InSync, Exit
<1>4. ASSUME NEW g \in Gates, NEW c \in Calls, NEW i \in Ids, Request(g, c, i)
      PROVE  InSync'
  <2>1. /\ Save(g, Requested(disk, i, c)) /\ UNCHANGED <<up, execs>> /\ i \notin used
    BY <1>4, <1>m DEF Request
  <2>2. execs[i] = 0
    BY <1>0, <1>n, <2>1
  <2>3. DOMAIN Requested(disk, i, c) = DOMAIN disk \cup {i}
    BY DEF Requested
  <2> QED BY <1>1, <1>m, <2>1, <2>2, <2>3
<1>5. ASSUME NEW g \in Gates, NEW c \in Calls, Consume(g, c) PROVE InSync'
  <2>1. PICK i \in Matching(disk, c) :
          Save(g, Consumed(disk, i)) /\ execs' = [execs EXCEPT ![i] = @ + 1]
    BY <1>5, <1>m DEF Consume
  <2>2. UNCHANGED up
    BY <1>5 DEF Consume
  <2>3. DOMAIN Consumed(disk, i) = DOMAIN disk \ {i}
    BY DEF Consumed
  <2>4. \A k \in DOMAIN Consumed(disk, i) : execs'[k] = 0
    BY <1>0, <1>m, <2>1, <2>3
  <2> QED BY <1>1, <2>1, <2>2, <2>4
<1>6. ASSUME NEW g \in Gates, NEW i \in Ids, NEW s \in {"approved", "denied"},
             Decide(g, i, s)
      PROVE  InSync'
  <2>1. /\ Save(g, Decided(disk, i, s)) /\ UNCHANGED <<up, execs>>
    BY <1>6, <1>m DEF Decide
  <2>2. DOMAIN Decided(disk, i, s) = DOMAIN disk
    BY <1>0 DEF Decided, IsBook
  <2> QED BY <1>1, <1>m, <2>1, <2>2
<1>7. ASSUME NEW g \in Gates, List(g) PROVE InSync'
  <2>1. /\ Save(g, Expired(disk)) /\ UNCHANGED <<up, execs>>
    BY <1>7, <1>m DEF List
  <2>2. DOMAIN Expired(disk) = DOMAIN disk
    BY DEF Expired
  <2> QED BY <1>1, <1>m, <2>1, <2>2
<1>8. CASE GateClock \/ UNCHANGED gateVars
  BY <1>8 DEF GateClock, gateVars, InSync
<1>9. ASSUME NEW g \in Gates, SaveCut(g) PROVE InSync'
  <2>1. up' = {} /\ disk' = << >>
    BY <1>0, <1>9 DEF SaveCut
  <2> QED BY <2>1 DEF InSync
<1> QED BY <1>2, <1>3, <1>4, <1>5, <1>6, <1>7, <1>8, <1>9 DEF GateNext

\* What the fate of a permit says of the file, and the other way round.
LEMMA FateOnFile ==
  ASSUME NEW i \in Ids
  PROVE  /\ i \in DOMAIN disk /\ disk[i].status = "pending" => PermitOf(i) = "asked"
         /\ i \in DOMAIN disk /\ disk[i].status = "approved" => PermitOf(i) = "granted"
         /\ i \in DOMAIN disk /\ disk[i].status \in {"denied", "expired"}
              => PermitOf(i) = "refused"
         /\ i \notin DOMAIN disk /\ i \in used /\ execs[i] > 0 => PermitOf(i) = "used"
         /\ i \notin DOMAIN disk /\ i \in used /\ ~(execs[i] > 0) => PermitOf(i) = "lost"
         /\ i \notin DOMAIN disk /\ i \notin used => PermitOf(i) = "none"
BY DEF PermitOf

LEMMA FateOnFileNext ==
  ASSUME NEW i \in Ids
  PROVE  /\ i \in DOMAIN disk' /\ disk'[i].status = "pending" => PermitOf(i)' = "asked"
         /\ i \in DOMAIN disk' /\ disk'[i].status = "approved" => PermitOf(i)' = "granted"
         /\ i \in DOMAIN disk' /\ disk'[i].status \in {"denied", "expired"}
              => PermitOf(i)' = "refused"
         /\ i \notin DOMAIN disk' /\ i \in used' /\ execs'[i] > 0 => PermitOf(i)' = "used"
         /\ i \notin DOMAIN disk' /\ i \in used' /\ ~(execs'[i] > 0)
              => PermitOf(i)' = "lost"
         /\ i \notin DOMAIN disk' /\ i \notin used' => PermitOf(i)' = "none"
BY DEF PermitOf

\* The fate of a permit depends on its own record only.
LEMMA FateKept ==
  ASSUME NEW i \in Ids,
         i \in DOMAIN disk' <=> i \in DOMAIN disk,
         i \in used' <=> i \in used,
         execs'[i] = execs[i],
         i \in DOMAIN disk => disk'[i] = disk[i]
  PROVE  PermitOf(i)' = PermitOf(i)
BY DEF PermitOf

\* Each step of the gate is a step of its abstract specification, or none.
LEMMA StepIsPermitStep ==
  ASSUME \A g, h \in Gates : g = h, GateInv, InSync, [GateNext]_gateVars
  PROVE  [Permits!Next]_<<[i \in Ids |-> PermitOf(i)], execs>>
<1>0. /\ up \subseteq Gates /\ now \in Nat /\ IsBook(disk)
      /\ DOMAIN disk \subseteq used /\ used \subseteq Ids
      /\ DOMAIN disk \subseteq Ids /\ execs \in [Ids -> Nat]
  BY DEF GateInv, GateTypeOK, Honest, IsBook
<1>m. (\A g \in up : mem[g] = disk) /\ \A i \in DOMAIN disk : execs[i] = 0
  BY DEF InSync
<1>u. ASSUME UNCHANGED <<disk, used, execs>>
      PROVE  [Permits!Next]_<<[i \in Ids |-> PermitOf(i)], execs>>
  <2>1. \A i \in Ids : PermitOf(i)' = PermitOf(i)
    BY <1>u, FateKept
  <2> QED BY <1>u, <2>1
<1>b. ASSUME NEW i \in Ids, NEW from, NEW to, PermitOf(i) = from, PermitOf(i)' = to,
             \A k \in Ids \ {i} : PermitOf(k)' = PermitOf(k)
      PROVE  Permits!Becomes(i, from, to)
  <2>1. [k \in Ids |-> PermitOf(k)]' = [[k \in Ids |-> PermitOf(k)] EXCEPT ![i] = to]
    BY <1>b
  <2>2. [k \in Ids |-> PermitOf(k)][i] = from
    BY <1>b
  <2> QED BY <2>1, <2>2 DEF Permits!Becomes
<1>1. ASSUME NEW g \in Gates, Load(g) \/ Exit(g)
      PROVE  [Permits!Next]_<<[i \in Ids |-> PermitOf(i)], execs>>
  BY <1>1, <1>u DEF Load, Exit
<1>2. ASSUME NEW g \in Gates, NEW c \in Calls, NEW i \in Ids, Request(g, c, i)
      PROVE  [Permits!Next]_<<[k \in Ids |-> PermitOf(k)], execs>>
  <2>1. /\ disk' = Requested(disk, i, c) /\ i \notin used
        /\ used' = used \cup {i} /\ UNCHANGED execs
    BY <1>2, <1>m DEF Request, Save
  <2>2. /\ DOMAIN disk' = DOMAIN disk \cup {i} /\ disk'[i].status = "pending"
        /\ \A k \in DOMAIN disk \ {i} : disk'[k] = disk[k]
    <3>1. IsBook(disk) /\ now \in Nat
      BY <1>0
    <3>2. /\ DOMAIN Requested(disk, i, c) = DOMAIN disk \cup {i}
          /\ Requested(disk, i, c)[i].status = "pending"
          /\ \A k \in DOMAIN disk \ {i} : Requested(disk, i, c)[k] = disk[k]
      BY <3>1, RequestedBook
    <3> QED BY <2>1, <3>2
  <2>3. PermitOf(i) = "none" /\ PermitOf(i)' = "asked"
    BY <1>0, <2>1, <2>2, FateOnFile, FateOnFileNext
  <2>4. \A k \in Ids \ {i} : PermitOf(k)' = PermitOf(k)
    BY <2>1, <2>2, FateKept
  <2>5. Permits!Becomes(i, "none", "asked")
    BY <1>b, <2>3, <2>4
  <2> QED BY <2>1, <2>5 DEF Permits!Next, Permits!Ask
<1>3. ASSUME NEW g \in Gates, NEW c \in Calls, Consume(g, c)
      PROVE  [Permits!Next]_<<[k \in Ids |-> PermitOf(k)], execs>>
  <2>1. PICK i \in Matching(disk, c) :
          disk' = Consumed(disk, i) /\ execs' = [execs EXCEPT ![i] = @ + 1]
    BY <1>3, <1>m DEF Consume, Save
  <2>2. UNCHANGED used
    BY <1>3 DEF Consume
  <2>3. i \in DOMAIN disk /\ disk[i].status = "approved" /\ i \in Ids /\ i \in used
    BY <1>0 DEF Matching
  <2>4. /\ DOMAIN disk' = DOMAIN disk \ {i}
        /\ \A k \in DOMAIN disk \ {i} : disk'[k] = disk[k]
    BY <1>0, <2>1, <2>3, ConsumedBook
  <2>x. execs'[i] > 0 /\ \A k \in Ids \ {i} : execs'[k] = execs[k]
    BY <1>0, <2>1, <2>3
  <2>5. PermitOf(i) = "granted" /\ PermitOf(i)' = "used"
    BY <2>2, <2>3, <2>4, <2>x, FateOnFile, FateOnFileNext
  <2>6. \A k \in Ids \ {i} : PermitOf(k)' = PermitOf(k)
    BY <2>2, <2>4, <2>x, FateKept
  <2>7. Permits!Becomes(i, "granted", "used")
    BY <1>b, <2>3, <2>5, <2>6
  <2> QED BY <2>1, <2>3, <2>7 DEF Permits!Next, Permits!Use
<1>4. ASSUME NEW g \in Gates, NEW i \in Ids, NEW s \in {"approved", "denied"},
             Decide(g, i, s)
      PROVE  [Permits!Next]_<<[k \in Ids |-> PermitOf(k)], execs>>
  <2>1. /\ disk' = Decided(disk, i, s) /\ i \in DOMAIN disk
        /\ disk[i].status = "pending" /\ UNCHANGED <<used, execs>>
    BY <1>4, <1>m DEF Decide, Save
  <2>2. s \in Status
    BY DEF Status
  <2>3. /\ DOMAIN disk' = DOMAIN disk /\ disk'[i].status = s
        /\ \A k \in DOMAIN disk \ {i} : disk'[k] = disk[k]
    BY <1>0, <2>1, <2>2, DecidedBook
  <2>4. /\ PermitOf(i) = "asked"
        /\ s = "approved" => PermitOf(i)' = "granted"
        /\ s = "denied" => PermitOf(i)' = "refused"
    BY <2>1, <2>3, FateOnFile, FateOnFileNext
  <2>5. \A k \in Ids \ {i} : PermitOf(k)' = PermitOf(k)
    BY <2>1, <2>3, FateKept
  <2>6. \/ Permits!Becomes(i, "asked", "granted")
        \/ Permits!Becomes(i, "asked", "refused")
    BY <1>b, <2>4, <2>5
  <2> QED BY <2>1, <2>6 DEF Permits!Next, Permits!Grant, Permits!Refuse
<1>5. ASSUME NEW g \in Gates, List(g)
      PROVE  [Permits!Next]_<<[k \in Ids |-> PermitOf(k)], execs>>
  <2> DEFINE S == {i \in DOMAIN disk : TooOld(disk[i])}
  <2>1. disk' = Expired(disk) /\ UNCHANGED <<used, execs>>
    BY <1>5, <1>m DEF List, Save
  <2>2. /\ DOMAIN disk' = DOMAIN disk
        /\ \A k \in DOMAIN disk :
             IF TooOld(disk[k]) THEN disk'[k].status = "expired" ELSE disk'[k] = disk[k]
    BY <1>0, <2>1, ExpiredBook
  <2>3. \A i \in S : /\ i \in Ids /\ i \in DOMAIN disk' /\ disk[i].status = "pending"
                     /\ disk'[i].status = "expired"
    BY <1>0, <2>2 DEF TooOld
  <2>4. \A i \in S : PermitOf(i) = "asked" /\ PermitOf(i)' = "refused"
    BY <2>3, FateOnFile, FateOnFileNext
  <2>5. \A i \in Ids \ S : PermitOf(i)' = PermitOf(i)
    BY <2>1, <2>2, FateKept
  <2>6. S \in SUBSET Ids
    BY <1>0
  <2> HIDE DEF S
  <2>7. Permits!Lapse(S)
    BY <2>1, <2>4, <2>5, <2>6 DEF Permits!Lapse
  <2> QED BY <2>6, <2>7 DEF Permits!Next
<1>6. CASE GateClock \/ UNCHANGED gateVars
  BY <1>6, <1>u DEF GateClock, gateVars
<1>7. ASSUME NEW g \in Gates, SaveCut(g)
      PROVE  [Permits!Next]_<<[k \in Ids |-> PermitOf(k)], execs>>
  <2>1. disk' = << >> /\ UNCHANGED <<used, execs>>
    BY <1>7 DEF SaveCut
  <2>2. \A k \in DOMAIN disk : /\ k \in used' /\ k \notin DOMAIN disk'
                               /\ ~(execs'[k] > 0) /\ disk[k].status \in Status
    BY <1>0, <1>m, <2>1 DEF IsBook, Approval
  <2>3. \A k \in DOMAIN disk : PermitOf(k) \in {"asked", "granted", "refused"}
    BY <1>0, <2>2, FateOnFile DEF Status
  <2>4. \A k \in DOMAIN disk : PermitOf(k)' = "lost"
    BY <1>0, <2>2, FateOnFileNext
  <2>5. \A k \in Ids \ DOMAIN disk :
          PermitOf(k) \in {"none", "used", "lost"} /\ PermitOf(k)' = PermitOf(k)
    BY <1>0, <2>1, FateOnFile, FateKept
  <2>6. \A k \in Ids :
          PermitOf(k)' = IF PermitOf(k) \in {"asked", "granted", "refused"} THEN "lost"
                                                                      ELSE PermitOf(k)
    BY <2>3, <2>4, <2>5
  <2>7. Permits!Lose
    BY <2>1, <2>6 DEF Permits!Lose
  <2> QED BY <2>7 DEF Permits!Next
<1> QED BY <1>1, <1>2, <1>3, <1>4, <1>5, <1>6, <1>7 DEF GateNext

\* While one loop at a time has a gate on the file, the gate issues one-time
\* permits, for any ids, calls, TTL and however often the loop is restarted.
THEOREM OneGateIssuesPermits ==
  ASSUME \A g, h \in Gates : g = h
  PROVE  GateSpec => ImplementsPermits
<1>1. GateInit => Permits!Init
  <2> SUFFICES ASSUME GateInit PROVE Permits!Init
    OBVIOUS
  <2>1. disk = << >> /\ used = {}
    BY DEF GateInit
  <2>2. \A i \in Ids : PermitOf(i) = "none"
    BY <2>1, FateOnFile
  <2> QED BY <2>2 DEF GateInit, Permits!Init
<1>2. GateInit => InSync
  BY DEF GateInit, InSync
<1>3. GateInv /\ InSync /\ [GateNext]_gateVars => InSync'
  BY StaysInSync
<1>4. GateInv /\ InSync /\ [GateNext]_gateVars => [Permits!Next]_<<[i \in Ids |-> PermitOf(i)], execs>>
  BY StepIsPermitStep
<1> QED BY GateInvariance, <1>1, <1>2, <1>3, <1>4, PTL DEF GateSpec, ImplementsPermits, Permits!Spec
===============================================================================
