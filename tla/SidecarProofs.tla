----------------------------- MODULE SidecarProofs ----------------------------
(*****************************************************************************)
(* Theorems about the sidecars, for any services, sessions, windows, delays  *)
(* and bounds: their supervisor (SidecarSupervisor) and the sessions of the  *)
(* one that executes commands (ExecSessions).                                *)
(*****************************************************************************)
EXTENDS SidecarSupervisor, ExecSessions, FiniteSetTheorems, TLAPS

-----------------------------------------------------------------------------
(* Part 1: the supervisor (SidecarSupervisor)                               *)

(* The inductive invariant.  A service is only polled when it may be tried; *)
(* as long as the threshold is reached, the circuit stays open until the    *)
(* oldest of the failures that did it would be forgotten.                   *)

Limit == IF Threshold = 1 THEN 2 ELSE Threshold

CircuitHolds(s) ==
  Cardinality(fails[s]) >= Threshold => \A a \in fails[s] : a + openIn[s] >= OpenFor

FewFailures(s) == OpenFor >= Window => Cardinality(fails[s]) <= Limit

Polled(s) == trying = s => MayTry(s)

SupInv ==
  /\ SupTypeOK
  /\ WaitingHasNoChild
  /\ \A s \in Services : Polled(s) /\ CircuitHolds(s) /\ FewFailures(s)

-----------------------------------------------------------------------------
LEMMA SupConstants ==
  /\ Window \in Nat \ {0} /\ Threshold \in Nat \ {0} /\ OpenFor \in Nat \ {0}
  /\ MaxDelay \in Nat \ {0} /\ Polls \in Nat \ {0} /\ NoService \notin Services
  /\ Limit \in Nat
BY SupervisorAssumption DEF Limit

\* A set of ages is finite.
LEMMA AgesAreFinite ==
  ASSUME NEW S \in Ages
  PROVE  IsFiniteSet(S) /\ Cardinality(S) \in Nat
<1>1. IsFiniteSet(0 .. Window)
  BY SupConstants, FS_Interval
<1>2. IsFiniteSet(S)
  BY <1>1, FS_Subset DEF Ages
<1> QED BY <1>2, FS_CardinalityType

\* Time adds no failure.
LEMMA OlderIs ==
  ASSUME NEW S \in Ages
  PROVE  /\ Older(S) \in Ages
         /\ \A b \in Older(S) : b - 1 \in S /\ b \in Nat
         /\ Cardinality(Older(S)) <= Cardinality(S)
<1>1. \A b \in Older(S) : b - 1 \in S /\ b \in Nat
  BY SupConstants DEF Older, Ages
<1>2. Older(S) \in Ages
  BY DEF Older, Ages
<1> DEFINE f == [b \in Older(S) |-> b - 1]
<1>3. f \in [Older(S) -> S] /\ \A x, y \in Older(S) : f[x] = f[y] => x = y
  BY <1>1
<1>4. f \in Injection(Older(S), S)
  <2> HIDE DEF f
  <2> QED BY <1>3 DEF Injection, IsInjective
<1>5. Cardinality(Older(S)) <= Cardinality(S)
  BY <1>4, AgesAreFinite, FS_Injection
<1> QED BY <1>1, <1>2, <1>5

\* One failure more, unless there was one in this moment.
LEMMA FreshFailure ==
  ASSUME NEW S \in Ages
  PROVE  /\ S \cup {0} \in Ages
         /\ Cardinality(S \cup {0}) <= Cardinality(S) + 1
<1>1. S \cup {0} \in Ages
  BY SupConstants DEF Ages
<1>2. IsFiniteSet(S) /\ Cardinality(S) \in Nat
  BY AgesAreFinite
<1>3. Cardinality(S \cup {0}) = IF 0 \in S THEN Cardinality(S) ELSE Cardinality(S) + 1
  BY <1>2, FS_AddElement
<1> QED BY <1>1, <1>2, <1>3

\* When a service may be tried the failures are fewer than the threshold, or
\* it is the one at the end of the window.
LEMMA ClosedMeansFew ==
  ASSUME SupTypeOK, NEW s \in Services, openIn[s] = 0, CircuitHolds(s), OpenFor >= Window
  PROVE  Cardinality(fails[s]) + 1 <= Limit
<1>1. fails[s] \in Ages
  BY DEF SupTypeOK
<1>2. IsFiniteSet(fails[s]) /\ Cardinality(fails[s]) \in Nat
  BY <1>1, AgesAreFinite
<1>3. CASE Cardinality(fails[s]) < Threshold
  BY <1>2, <1>3, SupConstants DEF Limit
<1>4. CASE ~(Cardinality(fails[s]) < Threshold)
  <2>1. \A a \in fails[s] : a \in 0 .. Window /\ a >= OpenFor
    BY <1>1, <1>2, <1>4, SupConstants DEF CircuitHolds, Ages
  <2>2. fails[s] \subseteq {Window}
    BY <2>1, SupConstants
  <2>3. Cardinality(fails[s]) <= 1
    <3>1. IsFiniteSet({Window}) /\ Cardinality({Window}) = 1
      BY FS_Singleton
    <3>2. Cardinality(fails[s]) <= Cardinality({Window})
      BY <2>2, <3>1, FS_Subset
    <3> QED BY <3>1, <3>2
  <2> QED BY <1>2, <1>4, <2>3, SupConstants DEF Limit
<1> QED BY <1>3, <1>4

\* A failure of a service that may be tried keeps the books in order.
LEMMA RecordKeeps ==
  ASSUME SupInv, NEW s \in Services, MayTry(s), RecordFailure(s)
  PROVE  /\ retryIn' \in [Services -> 0 .. MaxDelay] /\ attempts' \in [Services -> 0 .. 6]
         /\ fails' \in [Services -> Ages] /\ openIn' \in [Services -> 0 .. OpenFor]
         /\ CircuitHolds(s)' /\ FewFailures(s)'
         /\ \A u \in Services \ {s} :
              /\ retryIn'[u] = retryIn[u] /\ fails'[u] = fails[u] /\ openIn'[u] = openIn[u]
<1> DEFINE n == IF attempts[s] < 6 THEN attempts[s] + 1 ELSE 6
           recent == fails[s] \cup {0}
           opened == IF Cardinality(recent) >= Threshold THEN OpenFor ELSE openIn[s]
<1>0. /\ retryIn \in [Services -> 0 .. MaxDelay] /\ attempts \in [Services -> 0 .. 6]
      /\ fails \in [Services -> Ages] /\ openIn \in [Services -> 0 .. OpenFor]
      /\ openIn[s] = 0 /\ CircuitHolds(s) /\ SupTypeOK
  BY DEF SupInv, SupTypeOK, MayTry
<1>1. n \in 1 .. 6
  BY <1>0
<1>2. Delay(n) \in 0 .. MaxDelay
  <2>1. Backoff[n] \in Nat
    BY <1>1 DEF Backoff
  <2> QED BY <2>1, SupConstants DEF Delay
<1>3. recent \in Ages /\ Cardinality(recent) <= Cardinality(fails[s]) + 1
      /\ Cardinality(recent) \in Nat /\ Cardinality(fails[s]) \in Nat
  BY <1>0, FreshFailure, AgesAreFinite
<1>4. /\ attempts' = [attempts EXCEPT ![s] = n] /\ retryIn' = [retryIn EXCEPT ![s] = Delay(n)]
      /\ fails' = [fails EXCEPT ![s] = recent] /\ openIn' = [openIn EXCEPT ![s] = opened]
  BY DEF RecordFailure
<1>5. opened \in 0 .. OpenFor
  BY <1>0, SupConstants
<1>6. fails'[s] = recent /\ openIn'[s] = opened
  BY <1>0, <1>4
<1>7. CircuitHolds(s)'
  <2>1. \A a \in recent : a \in Nat
    BY <1>3 DEF Ages
  <2> QED BY <1>6, <2>1, SupConstants DEF CircuitHolds
<1>8. FewFailures(s)'
  <2> SUFFICES ASSUME OpenFor >= Window PROVE Cardinality(recent) <= Limit
    BY <1>6 DEF FewFailures
  <2>1. Cardinality(fails[s]) + 1 <= Limit
    BY <1>0, ClosedMeansFew
  <2> QED BY <1>3, <2>1, SupConstants
<1> HIDE DEF n, recent, opened
<1>9. /\ retryIn' \in [Services -> 0 .. MaxDelay] /\ attempts' \in [Services -> 0 .. 6]
      /\ fails' \in [Services -> Ages] /\ openIn' \in [Services -> 0 .. OpenFor]
  BY <1>0, <1>1, <1>2, <1>3, <1>4, <1>5
<1>10. \A u \in Services \ {s} :
         retryIn'[u] = retryIn[u] /\ fails'[u] = fails[u] /\ openIn'[u] = openIn[u]
  BY <1>0, <1>4
<1> QED BY <1>7, <1>8, <1>9, <1>10

-----------------------------------------------------------------------------
LEMMA SupInitially == SupInit => SupInv
<1> SUFFICES ASSUME SupInit PROVE SupInv
  OBVIOUS
<1>1. SupTypeOK
  BY SupConstants DEF SupInit, SupTypeOK, NewBooks, Clear, Ages, PhaseNames
<1>2. WaitingHasNoChild
  BY DEF SupInit, NewBooks, Clear, WaitingHasNoChild, Alive
<1>3. Cardinality({}) = 0
  BY FS_EmptySet
<1>4. \A s \in Services : Polled(s) /\ CircuitHolds(s) /\ FewFailures(s)
  BY <1>3, SupConstants DEF SupInit, NewBooks, Clear, Polled, MayTry, CircuitHolds, FewFailures
<1> QED BY <1>1, <1>2, <1>4 DEF SupInv

\* Clean books are in order.
LEMMA CleanBooks ==
  ASSUME NEW s \in Services, fails'[s] = {}
  PROVE  CircuitHolds(s)' /\ FewFailures(s)'
BY FS_EmptySet, SupConstants DEF CircuitHolds, FewFailures

LEMMA SupStep ==
  ASSUME SupInv, [SupNext]_supVars
  PROVE  SupInv'
<1>0. /\ phase \in PhaseNames /\ todo \subseteq Services
      /\ trying \in Services \cup {NoService} /\ polls \in 0 .. Polls
      /\ child \in [Services -> {"none", "coming", "up", "dead"}]
      /\ other \in [Services -> BOOLEAN]
      /\ fit \in [Services -> BOOLEAN]
      /\ retryIn \in [Services -> 0 .. MaxDelay] /\ attempts \in [Services -> 0 .. 6]
      /\ fails \in [Services -> Ages] /\ openIn \in [Services -> 0 .. OpenFor]
  BY DEF SupInv, SupTypeOK
<1>w. \A s \in Services : /\ ~MayTry(s) => ~Alive(child[s])
                          /\ (trying = s => MayTry(s)) /\ CircuitHolds(s) /\ FewFailures(s)
  BY DEF SupInv, WaitingHasNoChild, Polled
\* A step that leaves the books alone.
<1>k. ASSUME UNCHANGED <<retryIn, fails, openIn>>
      PROVE  \A s \in Services : /\ MayTry(s)' <=> MayTry(s)
                                 /\ CircuitHolds(s)' /\ FewFailures(s)'
  BY <1>k, <1>w DEF MayTry, CircuitHolds, FewFailures
<1>e. \A c : ~Alive(Ended(c))
  BY DEF Alive, Ended
<1>d. ASSUME NEW s \in Services, Done(s)
      PROVE  /\ todo' \subseteq Services /\ trying' = NoService /\ polls' \in 0 .. Polls
             /\ phase' \in PhaseNames
  BY <1>0, <1>d, SupConstants DEF Done, PhaseNames
\* A failed start of s, whose process is ended.
<1>f. ASSUME NEW s \in Services, MayTry(s), RecordFailure(s), Done(s),
             child' = [child EXCEPT ![s] = Ended(@)], UNCHANGED <<other, fit>>
      PROVE  SupInv'
  <2>1. /\ retryIn' \in [Services -> 0 .. MaxDelay] /\ attempts' \in [Services -> 0 .. 6]
        /\ fails' \in [Services -> Ages] /\ openIn' \in [Services -> 0 .. OpenFor]
        /\ CircuitHolds(s)' /\ FewFailures(s)'
        /\ \A u \in Services \ {s} :
             retryIn'[u] = retryIn[u] /\ fails'[u] = fails[u] /\ openIn'[u] = openIn[u]
    BY <1>f, RecordKeeps
  <2>2. child' \in [Services -> {"none", "coming", "up", "dead"}]
    BY <1>0, <1>f DEF Ended
  <2>3. SupTypeOK'
    BY <1>0, <1>d, <1>f, <2>1, <2>2 DEF SupTypeOK
  <2>5. ASSUME NEW u \in Services PROVE ~MayTry(u)' => ~Alive(child'[u])
    <3>1. CASE u = s
      BY <1>0, <1>e, <1>f, <3>1
    <3>2. CASE u # s
      BY <1>0, <1>f, <1>w, <2>1, <3>2 DEF MayTry
    <3> QED BY <3>1, <3>2
  <2>6. ASSUME NEW u \in Services PROVE Polled(u)' /\ CircuitHolds(u)' /\ FewFailures(u)'
    <3>1. Polled(u)'
      BY <1>d, <1>f, SupConstants DEF Polled
    <3>2. CASE u # s
      BY <1>w, <2>1, <3>1, <3>2 DEF CircuitHolds, FewFailures
    <3> QED BY <2>1, <3>1, <3>2
  <2> QED BY <2>3, <2>5, <2>6 DEF SupInv, WaitingHasNoChild
\* A step that leaves the books alone and does not try or start
\* what may not be.
<1>q. ASSUME UNCHANGED <<retryIn, attempts, fails, openIn>>,
             phase' \in PhaseNames, todo' \subseteq Services,
             trying' \in Services \cup {NoService}, polls' \in 0 .. Polls,
             child' \in [Services -> {"none", "coming", "up", "dead"}],
             other' \in [Services -> BOOLEAN],
             fit' \in [Services -> BOOLEAN],
             \A s \in Services : /\ Alive(child'[s]) => Alive(child[s]) \/ MayTry(s)
                                 /\ trying' = s => trying = s \/ MayTry(s)
      PROVE  SupInv'
  <2>1. SupTypeOK'
    BY <1>0, <1>q DEF SupTypeOK
  <2>3. WaitingHasNoChild'
    BY <1>k, <1>q, <1>w DEF WaitingHasNoChild
  <2>4. \A s \in Services : Polled(s)'
    BY <1>k, <1>q, <1>w DEF Polled
  <2> QED BY <1>k, <1>q, <2>1, <2>3, <2>4 DEF SupInv
<1>1. CASE SupStart
  BY <1>0, <1>1, <1>q, <1>w DEF SupStart, health, books, PhaseNames
<1>2. CASE NextPass
  BY <1>0, <1>2, <1>q, <1>w DEF NextPass, health, books, PhaseNames
<1>3. ASSUME NEW s \in Services, Wait(s) PROVE SupInv'
  BY <1>0, <1>3, <1>d, <1>q, <1>w, SupConstants DEF Wait, health, books
<1>4. ASSUME NEW s \in Services, Answers(s) PROVE SupInv'
  <2>1. MayTry(s) /\ Done(s) /\ UNCHANGED <<other, fit, retryIn, attempts, fails, openIn>>
    BY <1>4 DEF Answers, books
  <2>2. /\ child' \in [Services -> {"none", "coming", "up", "dead"}]
        /\ \A u \in Services : u # s => child'[u] = child[u]
    BY <1>0, <1>4 DEF Answers
  <2> QED BY <1>0, <1>d, <1>q, <1>w, <2>1, <2>2, SupConstants
<1>5. ASSUME NEW s \in Services, CannotLaunch(s) PROVE SupInv'
  BY <1>5, <1>f DEF CannotLaunch, Silent
<1>6. ASSUME NEW s \in Services, PopenRaises(s) PROVE SupInv'
  <2>1. /\ child' = [child EXCEPT ![s] = Ended(@)] /\ todo' = {} /\ phase' \in PhaseNames
        /\ UNCHANGED <<trying, polls, other, fit, retryIn, attempts, fails, openIn>>
    BY <1>6 DEF PopenRaises, books, PhaseNames
  <2>2. /\ child' \in [Services -> {"none", "coming", "up", "dead"}]
        /\ \A u \in Services : child'[u] = child[u] \/ ~Alive(child'[u])
    BY <1>0, <1>e, <2>1 DEF Ended
  <2> QED BY <1>0, <1>q, <1>w, <2>1, <2>2
<1>7. ASSUME NEW s \in Services, Launch(s) PROVE SupInv'
  <2>1. /\ MayTry(s) /\ child' = [child EXCEPT ![s] = "coming"] /\ trying' = s /\ polls' = Polls
        /\ UNCHANGED <<phase, todo, other, fit, retryIn, attempts, fails, openIn>>
    BY <1>7 DEF Launch, Silent, books
  <2>2. child' \in [Services -> {"none", "coming", "up", "dead"}]
        /\ \A u \in Services : u # s => child'[u] = child[u]
    BY <1>0, <2>1
  <2> QED BY <1>0, <1>q, <1>w, <2>1, <2>2, SupConstants
<1>8. ASSUME NEW s \in Services, StartFails(s) PROVE SupInv'
  <2>1. MayTry(s)
    BY <1>8, <1>w DEF StartFails
  <2> QED BY <1>8, <1>f, <2>1 DEF StartFails
<1>9. ASSUME NEW s \in Services, StartWorks(s) PROVE SupInv'
  <2>1. /\ Done(s) /\ UNCHANGED <<other, fit>>
        /\ retryIn' = [retryIn EXCEPT ![s] = 0] /\ attempts' = [attempts EXCEPT ![s] = 0]
        /\ fails' = [fails EXCEPT ![s] = {}] /\ openIn' = [openIn EXCEPT ![s] = 0]
        /\ child' = child \/ child' = [child EXCEPT ![s] = "up"]
    BY <1>9 DEF StartWorks
  <2>2. /\ retryIn' \in [Services -> 0 .. MaxDelay] /\ attempts' \in [Services -> 0 .. 6]
        /\ fails' \in [Services -> Ages] /\ openIn' \in [Services -> 0 .. OpenFor]
        /\ child' \in [Services -> {"none", "coming", "up", "dead"}]
    BY <1>0, <2>1, SupConstants DEF Ages
  <2>3. /\ fails'[s] = {} /\ retryIn'[s] = 0 /\ openIn'[s] = 0
        /\ \A u \in Services \ {s} : /\ fails'[u] = fails[u] /\ openIn'[u] = openIn[u]
                                     /\ retryIn'[u] = retryIn[u] /\ child'[u] = child[u]
    BY <1>0, <2>1
  <2>4. SupTypeOK'
    BY <1>0, <1>d, <2>1, <2>2 DEF SupTypeOK
  <2>6. WaitingHasNoChild'
    BY <1>w, <2>3 DEF WaitingHasNoChild, MayTry
  <2>7. ASSUME NEW u \in Services PROVE Polled(u)' /\ CircuitHolds(u)' /\ FewFailures(u)'
    <3>1. Polled(u)'
      BY <1>d, <2>1, SupConstants DEF Polled
    <3>2. CASE u # s
      BY <1>w, <2>3, <3>1, <3>2 DEF CircuitHolds, FewFailures
    <3> QED BY <2>3, <3>1, <3>2, CleanBooks
  <2> QED BY <2>4, <2>6, <2>7 DEF SupInv
<1>10. ASSUME NEW s \in Services, NotYet(s) PROVE SupInv'
  <2>1. /\ polls' \in 0 .. Polls
        /\ UNCHANGED <<phase, todo, trying, child, other, fit,
                       retryIn, attempts, fails, openIn>>
    BY <1>0, <1>10, SupConstants DEF NotYet, health, books
  <2> QED BY <1>0, <1>q, <1>w, <2>1
<1>11. ASSUME NEW s \in Services, ComesUp(s) \/ Fails(s) PROVE SupInv'
  <2>1. /\ UNCHANGED <<phase, todo, trying, polls, other, fit,
                       retryIn, attempts, fails, openIn>>
        /\ Alive(child[s])
        /\ \E c \in {"up", "coming", "dead"} : child' = [child EXCEPT ![s] = c]
    BY <1>11 DEF ComesUp, Fails, books, Alive
  <2>2. /\ child' \in [Services -> {"none", "coming", "up", "dead"}]
        /\ \A u \in Services : u # s => child'[u] = child[u]
    BY <1>0, <2>1
  <2> QED BY <1>0, <1>q, <1>w, <2>1, <2>2
<1>12. ASSUME NEW s \in Services, Change(s) PROVE SupInv'
  <2>1. /\ UNCHANGED <<phase, todo, trying, polls, child, retryIn, attempts, fails, openIn>>
        /\ fit' \in [Services -> BOOLEAN] /\ other' \in [Services -> BOOLEAN]
    BY <1>0, <1>12 DEF Change, books
  <2> QED BY <1>0, <1>q, <1>w, <2>1
<1>13. CASE SupStop
  <2>1. /\ phase' = "stopped" /\ todo' = {} /\ trying' = NoService /\ polls' = 0
        /\ child' = Clear("none")
        /\ UNCHANGED <<other, fit, retryIn, attempts, fails, openIn>>
    BY <1>13 DEF SupStop, books
  <2>2. child' \in [Services -> {"none", "coming", "up", "dead"}]
        /\ \A s \in Services : ~Alive(child'[s])
    BY <2>1 DEF Clear, Alive
  <2> QED BY <1>0, <1>q, <2>1, <2>2, SupConstants DEF PhaseNames
<1>14. CASE Killed
  <2>1. /\ phase' = "off" /\ todo' = {} /\ trying' = NoService /\ polls' = 0
        /\ other' = [s \in Services |-> other[s] \/ child[s] = "up"]
        /\ child' = Clear("none") /\ UNCHANGED fit
        /\ retryIn' = Clear(0) /\ attempts' = Clear(0) /\ fails' = Clear({}) /\ openIn' = Clear(0)
    BY <1>14 DEF Killed
  <2>2. SupTypeOK'
    BY <1>0, <2>1, SupConstants DEF SupTypeOK, Clear, PhaseNames, Ages
  <2>3. WaitingHasNoChild'
    BY <1>w, <2>1 DEF WaitingHasNoChild, Clear, Alive
  <2>4. \A s \in Services : Polled(s)' /\ fails'[s] = {}
    BY <2>1, SupConstants DEF Polled, Clear
  <2> QED BY <2>2, <2>3, <2>4, CleanBooks DEF SupInv
<1>15. CASE Tick
  <2>1. /\ retryIn' = [s \in Services |-> Less(retryIn[s])]
        /\ openIn' = [s \in Services |-> Less(openIn[s])]
        /\ fails' = [s \in Services |-> Older(fails[s])]
        /\ UNCHANGED <<phase, todo, trying, polls, child, other, fit, attempts>>
    BY <1>15 DEF Tick, health
  <2>2. /\ retryIn' \in [Services -> 0 .. MaxDelay] /\ openIn' \in [Services -> 0 .. OpenFor]
    BY <1>0, <2>1, SupConstants DEF Less
  <2>3. fails' \in [Services -> Ages]
    BY <1>0, <2>1, OlderIs
  <2>4. SupTypeOK'
    BY <1>0, <2>1, <2>2, <2>3 DEF SupTypeOK
  <2>6. \A s \in Services : MayTry(s) => MayTry(s)'
    BY <2>1 DEF MayTry, Less
  <2>7. WaitingHasNoChild' /\ \A s \in Services : Polled(s)'
    BY <1>w, <2>1, <2>6 DEF WaitingHasNoChild, Polled
  <2>8. ASSUME NEW s \in Services PROVE CircuitHolds(s)' /\ FewFailures(s)'
    <3>1. /\ fails[s] \in Ages /\ fails'[s] = Older(fails[s])
          /\ openIn[s] \in Nat /\ openIn'[s] = Less(openIn[s])
      BY <1>0, <2>1, SupConstants
    <3>2. /\ Cardinality(fails'[s]) <= Cardinality(fails[s])
          /\ Cardinality(fails'[s]) \in Nat /\ Cardinality(fails[s]) \in Nat
          /\ \A b \in fails'[s] : b - 1 \in fails[s] /\ b \in Nat
      BY <2>3, <3>1, AgesAreFinite, OlderIs
    <3>3. FewFailures(s)'
      BY <1>w, <3>2, SupConstants DEF FewFailures
    <3>4. ASSUME Cardinality(fails'[s]) >= Threshold, NEW b \in fails'[s]
          PROVE  b + openIn'[s] >= OpenFor
      <4>1. Cardinality(fails[s]) >= Threshold
        BY <3>2, <3>4, SupConstants
      <4>2. (b - 1) + openIn[s] >= OpenFor
        BY <1>w, <3>2, <4>1 DEF CircuitHolds
      <4> QED BY <3>1, <3>2, <4>2, SupConstants DEF Less
    <3> QED BY <3>3, <3>4 DEF CircuitHolds
  <2> QED BY <2>4, <2>7, <2>8 DEF SupInv
<1>16. CASE UNCHANGED supVars
  BY <1>0, <1>16, <1>q, <1>w DEF supVars, health, books
<1> QED BY <1>1, <1>2, <1>3, <1>4, <1>5, <1>6, <1>7, <1>8, <1>9, <1>10, <1>11, <1>12,
          <1>13, <1>14, <1>15, <1>16 DEF SupNext, Watch

-----------------------------------------------------------------------------
LEMMA SupInvariance == SupSpec => []SupInv
<1>1. SupInv /\ [SupNext]_supVars => SupInv'
  BY SupStep
<1> QED BY SupInitially, <1>1, PTL DEF SupSpec

\* The state keeps its shapes: no delay is beyond the cap.
THEOREM SupTypeCorrect == SupSpec => []SupTypeOK
<1>1. SupInv => SupTypeOK
  BY DEF SupInv
<1> QED BY SupInvariance, <1>1, PTL

\* A service that is kept waiting has no process, at any wait of the monitor.
THEOREM NoChildWhileWaiting == SupSpec => []WaitingHasNoChild
<1>1. SupInv => WaitingHasNoChild
  BY DEF SupInv
<1> QED BY SupInvariance, <1>1, PTL

\* With any backoff, a circuit as long as the window keeps the failed starts
\* of any window at the threshold.
THEOREM FailuresAreBounded == SupSpec => []StartFailuresBounded
<1>1. SupInv => StartFailuresBounded
  BY DEF SupInv, FewFailures, Limit, StartFailuresBounded
<1> QED BY SupInvariance, <1>1, PTL

-----------------------------------------------------------------------------
(* Part 2: the sessions of commands (ExecSessions)                          *)

SessionType == [status: Final \cup {"none", "running"}, out: Seq(Units),
                truncated: BOOLEAN, kill: BOOLEAN]
TaskSteps == {"none", "building", "started", "waiting", "draining", "over"}
TaskType == [step: TaskSteps, reading: SUBSET Streams, hand: [Streams -> Seq(Units)]]
CommandType ==
  [child: {"none", "alive", "zero", "ended"}, helper: BOOLEAN, open: BOOLEAN,
   ctx: {"none", "open", "cancelled", "deadline"}, pipe: [Streams -> Seq(Units)],
   wrote: [Streams -> 0 .. PerStream], expired: BOOLEAN, aged: BOOLEAN,
   owner: Owners \cup {"none"}]

SessionBusy == {"building", "started", "waiting", "draining"}

\* The status of a session, its marks, its readers and its command go with the
\* step of its goroutine.
Agree(r, t, c, s, heard) ==
  /\ t.step = "none" => r = NoRecord /\ s \notin heard
  /\ t.step \in SessionBusy <=> r.status = "running"
  /\ t.step = "over" <=> r.status \in Final
  /\ t.step \in {"none", "building"} => c.child = "none"
  /\ t.reading # {} => t.step \in {"waiting", "draining"}
  /\ \A st \in Streams : t.hand[st] # << >> => st \in t.reading
  /\ s \in heard => r.kill
  /\ s \in heard /\ t.step = "over" =>
       r.status \in {"killed", "timeout"} \/ (r.status = "failed" /\ c.child = "none")

Agrees(s) == Agree(session[s], task[s], cmd[s], s, told)

ExecInv == ExecTypeOK /\ \A s \in Execs : Agrees(s)

\* What a client can rely on: a settled record stays, output only grows.
Forward(r, r2) == (r.status \in Final => r2 = r) /\ IsPrefix(r.out, r2.out)

-----------------------------------------------------------------------------
LEMMA ExecTypes ==
  ExecTypeOK <=> /\ listed \subseteq Execs /\ told \subseteq Execs
                 /\ session \in [Execs -> SessionType]
                 /\ task \in [Execs -> TaskType]
                 /\ cmd \in [Execs -> CommandType]
BY DEF ExecTypeOK, SessionType, TaskType, CommandType, TaskSteps

LEMMA PrefixOfSelf ==
  ASSUME NEW q \in Seq(Units) PROVE IsPrefix(q, q)
BY DEF IsPrefix

LEMMA PrefixOfConcat ==
  ASSUME NEW q \in Seq(Units), NEW r \in Seq(Units) PROVE IsPrefix(q, q \o r)
<1>1. Len(q) <= Len(q \o r)
  OBVIOUS
<1>2. SubSeq(q, 1, Len(q)) = SubSeq(q \o r, 1, Len(q))
  OBVIOUS
<1> QED BY <1>1, <1>2 DEF IsPrefix

LEMMA ExecInitially == ExecInit => ExecInv
<1> SUFFICES ASSUME ExecInit PROVE ExecInv
  OBVIOUS
<1>1. NoRecord \in SessionType /\ NoTask \in TaskType /\ NoCommand \in CommandType
  BY ExecAssumption DEF NoRecord, NoTask, NoCommand, SessionType, TaskType, CommandType, TaskSteps, NoOutput
<1>2. ExecTypeOK
  BY <1>1, ExecTypes DEF ExecInit
<1>3. ASSUME NEW s \in Execs PROVE Agrees(s)
  BY DEF ExecInit, Agrees, Agree, NoRecord, NoTask, NoCommand, NoOutput, SessionBusy, Final
<1> QED BY <1>2, <1>3 DEF ExecInv

\* A step on session s, by what it makes of s.
LEMMA OneSession ==
  ASSUME ExecInv, NEW s \in Execs,
         listed' \subseteq Execs, told' \subseteq Execs,
         NEW r \in SessionType, NEW t \in TaskType, NEW c \in CommandType,
         session' = [session EXCEPT ![s] = r], task' = [task EXCEPT ![s] = t],
         cmd' = [cmd EXCEPT ![s] = c],
         \A x \in Execs \ {s} : x \in told' => x \in told,
         Forward(session[s], r),
         Agree(r, t, c, s, told')
  PROVE  ExecInv' /\ \A x \in Execs : Forward(session[x], session'[x])
<1>1. /\ session \in [Execs -> SessionType]
      /\ task \in [Execs -> TaskType]
      /\ cmd \in [Execs -> CommandType]
  BY ExecTypes DEF ExecInv
<1>2. ExecTypeOK'
  BY <1>1 DEF ExecTypeOK, SessionType, TaskType, CommandType, TaskSteps
<1>3. ASSUME NEW x \in Execs PROVE Agrees(x)' /\ Forward(session[x], session'[x])
  <2>1. CASE x = s
    BY <1>1, <2>1 DEF ExecInv, Agrees
  <2>2. CASE x # s
    <3>1. session'[x] = session[x] /\ task'[x] = task[x] /\ cmd'[x] = cmd[x]
          /\ (x \in told' => x \in told)
      BY <1>1, <2>2
    <3>2. session[x].out \in Seq(Units)
      BY <1>1 DEF SessionType
    <3>3. Agrees(x)'
      BY <3>1 DEF ExecInv, Agrees, Agree
    <3> QED BY <3>1, <3>2, <3>3, PrefixOfSelf DEF Forward
  <2> QED BY <2>1, <2>2
<1> QED BY <1>2, <1>3 DEF ExecInv

LEMMA HereIs ==
  ASSUME ExecInv, NEW s \in Execs
  PROVE  /\ session[s] \in SessionType /\ task[s] \in TaskType /\ cmd[s] \in CommandType
         /\ Agrees(s) /\ listed \subseteq Execs /\ told \subseteq Execs
         /\ session \in [Execs -> SessionType]
         /\ task \in [Execs -> TaskType]
         /\ cmd \in [Execs -> CommandType]
BY ExecTypes DEF ExecInv

LEMMA StartStep ==
  ASSUME ExecInv, NEW s \in Execs, NEW o \in Owners, StartSession(o, s)
  PROVE  ExecInv' /\ \A x \in Execs : Forward(session[x], session'[x])
<1> DEFINE r == [session[s] EXCEPT !.status = "running"]
           t == [task[s] EXCEPT !.step = "building"]
           c == [cmd[s] EXCEPT !.ctx = "open", !.owner = o]
<1>1. /\ session[s] \in SessionType /\ task[s] \in TaskType /\ cmd[s] \in CommandType
      /\ Agree(session[s], task[s], cmd[s], s, told) /\ session[s] = NoRecord
  BY HereIs DEF StartSession, Agrees
<1>2. /\ r \in SessionType /\ t \in TaskType /\ c \in CommandType
      /\ r.status = "running" /\ r.out = session[s].out /\ r.kill = session[s].kill
      /\ t.step = "building" /\ t.reading = task[s].reading /\ t.hand = task[s].hand
      /\ c.child = cmd[s].child
  BY <1>1 DEF SessionType, TaskType, CommandType, TaskSteps
<1>3. /\ session' = [session EXCEPT ![s] = r] /\ task' = [task EXCEPT ![s] = t]
      /\ cmd' = [cmd EXCEPT ![s] = c] /\ told' = told /\ listed' \subseteq Execs
  BY HereIs DEF StartSession
<1> HIDE DEF r, t, c
<1>4. session[s].status = "none" /\ session[s].out \in Seq(Units)
  BY <1>1 DEF NoRecord, SessionType
<1>5. task[s].step = "none"
  BY <1>1, <1>4 DEF Agree, SessionBusy, Final, TaskType, TaskSteps
<1>6. Agree(r, t, c, s, told')
  BY <1>1, <1>2, <1>3, <1>5 DEF Agree, SessionBusy, Final
<1>7. Forward(session[s], r)
  BY <1>2, <1>4, PrefixOfSelf DEF Forward, Final
<1> QED BY <1>2, <1>3, <1>6, <1>7, OneSession, HereIs

LEMMA KillStep ==
  ASSUME ExecInv, NEW s \in Execs, NEW o \in Owners, KillSession(o, s)
  PROVE  ExecInv' /\ \A x \in Execs : Forward(session[x], session'[x])
<1> DEFINE r == [session[s] EXCEPT !.kill = TRUE]
           t == task[s]
           c == [cmd[s] EXCEPT !.ctx = IF @ = "open" THEN "cancelled" ELSE @]
<1>1. /\ session[s] \in SessionType /\ task[s] \in TaskType /\ cmd[s] \in CommandType
      /\ Agree(session[s], task[s], cmd[s], s, told) /\ session[s].status = "running"
  BY HereIs DEF KillSession, Agrees, IsRunning
<1>2. /\ r \in SessionType /\ t \in TaskType /\ c \in CommandType
      /\ r.status = "running" /\ r.out = session[s].out /\ r.kill
      /\ c.child = cmd[s].child
  BY <1>1 DEF SessionType, TaskType, CommandType
<1>3. /\ session' = [session EXCEPT ![s] = r] /\ task' = [task EXCEPT ![s] = t]
      /\ cmd' = [cmd EXCEPT ![s] = c] /\ told' = told \cup {s} /\ listed' \subseteq Execs
  BY HereIs DEF KillSession, Cancelled
<1> HIDE DEF r, c
<1>4. session[s].out \in Seq(Units)
  BY <1>1 DEF SessionType
<1>5. Agree(r, t, c, s, told')
  BY <1>1, <1>2, <1>3 DEF Agree, SessionBusy, Final
<1>6. Forward(session[s], r)
  BY <1>1, <1>2, <1>4, PrefixOfSelf DEF Forward, Final
<1> HIDE DEF t
<1> QED BY <1>2, <1>3, <1>5, <1>6, OneSession, HereIs

LEMMA SignalStep ==
  ASSUME ExecInv, NEW s \in Execs, NEW o \in Owners, SignalSession(o, s)
  PROVE  ExecInv' /\ \A x \in Execs : Forward(session[x], session'[x])
<1> DEFINE r == [session[s] EXCEPT !.kill = TRUE]
           t == task[s]
           c == [cmd[s] EXCEPT !.child = IF @ = "alive" THEN "ended" ELSE @]
<1>1. /\ session[s] \in SessionType /\ task[s] \in TaskType /\ cmd[s] \in CommandType
      /\ Agree(session[s], task[s], cmd[s], s, told) /\ session[s].status = "running"
      /\ task[s].step \in {"waiting", "draining"}
  BY HereIs DEF SignalSession, Agrees, IsRunning, Attached
<1>2. /\ r \in SessionType /\ t \in TaskType /\ c \in CommandType
      /\ r.status = "running" /\ r.out = session[s].out /\ r.kill
  BY <1>1 DEF SessionType, TaskType, CommandType
<1>3. /\ session' = [session EXCEPT ![s] = r] /\ task' = [task EXCEPT ![s] = t]
      /\ cmd' = [cmd EXCEPT ![s] = c] /\ told' \in {told, told \cup {s}} /\ listed' \subseteq Execs
  BY HereIs DEF SignalSession
<1> HIDE DEF r, c
<1>4. session[s].out \in Seq(Units)
  BY <1>1 DEF SessionType
<1>5. Agree(r, t, c, s, told')
  BY <1>1, <1>2, <1>3 DEF Agree, SessionBusy, Final
<1>6. Forward(session[s], r)
  BY <1>1, <1>2, <1>4, PrefixOfSelf DEF Forward, Final
<1> HIDE DEF t
<1> QED BY <1>2, <1>3, <1>5, <1>6, OneSession, HereIs

\* The goroutine ends with a status that the kill mark agrees with.
LEMMA SettleStep ==
  ASSUME ExecInv, NEW s \in Execs, NEW status \in Final, Settle(s, status),
         task[s].step \in SessionBusy, task[s].reading = {}, UNCHANGED <<listed, cmd, told>>,
         session[s].kill =>
           status \in {"killed", "timeout"} \/ (status = "failed" /\ cmd[s].child = "none")
  PROVE  ExecInv' /\ \A x \in Execs : Forward(session[x], session'[x])
<1> DEFINE r == [session[s] EXCEPT !.status = status]
           t == [task[s] EXCEPT !.step = "over"]
           c == cmd[s]
<1>1. /\ session[s] \in SessionType /\ task[s] \in TaskType /\ cmd[s] \in CommandType
      /\ Agree(session[s], task[s], cmd[s], s, told)
  BY HereIs DEF Agrees
<1>2. /\ r \in SessionType /\ t \in TaskType /\ c \in CommandType
      /\ r.status = status /\ r.out = session[s].out /\ r.kill = session[s].kill
      /\ t.step = "over" /\ t.reading = {} /\ t.hand = task[s].hand
  BY <1>1 DEF SessionType, TaskType, CommandType, TaskSteps
<1>3. /\ session' = [session EXCEPT ![s] = r] /\ task' = [task EXCEPT ![s] = t]
      /\ cmd' = [cmd EXCEPT ![s] = c] /\ told' = told /\ listed' \subseteq Execs
  BY HereIs DEF Settle
<1> HIDE DEF r, t
<1>4. session[s].out \in Seq(Units) /\ session[s].status = "running"
  BY <1>1 DEF SessionType, Agree
<1>5. Agree(r, t, c, s, told')
  BY <1>1, <1>2, <1>3 DEF Agree, SessionBusy, Final
<1>6. Forward(session[s], r)
  BY <1>2, <1>4, PrefixOfSelf DEF Forward, Final
<1> HIDE DEF c
<1> QED BY <1>2, <1>3, <1>5, <1>6, OneSession, HereIs

LEMMA BuildingReadsNothing ==
  ASSUME ExecInv, NEW s \in Execs, task[s].step = "building"
  PROVE  task[s].reading = {} /\ cmd[s].child = "none"
BY DEF ExecInv, Agrees, Agree

LEMMA EndStep ==
  ASSUME ExecInv, NEW s \in Execs, BuildFails(s) \/ SpawnFails(s) \/ Concludes(s)
  PROVE  ExecInv' /\ \A x \in Execs : Forward(session[x], session'[x])
<1>1. CASE BuildFails(s)
  BY <1>1, BuildingReadsNothing, SettleStep DEF BuildFails, SessionBusy, Final
<1>2. CASE SpawnFails(s)
  <2> DEFINE status == IF session[s].kill \/ cmd[s].ctx = "cancelled" THEN "killed" ELSE "failed"
  <2>1. status \in Final /\ (session[s].kill => status = "killed")
    BY DEF Final
  <2>2. Settle(s, status) /\ task[s].step = "building" /\ UNCHANGED <<listed, cmd, told>>
    BY <1>2 DEF SpawnFails
  <2> HIDE DEF status
  <2> QED BY <2>1, <2>2, BuildingReadsNothing, SettleStep DEF SessionBusy
<1>3. CASE Concludes(s)
  <2>1. Outcome(s) \in Final /\ (session[s].kill => Outcome(s) \in {"killed", "timeout"})
    BY DEF Outcome, Final
  <2> QED BY <1>3, <2>1, SettleStep DEF Concludes, SessionBusy
<1> QED BY <1>1, <1>2, <1>3

LEMMA SpawnsStep ==
  ASSUME ExecInv, NEW s \in Execs, Spawns(s)
  PROVE  ExecInv' /\ \A x \in Execs : Forward(session[x], session'[x])
<1> DEFINE r == session[s]
           t == [task[s] EXCEPT !.step = "started"]
           c == [cmd[s] EXCEPT !.child = "alive", !.open = TRUE]
<1>1. /\ session[s] \in SessionType /\ task[s] \in TaskType /\ cmd[s] \in CommandType
      /\ Agree(session[s], task[s], cmd[s], s, told) /\ task[s].step = "building"
  BY HereIs DEF Agrees, Spawns
<1>2. /\ r \in SessionType /\ t \in TaskType /\ c \in CommandType
      /\ t.step = "started" /\ t.reading = task[s].reading /\ t.hand = task[s].hand
  BY <1>1 DEF SessionType, TaskType, CommandType, TaskSteps
<1>3. /\ session' = [session EXCEPT ![s] = r] /\ task' = [task EXCEPT ![s] = t]
      /\ cmd' = [cmd EXCEPT ![s] = c] /\ told' = told /\ listed' \subseteq Execs
  BY HereIs DEF Spawns
<1> HIDE DEF t, c
<1>4. session[s].out \in Seq(Units) /\ session[s].status = "running"
  BY <1>1 DEF SessionType, Agree, SessionBusy
<1>5. Agree(r, t, c, s, told')
  BY <1>1, <1>2, <1>3, <1>4 DEF Agree, SessionBusy, Final
<1>6. Forward(session[s], r)
  BY <1>2, <1>4, PrefixOfSelf DEF Forward, Final
<1> HIDE DEF r
<1> QED BY <1>2, <1>3, <1>5, <1>6, OneSession, HereIs

\* The goroutine goes on, or one of the readers does, and the command may change.
LEMMA TaskStep ==
  ASSUME ExecInv, NEW s \in Execs, NEW t \in TaskType, NEW c \in CommandType,
         UNCHANGED <<listed, session, told>>,
         task' = [task EXCEPT ![s] = t], cmd' = [cmd EXCEPT ![s] = c],
         c.child = "none" <=> cmd[s].child = "none",
         \/ t.step = task[s].step /\ t.reading \subseteq task[s].reading
         \/ /\ task[s].step \in {"started", "waiting"}
            /\ t.step \in {"waiting", "draining"},
         \A st \in Streams : t.hand[st] # << >> => st \in t.reading
  PROVE  ExecInv' /\ \A x \in Execs : Forward(session[x], session'[x])
<1> DEFINE r == session[s]
<1>1. /\ session[s] \in SessionType /\ task[s] \in TaskType /\ cmd[s] \in CommandType
      /\ Agree(session[s], task[s], cmd[s], s, told) /\ session[s].out \in Seq(Units)
  BY HereIs DEF Agrees, SessionType
<1>2. session' = [session EXCEPT ![s] = r] /\ told' = told /\ listed' \subseteq Execs
  BY HereIs
<1>3. Agree(r, t, c, s, told')
  BY <1>1, <1>2 DEF Agree, SessionBusy, Final
<1>4. Forward(session[s], r)
  BY <1>1, PrefixOfSelf DEF Forward
<1> HIDE DEF r
<1>5. r \in SessionType
  BY <1>1 DEF r
<1> QED BY <1>2, <1>3, <1>4, <1>5, OneSession, HereIs

LEMMA AttachStep ==
  ASSUME ExecInv, NEW s \in Execs, Attach(s)
  PROVE  ExecInv' /\ \A x \in Execs : Forward(session[x], session'[x])
<1> DEFINE t == [task[s] EXCEPT !.step = "waiting", !.reading = Streams]
           c == cmd[s]
<1>1. /\ task[s] \in TaskType /\ c \in CommandType
      /\ Agree(session[s], task[s], cmd[s], s, told) /\ task[s].step = "started"
  BY HereIs DEF Agrees, Attach
<1>2. t \in TaskType /\ t.step = "waiting" /\ t.reading = Streams
  BY <1>1 DEF TaskType, TaskSteps
<1>3. task' = [task EXCEPT ![s] = t] /\ cmd' = [cmd EXCEPT ![s] = c]
  BY HereIs DEF Attach
<1> HIDE DEF t
<1> QED BY <1>1, <1>2, <1>3, TaskStep DEF Attach

LEMMA WaitStep ==
  ASSUME ExecInv, NEW s \in Execs, WaitReturns(s)
  PROVE  ExecInv' /\ \A x \in Execs : Forward(session[x], session'[x])
<1> DEFINE t == [task[s] EXCEPT !.step = "draining"]
           c == [cmd[s] EXCEPT !.open = FALSE, !.helper = FALSE, !.pipe = NoOutput]
<1>1. /\ task[s] \in TaskType /\ cmd[s] \in CommandType
      /\ Agree(session[s], task[s], cmd[s], s, told) /\ task[s].step = "waiting"
  BY HereIs DEF Agrees, WaitReturns
<1>2. /\ t \in TaskType /\ t.step = "draining" /\ t.reading = task[s].reading /\ t.hand = task[s].hand
      /\ c \in CommandType /\ c.child = cmd[s].child
  <2>1. NoOutput \in [Streams -> Seq(Units)]
    BY DEF NoOutput
  <2>2. t \in TaskType /\ t.step = "draining" /\ t.reading = task[s].reading /\ t.hand = task[s].hand
    BY <1>1 DEF TaskType, TaskSteps
  <2>3. c \in CommandType /\ c.child = cmd[s].child
    BY <1>1, <2>1 DEF CommandType
  <2> QED BY <2>2, <2>3
<1>3. task' = [task EXCEPT ![s] = t] /\ cmd' = [cmd EXCEPT ![s] = c]
  BY HereIs DEF WaitReturns
<1>4. \A st \in Streams : t.hand[st] # << >> => st \in t.reading
  BY <1>1, <1>2 DEF Agree
<1>5. UNCHANGED <<listed, session, told>>
  BY DEF WaitReturns
<1> HIDE DEF t, c
<1> QED BY <1>1, <1>2, <1>3, <1>4, <1>5, TaskStep

LEMMA ReadsStep ==
  ASSUME ExecInv, NEW s \in Execs, NEW st \in Streams, Reads(s, st)
  PROVE  ExecInv' /\ \A x \in Execs : Forward(session[x], session'[x])
<1>1. PICK k \in 1 .. Len(cmd[s].pipe[st]) :
        /\ task' = [task EXCEPT ![s].hand[st] = SubSeq(cmd[s].pipe[st], 1, k)]
        /\ cmd' = [cmd EXCEPT ![s].pipe[st] = SubSeq(@, k + 1, Len(@))]
  BY DEF Reads
<1> DEFINE q == cmd[s].pipe[st]
           got == SubSeq(q, 1, k)
           rest == SubSeq(q, k + 1, Len(q))
           t == [task[s] EXCEPT !.hand = [task[s].hand EXCEPT ![st] = got]]
           c == [cmd[s] EXCEPT !.pipe = [cmd[s].pipe EXCEPT ![st] = rest]]
<1>2. /\ task[s] \in TaskType /\ cmd[s] \in CommandType
      /\ Agree(session[s], task[s], cmd[s], s, told) /\ st \in task[s].reading
  BY HereIs DEF Agrees, Reads
<1>3. got \in Seq(Units) /\ rest \in Seq(Units)
  <2>1. q \in Seq(Units)
    BY <1>2 DEF CommandType
  <2> QED BY <2>1
<1>4. task' = [task EXCEPT ![s] = t] /\ cmd' = [cmd EXCEPT ![s] = c]
  BY <1>1, <1>2, HereIs
<1> HIDE DEF got, rest
<1>5. /\ t \in TaskType /\ t.step = task[s].step /\ t.reading = task[s].reading
      /\ t.hand = [task[s].hand EXCEPT ![st] = got]
      /\ c \in CommandType /\ c.child = cmd[s].child
  BY <1>2, <1>3 DEF TaskType, CommandType
<1>6. \A x \in Streams : t.hand[x] # << >> => x \in t.reading
  BY <1>2, <1>5 DEF Agree, TaskType
<1> HIDE DEF t, c
<1> QED BY <1>2, <1>4, <1>5, <1>6, TaskStep DEF Reads

LEMMA StopsReadingStep ==
  ASSUME ExecInv, NEW s \in Execs, NEW st \in Streams, StopsReading(s, st)
  PROVE  ExecInv' /\ \A x \in Execs : Forward(session[x], session'[x])
<1> DEFINE t == [task[s] EXCEPT !.reading = @ \ {st}]
           c == cmd[s]
<1>1. /\ task[s] \in TaskType /\ cmd[s] \in CommandType
      /\ Agree(session[s], task[s], cmd[s], s, told) /\ task[s].hand[st] = << >>
  BY HereIs DEF Agrees, StopsReading
<1>2. /\ t \in TaskType /\ t.step = task[s].step /\ t.reading = task[s].reading \ {st}
      /\ t.hand = task[s].hand
  BY <1>1 DEF TaskType
<1>3. task' = [task EXCEPT ![s] = t] /\ cmd' = [cmd EXCEPT ![s] = c]
  BY HereIs DEF StopsReading
<1>4. \A x \in Streams : t.hand[x] # << >> => x \in t.reading
  BY <1>1, <1>2 DEF Agree
<1> HIDE DEF t
<1> QED BY <1>1, <1>2, <1>3, <1>4, TaskStep DEF StopsReading

LEMMA KeptIs ==
  ASSUME NEW s \in Execs, session[s] \in SessionType, session[s].status = "running",
         NEW chunk \in Seq(Units)
  PROVE  /\ Kept(s, chunk) \in SessionType
         /\ Kept(s, chunk).status = "running" /\ Kept(s, chunk).kill = session[s].kill
         /\ IsPrefix(session[s].out, Kept(s, chunk).out)
<1> DEFINE out == session[s].out
<1>1. out \in Seq(Units) /\ MaxKept \in Nat
  BY ExecAssumption DEF SessionType
<1>2. CASE session[s].truncated
  BY <1>1, <1>2, PrefixOfSelf DEF Kept
<1>3. CASE ~session[s].truncated /\ Len(chunk) > Room(s)
  <2> DEFINE part == SubSeq(chunk, 1, Room(s))
  <2>1. part \in Seq(Units)
    BY <1>1, <1>3 DEF Room
  <2>2. Kept(s, chunk) = [session[s] EXCEPT !.out = out \o part, !.truncated = TRUE]
    BY <1>3 DEF Kept
  <2> HIDE DEF part
  <2>3. out \o part \in Seq(Units) /\ IsPrefix(out, out \o part)
    BY <1>1, <2>1, PrefixOfConcat
  <2> QED BY <2>2, <2>3 DEF SessionType
<1>4. CASE ~session[s].truncated /\ ~(Len(chunk) > Room(s))
  <2>1. out \o chunk \in Seq(Units) /\ IsPrefix(out, out \o chunk)
    BY <1>1, PrefixOfConcat
  <2>2. Kept(s, chunk) = [session[s] EXCEPT !.out = out \o chunk]
    BY <1>4 DEF Kept
  <2> QED BY <2>1, <2>2 DEF SessionType
<1> QED BY <1>2, <1>3, <1>4

LEMMA KeepsStep ==
  ASSUME ExecInv, NEW s \in Execs, NEW st \in Streams, Keeps(s, st)
  PROVE  ExecInv' /\ \A x \in Execs : Forward(session[x], session'[x])
<1> DEFINE chunk == task[s].hand[st]
           r == Kept(s, chunk)
           t == [task[s] EXCEPT !.hand = [task[s].hand EXCEPT ![st] = << >>]]
           c == cmd[s]
<1>1. /\ session[s] \in SessionType /\ task[s] \in TaskType /\ c \in CommandType
      /\ Agree(session[s], task[s], cmd[s], s, told) /\ chunk # << >>
  BY HereIs DEF Agrees, Keeps
<1>2. chunk \in Seq(Units) /\ session[s].status = "running"
  BY <1>1 DEF Agree, SessionBusy, TaskType
<1>3. /\ r \in SessionType /\ r.status = "running" /\ r.kill = session[s].kill
      /\ IsPrefix(session[s].out, r.out)
  BY <1>1, <1>2, KeptIs
<1>4. /\ session' = [session EXCEPT ![s] = r] /\ task' = [task EXCEPT ![s] = t]
      /\ cmd' = [cmd EXCEPT ![s] = c] /\ told' = told /\ listed' \subseteq Execs
  BY HereIs DEF Keeps
<1>5. /\ t \in TaskType /\ t.step = task[s].step /\ t.reading = task[s].reading
      /\ t.hand = [task[s].hand EXCEPT ![st] = << >>]
  <2>1. [task[s].hand EXCEPT ![st] = << >>] \in [Streams -> Seq(Units)]
    <3>1. task[s].hand \in [Streams -> Seq(Units)] /\ << >> \in Seq(Units)
      BY <1>1 DEF TaskType
    <3> QED BY <3>1
  <2> QED BY <1>1, <2>1 DEF TaskType
<1> HIDE DEF r, t
<1>6. task[s].hand \in [Streams -> Seq(Units)]
  BY <1>1 DEF TaskType
<1>7. Agree(r, t, c, s, told')
  BY <1>1, <1>2, <1>3, <1>4, <1>5, <1>6 DEF Agree, SessionBusy, Final
<1>8. Forward(session[s], r)
  BY <1>2, <1>3 DEF Forward, Final
<1> HIDE DEF c
<1> QED BY <1>1, <1>3, <1>4, <1>5, <1>7, <1>8, OneSession, HereIs

\* The operating system and the clock change the command and its context.
LEMMA CommandStep ==
  ASSUME ExecInv, NEW s \in Execs,
         \/ \E st \in Streams : Writes(s, st)
         \/ \E how \in {"zero", "ended"} : Exits(s, how)
         \/ Helper(s) \/ ContextKills(s) \/ Clock(s) \/ RetentionEnds(s)
  PROVE  ExecInv' /\ \A x \in Execs : Forward(session[x], session'[x])
<1>1. /\ task[s] \in TaskType /\ cmd[s] \in CommandType
      /\ Agree(session[s], task[s], cmd[s], s, told)
      /\ cmd \in [Execs -> CommandType] /\ task \in [Execs -> TaskType]
  BY HereIs DEF Agrees
<1>2. PICK c \in CommandType :
        /\ cmd' = [cmd EXCEPT ![s] = c]
        /\ c.child = "none" <=> cmd[s].child = "none"
        /\ UNCHANGED <<listed, session, task, told>>
  <2>1. CASE \E st \in Streams : Writes(s, st)
    <3>1. PICK st \in Streams : Writes(s, st)
      BY <2>1
    <3> DEFINE n == cmd[s].wrote[st] + 1
               wrote == [cmd[s].wrote EXCEPT ![st] = n]
               pipe == [cmd[s].pipe EXCEPT ![st] = Append(cmd[s].pipe[st], <<st, n>>)]
               c == [cmd[s] EXCEPT !.wrote = wrote, !.pipe = pipe]
    <3>2. n \in 1 .. PerStream
      <4>1. cmd[s].wrote \in [Streams -> 0 .. PerStream] /\ cmd[s].wrote[st] < PerStream
        BY <1>1, <3>1 DEF Writes, CommandType
      <4> QED BY <4>1, ExecAssumption
    <3>3. wrote \in [Streams -> 0 .. PerStream] /\ pipe \in [Streams -> Seq(Units)]
      <4>1. <<st, n>> \in Units
        BY <3>2 DEF Units
      <4> HIDE DEF n
      <4>2. cmd[s].pipe \in [Streams -> Seq(Units)] /\ cmd[s].wrote \in [Streams -> 0 .. PerStream]
        BY <1>1 DEF CommandType
      <4>3. Append(cmd[s].pipe[st], <<st, n>>) \in Seq(Units)
        BY <4>1, <4>2
      <4> QED BY <3>2, <4>2, <4>3
    <3>4. cmd' = [cmd EXCEPT ![s] = c]
      BY <3>1, <1>1 DEF Writes
    <3> HIDE DEF wrote, pipe
    <3>5. c \in CommandType /\ c.child = cmd[s].child
      BY <1>1, <3>3 DEF CommandType
    <3> HIDE DEF c
    <3> QED BY <3>1, <3>4, <3>5 DEF Writes
  <2>2. CASE \E how \in {"zero", "ended"} : Exits(s, how)
    <3>1. PICK how \in {"zero", "ended"} : Exits(s, how)
      BY <2>2
    <3> DEFINE c == [cmd[s] EXCEPT !.child = how]
    <3>2. c \in CommandType /\ c.child = how /\ cmd[s].child = "alive"
      BY <1>1, <3>1 DEF CommandType, Exits
    <3>3. cmd' = [cmd EXCEPT ![s] = c] /\ UNCHANGED <<listed, session, task, told>>
      BY <3>1, <1>1 DEF Exits
    <3> HIDE DEF c
    <3> QED BY <3>2, <3>3
  <2>3. CASE Helper(s)
    <3> DEFINE c == [cmd[s] EXCEPT !.helper = ~@]
    <3>2. c \in CommandType /\ c.child = cmd[s].child
      BY <1>1 DEF CommandType
    <3>3. cmd' = [cmd EXCEPT ![s] = c] /\ UNCHANGED <<listed, session, task, told>>
      BY <2>3, <1>1 DEF Helper
    <3> HIDE DEF c
    <3> QED BY <3>2, <3>3
  <2>4. CASE ContextKills(s)
    BY <2>2, <2>4 DEF ContextKills
  <2>5. CASE Expires(s)
    <3> DEFINE c == [cmd[s] EXCEPT !.expired = TRUE]
    <3>2. c \in CommandType /\ c.child = cmd[s].child
      BY <1>1 DEF CommandType
    <3>3. cmd' = [cmd EXCEPT ![s] = c] /\ UNCHANGED <<listed, session, task, told>>
      BY <2>5, <1>1 DEF Expires
    <3> HIDE DEF c
    <3> QED BY <3>2, <3>3
  <2>6. CASE Deadline(s)
    <3> DEFINE c == [cmd[s] EXCEPT !.ctx = "deadline"]
    <3>2. c \in CommandType /\ c.child = cmd[s].child
      BY <1>1 DEF CommandType
    <3>3. cmd' = [cmd EXCEPT ![s] = c] /\ UNCHANGED <<listed, session, task, told>>
      BY <2>6, <1>1 DEF Deadline
    <3> HIDE DEF c
    <3> QED BY <3>2, <3>3
  <2>7. CASE RetentionEnds(s)
    <3> DEFINE c == [cmd[s] EXCEPT !.aged = TRUE]
    <3>2. c \in CommandType /\ c.child = cmd[s].child
      BY <1>1 DEF CommandType
    <3>3. cmd' = [cmd EXCEPT ![s] = c] /\ UNCHANGED <<listed, session, task, told>>
      BY <2>7, <1>1 DEF RetentionEnds
    <3> HIDE DEF c
    <3> QED BY <3>2, <3>3
  <2> QED BY <2>1, <2>2, <2>3, <2>4, <2>5, <2>6, <2>7 DEF Clock
<1>3. task' = [task EXCEPT ![s] = task[s]]
  BY <1>1, <1>2
<1>4. \A st \in Streams : task[s].hand[st] # << >> => st \in task[s].reading
  BY <1>1 DEF Agree
<1> QED BY <1>1, <1>2, <1>3, <1>4, TaskStep

\* Every step keeps the invariant, and what a client of a session has seen.
LEMMA ExecStep ==
  ASSUME ExecInv, [ExecNext]_execVars
  PROVE  ExecInv' /\ \A x \in Execs : Forward(session[x], session'[x])
<1>1. CASE UNCHANGED <<session, task, cmd, told>> /\ listed' \subseteq Execs
  <2>1. ExecInv'
    BY <1>1 DEF ExecInv, ExecTypeOK, Agrees, Agree
  <2>2. \A x \in Execs : session[x].out \in Seq(Units)
    BY HereIs DEF SessionType
  <2> QED BY <1>1, <2>1, <2>2, PrefixOfSelf DEF Forward
<1>2. CASE Look \/ UNCHANGED execVars
  <2>1. listed \subseteq Execs
    BY DEF ExecInv, ExecTypeOK
  <2> QED BY <1>1, <1>2, <2>1 DEF Look, execVars
<1>3. ASSUME NEW s \in Execs, Runner(s)
      PROVE  ExecInv' /\ \A x \in Execs : Forward(session[x], session'[x])
  BY <1>3, EndStep, SpawnsStep, AttachStep, WaitStep DEF Runner
<1>4. ASSUME NEW s \in Execs, NEW st \in Streams, Reader(s, st)
      PROVE  ExecInv' /\ \A x \in Execs : Forward(session[x], session'[x])
  BY <1>4, ReadsStep, KeepsStep, StopsReadingStep DEF Reader
<1> QED BY <1>2, <1>3, <1>4, StartStep, KillStep, SignalStep, CommandStep DEF ExecNext

LEMMA ExecInvariance == ExecSpec => []ExecInv
BY ExecInitially, ExecStep, PTL DEF ExecSpec

\* Records, goroutines and commands of the sessions keep their shapes.
THEOREM ExecTypeCorrect == ExecSpec => []ExecTypeOK
BY ExecInvariance, PTL DEF ExecInv

\* Whatever a command, its readers, its timeout and other requests do
\* meanwhile, a session whose end a client was told of as a kill does not turn
\* out to be done, nor failed if its command ever ran.
THEOREM KillsAreKept == ExecSpec => []KillIsKept
<1>1. ExecInv => KillIsKept
  <2> SUFFICES ASSUME ExecInv, NEW s \in told
               PROVE  \/ session[s].status \in {"running", "killed", "timeout"}
                      \/ session[s].status = "failed" /\ cmd[s].child = "none"
    BY DEF KillIsKept
  <2>1. s \in Execs
    BY DEF ExecInv, ExecTypeOK
  <2>2. Agree(session[s], task[s], cmd[s], s, told) /\ task[s].step \in TaskSteps
    BY <2>1, HereIs DEF Agrees, TaskType
  <2> QED BY <2>2 DEF Agree, SessionBusy, Final, TaskSteps
<1> QED BY <1>1, ExecInvariance, PTL

\* A settled session never changes again, and until then its output only
\* grows: a cursor that a client holds stays good.
THEOREM SettledStays == ExecSpec => SettledForGood
<1>1. ExecInv /\ [ExecNext]_execVars =>
        [\A s \in Execs :
           /\ session[s].status \in Final => session'[s] = session[s]
           /\ IsPrefix(session[s].out, session'[s].out)]_execVars
  BY ExecStep DEF Forward
<1> QED BY <1>1, ExecInvariance, PTL DEF ExecSpec, SettledForGood
===============================================================================
