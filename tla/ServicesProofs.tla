---------------------------- MODULE ServicesProofs ----------------------------
(***************************************************************************)
(* Theorems about the run of MCServices: in it each service is itself, so   *)
(* that what is proved of it alone holds there.                             *)
(***************************************************************************)
EXTENDS MCServices, ChannelsProofs, SidecarProofs, AgentProofs

-----------------------------------------------------------------------------
LEMMA ServicesStart ==
  Init => /\ RouteInit /\ SupInit /\ OutInit /\ SkillInit
          /\ AuditInit /\ TurnInit /\ ExecInit /\ InInit /\ GateInit
BY DEF Init

\* A step of the run is a step of one service, and of no other.
LEMMA ServicesStep ==
  [Next]_vars =>
    /\ [RouteNext]_routeVars /\ [SupNext]_supVars /\ [OutNext]_outVars /\ [SkillNext]_skillVars
    /\ [AuditNext]_auditVars /\ [TurnNext]_turnVars /\ [ExecNext]_execVars
    /\ [InNext]_inVars /\ [GateNext]_gateVars
BY DEF Next, vars, Routing, Supervisor, Sending, Installing, Auditing, Turning, Executing,
       Receiving, Permitting

\* Whatever MCServices chooses, every service in it behaves as its own
\* specification says, the fairness of its tasks included.
THEOREM ServicesAreThemselves ==
  Spec => /\ RouteSpec /\ SupSpec /\ OutSpec /\ SkillSpec
          /\ AuditSpec /\ TurnSpec /\ ExecSpec /\ InSpec /\ GateSpec
BY ServicesStart, ServicesStep, PTL
   DEF Spec, RouteSpec, SupSpec, OutSpec, SkillSpec, AuditSpec, TurnSpec, ExecSpec, InSpec,
       GateSpec

\* The state of every service keeps its shapes.
THEOREM TypesCorrect == Spec => []TypesOK
<1>1. RouteTypeOK /\ SupTypeOK /\ OutTypeOK /\ SkillTypeOK /\ AuditTypeOK /\ TurnTypeOK
        /\ ExecTypeOK /\ InTypeOK /\ GateTypeOK
      => TypesOK
  BY DEF TypesOK
<1> QED BY <1>1, ServicesAreThemselves, RouteTypeCorrect, SupTypeCorrect, OutTypeCorrect,
           SkillTypeCorrect, AuditTypeCorrect, TurnTypeCorrect, ExecTypeCorrect,
           InTypeCorrect, GateTypeCorrect, PTL
===============================================================================
