------------------------------ MODULE MCServices ------------------------------
(***************************************************************************)
(* The services that share no state with one another, in one run: a         *)
(* behaviour chooses one of them, the others rest in their initial state.   *)
(* What is checked of a service here is what a run of its own would check,  *)
(* since nothing that one of them does can be seen by another.              *)
(***************************************************************************)
EXTENDS ChannelRouting, SidecarSupervisor, Outbound, SkillInstall, AuditChain, TurnContext,
        ExecSessions, Inbound, ApprovalGate

VARIABLE service

MCProcessOf == [t \in Callers |-> IF t = "cli" THEN "cli" ELSE "gateway"]

vars == <<service, routeVars, supVars, outVars, skillVars, auditVars, turnVars, execVars, inVars,
          gateVars>>

Init ==
  /\ service \in {"routing", "supervisor", "outbound", "skills", "audit", "turns",
                 "exec", "inbound", "gate"}
  /\ RouteInit /\ SupInit /\ OutInit /\ SkillInit /\ AuditInit /\ TurnInit
  /\ ExecInit /\ InInit /\ GateInit

Routing ==
  /\ service = "routing" /\ RouteNext
  /\ UNCHANGED <<service, supVars, outVars, skillVars, auditVars, turnVars, execVars,
                 inVars, gateVars>>

Supervisor ==
  /\ service = "supervisor" /\ SupNext
  /\ UNCHANGED <<service, routeVars, outVars, skillVars, auditVars, turnVars, execVars,
                 inVars, gateVars>>

Sending ==
  /\ service = "outbound" /\ OutNext
  /\ UNCHANGED <<service, routeVars, supVars, skillVars, auditVars, turnVars, execVars,
                 inVars, gateVars>>

Installing ==
  /\ service = "skills" /\ SkillNext
  /\ UNCHANGED <<service, routeVars, supVars, outVars, auditVars, turnVars, execVars,
                 inVars, gateVars>>

Auditing ==
  /\ service = "audit" /\ AuditNext
  /\ UNCHANGED <<service, routeVars, supVars, outVars, skillVars, turnVars, execVars,
                 inVars, gateVars>>

Turning ==
  /\ service = "turns" /\ TurnNext
  /\ UNCHANGED <<service, routeVars, supVars, outVars, skillVars, auditVars, execVars,
                 inVars, gateVars>>

Executing ==
  /\ service = "exec" /\ ExecNext
  /\ UNCHANGED <<service, routeVars, supVars, outVars, skillVars, auditVars, turnVars, inVars,
                 gateVars>>

Receiving ==
  /\ service = "inbound" /\ InNext
  /\ UNCHANGED <<service, routeVars, supVars, outVars, skillVars, auditVars, turnVars, execVars,
                 gateVars>>

Permitting ==
  /\ service = "gate" /\ GateNext
  /\ UNCHANGED <<service, routeVars, supVars, outVars, skillVars, auditVars, turnVars, execVars,
                 inVars>>

Next ==
  \/ Routing \/ Supervisor \/ Sending \/ Installing
  \/ Auditing \/ Turning \/ Executing \/ Receiving \/ Permitting

\* The fairness of a service that rests is vacuous: none of its fair actions
\* is enabled in its initial state.
Spec == Init /\ [][Next]_vars /\ SupFairness /\ OutFairness /\ ExecFairness /\ InFairness

\* The type invariants of the services.
TypesOK ==
  /\ RouteTypeOK /\ SupTypeOK /\ OutTypeOK
  /\ SkillTypeOK /\ AuditTypeOK /\ TurnTypeOK
  /\ ExecTypeOK /\ InTypeOK /\ GateTypeOK
==============================================================================
