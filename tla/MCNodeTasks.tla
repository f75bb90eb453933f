----------------------------- MODULE MCNodeTasks -----------------------------
(* Constants for model-checking NodeTasks, and the mutants of its operators. *)
EXTENDS NodeTasks

Pol(ap, max, tmo, cnt, gw) ==
  [allowed |-> Types, gateway |-> gw, maxRunning |-> max, approve |-> ap,
   timeout |-> tmo, count |-> cnt]

Req(type, payload, cap) == [type |-> type, payload |-> payload, cap |-> cap]

MCTypes == {"prompt", "capture"}
MCGatewayTypes == {"prompt"}
MCCaps == {"camera"}

\* Approvals: prompts need one or two approvers, with or without a timeout.
ApprovalRequests == {Req("prompt", "a", NoCap)}
ApprovalPolicies == {Pol({"prompt"}, 1, 1, 2, TRUE), Pol({"prompt"}, 0, -1, 0, TRUE)}

\* Quota: both kinds of task, no approvals, one or two at a time.
QuotaRequests == {Req("prompt", "a", NoCap), Req("capture", "b", "camera")}
QuotaPolicies == {Pol({}, 2, 0, 1, TRUE), Pol({}, 1, 0, 1, FALSE)}

\* Idempotency and quota: payloads for one key, one of them refused, and a
\* quota that shrinks.
KeyRequests == {Req("prompt", "a", NoCap), Req("prompt", "b", NoCap),
                Req("prompt", "huge", NoCap), Req("capture", "c", "camera")}
KeyRefused == {Req("prompt", "huge", NoCap)}
KeyPolicies == {[Pol({}, 2, 0, 1, TRUE) EXCEPT !.allowed = {"prompt"}],
                Pol({}, 1, 0, 1, FALSE)}

NoRequests == {}
NoCaps == {{}}
AnyCaps == {{}, {"camera"}}
Camera == {{"camera"}}
NoWindows == {}
SomeWindows == {0, 1}
=============================================================================
