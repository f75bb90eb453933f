--------------------------- MODULE MCNodeProcesses ---------------------------
(* Constants for model-checking NodeProcesses. *)
EXTENDS NodeProcesses, TLC

CONSTANT Payloads

MCTypes == {"prompt"}
MCRequests == {[type |-> "prompt", payload |-> x, cap |-> NoCap] : x \in Payloads}
MCPolicies ==
  {[allowed |-> {}, gateway |-> TRUE, maxRunning |-> 1, approve |-> {"prompt"},
    timeout |-> 1, count |-> 1]}
NoRequests == {}

\* Nothing tells two payloads apart but that they differ.
Renamings == Permutations(Payloads)
=============================================================================
