----------------------------- MODULE MCRegistry -----------------------------
(***************************************************************************)
(* Instances of Registry for TLC.  Handlers, tenants, agents and tools are *)
(* each interchangeable.                                                   *)
(***************************************************************************)
EXTENDS Registry, TLC

Interchangeable ==
  Permutations(Handlers) \cup Permutations(Tenants)
    \cup Permutations(AgentIds) \cup Permutations(ToolIds)
=============================================================================
