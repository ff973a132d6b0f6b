-------------------------- MODULE MCExecutionLoop --------------------------
(***************************************************************************)
(* Instances of ExecutionLoop for TLC.  An agent has `think`, a tool with  *)
(* an implementation, and one without; the model may also name a tool that *)
(* the agent does not have.                                                *)
(***************************************************************************)
EXTENDS ExecutionLoop

MCToolNames == {"think", "web_search", "calculator", "renamed"}

MCAgentTools == {"think", "web_search", "renamed"}

MCRegistry == {"think", "web_search", "calculator"}
=============================================================================
