---------------------------- MODULE MCAccounting ----------------------------
(***************************************************************************)
(* Instances of Accounting for TLC: two concurrent runs of up to two       *)
(* completions, two agents, two models of which one has a price.  Runs and *)
(* agents are interchangeable.                                             *)
(***************************************************************************)
EXTENDS Accounting, TLC

Interchangeable == Permutations(Runs) \cup Permutations(Agents)
=============================================================================
