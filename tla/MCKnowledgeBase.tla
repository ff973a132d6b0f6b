-------------------------- MODULE MCKnowledgeBase --------------------------
(***************************************************************************)
(* Instances of KnowledgeBase for TLC: two documents of up to two chunks,  *)
(* a query and one rewrite that rank the texts in opposite orders, one of  *)
(* them a perfect match.                                                   *)
(***************************************************************************)
EXTENDS KnowledgeBase

MCDocIds == {"policy", "handbook"}

MCTexts == {"refund", "returns", "blank"}

MCDistance ==
  [query   |-> [refund |-> 0, returns |-> 2, blank |-> 1],
   rewrite |-> [refund |-> 2, returns |-> 1, blank |-> 3]]
=============================================================================
