------------------------------- MODULE MCText -------------------------------
(***************************************************************************)
(* The two passes over text, SSEParser and Chunker, for TLC: every short   *)
(* body and every short text.  They have nothing in common, so one comes   *)
(* after the other, and in each behaviour one is given the empty text.     *)
(***************************************************************************)
EXTENDS SSEParser, Chunker

CONSTANTS
  MaxBody,   \* bound: symbols of a body
  MaxText,   \* bound: symbols of a text
  MaxLong    \* bound: symbols of a text without blanks

MCBodies == TextsUpTo(BodySymbols, MaxBody)

MCTexts == TextsUpTo(TextSymbols, MaxText) \cup TextsUpTo(TextSymbols \ {" "}, MaxLong)

Init ==
  /\ body = <<>> \/ (text = <<>> /\ entry = "semantic_chunk")
  /\ SSEInit /\ ChunkInit

Next ==
  \/ SSENext /\ UNCHANGED chunkVars
  \/ flushed /\ ChunkNext /\ UNCHANGED sseVars

Spec == Init /\ [][Next]_<<sseVars, chunkVars>>
=============================================================================
