--------------------------- MODULE MCStreamedRun ---------------------------
(***************************************************************************)
(* Instances of StreamedRun for TLC: the cfg files choose a queue that     *)
(* holds a short run exactly and is smaller than a long one.               *)
(***************************************************************************)
EXTENDS StreamedRun
=============================================================================
