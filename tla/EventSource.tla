---------------------------- MODULE EventSource ----------------------------
(***************************************************************************)
(* What app/core/execution_loop.py promises to whoever iterates            *)
(* stream_execution_loop: a bounded number of step events, and then one    *)
(* outcome, either a result (with or without a final answer) or an         *)
(* exception.  The streaming pipeline of StreamedRun.tla is written        *)
(* against this promise, and ExecutionLoop.tla is shown to keep it.        *)
(***************************************************************************)
EXTENDS Naturals

CONSTANT MaxEvents      \* bound on the step events of one run

ASSUME MaxEventsAssumption == MaxEvents \in Nat

VARIABLES phase,        \* where the source is: looping, or how it ended
          yielded       \* step events yielded so far (final answer excluded)

sourceVars == <<phase, yielded>>

Phases == {"looping", "answered", "unanswered", "raised"}

SourceInit == phase = "looping" /\ yielded = 0

\* One step event: a tool result, a tool error or a blocked call.
Yield == /\ phase = "looping"
         /\ yielded < MaxEvents
         /\ yielded' = yielded + 1
         /\ UNCHANGED phase

\* The final_response step and the result event come together, last.
Answer == phase = "looping" /\ phase' = "answered" /\ UNCHANGED yielded

\* The result event alone: the run has no text to answer with.
GiveUp == phase = "looping" /\ phase' = "unanswered" /\ UNCHANGED yielded

\* The iteration raises: the provider failed, or a node of the loop did.
Raise == phase = "looping" /\ phase' = "raised" /\ UNCHANGED yielded

SourceNext == Yield \/ Answer \/ GiveUp \/ Raise

SourceSpec == SourceInit /\ [][SourceNext]_sourceVars /\ WF_sourceVars(SourceNext)
=============================================================================
