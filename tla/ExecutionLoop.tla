--------------------------- MODULE ExecutionLoop ---------------------------
(***************************************************************************)
(* The tool-calling loop of app/core/execution_loop.py: a two-node graph   *)
(* (call_model, execute_tools) whose conditional edges spend four budgets, *)
(* streamed node by node by stream_execution_loop.                         *)
(*                                                                         *)
(* A call of the model is abstracted to what the loop tells apart: which   *)
(* tool it names and how the call ends.  The provider resolves that choice *)
(* when it replies; here it is resolved when the call is handled, so an    *)
(* assistant message carries only the number of its calls.                 *)
(***************************************************************************)
EXTENDS Integers, Sequences

CONSTANTS
  ToolNames,             \* the names the model may put in a tool call
  AgentTools,            \* the names of the tools attached to the agent
  Registry,              \* the names that have an implementation
  MaxSteps,              \* MAX_EXECUTION_STEPS: an int the config never validates
  MaxModelCalls,         \* MAX_MODEL_CALLS: a positive int
  MaxConsecutiveErrors,  \* MAX_CONSECUTIVE_ERRORS
  MaxCallsPerTurn        \* bound: parallel tool calls in one reply

ASSUME LoopAssumption ==
  /\ MaxSteps \in Int
  /\ MaxModelCalls \in Nat \ {0}
  /\ MaxConsecutiveErrors \in Nat \ {0}
  /\ MaxCallsPerTurn \in Nat \ {0}

VARIABLES
  pc,                \* the node about to run or running, or how the run ended
  attempt,           \* which of call_model's three requests is outstanding
  messages,          \* state["messages"] after the system and user ones
  steps,             \* state["steps"]
  consecutiveErrors, \* state["consecutive_errors"]
  forceText,         \* state["force_text"]
  modelCalls,        \* state["model_calls"]
  toolResults,       \* execute_tools' tool_results
  newSteps,          \* execute_tools' new_steps
  stepNum,           \* execute_tools' step_num
  nextCall,          \* the call execute_tools handles next
  yielded,           \* how many steps stream_execution_loop has yielded
  finalResponse,     \* position of the message that is the answer, 0 if none
  status,            \* the status of the result, "running" before there is one
  nodeRuns           \* node executions LangGraph has counted

request == <<pc, attempt, forceText, modelCalls>>
channels == <<messages, steps, consecutiveErrors>>
local == <<toolResults, newSteps, stepNum, nextCall>>
outcome == <<finalResponse, status>>
vars == <<request, channels, local, yielded, outcome, nodeRuns>>

-----------------------------------------------------------------------------
FailureTypes == {"tool_blocked", "tool_error"}

StepTypes == FailureTypes \cup {"tool_result"}

AssistantMessages ==
  [role : {"assistant"}, text : BOOLEAN, calls : 0..MaxCallsPerTurn]

ToolMessages ==
  [role : {"tool"}, answers : 1..MaxCallsPerTurn, error : BOOLEAN]

\* The tools the model is offered and the loop can run.
ToolMap == AgentTools \cap Registry

\* LangGraph's recursion_limit: the library raises instead of running a node
\* once that many have run.  BackstopNeverFires below shows that the moment
\* never comes, so the model has no action for it.
RecursionLimit == MaxModelCalls * 2

\* The tool_choice of the outstanding request.
ToolChoice ==
  CASE attempt = "first"    -> IF forceText THEN "none" ELSE "auto"
    [] attempt = "retry"    -> "auto"
    [] attempt = "fallback" -> "none"

\* Mutant: the step budget is compared with > instead of >=.
StepBudgetOffByOne(reply, calls) ==
  IF \/ consecutiveErrors >= MaxConsecutiveErrors
     \/ Len(steps) > MaxSteps
     \/ calls >= MaxModelCalls
     \/ reply.calls = 0
  THEN "conclude"
  ELSE "execute_tools"

\* Mutant: the model call budget is compared with > instead of >=.
CallBudgetOffByOne(reply, calls) ==
  IF \/ consecutiveErrors >= MaxConsecutiveErrors
     \/ Len(steps) >= MaxSteps
     \/ calls > MaxModelCalls
     \/ reply.calls = 0
  THEN "conclude"
  ELSE "execute_tools"

\* The edge out of call_model, decided on the state its update leaves behind.
ShouldContinue(reply, calls) ==
  IF \/ consecutiveErrors >= MaxConsecutiveErrors
     \/ Len(steps) >= MaxSteps
     \/ calls >= MaxModelCalls
     \/ reply.calls = 0
  THEN "conclude"
  ELSE "execute_tools"

Init ==
  /\ pc = "call_model"
  /\ attempt = "first"
  /\ messages = <<>>
  /\ steps = <<>>
  /\ consecutiveErrors = 0
  /\ forceText = FALSE
  /\ modelCalls = 0
  /\ toolResults = <<>>
  /\ newSteps = <<>>
  /\ stepNum = 1
  /\ nextCall = 1
  /\ yielded = 0
  /\ finalResponse = 0
  /\ status = "running"
  /\ nodeRuns = 0

-----------------------------------------------------------------------------
\* The node call_model.

\* A request succeeds, whichever of the three it is; the node returns and
\* should_continue picks the next one.  Any reply may come: tool_choice is a
\* request to the provider, which nothing in the loop relies on.
ModelReplies ==
  /\ pc = "call_model"
  /\ \E reply \in AssistantMessages :
       /\ messages' = Append(messages, reply)
       /\ pc' = ShouldContinue(reply, modelCalls + 1)
  /\ modelCalls' = modelCalls + 1
  /\ forceText' = FALSE
  /\ attempt' = "first"
  /\ nodeRuns' = nodeRuns + 1
  /\ UNCHANGED <<steps, consecutiveErrors, local, yielded, outcome>>

\* The provider cannot parse the model's tool call (400, tool_use_failed).
ToolUseFailed ==
  /\ pc = "call_model" /\ attempt = "first"
  /\ attempt' = "retry"
  /\ UNCHANGED <<pc, forceText, modelCalls, channels, local, yielded, outcome, nodeRuns>>

\* Mutant: a failed retry starts over, with no request that must be the last.
RetryForever ==
  /\ pc = "call_model" /\ attempt = "retry"
  /\ attempt' = "first"
  /\ UNCHANGED <<pc, forceText, modelCalls, channels, local, yielded, outcome, nodeRuns>>

\* The retry fails, for any reason: one last request, without tools.
RetryFails ==
  /\ pc = "call_model" /\ attempt = "retry"
  /\ attempt' = "fallback"
  /\ UNCHANGED <<pc, forceText, modelCalls, channels, local, yielded, outcome, nodeRuns>>

\* Any other failure of the first request, or a failure of the last one.
ModelRaises ==
  /\ pc = "call_model" /\ attempt # "retry"
  /\ pc' = "raised"
  /\ UNCHANGED <<attempt, forceText, modelCalls, channels, local, yielded, outcome, nodeRuns>>

-----------------------------------------------------------------------------
\* The node execute_tools: one action per way a call of the turn is handled.

StartTools ==
  /\ pc = "execute_tools"
  /\ pc' = "handle_calls"
  /\ toolResults' = <<>>
  /\ newSteps' = <<>>
  /\ stepNum' = Len(steps) + 1
  /\ nextCall' = 1
  /\ forceText' = FALSE
  /\ nodeRuns' = nodeRuns + 1
  /\ UNCHANGED <<attempt, modelCalls, channels, yielded, outcome>>

Calls == messages[Len(messages)].calls

AnswerCall(error) ==
  /\ toolResults' = Append(toolResults,
                           [role |-> "tool", answers |-> nextCall, error |-> error])
  /\ nextCall' = nextCall + 1

LogStep(type) ==
  /\ newSteps' = Append(newSteps, [step |-> stepNum, type |-> type])
  /\ stepNum' = stepNum + 1

HandlingCall ==
  /\ pc = "handle_calls"
  /\ nextCall <= Calls
  /\ UNCHANGED <<pc, attempt, modelCalls, messages, steps, yielded, outcome, nodeRuns>>

FailCall(type) ==
  /\ AnswerCall(TRUE)
  /\ LogStep(type)
  /\ consecutiveErrors' = consecutiveErrors + 1
  /\ forceText' = TRUE

\* The guardrail finds an injection in the arguments, whatever the tool.
BlockedCall == HandlingCall /\ FailCall("tool_blocked")

\* Mutant: `think` takes a step number although it logs no step.
ThinkCallNumbered ==
  /\ HandlingCall
  /\ AnswerCall(FALSE)
  /\ stepNum' = stepNum + 1
  /\ UNCHANGED <<newSteps, consecutiveErrors, forceText>>

\* Mutant: `think` is skipped, and its call gets no result.
ThinkCallUnanswered ==
  /\ HandlingCall
  /\ nextCall' = nextCall + 1
  /\ UNCHANGED <<toolResults, newSteps, stepNum, consecutiveErrors, forceText>>

\* Mutant: `think` counts as a success and breaks the error streak.
ThinkCallForgives ==
  /\ HandlingCall
  /\ AnswerCall(FALSE)
  /\ consecutiveErrors' = 0
  /\ UNCHANGED <<newSteps, stepNum, forceText>>

\* `think` leaves no step, and touches neither the streak nor force_text.
ThinkCall ==
  /\ HandlingCall
  /\ "think" \in ToolNames
  /\ AnswerCall(FALSE)
  /\ UNCHANGED <<newSteps, stepNum, consecutiveErrors, forceText>>

\* `think` is logged with a slice of its reasoning, which raises if the model
\* wrote a number, an object or null there: the node fails, and the run with it.
ThinkRaises ==
  /\ pc = "handle_calls"
  /\ nextCall <= Calls
  /\ "think" \in ToolNames
  /\ pc' = "raised"
  /\ UNCHANGED <<attempt, forceText, modelCalls, channels, local, yielded, outcome, nodeRuns>>

UnavailableCall ==
  /\ HandlingCall
  /\ \E tool \in ToolNames \ {"think"} : tool \notin ToolMap
  /\ FailCall("tool_error")

\* The tool raises, rejects its arguments or returns text starting "ERROR".
ToolFails ==
  /\ HandlingCall
  /\ \E tool \in ToolNames \ {"think"} : tool \in ToolMap
  /\ FailCall("tool_error")

\* Mutant: a success takes one error back instead of clearing the streak.
ToolSucceedsDecays ==
  /\ HandlingCall
  /\ AnswerCall(FALSE)
  /\ LogStep("tool_result")
  /\ consecutiveErrors' = consecutiveErrors - 1
  /\ UNCHANGED forceText

\* Mutant: a success also takes back what an earlier call of the turn forced.
ToolSucceedsUnforcing ==
  /\ HandlingCall
  /\ AnswerCall(FALSE)
  /\ LogStep("tool_result")
  /\ consecutiveErrors' = 0
  /\ forceText' = FALSE

ToolSucceeds ==
  /\ HandlingCall
  /\ \E tool \in ToolNames \ {"think"} : tool \in ToolMap
  /\ AnswerCall(FALSE)
  /\ LogStep("tool_result")
  /\ consecutiveErrors' = 0
  /\ UNCHANGED forceText

\* Every call is handled: the node's update is merged into the state.
ReturnTools ==
  /\ pc = "handle_calls"
  /\ nextCall > Calls
  /\ pc' = "yield"
  /\ messages' = messages \o toolResults
  /\ steps' = steps \o newSteps
  /\ toolResults' = <<>>
  /\ newSteps' = <<>>
  /\ UNCHANGED <<attempt, forceText, modelCalls, consecutiveErrors, stepNum,
                 nextCall, yielded, outcome, nodeRuns>>

-----------------------------------------------------------------------------
\* The iteration of stream_execution_loop.

\* One step event of the update that execute_tools returned.
YieldStep ==
  /\ pc = "yield"
  /\ yielded < Len(steps)
  /\ yielded' = yielded + 1
  /\ UNCHANGED <<request, channels, local, outcome, nodeRuns>>

\* The update is exhausted: the graph resumes, along after_tools' edge.
Resume ==
  /\ pc = "yield"
  /\ yielded = Len(steps)
  /\ pc' = "call_model"
  /\ UNCHANGED <<attempt, forceText, modelCalls, channels, local, yielded, outcome, nodeRuns>>

\* The messages _final_response_from may pick from.
TextMessages ==
  {i \in 1..Len(messages) : messages[i].role = "assistant" /\ messages[i].text}

FinalResponseFrom ==
  IF TextMessages = {}
  THEN 0
  ELSE CHOOSE i \in TextMessages : \A j \in TextMessages : j <= i

\* END: the answer is picked, and the final_response step and the result follow.
Conclude ==
  /\ pc = "conclude"
  /\ pc' = "finished"
  /\ finalResponse' = FinalResponseFrom
  /\ status' = IF FinalResponseFrom # 0 THEN "completed" ELSE "max_steps_reached"
  /\ UNCHANGED <<attempt, forceText, modelCalls, channels, local, yielded, nodeRuns>>

CallModel == ModelReplies \/ ToolUseFailed \/ RetryFails \/ ModelRaises

HandleCall ==
  BlockedCall \/ ThinkCall \/ ThinkRaises \/ UnavailableCall \/ ToolFails \/ ToolSucceeds

Stream == YieldStep \/ Resume \/ Conclude

\* The iteration is over: its result is with the caller, or its exception is.
Terminated == pc \in {"finished", "raised"} /\ UNCHANGED vars

Next == CallModel \/ StartTools \/ HandleCall \/ ReturnTools \/ Stream \/ Terminated

\* Weak fairness: the provider and the tools answer or time out, and the
\* thread that iterates the loop is scheduled.
Spec == Init /\ [][Next]_vars /\ WF_vars(Next)

-----------------------------------------------------------------------------
\* Properties.

ToolResults == [step : Nat \ {0}, type : StepTypes]

\* Types of the state the graph's nodes read and write.
TypeOK ==
  /\ pc \in {"call_model", "execute_tools", "handle_calls", "yield",
             "conclude", "finished", "raised"}
  /\ attempt \in {"first", "retry", "fallback"}
  /\ messages \in Seq(AssistantMessages \cup ToolMessages)
  /\ steps \in Seq(ToolResults)
  /\ consecutiveErrors \in Nat
  /\ forceText \in BOOLEAN
  /\ modelCalls \in Nat
  /\ toolResults \in Seq(ToolMessages)
  /\ newSteps \in Seq(ToolResults)
  /\ stepNum \in Nat \ {0}
  /\ nextCall \in 1..MaxCallsPerTurn + 1
  /\ yielded \in Nat
  /\ finalResponse \in Nat
  /\ status \in {"running", "completed", "max_steps_reached"}
  /\ nodeRuns \in Nat

\* The steps recorded so far, those of the turn in progress included.
Trail == steps \o newSteps

\* The audit trail is numbered 1, 2, 3... across turns, although step_num is
\* local to a turn and `think` takes no number (execute_tools, _current_step).
StepsNumbered == \A i \in 1..Len(Trail) : Trail[i].step = i

\* The last k entries of a trail are failures, and the one before is not.
EndsInStreak(trail, k) ==
  /\ k <= Len(trail)
  /\ \A i \in Len(trail) - k + 1 .. Len(trail) : trail[i].type \in FailureTypes
  /\ k < Len(trail) => trail[Len(trail) - k].type \notin FailureTypes

\* consecutive_errors counts the failures the trail ends in, over turns and
\* through `think` calls, which neither extend nor break the streak.
StreakMatchesTrail == EndsInStreak(Trail, consecutiveErrors)

\* The tool messages after the last assistant message, while there are any.
LastTurnFailed ==
  \E i \in 1..Len(messages) :
    /\ messages[i].role = "tool" /\ messages[i].error
    /\ \A j \in i..Len(messages) : messages[j].role = "tool"

\* The model is first asked with tool_choice "none" exactly when the tool
\* results just appended for it hold an error (force_text across two nodes).
ForcedAfterFailure ==
  pc = "call_model" /\ attempt = "first" => (ToolChoice = "none" <=> LastTurnFailed)

\* Providers reject a history in which a tool call has no result: whenever
\* the model is called, each call of each past turn has been answered, in
\* order, directly after the message that made it, and nothing else is there.
ToolCallsAnswered ==
  pc = "call_model" =>
    \A i \in 1..Len(messages) :
      IF messages[i].role = "assistant"
      THEN /\ i + messages[i].calls <= Len(messages)
           /\ \A k \in 1..messages[i].calls :
                /\ messages[i + k].role = "tool"
                /\ messages[i + k].answers = k
      ELSE \E j \in 1..(i - 1) :
             /\ messages[j].role = "assistant"
             /\ i - j <= messages[j].calls

\* The recursion limit never cuts a run short: whenever a node is about to
\* run, LangGraph would let it (the claim of _graph_config's docstring).
BackstopNeverFires ==
  pc \in {"call_model", "execute_tools"} => nodeRuns < RecursionLimit

\* The step events a run can yield.  The step budget is checked between turns
\* only, so the last turn may overshoot it by all its calls but one.
MaxEvents == IF MaxSteps > 0 THEN MaxSteps - 1 + MaxCallsPerTurn ELSE 0

\* The trail never grows past the budget and one turn's overshoot.
StepOvershootBounded == Len(Trail) <= MaxEvents

\* Every step is yielded before the model is asked again: a caller is never
\* more than the running turn behind.
YieldsKeepUp == pc \in {"call_model", "conclude", "finished"} => yielded = Len(steps)

\* Every iteration of the loop ends, with a result or the provider's error.
RunEnds == <>(pc \in {"finished", "raised"})

-----------------------------------------------------------------------------
\* The loop as a source of events.

Phase == CASE pc = "finished" -> IF status = "completed" THEN "answered" ELSE "unanswered"
           [] pc = "raised"   -> "raised"
           [] OTHER           -> "looping"

Source == INSTANCE EventSource WITH phase <- Phase

\* The loop keeps the promise StreamedRun is built on: at most MaxEvents step
\* events, then one outcome, and always an outcome.
SourceSpec == Source!SourceSpec

-----------------------------------------------------------------------------
\* What the documentation says, and the code does not do.

\* README: `think` "never errors".  No call of a turn, `think` included, ends
\* the run with an exception: whatever fails is reported to the model.
CallsNeverRaise == [][pc = "handle_calls" => pc' # "raised"]_vars
=============================================================================
