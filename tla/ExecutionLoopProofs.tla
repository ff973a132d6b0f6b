------------------------ MODULE ExecutionLoopProofs ------------------------
(***************************************************************************)
(* What TLAPS proves about the agent loop, for every set of tools, every   *)
(* value of the four budgets and any number of parallel calls.             *)
(***************************************************************************)
EXTENDS ExecutionLoop, SequenceTheorems, WellFoundedInduction, TLAPS

\* The node execute_tools starts, and works, right after a message that holds
\* calls: it never reads `tool_calls` off a tool message.
LastHasCalls ==
  pc \in {"execute_tools", "handle_calls"} =>
    messages # <<>> /\ messages[Len(messages)] \in AssistantMessages

Typing == TypeOK /\ LastHasCalls

Messages == AssistantMessages \cup ToolMessages

-----------------------------------------------------------------------------
\* The number of the call being handled fits a turn.
LEMMA CallsInTurn ==
  ASSUME Typing, HandlingCall
  PROVE  nextCall \in 1..MaxCallsPerTurn /\ Calls \in 0..MaxCallsPerTurn
<1>1. pc = "handle_calls" /\ nextCall <= Calls
  BY DEF HandlingCall
<1>2. messages[Len(messages)] \in AssistantMessages
  BY <1>1 DEF Typing, LastHasCalls
<1>3. Calls \in 0..MaxCallsPerTurn
  BY <1>2 DEF Calls, AssistantMessages
<1>4. nextCall \in 1..MaxCallsPerTurn + 1
  BY DEF Typing, TypeOK
<1>. QED  BY <1>1, <1>3, <1>4, LoopAssumption

\* Handling a call appends one well-typed tool message.
LEMMA AnswerTyped ==
  ASSUME Typing, HandlingCall, NEW error \in BOOLEAN, AnswerCall(error)
  PROVE  toolResults' \in Seq(ToolMessages) /\ nextCall' \in 1..MaxCallsPerTurn + 1
<1>1. nextCall \in 1..MaxCallsPerTurn
  BY CallsInTurn
<1>2. [role |-> "tool", answers |-> nextCall, error |-> error] \in ToolMessages
  BY <1>1 DEF ToolMessages
<1>3. toolResults \in Seq(ToolMessages)
  BY DEF Typing, TypeOK
<1>. QED  BY <1>1, <1>2, <1>3, LoopAssumption DEF AnswerCall

\* Logging a step appends one well-typed step.
LEMMA StepTyped ==
  ASSUME Typing, NEW type \in StepTypes, LogStep(type)
  PROVE  newSteps' \in Seq(ToolResults) /\ stepNum' \in Nat \ {0}
<1>1. [step |-> stepNum, type |-> type] \in ToolResults
  BY DEF Typing, TypeOK, ToolResults
<1>2. newSteps \in Seq(ToolResults) /\ stepNum \in Nat \ {0}
  BY DEF Typing, TypeOK
<1>. QED  BY <1>1, <1>2 DEF LogStep

\* What handling a call leaves alone.
LEMMA HandlingKeeps ==
  ASSUME Typing, HandlingCall,
         toolResults' \in Seq(ToolMessages), nextCall' \in 1..MaxCallsPerTurn + 1,
         newSteps' \in Seq(ToolResults), stepNum' \in Nat \ {0},
         consecutiveErrors' \in Nat, forceText' \in BOOLEAN
  PROVE  Typing'
<1>1. UNCHANGED <<pc, attempt, modelCalls, messages, steps, yielded, finalResponse, status, nodeRuns>>
  BY DEF HandlingCall, outcome
<1>2. TypeOK'
  BY <1>1 DEF Typing, TypeOK
<1>3. LastHasCalls'
  BY <1>1 DEF Typing, LastHasCalls
<1>. QED  BY <1>2, <1>3 DEF Typing

\* A failing call, whatever failed.
LEMMA FailCallTyped ==
  ASSUME Typing, HandlingCall, NEW type \in FailureTypes, FailCall(type)
  PROVE  Typing'
<1>1. toolResults' \in Seq(ToolMessages) /\ nextCall' \in 1..MaxCallsPerTurn + 1
  BY AnswerTyped DEF FailCall
<1>2. newSteps' \in Seq(ToolResults) /\ stepNum' \in Nat \ {0}
  BY StepTyped DEF FailCall, StepTypes
<1>3. consecutiveErrors' \in Nat
  BY DEF Typing, TypeOK, FailCall
<1>4. forceText' \in BOOLEAN
  BY DEF FailCall
<1>. QED  BY <1>1, <1>2, <1>3, <1>4, HandlingKeeps

\* A set of positions that is not empty has a largest one.
LEMMA LessIsWellFounded == IsWellFoundedOn({ss \in Nat \X Nat : ss[1] < ss[2]}, Nat)
BY NatLessThanWellFounded DEF OpToRel

LEMMA LargestExists ==
  ASSUME NEW n \in Nat, NEW S \in SUBSET (1..n), S # {}
  PROVE  \E i \in S : \A j \in S : j <= i
<1>. DEFINE Less == {ss \in Nat \X Nat : ss[1] < ss[2]}
            T == {n - i : i \in S}
<1>1. IsWellFoundedOn(Less, Nat)
  BY LessIsWellFounded
<1>2. T \subseteq Nat /\ T # {}
  <2>1. PICK i \in S : TRUE
    OBVIOUS
  <2>2. n - i \in T
    BY <2>1
  <2>3. \A j \in S : n - j \in Nat
    OBVIOUS
  <2>. QED  BY <2>2, <2>3
<1>3. PICK m \in T : \A k \in T : <<k, m>> \notin Less
  <2>. HIDE DEF Less, T
  <2>. QED  BY <1>1, <1>2, WFMin
<1>4. ASSUME NEW k \in T PROVE m <= k
  <2>1. <<k, m>> \in Nat \X Nat /\ <<k, m>>[1] = k /\ <<k, m>>[2] = m
    BY <1>2
  <2>2. ~ (k < m)
    BY <1>3, <2>1
  <2>3. k \in Nat /\ m \in Nat
    BY <1>2
  <2>. QED  BY <2>2, <2>3
<1>5. PICK i \in S : m = n - i
  BY <1>3
<1>6. ASSUME NEW j \in S PROVE j <= i
  <2>1. n - j \in T
    OBVIOUS
  <2>2. m <= n - j
    BY <1>4, <2>1
  <2>. QED  BY <1>5, <2>2
<1>. QED  BY <1>6

\* The search for the answer stays within the messages.
LEMMA AnswerPosition ==
  ASSUME TypeOK
  PROVE  FinalResponseFrom \in 0..Len(messages)
<1>1. Len(messages) \in Nat
  BY DEF TypeOK
<1>2. CASE TextMessages = {}
  BY <1>1, <1>2 DEF FinalResponseFrom
<1>3. CASE TextMessages # {}
  <2>1. TextMessages \subseteq 1..Len(messages)
    BY DEF TextMessages
  <2>2. \E i \in TextMessages : \A j \in TextMessages : j <= i
    BY <1>1, <1>3, <2>1, LargestExists
  <2>3. FinalResponseFrom \in TextMessages
    BY <1>3, <2>2, Zenon DEF FinalResponseFrom
  <2>. QED  BY <1>1, <2>1, <2>3
<1>. QED  BY <1>2, <1>3

\* Every reachable state is well-typed (the state of the graph, the locals of
\* execute_tools and the progress of stream_execution_loop).
LEMMA TypingInitial == Init => Typing
<1>. SUFFICES ASSUME Init PROVE Typing
  OBVIOUS
<1>1. forceText \in BOOLEAN
  BY DEF Init
<1>. QED  BY <1>1, LoopAssumption, EmptySeq DEF Init, Typing, TypeOK, LastHasCalls

LEMMA TypingPreserved == Typing /\ [Next]_vars => Typing'
<1>. SUFFICES ASSUME Typing, [Next]_vars PROVE Typing'
  OBVIOUS
<1>. USE LoopAssumption
<1>1. CASE ModelReplies
  <2>1. PICK reply \in AssistantMessages :
          /\ messages' = Append(messages, reply)
          /\ pc' = ShouldContinue(reply, modelCalls + 1)
    BY <1>1 DEF ModelReplies
  <2>2. reply \in AssistantMessages
    OBVIOUS
  <2>3. messages \in Seq(Messages)
    BY DEF Typing, TypeOK, Messages
  <2>4. /\ messages' \in Seq(Messages)
        /\ messages' # <<>>
        /\ messages'[Len(messages')] = reply
    BY <2>1, <2>2, <2>3 DEF Messages
  <2>5. pc' \in {"conclude", "execute_tools"}
    BY <2>1 DEF ShouldContinue
  <2>6. LastHasCalls'
    BY <2>2, <2>4 DEF LastHasCalls
  <2>7. forceText' \in BOOLEAN
    BY <1>1 DEF ModelReplies
  <2>. QED  BY <1>1, <2>4, <2>5, <2>6, <2>7 DEF ModelReplies, Typing, TypeOK, Messages, local, outcome
<1>2. CASE ToolUseFailed \/ RetryFails \/ ModelRaises
  BY <1>2 DEF ToolUseFailed, RetryFails, ModelRaises, Typing, TypeOK, LastHasCalls,
              channels, local, outcome
<1>3. CASE StartTools
  <2>1. forceText' \in BOOLEAN
    BY <1>3 DEF StartTools
  <2>. QED  BY <1>3, <2>1, EmptySeq DEF StartTools, Typing, TypeOK, LastHasCalls, channels, outcome
<1>4. CASE BlockedCall \/ UnavailableCall \/ ToolFails
  BY <1>4, FailCallTyped DEF BlockedCall, UnavailableCall, ToolFails, FailureTypes
<1>5. CASE ThinkCall
  <2>1. toolResults' \in Seq(ToolMessages) /\ nextCall' \in 1..MaxCallsPerTurn + 1
    BY <1>5, AnswerTyped DEF ThinkCall
  <2>. QED  BY <1>5, <2>1 DEF ThinkCall, HandlingCall, Typing, TypeOK, LastHasCalls, outcome
<1>6. CASE ToolSucceeds
  <2>1. toolResults' \in Seq(ToolMessages) /\ nextCall' \in 1..MaxCallsPerTurn + 1
    BY <1>6, AnswerTyped DEF ToolSucceeds
  <2>2. newSteps' \in Seq(ToolResults) /\ stepNum' \in Nat \ {0}
    BY <1>6, StepTyped DEF ToolSucceeds, StepTypes
  <2>. QED  BY <1>6, <2>1, <2>2 DEF ToolSucceeds, HandlingCall, Typing, TypeOK, LastHasCalls, outcome
<1>7. CASE ReturnTools
  <2>1. messages' \in Seq(Messages)
    <3>1. messages \in Seq(Messages) /\ toolResults \in Seq(Messages)
      BY SeqMonotonic DEF Typing, TypeOK, Messages
    <3>. QED  BY <1>7, <3>1, ConcatProperties DEF ReturnTools
  <2>2. steps' \in Seq(ToolResults)
    BY <1>7, ConcatProperties DEF ReturnTools, Typing, TypeOK
  <2>. QED  BY <1>7, <2>1, <2>2, EmptySeq DEF ReturnTools, Typing, TypeOK, LastHasCalls, Messages, outcome
<1>8. CASE YieldStep
  BY <1>8 DEF YieldStep, Typing, TypeOK, LastHasCalls, request, channels, local, outcome
<1>9. CASE Resume
  BY <1>9 DEF Resume, Typing, TypeOK, LastHasCalls, channels, local, outcome
<1>10. CASE Conclude
  <2>1. FinalResponseFrom \in Nat
    BY AnswerPosition DEF Typing
  <2>. QED  BY <1>10, <2>1 DEF Conclude, Typing, TypeOK, LastHasCalls, channels, local
<1>11. CASE ThinkRaises
  BY <1>11 DEF ThinkRaises, Typing, TypeOK, LastHasCalls, channels, local, outcome
<1>12. CASE Terminated \/ UNCHANGED vars
  BY <1>12 DEF Terminated, Typing, TypeOK, LastHasCalls, vars, request, channels, local, outcome
<1>. QED
  BY <1>1, <1>2, <1>3, <1>4, <1>5, <1>6, <1>7, <1>8, <1>9, <1>10, <1>11, <1>12
  DEF Next, CallModel, HandleCall, Stream

LEMMA TypingInvariant == Spec => []Typing
BY TypingInitial, TypingPreserved, PTL DEF Spec

THEOREM TypeCorrect == Spec => []TypeOK
BY TypingInvariant, PTL DEF Typing

-----------------------------------------------------------------------------
\* Two nodes per turn, and a turn begins only while the model call budget
\* lasts: the count of node executions that LangGraph compares with its limit.
NodesCounted ==
  /\ pc \in {"call_model", "handle_calls", "yield"} =>
       nodeRuns = 2 * modelCalls /\ modelCalls < MaxModelCalls
  /\ pc = "execute_tools" =>
       nodeRuns = 2 * modelCalls - 1 /\ modelCalls < MaxModelCalls

LEMMA NodesCountedPreserved == Typing /\ NodesCounted /\ [Next]_vars => NodesCounted'
<1>. SUFFICES ASSUME Typing, NodesCounted, [Next]_vars PROVE NodesCounted'
  OBVIOUS
<1>0. modelCalls \in Nat /\ nodeRuns \in Nat /\ MaxModelCalls \in Nat
  BY LoopAssumption DEF Typing, TypeOK
<1>1. CASE ModelReplies
  <2>1. PICK reply \in AssistantMessages : pc' = ShouldContinue(reply, modelCalls + 1)
    BY <1>1 DEF ModelReplies
  <2>2. \/ pc' = "conclude"
        \/ pc' = "execute_tools" /\ ~(modelCalls + 1 >= MaxModelCalls)
    BY <2>1 DEF ShouldContinue
  <2>3. nodeRuns' = nodeRuns + 1 /\ modelCalls' = modelCalls + 1 /\ pc = "call_model"
    BY <1>1 DEF ModelReplies
  <2>. QED  BY <1>0, <2>2, <2>3 DEF NodesCounted
<1>2. CASE ToolUseFailed \/ RetryFails \/ ModelRaises \/ ThinkRaises
  BY <1>2 DEF ToolUseFailed, RetryFails, ModelRaises, ThinkRaises, NodesCounted
<1>3. CASE StartTools
  BY <1>0, <1>3 DEF StartTools, NodesCounted
<1>4. CASE HandlingCall
  BY <1>4 DEF HandlingCall, NodesCounted
<1>5. CASE ReturnTools
  BY <1>5 DEF ReturnTools, NodesCounted
<1>6. CASE YieldStep \/ Resume
  BY <1>6 DEF YieldStep, Resume, NodesCounted, request
<1>7. CASE Conclude
  BY <1>7 DEF Conclude, NodesCounted
<1>8. CASE Terminated \/ UNCHANGED vars
  BY <1>8 DEF Terminated, vars, request, NodesCounted
<1>. QED
  BY <1>1, <1>2, <1>3, <1>4, <1>5, <1>6, <1>7, <1>8
  DEF Next, CallModel, HandleCall, Stream, BlockedCall, ThinkCall, UnavailableCall,
      ToolFails, ToolSucceeds

\* LangGraph's recursion limit never cuts a run short: the model call budget
\* always ends it first, whatever the budget and whatever the model does.
THEOREM BackstopSafe == Spec => []BackstopNeverFires
<1>1. Init => NodesCounted
  BY LoopAssumption DEF Init, NodesCounted
<1>2. Spec => []NodesCounted
  BY <1>1, TypingInvariant, NodesCountedPreserved, PTL DEF Spec
<1>3. Typing /\ NodesCounted => BackstopNeverFires
  BY LoopAssumption DEF Typing, TypeOK, NodesCounted, BackstopNeverFires, RecursionLimit
<1>. QED  BY <1>2, <1>3, TypingInvariant, PTL

-----------------------------------------------------------------------------
\* The audit trail, seen across execute_tools: what is logged continues it.
TrailShape ==
  /\ StepsNumbered
  /\ StreakMatchesTrail
  /\ pc = "handle_calls" => stepNum = Len(Trail) + 1
  /\ pc \notin {"handle_calls", "raised"} => newSteps = <<>>

\* A trail u that is t with one more entry.
Extends(u, t) ==
  /\ Len(u) = Len(t) + 1
  /\ \A i \in 1..Len(t) : u[i] = t[i]

LEMMA StreakGrows ==
  ASSUME NEW t \in Seq(ToolResults), NEW u \in Seq(ToolResults), Extends(u, t),
         u[Len(u)].type \in FailureTypes,
         NEW k \in Nat, EndsInStreak(t, k)
  PROVE  EndsInStreak(u, k + 1)
<1>1. Len(t) \in Nat /\ Len(u) = Len(t) + 1 /\ k <= Len(t)
  BY DEF Extends, EndsInStreak
<1>2. ASSUME NEW i \in Len(u) - (k + 1) + 1 .. Len(u) PROVE u[i].type \in FailureTypes
  <2>1. CASE i = Len(u)
    BY <2>1
  <2>2. CASE i # Len(u)
    <3>1. i \in Len(t) - k + 1 .. Len(t) /\ i \in 1..Len(t)
      BY <1>1, <2>2
    <3>. QED  BY <3>1 DEF Extends, EndsInStreak
  <2>. QED  BY <2>1, <2>2
<1>3. ASSUME k + 1 < Len(u) PROVE u[Len(u) - (k + 1)].type \notin FailureTypes
  <2>1. k < Len(t) /\ Len(u) - (k + 1) = Len(t) - k /\ Len(t) - k \in 1..Len(t)
    BY <1>1, <1>3
  <2>. QED  BY <2>1 DEF Extends, EndsInStreak
<1>. QED  BY <1>1, <1>2, <1>3 DEF EndsInStreak

LEMMA StreakBreaks ==
  ASSUME NEW u \in Seq(ToolResults), Len(u) > 0, u[Len(u)].type \notin FailureTypes
  PROVE  EndsInStreak(u, 0)
BY DEF EndsInStreak

\* Logging a step extends the trail by it.
LEMMA LogExtendsTrail ==
  ASSUME Typing, NEW type \in StepTypes, LogStep(type), UNCHANGED steps
  PROVE  /\ Trail \in Seq(ToolResults) /\ Trail' \in Seq(ToolResults)
         /\ Extends(Trail', Trail)
         /\ Trail'[Len(Trail')] = [step |-> stepNum, type |-> type]
<1>. DEFINE entry == [step |-> stepNum, type |-> type]
<1>1. steps \in Seq(ToolResults) /\ newSteps \in Seq(ToolResults) /\ entry \in ToolResults
  BY DEF Typing, TypeOK, ToolResults
<1>2. newSteps' = Append(newSteps, entry) /\ steps' = steps
  BY DEF LogStep
<1>. HIDE DEF entry
<1>3. /\ newSteps' \in Seq(ToolResults)
      /\ Len(newSteps') = Len(newSteps) + 1
      /\ \A i \in 1..Len(newSteps) : newSteps'[i] = newSteps[i]
      /\ newSteps'[Len(newSteps) + 1] = entry
  BY <1>1, <1>2
<1>4. /\ Trail \in Seq(ToolResults)
      /\ Len(Trail) = Len(steps) + Len(newSteps)
      /\ \A i \in 1..Len(steps) + Len(newSteps) :
           Trail[i] = IF i <= Len(steps) THEN steps[i] ELSE newSteps[i - Len(steps)]
  BY <1>1, ConcatProperties DEF Trail
<1>5. /\ Trail' \in Seq(ToolResults)
      /\ Len(Trail') = Len(steps) + Len(newSteps')
      /\ \A i \in 1..Len(steps) + Len(newSteps') :
           Trail'[i] = IF i <= Len(steps) THEN steps[i] ELSE newSteps'[i - Len(steps)]
  BY <1>1, <1>2, <1>3, ConcatProperties DEF Trail
<1>6. Extends(Trail', Trail)
  <2>1. Len(Trail') = Len(Trail) + 1
    BY <1>1, <1>3, <1>4, <1>5
  <2>2. ASSUME NEW i \in 1..Len(Trail) PROVE Trail'[i] = Trail[i]
    <3>1. /\ Len(steps) \in Nat /\ Len(newSteps) \in Nat
          /\ i \in 1..Len(steps) + Len(newSteps)
          /\ i \in 1..Len(steps) + Len(newSteps')
      BY <1>1, <1>3, <1>4
    <3>2. /\ Trail[i] = IF i <= Len(steps) THEN steps[i] ELSE newSteps[i - Len(steps)]
          /\ Trail'[i] = IF i <= Len(steps) THEN steps[i] ELSE newSteps'[i - Len(steps)]
      BY <1>4, <1>5, <3>1
    <3>3. ~(i <= Len(steps)) => newSteps'[i - Len(steps)] = newSteps[i - Len(steps)]
      BY <1>3, <3>1
    <3>. QED  BY <3>2, <3>3
  <2>. QED  BY <2>1, <2>2 DEF Extends
<1>7. Trail'[Len(Trail')] = entry
  BY <1>1, <1>3, <1>5
<1>. QED  BY <1>4, <1>5, <1>6, <1>7 DEF entry

\* Its number is the next one, and step_num moves on.
LEMMA NumberingContinues ==
  ASSUME Typing, TrailShape, NEW type \in StepTypes, LogStep(type), pc = "handle_calls",
         Trail \in Seq(ToolResults), Trail' \in Seq(ToolResults),
         Extends(Trail', Trail),
         Trail'[Len(Trail')] = [step |-> stepNum, type |-> type]
  PROVE  StepsNumbered' /\ stepNum' = Len(Trail') + 1
<1>1. stepNum = Len(Trail) + 1 /\ stepNum' = stepNum + 1 /\ Len(Trail') = Len(Trail) + 1
  BY DEF TrailShape, LogStep, Extends
<1>2. ASSUME NEW i \in 1..Len(Trail') PROVE Trail'[i].step = i
  <2>1. CASE i = Len(Trail')
    BY <1>1, <2>1
  <2>2. CASE i # Len(Trail')
    <3>1. i \in 1..Len(Trail)
      BY <1>1, <2>2
    <3>. QED  BY <3>1 DEF Extends, TrailShape, StepsNumbered
  <2>. QED  BY <2>1, <2>2
<1>. QED  BY <1>1, <1>2 DEF StepsNumbered

\* A failing call lengthens the streak by one.
LEMMA FailCallTrail ==
  ASSUME Typing, TrailShape, HandlingCall, NEW type \in FailureTypes, FailCall(type)
  PROVE  TrailShape'
<1>1. UNCHANGED <<pc, steps>> /\ pc = "handle_calls"
  BY DEF HandlingCall
<1>2. LogStep(type) /\ type \in StepTypes /\ consecutiveErrors' = consecutiveErrors + 1
  BY DEF FailCall, StepTypes
<1>3. /\ Trail \in Seq(ToolResults) /\ Trail' \in Seq(ToolResults)
      /\ Extends(Trail', Trail)
      /\ Trail'[Len(Trail')] = [step |-> stepNum, type |-> type]
  BY <1>1, <1>2, LogExtendsTrail
<1>4. EndsInStreak(Trail', consecutiveErrors')
  <2>1. EndsInStreak(Trail, consecutiveErrors) /\ consecutiveErrors \in Nat
    BY DEF TrailShape, StreakMatchesTrail, Typing, TypeOK
  <2>2. Trail'[Len(Trail')].type \in FailureTypes
    BY <1>3
  <2>3. EndsInStreak(Trail', consecutiveErrors + 1)
    BY <1>3, <2>1, <2>2, StreakGrows
  <2>. QED  BY <1>2, <2>3
<1>5. StepsNumbered' /\ stepNum' = Len(Trail') + 1
  BY <1>1, <1>2, <1>3, NumberingContinues
<1>. QED  BY <1>1, <1>4, <1>5 DEF TrailShape, StreakMatchesTrail

\* A succeeding call ends it.
LEMMA SuccessTrail ==
  ASSUME Typing, TrailShape, ToolSucceeds
  PROVE  TrailShape'
<1>1. UNCHANGED <<pc, steps>> /\ pc = "handle_calls"
  BY DEF ToolSucceeds, HandlingCall
<1>2. LogStep("tool_result") /\ "tool_result" \in StepTypes /\ consecutiveErrors' = 0
  BY DEF ToolSucceeds, StepTypes
<1>3. /\ Trail \in Seq(ToolResults) /\ Trail' \in Seq(ToolResults)
      /\ Extends(Trail', Trail)
      /\ Trail'[Len(Trail')] = [step |-> stepNum, type |-> "tool_result"]
  BY <1>1, <1>2, LogExtendsTrail
<1>4. EndsInStreak(Trail', 0)
  <2>1. Len(Trail') > 0
    BY <1>3 DEF Extends
  <2>2. Trail'[Len(Trail')].type \notin FailureTypes
    BY <1>3 DEF FailureTypes
  <2>. QED  BY <1>3, <2>1, <2>2, StreakBreaks
<1>5. StepsNumbered' /\ stepNum' = Len(Trail') + 1
  BY <1>1, <1>2, <1>3, NumberingContinues
<1>. QED  BY <1>1, <1>2, <1>4, <1>5 DEF TrailShape, StreakMatchesTrail

LEMMA TrailShapePreserved == Typing /\ TrailShape /\ [Next]_vars => TrailShape'
<1>. SUFFICES ASSUME Typing, TrailShape, [Next]_vars PROVE TrailShape'
  OBVIOUS
<1>1. CASE /\ UNCHANGED <<steps, newSteps, consecutiveErrors>>
           /\ pc \notin {"handle_calls", "raised"} /\ pc' # "handle_calls"
  BY <1>1 DEF TrailShape, StepsNumbered, StreakMatchesTrail, Trail
<1>2. CASE StartTools
  <2>1. UNCHANGED <<steps, newSteps, consecutiveErrors>> /\ newSteps = <<>>
    BY <1>2 DEF StartTools, TrailShape, channels
  <2>2. Trail' = Trail /\ Len(Trail) = Len(steps)
    BY <2>1, ConcatEmptySeq DEF Trail, Typing, TypeOK
  <2>. QED  BY <1>2, <2>1, <2>2 DEF StartTools, TrailShape, StepsNumbered, StreakMatchesTrail
<1>3. CASE BlockedCall \/ UnavailableCall \/ ToolFails
  BY <1>3, FailCallTrail DEF BlockedCall, UnavailableCall, ToolFails, FailureTypes
<1>4. CASE ThinkCall
  BY <1>4 DEF ThinkCall, HandlingCall, TrailShape, StepsNumbered, StreakMatchesTrail, Trail
<1>5. CASE ToolSucceeds
  BY <1>5, SuccessTrail
<1>6. CASE ReturnTools
  <2>1. steps' = Trail /\ newSteps' = <<>> /\ pc' = "yield" /\ consecutiveErrors' = consecutiveErrors
    BY <1>6 DEF ReturnTools, Trail
  <2>2. Trail' = Trail
    <3>1. Trail \in Seq(ToolResults)
      BY ConcatProperties DEF Typing, TypeOK, Trail
    <3>2. Trail' = Trail \o <<>>
      BY <2>1 DEF Trail
    <3>. QED  BY <3>1, <3>2, ConcatEmptySeq
  <2>. QED  BY <2>1, <2>2 DEF TrailShape, StepsNumbered, StreakMatchesTrail
<1>7. CASE CallModel
  <2>1. UNCHANGED <<steps, newSteps, consecutiveErrors>> /\ pc = "call_model"
    BY <1>7 DEF CallModel, ModelReplies, ToolUseFailed, RetryFails, ModelRaises, channels, local
  <2>2. pc' # "handle_calls"
    BY <1>7 DEF CallModel, ModelReplies, ShouldContinue, ToolUseFailed, RetryFails, ModelRaises
  <2>. QED  BY <1>1, <2>1, <2>2
<1>8. CASE Stream
  <2>1. /\ UNCHANGED <<steps, newSteps, consecutiveErrors>>
        /\ pc \notin {"handle_calls", "raised"} /\ pc' # "handle_calls"
    BY <1>8 DEF Stream, YieldStep, Resume, Conclude, request, channels, local
  <2>. QED  BY <1>1, <2>1
<1>9. CASE Terminated \/ UNCHANGED vars
  BY <1>9 DEF Terminated, vars, request, channels, local, TrailShape, StepsNumbered, StreakMatchesTrail, Trail
<1>10. CASE ThinkRaises
  BY <1>10 DEF ThinkRaises, channels, local, TrailShape, StepsNumbered, StreakMatchesTrail, Trail
<1>. QED
  BY <1>2, <1>3, <1>4, <1>5, <1>6, <1>7, <1>8, <1>9, <1>10 DEF Next, HandleCall

LEMMA TrailInvariant == Spec => []TrailShape
<1>1. Init => TrailShape
  <2>. SUFFICES ASSUME Init PROVE TrailShape
    OBVIOUS
  <2>1. steps = <<>> /\ newSteps = <<>> /\ consecutiveErrors = 0 /\ pc = "call_model"
    BY DEF Init
  <2>2. Trail = <<>>
    BY <2>1, ConcatEmptySeq, EmptySeq DEF Trail
  <2>. QED  BY <2>1, <2>2 DEF TrailShape, StepsNumbered, StreakMatchesTrail, EndsInStreak
<1>. QED  BY <1>1, TypingInvariant, TrailShapePreserved, PTL DEF Spec

\* The audit trail is numbered 1, 2, 3... over all turns of a run, whichever
\* calls are thoughts, failures or successes.
THEOREM TrailNumbered == Spec => []StepsNumbered
BY TrailInvariant, PTL DEF TrailShape

\* consecutive_errors is the length of the streak the trail ends in.
THEOREM StreakExact == Spec => []StreakMatchesTrail
BY TrailInvariant, PTL DEF TrailShape

-----------------------------------------------------------------------------
\* The step budget, which a turn may overshoot because it is checked between
\* turns only.
StepsBounded ==
  /\ Len(steps) <= MaxEvents
  /\ pc \in {"execute_tools", "handle_calls"} => Len(steps) < MaxSteps
  /\ pc = "handle_calls" => Len(newSteps) <= nextCall - 1
  /\ pc = "raised" => Len(Trail) <= MaxEvents

LEMMA MaxEventsNat == MaxEvents \in Nat
BY LoopAssumption DEF MaxEvents

\* Where execute_tools works, what it has logged fits the overshoot.
LEMMA TurnFits ==
  ASSUME Typing, TrailShape, StepsBounded
  PROVE  Len(Trail) <= MaxEvents
<1>1. steps \in Seq(ToolResults) /\ newSteps \in Seq(ToolResults)
  BY DEF Typing, TypeOK
<1>2. /\ Len(Trail) = Len(steps) + Len(newSteps)
      /\ Len(steps) \in Nat /\ Len(newSteps) \in Nat
  BY <1>1, ConcatProperties DEF Trail
<1>3. CASE pc = "handle_calls"
  <2>1. nextCall - 1 <= MaxCallsPerTurn /\ nextCall \in Nat
    BY LoopAssumption DEF Typing, TypeOK
  <2>2. Len(steps) < MaxSteps /\ Len(newSteps) <= nextCall - 1
    BY <1>3 DEF StepsBounded
  <2>. QED  BY <1>2, <2>1, <2>2, LoopAssumption DEF MaxEvents
<1>4. CASE pc \notin {"handle_calls", "raised"}
  <2>1. Len(newSteps) = 0
    BY <1>4, EmptySeq DEF TrailShape
  <2>. QED  BY <1>2, <2>1 DEF StepsBounded
<1>5. CASE pc = "raised"
  BY <1>5 DEF StepsBounded
<1>. QED  BY <1>3, <1>4, <1>5

LEMMA StepsBoundedPreserved ==
  Typing /\ TrailShape /\ StepsBounded /\ [Next]_vars => StepsBounded'
<1>. SUFFICES ASSUME Typing, TrailShape, StepsBounded, [Next]_vars PROVE StepsBounded'
  OBVIOUS
<1>0. /\ newSteps \in Seq(ToolResults) /\ steps \in Seq(ToolResults)
      /\ nextCall \in Nat /\ MaxEvents' = MaxEvents
  BY LoopAssumption DEF Typing, TypeOK, MaxEvents
<1>1. CASE ModelReplies
  <2>1. PICK reply \in AssistantMessages : pc' = ShouldContinue(reply, modelCalls + 1)
    BY <1>1 DEF ModelReplies
  <2>2. pc' = "conclude" \/ (pc' = "execute_tools" /\ ~(Len(steps) >= MaxSteps))
    BY <2>1 DEF ShouldContinue
  <2>3. steps' = steps
    BY <1>1 DEF ModelReplies
  <2>. QED  BY <1>0, <2>2, <2>3, LoopAssumption DEF StepsBounded
<1>2. CASE ToolUseFailed \/ RetryFails \/ ModelRaises \/ ThinkRaises
  <2>1. UNCHANGED <<steps, newSteps, nextCall>> /\ (pc' = "raised" \/ (pc = "call_model" /\ pc' = pc))
    BY <1>2 DEF ToolUseFailed, RetryFails, ModelRaises, ThinkRaises, channels, local
  <2>2. Len(Trail') <= MaxEvents'
    BY <1>0, <2>1, TurnFits DEF Trail
  <2>. QED  BY <1>0, <2>1, <2>2 DEF StepsBounded
<1>3. CASE StartTools
  BY <1>0, <1>3, EmptySeq DEF StartTools, StepsBounded, channels
<1>4. ASSUME NEW type, HandlingCall, LogStep(type), nextCall' = nextCall + 1
      PROVE  StepsBounded'
  <2>1. Len(newSteps') = Len(newSteps) + 1
    BY <1>0, <1>4 DEF LogStep
  <2>2. UNCHANGED <<pc, steps>> /\ pc # "raised"
    BY <1>4 DEF HandlingCall
  <2>3. Len(newSteps) <= nextCall - 1 /\ Len(newSteps) \in Nat
    BY <1>0, <1>4 DEF HandlingCall, StepsBounded
  <2>. QED  BY <1>0, <1>4, <2>1, <2>2, <2>3 DEF StepsBounded
<1>5. CASE BlockedCall \/ UnavailableCall \/ ToolFails \/ ToolSucceeds
  BY <1>4, <1>5 DEF BlockedCall, UnavailableCall, ToolFails, ToolSucceeds, FailCall, AnswerCall
<1>6. CASE ThinkCall
  <2>1. UNCHANGED <<pc, steps, newSteps>> /\ nextCall' = nextCall + 1 /\ pc # "raised"
    BY <1>6 DEF ThinkCall, HandlingCall, AnswerCall
  <2>. QED  BY <1>0, <2>1 DEF StepsBounded
<1>7. CASE ReturnTools
  <2>1. steps' = Trail /\ pc' = "yield"
    BY <1>7 DEF ReturnTools, Trail
  <2>. QED  BY <1>0, <2>1, TurnFits DEF StepsBounded
<1>8. CASE Stream
  BY <1>0, <1>8 DEF Stream, YieldStep, Resume, Conclude, StepsBounded, request, channels, local
<1>9. CASE Terminated \/ UNCHANGED vars
  BY <1>0, <1>9 DEF Terminated, StepsBounded, Trail, vars, request, channels, local
<1>. QED
  BY <1>1, <1>2, <1>3, <1>5, <1>6, <1>7, <1>8, <1>9 DEF Next, CallModel, HandleCall

LEMMA StepsInvariant == Spec => []StepsBounded
<1>1. Init => StepsBounded
  BY MaxEventsNat, EmptySeq DEF Init, StepsBounded
<1>. QED  BY <1>1, TypingInvariant, TrailInvariant, StepsBoundedPreserved, PTL DEF Spec

\* A run records at most the step budget and one turn's overshoot.
THEOREM OvershootBounded == Spec => []StepOvershootBounded
<1>1. Typing /\ TrailShape /\ StepsBounded => StepOvershootBounded
  BY TurnFits DEF StepOvershootBounded
<1>. QED  BY <1>1, TypingInvariant, TrailInvariant, StepsInvariant, PTL

-----------------------------------------------------------------------------
\* The history the model is sent: whole turns, each an assistant message and
\* the results of its calls, in order.

\* The messages m, up to the n-th, are such turns.
ClosedUpTo(m, n) ==
  \A i \in 1..n :
    IF m[i].role = "assistant"
    THEN /\ i + m[i].calls <= n
         /\ \A k \in 1..m[i].calls : m[i + k].role = "tool" /\ m[i + k].answers = k
    ELSE \E j \in 1..(i - 1) : m[j].role = "assistant" /\ i - j <= m[j].calls

\* The messages m end in the results of a turn, and one of them is an error.
EndsInFailure(m) ==
  \E i \in 1..Len(m) :
    /\ m[i].role = "tool" /\ m[i].error
    /\ \A j \in i..Len(m) : m[j].role = "tool"

\* The results r of a turn, so far, answer its calls in order.
ResultsInOrder(r) == \A k \in 1..Len(r) : r[k].answers = k

HoldsFailure(r) == \E k \in 1..Len(r) : r[k].error

\* Between turns the history is closed, and force_text tells whether the last
\* turn failed.  Within one, all but the assistant message that began it is
\* closed, and force_text speaks of the results so far.
TurnsClosed ==
  /\ pc \in {"call_model", "yield"} =>
       /\ ClosedUpTo(messages, Len(messages))
       /\ forceText <=> EndsInFailure(messages)
  /\ pc \in {"execute_tools", "handle_calls"} =>
       ClosedUpTo(messages, Len(messages) - 1)
  /\ pc = "handle_calls" =>
       /\ Len(toolResults) = nextCall - 1
       /\ nextCall <= Calls + 1
       /\ ResultsInOrder(toolResults)
       /\ forceText <=> HoldsFailure(toolResults)

\* The role of a message says which of the two kinds it is of.
LEMMA RoleTells ==
  ASSUME NEW message \in Messages
  PROVE  \/ message.role = "assistant" /\ message \in AssistantMessages /\ message.calls \in Nat
         \/ message.role = "tool" /\ message \in ToolMessages
BY LoopAssumption DEF Messages, AssistantMessages, ToolMessages

\* What follows closed turns does not open them.
LEMMA ClosedPrefix ==
  ASSUME NEW m \in Seq(Messages), NEW u, NEW n \in 0..Len(m),
         \A i \in 1..n : u[i] = m[i],
         ClosedUpTo(m, n)
  PROVE  ClosedUpTo(u, n)
<1>. SUFFICES ASSUME NEW i \in 1..n
              PROVE  IF u[i].role = "assistant"
                     THEN /\ i + u[i].calls <= n
                          /\ \A k \in 1..u[i].calls : u[i + k].role = "tool" /\ u[i + k].answers = k
                     ELSE \E j \in 1..(i - 1) : u[j].role = "assistant" /\ i - j <= u[j].calls
  BY DEF ClosedUpTo
<1>1. u[i] = m[i] /\ m[i] \in Messages /\ i \in Nat
  OBVIOUS
<1>2. CASE m[i].role = "assistant"
  <2>1. m[i].calls \in Nat /\ i + m[i].calls <= n
    BY <1>1, <1>2, RoleTells DEF ClosedUpTo
  <2>2. \A k \in 1..m[i].calls : m[i + k].role = "tool" /\ m[i + k].answers = k
    BY <1>2 DEF ClosedUpTo
  <2>3. \A k \in 1..m[i].calls : i + k \in 1..n
    BY <2>1
  <2>. QED  BY <1>1, <1>2, <2>1, <2>2, <2>3
<1>3. CASE m[i].role # "assistant"
  <2>1. PICK j \in 1..(i - 1) : m[j].role = "assistant" /\ i - j <= m[j].calls
    BY <1>3 DEF ClosedUpTo
  <2>2. j \in 1..n /\ u[j] = m[j]
    OBVIOUS
  <2>. QED  BY <1>1, <1>3, <2>1, <2>2
<1>. QED  BY <1>2, <1>3

\* A turn whose calls all have their results is closed.
LEMMA TurnCloses ==
  ASSUME NEW m \in Seq(Messages), NEW r \in Seq(ToolMessages),
         m # <<>>, m[Len(m)] \in AssistantMessages,
         Len(r) = m[Len(m)].calls,
         ResultsInOrder(r),
         ClosedUpTo(m, Len(m) - 1)
  PROVE  /\ ClosedUpTo(m \o r, Len(m \o r))
         /\ EndsInFailure(m \o r) <=> HoldsFailure(r)
<1>. DEFINE n == Len(m)
            u == m \o r
<1>1. n \in Nat \ {0} /\ Len(r) \in Nat
  BY EmptySeq
<1>2. r \in Seq(Messages)
  BY SeqMonotonic DEF Messages
<1>3. /\ Len(u) = n + Len(r)
      /\ \A i \in 1..n : u[i] = m[i]
      /\ \A k \in 1..Len(r) : u[n + k] = r[k]
  BY <1>1, <1>2, ConcatProperties
<1>4. ASSUME NEW k \in 1..Len(r) PROVE r[k].role = "tool" /\ r[k].answers = k
  <2>1. r[k] \in ToolMessages
    OBVIOUS
  <2>. QED  BY <2>1 DEF ResultsInOrder, ToolMessages
<1>5. u[n].role = "assistant" /\ u[n].calls = Len(r)
  BY <1>1, <1>3 DEF AssistantMessages
<1>. HIDE DEF n, u
<1>6. ClosedUpTo(u, n - 1)
  <2>1. n - 1 \in 0..Len(m) /\ ClosedUpTo(m, n - 1)
    BY <1>1 DEF n
  <2>2. \A i \in 1..(n - 1) : u[i] = m[i]
    BY <1>1, <1>3
  <2>. QED  BY <2>1, <2>2, ClosedPrefix
<1>7. ASSUME NEW i \in 1..Len(u)
      PROVE  IF u[i].role = "assistant"
             THEN /\ i + u[i].calls <= Len(u)
                  /\ \A k \in 1..u[i].calls : u[i + k].role = "tool" /\ u[i + k].answers = k
             ELSE \E j \in 1..(i - 1) : u[j].role = "assistant" /\ i - j <= u[j].calls
  <2>1. CASE i \in 1..(n - 1)
    <3>1. m[i] \in Messages /\ u[i] = m[i]
      BY <1>1, <1>3, <2>1 DEF n
    <3>2. u[i].role = "assistant" => u[i].calls \in Nat
      BY <3>1, RoleTells
    <3>. QED  BY <1>1, <1>3, <1>6, <2>1, <3>2 DEF ClosedUpTo
  <2>2. CASE i = n
    <3>0. u[i].calls = Len(r)
      BY <1>5, <2>2
    <3>1. i + u[i].calls <= Len(u) /\ u[i].calls = Len(r)
      BY <1>1, <1>3, <2>2, <3>0
    <3>2. ASSUME NEW k \in 1..Len(r) PROVE u[i + k].role = "tool" /\ u[i + k].answers = k
      <4>1. u[i + k] = r[k]
        BY <1>3, <2>2
      <4>. QED  BY <1>4, <4>1
    <3>. QED  BY <1>5, <2>2, <3>1, <3>2
  <2>3. CASE i \in (n + 1)..Len(u)
    <3>1. i - n \in 1..Len(r) /\ i = n + (i - n)
      BY <1>1, <1>3, <2>3
    <3>2. u[i].role = "tool"
      BY <1>3, <1>4, <3>1
    <3>3. n \in 1..(i - 1) /\ i - n <= u[n].calls
      BY <1>1, <1>5, <3>1
    <3>. QED  BY <1>5, <3>2, <3>3
  <2>. QED  BY <1>1, <1>3, <2>1, <2>2, <2>3
<1>8. ClosedUpTo(u, Len(u))
  BY <1>7 DEF ClosedUpTo
<1>9. ASSUME HoldsFailure(r) PROVE EndsInFailure(u)
  <2>1. PICK k \in 1..Len(r) : r[k].error
    BY <1>9 DEF HoldsFailure
  <2>2. n + k \in 1..Len(u) /\ u[n + k].role = "tool" /\ u[n + k].error
    <3>1. n + k \in 1..Len(u)
      BY <1>1, <1>3
    <3>2. u[n + k] = r[k] /\ r[k].role = "tool"
      BY <1>3, <1>4
    <3>. QED  BY <2>1, <3>1, <3>2
  <2>3. ASSUME NEW j \in (n + k)..Len(u) PROVE u[j].role = "tool"
    <3>1. j - n \in 1..Len(r) /\ j = n + (j - n)
      BY <1>1, <1>3, <2>3
    <3>. QED  BY <1>3, <1>4, <3>1
  <2>. QED  BY <2>2, <2>3 DEF EndsInFailure
<1>10. ASSUME EndsInFailure(u) PROVE HoldsFailure(r)
  <2>1. PICK i \in 1..Len(u) : /\ u[i].role = "tool" /\ u[i].error
                               /\ \A j \in i..Len(u) : u[j].role = "tool"
    BY <1>10 DEF EndsInFailure
  <2>2. ~(i <= n)
    <3>1. ASSUME i <= n PROVE FALSE
      <4>1. n \in i..Len(u)
        BY <1>1, <1>3, <3>1
      <4>. QED  BY <1>5, <2>1, <4>1
    <3>. QED  BY <3>1
  <2>3. i - n \in 1..Len(r) /\ i = n + (i - n)
    BY <1>1, <1>3, <2>2
  <2>. QED  BY <1>3, <2>1, <2>3 DEF HoldsFailure
<1>. QED  BY <1>8, <1>9, <1>10 DEF u

\* Handling a call adds its result to those of the turn.
LEMMA AnswerKeepsTurn ==
  ASSUME Typing, TurnsClosed, HandlingCall, NEW error \in BOOLEAN, AnswerCall(error),
         forceText' = (forceText \/ error)
  PROVE  TurnsClosed'
<1>. DEFINE result == [role |-> "tool", answers |-> nextCall, error |-> error]
<1>1. pc = "handle_calls" /\ UNCHANGED <<pc, messages>> /\ nextCall <= Calls
  BY DEF HandlingCall
<1>2. nextCall \in 1..MaxCallsPerTurn /\ Calls \in 0..MaxCallsPerTurn
  BY CallsInTurn
<1>3. toolResults \in Seq(ToolMessages) /\ result \in ToolMessages
  BY <1>2 DEF Typing, TypeOK, ToolMessages
<1>4. toolResults' = Append(toolResults, result) /\ nextCall' = nextCall + 1
  BY DEF AnswerCall
<1>5. result.answers = nextCall /\ result.error = error
  OBVIOUS
<1>. HIDE DEF result
<1>6. /\ Len(toolResults) \in Nat
      /\ Len(toolResults') = Len(toolResults) + 1
      /\ \A k \in 1..Len(toolResults) : toolResults'[k] = toolResults[k]
      /\ toolResults'[Len(toolResults) + 1] = result
  BY <1>3, <1>4
<1>7. /\ Len(toolResults) = nextCall - 1
      /\ ResultsInOrder(toolResults)
      /\ forceText <=> HoldsFailure(toolResults)
      /\ ClosedUpTo(messages, Len(messages) - 1)
  BY <1>1 DEF TurnsClosed
<1>8. Len(toolResults') = nextCall' - 1 /\ nextCall' <= Calls + 1
  BY <1>1, <1>2, <1>4, <1>6, <1>7, LoopAssumption
<1>9. \A k \in 1..Len(toolResults') : k \in 1..Len(toolResults) \/ k = Len(toolResults) + 1
  BY <1>6
<1>10. ResultsInOrder(toolResults')
  BY <1>2, <1>5, <1>6, <1>7, <1>9, LoopAssumption DEF ResultsInOrder
<1>11. HoldsFailure(toolResults') <=> HoldsFailure(toolResults) \/ error
  <2>1. Len(toolResults) + 1 \in 1..Len(toolResults')
    BY <1>6
  <2>2. \A k \in 1..Len(toolResults) : k \in 1..Len(toolResults')
    BY <1>6
  <2>. QED  BY <1>5, <1>6, <1>9, <2>1, <2>2, Zenon DEF HoldsFailure
<1>12. Calls' = Calls
  BY <1>1 DEF Calls
<1>. QED  BY <1>1, <1>7, <1>8, <1>10, <1>11, <1>12 DEF TurnsClosed

LEMMA TurnsClosedPreserved == Typing /\ TurnsClosed /\ [Next]_vars => TurnsClosed'
<1>. SUFFICES ASSUME Typing, TurnsClosed, [Next]_vars PROVE TurnsClosed'
  OBVIOUS
<1>0. messages \in Seq(Messages) /\ Len(messages) \in Nat
  BY DEF Typing, TypeOK, Messages
<1>1. CASE ModelReplies
  <2>1. PICK reply \in AssistantMessages :
          /\ messages' = Append(messages, reply)
          /\ pc' = ShouldContinue(reply, modelCalls + 1)
    BY <1>1 DEF ModelReplies
  <2>2. pc = "call_model" /\ pc' \in {"conclude", "execute_tools"}
    BY <1>1, <2>1 DEF ModelReplies, ShouldContinue
  <2>3. reply \in Messages
    BY DEF Messages
  <2>4. Len(messages') = Len(messages) + 1 /\ \A i \in 1..Len(messages) : messages'[i] = messages[i]
    BY <1>0, <2>1, <2>3
  <2>5. ClosedUpTo(messages, Len(messages))
    BY <2>2 DEF TurnsClosed
  <2>6. ClosedUpTo(messages', Len(messages))
    BY <1>0, <2>4, <2>5, ClosedPrefix
  <2>7. Len(messages') - 1 = Len(messages)
    BY <1>0, <2>4
  <2>. QED  BY <2>2, <2>6, <2>7 DEF TurnsClosed
<1>2. CASE ToolUseFailed \/ RetryFails
  BY <1>2 DEF ToolUseFailed, RetryFails, TurnsClosed, channels, local
<1>3. CASE ModelRaises \/ ThinkRaises
  BY <1>3 DEF ModelRaises, ThinkRaises, TurnsClosed
<1>4. CASE StartTools
  <2>1. /\ pc = "execute_tools" /\ pc' = "handle_calls"
        /\ toolResults' = <<>> /\ nextCall' = 1 /\ forceText' = FALSE
        /\ messages' = messages
    BY <1>4 DEF StartTools, channels
  <2>2. Calls' \in Nat
    BY <2>1, LoopAssumption DEF Calls, Typing, LastHasCalls, AssistantMessages
  <2>3. Len(toolResults') = 0
    BY <2>1, EmptySeq
  <2>4. ResultsInOrder(toolResults)' /\ ~HoldsFailure(toolResults)'
    BY <2>3 DEF ResultsInOrder, HoldsFailure
  <2>5. ClosedUpTo(messages, Len(messages) - 1)'
    BY <2>1 DEF TurnsClosed
  <2>6. 0 = nextCall' - 1 /\ nextCall' <= Calls' + 1
    <3>1. \A c \in Nat : 0 = 1 - 1 /\ 1 <= c + 1
      OBVIOUS
    <3>. QED  BY <2>1, <2>2, <3>1
  <2>. QED  BY <2>1, <2>3, <2>4, <2>5, <2>6, Zenon DEF TurnsClosed
<1>5. CASE BlockedCall \/ UnavailableCall \/ ToolFails
  <2>1. HandlingCall /\ AnswerCall(TRUE) /\ forceText' = TRUE
    BY <1>5 DEF BlockedCall, UnavailableCall, ToolFails, FailCall
  <2>. QED  BY <2>1, AnswerKeepsTurn
<1>6. CASE ThinkCall \/ ToolSucceeds
  <2>1. HandlingCall /\ AnswerCall(FALSE) /\ forceText' = forceText
    BY <1>6 DEF ThinkCall, ToolSucceeds
  <2>2. forceText \in BOOLEAN
    BY DEF Typing, TypeOK
  <2>. QED  BY <2>1, <2>2, AnswerKeepsTurn, Zenon
<1>7. CASE ReturnTools
  <2>1. /\ pc = "handle_calls" /\ pc' = "yield" /\ nextCall > Calls
        /\ messages' = messages \o toolResults /\ forceText' = forceText
    BY <1>7 DEF ReturnTools
  <2>2. toolResults \in Seq(ToolMessages) /\ messages # <<>> /\ messages[Len(messages)] \in AssistantMessages
    BY <2>1 DEF Typing, TypeOK, LastHasCalls
  <2>3. Len(toolResults) = messages[Len(messages)].calls
    BY <2>1, <2>2, LoopAssumption DEF TurnsClosed, Calls, AssistantMessages, Typing, TypeOK
  <2>4. /\ ClosedUpTo(messages', Len(messages'))
        /\ EndsInFailure(messages') <=> HoldsFailure(toolResults)
    BY <1>0, <2>1, <2>2, <2>3, TurnCloses DEF TurnsClosed
  <2>. QED  BY <2>1, <2>4 DEF TurnsClosed
<1>8. CASE YieldStep
  BY <1>8 DEF YieldStep, TurnsClosed, request, channels
<1>9. CASE Resume
  BY <1>9 DEF Resume, TurnsClosed, channels
<1>10. CASE Conclude
  BY <1>10 DEF Conclude, TurnsClosed
<1>11. CASE Terminated \/ UNCHANGED vars
  BY <1>11 DEF Terminated, vars, request, channels, local, TurnsClosed, Calls
<1>. QED
  BY <1>1, <1>2, <1>3, <1>4, <1>5, <1>6, <1>7, <1>8, <1>9, <1>10, <1>11
  DEF Next, CallModel, HandleCall, Stream

LEMMA TurnsInvariant == Spec => []TurnsClosed
<1>1. Init => TurnsClosed
  <2>. SUFFICES ASSUME Init PROVE TurnsClosed
    OBVIOUS
  <2>1. messages = <<>> /\ Len(messages) = 0 /\ pc = "call_model" /\ forceText = FALSE
    BY EmptySeq DEF Init
  <2>. QED  BY <2>1 DEF TurnsClosed, ClosedUpTo, EndsInFailure
<1>. QED  BY <1>1, TypingInvariant, TurnsClosedPreserved, PTL DEF Spec

\* Whenever the model is called, every call of every past turn has its result,
\* in order and in place, for any number of calls and any way they end.
THEOREM CallsAnswered == Spec => []ToolCallsAnswered
<1>1. TurnsClosed => ToolCallsAnswered
  BY DEF TurnsClosed, ClosedUpTo, ToolCallsAnswered
<1>. QED  BY <1>1, TurnsInvariant, PTL

\* A turn is begun without tools exactly after one that held an error.
THEOREM ForcedExactly == Spec => []ForcedAfterFailure
<1>1. Typing /\ TurnsClosed => ForcedAfterFailure
  <2>1. LastTurnFailed <=> EndsInFailure(messages)
    BY DEF LastTurnFailed, EndsInFailure
  <2>. QED  BY <2>1 DEF TurnsClosed, ForcedAfterFailure, ToolChoice, Typing, TypeOK
<1>. QED  BY <1>1, TypingInvariant, TurnsInvariant, PTL

-----------------------------------------------------------------------------
\* The iteration lags the graph only while it drains an update.
YieldsBehind ==
  /\ yielded <= Len(steps)
  /\ pc # "yield" => yielded = Len(steps)

LEMMA YieldsBehindPreserved == Typing /\ YieldsBehind /\ [Next]_vars => YieldsBehind'
<1>. SUFFICES ASSUME Typing, YieldsBehind, [Next]_vars PROVE YieldsBehind'
  OBVIOUS
<1>0. /\ steps \in Seq(ToolResults) /\ newSteps \in Seq(ToolResults)
      /\ yielded \in Nat /\ Len(steps) \in Nat
  BY DEF Typing, TypeOK
<1>1. CASE CallModel
  <2>1. UNCHANGED <<steps, yielded>> /\ pc = "call_model"
    BY <1>1 DEF CallModel, ModelReplies, ToolUseFailed, RetryFails, ModelRaises, channels
  <2>. QED  BY <1>0, <2>1 DEF YieldsBehind
<1>2. CASE StartTools
  BY <1>0, <1>2 DEF StartTools, YieldsBehind, channels
<1>3. CASE HandlingCall
  BY <1>0, <1>3 DEF HandlingCall, YieldsBehind
<1>4. CASE ReturnTools
  <2>1. steps' = steps \o newSteps /\ pc' = "yield" /\ yielded' = yielded
    BY <1>4 DEF ReturnTools
  <2>2. Len(steps') >= Len(steps)
    BY <1>0, <2>1, ConcatProperties
  <2>3. Len(steps') \in Nat
    BY <1>0, <2>1, ConcatProperties
  <2>. QED  BY <1>0, <2>1, <2>2, <2>3 DEF YieldsBehind
<1>5. CASE YieldStep
  BY <1>0, <1>5 DEF YieldStep, YieldsBehind, request, channels
<1>6. CASE Resume \/ Conclude \/ ThinkRaises
  BY <1>0, <1>6 DEF Resume, Conclude, ThinkRaises, YieldsBehind, channels
<1>7. CASE Terminated \/ UNCHANGED vars
  BY <1>0, <1>7 DEF Terminated, YieldsBehind, vars, request, channels
<1>. QED
  BY <1>1, <1>2, <1>3, <1>4, <1>5, <1>6, <1>7
  DEF Next, HandleCall, Stream, BlockedCall, ThinkCall, UnavailableCall, ToolFails, ToolSucceeds

LEMMA YieldsInvariant == Spec => []YieldsBehind
<1>1. Init => YieldsBehind
  BY EmptySeq DEF Init, YieldsBehind
<1>. QED  BY <1>1, TypingInvariant, YieldsBehindPreserved, PTL DEF Spec

\* A caller has seen every step by the time the model is asked again.
THEOREM YieldsCurrent == Spec => []YieldsKeepUp
<1>1. YieldsBehind => YieldsKeepUp
  BY DEF YieldsBehind, YieldsKeepUp
<1>. QED  BY <1>1, YieldsInvariant, PTL

-----------------------------------------------------------------------------
\* The loop implements the source of events that StreamedRun builds on: a step
\* of the loop yields one event, ends the iteration, or is invisible.
LEMMA StepImplementsSource ==
  Typing /\ StepsBounded /\ YieldsBehind /\ [Next]_vars
    => [Source!SourceNext]_(Source!sourceVars)
<1>. SUFFICES ASSUME Typing, StepsBounded, YieldsBehind, [Next]_vars
              PROVE  [Source!SourceNext]_(Source!sourceVars)
  OBVIOUS
<1>1. CASE yielded' = yielded /\ Phase' = Phase
  BY <1>1 DEF Source!sourceVars
<1>2. CASE YieldStep
  <2>1. yielded < MaxEvents
    BY <1>2, MaxEventsNat DEF YieldStep, StepsBounded, Typing, TypeOK
  <2>2. Phase = "looping" /\ Phase' = "looping" /\ yielded' = yielded + 1
    BY <1>2 DEF YieldStep, Phase, request, outcome
  <2>. QED  BY <2>1, <2>2 DEF Source!SourceNext, Source!Yield
<1>3. CASE Conclude
  <2>1. Phase = "looping" /\ Phase' \in {"answered", "unanswered"} /\ yielded' = yielded
    BY <1>3 DEF Conclude, Phase
  <2>. QED  BY <2>1 DEF Source!SourceNext, Source!Answer, Source!GiveUp
<1>4. CASE ModelRaises \/ ThinkRaises
  <2>1. Phase = "looping" /\ Phase' = "raised" /\ yielded' = yielded
    BY <1>4 DEF ModelRaises, ThinkRaises, Phase
  <2>. QED  BY <2>1 DEF Source!SourceNext, Source!Raise
<1>5. CASE ModelReplies
  <2>1. pc = "call_model" /\ pc' \in {"conclude", "execute_tools"} /\ yielded' = yielded
    BY <1>5 DEF ModelReplies, ShouldContinue
  <2>. QED  BY <1>1, <2>1 DEF Phase
<1>6. CASE ToolUseFailed \/ RetryFails \/ StartTools \/ HandlingCall \/ ReturnTools \/ Resume
  <2>1. /\ pc \notin {"finished", "raised"} /\ pc' \notin {"finished", "raised"}
        /\ yielded' = yielded
    BY <1>6 DEF ToolUseFailed, RetryFails, StartTools, HandlingCall, ReturnTools, Resume
  <2>. QED  BY <1>1, <2>1 DEF Phase
<1>7. CASE Terminated \/ UNCHANGED vars
  BY <1>1, <1>7 DEF Terminated, vars, request, outcome, Phase
<1>. QED
  BY <1>2, <1>3, <1>4, <1>5, <1>6, <1>7
  DEF Next, CallModel, HandleCall, Stream, BlockedCall, ThinkCall, UnavailableCall,
      ToolFails, ToolSucceeds

\* The safety part of SourceSpec, for every value of the constants.
THEOREM ImplementsSource ==
  Spec => Source!SourceInit /\ [][Source!SourceNext]_(Source!sourceVars)
<1>1. Init => Source!SourceInit
  BY DEF Init, Source!SourceInit, Phase
<1>. QED
  BY <1>1, TypingInvariant, StepsInvariant, YieldsInvariant, StepImplementsSource, PTL DEF Spec
=============================================================================
