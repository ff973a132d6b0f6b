------------------------- MODULE StreamedRunProofs -------------------------
(***************************************************************************)
(* What TLAPS proves about a streamed run, for every queue size and every  *)
(* length of run.                                                          *)
(***************************************************************************)
EXTENDS StreamedRun, SequenceTheorems, TLAPS

Items == Frames \cup {Sentinel}

\* The constructors of frames are typed.
LEMMA FramesTyped ==
  /\ \A k \in Nat : Step(k) \in Frames
  /\ Answered \in Frames /\ Done \in Frames /\ Error \in Frames
BY DEF Step, Answered, Done, Error, Frames

\* Relaying keeps the queue well-typed, and goes where it is told.
LEMMA RelayTyped ==
  ASSUME TypeOK, NEW event \in Frames, NEW next, Relay(event, next)
  PROVE  /\ events' \in Seq(Items)
         /\ readerStalled' \in BOOLEAN
         /\ producer' = next
         /\ UNCHANGED <<phase, yielded, failure, recorded, reader, taken, delivered, connected>>
<1>1. events \in Seq(Items) /\ event \in Items
  BY DEF TypeOK, Items
<1>2. events' \in Seq(Items)
  BY <1>1 DEF Relay
<1>3. readerStalled' \in BOOLEAN
  BY DEF Relay, TypeOK
<1>. QED  BY <1>2, <1>3 DEF Relay, sourceVars, readerVars

LEMMA TypeInitial == Init => TypeOK
<1>. SUFFICES ASSUME Init PROVE TypeOK
  OBVIOUS
<1>1. readerStalled \in BOOLEAN /\ failure \in BOOLEAN /\ recorded \in BOOLEAN /\ connected \in BOOLEAN
  BY DEF Init
<1>. QED  BY <1>1, EmptySeq DEF Init, SourceInit, TypeOK, Phases

LEMMA TypePreserved == TypeOK /\ [Next]_vars => TypeOK'
<1>. SUFFICES ASSUME TypeOK, [Next]_vars PROVE TypeOK'
  OBVIOUS
<1>1. CASE RelayStep \/ RelayAnswer \/ RelayDone
  <2>1. PICK event \in Frames, next \in {"iterate", "relay_done", "sentinel"} : Relay(event, next)
    BY <1>1, FramesTyped DEF RelayStep, RelayAnswer, RelayDone, TypeOK
  <2>. QED  BY <2>1, RelayTyped DEF TypeOK, Items
<1>2. CASE LoopYields \/ LoopReturns \/ LoopRaises
  <2>1. phase' \in Phases /\ yielded' \in Nat
    BY <1>2 DEF LoopYields, LoopReturns, LoopRaises, Iterate, Yield, Answer, GiveUp, Raise, Phases, TypeOK
  <2>2. producer' \in {"relay_step", "record", "sentinel"}
    BY <1>2 DEF LoopYields, LoopReturns, LoopRaises, Iterate, Fails
  <2>3. failure' \in BOOLEAN
    BY <1>2 DEF LoopYields, LoopReturns, LoopRaises, Iterate, Fails, TypeOK
  <2>4. UNCHANGED <<readerStalled, recorded, events, reader, taken, delivered, connected>>
    BY <1>2 DEF LoopYields, LoopReturns, LoopRaises, Iterate, readerVars
  <2>. QED  BY <2>1, <2>2, <2>3, <2>4 DEF TypeOK
<1>3. CASE Commit \/ CommitFails \/ Refresh \/ RefreshFails
  <2>1. failure' \in BOOLEAN /\ recorded' \in BOOLEAN
    BY <1>3 DEF Commit, CommitFails, Refresh, RefreshFails, Fails, TypeOK
  <2>2. producer' \in {"refresh", "relay_answer", "relay_done", "sentinel"}
    BY <1>3 DEF Commit, CommitFails, Refresh, RefreshFails, Fails
  <2>3. UNCHANGED <<phase, yielded, readerStalled, events, reader, taken, delivered, connected>>
    BY <1>3 DEF Commit, CommitFails, Refresh, RefreshFails, sourceVars, readerVars
  <2>. QED  BY <2>1, <2>2, <2>3 DEF TypeOK
<1>4. CASE PutSentinel
  <2>1. events' \in Seq(Items)
    BY <1>4 DEF PutSentinel, TypeOK, Items
  <2>. QED  BY <1>4, <2>1 DEF PutSentinel, TypeOK, Items, sourceVars, readerVars
<1>5. CASE Get
  <2>1. events \in Seq(Items) /\ events # <<>>
    BY <1>5 DEF Get, TypeOK, Items
  <2>2. Head(events) \in Items /\ Tail(events) \in Seq(Items)
    BY <2>1, HeadTailProperties
  <2>3. taken' \in Seq(Frames) /\ reader' \in {"join", "yield"}
    <3>1. CASE Head(events) = Sentinel
      BY <1>5, <3>1 DEF Get, TypeOK
    <3>2. CASE Head(events) # Sentinel
      <4>1. Head(events) \in Frames
        BY <2>2, <3>2 DEF Items
      <4>2. taken' = Append(taken, Head(events)) /\ reader' = "yield"
        BY <1>5, <3>2 DEF Get
      <4>. QED  BY <4>1, <4>2 DEF TypeOK
    <3>. QED  BY <3>1, <3>2
  <2>4. events' = Tail(events) /\ UNCHANGED <<phase, yielded, producer, readerStalled, failure, recorded, delivered, connected>>
    BY <1>5 DEF Get, sourceVars, producerVars
  <2>. QED  BY <2>2, <2>3, <2>4 DEF TypeOK, Items
<1>6. CASE Join
  <2>1. taken' \in Seq(Frames) /\ reader' \in {"ended", "yield"}
    BY <1>6, FramesTyped DEF Join, TypeOK
  <2>. QED  BY <1>6, <2>1 DEF Join, TypeOK, sourceVars, producerVars
<1>7. CASE Send
  <2>1. delivered' \in Nat
    BY <1>7 DEF Send, TypeOK
  <2>. QED  BY <1>7, <2>1 DEF Send, TypeOK, sourceVars, producerVars
<1>8. CASE Start \/ Pull \/ Close
  BY <1>8 DEF Start, Pull, Close, TypeOK, sourceVars, producerVars
<1>9. CASE Disconnect
  <2>1. connected' \in BOOLEAN
    BY <1>9 DEF Disconnect
  <2>. QED  BY <1>9, <2>1 DEF Disconnect, TypeOK, sourceVars, producerVars, readerVars
<1>10. CASE Shutdown
  BY <1>10 DEF Shutdown, TypeOK, sourceVars
<1>11. CASE Settled \/ UNCHANGED vars
  BY <1>11 DEF Settled, vars, TypeOK, sourceVars, producerVars, readerVars
<1>. QED
  BY <1>1, <1>2, <1>3, <1>4, <1>5, <1>6, <1>7, <1>8, <1>9, <1>10, <1>11 DEF Next, Produce, Read

\* Every reachable state is well-typed.
THEOREM TypeCorrect == Spec => []TypeOK
BY TypeInitial, TypePreserved, PTL DEF Spec

-----------------------------------------------------------------------------
\* What keeps an answer from overtaking its row: the places of the producer
\* where the run counts as recorded are reached through the commit only.
RecordFirst ==
  ~recorded =>
    /\ producer \notin {"refresh", "relay_answer", "relay_done"}
    /\ \A i \in 1..Len(taken) : taken[i].kind \notin {"answer", "done"}
    /\ \A i \in 1..Len(events) : events[i].kind \notin {"answer", "done"}

\* An item appended to a sequence leaves the other items where they are.
LEMMA Appended ==
  ASSUME NEW S, NEW s \in Seq(S), NEW e \in S
  PROVE  /\ Len(Append(s, e)) = Len(s) + 1
         /\ Append(s, e)[Len(s) + 1] = e
         /\ \A i \in 1..Len(s) : Append(s, e)[i] = s[i]
OBVIOUS

\* A sequence without answers stays so when something else is appended.
LEMMA QuietAppended ==
  ASSUME NEW S, NEW s \in Seq(S), NEW e \in S,
         \A i \in 1..Len(s) : s[i].kind \notin {"answer", "done"},
         e.kind \notin {"answer", "done"}
  PROVE  \A i \in 1..Len(Append(s, e)) : Append(s, e)[i].kind \notin {"answer", "done"}
<1>1. \A i \in 1..Len(Append(s, e)) : i \in 1..Len(s) \/ i = Len(s) + 1
  BY Appended
<1>. QED  BY <1>1, Appended

LEMMA RecordFirstPreserved == TypeOK /\ RecordFirst /\ [Next]_vars => RecordFirst'
<1>. SUFFICES ASSUME TypeOK, RecordFirst, [Next]_vars, ~recorded' PROVE RecordFirst'
  BY DEF RecordFirst
<1>. USE DEF RecordFirst
<1>0. events \in Seq(Items) /\ taken \in Seq(Frames)
  BY DEF TypeOK, Items
<1>1. CASE RelayStep
  <2>1. UNCHANGED <<recorded, taken>> /\ producer' = "iterate"
    BY <1>1 DEF RelayStep, Relay, readerVars
  <2>2. events' = events \/ events' = Append(events, Step(yielded))
    BY <1>1 DEF RelayStep, Relay
  <2>3. Step(yielded).kind = "step" /\ Step(yielded) \in Items
    BY DEF Step, Frames, Items, TypeOK
  <2>. QED  BY <1>0, <2>1, <2>2, <2>3, Appended
<1>2. CASE RelayAnswer \/ RelayDone
  BY <1>2 DEF RelayAnswer, RelayDone, Relay
<1>3. CASE LoopYields \/ LoopReturns \/ LoopRaises
  BY <1>3 DEF LoopYields, LoopReturns, LoopRaises, Iterate, Fails, readerVars
<1>4. CASE Commit
  BY <1>4 DEF Commit
<1>5. CASE CommitFails \/ Refresh \/ RefreshFails
  BY <1>5 DEF CommitFails, Refresh, RefreshFails, Fails, readerVars
<1>6. CASE PutSentinel
  <2>1. Sentinel.kind = "sentinel" /\ Sentinel \in Items
    BY DEF Sentinel, Items
  <2>2. UNCHANGED <<recorded, taken>> /\ producer' = "exited" /\ events' = Append(events, Sentinel)
    BY <1>6 DEF PutSentinel, readerVars
  <2>3. \A i \in 1..Len(events') : events'[i].kind \notin {"answer", "done"}
    BY <1>0, <2>1, <2>2, Appended
  <2>. QED  BY <2>2, <2>3
<1>7. CASE Get
  <2>1. events # <<>> /\ events' = Tail(events) /\ UNCHANGED <<recorded, producer>>
    BY <1>7 DEF Get, producerVars
  <2>2. Head(events) = events[1] /\ Len(events) \in Nat \ {0}
    BY <1>0, <2>1, EmptySeq
  <2>3. /\ Len(Tail(events)) = Len(events) - 1
        /\ \A i \in 1..Len(Tail(events)) : Tail(events)[i] = events[i + 1]
    BY <1>0, <2>1, HeadTailProperties
  <2>4. taken' = taken \/ (taken' = Append(taken, events[1]) /\ events[1] \in Frames)
    BY <1>0, <1>7, <2>1, <2>2, HeadTailProperties DEF Get, Items
  <2>5. \A i \in 1..Len(events') : events'[i].kind \notin {"answer", "done"}
    BY <2>1, <2>2, <2>3
  <2>6. \A i \in 1..Len(taken') : taken'[i].kind \notin {"answer", "done"}
    <3>1. CASE taken' = taken
      BY <2>1, <3>1
    <3>2. CASE taken' = Append(taken, events[1]) /\ events[1] \in Frames
      <4>1. events[1].kind \notin {"answer", "done"}
        BY <2>1, <2>2
      <4>2. \A i \in 1..Len(taken) : taken[i].kind \notin {"answer", "done"}
        BY <2>1
      <4>. QED  BY <1>0, <3>2, <4>1, <4>2, QuietAppended
    <3>. QED  BY <2>4, <3>1, <3>2
  <2>. QED  BY <2>1, <2>5, <2>6
<1>8. CASE Join
  <2>1. Error.kind = "error" /\ Error \in Frames
    BY DEF Error, Frames
  <2>2. UNCHANGED <<recorded, producer, events>> /\ (taken' = taken \/ taken' = Append(taken, Error))
    BY <1>8 DEF Join, producerVars
  <2>3. \A i \in 1..Len(taken') : taken'[i].kind \notin {"answer", "done"}
    <3>1. \A i \in 1..Len(taken) : taken[i].kind \notin {"answer", "done"}
      BY <2>2
    <3>2. CASE taken' = taken
      BY <3>1, <3>2
    <3>3. CASE taken' = Append(taken, Error)
      BY <1>0, <2>1, <3>1, <3>3, QuietAppended
    <3>. QED  BY <2>2, <3>2, <3>3
  <2>. QED  BY <2>2, <2>3
<1>9. CASE Send \/ Start \/ Pull \/ Close \/ Disconnect
  BY <1>9 DEF Send, Start, Pull, Close, Disconnect, producerVars, readerVars
<1>10. CASE Shutdown
  BY <1>10 DEF Shutdown
<1>11. CASE Settled \/ UNCHANGED vars
  BY <1>11 DEF Settled, vars, producerVars, readerVars
<1>. QED
  BY <1>1, <1>2, <1>3, <1>4, <1>5, <1>6, <1>7, <1>8, <1>9, <1>10, <1>11 DEF Next, Produce, Read

LEMMA RecordFirstInvariant == Spec => []RecordFirst
<1>1. Init => RecordFirst
  <2>. SUFFICES ASSUME Init PROVE RecordFirst
    OBVIOUS
  <2>1. producer = "unborn" /\ Len(events) = 0 /\ Len(taken) = 0
    BY EmptySeq DEF Init
  <2>. QED  BY <2>1 DEF RecordFirst
<1>. QED  BY <1>1, TypeCorrect, RecordFirstPreserved, PTL DEF Spec

\* Nobody is shown, or sent, an answer whose run is not recorded, whenever the
\* client reads, stalls or leaves and whatever fails.
THEOREM AnswerWithheld == Spec => []RecordedBeforeAnswer
<1>1. RecordFirst => RecordedBeforeAnswer
  BY DEF RecordFirst, RecordedBeforeAnswer
<1>. QED  BY <1>1, RecordFirstInvariant, PTL

-----------------------------------------------------------------------------
\* The most events a run can have queued, by where its producer is.
Budget ==
  CASE producer \in {"unborn", "iterate", "record", "refresh", "relay_answer"} -> yielded
    [] producer = "relay_step" -> yielded - 1
    [] producer = "relay_done" -> yielded + 1
    [] producer = "sentinel"   -> yielded + 2
    [] OTHER                   -> yielded + 3

\* In a queue with room for a run, the producer never finds it full.
Roomy ==
  /\ ~readerStalled
  /\ Len(events) <= Budget

\* The queue has room for all of the run so far.  It may stop to be so with the
\* run's next step, and never starts to be.
Ample == QueueSize >= yielded + 3

\* The thread is created by the first next(), and not before.
BornOnDemand == reader = "unstarted" => producer = "unborn"

LEMMA BornOnDemandPreserved == BornOnDemand /\ [Next]_vars => BornOnDemand'
<1>. SUFFICES ASSUME BornOnDemand, [Next]_vars PROVE BornOnDemand'
  OBVIOUS
<1>1. CASE Produce
  <2>1. producer # "unborn" /\ reader' = reader
    BY <1>1 DEF Produce, LoopYields, LoopReturns, LoopRaises, Iterate, RelayStep, Commit,
      CommitFails, Refresh, RefreshFails, RelayAnswer, RelayDone, PutSentinel, Relay, readerVars
  <2>. QED  BY <2>1 DEF BornOnDemand
<1>2. CASE Read
  BY <1>2 DEF Read, Start, Get, Send, Pull, Join, Close, BornOnDemand
<1>3. CASE Disconnect \/ Shutdown \/ Settled \/ UNCHANGED vars
  BY <1>3 DEF Disconnect, Shutdown, Settled, vars, producerVars, readerVars, BornOnDemand
<1>. QED  BY <1>1, <1>2, <1>3 DEF Next

\* Steps are counted and never taken back.
LEMMA YieldedGrows == TypeOK /\ [Next]_vars => yielded' \in Nat /\ yielded <= yielded'
<1>. SUFFICES ASSUME TypeOK, [Next]_vars PROVE yielded' \in Nat /\ yielded <= yielded'
  OBVIOUS
<1>1. yielded \in Nat
  BY DEF TypeOK
<1>2. CASE LoopYields
  BY <1>1, <1>2 DEF LoopYields, Iterate, Yield
<1>3. CASE LoopReturns \/ LoopRaises
  BY <1>1, <1>3 DEF LoopReturns, LoopRaises, Iterate, Answer, GiveUp, Raise
<1>4. CASE RelayStep \/ RelayAnswer \/ RelayDone
  BY <1>1, <1>4 DEF RelayStep, RelayAnswer, RelayDone, Relay, sourceVars
<1>5. CASE Commit \/ CommitFails \/ Refresh \/ RefreshFails \/ PutSentinel
  BY <1>1, <1>5 DEF Commit, CommitFails, Refresh, RefreshFails, PutSentinel, sourceVars
<1>6. CASE Read \/ Disconnect \/ Shutdown
  BY <1>1, <1>6 DEF Read, Start, Get, Send, Pull, Join, Close, Disconnect, Shutdown, sourceVars
<1>7. CASE Settled \/ UNCHANGED vars
  BY <1>1, <1>7 DEF Settled, vars, sourceVars
<1>. QED  BY <1>2, <1>3, <1>4, <1>5, <1>6, <1>7 DEF Next, Produce

LEMMA RoomyPreserved ==
  TypeOK /\ BornOnDemand /\ (Ample => Roomy) /\ [Next]_vars => (Ample => Roomy)'
<1>. SUFFICES ASSUME TypeOK, BornOnDemand, Ample => Roomy, [Next]_vars, Ample' PROVE Roomy'
  OBVIOUS
<1>0. /\ events \in Seq(Items) /\ Len(events) \in Nat /\ yielded \in Nat
      /\ QueueSize \in Nat /\ QueueSize >= yielded + 3
      /\ ~readerStalled /\ Len(events) <= Budget
  BY QueueSizeAssumption, YieldedGrows DEF TypeOK, Items, Ample, Roomy
<1>1. ASSUME NEW event \in Frames, NEW next, Relay(event, next),
             Len(events) < QueueSize
      PROVE  /\ Len(events') = Len(events) + 1 /\ ~readerStalled'
             /\ producer' = next /\ yielded' = yielded
  <2>1. events' = Append(events, event) /\ ~readerStalled'
    BY <1>0, <1>1 DEF Relay
  <2>2. event \in Items
    BY DEF Items
  <2>. QED  BY <1>0, <1>1, <2>1, <2>2, Appended DEF Relay, sourceVars
<1>2. CASE RelayStep
  <2>1. Len(events) <= yielded - 1
    BY <1>0, <1>2 DEF RelayStep, Budget
  <2>2. Len(events') = Len(events) + 1 /\ ~readerStalled' /\ producer' = "iterate" /\ yielded' = yielded
    BY <1>0, <1>1, <1>2, <2>1, FramesTyped DEF RelayStep
  <2>. QED  BY <1>0, <2>1, <2>2 DEF Roomy, Budget
<1>3. CASE RelayAnswer
  <2>1. Len(events) <= yielded
    BY <1>0, <1>3 DEF RelayAnswer, Budget
  <2>2. Len(events') = Len(events) + 1 /\ ~readerStalled' /\ producer' = "relay_done" /\ yielded' = yielded
    BY <1>0, <1>1, <1>3, <2>1, FramesTyped DEF RelayAnswer
  <2>. QED  BY <1>0, <2>1, <2>2 DEF Roomy, Budget
<1>4. CASE RelayDone
  <2>1. Len(events) <= yielded + 1
    BY <1>0, <1>4 DEF RelayDone, Budget
  <2>2. Len(events') = Len(events) + 1 /\ ~readerStalled' /\ producer' = "sentinel" /\ yielded' = yielded
    BY <1>0, <1>1, <1>4, <2>1, FramesTyped DEF RelayDone
  <2>. QED  BY <1>0, <2>1, <2>2 DEF Roomy, Budget
<1>5. CASE LoopYields
  <2>1. yielded' = yielded + 1 /\ producer = "iterate" /\ producer' = "relay_step"
    BY <1>5 DEF LoopYields, Iterate, Yield
  <2>2. UNCHANGED <<readerStalled, events>>
    BY <1>5 DEF LoopYields, Iterate
  <2>. QED  BY <1>0, <2>1, <2>2 DEF Roomy, Budget
<1>6. CASE LoopReturns \/ LoopRaises
  <2>1. /\ UNCHANGED <<yielded, readerStalled, events>>
        /\ producer = "iterate" /\ producer' \in {"record", "sentinel"}
    BY <1>6 DEF LoopReturns, LoopRaises, Iterate, Answer, GiveUp, Raise, Fails
  <2>. QED  BY <1>0, <2>1 DEF Roomy, Budget
<1>7. CASE Commit \/ CommitFails \/ Refresh \/ RefreshFails
  <2>1. /\ UNCHANGED <<yielded, readerStalled, events>>
        /\ producer \in {"record", "refresh"}
        /\ producer' \in {"refresh", "relay_answer", "relay_done", "sentinel"}
    BY <1>7 DEF Commit, CommitFails, Refresh, RefreshFails, Fails, sourceVars
  <2>. QED  BY <1>0, <2>1 DEF Roomy, Budget
<1>8. CASE PutSentinel
  <2>1. Len(events') = Len(events) + 1
    BY <1>0, <1>8, Appended DEF PutSentinel, Items
  <2>. QED  BY <1>0, <1>8, <2>1 DEF PutSentinel, Roomy, Budget, sourceVars
<1>9. CASE Get
  <2>1. Len(events') = Len(events) - 1
    BY <1>0, <1>9, HeadTailProperties DEF Get
  <2>2. UNCHANGED <<yielded, producer, readerStalled>>
    BY <1>9 DEF Get, sourceVars, producerVars
  <2>3. Budget' = Budget
    BY <2>2 DEF Budget
  <2>4. ~readerStalled'
    BY <1>0, <2>2
  <2>5. Len(events') <= Budget'
    <3>. HIDE DEF Budget
    <3>1. Budget \in Int
      BY <1>0 DEF Budget
    <3>. QED  BY <1>0, <2>1, <2>2, <2>3, <3>1
  <2>. QED  BY <2>4, <2>5 DEF Roomy
<1>10. CASE Start
  <2>1. producer = "unborn" /\ producer' = "iterate" /\ UNCHANGED <<yielded, readerStalled, events>>
    BY <1>10 DEF Start, BornOnDemand, sourceVars
  <2>. QED  BY <1>0, <2>1 DEF Roomy, Budget
<1>11. CASE Send \/ Pull \/ Join \/ Close \/ Disconnect
  <2>1. UNCHANGED <<yielded, producer, readerStalled, events>>
    BY <1>11 DEF Send, Pull, Join, Close, Disconnect, sourceVars, producerVars
  <2>. QED  BY <1>0, <2>1 DEF Roomy, Budget
<1>12. CASE Shutdown
  <2>1. UNCHANGED <<yielded, readerStalled, events>> /\ producer' = "killed"
    BY <1>12 DEF Shutdown, sourceVars
  <2>. QED  BY <1>0, <2>1 DEF Roomy, Budget
<1>13. CASE Settled \/ UNCHANGED vars
  <2>1. UNCHANGED <<yielded, producer, readerStalled, events>>
    BY <1>13 DEF Settled, vars, sourceVars, producerVars
  <2>. QED  BY <1>0, <2>1 DEF Roomy, Budget
<1>. QED
  BY <1>2, <1>3, <1>4, <1>5, <1>6, <1>7, <1>8, <1>9, <1>10, <1>11, <1>12, <1>13
  DEF Next, Produce, Read

\* A queue that holds a whole run never blocks its producer: no reader counts
\* as stalled and the sentinel finds room, even if nobody ever reads.
THEOREM AmpleQueueSafe == Spec => []AmpleQueueNeverFills
<1>1. Init => Roomy /\ BornOnDemand
  BY MaxEventsAssumption, EmptySeq DEF Init, SourceInit, Roomy, Budget, BornOnDemand
<1>2. TypeOK /\ (Ample => Roomy) => AmpleQueueNeverFills
  BY QueueSizeAssumption DEF TypeOK, Ample, Roomy, Budget, AmpleQueueNeverFills
<1>. QED  BY <1>1, <1>2, RoomyPreserved, TypeCorrect, BornOnDemandPreserved, PTL DEF Spec

-----------------------------------------------------------------------------
\* What a reader has been shown of the log, and what of it is queued: an error
\* frame and the sentinel only mark the end.
ErrorShown == taken # <<>> /\ taken[Len(taken)] = Error

SentinelQueued == events # <<>> /\ events[Len(events)] = Sentinel

Shown == IF ErrorShown THEN Len(taken) - 1 ELSE Len(taken)

Queued == IF SentinelQueued THEN Len(events) - 1 ELSE Len(events)

\* The i-th event of the run, as far as the loop has come.
Place(i) ==
  IF i <= yielded THEN Step(i)
  ELSE IF i = yielded + 1 /\ phase = "answered" THEN Answered
  ELSE Done

AnswerDue == IF phase = "answered" THEN 1 ELSE 0

\* How many events the producer has relayed, or dropped, by the place it is at.
Due ==
  CASE producer \in {"unborn", "iterate", "record", "refresh", "relay_answer"} -> yielded
    [] producer = "relay_step" -> yielded - 1
    [] producer = "relay_done" -> yielded + AnswerDue
    [] OTHER -> IF failure THEN yielded ELSE yielded + AnswerDue + 1

\* Shown and queued events are the first of the log; unless the reader has
\* stalled, they are all that are due.
InLine ==
  /\ \A i \in 1..Shown : taken[i] = Place(i)
  /\ \A i \in 1..Queued : events[i] = Place(Shown + i)
  /\ Shown + Queued <= Due
  /\ ~readerStalled /\ producer # "killed" => Shown + Queued = Due

\* What the producer's place says of the loop.
InPhase ==
  /\ producer \in {"unborn", "iterate", "relay_step"} => phase = "looping" /\ ~failure
  /\ producer \in {"record", "refresh", "relay_done"} =>
       phase \in {"answered", "unanswered"} /\ ~failure
  /\ producer = "relay_answer" => phase = "answered" /\ ~failure

\* The end of the stream: the sentinel is the thread's last word, and only a
\* reader that has seen it shows an error.
EndInOrder ==
  /\ SentinelQueued => producer = "exited"
  /\ reader \in {"join", "ended"} \/ ErrorShown => events = <<>> /\ producer = "exited"
  /\ reader \in {"unstarted", "get", "join"} => ~ErrorShown
  /\ reader = "ended" /\ failure => ErrorShown
  /\ ErrorShown => failure
  /\ reader \in {"yield", "sent"} => taken # <<>>

Streaming == InLine /\ InPhase /\ EndInOrder

\* The sizes are sizes, and what is counted is of the type it should be.
LEMMA Sizes ==
  ASSUME TypeOK
  PROVE  /\ events \in Seq(Items) /\ taken \in Seq(Frames) /\ taken \in Seq(Items)
         /\ Len(events) \in Nat /\ Len(taken) \in Nat /\ yielded \in Nat
         /\ Shown \in 0..Len(taken) /\ Queued \in 0..Len(events)
         /\ Due \in Int /\ AnswerDue \in {0, 1}
<1>1. events \in Seq(Items) /\ taken \in Seq(Frames) /\ yielded \in Nat
  BY DEF TypeOK, Items
<1>2. taken \in Seq(Items)
  BY <1>1, SeqMonotonic DEF Items
<1>3. Len(events) \in Nat /\ Len(taken) \in Nat
  BY <1>1
<1>4. Shown \in 0..Len(taken)
  BY <1>1, <1>3, EmptySeq DEF Shown, ErrorShown
<1>5. Queued \in 0..Len(events)
  BY <1>1, <1>3, EmptySeq DEF Queued, SentinelQueued
<1>6. AnswerDue \in {0, 1}
  BY DEF AnswerDue
<1>7. Due \in Int
  BY <1>1, <1>6 DEF Due
<1>. QED  BY <1>1, <1>2, <1>3, <1>4, <1>5, <1>6, <1>7

\* An event of the run is a frame, and marks no end.
LEMMA PlaceTyped ==
  ASSUME TypeOK, NEW i \in Nat
  PROVE  Place(i) \in Frames /\ Place(i) # Error /\ Place(i) # Sentinel
<1>1. \A k \in Nat : Step(k) \in Frames /\ Step(k).kind = "step"
  BY FramesTyped DEF Step
<1>2. Place(i) \in Frames /\ Place(i).kind \in {"step", "answer", "done"}
  BY <1>1, FramesTyped DEF Place, Answered, Done
<1>. QED  BY <1>2 DEF Error, Sentinel

\* The producer goes on, without relaying anything: what is in line stays so if
\* none of it is taken for another event, and no more is due than was.
LEMMA LineKept ==
  ASSUME TypeOK, InLine,
         UNCHANGED <<events, taken, readerStalled>>,
         \/ UNCHANGED <<yielded, phase>>
         \/ Due <= yielded /\ yielded <= yielded' /\ yielded' \in Nat,
         producer' # "killed" => producer # "killed" /\ Due' = Due,
         Due <= Due', Due' \in Int
  PROVE  InLine'
<1>1. /\ Shown \in Nat /\ Queued \in Nat /\ Due \in Int
      /\ Shown + Queued <= Due
  BY Sizes DEF InLine
<1>2. Shown' = Shown /\ Queued' = Queued
  BY DEF Shown, Queued, ErrorShown, SentinelQueued
<1>9. ASSUME NEW k \in 1..Due PROVE Place(k)' = Place(k)
  BY <1>1, Sizes DEF Place
<1>3. ASSUME NEW i \in 1..Shown PROVE taken[i] = Place(i)'
  <2>1. i \in 1..Due
    BY <1>1
  <2>. QED  BY <1>9, <2>1 DEF InLine
<1>4. ASSUME NEW i \in 1..Queued PROVE events[i] = Place(Shown + i)'
  <2>1. PICK k \in 1..Due : k = Shown + i
    BY <1>1
  <2>2. Place(k)' = Place(k) /\ events[i] = Place(k)
    BY <1>9, <2>1 DEF InLine
  <2>3. Place(Shown + i)' = Place(k)'
    BY <1>2, <2>1 DEF Place
  <2>. QED  BY <2>2, <2>3
<1>5. Shown + Queued <= Due'
  BY <1>1
<1>6. ~readerStalled /\ producer' # "killed" => Shown + Queued = Due'
  BY DEF InLine
<1>. QED  BY <1>2, <1>3, <1>4, <1>5, <1>6 DEF InLine

\* The producer relays the next event that is due.
LEMMA RelayInLine ==
  ASSUME TypeOK, InLine, EndInOrder, producer \notin {"exited", "killed"},
         NEW event, NEW next, Relay(event, next), next # "killed",
         event = Place(Due + 1), Due' = Due + 1
  PROVE  InLine' /\ ErrorShown' = ErrorShown /\ ~SentinelQueued'
<1>1. UNCHANGED <<taken, yielded, phase>> /\ producer' = next
  BY DEF Relay, sourceVars, readerVars
<1>2. /\ events \in Seq(Items) /\ Len(events) \in Nat
      /\ Shown \in Nat /\ Queued \in Nat /\ Shown + Queued <= Due
      /\ ~readerStalled => Shown + Queued = Due
      /\ Due \in Nat
  BY Sizes DEF InLine
<1>3. ~SentinelQueued /\ Queued = Len(events)
  BY DEF EndInOrder, Queued
<1>4. UNCHANGED <<ErrorShown, Shown>>
  BY <1>1 DEF ErrorShown, Shown
<1>5. \A i \in Nat : Place(i)' = Place(i)
  BY <1>1 DEF Place
<1>6. CASE events' = events /\ readerStalled'
  <2>1. ~SentinelQueued' /\ Queued' = Queued
    BY <1>3, <1>6 DEF SentinelQueued, Queued
  <2>2. ASSUME NEW i \in 1..Queued PROVE events[i] = Place(Shown + i)'
    <3>1. Shown + i \in Nat
      BY <1>2
    <3>. QED  BY <1>1, <1>4, <3>1 DEF InLine, Place
  <2>3. ASSUME NEW i \in 1..Shown PROVE taken[i] = Place(i)'
    BY <1>5 DEF InLine
  <2>4. Shown + Queued <= Due'
    BY <1>2
  <2>. QED  BY <1>1, <1>4, <1>6, <2>1, <2>2, <2>3, <2>4 DEF InLine
<1>7. CASE ~readerStalled /\ events' = Append(events, event)
  <2>1. event \in Items /\ event # Sentinel
    BY <1>2, PlaceTyped DEF Items
  <2>2. /\ Len(events') = Len(events) + 1
        /\ events'[Len(events) + 1] = event
        /\ \A i \in 1..Len(events) : events'[i] = events[i]
    BY <1>2, <1>7, <2>1, Appended
  <2>3. ~SentinelQueued'
    BY <2>1, <2>2 DEF SentinelQueued
  <2>4. Queued' = Queued + 1
    BY <1>3, <2>2, <2>3 DEF Queued
  <2>5. ASSUME NEW i \in 1..(Queued + 1) PROVE events'[i] = Place(Shown + i)'
    <3>0. Place(Shown + i)' = Place(Shown + i)
      BY <1>1, <1>4 DEF Place
    <3>1. CASE i = Queued + 1
      <4>1. Shown + i = Due + 1
        BY <1>2, <1>7, <3>1
      <4>2. events'[i] = event
        BY <1>3, <2>2, <3>1
      <4>. QED  BY <3>0, <4>1, <4>2
    <3>2. CASE i # Queued + 1
      <4>1. i \in 1..Queued
        BY <1>2, <3>2
      <4>. QED  BY <1>3, <2>2, <3>0, <4>1 DEF InLine
    <3>. QED  BY <3>1, <3>2
  <2>6. ASSUME NEW i \in 1..Shown PROVE taken[i] = Place(i)'
    BY <1>5 DEF InLine
  <2>7. Shown + (Queued + 1) = Due'
    BY <1>2, <1>7
  <2>. QED  BY <1>1, <1>4, <2>3, <2>4, <2>5, <2>6, <2>7 DEF InLine
<1>8. \/ events' = events /\ readerStalled'
      \/ ~readerStalled /\ events' = Append(events, event)
  BY DEF Relay
<1>. QED  BY <1>6, <1>7, <1>8

\* A place that relays an event hands it over in order.
LEMMA RelayPreserves ==
  ASSUME TypeOK, Streaming, RelayStep \/ RelayAnswer \/ RelayDone
  PROVE  Streaming'
<1>. USE DEF Streaming
<1>0. yielded \in Nat
  BY DEF TypeOK
<1>1. ASSUME NEW event, NEW next, Relay(event, next), producer \notin {"exited", "killed"},
             next \notin {"exited", "killed"}, event = Place(Due + 1), Due' = Due + 1
      PROVE  InLine' /\ EndInOrder'
  <2>1. UNCHANGED <<reader, failure, taken>> /\ producer' = next
    BY <1>1 DEF Relay, readerVars
  <2>2. InLine' /\ ErrorShown' = ErrorShown /\ ~SentinelQueued'
    BY <1>1, RelayInLine
  <2>3. ~ErrorShown /\ reader \notin {"join", "ended"}
    BY <1>1 DEF EndInOrder
  <2>. QED  BY <2>1, <2>2, <2>3 DEF EndInOrder
<1>2. CASE RelayStep
  <2>1. Relay(Step(yielded), "iterate") /\ producer = "relay_step"
    BY <1>2 DEF RelayStep
  <2>2. producer' = "iterate" /\ UNCHANGED <<yielded, phase, failure>>
    BY <2>1 DEF Relay, sourceVars
  <2>3. Due = yielded - 1 /\ Due' = yielded
    BY <2>1, <2>2 DEF Due
  <2>4. Due + 1 = yielded /\ Due' = Due + 1 /\ Place(yielded) = Step(yielded)
    BY <1>0, <2>3 DEF Place
  <2>5. InPhase'
    BY <2>1, <2>2 DEF InPhase
  <2>. QED  BY <1>1, <2>1, <2>4, <2>5
<1>3. CASE RelayAnswer
  <2>1. Relay(Answered, "relay_done") /\ producer = "relay_answer" /\ phase = "answered"
    BY <1>3 DEF RelayAnswer, InPhase
  <2>2. producer' = "relay_done" /\ UNCHANGED <<yielded, phase, failure>>
    BY <2>1 DEF Relay, sourceVars
  <2>3. Due = yielded /\ Due' = yielded + 1
    BY <2>1, <2>2 DEF Due, AnswerDue
  <2>4. Place(Due + 1) = Answered /\ Due' = Due + 1
    BY <1>0, <2>1, <2>3 DEF Place
  <2>5. InPhase'
    BY <2>1, <2>2 DEF InPhase
  <2>. QED  BY <1>1, <2>1, <2>4, <2>5
<1>4. CASE RelayDone
  <2>1. Relay(Done, "sentinel") /\ producer = "relay_done" /\ ~failure
    BY <1>4 DEF RelayDone, InPhase
  <2>2. producer' = "sentinel" /\ UNCHANGED <<yielded, phase, failure>>
    BY <2>1 DEF Relay, sourceVars
  <2>3. Due = yielded + AnswerDue /\ Due' = yielded + AnswerDue + 1
    BY <2>1, <2>2 DEF Due, AnswerDue
  <2>4. Place(Due + 1) = Done /\ Due' = Due + 1
    BY <1>0, <2>3 DEF Place, AnswerDue
  <2>5. InPhase'
    BY <2>1, <2>2 DEF InPhase
  <2>. QED  BY <1>1, <2>1, <2>4, <2>5
<1>. QED  BY <1>2, <1>3, <1>4

\* The producer goes from one place to another and relays nothing.
LEMMA ProducerPreserves ==
  ASSUME TypeOK, Streaming,
         \/ LoopYields \/ LoopReturns \/ LoopRaises
         \/ Commit \/ CommitFails \/ Refresh \/ RefreshFails
  PROVE  Streaming'
<1>. USE DEF Streaming
<1>0. yielded \in Nat
  BY DEF TypeOK
<1>1. /\ UNCHANGED <<events, taken, reader, readerStalled>>
      /\ producer \in {"iterate", "record", "refresh"}
      /\ producer' \notin {"exited", "killed", "unborn"}
  BY DEF LoopYields, LoopReturns, LoopRaises, Iterate, Commit, CommitFails, Refresh,
         RefreshFails, Fails, readerVars
<1>2. Due = yielded
  BY <1>1 DEF Due
<1>3. /\ yielded' \in Nat /\ yielded <= yielded'
      /\ Due' = yielded
      /\ InPhase'
  <2>1. CASE LoopYields
    <3>1. /\ yielded' = yielded + 1 /\ phase' = phase /\ phase = "looping"
          /\ producer' = "relay_step" /\ failure' = failure /\ producer = "iterate"
      BY <2>1 DEF LoopYields, Iterate, Yield
    <3>2. Due' = yielded
      BY <1>0, <3>1 DEF Due
    <3>. QED  BY <1>0, <3>1, <3>2 DEF InPhase
  <2>2. CASE LoopReturns
    <3>1. /\ yielded' = yielded /\ phase' \in {"answered", "unanswered"}
          /\ producer' = "record" /\ failure' = failure /\ producer = "iterate"
      BY <2>2 DEF LoopReturns, Iterate, Answer, GiveUp
    <3>. QED  BY <1>0, <3>1 DEF Due, InPhase
  <2>3. CASE LoopRaises
    <3>1. yielded' = yielded /\ producer' = "sentinel" /\ failure' = TRUE
      BY <2>3 DEF LoopRaises, Raise, Fails
    <3>. QED  BY <1>0, <3>1 DEF Due, InPhase
  <2>4. CASE CommitFails \/ RefreshFails
    <3>1. UNCHANGED <<yielded, phase>> /\ producer' = "sentinel" /\ failure' = TRUE
      BY <2>4 DEF CommitFails, RefreshFails, Fails, sourceVars
    <3>. QED  BY <1>0, <3>1 DEF Due, InPhase
  <2>5. CASE Commit
    <3>1. UNCHANGED <<yielded, phase, failure>> /\ producer = "record" /\ producer' = "refresh"
      BY <2>5 DEF Commit, sourceVars
    <3>. QED  BY <1>0, <3>1 DEF Due, InPhase
  <2>6. CASE Refresh
    <3>1. /\ UNCHANGED <<yielded, phase, failure>> /\ producer = "refresh"
          /\ producer' = IF phase = "answered" THEN "relay_answer" ELSE "relay_done"
      BY <2>6 DEF Refresh, sourceVars
    <3>2. phase = "unanswered" => AnswerDue' = 0
      BY <3>1 DEF AnswerDue
    <3>. QED  BY <1>0, <3>1, <3>2 DEF Due, InPhase
  <2>. QED  BY <2>1, <2>2, <2>3, <2>4, <2>5, <2>6
<1>4. InLine'
  BY <1>0, <1>1, <1>2, <1>3, LineKept
<1>5. ~ErrorShown /\ ErrorShown' = ErrorShown /\ ~SentinelQueued /\ SentinelQueued' = SentinelQueued
  BY <1>1 DEF EndInOrder, ErrorShown, SentinelQueued
<1>6. reader \notin {"join", "ended"}
  BY <1>1 DEF EndInOrder
<1>. QED  BY <1>1, <1>3, <1>4, <1>5, <1>6 DEF EndInOrder

\* The sentinel ends the queue.
LEMMA SentinelPreserves ==
  ASSUME TypeOK, Streaming, PutSentinel
  PROVE  Streaming'
<1>. USE DEF Streaming
<1>1. /\ UNCHANGED <<yielded, phase, failure, taken, reader, readerStalled>>
      /\ producer = "sentinel" /\ producer' = "exited"
      /\ events' = Append(events, Sentinel)
  BY DEF PutSentinel, sourceVars, readerVars
<1>2. /\ events \in Seq(Items) /\ Len(events) \in Nat /\ Sentinel \in Items
      /\ Shown \in Nat /\ Queued \in Nat
  BY Sizes DEF Items
<1>3. /\ Len(events') = Len(events) + 1
      /\ events'[Len(events) + 1] = Sentinel
      /\ \A i \in 1..Len(events) : events'[i] = events[i]
  BY <1>1, <1>2, Appended
<1>4. ~SentinelQueued /\ Queued = Len(events)
  BY <1>1 DEF EndInOrder, Queued
<1>5. SentinelQueued' /\ Queued' = Queued
  <2>1. events' # <<>>
    BY <1>2, <1>3, EmptySeq
  <2>. QED  BY <1>2, <1>3, <1>4, <2>1 DEF SentinelQueued, Queued
<1>6. ErrorShown' = ErrorShown /\ Shown' = Shown /\ ~ErrorShown
  BY <1>1 DEF ErrorShown, Shown, EndInOrder
<1>7. Due' = Due
  BY <1>1 DEF Due, AnswerDue
<1>8. \A i \in Nat : Place(i)' = Place(i)
  BY <1>1 DEF Place
<1>9. ASSUME NEW i \in 1..Queued PROVE events'[i] = Place(Shown + i)'
  <2>1. Shown + i \in Nat /\ events'[i] = events[i]
    BY <1>2, <1>3, <1>4
  <2>2. Place(Shown + i)' = Place(Shown + i)
    BY <1>1, <1>6 DEF Place
  <2>. QED  BY <2>1, <2>2 DEF InLine
<1>10. ASSUME NEW i \in 1..Shown PROVE taken[i] = Place(i)'
  BY <1>8 DEF InLine
<1>11. InLine'
  BY <1>1, <1>5, <1>6, <1>7, <1>9, <1>10 DEF InLine
<1>12. InPhase'
  BY <1>1 DEF InPhase
<1>13. EndInOrder'
  BY <1>1, <1>5, <1>6 DEF EndInOrder
<1>. QED  BY <1>11, <1>12, <1>13

\* The reader takes the first item of the queue.
LEMMA GetPreserves ==
  ASSUME TypeOK, Streaming, Get
  PROVE  Streaming'
<1>. USE DEF Streaming
<1>1. /\ UNCHANGED <<yielded, phase, failure, producer, readerStalled>>
      /\ reader = "get" /\ events # <<>> /\ events' = Tail(events)
  BY DEF Get, sourceVars, producerVars
<1>2. /\ events \in Seq(Items) /\ Len(events) \in Nat \ {0} /\ taken \in Seq(Items)
      /\ Len(taken) \in Nat /\ Shown \in Nat /\ Queued \in 0..Len(events)
  BY <1>1, Sizes, EmptySeq
<1>3. /\ Head(events) = events[1] /\ events[1] \in Items
      /\ Len(events') = Len(events) - 1
      /\ \A i \in 1..Len(events') : events'[i] = events[i + 1]
      /\ events' \in Seq(Items)
  BY <1>1, <1>2, HeadTailProperties
<1>4. ~ErrorShown /\ Shown = Len(taken)
  BY <1>1 DEF EndInOrder, Shown
<1>5. \A i \in Nat : Place(i)' = Place(i)
  BY <1>1 DEF Place
<1>6. Due' = Due /\ InPhase'
  BY <1>1 DEF Due, AnswerDue, InPhase
<1>7. CASE events[1] = Sentinel
  <2>1. reader' = "join" /\ taken' = taken
    BY <1>3, <1>7 DEF Get
  <2>2. ~(1 <= Queued)
    <3>1. ASSUME 1 <= Queued PROVE FALSE
      <4>1. 1 \in 1..Queued /\ Shown + 1 \in Nat
        BY <1>2, <3>1
      <4>2. events[1] = Place(Shown + 1)
        BY <4>1 DEF InLine
      <4>. QED  BY <1>7, <4>1, <4>2, PlaceTyped
    <3>. QED  BY <3>1
  <2>3. Queued = 0 /\ SentinelQueued /\ Len(events) = 1
    <3>1. Queued = 0
      BY <1>2, <2>2
    <3>2. SentinelQueued
      BY <1>2, <3>1 DEF Queued
    <3>. QED  BY <1>2, <3>1, <3>2 DEF Queued
  <2>4. events' = <<>> /\ producer = "exited"
    BY <1>2, <1>3, <2>3, EmptySeq DEF EndInOrder
  <2>5. ~SentinelQueued' /\ Queued' = 0
    BY <1>3, <2>3, <2>4 DEF SentinelQueued, Queued
  <2>6. ErrorShown' = ErrorShown /\ Shown' = Shown
    BY <2>1 DEF ErrorShown, Shown
  <2>7. ASSUME NEW i \in 1..Shown PROVE taken[i] = Place(i)'
    BY <1>2, <1>5 DEF InLine
  <2>8. Shown + 0 = Shown + Queued
    BY <2>3
  <2>9. InLine'
    BY <1>1, <1>6, <2>1, <2>5, <2>6, <2>7, <2>8 DEF InLine
  <2>10. EndInOrder'
    BY <1>1, <1>4, <2>1, <2>4, <2>5, <2>6 DEF EndInOrder
  <2>. QED  BY <1>6, <2>9, <2>10
<1>8. CASE events[1] # Sentinel
  <2>1. reader' = "yield" /\ taken' = Append(taken, events[1])
    BY <1>3, <1>8 DEF Get
  <2>2. /\ Len(taken') = Len(taken) + 1
        /\ taken'[Len(taken) + 1] = events[1]
        /\ \A i \in 1..Len(taken) : taken'[i] = taken[i]
    BY <1>2, <1>3, <2>1, Appended
  <2>3. 1 \in 1..Queued /\ Shown + 1 \in Nat
    <3>1. Queued # 0
      BY <1>2, <1>8 DEF Queued, SentinelQueued
    <3>. QED  BY <1>2, <3>1
  <2>4. events[1] = Place(Shown + 1) /\ events[1] # Error
    BY <2>3, PlaceTyped DEF InLine
  <2>5. ~ErrorShown' /\ Shown' = Shown + 1
    BY <1>4, <2>2, <2>4 DEF ErrorShown, Shown
  <2>6. SentinelQueued' = SentinelQueued /\ Queued' = Queued - 1
    <3>1. CASE Len(events) = 1
      <4>1. events' = <<>> /\ Len(events') = 0 /\ ~SentinelQueued
        BY <1>2, <1>3, <1>8, <3>1, EmptySeq DEF SentinelQueued
      <4>. QED  BY <3>1, <4>1 DEF SentinelQueued, Queued
    <3>2. CASE Len(events) # 1
      <4>1. Len(events') \in 1..Len(events') /\ Len(events') + 1 = Len(events)
        BY <1>2, <1>3, <3>2
      <4>2. events' # <<>> /\ events'[Len(events')] = events[Len(events)]
        BY <1>3, <4>1, EmptySeq
      <4>3. SentinelQueued' <=> SentinelQueued
        BY <1>1, <4>2 DEF SentinelQueued
      <4>. QED  BY <1>2, <1>3, <4>3 DEF Queued, SentinelQueued
    <3>. QED  BY <3>1, <3>2
  <2>7. ASSUME NEW i \in 1..(Shown + 1) PROVE taken'[i] = Place(i)'
    <3>1. CASE i = Shown + 1
      BY <1>4, <1>5, <2>2, <2>3, <2>4, <3>1
    <3>2. CASE i # Shown + 1
      <4>1. i \in 1..Shown /\ i \in Nat
        BY <1>2, <3>2
      <4>. QED  BY <1>4, <1>5, <2>2, <4>1 DEF InLine
    <3>. QED  BY <3>1, <3>2
  <2>8. ASSUME NEW i \in 1..(Queued - 1) PROVE events'[i] = Place(Shown + i)'
    <3>1. i + 1 \in 1..Queued /\ (Shown + 1) + i = Shown + (i + 1) /\ Shown + (i + 1) \in Nat
      BY <1>2
    <3>2. i \in 1..Len(events')
      BY <1>2, <1>3
    <3>3. events'[i] = events[i + 1]
      BY <1>3, <3>2
    <3>4. events[i + 1] = Place(Shown + (i + 1))
      BY <3>1 DEF InLine
    <3>5. Shown' + i = Shown + (i + 1)
      BY <2>5, <3>1
    <3>6. Place(Shown + i)' = Place(Shown + (i + 1))
      BY <1>1, <3>5 DEF Place
    <3>. QED  BY <3>3, <3>4, <3>6
  <2>9. (Shown + 1) + (Queued - 1) = Shown + Queued
    BY <1>2
  <2>10. InLine'
    BY <1>1, <1>6, <2>5, <2>6, <2>7, <2>8, <2>9 DEF InLine
  <2>11. EndInOrder'
    BY <1>1, <2>1, <2>5, <2>6 DEF EndInOrder
  <2>. QED  BY <1>6, <2>10, <2>11
<1>. QED  BY <1>7, <1>8

\* The thread is joined, and its exception shown.
LEMMA JoinPreserves ==
  ASSUME TypeOK, Streaming, Join
  PROVE  Streaming'
<1>. USE DEF Streaming
<1>1. /\ UNCHANGED <<yielded, phase, failure, producer, readerStalled, events>>
      /\ reader = "join" /\ events = <<>> /\ producer = "exited"
  BY DEF Join, sourceVars, producerVars, EndInOrder
<1>2. taken \in Seq(Frames) /\ Len(taken) \in Nat /\ ~ErrorShown /\ Shown = Len(taken)
  BY <1>1, Sizes DEF EndInOrder, Shown
<1>3. \A i \in Nat : Place(i)' = Place(i)
  BY <1>1 DEF Place
<1>4. Due' = Due /\ InPhase' /\ Queued' = Queued /\ SentinelQueued' = SentinelQueued
  BY <1>1 DEF Due, AnswerDue, InPhase, Queued, SentinelQueued
<1>5. Shown' = Shown /\ \A i \in 1..Shown : taken'[i] = taken[i]
  <2>1. CASE failure
    <3>1. taken' = Append(taken, Error)
      BY <2>1 DEF Join
    <3>2. /\ Len(taken') = Len(taken) + 1
          /\ taken'[Len(taken) + 1] = Error
          /\ \A i \in 1..Len(taken) : taken'[i] = taken[i]
      BY <1>2, <3>1, FramesTyped, Appended
    <3>3. taken' # <<>>
      BY <1>2, <3>2, EmptySeq
    <3>. QED  BY <1>2, <3>2, <3>3 DEF Shown, ErrorShown
  <2>2. CASE ~failure
    <3>1. taken' = taken
      BY <2>2 DEF Join
    <3>. QED  BY <3>1 DEF Shown, ErrorShown
  <2>. QED  BY <2>1, <2>2
<1>6. failure <=> ErrorShown'
  <2>1. CASE failure
    <3>1. taken' = Append(taken, Error)
      BY <2>1 DEF Join
    <3>2. Len(taken') = Len(taken) + 1 /\ taken'[Len(taken) + 1] = Error
      BY <1>2, <3>1, FramesTyped, Appended
    <3>3. taken' # <<>>
      BY <1>2, <3>2, EmptySeq
    <3>. QED  BY <2>1, <3>2, <3>3 DEF ErrorShown
  <2>2. CASE ~failure
    <3>1. taken' = taken
      BY <2>2 DEF Join
    <3>. QED  BY <1>2, <2>2, <3>1 DEF ErrorShown
  <2>. QED  BY <2>1, <2>2
<1>7. ASSUME NEW i \in 1..Shown PROVE taken'[i] = Place(i)'
  BY <1>2, <1>3, <1>5 DEF InLine
<1>8. ASSUME NEW i \in 1..Queued PROVE events'[i] = Place(Shown + i)'
  <2>1. Place(Shown + i)' = Place(Shown + i)
    BY <1>1, <1>5 DEF Place
  <2>. QED  BY <1>1, <2>1 DEF InLine
<1>9. InLine'
  BY <1>1, <1>4, <1>5, <1>7, <1>8 DEF InLine
<1>10. reader' = IF failure THEN "yield" ELSE "ended"
  BY DEF Join
<1>11. EndInOrder'
  BY <1>1, <1>4, <1>6, <1>10 DEF EndInOrder, ErrorShown
<1>. QED  BY <1>4, <1>9, <1>11

\* The process stops.
LEMMA ShutdownPreserves ==
  ASSUME TypeOK, Streaming, Shutdown
  PROVE  Streaming'
<1>. USE DEF Streaming
<1>1. /\ UNCHANGED <<yielded, phase, failure, taken, readerStalled, events>>
      /\ producer \notin {"exited", "killed"} /\ producer' = "killed"
  BY DEF Shutdown, sourceVars
<1>2. yielded \in Nat /\ AnswerDue \in {0, 1} /\ AnswerDue' = AnswerDue
  BY <1>1, Sizes DEF AnswerDue
<1>3. Due' = IF failure THEN yielded ELSE yielded + AnswerDue + 1
  BY <1>1, <1>2 DEF Due
<1>4. Due <= Due'
  BY <1>1, <1>2, <1>3 DEF Due, InPhase, TypeOK
<1>5. InLine'
  BY <1>1, <1>2, <1>3, <1>4, LineKept DEF Place
<1>6. ~ErrorShown /\ ~SentinelQueued /\ reader \notin {"join", "ended"}
  BY <1>1 DEF EndInOrder
<1>7. ErrorShown' = ErrorShown /\ SentinelQueued' = SentinelQueued /\ reader' = "closed"
  BY <1>1, <1>6 DEF ErrorShown, SentinelQueued, Shutdown
<1>8. EndInOrder'
  BY <1>6, <1>7 DEF EndInOrder
<1>. QED  BY <1>1, <1>5, <1>8 DEF InPhase

LEMMA StreamingPreserved == TypeOK /\ BornOnDemand /\ Streaming /\ [Next]_vars => Streaming'
<1>. SUFFICES ASSUME TypeOK, BornOnDemand, Streaming, [Next]_vars PROVE Streaming'
  OBVIOUS
<1>0. Due \in Int
  BY Sizes
<1>1. CASE Start
  <2>1. /\ UNCHANGED <<yielded, phase, failure, taken, readerStalled, events>>
        /\ reader = "unstarted" /\ reader' = "get"
        /\ producer = "unborn" /\ producer' = "iterate"
    BY <1>1 DEF Start, sourceVars, BornOnDemand
  <2>2. Due' = Due
    BY <2>1 DEF Due
  <2>3. InLine'
    BY <1>0, <2>1, <2>2, LineKept DEF Place, Streaming
  <2>4. ErrorShown' = ErrorShown /\ SentinelQueued' = SentinelQueued
    BY <2>1 DEF ErrorShown, SentinelQueued
  <2>. QED  BY <2>1, <2>3, <2>4 DEF Streaming, InPhase, EndInOrder
<1>2. ASSUME UNCHANGED <<yielded, phase, failure, taken, readerStalled, events, producer>>,
             \/ reader' \in {reader, "closed"}
             \/ reader = "yield" /\ reader' = "sent"
             \/ reader = "sent" /\ reader' = IF ErrorShown THEN "ended" ELSE "get"
      PROVE  Streaming'
  <2>1. Due' = Due
    BY <1>2 DEF Due, AnswerDue
  <2>2. InLine'
    BY <1>0, <1>2, <2>1, LineKept DEF Place, Streaming
  <2>3. ErrorShown' = ErrorShown /\ SentinelQueued' = SentinelQueued
    BY <1>2 DEF ErrorShown, SentinelQueued
  <2>4. EndInOrder'
    BY <1>2, <2>3 DEF Streaming, EndInOrder
  <2>. QED  BY <1>2, <2>2, <2>4 DEF Streaming, InPhase
<1>3. CASE Send \/ Close \/ Disconnect \/ Settled \/ UNCHANGED vars
  BY <1>2, <1>3 DEF Send, Close, Disconnect, Settled, vars, sourceVars, producerVars, readerVars
<1>4. CASE Pull
  <2>1. reader = "sent" /\ taken # <<>>
    BY <1>4 DEF Pull, Streaming, EndInOrder
  <2>2. reader' = IF ErrorShown THEN "ended" ELSE "get"
    BY <1>4, <2>1 DEF Pull, Last, ErrorShown
  <2>3. UNCHANGED <<yielded, phase, failure, taken, readerStalled, events, producer>>
    BY <1>4 DEF Pull, sourceVars, producerVars
  <2>. QED  BY <1>2, <2>1, <2>2, <2>3
<1>. QED
  BY <1>1, <1>3, <1>4, RelayPreserves, ProducerPreserves, SentinelPreserves, GetPreserves,
     JoinPreserves, ShutdownPreserves
  DEF Next, Produce, Read

LEMMA StreamingInvariant == Spec => [](TypeOK /\ Streaming)
<1>1. Init => Streaming /\ BornOnDemand
  <2>. SUFFICES ASSUME Init PROVE Streaming /\ BornOnDemand
    OBVIOUS
  <2>1. /\ phase = "looping" /\ yielded = 0 /\ producer = "unborn" /\ ~readerStalled
        /\ ~failure /\ events = <<>> /\ reader = "unstarted" /\ taken = <<>>
    BY DEF Init, SourceInit
  <2>2. Len(events) = 0 /\ Len(taken) = 0
    BY <2>1
  <2>3. ~ErrorShown /\ ~SentinelQueued /\ Shown = 0 /\ Queued = 0 /\ Due = 0
    BY <2>1, <2>2 DEF ErrorShown, SentinelQueued, Shown, Queued, Due
  <2>4. InLine
    BY <2>3 DEF InLine
  <2>. QED  BY <2>1, <2>3, <2>4 DEF Streaming, InPhase, EndInOrder, BornOnDemand
<1>. QED
  BY <1>1, TypeCorrect, StreamingPreserved, BornOnDemandPreserved, PTL DEF Spec

\* The log by its places: as long as what is due in the end, and ended by an
\* error frame if the run failed.
LEMMA LogByPlace ==
  ASSUME TypeOK
  PROVE  LET length == IF failure THEN yielded ELSE yielded + AnswerDue + 1
         IN  /\ Log \in Seq(Frames)
             /\ Len(Log) = IF failure THEN length + 1 ELSE length
             /\ \A i \in 1..length : Log[i] = Place(i)
             /\ failure => Log[length + 1] = Error
<1>. DEFINE steps == [i \in 1..yielded |-> Step(i)]
            last == IF failure THEN <<Error>>
                    ELSE IF phase = "answered" THEN <<Answered, Done>> ELSE <<Done>>
<1>1. yielded \in Nat /\ AnswerDue \in {0, 1}
  BY Sizes
<1>2. steps \in Seq(Frames) /\ Len(steps) = yielded /\ \A i \in 1..yielded : steps[i] = Step(i)
  BY <1>1, FramesTyped
<1>3. /\ last \in Seq(Frames)
      /\ Len(last) = IF failure THEN 1 ELSE AnswerDue + 1
      /\ failure => last[1] = Error
      /\ ~failure /\ phase = "answered" => last[1] = Answered /\ last[2] = Done
      /\ ~failure /\ phase # "answered" => last[1] = Done
  BY FramesTyped DEF AnswerDue
<1>4. Log = steps \o last
  BY DEF Log
<1>. HIDE DEF steps, last
<1>5. /\ Log \in Seq(Frames)
      /\ Len(Log) = yielded + Len(last)
      /\ \A i \in 1..yielded : Log[i] = Step(i)
      /\ \A i \in 1..Len(last) : Log[yielded + i] = last[i]
  <2>1. /\ steps \o last \in Seq(Frames) /\ Len(steps \o last) = Len(steps) + Len(last)
        /\ \A i \in 1..(Len(steps) + Len(last)) :
             (steps \o last)[i] = IF i <= Len(steps) THEN steps[i] ELSE last[i - Len(steps)]
    BY <1>2, <1>3, ConcatProperties
  <2>2. Len(last) \in Nat
    BY <1>3
  <2>3. ASSUME NEW i \in 1..yielded PROVE Log[i] = Step(i)
    BY <1>1, <1>2, <1>4, <2>1, <2>2
  <2>4. ASSUME NEW i \in 1..Len(last) PROVE Log[yielded + i] = last[i]
    <3>1. yielded + i \in 1..(yielded + Len(last)) /\ ~(yielded + i <= yielded) /\ (yielded + i) - yielded = i
      BY <1>1, <2>2
    <3>. QED  BY <1>2, <1>4, <2>1, <3>1
  <2>. QED  BY <1>2, <1>4, <2>1, <2>3, <2>4
<1>6. CASE failure
  BY <1>1, <1>3, <1>5, <1>6 DEF Place
<1>7. CASE ~failure /\ phase = "answered"
  <2>1. AnswerDue = 1 /\ Len(last) = 2
    BY <1>3, <1>7 DEF AnswerDue
  <2>2. Log[yielded + 1] = Answered /\ Log[yielded + 2] = Done
    BY <1>3, <1>5, <1>7, <2>1
  <2>3. ASSUME NEW i \in 1..(yielded + 2) PROVE Log[i] = Place(i)
    <3>1. i \in 1..yielded \/ i = yielded + 1 \/ i = yielded + 2
      BY <1>1
    <3>. QED  BY <1>1, <1>5, <1>7, <2>2, <3>1 DEF Place
  <2>. QED  BY <1>1, <1>5, <1>7, <2>1, <2>3
<1>8. CASE ~failure /\ phase # "answered"
  <2>1. AnswerDue = 0 /\ Len(last) = 1
    BY <1>3, <1>8 DEF AnswerDue
  <2>2. Log[yielded + 1] = Done
    BY <1>3, <1>5, <1>8, <2>1
  <2>3. ASSUME NEW i \in 1..(yielded + 1) PROVE Log[i] = Place(i)
    <3>1. i \in 1..yielded \/ i = yielded + 1
      BY <1>1
    <3>. QED  BY <1>1, <1>5, <1>8, <2>2, <3>1 DEF Place
  <2>. QED  BY <1>1, <1>5, <1>8, <2>1, <2>3
<1>. QED  BY <1>6, <1>7, <1>8

\* What is shown and queued is what the pipeline holds, an error frame left out.
LEMMA PipelineByPlace ==
  ASSUME TypeOK, Streaming
  PROVE  LET cut == Pipeline # <<>> /\ Last(Pipeline) = Error
             length == IF cut THEN Len(Pipeline) - 1 ELSE Len(Pipeline)
         IN  /\ cut <=> ErrorShown
             /\ length = Shown + Queued
             /\ \A i \in 1..length : Pipeline[i] = Place(i)
<1>. DEFINE front == IF SentinelQueued THEN SubSeq(events, 1, Len(events) - 1) ELSE events
<1>1. /\ events \in Seq(Items) /\ taken \in Seq(Items)
      /\ Len(events) \in Nat /\ Len(taken) \in Nat
      /\ Shown \in 0..Len(taken) /\ Queued \in 0..Len(events)
  BY Sizes
<1>2. front \in Seq(Items) /\ Len(front) = Queued /\ \A i \in 1..Queued : front[i] = events[i]
  <2>1. CASE SentinelQueued
    <3>1. Len(events) - 1 \in Nat /\ Queued = Len(events) - 1
      BY <1>1, <2>1 DEF Queued
    <3>. QED  BY <1>1, <2>1, <3>1, SubSeqProperties
  <2>2. CASE ~SentinelQueued
    BY <1>1, <2>2 DEF Queued
  <2>. QED  BY <2>1, <2>2
<1>3. Pipeline = taken \o front
  BY DEF Pipeline, Last, SentinelQueued
<1>. HIDE DEF front
<1>4. /\ Pipeline \in Seq(Items) /\ Len(Pipeline) = Len(taken) + Queued
      /\ \A i \in 1..(Len(taken) + Queued) :
           Pipeline[i] = IF i <= Len(taken) THEN taken[i] ELSE front[i - Len(taken)]
  <2>1. /\ taken \o front \in Seq(Items)
        /\ Len(taken \o front) = Len(taken) + Len(front)
        /\ \A i \in 1..(Len(taken) + Len(front)) :
             (taken \o front)[i] = IF i <= Len(taken) THEN taken[i] ELSE front[i - Len(taken)]
    BY <1>1, <1>2, ConcatProperties
  <2>. QED  BY <1>2, <1>3, <2>1
<1>5. CASE ErrorShown
  <2>1. Queued = 0 /\ Shown = Len(taken) - 1 /\ Len(taken) > 0 /\ taken[Len(taken)] = Error
    <3>1. events = <<>> /\ taken # <<>> /\ taken[Len(taken)] = Error
      BY <1>5 DEF Streaming, EndInOrder, ErrorShown
    <3>. QED  BY <1>1, <1>5, <3>1, EmptySeq DEF Shown
  <2>2. Pipeline # <<>> /\ Last(Pipeline) = Error
    <3>1. Len(Pipeline) = Len(taken)
      BY <1>1, <1>4, <2>1
    <3>2. Pipeline[Len(taken)] = Error
      BY <1>1, <1>4, <2>1
    <3>. QED  BY <2>1, <3>1, <3>2, EmptySeq DEF Last
  <2>3. ASSUME NEW i \in 1..Shown PROVE Pipeline[i] = Place(i)
    <3>1. i \in 1..(Len(taken) + Queued) /\ i <= Len(taken)
      BY <1>1, <2>1
    <3>2. taken[i] = Place(i)
      BY DEF Streaming, InLine
    <3>. QED  BY <1>4, <3>1, <3>2
  <2>. QED  BY <1>1, <1>4, <1>5, <2>1, <2>2, <2>3
<1>6. CASE ~ErrorShown
  <2>1. Shown = Len(taken)
    BY <1>6 DEF Shown
  <2>2. ASSUME NEW i \in 1..(Shown + Queued) PROVE Pipeline[i] = Place(i)
    <3>1. CASE i \in 1..Shown
      <4>1. taken[i] = Place(i)
        BY <3>1 DEF Streaming, InLine
      <4>. QED  BY <1>1, <1>4, <2>1, <3>1, <4>1
    <3>2. CASE i \notin 1..Shown
      <4>1. PICK k \in 1..Queued : i = Shown + k
        <5>1. i - Shown \in 1..Queued /\ i = Shown + (i - Shown)
          BY <1>1, <3>2
        <5>. QED  BY <5>1
      <4>2. events[k] = Place(Shown + k)
        BY DEF Streaming, InLine
      <4>3. Pipeline[i] = front[k]
        BY <1>1, <1>4, <2>1, <4>1
      <4>. QED  BY <1>2, <4>1, <4>2, <4>3
    <3>. QED  BY <3>1, <3>2
  <2>3. ~(Pipeline # <<>> /\ Last(Pipeline) = Error)
    <3>1. ASSUME Pipeline # <<>> PROVE Last(Pipeline) # Error
      <4>1. Len(Pipeline) \in 1..(Shown + Queued) /\ Len(Pipeline) \in Nat
        BY <1>1, <1>4, <2>1, <3>1, EmptySeq
      <4>. QED  BY <2>2, <4>1, PlaceTyped DEF Last
    <3>. QED  BY <3>1
  <2>. QED  BY <1>1, <1>4, <1>6, <2>1, <2>2, <2>3
<1>. QED  BY <1>5, <1>6

\* The client is shown the run's log from its beginning and without a gap,
\* whenever it reads, and wherever a stall or a failure cuts the log off.
THEOREM NoGap == Spec => []FramesWithoutGap
<1>1. TypeOK /\ Streaming => FramesWithoutGap
  <2>. SUFFICES ASSUME TypeOK, Streaming PROVE FramesWithoutGap
    OBVIOUS
  <2>. DEFINE whole == IF failure THEN yielded ELSE yielded + AnswerDue + 1
  <2>1. yielded \in Nat /\ AnswerDue \in {0, 1} /\ Shown + Queued \in Nat
    BY Sizes
  <2>2. Shown + Queued <= whole
    <3>1. Shown + Queued <= Due
      BY DEF Streaming, InLine
    <3>2. Due \in Int /\ Due <= whole
      BY <2>1, Sizes DEF Due, Streaming, InPhase, TypeOK
    <3>. QED  BY <2>1, <3>1, <3>2
  <2>3. /\ Len(Log) = IF failure THEN whole + 1 ELSE whole
        /\ \A i \in 1..whole : Log[i] = Place(i)
    BY LogByPlace
  <2>4. ErrorShown => failure
    BY DEF Streaming, EndInOrder
  <2>5. whole \in Nat
    BY <2>1
  <2>. HIDE DEF whole
  <2>6. Shown + Queued <= Len(Log)
    BY <2>1, <2>2, <2>3, <2>5
  <2>7. ASSUME NEW i \in 1..(Shown + Queued) PROVE Log[i] = Place(i)
    BY <2>1, <2>2, <2>3, <2>5
  <2>. QED  BY <2>4, <2>6, <2>7, PipelineByPlace DEF FramesWithoutGap
<1>. QED  BY <1>1, StreamingInvariant, PTL

\* A client that reads to the end, and never lets the queue stay full, was
\* shown the whole log, with the frame that ends it.
THEOREM CompleteAtEnd == Spec => []UnstalledStreamIsComplete
<1>1. TypeOK /\ Streaming => UnstalledStreamIsComplete
  <2>. SUFFICES ASSUME TypeOK, Streaming, reader = "ended", ~readerStalled PROVE taken = Log
    BY DEF UnstalledStreamIsComplete
  <2>. DEFINE whole == IF failure THEN yielded ELSE yielded + AnswerDue + 1
  <2>1. events = <<>> /\ producer = "exited" /\ (ErrorShown <=> failure)
    BY DEF Streaming, EndInOrder
  <2>2. Due = whole /\ Queued = 0 /\ whole \in Nat
    BY <2>1, Sizes, EmptySeq DEF Due, Queued, SentinelQueued
  <2>3. /\ Log \in Seq(Frames)
        /\ Len(Log) = IF failure THEN whole + 1 ELSE whole
        /\ \A i \in 1..whole : Log[i] = Place(i)
        /\ failure => Log[whole + 1] = Error
    BY LogByPlace
  <2>. HIDE DEF whole
  <2>4. Shown = whole
    <3>1. Shown + Queued = Due
      BY <2>1 DEF Streaming, InLine
    <3>. QED  BY <2>2, <3>1, Sizes
  <2>5. taken \in Seq(Frames) /\ Len(taken) = Len(Log)
    BY <2>1, <2>2, <2>3, <2>4, Sizes DEF Shown
  <2>6. ASSUME NEW i \in 1..Len(taken) PROVE taken[i] = Log[i]
    <3>1. CASE i \in 1..whole
      BY <2>3, <2>4, <3>1 DEF Streaming, InLine
    <3>2. CASE i \notin 1..whole
      <4>1. failure /\ i = whole + 1 /\ i = Len(taken)
        BY <2>2, <2>3, <2>5, <3>2
      <4>. QED  BY <2>1, <2>3, <4>1 DEF ErrorShown
    <3>. QED  BY <3>1, <3>2
  <2>. QED  BY <2>3, <2>5, <2>6, SeqEqual
<1>. QED  BY <1>1, StreamingInvariant, PTL

-----------------------------------------------------------------------------
\* The refinement of the ledger, of one run.

\* What has become of the run, as the ledger has it.
Life ==
  [r \in {"run"} |->
     CASE recorded -> "billed"
       [] failure /\ ~recorded -> "failed"
       [] ~failure /\ ~recorded /\ phase # "looping" -> "finished"
       [] ~failure /\ ~recorded /\ phase = "looping" /\ producer = "unborn" -> "asked"
       [] OTHER -> "underway"]

\* What a run costs is left to Accounting; here it is one account throughout.
Account == [r \in {"run"} |-> "account"]

SameAccount(account) == {account}

Entries == IF recorded THEN <<[run |-> "run", account |-> "account"]>> ELSE <<>>

HasResult(frames) == \E i \in 1..Len(frames) : frames[i].kind \in {"answer", "done"}

Told == {r \in {"run"} : HasResult(taken) \/ HasResult(events)}

TheLedger ==
  INSTANCE Ledger WITH
    Runs <- {"run"}, Nothing <- "account", Charged <- SameAccount,
    life <- Life, spent <- Account, entries <- Entries, answered <- Told

\* The row is not written before the loop is over.
NotYet == producer \in {"unborn", "iterate", "relay_step", "record"} => ~recorded

LEMMA NotYetPreserved == BornOnDemand /\ NotYet /\ [Next]_vars => NotYet'
<1>. SUFFICES ASSUME BornOnDemand, NotYet, [Next]_vars PROVE NotYet'
  OBVIOUS
<1>1. CASE Produce
  BY <1>1 DEF Produce, LoopYields, LoopReturns, LoopRaises, Iterate, RelayStep, Commit, CommitFails,
    Refresh, RefreshFails, Fails, RelayAnswer, RelayDone, PutSentinel, Relay, NotYet
<1>2. CASE Read
  BY <1>2 DEF Read, Start, Get, Send, Pull, Join, Close, producerVars, BornOnDemand, NotYet
<1>3. CASE Disconnect \/ Shutdown \/ Settled \/ UNCHANGED vars
  BY <1>3 DEF Disconnect, Shutdown, Settled, vars, producerVars, NotYet
<1>. QED  BY <1>1, <1>2, <1>3 DEF Next

\* What was told stays told: a frame moves from the queue to the client.
LEMMA ToldGrows == TypeOK /\ [Next]_vars => Told \subseteq Told'
<1>. SUFFICES ASSUME TypeOK, [Next]_vars, HasResult(taken) \/ HasResult(events)
              PROVE  HasResult(taken') \/ HasResult(events')
  BY DEF Told
<1>0. events \in Seq(Items) /\ taken \in Seq(Frames)
  BY DEF TypeOK, Items
<1>1. ASSUME NEW S, NEW q \in Seq(S), NEW e \in S, HasResult(q) PROVE HasResult(Append(q, e))
  <2>1. PICK i \in 1..Len(q) : q[i].kind \in {"answer", "done"}
    BY <1>1 DEF HasResult
  <2>2. i \in 1..Len(Append(q, e)) /\ Append(q, e)[i] = q[i]
    BY <2>1, Appended
  <2>. QED  BY <2>1, <2>2 DEF HasResult
<1>2. CASE taken' = taken /\ events' = events
  BY <1>2
<1>3. ASSUME taken' = taken, NEW e \in Items, events' = Append(events, e)
      PROVE  HasResult(taken') \/ HasResult(events')
  BY <1>0, <1>1, <1>3
<1>4. CASE Get
  <2>1. events # <<>> /\ events' = Tail(events)
    BY <1>4 DEF Get
  <2>2. /\ Head(events) = events[1] /\ events[1] \in Items /\ Len(events) \in Nat \ {0}
        /\ Len(Tail(events)) = Len(events) - 1
        /\ \A i \in 1..Len(Tail(events)) : Tail(events)[i] = events[i + 1]
    BY <1>0, <2>1, EmptySeq, HeadTailProperties
  <2>3. CASE HasResult(taken)
    <3>1. taken' = taken \/ (taken' = Append(taken, events[1]) /\ events[1] \in Frames)
      BY <1>4, <2>2 DEF Get, Items
    <3>. QED  BY <1>0, <1>1, <2>3, <3>1
  <2>4. CASE HasResult(events)
    <3>1. PICK i \in 1..Len(events) : events[i].kind \in {"answer", "done"}
      BY <2>4 DEF HasResult
    <3>2. CASE i = 1
      <4>1. Sentinel.kind = "sentinel"
        BY DEF Sentinel
      <4>2. events[1] # Sentinel
        BY <3>1, <3>2, <4>1
      <4>3. taken' = Append(taken, events[1]) /\ events[1] \in Frames
        BY <1>4, <2>2, <4>2 DEF Get, Items
      <4>4. taken'[Len(taken) + 1] = events[1] /\ Len(taken) + 1 \in 1..Len(taken')
        BY <1>0, <4>3
      <4>. QED  BY <3>1, <3>2, <4>4 DEF HasResult
    <3>3. CASE i # 1
      <4>1. i - 1 \in 1..Len(Tail(events)) /\ Tail(events)[i - 1] = events[i]
        BY <2>2, <3>1, <3>3
      <4>. QED  BY <2>1, <3>1, <4>1 DEF HasResult
    <3>. QED  BY <3>2, <3>3
  <2>. QED  BY <2>3, <2>4
<1>5. CASE Join
  <2>1. events' = events /\ (taken' = taken \/ taken' = Append(taken, Error))
    BY <1>5 DEF Join
  <2>. QED  BY <1>0, <1>1, <2>1, FramesTyped
<1>6. CASE RelayStep \/ RelayAnswer \/ RelayDone
  <2>1. PICK e \in Frames, next \in {"iterate", "relay_done", "sentinel"} : Relay(e, next)
    BY <1>6, FramesTyped DEF RelayStep, RelayAnswer, RelayDone, TypeOK
  <2>2. taken' = taken /\ (events' = events \/ events' = Append(events, e)) /\ e \in Items
    BY <2>1 DEF Relay, readerVars, Items
  <2>. QED  BY <1>2, <1>3, <2>2
<1>7. CASE PutSentinel
  <2>1. taken' = taken /\ events' = Append(events, Sentinel) /\ Sentinel \in Items
    BY <1>7 DEF PutSentinel, readerVars, Items
  <2>. QED  BY <1>3, <2>1
<1>8. CASE LoopYields \/ LoopReturns \/ LoopRaises \/ Commit \/ CommitFails \/ Refresh \/ RefreshFails
  <2>1. taken' = taken /\ events' = events
    BY <1>8 DEF LoopYields, LoopReturns, LoopRaises, Iterate, Commit, CommitFails, Refresh,
      RefreshFails, readerVars
  <2>. QED  BY <1>2, <2>1
<1>9. CASE Start \/ Send \/ Pull \/ Close \/ Disconnect \/ Shutdown \/ Settled \/ UNCHANGED vars
  <2>1. taken' = taken /\ events' = events
    BY <1>9 DEF Start, Send, Pull, Close, Disconnect, Shutdown, Settled, vars, readerVars
  <2>. QED  BY <1>2, <2>1
<1>. QED
  BY <1>4, <1>5, <1>6, <1>7, <1>8, <1>9 DEF Next, Produce, Read

\* What the refinement needs to know of a state.
Accountable == TypeOK /\ BornOnDemand /\ RecordFirst /\ InPhase /\ NotYet

\* Each step of the producer, the reader or the environment is one of the
\* ledger, or invisible in it.
LEMMA StepKeepsLedger ==
  Accountable /\ RecordFirst' /\ [Next]_vars => [TheLedger!LedgerNext]_(TheLedger!ledgerVars)
<1>. SUFFICES ASSUME Accountable, RecordFirst', [Next]_vars
              PROVE  [TheLedger!LedgerNext]_(TheLedger!ledgerVars)
  OBVIOUS
<1>. DEFINE run == "run"
<1>0. run \in {"run"} /\ Account' = Account
  BY DEF Account
<1>1. ASSUME Life' = Life, Entries' = Entries
      PROVE  [TheLedger!LedgerNext]_(TheLedger!ledgerVars)
  <2>1. Told' = Told \/ (Told' = Told \cup {run} /\ (HasResult(taken') \/ HasResult(events')))
    BY ToldGrows DEF Told, Accountable
  <2>2. CASE Told' = Told
    BY <1>0, <1>1, <2>2 DEF TheLedger!ledgerVars
  <2>3. CASE Told' = Told \cup {run} /\ (HasResult(taken') \/ HasResult(events'))
    <3>1. recorded'
      BY <2>3 DEF RecordFirst, HasResult
    <3>2. Life[run] = "billed"
      BY <1>1, <3>1 DEF Life
    <3>3. TheLedger!Tell(run)
      BY <1>0, <1>1, <2>3, <3>2 DEF TheLedger!Tell
    <3>. QED  BY <1>0, <3>3 DEF TheLedger!LedgerNext
  <2>. QED  BY <2>1, <2>2, <2>3
<1>2. ASSUME UNCHANGED <<phase, failure, recorded>>, (producer = "unborn") <=> (producer' = "unborn")
      PROVE  [TheLedger!LedgerNext]_(TheLedger!ledgerVars)
  <2>1. Life' = Life /\ Entries' = Entries
    BY <1>2 DEF Life, Entries
  <2>. QED  BY <1>1, <2>1
<1>3. CASE Start
  <2>1. /\ producer = "unborn" /\ producer' = "iterate" /\ ~recorded /\ ~failure /\ phase = "looping"
        /\ UNCHANGED <<phase, failure, recorded, taken, events>>
    BY <1>3 DEF Start, sourceVars, Accountable, BornOnDemand, NotYet, InPhase
  <2>2. Life[run] = "asked" /\ Life' = [Life EXCEPT ![run] = "underway"]
    BY <2>1 DEF Life
  <2>3. Entries' = Entries /\ Told' = Told
    BY <2>1 DEF Entries, Told
  <2>4. TheLedger!Start(run)
    BY <1>0, <2>2, <2>3 DEF TheLedger!Start, TheLedger!Becomes
  <2>. QED  BY <1>0, <2>4 DEF TheLedger!LedgerNext
<1>4. CASE LoopReturns
  <2>1. /\ producer = "iterate" /\ producer' = "record" /\ ~recorded /\ ~failure
        /\ phase = "looping" /\ phase' \in {"answered", "unanswered"}
        /\ UNCHANGED <<failure, recorded, taken, events>>
    BY <1>4 DEF LoopReturns, Iterate, Answer, GiveUp, readerVars, Accountable, NotYet, InPhase
  <2>2. Life[run] = "underway" /\ Life' = [Life EXCEPT ![run] = "finished"]
    BY <2>1 DEF Life
  <2>3. Entries' = Entries /\ Told' = Told
    BY <2>1 DEF Entries, Told
  <2>4. TheLedger!Finish(run)
    BY <1>0, <2>2, <2>3 DEF TheLedger!Finish, TheLedger!Becomes
  <2>. QED  BY <1>0, <2>4 DEF TheLedger!LedgerNext
<1>5. CASE LoopRaises \/ CommitFails
  <2>1. /\ producer \in {"iterate", "record"} /\ ~recorded /\ ~failure /\ failure'
        /\ UNCHANGED <<recorded, taken, events>>
    BY <1>5 DEF LoopRaises, CommitFails, Fails, readerVars, Accountable, NotYet, InPhase
  <2>2. Life[run] \in {"underway", "finished"} /\ Life' = [Life EXCEPT ![run] = "failed"]
    BY <2>1 DEF Life
  <2>3. Entries' = Entries /\ Told' = Told
    BY <2>1 DEF Entries, Told
  <2>4. TheLedger!Fail(run)
    BY <1>0, <2>2, <2>3 DEF TheLedger!Fail, TheLedger!Becomes
  <2>. QED  BY <1>0, <2>4 DEF TheLedger!LedgerNext
<1>6. CASE Commit
  <2>1. /\ producer = "record" /\ ~recorded /\ ~failure /\ recorded' = TRUE
        /\ phase \in {"answered", "unanswered"} /\ UNCHANGED <<failure, taken, events>>
    BY <1>6 DEF Commit, readerVars, Accountable, NotYet, InPhase
  <2>2. Life[run] = "finished" /\ Life' = [Life EXCEPT ![run] = "billed"]
    BY <2>1 DEF Life
  <2>3. Told' = Told
    BY <2>1 DEF Told
  <2>4. Entries' = Append(Entries, [run |-> run, account |-> Account[run]])
    <3>1. Entries = <<>> /\ Entries' = <<[run |-> run, account |-> "account"]>> /\ Account[run] = "account"
      BY <2>1 DEF Entries, Account
    <3>. QED  BY <3>1
  <2>5. TheLedger!Bill(run)
    BY <1>0, <2>2, <2>3, <2>4 DEF TheLedger!Bill, TheLedger!Becomes
  <2>. QED  BY <1>0, <2>5 DEF TheLedger!LedgerNext
<1>7. CASE RefreshFails
  <2>1. recorded /\ recorded'
    BY <1>7 DEF RefreshFails, Accountable, RecordFirst
  <2>2. Life' = Life /\ Entries' = Entries
    BY <2>1 DEF Life, Entries
  <2>. QED  BY <1>1, <2>2
<1>8. CASE LoopYields
  <2>1. producer = "iterate" /\ producer' = "relay_step" /\ UNCHANGED <<phase, failure, recorded>>
    BY <1>8 DEF LoopYields, Iterate, Yield
  <2>. QED  BY <1>2, <2>1
<1>9. CASE RelayStep \/ RelayAnswer \/ RelayDone \/ Refresh \/ PutSentinel
  <2>1. UNCHANGED <<phase, failure, recorded>> /\ producer # "unborn" /\ producer' # "unborn"
    BY <1>9 DEF RelayStep, RelayAnswer, RelayDone, Relay, Refresh, PutSentinel, sourceVars
  <2>. QED  BY <1>2, <2>1
<1>10. CASE Get \/ Send \/ Pull \/ Join \/ Close \/ Disconnect
  BY <1>2, <1>10 DEF Get, Send, Pull, Join, Close, Disconnect, sourceVars, producerVars
<1>11. CASE Shutdown \/ Settled \/ UNCHANGED vars
  BY <1>2, <1>11 DEF Shutdown, Settled, vars, sourceVars, producerVars
<1>. QED
  BY <1>3, <1>4, <1>5, <1>6, <1>7, <1>8, <1>9, <1>10, <1>11 DEF Next, Produce, Read

\* A streamed run implements the Ledger too, for every queue size and length of
\* run: it is entered once, when its loop is over, and its answer or done frame
\* is put in the queue only then; a stall, a client that leaves, an exception
\* or the end of the process changes nothing in that.
THEOREM ImplementsLedger == Spec => TheLedger!LedgerSpec
<1>1. Init => TheLedger!LedgerInit /\ BornOnDemand /\ NotYet
  <2>. SUFFICES ASSUME Init PROVE TheLedger!LedgerInit /\ BornOnDemand /\ NotYet
    OBVIOUS
  <2>1. /\ producer = "unborn" /\ phase = "looping" /\ ~recorded /\ ~failure
        /\ Len(taken) = 0 /\ Len(events) = 0
    BY EmptySeq DEF Init, SourceInit
  <2>2. Life = [r \in {"run"} |-> "asked"]
    BY <2>1 DEF Life
  <2>3. Told = {} /\ Entries = <<>>
    BY <2>1 DEF Told, Entries, HasResult
  <2>. QED  BY <2>1, <2>2, <2>3 DEF TheLedger!LedgerInit, Account, BornOnDemand, NotYet
<1>2. Streaming => InPhase
  BY DEF Streaming
<1>3. Spec => []Accountable
  <2>1. TypeOK /\ Streaming /\ BornOnDemand /\ RecordFirst /\ NotYet => Accountable
    BY <1>2 DEF Accountable
  <2>. QED
    BY <1>1, <2>1, StreamingInvariant, RecordFirstInvariant, BornOnDemandPreserved,
       NotYetPreserved, PTL DEF Spec
<1>. QED
  BY <1>1, <1>3, RecordFirstInvariant, StepKeepsLedger, PTL DEF Spec, TheLedger!LedgerSpec
=============================================================================
