---------------------------- MODULE StreamedRun ----------------------------
(***************************************************************************)
(* One streamed run, from the agent loop to the client.  Three parties:    *)
(*                                                                         *)
(*   - the producer thread of app/core/stream.py, which runs `produce` of  *)
(*     ExecutionService._stream_events: it iterates the loop (the          *)
(*     EventSource), relays each step into a bounded queue, records the    *)
(*     execution and only then relays the answer;                          *)
(*   - the reader, the generator _stream_events around run_in_thread's     *)
(*     generator, pulled by the web server one frame at a time;            *)
(*   - the client, which may go away, or stop reading, at any moment.      *)
(*                                                                         *)
(* Time is abstracted: a put that times out is one that gives up while the *)
(* queue is full.  Logging is left out.                                    *)
(***************************************************************************)
EXTENDS EventSource, Integers, Sequences

CONSTANT QueueSize      \* QUEUE_SIZE

ASSUME QueueSizeAssumption == QueueSize \in Nat \ {0}

VARIABLES
  producer,       \* where the worker thread is
  readerStalled,  \* produce's reader_stalled
  failure,        \* run_in_thread's failure list is not empty
  recorded,       \* the execution row is committed
  events,         \* the queue
  reader,         \* where the generator is
  taken,          \* history: the frames the generator has yielded
  connected,      \* the client is still there
  delivered       \* history: how many of those frames the client received

producerVars == <<producer, readerStalled, failure, recorded>>
readerVars == <<reader, taken, delivered>>
vars == <<sourceVars, producerVars, events, readerVars, connected>>

-----------------------------------------------------------------------------
Step(k) == [kind |-> "step", number |-> k]

\* The final_response step, held back until the row is written.
Answered == [kind |-> "answer", number |-> 0]

Done == [kind |-> "done", number |-> 0]

\* stream.py's _DONE, which the reader keeps to itself.
Sentinel == [kind |-> "sentinel", number |-> 0]

\* The frame for a run that failed after the response had started.
Error == [kind |-> "error", number |-> 0]

Last(s) == s[Len(s)]

Init ==
  /\ SourceInit
  /\ producer = "unborn"
  /\ readerStalled = FALSE
  /\ failure = FALSE
  /\ recorded = FALSE
  /\ events = <<>>
  /\ reader = "unstarted"
  /\ taken = <<>>
  /\ connected = TRUE
  /\ delivered = 0

-----------------------------------------------------------------------------
\* The producer thread.

\* Mutant: a reader that reads on is sent events again after a stall.
RelayUnsticky(event, next) ==
  /\ producer' = next
  /\ \/ /\ Len(events) < QueueSize
        /\ events' = Append(events, event)
        /\ UNCHANGED readerStalled
     \/ /\ Len(events) = QueueSize
        /\ readerStalled' = TRUE
        /\ UNCHANGED events
  /\ UNCHANGED <<sourceVars, failure, recorded, readerVars, connected>>

\* Mutant: put without a timeout.
RelayBlocking(event, next) ==
  /\ Len(events) < QueueSize
  /\ events' = Append(events, event)
  /\ producer' = next
  /\ UNCHANGED <<sourceVars, readerStalled, failure, recorded, readerVars, connected>>

\* relay(): the event goes into the queue, or is dropped because the reader
\* has stalled, now or before.  Stalling is for good.  A put that times out
\* found the queue full at that moment, even if a reader is just back.
Relay(event, next) ==
  /\ producer' = next
  /\ \/ /\ readerStalled
        /\ UNCHANGED <<events, readerStalled>>
     \/ /\ ~readerStalled
        /\ Len(events) < QueueSize
        /\ events' = Append(events, event)
        /\ UNCHANGED readerStalled
     \/ /\ ~readerStalled
        /\ Len(events) = QueueSize
        /\ readerStalled' = TRUE
        /\ UNCHANGED events
  /\ UNCHANGED <<sourceVars, failure, recorded, readerVars, connected>>

\* The thread goes from one place to another with the source's step.
Iterate(step, next) ==
  /\ producer = "iterate"
  /\ step
  /\ producer' = next
  /\ UNCHANGED <<readerStalled, failure, recorded, events, readerVars, connected>>

LoopYields == Iterate(Yield, "relay_step")

\* Mutant: the answer is relayed as it comes, and recorded by nobody.
LoopReturnsUnrecorded == Iterate(Answer \/ GiveUp, "relay_answer")

LoopReturns == Iterate(Answer \/ GiveUp, "record")

\* Mutant: the sentinel is put after the try statement, not in its finally.
FailsWithoutSentinel ==
  /\ failure' = TRUE
  /\ producer' = "exited"

\* An exception anywhere in produce ends it, and is kept for the reader.
Fails ==
  /\ failure' = TRUE
  /\ producer' = "sentinel"

LoopRaises ==
  /\ producer = "iterate"
  /\ Raise
  /\ Fails
  /\ UNCHANGED <<readerStalled, recorded, events, readerVars, connected>>

\* Mutant: each step is announced before it is shown.
RelayStepTwice ==
  /\ producer = "relay_step"
  /\ Len(events) + 1 < QueueSize
  /\ events' = events \o <<Step(yielded), Step(yielded)>>
  /\ producer' = "iterate"
  /\ UNCHANGED <<sourceVars, readerStalled, failure, recorded, readerVars, connected>>

RelayStep == producer = "relay_step" /\ Relay(Step(yielded), "iterate")

\* ExecutionRepository.create, in a session of the thread's own: add and
\* commit, then refresh.
Commit ==
  /\ producer = "record"
  /\ recorded' = TRUE
  /\ producer' = "refresh"
  /\ UNCHANGED <<sourceVars, readerStalled, failure, events, readerVars, connected>>

CommitFails ==
  /\ producer = "record"
  /\ Fails
  /\ UNCHANGED <<sourceVars, readerStalled, recorded, events, readerVars, connected>>

\* The row is read back, and the session closed.
Refresh ==
  /\ producer = "refresh"
  /\ producer' = IF phase = "answered" THEN "relay_answer" ELSE "relay_done"
  /\ UNCHANGED <<sourceVars, readerStalled, failure, recorded, events, readerVars, connected>>

\* The row is committed but cannot be read back.
RefreshFails ==
  /\ producer = "refresh"
  /\ Fails
  /\ UNCHANGED <<sourceVars, readerStalled, recorded, events, readerVars, connected>>

RelayAnswer == producer = "relay_answer" /\ Relay(Answered, "relay_done")

RelayDone == producer = "relay_done" /\ Relay(Done, "sentinel")

\* Mutant: the thread waits for its events to be read before it says goodbye.
PutSentinelLast ==
  /\ producer = "sentinel"
  /\ events = <<>>
  /\ events' = <<Sentinel>>
  /\ producer' = "exited"
  /\ UNCHANGED <<sourceVars, readerStalled, failure, recorded, readerVars, connected>>

\* worker's finally: a put without a timeout, stalled reader or not.
PutSentinel ==
  /\ producer = "sentinel"
  /\ Len(events) < QueueSize
  /\ events' = Append(events, Sentinel)
  /\ producer' = "exited"
  /\ UNCHANGED <<sourceVars, readerStalled, failure, recorded, readerVars, connected>>

Produce ==
  \/ LoopYields \/ LoopReturns \/ LoopRaises
  \/ RelayStep \/ Commit \/ CommitFails \/ Refresh \/ RefreshFails
  \/ RelayAnswer \/ RelayDone \/ PutSentinel

-----------------------------------------------------------------------------
\* The reader.

\* The first next(): the thread is created then, and not before.
Start ==
  /\ reader = "unstarted"
  /\ reader' = "get"
  /\ producer' = "iterate"
  /\ UNCHANGED <<sourceVars, readerStalled, failure, recorded, events, taken, delivered, connected>>

\* Mutant: the sentinel is yielded like any other item.
GetAnything ==
  /\ reader = "get"
  /\ events # <<>>
  /\ events' = Tail(events)
  /\ reader' = "yield"
  /\ taken' = Append(taken, Head(events))
  /\ UNCHANGED <<sourceVars, producerVars, delivered, connected>>

\* events.get() returns, and the generator yields the frame or leaves its loop.
Get ==
  /\ reader = "get"
  /\ events # <<>>
  /\ events' = Tail(events)
  /\ IF Head(events) = Sentinel
     THEN reader' = "join" /\ UNCHANGED taken
     ELSE reader' = "yield" /\ taken' = Append(taken, Head(events))
  /\ UNCHANGED <<sourceVars, producerVars, delivered, connected>>

\* The server writes the frame it pulled to the client.
Send ==
  /\ reader = "yield"
  /\ reader' = "sent"
  /\ delivered' = IF connected THEN Len(taken) ELSE delivered
  /\ UNCHANGED <<sourceVars, producerVars, events, taken, connected>>

\* The server pulls the next frame; nothing follows an error frame.
Pull ==
  /\ reader = "sent"
  /\ reader' = IF Last(taken) = Error THEN "ended" ELSE "get"
  /\ UNCHANGED <<sourceVars, producerVars, events, taken, delivered, connected>>

\* Mutant: the producer's exception dies with its thread.
JoinSilently ==
  /\ reader = "join"
  /\ producer = "exited"
  /\ reader' = "ended"
  /\ UNCHANGED <<sourceVars, producerVars, events, taken, delivered, connected>>

\* thread.join(), and the producer's exception, if any, as an error frame.
Join ==
  /\ reader = "join"
  /\ producer = "exited"
  /\ IF failure
     THEN reader' = "yield" /\ taken' = Append(taken, Error)
     ELSE reader' = "ended" /\ UNCHANGED taken
  /\ UNCHANGED <<sourceVars, producerVars, events, delivered, connected>>

\* The server notices that the client left and closes the generator, which
\* it can do only where the generator is suspended.
Close ==
  /\ ~connected
  /\ reader \in {"unstarted", "yield", "sent"}
  /\ reader' = "closed"
  /\ UNCHANGED <<sourceVars, producerVars, events, taken, delivered, connected>>

Read == Start \/ Get \/ Send \/ Pull \/ Join \/ Close

-----------------------------------------------------------------------------
\* The environment.

Disconnect ==
  /\ connected
  /\ connected' = FALSE
  /\ UNCHANGED <<sourceVars, producerVars, events, readerVars>>

\* The process exits.  The thread is a daemon: nothing waits for it.
Shutdown ==
  /\ producer \notin {"unborn", "exited", "killed"}
  /\ producer' = "killed"
  /\ reader' = IF reader = "ended" THEN "ended" ELSE "closed"
  /\ UNCHANGED <<sourceVars, readerStalled, failure, recorded, events, taken, delivered, connected>>

Settled ==
  /\ reader \in {"ended", "closed"}
  /\ producer \in {"unborn", "exited", "killed"}
  /\ UNCHANGED vars

Next == Produce \/ Read \/ Disconnect \/ Shutdown \/ Settled

\* The thread is scheduled, its model, tools and database answer or fail, and
\* a blocked get or join returns once it can.  Nothing is assumed of the
\* client: a frame may never be written, and the next one never pulled.
Fairness ==
  /\ WF_vars(Produce)
  /\ WF_vars(Get)
  /\ WF_vars(Join)

Spec == Init /\ [][Next]_vars /\ Fairness

-----------------------------------------------------------------------------
\* Properties.

Frames == [kind : {"step", "answer", "done", "error"}, number : Nat]

\* Types of the shared and local state of the three parties.
TypeOK ==
  /\ phase \in Phases
  /\ yielded \in Nat
  /\ producer \in {"unborn", "iterate", "relay_step", "record", "refresh",
                   "relay_answer", "relay_done", "sentinel", "exited", "killed"}
  /\ readerStalled \in BOOLEAN
  /\ failure \in BOOLEAN
  /\ recorded \in BOOLEAN
  /\ events \in Seq(Frames \cup {Sentinel})
  /\ reader \in {"unstarted", "get", "yield", "sent", "join", "ended", "closed"}
  /\ taken \in Seq(Frames)
  /\ connected \in BOOLEAN
  /\ delivered \in Nat

\* The answer, and the done frame with the execution's id, are neither queued
\* nor shown before the row is committed ("withholds its answer until it has"
\* recorded the run): nobody can read an answer that is never billed.
RecordedBeforeAnswer ==
  ~recorded =>
    /\ \A i \in 1..Len(taken) : taken[i].kind \notin {"answer", "done"}
    /\ \A i \in 1..Len(events) : events[i].kind \notin {"answer", "done"}

\* What a run tells its client, if no event is dropped.
Log ==
  [i \in 1..yielded |-> Step(i)]
    \o (IF failure THEN <<Error>>
        ELSE IF phase = "answered" THEN <<Answered, Done>> ELSE <<Done>>)

\* The events between the producer and the client, the sentinel left out.
Pipeline ==
  taken \o (IF events # <<>> /\ Last(events) = Sentinel
            THEN SubSeq(events, 1, Len(events) - 1)
            ELSE events)

\* The pipeline holds the run's log from its beginning and without a gap,
\* however late the reader is: a stall cuts the log off and never punches a
\* hole into it (reader_stalled is sticky), and only an error frame can come
\* after the cut.
FramesWithoutGap ==
  LET cut == Pipeline # <<>> /\ Last(Pipeline) = Error
      length == IF cut THEN Len(Pipeline) - 1 ELSE Len(Pipeline)
  IN  /\ cut => failure
      /\ length <= Len(Log)
      /\ \A i \in 1..length : Pipeline[i] = Log[i]

\* A reader that never let the queue stay full and that read to the end was
\* shown the whole log, its terminal frame included.
UnstalledStreamIsComplete ==
  reader = "ended" /\ ~readerStalled => taken = Log

\* In a queue that can hold what the run has to say (its steps, answer, done
\* frame and sentinel) no put ever blocks, whether or not anybody reads.
AmpleQueueNeverFills ==
  QueueSize >= yielded + 3 =>
    ~readerStalled /\ (producer = "sentinel" => Len(events) < QueueSize)

\* A client that stops reading, or leaves, does not stop a started run from
\* being recorded or from failing; only the end of the process does.
RunSettles ==
  producer = "iterate" ~> recorded \/ failure \/ producer = "killed"

\* A reader that waits for an event gets one, or the end of the stream: a
\* producer that dies does not leave it in get() or join() for ever.
ReaderReleased ==
  reader \in {"get", "join"} ~> reader \in {"yield", "ended", "closed"}

\* A process that stays up gets its thread back from every run whose queue can
\* hold it, also when nobody reads.
ProducerExits ==
  producer = "iterate" ~>
    producer \in {"exited", "killed"} \/ QueueSize < yielded + 3

-----------------------------------------------------------------------------
\* What the documentation says, and the code does not do.

\* README: "every step of every run is persisted and queryable".
ShownStepsArePersisted ==
  reader = "ended" /\ (\E i \in 1..delivered : taken[i].kind = "step") => recorded
=============================================================================
