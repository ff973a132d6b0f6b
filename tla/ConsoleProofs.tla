--------------------------- MODULE ConsoleProofs ---------------------------
(***************************************************************************)
(* What is proved of Console for any keys, tenants and agents, any number  *)
(* of runs and steps, and any bound on equal requests in flight.           *)
(***************************************************************************)
EXTENDS Console, TLAPS

\* A user who waits has at most one connect under way, for the key the page
\* holds, and none once the workspace is shown.
OneConnect ==
  ~hurried =>
    /\ \A key \in Keys :
         inFlight["connect"][key] > 0 => apiKey = key /\ inFlight["connect"][key] = 1
    /\ workspace => ~Connecting

\* The session's part of the inductive invariant.
Keyed == SessionKeepsItsKey /\ OneConnect

\* The page listens to the last run it asked for, or to none.
Attached ==
  /\ run # 0 => run = runs
  /\ run = 0 => ~line /\ wire = <<>>
  /\ \A j \in 1..Len(wire) : wire[j].run = run
  /\ \A i \in 1..Len(timeline) :
       timeline[i].run = runs /\ timeline[i].kind \in {"step", "answer"}

\* What was read and what is on the wire are numbered as one sequence, in
\* which nothing is shown after an answer, and nothing but steps precedes it;
\* as long as the server can send more, there are only steps.
InOrder ==
  /\ \A i \in 1..Len(timeline) :
       /\ timeline[i].kind = "step" => timeline[i].number = i
       /\ i < Len(timeline) => timeline[i].kind = "step"
  /\ \A j \in 1..Len(wire) :
       /\ wire[j].kind = "step" => wire[j].number = Len(timeline) + j
       /\ wire[j].kind \in {"step", "answer"} =>
            /\ \A i \in 1..j - 1 : wire[i].kind = "step"
            /\ \A i \in 1..Len(timeline) : timeline[i].kind = "step"
  /\ line => /\ \A j \in 1..Len(wire) : wire[j].kind = "step"
             /\ \A i \in 1..Len(timeline) : timeline[i].kind = "step"

\* A frame on the wire, or the message it became, was true when it was sent,
\* and what it says of a run does not change any more.
Truthful ==
  /\ \A j \in 1..Len(wire) :
       /\ wire[j].kind \in {"answer", "done"} => server[run] = "recorded"
       /\ wire[j].kind = "refused" => server[run] = "refused"
  /\ \A i \in 1..Len(timeline) :
       timeline[i].kind = "answer" => server[timeline[i].run] = "recorded"
  /\ summary.kind = "done" => summary.run # 0 /\ server[summary.run] = "recorded"
  /\ summary.kind = "refused" => summary.run # 0 /\ server[summary.run] = "refused"
  /\ finished => summary.run = run /\ summary.kind \in {"done", "error"} /\ run # 0

Typed == TypeOK /\ (\A r \in runs + 1 .. MaxRuns : server[r] = "unasked")

-----------------------------------------------------------------------------
\* Types.

\* Sending and answering keep the counts of requests within their bound.
LEMMA CountsTyped ==
  ASSUME NEW pending \in [Requests -> [Keys -> 0..MaxCopies]],
         NEW request \in Requests, NEW key \in Keys \cup {None}
  PROVE  SendWith(pending, request, key) \in [Requests -> [Keys -> 0..MaxCopies]]
BY ConsoleAssumption DEF SendWith

LEMMA AnsweredTyped ==
  ASSUME inFlight \in [Requests -> [Keys -> 0..MaxCopies]],
         NEW request \in Requests, NEW key \in Keys, inFlight[request][key] > 0
  PROVE  Answered(request, key) \in [Requests -> [Keys -> 0..MaxCopies]]
BY ConsoleAssumption DEF Answered

LEMMA NothingTyped == NothingInFlight \in [Requests -> [Keys -> 0..MaxCopies]]
BY ConsoleAssumption DEF NothingInFlight

\* What the server sends to a page that listens is a frame.
LEMMA FramesTyped ==
  ASSUME Typed, run # 0,
         NEW kind \in {"step", "answer", "done", "error", "end", "refused", "broken"},
         NEW number \in 0..MaxSteps
  PROVE  Frame(kind, number) \in Frames
BY ConsoleAssumption DEF Typed, TypeOK, Frame, Frames

LEMMA NoMessageTyped == NoMessage \in Messages
BY ConsoleAssumption DEF NoMessage, Messages

LEMMA EmptyTyped == ASSUME NEW S PROVE <<>> \in Seq(S)
OBVIOUS

\* What the page says of its run is a message.
LEMMA MessagesTyped ==
  ASSUME runs \in 0..MaxRuns, run \in 0..runs,
         NEW message \in {"hidden", "done", "error", "unfinished", "refused", "broken",
                       "stopped"},
         RunEndsWith(message)
  PROVE  /\ summary' \in Messages /\ run' = 0 /\ wire' \in Seq(Frames)
         /\ finished' \in BOOLEAN /\ line' \in BOOLEAN
<1>1. run \in 0..MaxRuns
  BY ConsoleAssumption
<1>2. [kind |-> message, run |-> run] \in Messages
  BY <1>1 DEF Messages
<1>3. wire' = <<>> /\ wire' \in Seq(Frames)
  BY EmptyTyped DEF RunEndsWith
<1> QED
  BY <1>2, <1>3 DEF RunEndsWith

\* A write of the storage leaves a key in it, or none, whether it succeeds or
\* not, and what it leaves is what was written unless it failed.
LEMMA StoreTyped ==
  ASSUME NEW value \in Keys \cup {None}, stored \in Keys \cup {None}, Store(value)
  PROVE  /\ stored' \in Keys \cup {None} /\ swallowed' \in BOOLEAN
         /\ stored' = value \/ swallowed'
BY DEF Store

LEMMA InitTyped == Init => Typed
<1> SUFFICES ASSUME Init PROVE Typed
  OBVIOUS
<1>1. timeline \in Seq(Frames) /\ wire \in Seq(Frames)
  BY EmptyTyped DEF Init
<1>2. /\ server \in [1..MaxRuns -> {"unasked", "asked", "refused", "running",
                                    "recorded", "failed"}]
      /\ \A r \in runs + 1 .. MaxRuns : server[r] = "unasked"
  <2>1. server = [r \in 1..MaxRuns |-> "unasked"] /\ runs = 0
    BY DEF Init
  <2> QED
    BY <2>1, ConsoleAssumption
<1>3. inFlight \in [Requests -> [Keys -> 0..MaxCopies]] /\ summary \in Messages
  BY NothingTyped, NoMessageTyped DEF Init
<1>4. /\ apiKey \in Keys \cup {None} /\ tenantId \in Tenants \cup {None}
      /\ stored \in Keys \cup {None} /\ workspace \in BOOLEAN
      /\ agents \in SUBSET Agents /\ selected \in Agents \cup {None}
      /\ listed \in SUBSET Agents /\ finished \in BOOLEAN /\ line \in BOOLEAN
      /\ hurried \in BOOLEAN /\ swallowed \in BOOLEAN
  BY DEF Init
<1>5. runs \in 0..MaxRuns /\ run \in 0..runs
  <2>1. runs = 0 /\ run = 0
    BY DEF Init
  <2> QED
    BY <2>1, ConsoleAssumption
<1> QED
  BY <1>1, <1>2, <1>3, <1>4, <1>5 DEF Typed, TypeOK

LEMMA StepTyped == Typed /\ [Next]_vars => Typed'
<1> SUFFICES ASSUME Typed, [Next]_vars PROVE Typed'
  OBVIOUS
<1> USE ConsoleAssumption DEF Typed, TypeOK
<1>1. ASSUME NEW key \in Keys, Connect(key) PROVE Typed'
  BY <1>1, CountsTyped DEF Connect, Requests, storage, lists, panel, remote
<1>2. ASSUME NEW key \in Keys, Connected(key) PROVE Typed'
  BY <1>2, CountsTyped, AnsweredTyped, StoreTyped DEF Connected, Requests, panel, remote
<1>3. ASSUME NEW key \in Keys, ConnectFails(key) PROVE Typed'
  BY <1>3, AnsweredTyped, StoreTyped DEF ConnectFails, Requests, lists, panel, remote
<1>4. ASSUME Disconnect PROVE Typed'
  <2>1. timeline' \in Seq(Frames)
    BY <1>4, EmptyTyped DEF Disconnect
  <2>2. /\ summary' \in Messages /\ run' \in 0..runs /\ wire' \in Seq(Frames)
        /\ finished' \in BOOLEAN /\ line' \in BOOLEAN
    <3>1. CASE run = 0
      BY <1>4, <3>1, NoMessageTyped DEF Disconnect
    <3>2. CASE run # 0
      <4>1. RunEndsWith("stopped")
        BY <1>4, <3>2 DEF Disconnect
      <4> QED
        BY <4>1, MessagesTyped
    <3> QED
      BY <3>1, <3>2
  <2>3. stored' \in Keys \cup {None} /\ swallowed' \in BOOLEAN
    BY <1>4, StoreTyped DEF Disconnect
  <2> QED
    BY <1>4, <2>1, <2>2, <2>3 DEF Disconnect
<1>5. ASSUME Reload PROVE Typed'
  <2>1. timeline' \in Seq(Frames) /\ wire' \in Seq(Frames)
    BY <1>5, EmptyTyped DEF Reload
  <2>2. inFlight' \in [Requests -> [Keys -> 0..MaxCopies]]
    <3>1. apiKey' \in Keys \cup {None}
      BY <1>5 DEF Reload, Recalled
    <3> QED
      BY <1>5, <3>1, CountsTyped, NothingTyped DEF Reload, Requests
  <2>3. run' \in 0..runs' /\ runs' \in 0..MaxRuns /\ summary' \in Messages
    BY <1>5, NoMessageTyped DEF Reload
  <2>4. /\ server' = server /\ runs' = runs /\ stored' = stored
        /\ apiKey' \in {stored, None} /\ tenantId' = None /\ workspace' = FALSE
        /\ agents' = {} /\ selected' = None /\ listed' = {}
        /\ finished' = FALSE /\ line' = FALSE /\ hurried' = FALSE
        /\ swallowed' \in BOOLEAN
    BY <1>5 DEF Reload, Recalled
  <2> QED
    BY <2>1, <2>2, <2>3, <2>4
<1>6. ASSUME RefreshAgents PROVE Typed'
  BY <1>6, CountsTyped DEF RefreshAgents, Requests, session, storage, lists, panel, remote
<1>7. ASSUME NEW key \in Keys, AgentsArrive(key) PROVE Typed'
  <2>1. PICK found \in SUBSET AgentsOf[TenantOf[key]] :
          /\ agents' = found /\ listed' = found
          /\ selected' \in IF found = {} THEN {None}
                          ELSE IF selected \in found THEN {selected} ELSE found
    BY <1>7 DEF AgentsArrive
  <2>2. found \subseteq Agents
    OBVIOUS
  <2> QED
    BY <1>7, <2>1, <2>2, AnsweredTyped
       DEF AgentsArrive, Requests, session, storage, panel, remote
<1>8. ASSUME NEW key \in Keys, AgentsFail(key) PROVE Typed'
  BY <1>8, AnsweredTyped DEF AgentsFail, Requests, session, storage, lists, panel, remote
<1>9. ASSUME NEW agent \in Agents, SelectAgent(agent) PROVE Typed'
  BY <1>9 DEF SelectAgent, session, storage, panel, remote
<1>10. ASSUME RunAgent PROVE Typed'
  <2>1. timeline' \in Seq(Frames)
    BY <1>10, EmptyTyped DEF RunAgent
  <2>2. server' \in [1..MaxRuns -> {"unasked", "asked", "refused", "running",
                                   "recorded", "failed"}]
    BY <1>10 DEF RunAgent
  <2>3. runs' \in 0..MaxRuns /\ run' \in 0..runs'
    BY <1>10 DEF RunAgent
  <2>4. \A q \in runs' + 1 .. MaxRuns : server'[q] = "unasked"
    BY <1>10 DEF RunAgent
  <2> QED
    BY <1>10, <2>1, <2>2, <2>3, <2>4, NoMessageTyped DEF RunAgent, session, storage, lists
<1>11. ASSUME Stop PROVE Typed'
  BY <1>11, MessagesTyped DEF Stop, session, storage, lists
<1>12. ASSUME ReadStep PROVE Typed'
  <2>1. Head(wire) \in Frames /\ Tail(wire) \in Seq(Frames)
    BY <1>12 DEF ReadStep, Reading
  <2> QED
    BY <1>12, <2>1 DEF ReadStep, session, storage, lists
<1>13. ASSUME ReadVerdict PROVE Typed'
  <2>1. Tail(wire) \in Seq(Frames) /\ Head(wire).kind \in {"done", "error"}
    BY <1>13 DEF ReadVerdict, Reading
  <2> QED
    BY <1>13, <2>1 DEF ReadVerdict, Reading, Messages, session, storage, lists
<1>14. ASSUME ReadEnd PROVE Typed'
  <2>1. summary.kind \in {"hidden", "done", "error", "unfinished", "refused", "broken",
                          "stopped"}
    BY DEF Messages
  <2> QED
    BY <1>14, <2>1, MessagesTyped DEF ReadEnd, session, storage, lists
<1>15. ASSUME ReadFailure PROVE Typed'
  <2>1. Head(wire).kind \in {"refused", "broken"}
    BY <1>15 DEF ReadFailure, Reading
  <2> QED
    BY <1>15, <2>1, MessagesTyped DEF ReadFailure, session, storage, lists
<1>16. ASSUME NEW r \in 1..runs, Refuse(r) PROVE Typed'
  <2>1. Listening(r) => Append(wire, Frame("refused", 0)) \in Seq(Frames)
    BY FramesTyped DEF Listening
  <2>2. wire' \in Seq(Frames) /\ line' \in BOOLEAN
    BY <1>16, <2>1 DEF Refuse
  <2>3. server' \in [1..MaxRuns -> {"unasked", "asked", "refused", "running",
                                   "recorded", "failed"}]
    BY <1>16 DEF Refuse, Becomes
  <2>4. \A q \in runs + 1 .. MaxRuns : server'[q] = "unasked"
    BY <1>16 DEF Refuse, Becomes
  <2> QED
    BY <1>16, <2>2, <2>3, <2>4 DEF Refuse, Becomes, session, storage, lists, panel
<1>17. ASSUME NEW r \in 1..runs, Accept(r) PROVE Typed'
  BY <1>17 DEF Accept, Becomes, session, storage, lists, panel
<1>18. ASSUME NEW r \in 1..runs, SendStep(r) PROVE Typed'
  <2>1. StepsSent + 1 \in 0..MaxSteps
    BY <1>18 DEF SendStep, StepsSent
  <2>2. Append(wire, Frame("step", StepsSent + 1)) \in Seq(Frames)
    BY <1>18, <2>1, FramesTyped DEF SendStep, Listening
  <2> QED
    BY <1>18, <2>2 DEF SendStep, session, storage, lists, panel
<1>19. ASSUME NEW r \in 1..runs, Record(r) PROVE Typed'
  BY <1>19 DEF Record, Becomes, session, storage, lists, panel
<1>20. ASSUME NEW r \in 1..runs, Finish(r) PROVE Typed'
  <2>1. /\ Frame("answer", 0) \in Frames /\ Frame("done", 0) \in Frames
        /\ Frame("end", 0) \in Frames
    BY <1>20, FramesTyped DEF Finish, Listening
  <2>2. PICK answer \in {<<>>, <<Frame("answer", 0)>>} :
          wire' = wire \o answer \o <<Frame("done", 0), Frame("end", 0)>>
    BY <1>20 DEF Finish
  <2>3. answer \in Seq(Frames)
    <3>1. CASE answer = <<>>
      BY <3>1
    <3>2. CASE answer = <<Frame("answer", 0)>>
      BY <3>2, <2>1
    <3> QED
      BY <2>2, <3>1, <3>2
  <2>4. wire' \in Seq(Frames)
    BY <2>1, <2>2, <2>3
  <2> QED
    BY <1>20, <2>4 DEF Finish, session, storage, lists, panel
<1>21. ASSUME NEW r \in 1..runs, Fail(r) PROVE Typed'
  <2>1. Listening(r) => wire \o <<Frame("error", 0), Frame("end", 0)>> \in Seq(Frames)
    BY FramesTyped DEF Listening
  <2>2. wire' \in Seq(Frames) /\ line' \in BOOLEAN
    BY <1>21, <2>1 DEF Fail
  <2>3. server' \in [1..MaxRuns -> {"unasked", "asked", "refused", "running",
                                   "recorded", "failed"}]
    BY <1>21 DEF Fail, Becomes
  <2>4. \A q \in runs + 1 .. MaxRuns : server'[q] = "unasked"
    BY <1>21 DEF Fail, Becomes
  <2> QED
    BY <1>21, <2>2, <2>3, <2>4 DEF Fail, Becomes, session, storage, lists, panel
<1>22. ASSUME Cut PROVE Typed'
  <2>1. PICK kind \in {"end", "broken"} : wire' = Append(wire, Frame(kind, 0))
    BY <1>22 DEF Cut
  <2>2. wire' \in Seq(Frames)
    BY <1>22, <2>1, FramesTyped DEF Cut
  <2> QED
    BY <1>22, <2>2 DEF Cut, session, storage, lists, panel
<1>23. ASSUME UNCHANGED vars PROVE Typed'
  BY <1>23 DEF vars, session, storage, lists, panel, remote
<1> QED
  BY <1>1, <1>2, <1>3, <1>4, <1>5, <1>6, <1>7, <1>8, <1>9, <1>10, <1>11, <1>12,
     <1>13, <1>14, <1>15, <1>16, <1>17, <1>18, <1>19, <1>20, <1>21, <1>22, <1>23
     DEF Next, User, Answers, Read, Serve

\* Every variable keeps its type, for any number of keys, runs and steps.
THEOREM TypeCorrect == Spec => []TypeOK
BY InitTyped, StepTyped, PTL DEF Spec, Typed

-----------------------------------------------------------------------------
\* The session.

\* What requests for agents do to the counts leaves the connects alone.
LEMMA ConnectsApart ==
  ASSUME NEW pending \in [Requests -> [Keys -> 0..MaxCopies]],
         NEW key \in Keys \cup {None}
  PROVE  SendWith(pending, "agents", key)["connect"] = pending["connect"]
BY DEF SendWith, Requests

LEMMA AnswersApart ==
  ASSUME inFlight \in [Requests -> [Keys -> 0..MaxCopies]], NEW key \in Keys
  PROVE  Answered("agents", key)["connect"] = inFlight["connect"]
BY DEF Answered, Requests

\* A step that leaves alone what Keyed speaks of keeps it.
LEMMA SameSession ==
  ASSUME Keyed, UNCHANGED <<session, hurried>>,
         inFlight'["connect"] = inFlight["connect"]
  PROVE  Keyed'
BY DEF Keyed, SessionKeepsItsKey, OneConnect, Connecting, session, storage

LEMMA InitKeyed == Init => Keyed
BY DEF Init, Keyed, SessionKeepsItsKey, OneConnect, Connecting, NothingInFlight, Requests

LEMMA StepKeyed == Typed /\ Keyed /\ [Next]_vars => Keyed'
<1> SUFFICES ASSUME Typed, Keyed, [Next]_vars PROVE Keyed'
  OBVIOUS
<1> USE ConsoleAssumption
<1>t. /\ inFlight \in [Requests -> [Keys -> 0..MaxCopies]]
      /\ apiKey \in Keys \cup {None} /\ stored \in Keys \cup {None}
      /\ workspace \in BOOLEAN /\ hurried \in BOOLEAN
  BY DEF Typed, TypeOK
<1>1. ASSUME NEW key \in Keys, Connect(key) PROVE Keyed'
  <2>1. CASE hurried \/ Connecting
    BY <1>1, <2>1 DEF Connect, Keyed, SessionKeepsItsKey, OneConnect
  <2>2. CASE ~hurried /\ ~Connecting
    <3>1. \A k \in Keys : inFlight["connect"][k] = 0
      BY <1>t, <2>2 DEF Connecting, Requests
    <3>2. inFlight'["connect"] = [inFlight["connect"] EXCEPT ![key] = 1]
      BY <1>1, <1>t, <3>1 DEF Connect, SendWith, Requests
    <3>3. inFlight'["connect"] \in [Keys -> Nat]
      BY <1>t, <3>2 DEF Requests
    <3>4. apiKey' = key /\ ~workspace'
      BY <1>1 DEF Connect
    <3> QED
      BY <3>1, <3>2, <3>3, <3>4, <1>t
         DEF Keyed, SessionKeepsItsKey, OneConnect, Connecting, Requests
  <2> QED
    BY <2>1, <2>2
<1>2. ASSUME NEW key \in Keys, Connected(key) PROVE Keyed'
  <2>1. inFlight'["connect"] = [inFlight["connect"] EXCEPT ![key] = @ - 1]
    <3>1. Answered("connect", key) \in [Requests -> [Keys -> 0..MaxCopies]]
      BY <1>2, <1>t, AnsweredTyped DEF Connected, Requests
    <3>2. Answered("connect", key)["connect"]
            = [inFlight["connect"] EXCEPT ![key] = @ - 1]
      BY <1>t DEF Answered, Requests
    <3> QED
      BY <1>2, <1>t, <3>1, <3>2, ConnectsApart DEF Connected
  <2>2. CASE hurried
    BY <1>2, <2>2 DEF Connected, Keyed, SessionKeepsItsKey, OneConnect
  <2>3. CASE ~hurried
    <3>1. /\ apiKey = key /\ inFlight["connect"][key] = 1
          /\ \A k \in Keys \ {key} : ~(inFlight["connect"][k] > 0)
      BY <1>2, <2>3 DEF Connected, Keyed, OneConnect
    <3>2. \A k \in Keys : ~(inFlight'["connect"][k] > 0)
      BY <2>1, <3>1, <1>t DEF Requests
    <3>3. /\ apiKey' = key /\ tenantId' = TenantOf[key]
          /\ workspace' /\ (stored' = key \/ swallowed')
      BY <1>2, <1>t, <3>1, StoreTyped DEF Connected
    <3> QED
      BY <3>2, <3>3 DEF Keyed, SessionKeepsItsKey, OneConnect, Connecting
  <2> QED
    BY <2>2, <2>3
<1>3. ASSUME NEW key \in Keys, ConnectFails(key) PROVE Keyed'
  <2>1. CASE hurried
    BY <1>3, <2>1 DEF ConnectFails, Keyed, SessionKeepsItsKey, OneConnect
  <2>2. CASE ~hurried
    <3>1. /\ inFlight["connect"][key] = 1 /\ ~workspace
          /\ \A k \in Keys \ {key} : ~(inFlight["connect"][k] > 0)
      BY <1>3, <2>2 DEF ConnectFails, Keyed, OneConnect, Connecting
    <3>2. inFlight'["connect"] = [inFlight["connect"] EXCEPT ![key] = @ - 1]
      BY <1>3, <1>t DEF ConnectFails, Answered, Requests
    <3>3. \A k \in Keys : ~(inFlight'["connect"][k] > 0)
      BY <3>1, <3>2, <1>t DEF Requests
    <3>4. apiKey' = None /\ (stored' = None \/ swallowed') /\ ~workspace'
      BY <1>3, <1>t, <3>1, StoreTyped DEF ConnectFails
    <3> QED
      BY <3>3, <3>4 DEF Keyed, SessionKeepsItsKey, OneConnect, Connecting
  <2> QED
    BY <2>1, <2>2
<1>4. ASSUME Disconnect PROVE Keyed'
  <2>1. apiKey' = None /\ (stored' = None \/ swallowed') /\ ~workspace' /\ workspace
    BY <1>4, <1>t, StoreTyped DEF Disconnect
  <2>2. inFlight' = inFlight /\ hurried' = hurried
    BY <1>4 DEF Disconnect
  <2> QED
    BY <2>1, <2>2 DEF Keyed, SessionKeepsItsKey, OneConnect, Connecting
<1>5. ASSUME Reload PROVE Keyed'
  <2>1. /\ apiKey' \in {stored, None} /\ stored' = stored /\ ~workspace'
        /\ swallowed' = (apiKey' # stored)
        /\ inFlight' = SendWith(NothingInFlight, "connect", apiKey')
    BY <1>5 DEF Reload, Recalled
  <2>2. CASE apiKey' = None
    <3>1. \A k \in Keys : ~(inFlight'["connect"][k] > 0)
      BY <2>1, <2>2 DEF SendWith, NothingInFlight, Requests
    <3> QED
      BY <2>1, <2>2, <3>1 DEF Keyed, SessionKeepsItsKey, OneConnect, Connecting
  <2>3. CASE apiKey' # None
    <3>1. apiKey' = stored /\ stored \in Keys
      BY <2>1, <2>3, <1>t
    <3>2. inFlight'["connect"] = [k \in Keys |-> IF k = stored THEN 1 ELSE 0]
      <4>1. inFlight' = [NothingInFlight EXCEPT !["connect"][stored] =
                           IF @ < MaxCopies THEN @ + 1 ELSE @]
        BY <2>1, <2>3, <3>1 DEF SendWith
      <4> QED
        BY <4>1, <3>1 DEF NothingInFlight, Requests
    <3> QED
      BY <2>1, <3>1, <3>2 DEF Keyed, SessionKeepsItsKey, OneConnect, Connecting
  <2> QED
    BY <2>2, <2>3
<1>6. ASSUME RefreshAgents PROVE Keyed'
  BY <1>6, <1>t, ConnectsApart, SameSession DEF RefreshAgents
<1>7. ASSUME NEW key \in Keys, AgentsArrive(key) PROVE Keyed'
  BY <1>7, <1>t, AnswersApart, SameSession DEF AgentsArrive
<1>8. ASSUME NEW key \in Keys, AgentsFail(key) PROVE Keyed'
  BY <1>8, <1>t, AnswersApart, SameSession DEF AgentsFail
<1>9. ASSUME \/ \E agent \in Agents : SelectAgent(agent)
             \/ RunAgent \/ Stop \/ Read \/ Cut \/ Serve \/ UNCHANGED vars
      PROVE  Keyed'
  <2>1. UNCHANGED <<session, hurried, inFlight>>
    BY <1>9 DEF SelectAgent, RunAgent, Stop, Read, ReadStep, ReadVerdict, ReadEnd,
                ReadFailure, Cut, Serve, Refuse, Accept, SendStep, Record, Finish,
                Fail, Becomes, vars
  <2> QED
    BY <2>1, SameSession
<1> QED
  BY <1>1, <1>2, <1>3, <1>4, <1>5, <1>6, <1>7, <1>8, <1>9 DEF Next, User, Answers

\* The page's key and the tenant it shows belong together, whether the storage
\* works or not, and the stored key belongs to them unless the storage failed,
\* for a user who waits for a connect before the next.
THEOREM SessionKept == Spec => []SessionKeepsItsKey
<1>1. Typed /\ Keyed /\ [Next]_vars => Typed' /\ Keyed'
  BY StepTyped, StepKeyed
<1>2. Init => Typed /\ Keyed
  BY InitTyped, InitKeyed
<1>3. Keyed => SessionKeepsItsKey
  BY DEF Keyed
<1> QED
  BY <1>1, <1>2, <1>3, PTL DEF Spec

-----------------------------------------------------------------------------
\* The run panel.

Panel == Attached /\ InOrder /\ Truthful

LEMMA InitPanel == Init => Panel
BY DEF Init, Panel, Attached, InOrder, Truthful, NoMessage

\* A run that ends for the page leaves nothing to read, and a message that
\* has to be true.
LEMMA EndedPanel ==
  ASSUME Typed, Panel, NEW kind, RunEndsWith(kind),
         timeline' \in {timeline, <<>>}, UNCHANGED <<runs, server>>,
         kind = "done" => run # 0 /\ server[run] = "recorded",
         kind = "refused" => run # 0 /\ server[run] = "refused"
  PROVE  Panel'
<1> USE DEF RunEndsWith
<1>1. Attached'
  BY DEF Panel, Attached
<1>2. InOrder'
  BY DEF Panel, InOrder
<1>3. Truthful'
  BY DEF Panel, Truthful
<1> QED
  BY <1>1, <1>2, <1>3 DEF Panel

\* What a run became is final once it is recorded or refused.
Settled ==
  \A r \in 1..MaxRuns :
    server[r] \in {"recorded", "refused"} => server'[r] = server[r]

\* A server that says nothing to the page disturbs nothing on it.
LEMMA QuietPanel ==
  ASSUME Typed, Panel, Settled, UNCHANGED <<run, finished, timeline, summary, wire, runs>>,
         line' => line
  PROVE  Panel'
<1> USE ConsoleAssumption
<1>1. Attached'
  BY DEF Panel, Attached
<1>2. InOrder'
  BY DEF Panel, InOrder
<1>3. run # 0 => run \in 1..MaxRuns
  BY DEF Typed, TypeOK
<1>4. summary.run # 0 => summary.run \in 1..MaxRuns
  BY DEF Typed, TypeOK, Messages
<1>5. \A i \in 1..Len(timeline) : timeline[i].run \in 1..MaxRuns
  <2>1. \A i \in 1..Len(timeline) : timeline[i] \in Frames
    BY DEF Typed, TypeOK
  <2> QED
    BY <2>1 DEF Frames
<1>6. \A j \in 1..Len(wire) : run # 0
  BY DEF Panel, Attached
<1>7. Truthful'
  BY <1>3, <1>4, <1>5, <1>6 DEF Panel, Truthful, Settled
<1> QED
  BY <1>1, <1>2, <1>7 DEF Panel

\* Frames of the run that go on where those on the wire end, and are true.
Continues(extra) ==
  \A j \in 1..Len(extra) :
    /\ extra[j].run = run
    /\ extra[j].kind = "step" => extra[j].number = Len(timeline) + Len(wire) + j
    /\ extra[j].kind \in {"step", "answer"} =>
         \A i \in 1..j - 1 : extra[i].kind = "step"
    /\ line' => extra[j].kind = "step"
    /\ extra[j].kind \in {"answer", "done"} => server'[run] = "recorded"
    /\ extra[j].kind = "refused" => server'[run] = "refused"

\* Frames put behind those on the wire keep the order and the truth of all.
LEMMA SentPanel ==
  ASSUME Typed, Panel, Settled, line, run # 0,
         UNCHANGED <<run, finished, timeline, summary, runs>>,
         line' \in BOOLEAN,
         NEW extra \in Seq(Frames), wire' = wire \o extra,
         Continues(extra)
  PROVE  Panel'
<1> USE ConsoleAssumption
<1>1. timeline \in Seq(Frames) /\ wire \in Seq(Frames)
  BY DEF Typed, TypeOK
<1>2. /\ Len(wire') = Len(wire) + Len(extra)
      /\ \A j \in 1..Len(wire) : wire'[j] = wire[j]
      /\ \A j \in 1..Len(wire') :
           j > Len(wire) => j - Len(wire) \in 1..Len(extra)
                            /\ wire'[j] = extra[j - Len(wire)]
  BY <1>1
<1>3. \A j \in 1..Len(wire) : wire[j].kind = "step"
  BY DEF Panel, InOrder
<1>4. \A i \in 1..Len(timeline) : timeline[i].kind = "step"
  BY DEF Panel, InOrder
<1>5. run \in 1..MaxRuns
  BY DEF Typed, TypeOK
<1>6. Attached'
  <2>1. ASSUME NEW j \in 1..Len(wire') PROVE wire'[j].run = run
    <3>1. CASE j \in 1..Len(wire)
      BY <3>1, <1>2 DEF Panel, Attached
    <3>2. CASE j > Len(wire)
      BY <3>2, <1>2 DEF Continues
    <3> QED
      BY <3>1, <3>2, <1>1
  <2> QED
    BY <2>1 DEF Panel, Attached
<1>7. ASSUME NEW j \in 1..Len(wire')
      PROVE  /\ wire'[j].kind = "step" => wire'[j].number = Len(timeline) + j
             /\ wire'[j].kind \in {"step", "answer"} =>
                  \A i \in 1..j - 1 : wire'[i].kind = "step"
             /\ line' => wire'[j].kind = "step"
             /\ wire'[j].kind \in {"answer", "done"} => server'[run] = "recorded"
             /\ wire'[j].kind = "refused" => server'[run] = "refused"
  <2>1. CASE j \in 1..Len(wire)
    <3>1. wire'[j] = wire[j] /\ wire[j].kind = "step"
      BY <2>1, <1>2, <1>3
    <3>2. wire[j].number = Len(timeline) + j
      BY <2>1, <3>1 DEF Panel, InOrder
    <3>3. \A i \in 1..j - 1 : wire'[i].kind = "step"
      BY <2>1, <1>1, <1>2, <1>3
    <3> QED
      BY <3>1, <3>2, <3>3
  <2>2. CASE j > Len(wire)
    <3> DEFINE k == j - Len(wire)
    <3>1. k \in 1..Len(extra) /\ wire'[j] = extra[k]
      BY <2>2, <1>2
    <3>2. wire'[j].kind = "step" => wire'[j].number = Len(timeline) + j
      <4>1. Len(timeline) + Len(wire) + k = Len(timeline) + j
        BY <1>1
      <4> QED
        BY <3>1, <4>1 DEF Continues
    <3>3. ASSUME wire'[j].kind \in {"step", "answer"}, NEW i \in 1..j - 1
          PROVE  wire'[i].kind = "step"
      <4>1. CASE i \in 1..Len(wire)
        BY <4>1, <1>2, <1>3
      <4>2. CASE i > Len(wire)
        <5>1. i \in 1..Len(wire') /\ i - Len(wire) \in 1..k - 1
          BY <4>2, <1>1, <1>2
        <5>2. wire'[i] = extra[i - Len(wire)]
          BY <4>2, <5>1, <1>2
        <5> QED
          BY <3>1, <3>3, <5>1, <5>2 DEF Continues
      <4> QED
        BY <4>1, <4>2, <1>1
    <3> QED
      BY <3>1, <3>2, <3>3 DEF Continues
  <2> QED
    BY <2>1, <2>2, <1>1
<1>8. InOrder'
  <2>1. \A i \in 1..Len(timeline) :
          /\ timeline[i].kind = "step" => timeline[i].number = i
          /\ i < Len(timeline) => timeline[i].kind = "step"
    BY DEF Panel, InOrder
  <2> QED
    BY <1>4, <1>7, <2>1 DEF InOrder
<1>9. Truthful'
  <2>1. summary.run # 0 => summary.run \in 1..MaxRuns
    BY DEF Typed, TypeOK, Messages
  <2>2. /\ summary.kind = "done" => summary.run # 0 /\ server'[summary.run] = "recorded"
        /\ summary.kind = "refused" => summary.run # 0 /\ server'[summary.run] = "refused"
        /\ finished => summary.run = run /\ summary.kind \in {"done", "error"} /\ run # 0
    BY <2>1 DEF Panel, Truthful, Settled
  <2> QED
    BY <1>4, <1>7, <2>2 DEF Truthful
<1> QED
  BY <1>6, <1>8, <1>9 DEF Panel

\* What the page reads first is the head of the wire, and leaves its tail.
LEMMA HeadOfWire ==
  ASSUME Typed, Panel, wire # <<>>
  PROVE  /\ wire \in Seq(Frames) /\ Head(wire) = wire[1] /\ Head(wire) \in Frames
         /\ Tail(wire) \in Seq(Frames) /\ Len(Tail(wire)) = Len(wire) - 1
         /\ Len(wire) \in Nat \ {0}
         /\ \A j \in 1..Len(Tail(wire)) :
              Tail(wire)[j] = wire[j + 1] /\ j + 1 \in 1..Len(wire)
         /\ Head(wire).run = run
BY DEF Typed, TypeOK, Panel, Attached

LEMMA ReadStepPanel == ASSUME Typed, Panel, ReadStep PROVE Panel'
<1>1. /\ wire # <<>> /\ run # 0 /\ Head(wire).kind \in {"step", "answer"}
      /\ timeline' = Append(timeline, Head(wire)) /\ wire' = Tail(wire)
      /\ UNCHANGED <<run, finished, summary, line, runs, server>>
  BY DEF ReadStep, Reading
<1>2. timeline \in Seq(Frames)
  BY DEF Typed, TypeOK
<1>3. /\ wire \in Seq(Frames) /\ Head(wire) = wire[1] /\ Head(wire) \in Frames
      /\ Len(wire') = Len(wire) - 1 /\ Len(wire) \in Nat \ {0}
      /\ \A j \in 1..Len(wire') : wire'[j] = wire[j + 1] /\ j + 1 \in 1..Len(wire)
      /\ Head(wire).run = run
  BY <1>1, HeadOfWire
<1>4. /\ Len(timeline') = Len(timeline) + 1
      /\ \A i \in 1..Len(timeline) : timeline'[i] = timeline[i]
      /\ timeline'[Len(timeline) + 1] = Head(wire)
      /\ \A i \in 1..Len(timeline') : i \in 1..Len(timeline) \/ i = Len(timeline) + 1
  BY <1>1, <1>2, <1>3
<1>5. \A i \in 1..Len(timeline) : timeline[i].kind = "step"
  BY <1>1, <1>3 DEF Panel, InOrder
<1>6. Attached'
  <2>1. \A i \in 1..Len(timeline') :
          timeline'[i].run = runs /\ timeline'[i].kind \in {"step", "answer"}
    BY <1>1, <1>3, <1>4 DEF Panel, Attached
  <2> QED
    BY <1>1, <1>3, <2>1 DEF Panel, Attached
<1>7. InOrder'
  <2>1. ASSUME NEW i \in 1..Len(timeline')
        PROVE  /\ timeline'[i].kind = "step" => timeline'[i].number = i
               /\ i < Len(timeline') => timeline'[i].kind = "step"
    <3>1. CASE i \in 1..Len(timeline)
      BY <3>1, <1>4, <1>5 DEF Panel, InOrder
    <3>2. CASE i = Len(timeline) + 1
      <4>1. wire[1].kind = "step" => wire[1].number = Len(timeline) + 1
        BY <1>3 DEF Panel, InOrder
      <4> QED
        BY <3>2, <4>1, <1>2, <1>3, <1>4
    <3> QED
      BY <3>1, <3>2, <1>4
  <2>2. ASSUME NEW j \in 1..Len(wire')
        PROVE  /\ wire'[j].kind = "step" => wire'[j].number = Len(timeline') + j
               /\ wire'[j].kind \in {"step", "answer"} =>
                    /\ \A i \in 1..j - 1 : wire'[i].kind = "step"
                    /\ \A i \in 1..Len(timeline') : timeline'[i].kind = "step"
    <3>1. wire'[j] = wire[j + 1] /\ j + 1 \in 1..Len(wire)
      BY <1>3
    <3>2. wire'[j].kind = "step" => wire'[j].number = Len(timeline') + j
      <4>1. wire[j + 1].kind = "step" => wire[j + 1].number = Len(timeline) + (j + 1)
        BY <3>1 DEF Panel, InOrder
      <4> QED
        BY <3>1, <4>1, <1>2, <1>4
    <3>3. ASSUME wire'[j].kind \in {"step", "answer"}
          PROVE  \A i \in 1..j : wire[i].kind = "step"
      BY <3>1, <3>3 DEF Panel, InOrder
    <3>4. ASSUME wire'[j].kind \in {"step", "answer"}
          PROVE  /\ \A i \in 1..j - 1 : wire'[i].kind = "step"
                 /\ Head(wire).kind = "step"
      BY <3>3, <3>4, <1>3
    <3> QED
      BY <3>2, <3>4, <1>4, <1>5
  <2>3. line' => /\ \A j \in 1..Len(wire') : wire'[j].kind = "step"
                 /\ \A i \in 1..Len(timeline') : timeline'[i].kind = "step"
    BY <1>1, <1>3, <1>4 DEF Panel, InOrder
  <2> QED
    BY <2>1, <2>2, <2>3 DEF InOrder
<1>8. Truthful'
  <2>1. \A j \in 1..Len(wire') :
          /\ wire'[j].kind \in {"answer", "done"} => server[run] = "recorded"
          /\ wire'[j].kind = "refused" => server[run] = "refused"
    BY <1>3 DEF Panel, Truthful
  <2>2. Head(wire).kind = "answer" => server[run] = "recorded"
    BY <1>3 DEF Panel, Truthful
  <2>3. \A i \in 1..Len(timeline') :
          timeline'[i].kind = "answer" => server[timeline'[i].run] = "recorded"
    BY <2>2, <1>3, <1>4 DEF Panel, Truthful
  <2> QED
    BY <1>1, <2>1, <2>3 DEF Panel, Truthful
<1> QED
  BY <1>6, <1>7, <1>8 DEF Panel

LEMMA ReadVerdictPanel == ASSUME Typed, Panel, ReadVerdict PROVE Panel'
<1>1. /\ wire # <<>> /\ run # 0 /\ Head(wire).kind \in {"done", "error"}
      /\ finished' = TRUE /\ wire' = Tail(wire)
      /\ summary' = [kind |-> Head(wire).kind, run |-> run]
      /\ UNCHANGED <<run, timeline, line, runs, server>>
  BY DEF ReadVerdict, Reading
<1>2. /\ wire \in Seq(Frames) /\ Head(wire) = wire[1]
      /\ Len(wire') = Len(wire) - 1 /\ Len(wire) \in Nat \ {0}
      /\ \A j \in 1..Len(wire') : wire'[j] = wire[j + 1] /\ j + 1 \in 1..Len(wire)
  BY <1>1, HeadOfWire
<1>3. ~line
  BY <1>1, <1>2 DEF Panel, InOrder
<1>4. \A j \in 1..Len(wire') : wire'[j].kind \notin {"step", "answer"}
  <2> SUFFICES ASSUME NEW j \in 1..Len(wire'), wire'[j].kind \in {"step", "answer"}
               PROVE  FALSE
    OBVIOUS
  <2>1. wire[j + 1].kind \in {"step", "answer"} /\ j + 1 \in 1..Len(wire)
    BY <1>2
  <2>2. 1 \in 1..(j + 1) - 1
    BY <1>2
  <2>3. wire[1].kind = "step"
    BY <2>1, <2>2 DEF Panel, InOrder
  <2> QED
    BY <2>3, <1>1, <1>2
<1>5. Attached'
  BY <1>1, <1>2, <1>3 DEF Panel, Attached
<1>6. InOrder'
  BY <1>1, <1>3, <1>4 DEF Panel, InOrder
<1>7. Truthful'
  <2>1. Head(wire).kind = "done" => server[run] = "recorded"
    BY <1>2 DEF Panel, Truthful
  <2>2. \A j \in 1..Len(wire') :
          /\ wire'[j].kind \in {"answer", "done"} => server[run] = "recorded"
          /\ wire'[j].kind = "refused" => server[run] = "refused"
    BY <1>2 DEF Panel, Truthful
  <2> QED
    BY <1>1, <2>1, <2>2 DEF Panel, Truthful
<1> QED
  BY <1>5, <1>6, <1>7 DEF Panel

LEMMA StepPanel == Typed /\ Panel /\ [Next]_vars => Panel'
<1> SUFFICES ASSUME Typed, Panel, [Next]_vars PROVE Panel'
  OBVIOUS
<1> USE ConsoleAssumption
<1>t. /\ wire \in Seq(Frames) /\ timeline \in Seq(Frames)
      /\ runs \in 0..MaxRuns /\ run \in 0..runs /\ line \in BOOLEAN
      /\ server \in [1..MaxRuns -> {"unasked", "asked", "refused", "running",
                                    "recorded", "failed"}]
  BY DEF Typed, TypeOK
<1>1. ASSUME UNCHANGED <<panel, remote>> PROVE Panel'
  <2>1. Settled
    BY <1>1 DEF Settled, remote
  <2> QED
    BY <1>1, <2>1, QuietPanel DEF panel, remote
<1>2. ASSUME Disconnect PROVE Panel'
  <2>1. timeline' = <<>> /\ UNCHANGED <<runs, server>>
    BY <1>2 DEF Disconnect
  <2>2. CASE run = 0
    <3>1. summary' = NoMessage /\ UNCHANGED <<run, finished, line, wire>>
      BY <1>2, <2>2 DEF Disconnect
    <3>2. ~line /\ wire = <<>> /\ ~finished
      BY <2>2 DEF Panel, Attached, Truthful
    <3> QED
      BY <2>1, <2>2, <3>1, <3>2 DEF Panel, Attached, InOrder, Truthful, NoMessage
  <2>3. CASE run # 0
    <3>1. RunEndsWith("stopped")
      BY <1>2, <2>3 DEF Disconnect
    <3> QED
      BY <2>1, <3>1, EndedPanel
  <2> QED
    BY <2>2, <2>3
<1>3. ASSUME Reload PROVE Panel'
  BY <1>3 DEF Reload, Panel, Attached, InOrder, Truthful, NoMessage
<1>4. ASSUME RunAgent PROVE Panel'
  <2>1. wire = <<>> /\ wire' = <<>>
    BY <1>4 DEF RunAgent, Panel, Attached
  <2>2. /\ run' = runs' /\ run' # 0 /\ timeline' = <<>> /\ summary' = NoMessage
        /\ finished' = FALSE
    BY <1>4, <1>t DEF RunAgent
  <2> QED
    BY <2>1, <2>2 DEF Panel, Attached, InOrder, Truthful, NoMessage
<1>5. ASSUME Stop PROVE Panel'
  BY <1>5, EndedPanel DEF Stop
<1>6. ASSUME ReadEnd PROVE Panel'
  <2>1. run # 0 /\ UNCHANGED <<timeline, runs, server>>
    BY <1>6 DEF ReadEnd, Reading
  <2>2. CASE finished
    <3>1. /\ RunEndsWith(summary.kind) /\ summary.run = run
          /\ summary.kind \in {"done", "error"}
      BY <1>6, <2>2 DEF ReadEnd, Panel, Truthful
    <3>2. /\ summary.kind = "done" => server[run] = "recorded"
          /\ summary.kind # "refused"
      BY <3>1 DEF Panel, Truthful
    <3> QED
      BY <2>1, <3>1, <3>2, EndedPanel
  <2>3. CASE ~finished
    <3>1. RunEndsWith("unfinished")
      BY <1>6, <2>3 DEF ReadEnd
    <3> QED
      BY <2>1, <3>1, EndedPanel
  <2> QED
    BY <2>2, <2>3
<1>7. ASSUME ReadFailure PROVE Panel'
  <2>1. /\ run # 0 /\ wire # <<>> /\ Head(wire).kind \in {"refused", "broken"}
        /\ RunEndsWith(Head(wire).kind) /\ UNCHANGED <<timeline, runs, server>>
    BY <1>7 DEF ReadFailure, Reading
  <2>2. Head(wire).kind = "refused" => server[run] = "refused"
    BY <2>1, HeadOfWire DEF Panel, Truthful
  <2> QED
    BY <2>1, <2>2, EndedPanel
<1>8. ASSUME NEW r \in 1..runs, Refuse(r) PROVE Panel'
  <2>1. /\ server[r] = "asked" /\ server' = [server EXCEPT ![r] = "refused"]
        /\ UNCHANGED <<run, finished, timeline, summary, runs>>
    BY <1>8 DEF Refuse, Becomes, panel
  <2>2. Settled
    BY <2>1, <1>t DEF Settled
  <2>3. CASE Listening(r)
    <3>1. /\ line /\ run = r /\ run # 0 /\ line' = FALSE
          /\ wire' = Append(wire, Frame("refused", 0))
      BY <1>8, <2>3, <1>t DEF Refuse, Listening
    <3>2. Frame("refused", 0) \in Frames
      BY <3>1, FramesTyped
    <3>3. wire' = wire \o <<Frame("refused", 0)>>
      BY <3>1, <3>2, <1>t
    <3>4. /\ <<Frame("refused", 0)>> \in Seq(Frames)
          /\ server'[run] = "refused"
      BY <3>1, <3>2, <2>1, <1>t
    <3>5. Frame("refused", 0).kind = "refused" /\ Frame("refused", 0).run = run
      BY DEF Frame
    <3>6. Continues(<<Frame("refused", 0)>>)
      BY <3>1, <3>4, <3>5 DEF Continues
    <3> QED
      BY <2>1, <2>2, <3>1, <3>3, <3>4, <3>6, SentPanel
  <2>4. CASE ~Listening(r)
    BY <1>8, <2>1, <2>2, <2>4, QuietPanel DEF Refuse
  <2> QED
    BY <2>3, <2>4
<1>9. ASSUME NEW r \in 1..runs, Accept(r) \/ Record(r) PROVE Panel'
  <2>1. /\ server[r] \in {"asked", "running"}
        /\ \E status : server' = [server EXCEPT ![r] = status]
        /\ UNCHANGED <<run, finished, timeline, summary, wire, line, runs>>
    BY <1>9 DEF Accept, Record, Becomes, panel
  <2>2. Settled
    BY <2>1, <1>t DEF Settled
  <2> QED
    BY <2>1, <2>2, QuietPanel
<1>10. ASSUME NEW r \in 1..runs, SendStep(r) PROVE Panel'
  <2> DEFINE f == Frame("step", StepsSent + 1)
  <2>1. /\ line /\ run = r /\ run # 0 /\ wire' = Append(wire, f)
        /\ UNCHANGED <<run, finished, timeline, summary, line, runs, server>>
    BY <1>10, <1>t DEF SendStep, Listening, panel
  <2>2. StepsSent + 1 \in 0..MaxSteps
    BY <1>10, <1>t DEF SendStep, StepsSent
  <2>3. f \in Frames
    BY <2>1, <2>2, FramesTyped
  <2>4. f.run = run /\ f.kind = "step" /\ f.number = Len(timeline) + Len(wire) + 1
    BY DEF Frame, StepsSent
  <2>5. wire' = wire \o <<f>> /\ <<f>> \in Seq(Frames)
    BY <2>1, <2>3, <1>t
  <2>6. Settled
    BY <2>1 DEF Settled
  <2> HIDE DEF f
  <2>7. Continues(<<f>>)
    <3>1. \A j \in 1..Len(<<f>>) : j = 1 /\ <<f>>[j] = f
      OBVIOUS
    <3> QED
      BY <2>4, <3>1 DEF Continues
  <2> QED
    BY <2>1, <2>5, <2>6, <2>7, <1>t, SentPanel
<1>11. ASSUME NEW r \in 1..runs, Finish(r) PROVE Panel'
  <2>1. /\ line /\ run = r /\ run # 0 /\ line' = FALSE /\ server[run] = "recorded"
        /\ UNCHANGED <<run, finished, timeline, summary, runs, server>>
    BY <1>11, <1>t DEF Finish, Listening, panel
  <2>2. PICK answer \in {<<>>, <<Frame("answer", 0)>>} :
          wire' = wire \o answer \o <<Frame("done", 0), Frame("end", 0)>>
    BY <1>11 DEF Finish
  <2> DEFINE a == Frame("answer", 0)
             d == Frame("done", 0)
             e == Frame("end", 0)
  <2>3. a \in Frames /\ d \in Frames /\ e \in Frames
    BY <2>1, FramesTyped
  <2>4. /\ a.run = run /\ a.kind = "answer" /\ d.run = run /\ d.kind = "done"
        /\ e.run = run /\ e.kind = "end"
    BY DEF Frame
  <2>5. Settled
    BY <2>1 DEF Settled
  <2>6. wire' = wire \o <<d, e>> \/ wire' = wire \o <<a, d, e>>
    <3>1. CASE answer = <<>>
      BY <2>2, <2>3, <3>1, <1>t
    <3>2. CASE answer = <<a>>
      BY <2>2, <2>3, <3>2, <1>t
    <3> QED
      BY <2>2, <3>1, <3>2
  <2> HIDE DEF a, d, e
  <2>7. CASE wire' = wire \o <<d, e>>
    <3>1. <<d, e>> \in Seq(Frames) /\ Len(<<d, e>>) = 2
      BY <2>3
    <3>2. Continues(<<d, e>>)
      BY <2>1, <2>4 DEF Continues
    <3> QED
      BY <2>1, <2>5, <2>7, <3>1, <3>2, SentPanel
  <2>8. CASE wire' = wire \o <<a, d, e>>
    <3>1. <<a, d, e>> \in Seq(Frames) /\ Len(<<a, d, e>>) = 3
      BY <2>3
    <3>2. Continues(<<a, d, e>>)
      BY <2>1, <2>4 DEF Continues
    <3> QED
      BY <2>1, <2>5, <2>8, <3>1, <3>2, SentPanel
  <2> QED
    BY <2>6, <2>7, <2>8
<1>12. ASSUME NEW r \in 1..runs, Fail(r) PROVE Panel'
  <2>1. /\ server[r] \in {"running", "recorded"}
        /\ server' = [server EXCEPT ![r] =
                        IF server[r] = "recorded" THEN "recorded" ELSE "failed"]
        /\ UNCHANGED <<run, finished, timeline, summary, runs>>
    BY <1>12 DEF Fail, Becomes, panel
  <2>2. Settled
    BY <2>1, <1>t DEF Settled
  <2>3. CASE Listening(r)
    <3> DEFINE x == Frame("error", 0)
               e == Frame("end", 0)
    <3>1. line /\ run # 0 /\ line' = FALSE /\ wire' = wire \o <<x, e>>
      <4>1. line /\ run = r
        BY <2>3 DEF Listening
      <4>2. line' = FALSE /\ wire' = wire \o <<x, e>>
        BY <1>12, <2>3 DEF Fail
      <4> QED
        BY <4>1, <4>2, <1>t
    <3>2. x \in Frames /\ e \in Frames
      BY <3>1, FramesTyped
    <3>3. x.run = run /\ x.kind = "error" /\ e.run = run /\ e.kind = "end"
      BY DEF Frame
    <3> HIDE DEF x, e
    <3>4. <<x, e>> \in Seq(Frames) /\ Len(<<x, e>>) = 2
      BY <3>2
    <3>5. ~line'
      BY <3>1
    <3>6. \A j \in 1..2 : <<x, e>>[j] \in {x, e}
      OBVIOUS
    <3>7. Continues(<<x, e>>)
      BY <3>3, <3>4, <3>5, <3>6 DEF Continues
    <3> QED
      BY <2>1, <2>2, <3>1, <3>4, <3>7, SentPanel
  <2>4. CASE ~Listening(r)
    BY <1>12, <2>1, <2>2, <2>4, QuietPanel DEF Fail
  <2> QED
    BY <2>3, <2>4
<1>13. ASSUME Cut PROVE Panel'
  <2>1. PICK kind \in {"end", "broken"} : wire' = Append(wire, Frame(kind, 0))
    BY <1>13 DEF Cut
  <2>2. /\ line /\ run # 0 /\ line' = FALSE
        /\ UNCHANGED <<run, finished, timeline, summary, runs, server>>
    BY <1>13 DEF Cut, panel
  <2> DEFINE f == Frame(kind, 0)
  <2>3. f \in Frames
    BY <2>2, FramesTyped
  <2>4. f.run = run /\ f.kind \in {"end", "broken"}
    BY DEF Frame
  <2>5. wire' = wire \o <<f>> /\ <<f>> \in Seq(Frames)
    BY <2>1, <2>3, <1>t
  <2>6. Settled
    BY <2>2 DEF Settled
  <2> HIDE DEF f
  <2>7. Continues(<<f>>)
    BY <2>2, <2>4 DEF Continues
  <2> QED
    BY <2>2, <2>5, <2>6, <2>7, SentPanel
<1>14. ASSUME \/ \E key \in Keys :
                   \/ Connect(key) \/ Connected(key) \/ ConnectFails(key)
                   \/ AgentsArrive(key) \/ AgentsFail(key)
              \/ \E agent \in Agents : SelectAgent(agent)
              \/ RefreshAgents \/ UNCHANGED vars
       PROVE  UNCHANGED <<panel, remote>>
  BY <1>14 DEF Connect, Connected, ConnectFails, AgentsArrive, AgentsFail, SelectAgent,
               RefreshAgents, vars
<1> QED
  BY <1>1, <1>2, <1>3, <1>4, <1>5, <1>6, <1>7, <1>8, <1>9, <1>10, <1>11, <1>12,
     <1>13, <1>14, ReadStepPanel, ReadVerdictPanel
     DEF Next, User, Answers, Read, Serve

LEMMA PanelInvariant == Spec => [](Typed /\ Panel)
<1>1. Typed /\ Panel /\ [Next]_vars => Typed' /\ Panel'
  BY StepTyped, StepPanel
<1>2. Init => Typed /\ Panel
  BY InitTyped, InitPanel
<1> QED
  BY <1>1, <1>2, PTL DEF Spec

\* The timeline is the beginning of the last run, in order and without a gap.
THEOREM TimelineKept == Spec => []TimelineIsOneRun
<1>1. Typed /\ Panel => TimelineIsOneRun
  BY DEF Typed, TypeOK, Panel, Attached, InOrder, TimelineIsOneRun
<1> QED
  BY <1>1, PanelInvariant, PTL

\* What the page says of a run is what the server did with it.
THEOREM VerdictTrue == Spec => []VerdictIsTheServers
<1>1. Panel => VerdictIsTheServers
  BY DEF Panel, Truthful, VerdictIsTheServers
<1> QED
  BY <1>1, PanelInvariant, PTL
=============================================================================
