------------------------------ MODULE Console ------------------------------
(***************************************************************************)
(* The page of app/static/app.js: one browser tab, what it holds of its    *)
(* session, the requests it has in flight, and the run it listens to.      *)
(*                                                                         *)
(* Between two awaits a handler runs alone, so an action is the stretch of *)
(* a handler from one answer to the next request.  Aborting a run rejects  *)
(* what its handler awaits, and the rest of that handler runs before any   *)
(* other event: an abort and what follows from it are one action.          *)
(*                                                                         *)
(* The server is what StreamedRun shows it to be: a run is refused, or     *)
(* shows steps and is then recorded, or fails; it goes on when the page    *)
(* stops listening.  The usage panel, which is filled like the list of     *)
(* agents, models and available tools, which are the same for every        *)
(* tenant, the banner, and the two forms that create an agent and add a    *)
(* document are left out; an agent list may be any of the tenant's agents, *)
(* since the forms and other clients change it.                            *)
(***************************************************************************)
EXTENDS Integers, Sequences

CONSTANTS
  Keys,       \* the API keys somebody may enter here
  Tenants,
  TenantOf,   \* the tenant a key authenticates
  Agents,
  AgentsOf,   \* the agents a tenant may have
  None,       \* null
  MaxRuns,    \* bound: runs started in this tab
  MaxSteps,   \* bound: steps of a run
  MaxCopies   \* bound: further equal requests in flight are merged

ASSUME ConsoleAssumption ==
  /\ None \notin Keys \cup Tenants \cup Agents
  /\ TenantOf \in [Keys -> Tenants]
  /\ AgentsOf \in [Tenants -> SUBSET Agents]
  /\ MaxRuns \in Nat /\ MaxSteps \in Nat
  /\ MaxCopies \in Nat \ {0}

VARIABLES
  apiKey,     \* state.apiKey
  tenantId,   \* state.tenantId, which the header shows
  stored,     \* the key in sessionStorage
  swallowed,  \* history: a call of the storage failed, and neither the last write
              \* nor a reload has made the page and the storage agree since
  workspace,  \* the workspace is shown, and not the form that asks for a key
  agents,     \* state.agents
  selected,   \* state.selectedAgentId
  listed,     \* the agents in the list on the page
  inFlight,   \* how many requests of each kind, by the key each was sent with
  run,        \* the run state.run is about, 0 for null
  finished,   \* runAgent's finished
  timeline,   \* the steps on the page
  summary,    \* the message under them
  line,       \* the server can still send to the page what that run does
  wire,       \* what it has sent and the page has not read
  runs,       \* how many runs this tab has asked for
  server,     \* what became of each run
  hurried     \* history: a connect was sent while another was unanswered

storage == <<stored, swallowed>>
session == <<apiKey, tenantId, storage, workspace>>
lists == <<agents, selected, listed>>
panel == <<run, finished, timeline, summary>>
remote == <<line, wire, runs, server>>
vars == <<session, lists, inFlight, panel, remote, hurried>>

-----------------------------------------------------------------------------
Requests == {"connect", "agents"}

\* api(): a request carries the key the page holds when it is sent.  Without
\* a key it is refused, which changes nothing: it is not followed any further.
SendWith(pending, request, key) ==
  IF key = None THEN pending
  ELSE [pending EXCEPT ![request][key] = IF @ < MaxCopies THEN @ + 1 ELSE @]

Answered(request, key) == [inFlight EXCEPT ![request][key] = @ - 1]

NothingInFlight == [request \in Requests |-> [key \in Keys |-> 0]]

\* A frame of a run; only steps are numbered.
Frame(kind, number) == [run |-> run, kind |-> kind, number |-> number]

NoMessage == [kind |-> "hidden", run |-> 0]

\* storageSet: a write, or the removal that None stands for, may fail, which
\* nobody is told of; the storage then keeps what it had.
Store(value) ==
  /\ stored' \in {value, stored}
  /\ swallowed' = (stored' # value)

\* storageGet: what a read may give; one that fails finds no key.
Recalled == {stored, None}

Connecting == \E key \in Keys : inFlight["connect"][key] > 0

Init ==
  /\ apiKey = None /\ tenantId = None /\ stored = None /\ swallowed = FALSE
  /\ workspace = FALSE
  /\ agents = {} /\ selected = None /\ listed = {}
  /\ inFlight = NothingInFlight
  /\ run = 0 /\ finished = FALSE /\ timeline = <<>> /\ summary = NoMessage
  /\ line = FALSE /\ wire = <<>>
  /\ runs = 0 /\ server = [r \in 1..MaxRuns |-> "unasked"]
  /\ hurried = FALSE

-----------------------------------------------------------------------------
\* The session.

\* The form is submitted.  Nothing disables it while an answer is awaited.
Connect(key) ==
  /\ ~workspace
  /\ apiKey' = key
  /\ inFlight' = SendWith(inFlight, "connect", key)
  /\ hurried' = (hurried \/ Connecting)
  /\ UNCHANGED <<tenantId, storage, workspace, lists, panel, remote>>

\* The key is good.  The agents are asked for with the key the page holds by
\* then, the one that was connected is stored.
Connected(key) ==
  /\ inFlight["connect"][key] > 0
  /\ inFlight' = SendWith(Answered("connect", key), "agents", apiKey)
  /\ tenantId' = TenantOf[key]
  /\ Store(key)
  /\ workspace' = TRUE
  /\ UNCHANGED <<apiKey, agents, selected, listed, panel, remote, hurried>>

\* Mutant: a key that is refused stays in the storage.
ConnectFailsForgetful(key) ==
  /\ inFlight["connect"][key] > 0
  /\ inFlight' = Answered("connect", key)
  /\ apiKey' = None
  /\ UNCHANGED <<tenantId, storage, workspace, lists, panel, remote, hurried>>

\* Any failure, a bad key or a server out of reach, forgets the key.
ConnectFails(key) ==
  /\ inFlight["connect"][key] > 0
  /\ inFlight' = Answered("connect", key)
  /\ apiKey' = None
  /\ Store(None)
  /\ UNCHANGED <<tenantId, workspace, lists, panel, remote, hurried>>

\* What runAgent does when its stream is over, however it ended.
RunEndsWith(kind) ==
  /\ run' = 0
  /\ finished' = FALSE
  /\ summary' = [kind |-> kind, run |-> run]
  /\ line' = FALSE
  /\ wire' = <<>>

\* The session is dropped and the panes are swapped.  A run is aborted, and
\* its handler goes on after the timeline was reset.  The list on the page
\* is left as it is, and so are requests in flight.
Disconnect ==
  /\ workspace
  /\ apiKey' = None /\ tenantId' = None
  /\ Store(None)
  /\ agents' = {} /\ selected' = None
  /\ workspace' = FALSE
  /\ timeline' = <<>>
  /\ IF run = 0
     THEN summary' = NoMessage /\ UNCHANGED <<run, finished, line, wire>>
     ELSE RunEndsWith("stopped")
  /\ UNCHANGED <<listed, inFlight, runs, server, hurried>>

\* Reload, or the tab's first load: all is lost but the stored key, with
\* which init() connects.  Runs go on without a listener.
Reload ==
  /\ apiKey' \in Recalled
  /\ swallowed' = (apiKey' # stored)
  /\ tenantId' = None
  /\ workspace' = FALSE
  /\ agents' = {} /\ selected' = None /\ listed' = {}
  /\ inFlight' = SendWith(NothingInFlight, "connect", apiKey')
  /\ run' = 0 /\ finished' = FALSE /\ timeline' = <<>> /\ summary' = NoMessage
  /\ line' = FALSE /\ wire' = <<>>
  /\ hurried' = FALSE
  /\ UNCHANGED <<stored, runs, server>>

-----------------------------------------------------------------------------
\* The list of agents.

\* The button that refreshes it.
RefreshAgents ==
  /\ workspace
  /\ inFlight' = SendWith(inFlight, "agents", apiKey)
  /\ UNCHANGED <<session, lists, panel, remote, hurried>>

\* Mutant: the first agent of a list is selected, also if there is none.
AgentsArriveUnchecked(key) ==
  /\ inFlight["agents"][key] > 0
  /\ inFlight' = Answered("agents", key)
  /\ \E found \in SUBSET AgentsOf[TenantOf[key]] :
       /\ agents' = found
       /\ listed' = found
       /\ selected' \in IF selected \in found THEN {selected}
                        ELSE IF found = {} THEN {"undefined"} ELSE found
  /\ UNCHANGED <<session, panel, remote, hurried>>

\* loadAgents: the selection is kept if the agent is still there, or else it
\* is the first of the list, whichever that is.
AgentsArrive(key) ==
  /\ inFlight["agents"][key] > 0
  /\ inFlight' = Answered("agents", key)
  /\ \E found \in SUBSET AgentsOf[TenantOf[key]] :
       /\ agents' = found
       /\ listed' = found
       /\ selected' \in IF found = {} THEN {None}
                        ELSE IF selected \in found THEN {selected} ELSE found
  /\ UNCHANGED <<session, panel, remote, hurried>>

\* A failure is shown, or swallowed, and changes nothing.
AgentsFail(key) ==
  /\ inFlight["agents"][key] > 0
  /\ inFlight' = Answered("agents", key)
  /\ UNCHANGED <<session, lists, panel, remote, hurried>>

\* A click on an agent of the list, which is then drawn anew.
SelectAgent(agent) ==
  /\ workspace
  /\ agent \in listed
  /\ selected' = agent
  /\ listed' = agents
  /\ UNCHANGED <<session, agents, inFlight, panel, remote, hurried>>

-----------------------------------------------------------------------------
\* The run panel.

\* The run form is submitted; the run is asked for at once.
RunAgent ==
  /\ workspace /\ selected # None /\ run = 0
  /\ runs < MaxRuns
  /\ runs' = runs + 1
  /\ run' = runs + 1
  /\ finished' = FALSE
  /\ timeline' = <<>> /\ summary' = NoMessage
  /\ line' = TRUE
  /\ server' = [server EXCEPT ![runs + 1] = "asked"]
  /\ UNCHANGED <<session, lists, inFlight, wire, hurried>>

Reading(kind) ==
  /\ run # 0
  /\ wire # <<>>
  /\ Head(wire).kind = kind

\* A step is drawn below the others.
ReadStep ==
  /\ \E kind \in {"step", "answer"} : Reading(kind)
  /\ timeline' = Append(timeline, Head(wire))
  /\ wire' = Tail(wire)
  /\ UNCHANGED <<session, lists, inFlight, run, finished, summary, line, runs,
                 server, hurried>>

\* A terminal frame: the message says that the run is recorded, or failed.
ReadVerdict ==
  /\ \E kind \in {"done", "error"} : Reading(kind)
  /\ finished' = TRUE
  /\ summary' = [kind |-> Head(wire).kind, run |-> run]
  /\ wire' = Tail(wire)
  /\ UNCHANGED <<session, lists, inFlight, run, timeline, line, runs, server, hurried>>

\* Mutant: a stream that ends is taken for a run that is done.
ReadEndTrusting ==
  /\ Reading("end")
  /\ RunEndsWith("done")
  /\ UNCHANGED <<session, lists, inFlight, timeline, runs, server, hurried>>

\* The stream ends; without a terminal frame the page says so.
ReadEnd ==
  /\ Reading("end")
  /\ RunEndsWith(IF finished THEN summary.kind ELSE "unfinished")
  /\ UNCHANGED <<session, lists, inFlight, timeline, runs, server, hurried>>

\* Mutant: a connection that breaks leaves the handler waiting.
ReadRejection ==
  /\ Reading("refused")
  /\ RunEndsWith("refused")
  /\ UNCHANGED <<session, lists, inFlight, timeline, runs, server, hurried>>

\* The request is rejected, or the connection breaks: whatever was shown
\* before, the message is the error's.
ReadFailure ==
  /\ \E kind \in {"refused", "broken"} : Reading(kind)
  /\ RunEndsWith(Head(wire).kind)
  /\ UNCHANGED <<session, lists, inFlight, timeline, runs, server, hurried>>

\* Mutant: the fetch was given no signal, and its frames keep coming.
StopDeaf ==
  /\ run # 0
  /\ run' = 0
  /\ finished' = FALSE
  /\ summary' = [kind |-> "stopped", run |-> run]
  /\ UNCHANGED <<session, lists, inFlight, timeline, line, wire, runs, server, hurried>>

\* The stop button aborts the fetch, answered or not.
Stop ==
  /\ run # 0
  /\ RunEndsWith("stopped")
  /\ UNCHANGED <<session, lists, inFlight, timeline, runs, server, hurried>>

Read == ReadStep \/ ReadVerdict \/ ReadEnd \/ ReadFailure

-----------------------------------------------------------------------------
\* The server, for the run r.

Becomes(r, status) ==
  /\ server' = [server EXCEPT ![r] = status]
  /\ UNCHANGED <<session, lists, inFlight, panel, runs, hurried>>

Listening(r) == line /\ run = r

\* Validation: no such agent, a blocked task, a key that is not valid.
Refuse(r) ==
  /\ server[r] = "asked"
  /\ Becomes(r, "refused")
  /\ IF Listening(r)
     THEN line' = FALSE /\ wire' = Append(wire, Frame("refused", 0))
     ELSE UNCHANGED <<line, wire>>

Accept(r) ==
  /\ server[r] = "asked"
  /\ Becomes(r, "running")
  /\ UNCHANGED <<line, wire>>

\* While a run goes on, all that was sent of it, read or not, are steps.
StepsSent == Len(timeline) + Len(wire)

SendStep(r) ==
  /\ server[r] = "running" /\ Listening(r)
  /\ StepsSent < MaxSteps
  /\ wire' = Append(wire, Frame("step", StepsSent + 1))
  /\ UNCHANGED <<session, lists, inFlight, panel, line, runs, server, hurried>>

Record(r) ==
  /\ server[r] = "running"
  /\ Becomes(r, "recorded")
  /\ UNCHANGED <<line, wire>>

\* What a recorded run has left to say: its answer, if there is one, and done.
Finish(r) ==
  /\ server[r] = "recorded" /\ Listening(r)
  /\ \E answer \in {<<>>, <<Frame("answer", 0)>>} :
       wire' = wire \o answer \o <<Frame("done", 0), Frame("end", 0)>>
  /\ line' = FALSE
  /\ UNCHANGED <<session, lists, inFlight, panel, runs, server, hurried>>

\* The run fails; one that cannot read its row back is recorded already.
Fail(r) ==
  /\ server[r] \in {"running", "recorded"}
  /\ Becomes(r, IF server[r] = "recorded" THEN "recorded" ELSE "failed")
  /\ IF Listening(r)
     THEN line' = FALSE /\ wire' = wire \o <<Frame("error", 0), Frame("end", 0)>>
     ELSE server[r] = "running" /\ UNCHANGED <<line, wire>>

\* The connection is lost, or the rest of the stream is dropped because the
\* page did not read it for too long.
Cut ==
  /\ line /\ run # 0
  /\ line' = FALSE
  /\ \E kind \in {"end", "broken"} : wire' = Append(wire, Frame(kind, 0))
  /\ UNCHANGED <<session, lists, inFlight, panel, runs, server, hurried>>

Serve ==
  \E r \in 1..runs :
    Refuse(r) \/ Accept(r) \/ SendStep(r) \/ Record(r) \/ Finish(r) \/ Fail(r)

User ==
  \/ \E key \in Keys : Connect(key)
  \/ Disconnect \/ Reload \/ RefreshAgents
  \/ \E agent \in Agents : SelectAgent(agent)
  \/ RunAgent \/ Stop

Answers ==
  \E key \in Keys :
    Connected(key) \/ ConnectFails(key) \/ AgentsArrive(key) \/ AgentsFail(key)

Next == User \/ Answers \/ Read \/ Serve \/ Cut

\* The server ends what it was asked to run, and the browser delivers what
\* arrived.  Nobody has to click, and no other request has to be answered.
Fairness == WF_vars(Serve) /\ WF_vars(Read)

Spec == Init /\ [][Next]_vars /\ Fairness

-----------------------------------------------------------------------------
\* Properties.

Frames == [run : 1..MaxRuns,
           kind : {"step", "answer", "done", "error", "end", "refused", "broken"},
           number : 0..MaxSteps]

Messages == [run : 0..MaxRuns,
             kind : {"hidden", "done", "error", "unfinished", "refused", "broken",
                     "stopped"}]

\* Types of what the page holds and of what is under way.
TypeOK ==
  /\ apiKey \in Keys \cup {None}
  /\ tenantId \in Tenants \cup {None}
  /\ stored \in Keys \cup {None}
  /\ swallowed \in BOOLEAN
  /\ workspace \in BOOLEAN
  /\ agents \in SUBSET Agents
  /\ selected \in Agents \cup {None}
  /\ listed \in SUBSET Agents
  /\ inFlight \in [Requests -> [Keys -> 0..MaxCopies]]
  /\ run \in 0..runs
  /\ finished \in BOOLEAN
  /\ timeline \in Seq(Frames)
  /\ summary \in Messages
  /\ line \in BOOLEAN
  /\ wire \in Seq(Frames)
  /\ runs \in 0..MaxRuns
  /\ server \in [1..MaxRuns -> {"unasked", "asked", "refused", "running",
                               "recorded", "failed"}]
  /\ hurried \in BOOLEAN

\* The workspace is shown for the tenant of the key the page sends, whatever
\* the storage does; the form, with no connect unanswered, when the page has
\* none.  The stored key is that key too ("it survives a reload"), and none
\* when the page has none, but for a failure of the storage that storageSet or
\* storageGet swallowed.  It takes a user who waits for a connect before the
\* next: late answers of other requests, of this session or an earlier one,
\* change nothing of it.
SessionKeepsItsKey ==
  ~hurried =>
    /\ workspace => apiKey # None /\ tenantId = TenantOf[apiKey]
    /\ ~workspace /\ ~Connecting => apiKey = None
    /\ Connecting \/ stored = apiKey \/ swallowed

\* The page says that a run completed, or shows its answer, only of a run
\* that is recorded, and that it was rejected only of one that never ran,
\* whatever was stopped, cut off or left behind before.
VerdictIsTheServers ==
  /\ summary.kind = "done" => server[summary.run] = "recorded"
  /\ summary.kind = "refused" => server[summary.run] = "refused"
  /\ \A i \in 1..Len(timeline) :
       timeline[i].kind = "answer" => server[timeline[i].run] = "recorded"

\* The timeline is the beginning of one run, the last one asked for: its
\* steps from the first on without a gap, then perhaps its answer.
TimelineIsOneRun ==
  \A i \in 1..Len(timeline) :
    /\ timeline[i].run = runs
    /\ timeline[i].kind = "step" => timeline[i].number = i
    /\ timeline[i].kind = "answer" => i = Len(timeline)

\* The run form comes back: a run ends for the page, with a message, whether
\* the server answers, rejects or fails, or the connection goes.
RunFormComesBack == run # 0 ~> run = 0

-----------------------------------------------------------------------------
\* What the documentation says, and the code does not do.

\* README: "no data, no vector, and no execution is ever visible across
\* tenants", here of the page: the agents it lists are the tenant's.
ShownAgentsAreTheTenants ==
  workspace /\ ~hurried => listed \subseteq AgentsOf[tenantId]
=============================================================================
