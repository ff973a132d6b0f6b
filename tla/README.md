# A TLA+ model of the agent platform

The platform runs agents for tenants: an agent is a name, a role and a set of
tools; a run gives it a task, lets a model call the tools in a loop, and
records what happened. This directory holds a model of the parts of that
program in which an order of events matters, the TLC runs that check it on
small instances, and proofs, checked by TLAPS, of what matters most for
every value of the parameters.

The models follow the code. Where the documentation says something else, the
difference is a run of its own, which TLC is expected to find violated (see
"Where the code and its documentation differ").

## The system

Paths are relative to the repository's `app/`.

| component | state | operations | talks to |
|---|---|---|---|
| agent execution loop, `core/execution_loop.py` | the graph's channels: messages, steps, error streak, force_text, model calls | `call_model`, `execute_tools`, the edges, `stream_execution_loop` | providers, tools; pulled by whoever iterates it |
| streamed run, `core/stream.py`, `services/execution_service.py` | a bounded queue, a worker thread, a generator, `reader_stalled` | `produce`, `relay`, `emit`, the generator, `_record_execution` | the loop, the database, the web server, the client |
| knowledge base, `core/rag/` | one vector collection per tenant | `ingest`; expand, retrieve, merge, narrow, generate | the store, a local embedder and reranker, the providers |
| usage accounting, `core/usage.py` | `_current_usage` (a context variable), one `Usage` per scope | `track_usage`, `record`, `cost_usd` | every model call of a run, however deep |
| execution ledger, `repositories/execution_repo.py` | the `executions` table | `create`, `aggregate_usage`, `get_by_agent` | both kinds of runs; `/usage`, the history |
| providers, `core/llm.py` | cached clients | `chat_completion` | accounting |
| registry, `services/agent_service.py`, `services/tool_service.py` and their repositories | agents, tools, `agent_tools` rows | create, update, delete, list | runs resolve their agent here |
| chunker, `core/rag/chunker.py` | the group of sentences being collected | `semantic_chunk`, `recursive_chunk` | ingestion |
| console, `static/app.js` | the session's key, tenant and agents, the run it listens to, the timeline; the SSE parser's buffer | connect, disconnect, refresh, select, run, stop, reload; what each answer or frame does when it comes | the HTTP API, `sessionStorage` |
| guardrail, tool implementations, prompt builder, calculator, auth, configuration, schemas, error handlers | none | functions of one request | |

The deployment is one server process (uvicorn) over PostgreSQL, where each
statement of a transaction sees what is committed by then. Blocking requests run in a
thread pool; a streamed run has one thread more; the ingestion endpoint is a
coroutine that never yields while it indexes, so ingestions are serial.

### What is hard

- **Interleaving.** Runs share a process, and usage is collected through one
  module-level variable; a search reads a collection that is being written;
  a report is three queries over a table that grows; a producer, a reader and
  a client share a queue.
- **Failure in the middle.** The loop raises after steps were shown; the commit
  fails, or succeeds and cannot be read back; a request is retried inside an
  `except`; the expansion of a query fails; the process stops.
- **Ordering.** Steps are yielded while the graph is suspended; the answer must
  wait for the commit; hits of several phrasings are merged in any order.
- **Timeouts and slow readers.** A put gives up after 30 seconds; the reader may
  be back at that very moment.
- **A page between awaits.** Every answer finds the page as it is by then: another
  session, another run, a stop, a reload; and the body of a stream is cut
  wherever the network cuts it.
- **Budgets.** Four stop conditions, read at different moments, one of them
  between turns that may log several steps, and a library's own limit that
  must never be the first.

`PROJECT.json` lists each hazard with the line where it bites and the
properties that cover it.

### What makes each part correct

- Loop: it always ends; the trail is numbered without a gap; the streak
  counter tells the truth; every tool call of the history has its result; the
  budgets hold up to one turn's overshoot; the library's limit stays out of
  reach.
- Streamed run: no answer before the row; frames in order and without a hole;
  the terminal frame for whoever reads to the end; nobody waits for ever; a run
  is recorded although nobody reads.
- Knowledge base: never ask for more than there is; the merge is independent of
  the order of phrasings; "nothing found" means an empty collection; the last
  version of a document is searchable.
- Accounting: a row holds its own run's completions, at the right cost, once; no
  scope outlives its run; reports add up.
- Registry: tenants stay apart, whatever runs at once; what was deleted stays
  deleted; a request is answered as if alone unless its own tenant wrote meanwhile.
- Console: the page shows the tenant of the key it sends, and stores that key unless
  the storage failed; the timeline is one run, from its first step; the page says of
  a run only what the server did; the form comes back; where the stream is cut does
  not matter.
- Chunker: no chunk above the limit, no text lost, short sentences whole.

## Modules

```
SetRecursion           recursion over finite sets, for the proofs about folds
EventSource            what iterating the loop promises
Ledger                 what a run is to whoever pays for it
  ExecutionLoop        the loop; implements EventSource (INSTANCE, PROPERTY SourceSpec)
    ExecutionLoopProofs, MCExecutionLoop
  StreamedRun          EXTENDS EventSource: producer, queue, reader, client
    StreamedRunProofs (implements Ledger), MCStreamedRun
KnowledgeBase          ingestion and search over one collection
    KnowledgeBaseProofs, MCKnowledgeBase
Accounting             concurrent runs, usage scopes, the table, reports; implements Ledger
    AccountingProofs, MCAccounting
Registry               agent and tool requests over three tables
    RegistryProofs, MCRegistry
Console                the page, its requests in flight, and the runs it asks for
    ConsoleProofs, MCConsole
Splitting              texts as sequences, and what splitting one leaves
  SSEParser            the frames of a body that arrives in pieces
  Chunker              a document's chunks
    TextProofs, MCText EXTEND both
```

`EventSource` is the seam between the two halves of a streamed run. The loop is
checked, and proved, to be such a source, and `StreamedRun` is built on the
source alone: at most `MaxEvents` step events, then an answer, no answer, or an
exception. That keeps the state space of the pipeline small and says exactly
what it needs to know of the loop.

`Ledger` is the view from outside, and the same for both endpoints: a request is
refused or started, completions are charged to it, it fails, or it finishes and is
entered once with all that was charged, and only then is it answered. It says nothing of
scopes, threads or queues. `Accounting` implements it for many runs at once (checked as
the property `KeepsTheLedger`, and proved), `StreamedRun` for one run with everything
between the loop and the client (proved). A run is billed there from the moment its row is
committed, whatever the caller is told afterwards: a row that cannot be read back is a
step the ledger does not see.

### ExecutionLoop

One action per way a step of the code can go. `pc` is the node that is about to
run (`call_model`, `execute_tools`), or running (`handle_calls`), or the place of
the iteration (`yield`, `conclude`, `finished`, `raised`).

| action | code |
|---|---|
| `ModelReplies`, `ToolUseFailed`, `RetryFails`, `ModelRaises` | `call_model` with its three requests; the edge `should_continue` is part of the reply |
| `StartTools`, `BlockedCall`, `ThinkCall`, `ThinkRaises`, `UnavailableCall`, `ToolFails`, `ToolSucceeds`, `ReturnTools` | `execute_tools`, one call at a time |
| `YieldStep`, `Resume`, `Conclude` | `stream_execution_loop` around the graph |

An assistant message carries the number of its calls and whether it has text.
Which tool a call names and how it ends is chosen when the call is handled. `tool_choice`
is modelled as what is requested, and any reply is allowed to any request:
nothing in the loop may rely on the provider obeying. `consecutiveErrors` and
`forceText` stand for the channel and for the node's local copy at once, since
no one reads the channel while the node runs. When a node raises, its locals are
left as they were; nobody reads them again.

### StreamedRun

Three parties: the producer thread (`producer`), the generator the server pulls
(`reader`) and the client (`connected`, `delivered`). The queue holds at most
`QueueSize` events. Time is left out: a put that times out is one that gives up
while the queue is full, whatever the reader is about to do. The server closes
the generator only where it is suspended, and never has to pull.

### KnowledgeBase

The store is a function from chunk ids (document, position) to texts. A search
makes two calls per phrasing (`Count`, `Retrieve`), and an ingestion may happen
between any two. The store may answer with any chunks it holds, closest first,
with distances or without. Two chunks of the same text are the same hit to the
merge, as in the code's dict. Reranking may prefer any candidates in any order,
which includes the order without reranking. The two settings are any
integers, since `config.py` reads them without a check: a slice with a negative bound
counts from the end (`AtMost`), and the store refuses to be asked for no chunk or
fewer, which is a search that raises (`Retrieve` needs `wanted > 0`, `SearchRaises`
does not).

### Accounting

Each run has a context; the context's current scope is a variable, which
`Begin` sets and `CloseScope` resets with the saved token, as `track_usage`
does. `billed` is what the provider charged, kept apart from what the code
recorded, so that the properties can compare the two. The report is a sequence
of three actions; runs commit and agents disappear between them. One token
costs one, and prompt and completion tokens are one number: the properties
tell amounts apart, not prices.

### Registry

Handlers serve requests, each with a session of its own. `pc` says which statement
comes next: `find` (the row the request is about), `work` (the tools of the request,
looked up one by one, then the flush), `load` (the agents of a tool that is being
deleted), `refresh` and `respond` (the row and the agent's tools are read again after
the commit), `done`. Other handlers commit between any two. The flush and its commit
are one step, because the rows a flush has written stay locked until the
commit on PostgreSQL, and SQLite has one writer at a time.

| variable | code |
|---|---|
| `owner`, `live` | the rows of `agents` and `tools`: the tenant in each, and whether it is there |
| `links` | `agent_tools` |
| `loaded` | the collection the session holds, `agent.tools` or `tool.agents`, from which an update or a deletion writes the difference |
| `todo` | what `_resolve_tools` has not looked up |
| `disturbed` | history: the tenant of the request had another write meanwhile |

What SQLAlchemy and the database do is taken from how the code uses them: an
update that matches no row, a link that is there already, and, on
PostgreSQL, a link to a row that is gone are errors; a deletion that matches no row is not.
`foreignKeys` is chosen initially and tells the two databases apart, so that
one run covers both. `Fail` may happen at any statement, as a connection may break at any.
Names and descriptions are left out, and so is a request that names the same tool twice.

### Console

JavaScript runs a handler to its next `await` without interruption, so an action is
such a stretch: a click up to the request it sends, or an answer up to the next
request. Requests are anonymous once sent (`inFlight` counts them by kind and by the
key they were sent with), and their answers come in any order, or fail. A run's
frames come in order, through `wire`; `line` says whether the server can still add to it.

| variable | code |
|---|---|
| `apiKey`, `tenantId`, `agents`, `selected` | `state` |
| `stored` | the key in `sessionStorage` |
| `swallowed` | history: `storageSet` or `storageGet` swallowed a failure, and page and storage have not agreed since |
| `workspace`, `listed`, `timeline`, `summary` | what the page shows |
| `run`, `finished` | `state.run`, and the handler's `finished` |
| `server` | what became of each run, the page listening or not |
| `hurried` | history: two connects were under way at once |

An abort rejects what the handler awaits before any other event can come, so
`Stop` and `Disconnect` contain what the handler does then: `disconnect` resets the
timeline first and the handler's message comes after it. `Reload` loses everything but
the stored key; the server's runs go on. Each access to the storage may fail for itself
(`Store`, `Recalled`), which is more than a browser does: a key that could not be stored does
not survive a reload, and one that could not be removed comes back with it, also after a
disconnect. The server's part follows
`StreamedRun`: a run is refused before it starts, or shows steps, is recorded, and
only then answers; the connection may go at any point, with the end of the stream or
with an error.

### SSEParser and Chunker

Both are passes over a text, and both are checked against a reference that sees the
whole text at once. `SSEParser` keeps the parser's buffer and feeds it chunks of any
size; what the code does with a chunk is folded over it symbol by symbol, one operator
per pass: `Normalise` for the line ends, `CutSymbol` for the frames, `ReadField` for the
lines of a frame. `MeantEvents` is the reference, which reads a body line by line
(`ReadLine`), without any notion of a chunk or of a buffer, and takes a frame for an event
only when a blank line has closed it; `LeftOver` is what `flush` makes of a frame that the
end of the body left open. `CutsDoNotMatter` says that the parser shows the first, and after
`flush` the second as well, however the body is cut. That the second is shown at all is a
difference to the format and to a comment, listed below. `SSESpec` is the
parser alone, which `MCText` runs next to the chunker. `Chunker` takes `semantic_chunk` sentence
by sentence, since the similarity with the group decides each time whether the sentence
joins, and that may be either; `recursive_chunk` is a function from texts to lists of chunks
that calls itself (`RecursiveChunk`), because it decides nothing, and the loop of
`_split_and_recurse` a fold over the parts (`AddPart`). That loop makes its groups before
any is chunked, where the code chunks each as it is closed: neither looks at
what the other does, so the chunks are the same. A group of sentences is kept as the text
it will be, joined by blanks. The reference is the property: what may never be lost, however a text is
cut. The patterns of `re.split` are modelled as the spans they match.

## Runs

| run | what it asks | bounds |
|---|---|---|
| `loop` | seven invariants of the loop, that it ends, and that it implements `EventSource` | 3 steps, 4 model calls, streak limit 3, 2 calls per turn |
| `stream` | order, completeness, answer withheld, nobody waits for ever; no put blocks when the queue holds the run | up to 6 step events, queue of 4 |
| `knowledge` | a search over up to three phrasings with ingestions anywhere in it | 2 documents, 2 chunks each, 2 ingestions, pool of 2 |
| `accounting` | two concurrent runs and a report taken meanwhile; that they implement `Ledger` | 2 runs of up to 2 completions, 2 agents, 2 models, one of them priced |
| `registry` | two requests at once, of any kind, on either database: tenants apart, answers as asked, rows final | 2 handlers, 2 tenants, 1 agent, 2 tools |
| `console` | session, timeline and verdict under late answers, stops, cuts, reloads and a storage that fails; the run form comes back | 2 tenants with a key and an agent each, 2 runs of up to 2 steps, equal requests in flight merged |
| `text` | the parser and the chunker against their references | all bodies of up to 6 symbols over 5, cut in every way; all texts of up to 5 symbols over 4, and up to 8 without blanks; limit 3 |
| `loop_think`, `stream_unrecorded`, `knowledge_stale`, `accounting_by_model`, `console_tenants` | one claim of the documentation each, expected to be violated | as above, sized to the claim |

Why the bounds are enough. In `loop` the call budget is larger than the step
budget, so that each of the four stop conditions is the one that ends some run;
two calls per turn is the least number at which a turn can overshoot the step
budget, mix success and failure, and answer calls out of order; a streak of three
has to span turns. In `stream` a run emits its steps, an answer, a done frame and
the sentinel, so a queue of four holds a run of one step exactly and is too
small for the others: the producer blocks, gives up, and stays stalled while the
reader catches up, also when it has stopped after its first frame, and six steps leave
room for events after a stall, which is where a hole would be. `AmpleQueueNeverFills` and `ProducerExits` speak of the runs
whose events fit. The deployed queue is 100 and the deployed step budget 5, so
those are the ones that occur unless a single turn makes more than 90 calls. In
`knowledge` the pool (2) is smaller than the collection can become (4), larger
than it can start (1), and the query and its rewrite rank the texts in opposite
orders, with a perfect match among them. In `accounting` two runs and a nested
model are the least at which completions can go astray, and one model without a
price the least at which null and zero differ; runs and agents are interchangeable
there, and symmetry is sound because every property of the run is an invariant or one
of single steps. In
`registry` two handlers are the least that race, two tenants the least that could mix,
and two tools the least for an update that drops one and keeps or adds another;
a handler takes a new request when it is done, so that a sequence of any
length is covered until the ids are used up. Its symmetry is sound because
its properties are invariants and one property of single steps, none of liveness. In
`console` two tenants are the least that could be confused, and two runs the least
of which one can leave something behind for the other; sessions follow each
other without a bound. In `text` a body of six symbols holds two frames, or one with a
line end of two symbols on either side of a cut, and texts of eight symbols hold
three pieces of the hard split, or parts to group within a split. The two passes have
nothing in common; they share a run, one after the other, and in every behaviour one of
them has the empty text.

Deadlock is checked in every run but `text`, which ends with its passes. `Terminated`
and `Settled` are the stutters of a program that has stopped; in `Accounting` a
report can always be asked for, in `Registry` a request can, in `Console` a user can reload.

Each property of a passing run has a mutant in the modules, marked
`Mutant:`, which is the change to the code that the property is there to catch.

### Fairness

- `ExecutionLoop`: `WF(Next)`. Providers and tools answer or time out (the
  SDK's own timeouts), and the thread that iterates is scheduled. It is fair to
  the loop as a whole only: no particular reply is ever due.
- `StreamedRun`: weak fairness of the producer's thread, and of the reader's
  `get` and `join` once they can return. Nothing is assumed of the client or of
  the server pulling the next frame, nor that the process stays up: a liveness
  property names `killed` as one of the ends.
- `KnowledgeBase`: weak fairness of a search that was started. Nobody has to
  start one, and ingestions need not happen.
- `Console`: weak fairness of the server, which ends the runs it was asked for (the
  run's own fairness above), and of the page reading what arrived. No click is due,
  and no answer to any other request.
- `Accounting`, `Registry` and the passes of `MCText` have no liveness property, and no fairness.

## Where the code and its documentation differ

Five runs end in a counterexample on purpose; the findings in `PROJECT.json` quote both sides.

- `loop_think`: a `think` call whose `reasoning` is a number, an object or null
  raises in the log line and ends the run, unrecorded. The README says that
  `think` never errors.
- `stream_unrecorded`: steps that were shown are not persisted if the loop raises.
- `knowledge_stale`: a shorter version of a document leaves the tail of the
  longer one in the collection.
- `accounting_by_model`: usage "by model" is by the model the run asked for; the
  pipeline's own model is counted under it.
- `console_tenants`: `disconnect` leaves the list of agents on the page, and
  an answer is applied to whatever session is open when it comes: a page that connects
  to one tenant after another shows agents of the first.

Smaller ones, seen while modelling and not given a run: the comment on `createSSEParser`
says that only complete frames are emitted, and `flush` dispatches the one that the end of
the body left open, broken off in its data line or not, which the SSE format would drop (a
body of one line `data: x` and no blank line is shown; the server closes every frame it
sends, so this takes a connection that ends cleanly inside one); three failures in a row inside
a turn do not stop the run if a later call of the turn succeeds, because the counter
is read between turns; `completed` also covers a remark made while calling tools, when
a budget ends the run right then; the message of Stop says that the run will still
be recorded, also of one that the server then refuses or that fails; two
connects at once can leave the workspace open without a key, which is why `SessionKeepsItsKey`
and `SessionKept` speak only of pages where that has not happened (`hurried`); a key that
`disconnect` could not remove from the storage connects again at the next reload, with no
word of it on the page; a document with a
sentence above the limit may get an empty chunk; `max_steps_reached` is
also the status of a run that had budget left and got an empty reply;
"the moment the tool returns" is the moment the turn's last tool returns;
a reader that stalled for 30 seconds and comes back sees the stream end without
a terminal frame; a stalled reader with a full queue keeps the thread in the
sentinel's put; a run whose row was committed but not read back is reported as
failed; the calls of a failed run never reach the usage report; the history of a
deleted agent is not found although its rows are kept and counted.

## Proofs

Eight modules. Seven EXTEND a component and prove its theorems from an
inductive invariant that was checked with TLC in parts first; `SetRecursion` holds the
lemmas on which the sums, merges and passes of three of them rest.

**SetRecursion.** The community modules define folds by recursion over a finite set,
and the library's induction theorems take an operator as a parameter, which none of the
provers can instantiate. So the module proves the unfolding of such a recursion for a
`Step` and a `Choose` it leaves open, once, and gives the two facts that replace induction:
a collection of finite sets that is not empty has a smallest member (`SmallestSet`), and a
set of numbers a least one (`LeastNatural`). A proof by induction becomes one by contradiction: take the smallest
set, or the shortest prefix, for which the claim fails, and remove one element from it.
`FoldedInterval` and `FoldedMore` are the case of a fold over a sequence, an element at a time.

**ExecutionLoopProofs.** From `LoopAssumption` (budgets are positive, the step
budget any integer, since the configuration does not validate it):

- `TypeCorrect`. `TypeOK` is not inductive: `execute_tools` reads the calls of the
  last message, so `LastHasCalls` says it is an assistant message while it does.
- `BackstopSafe`. `NodesCounted`: at a node's start the library has counted two
  nodes per model call, less one between the nodes of a turn, and a turn starts
  only while the call budget lasts. This is the argument of `_graph_config`'s
  docstring, for every budget.
- `TrailNumbered` and `StreakExact`. `TrailShape` relates the local step number
  and the error counter to the trail over both lists it is spread on; lemmas say
  how a streak grows and breaks when a sequence is extended.
- `OvershootBounded`. `StepsBounded`: a turn starts below the budget and logs at
  most one step per call handled.
- `CallsAnswered` and `ForcedExactly`. `TurnsClosed` follows the history the model
  is sent: between turns every call in it is answered and `force_text` tells whether
  the last turn ended in a failure; within a turn everything but the assistant
  message at its end is closed, and `execute_tools` closes that one too.
- `YieldsCurrent`, from `YieldsBehind`: the iteration lags the graph only within an update.
- `ImplementsSource`: each step of the loop maps to a step of `EventSource` or to
  a stutter, using the bounds above.

**StreamedRunProofs.** From `QueueSizeAssumption`, for every queue size and length of run:

- `TypeCorrect`.
- `AnswerWithheld`, whose invariant says what the producer's place implies for
  `recorded`, and follows the frames from the queue into `taken`.
- `AmpleQueueSafe`: what is queued is bounded by what the producer has emitted, its
  place included, and a run that has yielded few enough steps now had yielded no
  more before.
- `NoGap` and `CompleteAtEnd`, from the invariant `Streaming`. `InLine` puts shown
  and queued events together at the beginning of the log, as many as are due by
  the producer's place, and all of those unless the reader has stalled; `InPhase`
  says what that place tells of the loop, and `EndInOrder` that the sentinel is
  the thread's last word and an error frame the reader's. The log changes as the run
  goes on, so the argument needs that what was due before stays what it was.
- `ImplementsLedger`, from parts of the invariants above and `NotYet` (no row while the
  loop runs): no answer goes out before the run is entered, and it is entered only when it is
  over, with what it was charged. The commit is the ledger's `Bill`, the frame that carries the answer its
  `Tell`, and what was told stays told while a frame moves from the queue to the client
  (`ToldGrows`). One run has one flag `recorded` here, so that a run is not entered twice is
  for `Accounting` to show, where rows are counted.

**KnowledgeBaseProofs.** From `KnowledgeAssumption`, which lets the candidate pool and the
number of chunks kept be any integers. `QuerySafe` needs that the collection is finite and
never shrinks, and that `Capped` is at most the count, and at least one if the pool is
positive; with a pool that is not, the store refuses the query and the search raises.
`LatestIndexed` holds for any number and order of ingestions. The rest follows from the
invariant `Sound`. Its part `Typed` is `TypeOK` with what makes it inductive: the
collection is finite and no query asks for more than it has (`Measured`), and the dict holds each text
that was found, once and closest, and nothing else (`Keeps`). `Asked` says that the query
is among the phrasings, and that the collection was empty if it was searched without a hit.

- `TypeCorrect`.
- `NothingFoundMeansEmpty`: a dict that is empty in the end was empty when the query
  itself was searched, since a merge never loses a text.
- `MergeIsSound`: the candidates are each found text once, at its smallest distance, in
  order. Merging an answer is a fold of `Merge` over its hits, and one hit more keeps
  `Keeps` (`MergeKeeps`). The stable sort puts each hit at its rank, one more than the
  number of hits before it; that this fills every place is a count (`Rank`, `Position`): no two
  hits have the same rank, and there are as many places as hits.

**AccountingProofs.** The invariant `Books`: a run's scope is the current one of
its context exactly while it runs (`Scoped`), so its `Usage` equals what it was charged
(`Metered`), a row equals the bill of its run, which makes no more calls
(`Booked`), and rows and runs correspond (`Unique`). `RowsAreTrue`,
`CostsAreTrue`, `NoScopeLeaks` and `RunsBilledOnce` follow, for any number of
runs. `Cost` is treated as some function of a usage there: no step looks into it.
`AllBooks` adds `Served` (what gets as far as a row was asked of a model that is served) and
`Reported` (each part of a report is that of a beginning of the table, and the three
beginnings grow).

- `TypeCorrect`: sums over rows and models are natural numbers.
- `ReportsAddUp`: the sum of a breakdown's lines is the sum over the rows it groups,
  whichever they are grouped by, amounts that are null included (`SumOfGroups`,
  `AmountsOfGroups`), and sums and amounts do not fall when rows are added.
- `ImplementsLedger`: one action of a run is one of `Ledger`, and a report, a deleted
  agent, the answer that could not be read back are none. It takes from `Books` that a run
  which is not over has no row, and that its `Usage` is its bill when it is committed.

**RegistryProofs.** The invariant `Apart`: what a handler holds between its reads
and its write was made for the tenant that asks. `Checked` says so of the row
it has found and the tools it has resolved, `Held` of the loaded collection,
`Linked` of the links, and `Working` gives the shape of a request in hand.
`TenantsApart` alone is not inductive: a handler writes what it read long before. No other
handler can falsify it because a row never changes hands (`RowsStayFinal`).
`TypeCorrect` and `TenantsStayApart` follow. `AnsweredAsIfAlone` needs a second
invariant, `Alone`: what a handler has read of its tenant's rows still holds when it
writes, what it has written when it reads it back, and what it answers is true,
unless a write of the same tenant came in between. A write is about one row
(`WriteTouchesOne`) and a link joins rows of one tenant, so that the other tenants see
nothing of it (`OthersSeeNothing`). All four hold with foreign keys or without.

**ConsoleProofs.** The invariant has a part for each thing the page could get wrong.
`OneConnect` and `Keyed` relate the key the page holds, the stored one, and the one
connect that may be under way, which is what makes a late answer of any other request
harmless: `SessionKept`. What it says of the stored key holds until an access to the
storage fails (`swallowed`); that the page sends the key of the tenant it shows holds
whatever the storage does. `Attached` says that what is on the wire belongs to the run the
page listens to, `InOrder` that timeline and wire together are the beginning of that
run, so that it stays so whether the next event is a frame, a stop or a cut:
`TimelineKept`. `Truthful` carries what each frame claims from the server, through
the wire, to the page: `VerdictTrue`. All of them, and `TypeCorrect`, hold for any
number of keys, tenants, runs and steps.

**TextProofs.** `CutsAreSound` says that the parser of a body that comes in pieces
shows what one scan of it in one piece would, the complete frames and in the end the one
left open, `SSESpec => []CutsDoNotMatter`, for bodies and chunks of any length. It has four
parts.

- *Splitting a text that grows* (`Fits`, `SplitExtend`, `SplitMore`): what one more
  symbol does to the lines and the frames of a text. A separator ends the last part, any other
  symbol is added to it.
- *Parser and reference agree* (`Agreed`, `AgreedAlways`): fed a text in one piece, the
  parser's fold is where the reference is after each prefix: the same frames complete,
  the same lines of the open one.
- *A scan can be interrupted* (`ScanContinues`): normalising and cutting what was held
  back and then the next chunk is as good as scanning both at once, provided the cut
  does not fall between the two symbols of a line end (`CutApart`), which is what the parser
  holds back a carriage return for.
- *The invariant* `Follows`: what was shown and what is in the buffer are what one scan of
  all that arrived shows and leaves, but for a carriage return at its end, which is held back.

`ChunkingIsSound` says the same kind of thing of the chunker, `ChunkSpec =>
[]ChunksAreSound`, for every text and, by `ChunkAssumption`, every positive `max_length`
(with zero the hard split's `range` raises). What is followed
is the ink of a text: its symbols that are not white space, in order.

- *Nothing but white space goes in a split* (`SplitSound`). Separators that are
  blank and do not overlap (`Separate`) may be taken away one by one, the last one first: a text that
  is split has the ink of its parts, and each of two or more parts is shorter than the text. That strip,
  sentences and paragraphs are such cases are lemmas about the spans they match.
- *Groups and pieces* (`GroupsSound`, `HardSplitSound`). Grouping keeps the ink, and a group
  that does not fit is one of the parts. The hard split's pieces are adjacent, start
  one after the end of the piece before and are at most `max_length` long.
- *The recursion ends* (`ChunksExist`, `RecursiveChunkIs`). TLA+ lets a recursive
  function be defined that no function satisfies. For texts shorter than n there is one and
  only one that does, for each n, because every group is shorter than the text it is made
  from; together they are `RecursiveChunk`. This is the claim of the comment in
  `semantic_chunk` that recursion into `recursive_chunk` "always makes progress".
- *recursive_chunk is sound* (`RecursiveChunkSound`): in a shortest text for which it
  were not, the groups would be shorter ones.
- *The invariant* `ChunkingInv`. `GroupingInv` says where `semantic_chunk` is: some
  first sentences are grouped, the rest is waiting, ink is kept. `GroupsKeep` is why short
  sentences stay whole: each is in one piece in a group that fits, so the
  splitting of oversized groups in the end leaves it alone, and if every sentence fits no
  group is oversized, so none becomes an empty chunk. The invariant was checked on the
  instance of `text` before it was proved.

Only model-checked: liveness (`RunEnds`, `RunSettles`, `ReaderReleased`, `ProducerExits`,
`SearchEnds`, `RunFormComesBack`) and the fairness part of `SourceSpec`, which are out of
the prover's reach. The safety part of `SourceSpec` is `ImplementsSource`. Every
invariant and action property of a passing run is stated by a theorem.

## Not modelled

The calculator's arithmetic, the guardrail's patterns, prompt and frame
formatting, request validation, authentication and configuration parsing are
functions of one input without a state to go wrong over time; where they decide
something, the models let either decision happen. `Registry` shows that tenants
do not interact; the page of `Console` may meet several, the other modules model one. Migrations,
containers, CI and the evaluation harness run outside the server. A clock, latencies
and the time window of a report are left out.

Of the console, the usage panel, the lists of models and tools, the banner and the two
forms are left out: each shows the answer of one request and keeps nothing else. The
markup and the styles hold no state. Of the chunker, the sentence overlap, which no
caller asks for, and `chunk_by_paragraph`, which nothing calls. Of the ledger, the
history pages: a page is counted and fetched in two queries ordered by creation time
only, so what a reader of successive pages sees depends on the order the database
gives to equal times, which the code does not fix. The page of `Console` is sent whole frames:
what `flush` makes of half a frame is in `SSEParser` only.

## Plan

Done: the loop and what it promises, the streamed run on top of that promise, searches
against ingestions, concurrent runs and what they cost, the registry, the console,
the parser and the chunker, with every safety property of a passing run proved and
both kinds of runs shown to implement `Ledger`. What is left:

1. History pages over the table in `Accounting`: count and fetch against commits,
   with the order of equal creation times as a choice.
