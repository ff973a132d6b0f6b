----------------------------- MODULE Accounting -----------------------------
(***************************************************************************)
(* What one tenant's runs cost and where it is written down.  Concurrent   *)
(* runs (ExecutionService.run_agent, and produce for the streamed ones)    *)
(* call models through llm.chat_completion, which records each completion  *)
(* against the usage scope that is active in the caller's context; a run   *)
(* that ends becomes one row of the executions table; GET /usage sums the  *)
(* rows in three queries, each of which sees what is committed by then.    *)
(*                                                                         *)
(* A completion uses no tokens (none reported) or one, a token costs one,  *)
(* and prompt and completion tokens are not told apart.  The time window   *)
(* of a report, the same filter in its three queries, is left open.        *)
(***************************************************************************)
EXTENDS Integers, Sequences, FiniteSets, Functions

CONSTANTS
  Runs,        \* the run requests
  Agents,      \* the ids a request may name
  Models,      \* the models the deployment serves
  OtherModel,  \* a model it does not serve
  RagModel,    \* GROQ_MODEL, which the RAG pipeline calls
  Priced,      \* the models MODEL_PRICING has an entry for
  NoScope,     \* _current_usage's default, None
  MaxCalls     \* bound: completions of one run

ASSUME AccountingAssumption ==
  /\ IsFiniteSet(Runs) /\ IsFiniteSet(Agents) /\ IsFiniteSet(Models)
  /\ OtherModel \notin Models
  /\ NoScope \notin Runs
  /\ MaxCalls \in Nat \ {0}

VARIABLES
  agents,      \* the agents that exist
  pc,          \* pc[r]: where run r is
  request,     \* request[r]: the agent and the model it names
  current,     \* current[c]: usage._current_usage in context c
  outer,       \* outer[r]: the token track_usage resets it with
  usage,       \* usage[r]: the Usage object run r's track_usage made
  billed,      \* history: billed[r], what the provider charged for run r
  executions,  \* the executions table, in commit order
  report,      \* the report being put together
  moved        \* history: a row was committed during it

runVars == <<pc, request, outer, billed>>
scopes == <<current, usage>>
reportVars == <<report, moved>>
vars == <<agents, runVars, scopes, executions, reportVars>>

-----------------------------------------------------------------------------
\* Usage by model.

AllModels == Models \cup {RagModel}

ModelUsage == [calls : Nat, tokens : Nat]

NoUsage == [m \in AllModels |-> [calls |-> 0, tokens |-> 0]]

\* Usage.add, for one completion.
Add(byModel, model, tokens) ==
  [byModel EXCEPT ![model] = [calls |-> @.calls + 1, tokens |-> @.tokens + tokens]]

\* What one more completion can make of a run's usage.
OneMore(byModel) == {Add(byModel, pair[1], pair[2]) : pair \in AllModels \X {0, 1}}

Used(byModel) == {m \in AllModels : byModel[m].calls > 0}

Tokens(byModel) == SumFunction([m \in AllModels |-> byModel[m].tokens])

LlmCalls(byModel) == SumFunction([m \in AllModels |-> byModel[m].calls])

\* SQL's and Python's null amount.
Null == -1

\* Mutant: a model without a price is free.
CostFree(byModel) ==
  SumFunction([m \in Used(byModel) \cap Priced |-> byModel[m].tokens])

\* Usage.cost_usd: no amount if any model involved has no price.
Cost(byModel) ==
  IF Used(byModel) \subseteq Priced THEN Tokens(byModel) ELSE Null

Init ==
  /\ agents = Agents
  /\ pc = [r \in Runs |-> "new"]
  /\ request \in [Runs -> [agent : Agents, model : Models \cup {OtherModel}]]
  /\ current = [c \in Runs |-> NoScope]
  /\ outer = [r \in Runs |-> NoScope]
  /\ usage = [r \in Runs |-> NoUsage]
  /\ billed = [r \in Runs |-> NoUsage]
  /\ executions = <<>>
  /\ report = [stage |-> "idle"]
  /\ moved = FALSE

-----------------------------------------------------------------------------
\* A run.

\* Mutant: one accumulator for the whole process.
ContextShared(r) == CHOOSE c \in Runs : TRUE

\* The context a run executes in.  The server runs a blocking request with a
\* copy of its context, and a streamed run has a thread of its own: no two
\* runs share one.
Context(r) == r

\* _prepare_run rejects a request: 400 for a model that is not served and for
\* a task that looks like an injection, 404 for an agent that is not there.
Reject(r) ==
  /\ pc[r] = "new"
  /\ pc' = [pc EXCEPT ![r] = "rejected"]
  /\ UNCHANGED <<agents, request, outer, billed, scopes, executions, reportVars>>

\* The request passes, and track_usage opens a scope for the run.
Begin(r) ==
  /\ pc[r] = "new"
  /\ request[r].model \in Models
  /\ request[r].agent \in agents
  /\ pc' = [pc EXCEPT ![r] = "running"]
  /\ usage' = [usage EXCEPT ![r] = NoUsage]
  /\ outer' = [outer EXCEPT ![r] = current[Context(r)]]
  /\ current' = [current EXCEPT ![Context(r)] = r]
  /\ UNCHANGED <<agents, request, billed, executions, reportVars>>

\* record(): into the active scope of the caller's context, if there is one.
Record(r, model, tokens) ==
  LET scope == current[Context(r)]
  IN  usage' = IF scope = NoScope
               THEN usage
               ELSE [usage EXCEPT ![scope] = Add(@, model, tokens)]

\* chat_completion: the provider answers, and charges for it.
Complete(r, model) ==
  /\ pc[r] = "running"
  /\ LlmCalls(billed[r]) < MaxCalls
  /\ \E tokens \in {0, 1} :
       /\ billed' = [billed EXCEPT ![r] = Add(@, model, tokens)]
       /\ Record(r, model, tokens)
  /\ UNCHANGED <<agents, pc, request, outer, current, executions, reportVars>>

LoopCall(r) == Complete(r, request[r].model)

\* A search in the knowledge base, by a tool the model has called.
RagCall(r) ==
  /\ RagModel \in Models
  /\ request[r].model \in Used(billed[r])
  /\ Complete(r, RagModel)

\* track_usage's finally: the context gets back what it had.
CloseScope(r) == current' = [current EXCEPT ![Context(r)] = outer[r]]

LoopEnds(r) ==
  /\ pc[r] = "running"
  /\ request[r].model \in Used(billed[r])
  /\ CloseScope(r)
  /\ pc' = [pc EXCEPT ![r] = "record"]
  /\ UNCHANGED <<agents, request, outer, billed, usage, executions, reportVars>>

\* Mutant: the scope is closed after the block, not in a finally.
LoopRaisesOpen(r) ==
  /\ pc[r] = "running"
  /\ pc' = [pc EXCEPT ![r] = "failed"]
  /\ UNCHANGED <<agents, request, outer, billed, scopes, executions, reportVars>>

\* The loop raises: no row, and a 5xx or an error frame for the caller.
LoopRaises(r) ==
  /\ pc[r] = "running"
  /\ CloseScope(r)
  /\ pc' = [pc EXCEPT ![r] = "failed"]
  /\ UNCHANGED <<agents, request, outer, billed, usage, executions, reportVars>>

Row(r) ==
  [run |-> r, agent |-> request[r].agent, model |-> request[r].model,
   byModel |-> usage[r], cost |-> Cost(usage[r])]

\* ExecutionRepository.create: add and commit.
Commit(r) ==
  /\ pc[r] = "record"
  /\ executions' = Append(executions, Row(r))
  /\ pc' = [pc EXCEPT ![r] = "refresh"]
  /\ moved' = TRUE
  /\ UNCHANGED <<agents, request, outer, billed, scopes, report>>

CommitFails(r) ==
  /\ pc[r] = "record"
  /\ pc' = [pc EXCEPT ![r] = "failed"]
  /\ UNCHANGED <<agents, request, outer, billed, scopes, executions, reportVars>>

\* refresh, and the row or its id goes to the caller.
Respond(r) ==
  /\ pc[r] = "refresh"
  /\ pc' = [pc EXCEPT ![r] = "responded"]
  /\ UNCHANGED <<agents, request, outer, billed, scopes, executions, reportVars>>

\* Mutant: a row that cannot be read back is written again.
RefreshRetries(r) ==
  /\ pc[r] = "refresh"
  /\ Len(executions) < Cardinality(Runs) + 1
  /\ pc' = [pc EXCEPT ![r] = "record"]
  /\ UNCHANGED <<agents, request, outer, billed, scopes, executions, reportVars>>

\* The row is committed but cannot be read back.
RefreshFails(r) ==
  /\ pc[r] = "refresh"
  /\ pc' = [pc EXCEPT ![r] = "failed"]
  /\ UNCHANGED <<agents, request, outer, billed, scopes, executions, reportVars>>

Run(r) ==
  \/ Reject(r) \/ Begin(r) \/ LoopCall(r) \/ RagCall(r) \/ LoopEnds(r) \/ LoopRaises(r)
  \/ Commit(r) \/ CommitFails(r) \/ Respond(r) \/ RefreshFails(r)

\* AgentService.delete_agent leaves the agent's executions where they are.
DeleteAgent ==
  /\ \E a \in agents : agents' = agents \ {a}
  /\ UNCHANGED <<runVars, scopes, executions, reportVars>>

-----------------------------------------------------------------------------
\* The usage report: aggregate_usage's three queries.

Rows == 1..Len(executions)

\* The sum of the amounts that are not null, null if there are none.
SumAmounts(amounts) ==
  LET known == {x \in DOMAIN amounts : amounts[x] # Null}
  IN  IF known = {} THEN Null ELSE SumFunctionOnSet(amounts, known)

\* Mutant: a missing amount is summed like any other.
TotalsRaw(rows) ==
  [executions |-> Cardinality(rows),
   calls  |-> SumFunction([i \in rows |-> LlmCalls(executions[i].byModel)]),
   tokens |-> SumFunction([i \in rows |-> Tokens(executions[i].byModel)]),
   cost   |-> SumFunction([i \in rows |-> executions[i].cost])]

\* One row of a query, over the table rows it groups (_totals).
Totals(rows) ==
  [executions |-> Cardinality(rows),
   calls  |-> SumFunction([i \in rows |-> LlmCalls(executions[i].byModel)]),
   tokens |-> SumFunction([i \in rows |-> Tokens(executions[i].byModel)]),
   cost   |-> SumAmounts([i \in rows |-> executions[i].cost])]

QueryTotals ==
  /\ report.stage \in {"idle", "done"}
  /\ report' = [stage |-> "totals", totals |-> Totals(Rows)]
  /\ moved' = FALSE
  /\ UNCHANGED <<agents, runVars, scopes, executions>>

QueryByModel ==
  /\ report.stage = "totals"
  /\ report' = [stage |-> "by_model", totals |-> report.totals,
                byModel |-> [m \in {executions[i].model : i \in Rows} |->
                               Totals({i \in Rows : executions[i].model = m})]]
  /\ UNCHANGED <<agents, runVars, scopes, executions, moved>>

\* Mutant: the rows are joined with the agents to name them.
AgentsListedJoined == {executions[i].agent : i \in Rows} \cap agents

\* The agents the third query groups by, deleted ones included.
AgentsListed == {executions[i].agent : i \in Rows}

QueryByAgent ==
  /\ report.stage = "by_model"
  /\ report' = [stage |-> "done", totals |-> report.totals, byModel |-> report.byModel,
                byAgent |-> [a \in AgentsListed |->
                               Totals({i \in Rows : executions[i].agent = a})]]
  /\ UNCHANGED <<agents, runVars, scopes, executions, moved>>

Report == QueryTotals \/ QueryByModel \/ QueryByAgent

Next == (\E r \in Runs : Run(r)) \/ DeleteAgent \/ Report

Spec == Init /\ [][Next]_vars

-----------------------------------------------------------------------------
\* Properties.

RowType == [run : Runs, agent : Agents, model : Models,
            byModel : [AllModels -> ModelUsage], cost : Nat \cup {Null}]

TotalsType == [executions : Nat, calls : Nat, tokens : Nat, cost : Nat \cup {Null}]

\* Types of the runs, the usage scopes, the table and the report.
TypeOK ==
  /\ agents \subseteq Agents
  /\ pc \in [Runs -> {"new", "running", "record", "refresh",
                      "rejected", "failed", "responded"}]
  /\ request \in [Runs -> [agent : Agents, model : Models \cup {OtherModel}]]
  /\ current \in [Runs -> Runs \cup {NoScope}]
  /\ outer \in [Runs -> Runs \cup {NoScope}]
  /\ usage \in [Runs -> [AllModels -> ModelUsage]]
  /\ billed \in [Runs -> [AllModels -> ModelUsage]]
  /\ executions \in Seq(RowType)
  /\ report.stage \in {"idle", "totals", "by_model", "done"}
  /\ report.stage # "idle" => report.totals \in TotalsType
  /\ moved \in BOOLEAN

\* A row holds what the provider charged for its own run, no less and no
\* more, split by the model that was called, however runs interleave and
\* however deep in the RAG pipeline the call was (track_usage, record).
RowsMatchBilling ==
  \A i \in Rows : executions[i].byModel = billed[executions[i].run]

\* A row has a cost exactly when every model its run called has a price, and
\* the cost is then what the provider charged ("null, never zero").
CostIsWhatWasCharged ==
  \A i \in Rows :
    LET charged == billed[executions[i].run]
    IN  executions[i].cost = IF \A m \in AllModels : charged[m].calls > 0 => m \in Priced
                             THEN Tokens(charged)
                             ELSE Null

\* A run that is over, even by an exception, leaves no scope open for the
\* next request that gets its context.
ScopesClose ==
  \A r \in Runs : pc[r] # "running" => current[Context(r)] # r

\* A run is billed once if it was answered, at most once if it failed, and
\* not at all if it was turned away: KeepsTheLedger, as the table shows it.
BilledOnce ==
  \A r \in Runs :
    LET rows == {i \in Rows : executions[i].run = r}
    IN  /\ Cardinality(rows) <= 1
        /\ pc[r] \in {"refresh", "responded"} => rows # {}
        /\ pc[r] \in {"new", "rejected", "running", "record"} => rows = {}

\* What became of a run that has no row, by the place it is at.
Unbilled ==
  [new |-> "asked", rejected |-> "refused", running |-> "underway", failed |-> "failed",
   record |-> "finished", refresh |-> "finished", responded |-> "finished"]

\* What became of each run, as the caller who pays for it sees it.
Life ==
  [r \in Runs |-> IF \E i \in Rows : executions[i].run = r THEN "billed" ELSE Unbilled[pc[r]]]

Entries ==
  [i \in Rows |-> [run |-> executions[i].run, account |-> executions[i].byModel]]

Told == {r \in Runs : pc[r] = "responded"}

TheLedger ==
  INSTANCE Ledger WITH
    Nothing  <- NoUsage,
    Charged  <- OneMore,
    life     <- Life,
    spent    <- billed,
    entries  <- Entries,
    answered <- Told

\* Accounting implements the Ledger: a run is entered once, when its loop is
\* over and with all that the provider charged for it by then and ever after;
\* it is answered only then, and a row that cannot be read back is neither
\* lost nor written again.
KeepsTheLedger == TheLedger!LedgerSpec

\* A report's breakdowns add up to its totals unless a run was recorded
\* between its queries; then they hold more, and never less: a run the totals
\* count is in both, its agent deleted or not (aggregate_usage).
ReportAddsUp ==
  report.stage = "done" =>
    LET models == DOMAIN report.byModel
        of == DOMAIN report.byAgent
        adds(total, byModel, byAgent) ==
          /\ total <= byModel /\ byModel <= byAgent
          /\ ~moved => total = byAgent
    IN  /\ adds(report.totals.executions,
                SumFunction([m \in models |-> report.byModel[m].executions]),
                SumFunction([a \in of |-> report.byAgent[a].executions]))
        /\ adds(report.totals.tokens,
                SumFunction([m \in models |-> report.byModel[m].tokens]),
                SumFunction([a \in of |-> report.byAgent[a].tokens]))
        /\ adds(report.totals.cost,
                SumAmounts([m \in models |-> report.byModel[m].cost]),
                SumAmounts([a \in of |-> report.byAgent[a].cost]))

-----------------------------------------------------------------------------
\* What the documentation says, and the code does not do.

\* README: the report gives tokens "broken down by model".
ByModelIsByModel ==
  report.stage = "done" /\ ~moved =>
    \A m \in DOMAIN report.byModel :
      report.byModel[m].tokens =
        SumFunction([i \in Rows |-> executions[i].byModel[m].tokens])
=============================================================================
