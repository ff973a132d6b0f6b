------------------------------ MODULE Registry ------------------------------
(***************************************************************************)
(* The agents and tools of the tenants: AgentService and ToolService over  *)
(* the agents, tools and agent_tools tables.  Requests are handled on      *)
(* threads of their own, each with a database session of its own, and a    *)
(* handler reads, checks and writes in separate statements, so that other  *)
(* handlers commit in between.  The flush that ends a handler is one step: *)
(* its rows stay locked until the commit.                                  *)
(*                                                                         *)
(* Names, roles and descriptions are left out.  A request names a tool     *)
(* once at most.                                                           *)
(***************************************************************************)
CONSTANTS
  Handlers,  \* the threads that serve requests
  Tenants,
  AgentIds,  \* the ids the database will give to agents
  ToolIds,   \* and to tools
  Nobody     \* neither a tenant nor an id

ASSUME RegistryAssumption ==
  /\ AgentIds \cap ToolIds = {}
  /\ Nobody \notin Tenants \cup AgentIds \cup ToolIds

VARIABLES
  foreignKeys,  \* whether the database enforces them: Postgres, not SQLite
  owner,        \* owner[i]: the tenant row i was made for, Nobody before
  live,         \* the rows that are there, by id
  links,        \* the rows of agent_tools
  pc,           \* pc[h]: where handler h is
  request,      \* request[h]: what it was asked
  todo,         \* todo[h]: the tools _resolve_tools has still to look up
  loaded,       \* loaded[h]: the session's copy of agent.tools or tool.agents
  status,       \* status[h]: how it answered
  disturbed     \* history: disturbed[h], its tenant had another write meanwhile

tables == <<owner, live, links>>
handling == <<pc, request, todo, loaded, status>>
vars == <<foreignKeys, tables, handling, disturbed>>

Ids == AgentIds \cup ToolIds

ToolChanges == {"update tool", "delete tool"}
AgentWrites == {"create agent", "update agent"}
OnAgents == {"update agent", "delete agent", "get agent"}
Creates == {"create tool", "create agent"}
Ops == ToolChanges \cup OnAgents \cup Creates

\* What can be asked.  replaces: the body has a list of tools, asked.
Requests ==
  {r \in [op : Ops, tenant : Tenants, id : Ids \cup {Nobody},
          asked : SUBSET ToolIds, replaces : BOOLEAN] :
     /\ r.op \in Creates => r.id = Nobody /\ (r.replaces <=> r.op = "create agent")
     /\ r.op \in ToolChanges => r.id \in ToolIds /\ ~r.replaces
     /\ r.op \in OnAgents => r.id \in AgentIds /\ (r.replaces => r.op = "update agent")
     /\ ~r.replaces => r.asked = {}}

NoRequest == [op |-> "none", tenant |-> Nobody, id |-> Nobody, asked |-> {}, replaces |-> FALSE]

Init ==
  /\ foreignKeys \in BOOLEAN
  /\ owner = [i \in Ids |-> Nobody]
  /\ live = {}
  /\ links = {}
  /\ pc = [h \in Handlers |-> "idle"]
  /\ request = [h \in Handlers |-> NoRequest]
  /\ todo = [h \in Handlers |-> {}]
  /\ loaded = [h \in Handlers |-> {}]
  /\ status = [h \in Handlers |-> "none"]
  /\ disturbed = [h \in Handlers |-> FALSE]

-----------------------------------------------------------------------------
\* What a handler reads.

\* Mutant: the lookup does not filter by tenant.
FoundAnywhere(i, tenant) == i \in live

\* get_by_id finds a row by its id and its tenant.
Found(i, tenant) == i \in live /\ owner[i] = tenant

\* agent.tools and tool.agents are read through agent_tools and the other
\* table: a link to a row that is gone does not show.
ToolsOf(a) == {t \in ToolIds \cap live : <<a, t>> \in links}
AgentsOf(t) == {a \in AgentIds \cap live : <<a, t>> \in links}

Begin(h) ==
  /\ pc[h] = "idle"
  /\ \E r \in Requests :
       /\ request' = [request EXCEPT ![h] = r]
       /\ todo' = [todo EXCEPT ![h] = r.asked]
       /\ pc' = [pc EXCEPT ![h] = IF r.id = Nobody THEN "work" ELSE "find"]
  /\ UNCHANGED <<foreignKeys, tables, loaded, status, disturbed>>

\* The row the request is about is there.  An agent comes with its tools.
Find(h) ==
  LET r == request[h]
  IN  /\ pc[h] = "find"
      /\ Found(r.id, r.tenant)
      /\ loaded' = [loaded EXCEPT ![h] = IF r.id \in AgentIds THEN ToolsOf(r.id) ELSE {}]
      /\ pc' = [pc EXCEPT ![h] = CASE r.op = "get agent" -> "done"
                                   [] r.op = "delete tool" -> "load"
                                   [] OTHER -> "work"]
      /\ status' = [status EXCEPT ![h] = IF r.op = "get agent" THEN "ok" ELSE "none"]
      /\ UNCHANGED <<foreignKeys, tables, request, todo, disturbed>>

\* An answer without the session's objects.
Answer(h, answer) ==
  /\ pc' = [pc EXCEPT ![h] = "done"]
  /\ status' = [status EXCEPT ![h] = answer]
  /\ todo' = [todo EXCEPT ![h] = {}]
  /\ loaded' = [loaded EXCEPT ![h] = {}]
  /\ UNCHANGED <<foreignKeys, tables, request, disturbed>>

\* It is not, or not for this tenant: 404.
NotFound(h) ==
  /\ pc[h] = "find"
  /\ ~Found(request[h].id, request[h].tenant)
  /\ Answer(h, "missing")

\* _resolve_tools looks the tools up one after the other.
Resolve(h) ==
  /\ pc[h] = "work"
  /\ \E t \in todo[h] :
       /\ Found(t, request[h].tenant)
       /\ todo' = [todo EXCEPT ![h] = @ \ {t}]
  /\ UNCHANGED <<foreignKeys, tables, pc, request, loaded, status, disturbed>>

ToolNotFound(h) ==
  /\ pc[h] = "work"
  /\ \E t \in todo[h] : ~Found(t, request[h].tenant)
  /\ Answer(h, "missing")

\* Deleting a tool, the session reads which agents have it.
Load(h) ==
  /\ pc[h] = "load"
  /\ loaded' = [loaded EXCEPT ![h] = AgentsOf(request[h].id)]
  /\ pc' = [pc EXCEPT ![h] = "work"]
  /\ UNCHANGED <<foreignKeys, tables, request, todo, status, disturbed>>

-----------------------------------------------------------------------------
\* What a handler writes.

Writing(h, op) == pc[h] = "work" /\ todo[h] = {} /\ request[h].op = op

\* After the commit of h.  The requests of the same tenant that were being
\* handled have been disturbed.
Committed(h, i, place) ==
  /\ request' = [request EXCEPT ![h].id = i]
  /\ pc' = [pc EXCEPT ![h] = place]
  /\ status' = [status EXCEPT ![h] = IF place = "done" THEN "ok" ELSE "none"]
  /\ disturbed' = [g \in Handlers |->
       disturbed[g] \/ (g # h /\ request[g].tenant = request[h].tenant)]
  /\ UNCHANGED <<foreignKeys, todo, loaded>>

\* Mutant: the row is written without its tenant.
InsertUnowned(h, i) ==
  /\ owner[i] = Nobody
  /\ live' = live \cup {i}
  /\ UNCHANGED owner

\* A new row, with an id that was never used.
Insert(h, i) ==
  /\ owner[i] = Nobody
  /\ owner' = [owner EXCEPT ![i] = request[h].tenant]
  /\ live' = live \cup {i}

\* agent_tools loses some rows and gains others.  A row that is there already
\* violates the primary key, a row with an unknown id the foreign keys.
Relink(add, drop) ==
  /\ add \cap links = {}
  /\ links' = (links \ drop) \cup add
  /\ foreignKeys => \A link \in links' : link[1] \in live' /\ link[2] \in live'

CreateTool(h) ==
  /\ Writing(h, "create tool")
  /\ \E i \in ToolIds : Insert(h, i) /\ Committed(h, i, "refresh")
  /\ UNCHANGED links

\* Mutant: the row that was read is merged into the table.
UpdateToolMerges(h) ==
  /\ Writing(h, "update tool")
  /\ live' = live \cup {request[h].id}
  /\ Committed(h, request[h].id, "refresh")
  /\ UNCHANGED <<owner, links>>

\* A new name or description.
UpdateTool(h) ==
  /\ Writing(h, "update tool")
  /\ Committed(h, request[h].id, "refresh")
  /\ UNCHANGED tables

\* A DELETE that matches no row is no error.
DeleteTool(h) ==
  LET t == request[h].id
  IN  /\ Writing(h, "delete tool")
      /\ live' = live \ {t}
      /\ Relink({}, loaded[h] \X {t})
      /\ Committed(h, t, "done")
      /\ UNCHANGED owner

CreateAgent(h) ==
  /\ Writing(h, "create agent")
  /\ \E i \in AgentIds :
       /\ Insert(h, i)
       /\ Relink({i} \X request[h].asked, {})
       /\ Committed(h, i, "refresh")

\* Mutant: the tools of an update are added to those the agent has.
UpdateAgentAdds(h) ==
  LET r == request[h]
  IN  /\ Writing(h, "update agent")
      /\ UNCHANGED <<owner, live>>
      /\ Relink({r.id} \X (r.asked \ loaded[h]), {})
      /\ Committed(h, r.id, "refresh")

\* agent.tools = tools: the session writes the difference to what it loaded.
UpdateAgent(h) ==
  LET r == request[h]
  IN  /\ Writing(h, "update agent")
      /\ UNCHANGED <<owner, live>>
      /\ IF r.replaces
         THEN Relink({r.id} \X (r.asked \ loaded[h]), {r.id} \X (loaded[h] \ r.asked))
         ELSE UNCHANGED links
      /\ Committed(h, r.id, "refresh")

DeleteAgent(h) ==
  LET a == request[h].id
  IN  /\ Writing(h, "delete agent")
      /\ live' = live \ {a}
      /\ Relink({}, {a} \X loaded[h])
      /\ Committed(h, a, "done")
      /\ UNCHANGED owner

\* A statement fails (a constraint, an UPDATE that matches no row, a refresh
\* of a row that is gone, a deadlock, the connection), at any time, and the
\* session rolls back what it has not committed: 500.
Fail(h) ==
  /\ pc[h] \in {"find", "load", "work", "refresh", "respond"}
  /\ Answer(h, "failed")

-----------------------------------------------------------------------------
\* What a handler answers with after its commit: refresh() reads the row
\* again, and the response model the tools of an agent, later.

Refresh(h) ==
  LET r == request[h]
  IN  /\ pc[h] = "refresh"
      /\ r.id \in live
      /\ IF r.op \in AgentWrites
         THEN /\ pc' = [pc EXCEPT ![h] = "respond"]
              /\ UNCHANGED <<foreignKeys, tables, request, todo, loaded, status, disturbed>>
         ELSE Answer(h, "ok")

Respond(h) ==
  /\ pc[h] = "respond"
  /\ loaded' = [loaded EXCEPT ![h] = ToolsOf(request[h].id)]
  /\ pc' = [pc EXCEPT ![h] = "done"]
  /\ status' = [status EXCEPT ![h] = "ok"]
  /\ UNCHANGED <<foreignKeys, tables, request, todo, disturbed>>

\* The answer is sent, and the session closed.
Leave(h) ==
  /\ pc[h] = "done"
  /\ pc' = [pc EXCEPT ![h] = "idle"]
  /\ request' = [request EXCEPT ![h] = NoRequest]
  /\ todo' = [todo EXCEPT ![h] = {}]
  /\ loaded' = [loaded EXCEPT ![h] = {}]
  /\ status' = [status EXCEPT ![h] = "none"]
  /\ disturbed' = [disturbed EXCEPT ![h] = FALSE]
  /\ UNCHANGED <<foreignKeys, tables>>

Read(h) == Find(h) \/ NotFound(h) \/ Resolve(h) \/ ToolNotFound(h) \/ Load(h)

Write(h) ==
  \/ CreateTool(h) \/ UpdateTool(h) \/ DeleteTool(h)
  \/ CreateAgent(h) \/ UpdateAgent(h) \/ DeleteAgent(h)

Next ==
  \E h \in Handlers :
    Begin(h) \/ Read(h) \/ Write(h) \/ Fail(h) \/ Refresh(h) \/ Respond(h) \/ Leave(h)

Spec == Init /\ [][Next]_vars

-----------------------------------------------------------------------------
\* The tables and the handlers' variables have the shapes the code gives
\* them: every row has an owner, a request in hand is one a client can send.
TypeOK ==
  /\ foreignKeys \in BOOLEAN
  /\ owner \in [Ids -> Tenants \cup {Nobody}]
  /\ live \subseteq {i \in Ids : owner[i] # Nobody}
  /\ links \subseteq AgentIds \X ToolIds
  /\ pc \in [Handlers -> {"idle", "find", "load", "work", "refresh", "respond", "done"}]
  /\ request \in [Handlers -> [op : Ops \cup {"none"}, tenant : Tenants \cup {Nobody},
                               id : Ids \cup {Nobody}, asked : SUBSET ToolIds,
                               replaces : BOOLEAN]]
  /\ todo \in [Handlers -> SUBSET ToolIds]
  /\ loaded \in [Handlers -> SUBSET Ids]
  /\ status \in [Handlers -> {"none", "ok", "missing", "failed"}]
  /\ disturbed \in [Handlers -> BOOLEAN]

\* Tenants stay apart: whatever handlers do at the same time, no agent is
\* linked to a tool of another tenant, not even by a row left behind, and no
\* session holds a row of another tenant than the one that asked.
TenantsApart ==
  /\ \A a \in AgentIds, t \in ToolIds : <<a, t>> \in links => owner[a] = owner[t]
  /\ \A h \in Handlers : \A i \in loaded[h] : owner[i] = request[h].tenant

\* A request during which its tenant had no other write is answered as if it
\* had been alone, whatever the other tenants did: 404 only if a row it names
\* is not there; otherwise the agent has the tools that were asked for, and a
\* row that was deleted is gone, along with its links to what is left.
AnsweredAsAsked ==
  \A h \in Handlers :
    LET r == request[h]
        agent == r.op \in AgentWrites \cup {"get agent"}
    IN  pc[h] = "done" /\ ~disturbed[h] =>
          /\ status[h] = "missing" =>
               \/ r.id # Nobody /\ ~Found(r.id, r.tenant)
               \/ \E t \in r.asked : ~Found(t, r.tenant)
          /\ status[h] = "ok" /\ agent =>
               /\ r.id \in live
               /\ loaded[h] = ToolsOf(r.id)
               /\ r.replaces => ToolsOf(r.id) = r.asked
          /\ status[h] = "ok" /\ r.op \in {"delete agent", "delete tool"} =>
               /\ r.id \notin live
               /\ ToolsOf(r.id) = {} /\ AgentsOf(r.id) = {}

\* A row never changes hands, and once deleted never comes back, not by a
\* handler either that had read it before and writes after.
RowsAreFinal ==
  [][\A i \in Ids : owner[i] # Nobody =>
       /\ owner'[i] = owner[i]
       /\ i \in live' => i \in live]_vars
=============================================================================
