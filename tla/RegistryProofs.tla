--------------------------- MODULE RegistryProofs ---------------------------
(***************************************************************************)
(* What TLAPS proves about the registry, for any number of handlers,       *)
(* tenants, agents and tools, on a database that enforces foreign keys or  *)
(* not.  The argument for the tenants is that all a handler holds between  *)
(* its reads and its write (the row it found, the tools it has resolved,   *)
(* the collection it loaded) was made for the tenant that asks, which no   *)
(* other handler can change.                                               *)
(* From the same facts it follows that a tenant's requests are answered as *)
(* if the other tenants did not exist.                                     *)
(***************************************************************************)
EXTENDS Registry, TLAPS

RequestShape == [op : Ops \cup {"none"}, tenant : Tenants \cup {Nobody}, id : Ids \cup {Nobody},
                 asked : SUBSET ToolIds, replaces : BOOLEAN]

\* A handler works for a tenant, on an agent or a tool as the operation has
\* it, and holds nothing while it is idle.
Working ==
  \A h \in Handlers :
    /\ pc[h] = "idle" => loaded[h] = {}
    /\ pc[h] # "idle" =>
         /\ request[h].tenant \in Tenants
         /\ request[h].op = "update agent" => request[h].id \in AgentIds
         /\ request[h].op = "update tool" => request[h].id \in ToolIds

\* A link joins two rows of one tenant.
Linked ==
  \A a \in AgentIds, t \in ToolIds :
    <<a, t>> \in links => owner[a] \in Tenants /\ owner[t] = owner[a]

\* A session holds rows of the tenant that asked.
Held == \A h \in Handlers : \A i \in loaded[h] : owner[i] = request[h].tenant

\* So is the row it has found, and so are the tools it has resolved.
Checked ==
  \A h \in Handlers :
    /\ pc[h] \in {"load", "work", "refresh", "respond"} /\ request[h].id # Nobody
         => owner[request[h].id] = request[h].tenant
    /\ pc[h] \in {"refresh", "respond"} => request[h].id # Nobody
    /\ pc[h] \in {"find", "load"} => todo[h] = request[h].asked
    /\ pc[h] = "work" => \A t \in request[h].asked \ todo[h] : owner[t] = request[h].tenant

Apart == TypeOK /\ Working /\ Linked /\ Held /\ Checked

-----------------------------------------------------------------------------
LEMMA RequestsShaped ==
  ASSUME NEW r \in Requests
  PROVE  /\ r \in RequestShape
         /\ r.tenant \in Tenants
         /\ r.op = "update agent" => r.id \in AgentIds
         /\ r.op = "update tool" => r.id \in ToolIds
BY DEF Requests, RequestShape, OnAgents, ToolChanges

LEMMA ShapeOfRequests == TypeOK => request \in [Handlers -> RequestShape]
BY DEF TypeOK, RequestShape

LEMMA TypeInitial == Init => TypeOK
<1>. SUFFICES ASSUME Init PROVE TypeOK
  OBVIOUS
<1>1. NoRequest \in RequestShape
  BY DEF NoRequest, RequestShape, Ops
<1>. QED  BY <1>1 DEF Init, TypeOK, RequestShape

LEMMA TypeStep == TypeOK /\ Working /\ [Next]_vars => TypeOK'
<1>. SUFFICES ASSUME TypeOK, Working, [Next]_vars PROVE TypeOK'
  OBVIOUS
<1>0. request \in [Handlers -> RequestShape]
  BY ShapeOfRequests
<1>1. CASE UNCHANGED vars
  BY <1>1 DEF TypeOK, vars, tables, handling
<1>2. ASSUME NEW h \in Handlers, NEW i \in Ids \cup {Nobody}, NEW place \in {"done", "refresh"},
             Committed(h, i, place),
             owner' \in [Ids -> Tenants \cup {Nobody}],
             live' \subseteq {j \in Ids : owner'[j] # Nobody},
             links' \subseteq AgentIds \X ToolIds
      PROVE  TypeOK'
  <2>1. [request[h] EXCEPT !.id = i] \in RequestShape
    BY <1>0 DEF RequestShape
  <2>2. request' \in [Handlers -> RequestShape]
    BY <1>0, <1>2, <2>1 DEF Committed
  <2>. QED  BY <1>2, <2>2 DEF Committed, TypeOK, RequestShape
<1>3. ASSUME NEW h \in Handlers, NEW answer \in {"ok", "missing", "failed"}, Answer(h, answer)
      PROVE  TypeOK'
  BY <1>3 DEF Answer, TypeOK, tables
<1>4. ASSUME NEW h \in Handlers, Begin(h) PROVE TypeOK'
  <2>1. PICK r \in Requests : /\ request' = [request EXCEPT ![h] = r]
                              /\ todo' = [todo EXCEPT ![h] = r.asked]
                              /\ pc' = [pc EXCEPT ![h] = IF r.id = Nobody THEN "work" ELSE "find"]
    BY <1>4 DEF Begin
  <2>2. r \in RequestShape
    BY RequestsShaped
  <2>3. r.asked \in SUBSET ToolIds
    BY <2>2 DEF RequestShape
  <2>4. request' \in [Handlers -> RequestShape]
    BY <1>0, <2>1, <2>2
  <2>. QED  BY <1>4, <2>1, <2>3, <2>4 DEF Begin, TypeOK, tables, RequestShape
<1>5. ASSUME NEW h \in Handlers, Find(h) PROVE TypeOK'
  BY <1>5 DEF Find, TypeOK, tables, ToolsOf, Ids
<1>6. ASSUME NEW h \in Handlers, NotFound(h) \/ ToolNotFound(h) \/ Fail(h) PROVE TypeOK'
  BY <1>3, <1>6 DEF NotFound, ToolNotFound, Fail
<1>7. ASSUME NEW h \in Handlers, Resolve(h) PROVE TypeOK'
  BY <1>7 DEF Resolve, TypeOK, tables
<1>8. ASSUME NEW h \in Handlers, Load(h) PROVE TypeOK'
  BY <1>8 DEF Load, TypeOK, tables, AgentsOf, Ids
<1>9. ASSUME NEW h \in Handlers, Refresh(h) PROVE TypeOK'
  <2>1. CASE request[h].op \in AgentWrites
    BY <1>9, <2>1 DEF Refresh, TypeOK, tables
  <2>2. CASE request[h].op \notin AgentWrites
    BY <1>3, <1>9, <2>2 DEF Refresh
  <2>. QED  BY <2>1, <2>2
<1>10. ASSUME NEW h \in Handlers, Respond(h) PROVE TypeOK'
  BY <1>10 DEF Respond, TypeOK, tables, ToolsOf, Ids
<1>11. ASSUME NEW h \in Handlers, Leave(h) PROVE TypeOK'
  <2>1. NoRequest \in RequestShape
    BY DEF NoRequest, RequestShape, Ops
  <2>. QED  BY <1>0, <1>11, <2>1 DEF Leave, TypeOK, tables, RequestShape
<1>12. ASSUME NEW h \in Handlers, Write(h) PROVE TypeOK'
  <2>. DEFINE r == request[h]
  <2>1. /\ r.tenant \in Tenants /\ r.id \in Ids \cup {Nobody} /\ r.asked \subseteq ToolIds
        /\ r.op = "update agent" => r.id \in AgentIds
    <3>1. pc[h] # "idle"
      BY <1>12 DEF Write, Writing, CreateTool, UpdateTool, DeleteTool, CreateAgent,
                   UpdateAgent, DeleteAgent
    <3>. QED  BY <1>0, <3>1 DEF RequestShape, Working
  <2>2. ASSUME NEW i \in Ids, Insert(h, i)
        PROVE  /\ owner' \in [Ids -> Tenants \cup {Nobody}]
               /\ live' \subseteq {j \in Ids : owner'[j] # Nobody}
    <3>1. /\ owner' = [owner EXCEPT ![i] = r.tenant] /\ live' = live \cup {i}
          /\ r.tenant \in Tenants /\ r.tenant # Nobody
      BY <2>1, <2>2, RegistryAssumption DEF Insert
    <3>. HIDE DEF r
    <3>. QED  BY <2>2, <3>1 DEF TypeOK
  <2>3. CASE CreateTool(h)
    <3>1. PICK i \in ToolIds : Insert(h, i) /\ Committed(h, i, "refresh")
      BY <2>3 DEF CreateTool
    <3>. QED  BY <1>2, <2>2, <2>3, <3>1 DEF CreateTool, TypeOK, Ids
  <2>4. CASE UpdateTool(h)
    BY <1>2, <2>1, <2>4 DEF UpdateTool, TypeOK, tables
  <2>5. CASE DeleteTool(h)
    BY <1>2, <2>1, <2>5 DEF DeleteTool, Relink, TypeOK
  <2>6. CASE CreateAgent(h)
    <3>1. PICK i \in AgentIds : /\ Insert(h, i) /\ Committed(h, i, "refresh")
                               /\ Relink({i} \X r.asked, {})
      BY <2>6 DEF CreateAgent
    <3>2. links' \subseteq AgentIds \X ToolIds
      BY <2>1, <3>1 DEF Relink, TypeOK
    <3>. QED  BY <1>2, <2>2, <3>1, <3>2 DEF Ids
  <2>7. CASE UpdateAgent(h)
    <3>1. r.id \in AgentIds
      BY <2>1, <2>7 DEF UpdateAgent, Writing
    <3>2. \/ links' = (links \ ({r.id} \X (loaded[h] \ r.asked))) \cup ({r.id} \X (r.asked \ loaded[h]))
          \/ links' = links
      BY <2>7 DEF UpdateAgent, Relink
    <3>3. links' \subseteq AgentIds \X ToolIds
      BY <2>1, <3>1, <3>2 DEF TypeOK
    <3>. QED  BY <1>2, <2>1, <2>7, <3>3 DEF UpdateAgent, TypeOK
  <2>8. CASE DeleteAgent(h)
    BY <1>2, <2>1, <2>8 DEF DeleteAgent, Relink, TypeOK
  <2>. QED  BY <1>12, <2>3, <2>4, <2>5, <2>6, <2>7, <2>8 DEF Write
<1>. QED
  BY <1>1, <1>4, <1>5, <1>6, <1>7, <1>8, <1>9, <1>10, <1>11, <1>12 DEF Next, Read

LEMMA ApartInitial == Init => Apart
<1>. SUFFICES ASSUME Init PROVE Apart
  OBVIOUS
<1>1. TypeOK
  BY TypeInitial
<1>. QED  BY <1>1 DEF Init, Apart, Working, Linked, Held, Checked

-----------------------------------------------------------------------------
\* A step of handler h that writes no table: what the others hold is theirs
\* as before, and h must account for what it holds itself.
LEMMA HandlerStep ==
  ASSUME Apart, NEW h \in Handlers, UNCHANGED tables,
         NEW r \in RequestShape, NEW p, NEW l, NEW d,
         request' = [request EXCEPT ![h] = r],
         pc' = [pc EXCEPT ![h] = p],
         loaded' = [loaded EXCEPT ![h] = l],
         todo' = [todo EXCEPT ![h] = d],
         p = "idle" => l = {},
         p # "idle" => /\ r.tenant \in Tenants
                       /\ r.op = "update agent" => r.id \in AgentIds
                       /\ r.op = "update tool" => r.id \in ToolIds,
         \A i \in l : owner[i] = r.tenant,
         p \in {"load", "work", "refresh", "respond"} /\ r.id # Nobody => owner[r.id] = r.tenant,
         p \in {"refresh", "respond"} => r.id # Nobody,
         p \in {"find", "load"} => d = r.asked,
         p = "work" => \A t \in r.asked \ d : owner[t] = r.tenant
  PROVE  Working' /\ Linked' /\ Held' /\ Checked'
<1>1. \A g \in Handlers :
        /\ request'[g] = IF g = h THEN r ELSE request[g]
        /\ pc'[g] = IF g = h THEN p ELSE pc[g]
        /\ loaded'[g] = IF g = h THEN l ELSE loaded[g]
        /\ todo'[g] = IF g = h THEN d ELSE todo[g]
  BY DEF Apart, TypeOK
<1>2. Working'
  <2>. SUFFICES ASSUME NEW g \in Handlers
                PROVE  /\ pc'[g] = "idle" => loaded'[g] = {}
                       /\ pc'[g] # "idle" =>
                            /\ request'[g].tenant \in Tenants
                            /\ request'[g].op = "update agent" => request'[g].id \in AgentIds
                            /\ request'[g].op = "update tool" => request'[g].id \in ToolIds
    BY DEF Working
  <2>1. CASE g = h
    BY <1>1, <2>1
  <2>2. CASE g # h
    <3>1. /\ loaded'[g] = loaded[g] /\ request'[g] = request[g]
          /\ pc'[g] = pc[g]
      BY <1>1, <2>2
    <3>2. Working
      BY DEF Apart
    <3>. QED  BY <3>1, <3>2 DEF Working
  <2>. QED  BY <2>1, <2>2
<1>3. Linked'
  BY DEF Apart, Linked, tables
<1>4. Held'
  <2>. SUFFICES ASSUME NEW g \in Handlers, NEW i \in loaded'[g]
                PROVE  owner'[i] = request'[g].tenant
    BY DEF Held
  <2>1. owner' = owner
    BY DEF tables
  <2>2. CASE g = h
    BY <1>1, <2>1, <2>2
  <2>3. CASE g # h
    <3>1. loaded'[g] = loaded[g] /\ request'[g] = request[g]
      BY <1>1, <2>3
    <3>2. \A j \in loaded[g] : owner[j] = request[g].tenant
      BY DEF Apart, Held
    <3>. QED  BY <2>1, <3>1, <3>2
  <2>. QED  BY <2>2, <2>3
<1>5. Checked'
  <2>. SUFFICES ASSUME NEW g \in Handlers
                PROVE  /\ pc'[g] \in {"load", "work", "refresh", "respond"} /\ request'[g].id # Nobody
                            => owner'[request'[g].id] = request'[g].tenant
                       /\ pc'[g] \in {"refresh", "respond"} => request'[g].id # Nobody
                       /\ pc'[g] \in {"find", "load"} => todo'[g] = request'[g].asked
                       /\ pc'[g] = "work" =>
                            \A t \in request'[g].asked \ todo'[g] : owner'[t] = request'[g].tenant
    BY DEF Checked
  <2>1. owner' = owner
    BY DEF tables
  <2>2. CASE g = h
    BY <1>1, <2>1, <2>2
  <2>3. CASE g # h
    <3>1. /\ todo'[g] = todo[g] /\ request'[g] = request[g]
          /\ pc'[g] = pc[g]
      BY <1>1, <2>3
    <3>2. Checked
      BY DEF Apart
    <3>. QED  BY <2>1, <3>1, <3>2 DEF Checked
  <2>. QED  BY <2>2, <2>3
<1>. QED  BY <1>2, <1>3, <1>4, <1>5

\* A commit by h on the row i, which is its tenant's from then on.  Rows that
\* had an owner keep it.
LEMMA CommitStep ==
  ASSUME Apart, NEW h \in Handlers, NEW i \in Ids \cup {Nobody}, NEW place \in {"done", "refresh"},
         pc[h] = "work",
         Committed(h, i, place),
         place = "refresh" => i \in Ids /\ owner'[i] = request[h].tenant,
         request[h].op = "update agent" => i \in AgentIds,
         request[h].op = "update tool" => i \in ToolIds,
         \A j \in Ids : owner[j] # Nobody => owner'[j] = owner[j]
  PROVE  Working' /\ Held' /\ Checked'
<1>0. request \in [Handlers -> RequestShape]
  BY ShapeOfRequests DEF Apart
<1>1. \A g \in Handlers :
        /\ request'[g].tenant = request[g].tenant
        /\ request'[g].op = request[g].op
        /\ request'[g].asked = request[g].asked
        /\ request'[g].id = IF g = h THEN i ELSE request[g].id
        /\ pc'[g] = IF g = h THEN place ELSE pc[g]
        /\ loaded'[g] = loaded[g]
        /\ todo'[g] = todo[g]
  BY <1>0 DEF Apart, TypeOK, Committed, RequestShape
<1>2. Working'
  BY <1>1 DEF Apart, Working
<1>3. \A g \in Handlers : pc[g] # "idle" => request[g].tenant \in Tenants /\ request[g].tenant # Nobody
  BY RegistryAssumption DEF Apart, Working
<1>4. Held'
  <2>. SUFFICES ASSUME NEW g \in Handlers, NEW j \in loaded[g]
                PROVE  owner'[j] = request[g].tenant
    BY <1>1 DEF Held
  <2>1. j \in Ids /\ owner[j] = request[g].tenant
    BY DEF Apart, TypeOK, Held
  <2>2. pc[g] # "idle"
    BY DEF Apart, Working
  <2>. QED  BY <1>3, <2>1, <2>2
<1>5. Checked'
  <2>. SUFFICES ASSUME NEW g \in Handlers
                PROVE  /\ pc'[g] \in {"load", "work", "refresh", "respond"} /\ request'[g].id # Nobody
                            => owner'[request'[g].id] = request'[g].tenant
                       /\ pc'[g] \in {"refresh", "respond"} => request'[g].id # Nobody
                       /\ pc'[g] \in {"find", "load"} => todo'[g] = request'[g].asked
                       /\ pc'[g] = "work" =>
                            \A t \in request'[g].asked \ todo'[g] : owner'[t] = request'[g].tenant
    BY DEF Checked
  <2>1. CASE g = h
    BY <1>1, <2>1, RegistryAssumption DEF Ids
  <2>2. CASE g # h
    <3>1. /\ request[g].id \in Ids \cup {Nobody}
          /\ request[g].asked \subseteq Ids
      BY <1>0 DEF RequestShape, Ids
    <3>2. /\ pc[g] \in {"load", "work", "refresh", "respond"} /\ request[g].id # Nobody
               => owner[request[g].id] = request[g].tenant
          /\ pc[g] \in {"refresh", "respond"} => request[g].id # Nobody
          /\ pc[g] \in {"find", "load"} => todo[g] = request[g].asked
          /\ pc[g] = "work" => \A t \in request[g].asked \ todo[g] : owner[t] = request[g].tenant
      BY DEF Apart, Checked
    <3>. QED  BY <1>1, <1>3, <2>2, <3>1, <3>2
  <2>. QED  BY <2>1, <2>2
<1>. QED  BY <1>2, <1>4, <1>5

-----------------------------------------------------------------------------
LEMMA ReadsKeepApart ==
  ASSUME Apart, TypeOK', NEW h \in Handlers, Begin(h) \/ Find(h) \/ Resolve(h) \/ Load(h)
  PROVE  Apart'
<1>0. request \in [Handlers -> RequestShape] /\ TypeOK
  BY ShapeOfRequests DEF Apart
<1>. DEFINE r == request[h]
<1>1. CASE Begin(h)
  <2>1. PICK q \in Requests :
          /\ request' = [request EXCEPT ![h] = q]
          /\ todo' = [todo EXCEPT ![h] = q.asked]
          /\ pc' = [pc EXCEPT ![h] = IF q.id = Nobody THEN "work" ELSE "find"]
    BY <1>1 DEF Begin
  <2>2. q \in RequestShape /\ q.tenant \in Tenants
        /\ (q.op = "update agent" => q.id \in AgentIds)
        /\ (q.op = "update tool" => q.id \in ToolIds)
    BY RequestsShaped
  <2>3. loaded' = [loaded EXCEPT ![h] = {}]
    BY <1>0, <1>1 DEF Begin, Apart, Working, TypeOK
  <2>4. UNCHANGED tables
    BY <1>1 DEF Begin
  <2>5. q.asked \ q.asked = {}
    OBVIOUS
  <2>. DEFINE p == IF q.id = Nobody THEN "work" ELSE "find"
  <2>6. /\ pc' = [pc EXCEPT ![h] = p]
        /\ p # "idle" /\ p \notin {"refresh", "respond"}
        /\ p \in {"load", "work", "refresh", "respond"} => q.id = Nobody
    BY <2>1
  <2>. HIDE DEF p
  <2>. QED  BY <2>1, <2>2, <2>3, <2>4, <2>5, <2>6, HandlerStep DEF Apart
<1>2. CASE Find(h)
  <2>. DEFINE p == CASE r.op = "get agent" -> "done"
                     [] r.op = "delete tool" -> "load"
                     [] OTHER -> "work"
              l == IF r.id \in AgentIds THEN ToolsOf(r.id) ELSE {}
  <2>1. /\ r \in RequestShape /\ r.tenant \in Tenants /\ pc[h] = "find"
        /\ r.op = "update agent" => r.id \in AgentIds
        /\ r.op = "update tool" => r.id \in ToolIds
    BY <1>0, <1>2 DEF Apart, Working, Find
  <2>2. owner[r.id] = r.tenant
    BY <1>2 DEF Find, Found
  <2>3. \A i \in l : owner[i] = r.tenant
    BY <2>2 DEF ToolsOf, Apart, Linked
  <2>4. p \in {"done", "load", "work"}
    OBVIOUS
  <2>5. /\ pc' = [pc EXCEPT ![h] = p]
        /\ loaded' = [loaded EXCEPT ![h] = l]
        /\ request' = [request EXCEPT ![h] = r]
        /\ todo' = [todo EXCEPT ![h] = todo[h]]
        /\ UNCHANGED tables
    BY <1>0, <1>2 DEF Find, TypeOK
  <2>6. todo[h] = r.asked /\ r.asked \ todo[h] = {}
    BY <2>1 DEF Apart, Checked
  <2>. HIDE DEF p, l, r
  <2>. QED  BY <2>1, <2>2, <2>3, <2>4, <2>5, <2>6, HandlerStep DEF Apart
<1>3. CASE Resolve(h)
  <2>1. PICK t \in todo[h] : Found(t, r.tenant) /\ todo' = [todo EXCEPT ![h] = @ \ {t}]
    BY <1>3 DEF Resolve
  <2>. DEFINE d == todo[h] \ {t}
  <2>2. /\ r \in RequestShape /\ r.tenant \in Tenants /\ pc[h] = "work"
        /\ r.op = "update agent" => r.id \in AgentIds
        /\ r.op = "update tool" => r.id \in ToolIds
        /\ \A i \in loaded[h] : owner[i] = r.tenant
        /\ r.id # Nobody => owner[r.id] = r.tenant
        /\ \A i \in r.asked \ todo[h] : owner[i] = r.tenant
    BY <1>0, <1>3 DEF Apart, Working, Held, Checked, Resolve
  <2>3. \A i \in r.asked \ d : owner[i] = r.tenant
    BY <2>1, <2>2 DEF Found
  <2>4. /\ pc' = [pc EXCEPT ![h] = "work"]
        /\ loaded' = [loaded EXCEPT ![h] = loaded[h]]
        /\ request' = [request EXCEPT ![h] = r]
        /\ todo' = [todo EXCEPT ![h] = d]
        /\ UNCHANGED tables
    <3>1. pc[h] = "work" /\ UNCHANGED <<pc, loaded, request, tables>>
      BY <1>3 DEF Resolve
    <3>2. todo' = [todo EXCEPT ![h] = d]
      BY <2>1
    <3>. HIDE DEF d
    <3>. QED  BY <1>0, <3>1, <3>2 DEF TypeOK
  <2>. HIDE DEF d, r
  <2>. QED  BY <2>2, <2>3, <2>4, HandlerStep DEF Apart
<1>4. CASE Load(h)
  <2>1. /\ r \in RequestShape /\ r.tenant \in Tenants /\ pc[h] = "load"
        /\ r.op = "update agent" => r.id \in AgentIds
        /\ r.op = "update tool" => r.id \in ToolIds
        /\ todo[h] = r.asked /\ r.asked \ todo[h] = {}
        /\ r.id # Nobody => owner[r.id] = r.tenant
    BY <1>0, <1>4 DEF Apart, Working, Checked, Load
  <2>2. \A i \in AgentsOf(r.id) : owner[i] = r.tenant
    BY <1>0, <2>1, RegistryAssumption DEF AgentsOf, Apart, Linked, TypeOK
  <2>3. /\ pc' = [pc EXCEPT ![h] = "work"]
        /\ loaded' = [loaded EXCEPT ![h] = AgentsOf(r.id)]
        /\ request' = [request EXCEPT ![h] = r]
        /\ todo' = [todo EXCEPT ![h] = todo[h]]
        /\ UNCHANGED tables
    BY <1>0, <1>4 DEF Load, TypeOK
  <2>. HIDE DEF r
  <2>. QED  BY <2>1, <2>2, <2>3, HandlerStep DEF Apart
<1>. QED  BY <1>1, <1>2, <1>3, <1>4


LEMMA AnswersKeepApart ==
  ASSUME Apart, TypeOK', NEW h \in Handlers,
         NotFound(h) \/ ToolNotFound(h) \/ Fail(h) \/ Refresh(h) \/ Respond(h) \/ Leave(h)
  PROVE  Apart'
<1>0. request \in [Handlers -> RequestShape] /\ TypeOK
  BY ShapeOfRequests DEF Apart
<1>. DEFINE r == request[h]
<1>1. pc[h] # "idle" => /\ r \in RequestShape /\ r.tenant \in Tenants
                        /\ r.op = "update agent" => r.id \in AgentIds
                        /\ r.op = "update tool" => r.id \in ToolIds
  BY <1>0 DEF Apart, Working
<1>2. ASSUME NEW answer, Answer(h, answer), pc[h] # "idle"
      PROVE  Apart'
  <2>1. /\ pc' = [pc EXCEPT ![h] = "done"]
        /\ loaded' = [loaded EXCEPT ![h] = {}]
        /\ request' = [request EXCEPT ![h] = r]
        /\ todo' = [todo EXCEPT ![h] = {}]
        /\ UNCHANGED tables
    BY <1>0, <1>2 DEF Answer
  <2>. HIDE DEF r
  <2>. QED  BY <1>1, <1>2, <2>1, HandlerStep DEF Apart
<1>3. CASE NotFound(h) \/ ToolNotFound(h) \/ Fail(h)
  BY <1>2, <1>3 DEF NotFound, ToolNotFound, Fail
<1>4. CASE Refresh(h)
  <2>1. CASE r.op \in AgentWrites
    <3>1. /\ \A i \in loaded[h] : owner[i] = r.tenant
          /\ r.id # Nobody /\ owner[r.id] = r.tenant
          /\ pc[h] = "refresh"
      BY <1>4 DEF Refresh, Apart, Held, Checked
    <3>2. /\ pc' = [pc EXCEPT ![h] = "respond"]
          /\ loaded' = [loaded EXCEPT ![h] = loaded[h]]
          /\ request' = [request EXCEPT ![h] = r]
          /\ todo' = [todo EXCEPT ![h] = todo[h]]
          /\ UNCHANGED tables
      BY <1>0, <1>4, <2>1 DEF Refresh, TypeOK
    <3>. HIDE DEF r
    <3>. QED  BY <1>1, <3>1, <3>2, HandlerStep DEF Apart
  <2>2. CASE r.op \notin AgentWrites
    BY <1>2, <1>4, <2>2 DEF Refresh
  <2>. QED  BY <2>1, <2>2
<1>5. CASE Respond(h)
  <2>1. r.id # Nobody /\ owner[r.id] = r.tenant /\ pc[h] = "respond"
    BY <1>5 DEF Respond, Apart, Checked
  <2>2. \A i \in ToolsOf(r.id) : owner[i] = r.tenant
    BY <1>0, <2>1 DEF ToolsOf, Apart, Linked, TypeOK
  <2>3. /\ pc' = [pc EXCEPT ![h] = "done"]
        /\ loaded' = [loaded EXCEPT ![h] = ToolsOf(r.id)]
        /\ request' = [request EXCEPT ![h] = r]
        /\ todo' = [todo EXCEPT ![h] = todo[h]]
        /\ UNCHANGED tables
    BY <1>0, <1>5 DEF Respond, TypeOK
  <2>. HIDE DEF r
  <2>. QED  BY <1>1, <2>1, <2>2, <2>3, HandlerStep DEF Apart
<1>6. CASE Leave(h)
  <2>1. NoRequest \in RequestShape
    BY DEF NoRequest, RequestShape, Ops
  <2>2. /\ pc' = [pc EXCEPT ![h] = "idle"]
        /\ loaded' = [loaded EXCEPT ![h] = {}]
        /\ request' = [request EXCEPT ![h] = NoRequest]
        /\ todo' = [todo EXCEPT ![h] = {}]
        /\ UNCHANGED tables
    BY <1>6 DEF Leave
  <2>. QED  BY <2>1, <2>2, HandlerStep DEF Apart
<1>. QED  BY <1>3, <1>4, <1>5, <1>6

\* New links join rows of one tenant.
LEMMA LinkStep ==
  ASSUME Apart, NEW tenant \in Tenants, NEW a, NEW S,
         \A j \in Ids : owner[j] # Nobody => owner'[j] = owner[j],
         links' \subseteq links \cup ({a} \X S),
         S # {} => owner'[a] = tenant,
         \A t \in S : owner'[t] = tenant
  PROVE  Linked'
<1>. SUFFICES ASSUME NEW b \in AgentIds, NEW t \in ToolIds, <<b, t>> \in links'
              PROVE  owner'[b] \in Tenants /\ owner'[t] = owner'[b]
  BY DEF Linked
<1>1. CASE <<b, t>> \in links
  <2>1. owner[b] \in Tenants /\ owner[t] = owner[b]
    BY <1>1 DEF Apart, Linked
  <2>. QED  BY <2>1, RegistryAssumption DEF Ids
<1>2. CASE <<b, t>> \in {a} \X S
  <2>1. b = a /\ t \in S
    BY <1>2
  <2>. QED  BY <2>1
<1>. QED  BY <1>1, <1>2

LEMMA WritesKeepApart ==
  ASSUME Apart, TypeOK', NEW h \in Handlers, Write(h)
  PROVE  Apart' /\ \A i \in Ids : owner[i] # Nobody =>
                     owner'[i] = owner[i] /\ (i \in live' => i \in live)
<1>0. request \in [Handlers -> RequestShape] /\ TypeOK
  BY ShapeOfRequests DEF Apart
<1>. DEFINE r == request[h]
<1>1. /\ pc[h] = "work" /\ todo[h] = {} /\ r.tenant \in Tenants /\ r.tenant # Nobody
      /\ r \in RequestShape
  BY <1>0, RegistryAssumption DEF Write, Writing, CreateTool, UpdateTool, DeleteTool,
     CreateAgent, UpdateAgent, DeleteAgent, Apart, Working
<1>2. /\ r.op = "update agent" => r.id \in AgentIds
      /\ r.op = "update tool" => r.id \in ToolIds
      /\ r.id # Nobody => owner[r.id] = r.tenant
      /\ \A t \in r.asked : owner[t] = r.tenant
      /\ r.asked \subseteq ToolIds
      /\ r.id \in Ids \cup {Nobody}
  BY <1>1 DEF Apart, Working, Checked, RequestShape
<1>3. ASSUME NEW i \in Ids, Insert(h, i)
      PROVE  /\ \A j \in Ids : owner[j] # Nobody =>
                  owner'[j] = owner[j] /\ (j \in live' => j \in live)
             /\ owner'[i] = r.tenant
  BY <1>0, <1>3 DEF Insert, TypeOK
<1>. DEFINE Kept == \A j \in Ids : owner[j] # Nobody =>
                      owner'[j] = owner[j] /\ (j \in live' => j \in live)
<1>4. CASE CreateTool(h)
  <2>1. PICK i \in ToolIds : Insert(h, i) /\ Committed(h, i, "refresh")
    BY <1>4 DEF CreateTool
  <2>2. r.op = "create tool" /\ i \in Ids /\ links' = links
    BY <1>4 DEF CreateTool, Writing, Ids
  <2>3. Kept /\ owner'[i] = r.tenant
    BY <1>3, <2>1, <2>2
  <2>4. Linked'
    BY <1>1, <2>2, <2>3, LinkStep
  <2>5. Working' /\ Held' /\ Checked'
    BY <1>1, <2>1, <2>2, <2>3, CommitStep
  <2>. QED  BY <2>3, <2>4, <2>5 DEF Apart
<1>5. ASSUME owner' = owner, live' \subseteq live,
             NEW place \in {"done", "refresh"}, Committed(h, r.id, place),
             place = "refresh" => r.op \in {"update agent", "update tool"},
             links' \subseteq links \cup ({r.id} \X r.asked),
             r.op = "update agent" \/ links' \subseteq links
      PROVE  Apart' /\ Kept
  <2>1. place = "refresh" => r.id \in Ids /\ owner'[r.id] = r.tenant
    BY <1>2, <1>5, RegistryAssumption DEF Ids
  <2>2. Working' /\ Held' /\ Checked'
    BY <1>1, <1>2, <1>5, <2>1, CommitStep
  <2>3. Linked'
    <3>1. CASE r.op = "update agent"
      <4>1. owner'[r.id] = r.tenant
        BY <1>2, <1>5, <3>1, RegistryAssumption
      <4>2. \A t \in r.asked : owner'[t] = r.tenant
        BY <1>2, <1>5
      <4>3. \A j \in Ids : owner[j] # Nobody => owner'[j] = owner[j]
        BY <1>5
      <4>4. links' \subseteq links \cup ({r.id} \X r.asked)
        BY <1>5
      <4>. HIDE DEF r
      <4>. QED  BY <1>1, <4>1, <4>2, <4>3, <4>4, LinkStep
    <3>2. CASE links' \subseteq links
      BY <1>1, <1>5, <3>2, LinkStep
    <3>. QED  BY <1>5, <3>1, <3>2
  <2>. QED  BY <1>5, <2>2, <2>3 DEF Apart
<1>6. CASE UpdateTool(h)
  <2>1. /\ r.op = "update tool" /\ Committed(h, r.id, "refresh")
        /\ owner' = owner /\ live' = live /\ links' = links
    BY <1>6 DEF UpdateTool, Writing, tables
  <2>. QED  BY <1>5, <2>1
<1>7. CASE DeleteTool(h) \/ DeleteAgent(h)
  <2>1. /\ Committed(h, r.id, "done")
        /\ owner' = owner /\ live' \subseteq live /\ links' \subseteq links
    BY <1>7 DEF DeleteTool, DeleteAgent, Relink
  <2>. QED  BY <1>5, <2>1
<1>8. CASE CreateAgent(h)
  <2>1. PICK i \in AgentIds : /\ Insert(h, i) /\ Committed(h, i, "refresh")
                              /\ Relink({i} \X r.asked, {})
    BY <1>8 DEF CreateAgent
  <2>2. r.op = "create agent" /\ i \in Ids /\ links' \subseteq links \cup ({i} \X r.asked)
    BY <1>8, <2>1 DEF CreateAgent, Writing, Ids, Relink
  <2>3. Kept /\ owner'[i] = r.tenant
    BY <1>3, <2>1, <2>2
  <2>4. \A t \in r.asked : owner'[t] = r.tenant
    BY <1>1, <1>2, <2>3 DEF Ids
  <2>5. Linked'
    BY <1>1, <2>2, <2>3, <2>4, LinkStep
  <2>6. Working' /\ Held' /\ Checked'
    BY <1>1, <2>1, <2>2, <2>3, CommitStep
  <2>. QED  BY <2>3, <2>5, <2>6 DEF Apart
<1>9. CASE UpdateAgent(h)
  <2>1. /\ r.op = "update agent" /\ Committed(h, r.id, "refresh")
        /\ owner' = owner /\ live' = live
    BY <1>9 DEF UpdateAgent, Writing
  <2>2. \/ links' = (links \ ({r.id} \X (loaded[h] \ r.asked))) \cup ({r.id} \X (r.asked \ loaded[h]))
        \/ links' = links
    BY <1>9 DEF UpdateAgent, Relink
  <2>3. links' \subseteq links \cup ({r.id} \X r.asked)
    BY <2>2
  <2>. QED  BY <1>5, <2>1, <2>3
<1>. QED  BY <1>4, <1>6, <1>7, <1>8, <1>9 DEF Write

LEMMA ApartStep == Apart /\ [Next]_vars => Apart'
<1>. SUFFICES ASSUME Apart, [Next]_vars PROVE Apart'
  OBVIOUS
<1>1. TypeOK'
  BY TypeStep DEF Apart
<1>2. CASE UNCHANGED vars
  BY <1>1, <1>2 DEF vars, tables, handling, Apart, Working, Linked, Held, Checked
<1>3. CASE Next
  BY <1>1, <1>3, ReadsKeepApart, AnswersKeepApart, WritesKeepApart DEF Next, Read
<1>. QED  BY <1>2, <1>3

LEMMA ApartAlways == Spec => []Apart
<1>. QED  BY ApartInitial, ApartStep, PTL DEF Spec

\* The tables and what the handlers hold have the shapes the code gives them
\* in every state.
THEOREM TypeCorrect == Spec => []TypeOK
<1>1. Apart => TypeOK
  BY DEF Apart
<1>. QED  BY <1>1, ApartAlways, PTL

\* Whatever agent and tool requests run at the same time, on either database,
\* no agent gets a tool of another tenant and no session a row of one.
THEOREM TenantsStayApart == Spec => []TenantsApart
<1>1. Apart => TenantsApart
  BY DEF Apart, Linked, Held, TenantsApart
<1>. QED  BY <1>1, ApartAlways, PTL

\* No request, however old what it has read, gives a row to another tenant
\* or brings back one that was deleted.
THEOREM RowsStayFinal == Spec => RowsAreFinal
<1>. DEFINE Final == \A i \in Ids : owner[i] # Nobody =>
                       /\ owner'[i] = owner[i]
                       /\ i \in live' => i \in live
<1>1. ASSUME Apart, [Next]_vars PROVE [Final]_vars
  <2>1. CASE UNCHANGED vars
    BY <2>1
  <2>2. ASSUME NEW h \in Handlers, Write(h) PROVE Final
    <3>1. TypeOK'
      BY <1>1, TypeStep DEF Apart
    <3>. QED  BY <1>1, <2>2, <3>1, WritesKeepApart
  <2>3. ASSUME NEW h \in Handlers,
               Begin(h) \/ Read(h) \/ Fail(h) \/ Refresh(h) \/ Respond(h) \/ Leave(h)
        PROVE  Final
    <3>1. UNCHANGED tables
      BY <2>3 DEF Begin, Read, Find, NotFound, Resolve, ToolNotFound, Load, Fail, Refresh,
                  Respond, Leave, Answer
    <3>. QED  BY <3>1 DEF tables
  <2>. QED  BY <1>1, <2>1, <2>2, <2>3 DEF Next
<1>. QED  BY <1>1, ApartAlways, PTL DEF Spec, RowsAreFinal

-----------------------------------------------------------------------------
\* A handler is where its operation takes it, with the request it was given.
Fitting ==
  \A h \in Handlers :
    LET r == request[h]
    IN  pc[h] # "idle" =>
          /\ r.op \in ToolChanges => r.id \in ToolIds
          /\ r.op \in OnAgents => r.id \in AgentIds
          /\ r.replaces => r.op \in AgentWrites
          /\ pc[h] = "find" => r.id # Nobody
          /\ pc[h] = "load" => r.op = "delete tool"
          /\ pc[h] = "work" => todo[h] \subseteq r.asked
          /\ pc[h] = "refresh" => r.op \in AgentWrites \cup {"create tool", "update tool"}
          /\ pc[h] = "respond" => r.op \in AgentWrites

\* What handler h has read of its tenant's rows before it writes is so still,
\* and so is what it has written.
ReadsHold(h) ==
  LET r == request[h]
  IN  /\ pc[h] \in {"load", "work"} /\ r.id # Nobody => Found(r.id, r.tenant)
      /\ pc[h] = "work" =>
           /\ \A t \in r.asked \ todo[h] : Found(t, r.tenant)
           /\ r.op \in OnAgents => loaded[h] = ToolsOf(r.id)
           /\ r.op = "delete tool" => loaded[h] = AgentsOf(r.id)

WritesHold(h) ==
  LET r == request[h]
  IN  pc[h] \in {"refresh", "respond"} =>
        /\ Found(r.id, r.tenant)
        /\ r.replaces => ToolsOf(r.id) = r.asked

\* The answer of handler h is that of a server that does nothing else.
AnswerHolds(h) ==
  LET r == request[h]
      agent == r.op \in AgentWrites \cup {"get agent"}
  IN  pc[h] = "done" =>
        /\ status[h] = "missing" =>
             \/ r.id # Nobody /\ ~Found(r.id, r.tenant)
             \/ \E t \in r.asked : ~Found(t, r.tenant)
        /\ status[h] = "ok" /\ agent =>
             /\ Found(r.id, r.tenant)
             /\ loaded[h] = ToolsOf(r.id)
             /\ r.replaces => ToolsOf(r.id) = r.asked
        /\ status[h] = "ok" /\ r.op \in {"delete agent", "delete tool"} =>
             /\ owner[r.id] = r.tenant
             /\ r.id \notin live
             /\ ToolsOf(r.id) = {} /\ AgentsOf(r.id) = {}

\* Unless a write of its tenant came in between.
Served(h) == ~disturbed[h] => ReadsHold(h) /\ WritesHold(h) /\ AnswerHolds(h)

Alone == Fitting /\ \A h \in Handlers : Served(h)

-----------------------------------------------------------------------------
LEMMA FittingStep == Apart /\ Fitting /\ [Next]_vars => Fitting'
<1>. SUFFICES ASSUME Apart, Fitting, [Next]_vars PROVE Fitting'
  OBVIOUS
<1>0. TypeOK /\ request \in [Handlers -> RequestShape]
  BY ShapeOfRequests DEF Apart
<1>. DEFINE Fits(r, p, d) ==
       p # "idle" =>
         /\ r.op \in ToolChanges => r.id \in ToolIds
         /\ r.op \in OnAgents => r.id \in AgentIds
         /\ r.replaces => r.op \in AgentWrites
         /\ p = "find" => r.id # Nobody
         /\ p = "load" => r.op = "delete tool"
         /\ p = "work" => d \subseteq r.asked
         /\ p = "refresh" => r.op \in AgentWrites \cup {"create tool", "update tool"}
         /\ p = "respond" => r.op \in AgentWrites
<1>1. \A g \in Handlers : Fits(request[g], pc[g], todo[g])
  BY DEF Fitting
<1>2. SUFFICES \A g \in Handlers : Fits(request'[g], pc'[g], todo'[g])
  BY DEF Fitting
<1>. HIDE DEF Fits
<1>3. CASE UNCHANGED vars
  BY <1>1, <1>3 DEF vars, handling
<1>4. ASSUME NEW h \in Handlers, NEW r, NEW p, NEW d,
             request' = [request EXCEPT ![h] = r], pc' = [pc EXCEPT ![h] = p],
             todo' = [todo EXCEPT ![h] = d], Fits(r, p, d)
      PROVE  \A g \in Handlers : Fits(request'[g], pc'[g], todo'[g])
  <2>1. \A g \in Handlers :
          /\ request'[g] = IF g = h THEN r ELSE request[g]
          /\ pc'[g] = IF g = h THEN p ELSE pc[g]
          /\ todo'[g] = IF g = h THEN d ELSE todo[g]
    BY <1>0, <1>4 DEF TypeOK
  <2>. QED  BY <1>1, <1>4, <2>1
<1>5. ASSUME NEW h \in Handlers, Begin(h)
      PROVE  \A g \in Handlers : Fits(request'[g], pc'[g], todo'[g])
  <2>1. PICK r \in Requests : /\ request' = [request EXCEPT ![h] = r]
                              /\ todo' = [todo EXCEPT ![h] = r.asked]
                              /\ pc' = [pc EXCEPT ![h] = IF r.id = Nobody THEN "work" ELSE "find"]
    BY <1>5 DEF Begin
  <2>2. Fits(r, IF r.id = Nobody THEN "work" ELSE "find", r.asked)
    BY DEF Fits, Requests, ToolChanges, OnAgents, AgentWrites, Creates, Ops
  <2>. QED  BY <1>4, <2>1, <2>2
<1>6. ASSUME NEW h \in Handlers,
             Find(h) \/ Resolve(h) \/ Load(h) \/ Refresh(h) \/ Respond(h) \/ Leave(h)
                \/ NotFound(h) \/ ToolNotFound(h) \/ Fail(h)
      PROVE  \A g \in Handlers : Fits(request'[g], pc'[g], todo'[g])
  <2>. DEFINE r == request[h]
  <2>0. Fits(r, pc[h], todo[h])
    BY <1>1
  <2>1. request' = [request EXCEPT ![h] = r] \/ Leave(h)
    BY <1>0, <1>6 DEF Find, Resolve, Load, Refresh, Respond, NotFound, ToolNotFound, Fail, Answer
  <2>2. CASE Find(h)
    <3>. DEFINE p == CASE r.op = "get agent" -> "done"
                       [] r.op = "delete tool" -> "load"
                       [] OTHER -> "work"
    <3>1. pc[h] = "find" /\ pc' = [pc EXCEPT ![h] = p] /\ todo' = [todo EXCEPT ![h] = todo[h]]
          /\ request' = [request EXCEPT ![h] = r]
      BY <1>0, <2>2 DEF Find, TypeOK
    <3>2. todo[h] = r.asked
      BY <3>1 DEF Apart, Checked
    <3>3. p \in {"done", "load", "work"} /\ (p = "load" => r.op = "delete tool")
      OBVIOUS
    <3>. HIDE DEF p
    <3>4. Fits(r, p, todo[h])
      BY <2>0, <3>1, <3>2, <3>3 DEF Fits
    <3>. QED  BY <1>4, <3>1, <3>4
  <2>3. CASE Resolve(h)
    <3>1. PICK t \in todo[h] : todo' = [todo EXCEPT ![h] = @ \ {t}]
      BY <2>3 DEF Resolve
    <3>2. pc[h] = "work" /\ UNCHANGED <<pc, request>>
      BY <2>3 DEF Resolve
    <3>3. Fits(r, "work", todo[h] \ {t})
      BY <2>0, <3>2 DEF Fits
    <3>4. /\ request' = [request EXCEPT ![h] = r] /\ pc' = [pc EXCEPT ![h] = "work"]
          /\ todo' = [todo EXCEPT ![h] = todo[h] \ {t}]
      BY <1>0, <3>1, <3>2 DEF TypeOK
    <3>. QED  BY <1>4, <3>3, <3>4
  <2>4. CASE Load(h)
    <3>1. /\ pc[h] = "load" /\ pc' = [pc EXCEPT ![h] = "work"]
          /\ request' = [request EXCEPT ![h] = r]
          /\ todo' = [todo EXCEPT ![h] = todo[h]]
      BY <1>0, <2>4 DEF Load, TypeOK
    <3>2. todo[h] = r.asked
      BY <3>1 DEF Apart, Checked
    <3>3. Fits(r, "work", todo[h])
      BY <2>0, <3>1, <3>2 DEF Fits
    <3>. QED  BY <1>4, <3>1, <3>3
  <2>5. ASSUME NEW answer, Answer(h, answer), pc[h] # "idle"
        PROVE  \A g \in Handlers : Fits(request'[g], pc'[g], todo'[g])
    <3>1. /\ request' = [request EXCEPT ![h] = r] /\ pc' = [pc EXCEPT ![h] = "done"]
          /\ todo' = [todo EXCEPT ![h] = {}]
      BY <1>0, <2>5 DEF Answer, TypeOK
    <3>2. Fits(r, "done", {})
      BY <2>0, <2>5 DEF Fits
    <3>. QED  BY <1>4, <3>1, <3>2
  <2>6. CASE NotFound(h) \/ ToolNotFound(h) \/ Fail(h)
    BY <2>5, <2>6 DEF NotFound, ToolNotFound, Fail
  <2>7. CASE Refresh(h)
    <3>1. CASE r.op \in AgentWrites
      <4>1. /\ pc[h] = "refresh" /\ pc' = [pc EXCEPT ![h] = "respond"]
            /\ request' = [request EXCEPT ![h] = r]
            /\ todo' = [todo EXCEPT ![h] = todo[h]]
        BY <1>0, <2>7, <3>1 DEF Refresh, TypeOK
      <4>2. Fits(r, "respond", todo[h])
        BY <2>0, <3>1, <4>1 DEF Fits
      <4>. QED  BY <1>4, <4>1, <4>2
    <3>2. CASE r.op \notin AgentWrites
      BY <2>5, <2>7, <3>2 DEF Refresh
    <3>. QED  BY <3>1, <3>2
  <2>8. CASE Respond(h)
    <3>1. /\ pc[h] = "respond" /\ pc' = [pc EXCEPT ![h] = "done"]
          /\ request' = [request EXCEPT ![h] = r]
          /\ todo' = [todo EXCEPT ![h] = todo[h]]
      BY <1>0, <2>8 DEF Respond, TypeOK
    <3>2. Fits(r, "done", todo[h])
      BY <2>0, <3>1 DEF Fits
    <3>. QED  BY <1>4, <3>1, <3>2
  <2>9. CASE Leave(h)
    <3>1. Fits(NoRequest, "idle", {})
      BY DEF Fits
    <3>. QED  BY <1>4, <2>9, <3>1 DEF Leave
  <2>. QED  BY <1>6, <2>2, <2>3, <2>4, <2>6, <2>7, <2>8, <2>9
<1>7. ASSUME NEW h \in Handlers, Write(h)
      PROVE  \A g \in Handlers : Fits(request'[g], pc'[g], todo'[g])
  <2>. DEFINE r == request[h]
  <2>0. pc[h] = "work" /\ Fits(r, "work", todo[h])
    BY <1>1, <1>7 DEF Write, Writing, CreateTool, UpdateTool, DeleteTool, CreateAgent,
       UpdateAgent, DeleteAgent
  <2>1. \E i \in Ids, place \in {"done", "refresh"} :
          /\ Committed(h, i, place)
          /\ r.op \in ToolChanges => i \in ToolIds
          /\ r.op \in OnAgents => i \in AgentIds
          /\ place = "refresh" => r.op \in AgentWrites \cup {"create tool", "update tool"}
    BY <1>7, <2>0 DEF Write, Writing, CreateTool, UpdateTool, DeleteTool, CreateAgent,
       UpdateAgent, DeleteAgent, Ids, ToolChanges, OnAgents, AgentWrites, Fits
  <2>2. PICK i \in Ids, place \in {"done", "refresh"} :
          /\ Committed(h, i, place)
          /\ r.op \in ToolChanges => i \in ToolIds
          /\ r.op \in OnAgents => i \in AgentIds
          /\ place = "refresh" => r.op \in AgentWrites \cup {"create tool", "update tool"}
    BY <2>1
  <2>3. /\ request' = [request EXCEPT ![h] = [r EXCEPT !.id = i]]
        /\ pc' = [pc EXCEPT ![h] = place]
        /\ todo' = [todo EXCEPT ![h] = todo[h]]
    BY <1>0, <2>2 DEF Committed, TypeOK
  <2>4. /\ [r EXCEPT !.id = i].op = r.op /\ [r EXCEPT !.id = i].id = i
        /\ [r EXCEPT !.id = i].replaces = r.replaces
    BY <1>0 DEF RequestShape
  <2>5. Fits([r EXCEPT !.id = i], place, todo[h])
    BY <2>0, <2>2, <2>4 DEF Fits
  <2>. QED  BY <1>4, <2>3, <2>5
<1>. QED  BY <1>3, <1>5, <1>6, <1>7 DEF Next, Read

\* A write is about one row of the writer's tenant: no other row comes or
\* goes, and no link between other rows.
LEMMA WriteTouchesOne ==
  ASSUME Apart, Fitting, NEW h \in Handlers, Write(h)
  PROVE  /\ \E i \in Ids :
              /\ owner' = [owner EXCEPT ![i] = request[h].tenant]
              /\ owner[i] \in {Nobody, request[h].tenant}
              /\ \A j \in Ids : j # i => (j \in live' <=> j \in live)
              /\ \A a \in AgentIds, t \in ToolIds :
                   a # i /\ t # i => (<<a, t>> \in links' <=> <<a, t>> \in links)
         /\ \E i \in Ids, place \in {"done", "refresh"} : Committed(h, i, place)
<1>. DEFINE r == request[h]
            T == request[h].tenant
<1>0. TypeOK /\ pc[h] = "work" /\ (r.id # Nobody => owner[r.id] = T)
  BY DEF Apart, Checked, Write, Writing, CreateTool, UpdateTool, DeleteTool, CreateAgent,
     UpdateAgent, DeleteAgent
<1>1. CASE CreateTool(h)
  <2>1. PICK i \in ToolIds : Insert(h, i) /\ Committed(h, i, "refresh") /\ links' = links
    BY <1>1 DEF CreateTool
  <2>. QED  BY <2>1 DEF Insert, Ids
<1>2. CASE CreateAgent(h)
  <2>1. PICK i \in AgentIds : /\ Insert(h, i) /\ Committed(h, i, "refresh")
                              /\ Relink({i} \X r.asked, {})
    BY <1>2 DEF CreateAgent
  <2>2. links' = (links \ {}) \cup ({i} \X r.asked)
    BY <2>1 DEF Relink
  <2>3. \A a \in AgentIds, t \in ToolIds :
          a # i /\ t # i => (<<a, t>> \in links' <=> <<a, t>> \in links)
    BY <2>2
  <2>4. /\ i \in Ids /\ owner' = [owner EXCEPT ![i] = T] /\ owner[i] = Nobody
        /\ live' = live \cup {i}
    BY <2>1 DEF Insert, Ids
  <2>. QED  BY <2>1, <2>3, <2>4
<1>3. CASE UpdateTool(h) \/ DeleteTool(h) \/ UpdateAgent(h) \/ DeleteAgent(h)
  <2>1. /\ r.id \in Ids /\ r.id # Nobody /\ owner[r.id] = T /\ owner' = owner
        /\ Committed(h, r.id, "done") \/ Committed(h, r.id, "refresh")
    BY <1>0, <1>3, RegistryAssumption DEF Fitting, UpdateTool, DeleteTool, UpdateAgent,
       DeleteAgent, Writing, ToolChanges, OnAgents, Ids, tables
  <2>2. \A j \in Ids : j # r.id => (j \in live' <=> j \in live)
    BY <1>3 DEF UpdateTool, DeleteTool, UpdateAgent, DeleteAgent, tables
  <2>3. \A a \in AgentIds, t \in ToolIds :
          a # r.id /\ t # r.id => (<<a, t>> \in links' <=> <<a, t>> \in links)
    <3>1. PICK S \in {r.asked, {}}, D \in {loaded[h], loaded[h] \ r.asked, {}} :
            \/ links' = (links \ ({r.id} \X D)) \cup ({r.id} \X (S \ loaded[h]))
            \/ links' = links \ (D \X {r.id})
      <4>1. CASE DeleteTool(h)
        BY <4>1 DEF DeleteTool, Relink
      <4>2. CASE DeleteAgent(h)
        <5>1. links' = (links \ ({r.id} \X loaded[h])) \cup ({r.id} \X ({} \ loaded[h]))
          BY <4>2 DEF DeleteAgent, Relink
        <5>. QED  BY <5>1
      <4>3. CASE UpdateAgent(h) /\ r.replaces
        BY <4>3 DEF UpdateAgent, Relink
      <4>4. CASE UpdateTool(h) \/ (UpdateAgent(h) /\ ~r.replaces)
        <5>1. links' = links \ ({} \X {r.id})
          BY <4>4 DEF UpdateTool, UpdateAgent, tables
        <5>. QED  BY <5>1
      <4>. QED  BY <1>3, <4>1, <4>2, <4>3, <4>4
    <3>. QED  BY <3>1
  <2>4. owner' = [owner EXCEPT ![r.id] = T]
    BY <1>0, <2>1 DEF TypeOK
  <2>. QED  BY <2>1, <2>2, <2>3, <2>4
<1>. QED  BY <1>1, <1>2, <1>3 DEF Write

\* What a tenant sees of the tables is what it saw before another one's write.
LEMMA OthersSeeNothing ==
  ASSUME Apart, Apart', Fitting, NEW h \in Handlers, Write(h),
         NEW U \in Tenants, U # request[h].tenant, NEW i \in Ids
  PROVE  /\ Found(i, U)' <=> Found(i, U)
         /\ owner'[i] = U <=> owner[i] = U
         /\ owner[i] = U => /\ ToolsOf(i)' = ToolsOf(i) /\ AgentsOf(i)' = AgentsOf(i)
                            /\ i \in live' <=> i \in live
<1>. DEFINE T == request[h].tenant
<1>1. PICK k \in Ids :
        /\ owner' = [owner EXCEPT ![k] = T]
        /\ owner[k] \in {Nobody, T}
        /\ \A j \in Ids : j # k => (j \in live' <=> j \in live)
        /\ \A a \in AgentIds, t \in ToolIds :
             a # k /\ t # k => (<<a, t>> \in links' <=> <<a, t>> \in links)
  BY WriteTouchesOne
<1>2. TypeOK /\ Linked /\ Linked' /\ U # Nobody
  BY RegistryAssumption DEF Apart
<1>3. owner'[k] # U /\ owner[k] # U
  BY <1>1, <1>2 DEF TypeOK
<1>4. \A j \in Ids : (owner'[j] = U <=> owner[j] = U) /\ (owner[j] = U => j # k)
  BY <1>1, <1>2, <1>3 DEF TypeOK
<1>5. \A j \in Ids : owner[j] = U => (j \in live' <=> j \in live)
  BY <1>1, <1>4
<1>6. ASSUME NEW a \in AgentIds, NEW t \in ToolIds, owner[a] = U \/ owner[t] = U
      PROVE  <<a, t>> \in links' <=> <<a, t>> \in links
  <2>1. a \in Ids /\ t \in Ids
    BY DEF Ids
  <2>2. CASE <<a, t>> \in links
    <3>1. owner[a] = U /\ owner[t] = U
      BY <1>2, <1>6, <2>2 DEF Linked
    <3>. QED  BY <1>1, <1>4, <2>1, <3>1
  <2>3. CASE <<a, t>> \in links'
    <3>1. owner'[a] = owner'[t]
      BY <1>2, <2>3 DEF Linked
    <3>2. owner[a] = U /\ owner[t] = U
      BY <1>4, <1>6, <2>1, <3>1
    <3>. QED  BY <1>1, <1>4, <2>1, <3>2
  <2>. QED  BY <2>2, <2>3
<1>7. Found(i, U)' <=> Found(i, U)
  BY <1>4, <1>5 DEF Found
<1>8. ASSUME owner[i] = U PROVE ToolsOf(i)' = ToolsOf(i) /\ AgentsOf(i)' = AgentsOf(i)
  <2>1. i \in AgentIds => ToolsOf(i)' = ToolsOf(i)
    <3>1. SUFFICES ASSUME i \in AgentIds, NEW t \in ToolIds
                   PROVE  t \in live' /\ <<i, t>> \in links' <=> t \in live /\ <<i, t>> \in links
      BY DEF ToolsOf
    <3>2. <<i, t>> \in links' <=> <<i, t>> \in links
      BY <1>6, <1>8, <3>1
    <3>3. <<i, t>> \in links => owner[t] = U /\ t \in Ids
      BY <1>2, <1>8, <3>1 DEF Linked, Ids
    <3>. QED  BY <1>5, <3>2, <3>3
  <2>2. i \in ToolIds => AgentsOf(i)' = AgentsOf(i)
    <3>1. SUFFICES ASSUME i \in ToolIds, NEW a \in AgentIds
                   PROVE  a \in live' /\ <<a, i>> \in links' <=> a \in live /\ <<a, i>> \in links
      BY DEF AgentsOf
    <3>2. <<a, i>> \in links' <=> <<a, i>> \in links
      BY <1>6, <1>8, <3>1
    <3>3. <<a, i>> \in links => owner[a] = U /\ a \in Ids
      BY <1>2, <1>8, <3>1 DEF Linked, Ids
    <3>. QED  BY <1>5, <3>2, <3>3
  <2>3. links \subseteq AgentIds \X ToolIds /\ links' \subseteq AgentIds \X ToolIds
    BY DEF Apart, TypeOK
  <2>4. i \notin AgentIds => ToolsOf(i) = {} /\ ToolsOf(i)' = {}
    BY <2>3 DEF ToolsOf
  <2>5. i \notin ToolIds => AgentsOf(i) = {} /\ AgentsOf(i)' = {}
    BY <2>3 DEF AgentsOf
  <2>. QED  BY <2>1, <2>2, <2>4, <2>5
<1>. QED  BY <1>4, <1>5, <1>7, <1>8

\* What other handlers do leaves what handler h has read, written and answered
\* as it was, or is a write of its tenant.
LEMMA OthersKeepServed ==
  ASSUME Apart, Apart', Fitting, NEW h \in Handlers, NEW g \in Handlers, g # h,
         Served(h),
         Begin(g) \/ Read(g) \/ Write(g) \/ Fail(g) \/ Refresh(g) \/ Respond(g) \/ Leave(g)
  PROVE  Served(h)'
<1>. DEFINE r == request[h]
<1>0. TypeOK /\ TypeOK' /\ r \in RequestShape
  BY ShapeOfRequests DEF Apart
<1>1. CASE ~Write(g)
  <2>. DEFINE Same == /\ pc'[h] = pc[h] /\ request'[h] = request[h] /\ todo'[h] = todo[h]
                      /\ loaded'[h] = loaded[h] /\ status'[h] = status[h]
                      /\ disturbed'[h] = disturbed[h]
  <2>1. Same
    <3>1. ASSUME NEW answer, Answer(g, answer) PROVE Same
      BY <1>0, <3>1 DEF Answer, TypeOK
    <3>2. CASE Begin(g)
      <4>1. PICK q \in Requests, p \in {"work", "find"} :
                                     /\ request' = [request EXCEPT ![g] = q]
                                     /\ todo' = [todo EXCEPT ![g] = q.asked]
                                     /\ pc' = [pc EXCEPT ![g] = p]
        BY <3>2 DEF Begin
      <4>2. UNCHANGED <<loaded, status, disturbed>>
        BY <3>2 DEF Begin
      <4>. QED  BY <1>0, <4>1, <4>2 DEF TypeOK
    <3>3. CASE Find(g)
      BY <1>0, <3>3 DEF Find, TypeOK
    <3>4. CASE Resolve(g)
      BY <1>0, <3>4 DEF Resolve, TypeOK
    <3>5. CASE Load(g)
      BY <1>0, <3>5 DEF Load, TypeOK
    <3>6. CASE NotFound(g) \/ ToolNotFound(g) \/ Fail(g)
      BY <3>1, <3>6 DEF NotFound, ToolNotFound, Fail
    <3>7. CASE Refresh(g)
      <4>1. CASE request[g].op \in AgentWrites
        BY <1>0, <3>7, <4>1 DEF Refresh, TypeOK
      <4>2. CASE request[g].op \notin AgentWrites
        BY <3>1, <3>7, <4>2 DEF Refresh
      <4>. QED  BY <4>1, <4>2
    <3>8. CASE Respond(g)
      BY <1>0, <3>8 DEF Respond, TypeOK
    <3>9. CASE Leave(g)
      <4>1. /\ pc' = [pc EXCEPT ![g] = "idle"]
            /\ request' = [request EXCEPT ![g] = NoRequest]
            /\ todo' = [todo EXCEPT ![g] = {}]
            /\ loaded' = [loaded EXCEPT ![g] = {}]
        BY <3>9 DEF Leave
      <4>2. /\ status' = [status EXCEPT ![g] = "none"]
            /\ disturbed' = [disturbed EXCEPT ![g] = FALSE]
        BY <3>9 DEF Leave
      <4>3. pc'[h] = pc[h] /\ request'[h] = request[h] /\ todo'[h] = todo[h] /\ loaded'[h] = loaded[h]
        BY <1>0, <4>1 DEF TypeOK
      <4>4. status'[h] = status[h] /\ disturbed'[h] = disturbed[h]
        BY <1>0, <4>2 DEF TypeOK
      <4>. QED  BY <4>3, <4>4
    <3>. QED  BY <1>1, <3>2, <3>3, <3>4, <3>5, <3>6, <3>7, <3>8, <3>9 DEF Read
  <2>3. UNCHANGED tables
    BY <1>1 DEF Begin, Read, Find, NotFound, Resolve, ToolNotFound, Load, Fail, Refresh,
       Respond, Leave, Answer
  <2>. QED  BY <2>1, <2>3
       DEF Served, ReadsHold, WritesHold, AnswerHolds, Found, ToolsOf, AgentsOf, tables
<1>2. CASE Write(g)
  <2>1. PICK i \in Ids, place \in {"done", "refresh"} : Committed(g, i, place)
    BY <1>2, WriteTouchesOne
  <2>2. /\ pc'[h] = pc[h] /\ request'[h] = r /\ todo'[h] = todo[h]
        /\ loaded'[h] = loaded[h] /\ status'[h] = status[h]
    BY <1>0, <2>1 DEF Committed, TypeOK
  <2>3. disturbed'[h] <=> disturbed[h] \/ request[h].tenant = request[g].tenant
    BY <1>0, <2>1 DEF Committed, TypeOK
  <2>4. CASE r.tenant = request[g].tenant
    BY <2>3, <2>4 DEF Served
  <2>5. CASE pc[h] = "idle"
    BY <2>2, <2>5 DEF Served, ReadsHold, WritesHold, AnswerHolds
  <2>6. CASE r.tenant # request[g].tenant /\ pc[h] # "idle"
    <3>1. PICK U \in Tenants : U = r.tenant
      BY <2>6 DEF Apart, Working
    <3>2. ASSUME NEW j \in Ids
          PROVE  /\ Found(j, U)' <=> Found(j, U)
                 /\ owner'[j] = U <=> owner[j] = U
                 /\ owner[j] = U => /\ ToolsOf(j)' = ToolsOf(j) /\ AgentsOf(j)' = AgentsOf(j)
                                    /\ j \in live' <=> j \in live
      BY <1>2, <2>6, <3>1, OthersSeeNothing
    <3>3. r.id \in Ids \cup {Nobody} /\ r.asked \subseteq Ids
      BY <1>0 DEF RequestShape, Ids
    <3>4. ASSUME NEW j \in Ids, j = r.id, ~disturbed[h] PROVE Served(h)'
      <4>1. /\ ReadsHold(h) /\ WritesHold(h) /\ AnswerHolds(h)
            /\ request[h].tenant = U /\ request[h].id = j /\ j # Nobody
        BY <3>1, <3>4, RegistryAssumption DEF Served, Ids
      <4>2. ReadsHold(h)'
        <5>1. /\ pc[h] \in {"load", "work"} => Found(j, U)'
              /\ pc[h] = "work" =>
                   /\ \A t \in r.asked \ todo[h] : Found(t, U)'
                   /\ r.op \in OnAgents => loaded[h] = ToolsOf(j)'
                   /\ r.op = "delete tool" => loaded[h] = AgentsOf(j)'
          BY <3>2, <3>3, <3>4, <4>1 DEF ReadsHold, Found
        <5>. QED  BY <2>2, <4>1, <5>1 DEF ReadsHold, Found, ToolsOf, AgentsOf
      <4>3. WritesHold(h)'
        <5>1. pc[h] \in {"refresh", "respond"} =>
                /\ Found(j, U)'
                /\ r.replaces => ToolsOf(j)' = r.asked
          BY <3>2, <4>1 DEF WritesHold, Found
        <5>. QED  BY <2>2, <4>1, <5>1 DEF WritesHold, Found, ToolsOf
      <4>4. AnswerHolds(h)'
        <5>1. pc[h] = "done" =>
                /\ status[h] = "missing" =>
                     \/ ~Found(j, U)'
                     \/ \E t \in r.asked : ~Found(t, U)'
                /\ status[h] = "ok" /\ r.op \in AgentWrites \cup {"get agent"} =>
                     /\ Found(j, U)'
                     /\ loaded[h] = ToolsOf(j)'
                     /\ r.replaces => ToolsOf(j)' = r.asked
                /\ status[h] = "ok" /\ r.op \in {"delete agent", "delete tool"} =>
                     /\ owner'[j] = U
                     /\ j \notin live'
                     /\ ToolsOf(j)' = {} /\ AgentsOf(j)' = {}
          <6>1. CASE status[h] = "missing"
            BY <3>2, <3>3, <4>1, <6>1 DEF AnswerHolds
          <6>2. CASE status[h] = "ok"
            <7>1. CASE pc[h] = "done" /\ r.op \in AgentWrites \cup {"get agent"}
              <8>1. /\ Found(j, U) /\ loaded[h] = ToolsOf(j)
                    /\ r.replaces => ToolsOf(j) = r.asked
                BY <4>1, <6>2, <7>1 DEF AnswerHolds
              <8>2. Found(j, U)' /\ ToolsOf(j)' = ToolsOf(j)
                BY <3>2, <8>1 DEF Found
              <8>. QED  BY <6>2, <7>1, <8>1, <8>2 DEF AgentWrites
            <7>2. CASE pc[h] = "done" /\ r.op \in {"delete agent", "delete tool"}
              <8>1. owner[j] = U /\ j \notin live /\ ToolsOf(j) = {} /\ AgentsOf(j) = {}
                BY <4>1, <6>2, <7>2 DEF AnswerHolds
              <8>2. owner'[j] = U /\ j \notin live' /\ ToolsOf(j)' = {} /\ AgentsOf(j)' = {}
                BY <3>2, <8>1
              <8>3. r.op \notin AgentWrites \cup {"get agent"}
                BY <7>2 DEF AgentWrites
              <8>. QED  BY <6>2, <7>2, <8>2, <8>3
            <7>. QED  BY <6>2, <7>1, <7>2
          <6>. QED  BY <6>1, <6>2
        <5>. QED  BY <2>2, <4>1, <5>1 DEF AnswerHolds, Found, ToolsOf, AgentsOf
      <4>. QED  BY <4>2, <4>3, <4>4 DEF Served
    <3>5. CASE r.id = Nobody /\ ~disturbed[h]
      <4>1. ReadsHold(h) /\ WritesHold(h) /\ AnswerHolds(h) /\ request[h].tenant = U
        BY <3>1, <3>5 DEF Served
      <4>2. Nobody \notin live
        BY <1>0, RegistryAssumption DEF TypeOK, Ids
      <4>3. /\ r.op \notin OnAgents /\ r.op # "delete tool"
            /\ pc[h] \notin {"refresh", "respond"}
        BY <2>6, <3>5, RegistryAssumption DEF Fitting, OnAgents, ToolChanges, Apart, Checked
      <4>4. ReadsHold(h)'
        <5>1. pc[h] = "work" => \A t \in r.asked \ todo[h] : Found(t, U)'
          BY <3>2, <3>3, <4>1 DEF ReadsHold
        <5>. QED  BY <2>2, <3>5, <4>1, <4>3, <5>1 DEF ReadsHold, Found
      <4>5. WritesHold(h)'
        BY <2>2, <4>3 DEF WritesHold
      <4>6. AnswerHolds(h)'
        <5>1. pc[h] = "done" /\ status[h] = "missing" => \E t \in r.asked : ~Found(t, U)'
          BY <3>2, <3>3, <3>5, <4>1 DEF AnswerHolds
        <5>2. pc[h] = "done" /\ status[h] = "ok" => r.op \notin AgentWrites \cup {"get agent"}
          BY <3>5, <4>1, <4>2 DEF AnswerHolds, Found
        <5>3. r.op \notin {"delete agent", "delete tool"}
          BY <4>3 DEF OnAgents
        <5>. QED  BY <2>2, <4>1, <5>1, <5>2, <5>3 DEF AnswerHolds, Found
      <4>. QED  BY <4>4, <4>5, <4>6 DEF Served
    <3>6. CASE disturbed[h]
      BY <2>3, <3>6 DEF Served
    <3>. QED  BY <3>3, <3>4, <3>5, <3>6
  <2>. QED  BY <2>4, <2>5, <2>6
<1>. QED  BY <1>1, <1>2

\* A handler that is not disturbed while it serves keeps what it found true.
LEMMA OwnReadsServed ==
  ASSUME Apart, Fitting, Apart', NEW h \in Handlers, Served(h), Begin(h) \/ Read(h)
  PROVE  Served(h)'
<1>. DEFINE r == request[h]
<1>0. TypeOK /\ r \in RequestShape
  BY ShapeOfRequests DEF Apart
<1>1. CASE Begin(h)
  <2>1. PICK q \in Requests : /\ request' = [request EXCEPT ![h] = q]
                              /\ todo' = [todo EXCEPT ![h] = q.asked]
                              /\ pc' = [pc EXCEPT ![h] = IF q.id = Nobody THEN "work" ELSE "find"]
    BY <1>1 DEF Begin
  <2>2. /\ request'[h] = q /\ todo'[h] = q.asked
        /\ pc'[h] = IF q.id = Nobody THEN "work" ELSE "find"
    BY <1>0, <2>1 DEF TypeOK
  <2>3. q.id = Nobody => q.op \notin OnAgents /\ q.op # "delete tool"
    BY RegistryAssumption DEF Requests, ToolChanges
  <2>. QED  BY <2>2, <2>3 DEF Served, ReadsHold, WritesHold, AnswerHolds
<1>2. ASSUME Answer(h, "missing"),
             \/ r.id # Nobody /\ ~Found(r.id, r.tenant)
             \/ \E t \in r.asked : ~Found(t, r.tenant)
      PROVE  Served(h)'
  <2>1. pc'[h] = "done" /\ status'[h] = "missing" /\ request'[h] = r /\ UNCHANGED tables
    BY <1>0, <1>2 DEF Answer, TypeOK
  <2>2. \/ r.id # Nobody /\ ~Found(r.id, r.tenant)'
        \/ \E t \in r.asked : ~Found(t, r.tenant)'
    BY <1>2, <2>1 DEF Found, tables
  <2>. QED  BY <2>1, <2>2 DEF Served, ReadsHold, WritesHold, AnswerHolds, Found
<1>3. CASE NotFound(h)
  BY <1>2, <1>3 DEF NotFound, Fitting
<1>4. CASE ToolNotFound(h)
  BY <1>2, <1>4 DEF ToolNotFound, Fitting
<1>5. CASE Find(h)
  <2>1. /\ request'[h] = r /\ todo'[h] = todo[h] /\ UNCHANGED tables
        /\ pc[h] = "find" /\ Found(r.id, r.tenant)
        /\ loaded'[h] = IF r.id \in AgentIds THEN ToolsOf(r.id) ELSE {}
        /\ pc'[h] = CASE r.op = "get agent" -> "done"
                      [] r.op = "delete tool" -> "load"
                      [] OTHER -> "work"
        /\ status'[h] = IF r.op = "get agent" THEN "ok" ELSE "none"
    BY <1>0, <1>5 DEF Find, TypeOK
  <2>2. /\ Found(r.id, r.tenant)' /\ ToolsOf(r.id)' = ToolsOf(r.id)
    BY <2>1 DEF Found, ToolsOf, tables
  <2>3. todo[h] = r.asked
    BY <2>1 DEF Apart, Checked
  <2>4. r.op \in OnAgents => r.id \in AgentIds /\ loaded'[h] = ToolsOf(r.id)'
    BY <2>1, <2>2 DEF Fitting
  <2>5. r.op = "get agent" => ~r.replaces /\ r.op \in OnAgents
    BY <2>1 DEF Fitting, OnAgents, AgentWrites
  <2>6. ReadsHold(h)'
    BY <2>1, <2>2, <2>3, <2>4 DEF ReadsHold
  <2>7. WritesHold(h)' /\ AnswerHolds(h)'
    BY <2>1, <2>2, <2>4, <2>5 DEF WritesHold, AnswerHolds
  <2>. QED  BY <2>6, <2>7 DEF Served
<1>6. CASE Resolve(h)
  <2>1. PICK t \in todo[h] : Found(t, r.tenant) /\ todo' = [todo EXCEPT ![h] = @ \ {t}]
    BY <1>6 DEF Resolve
  <2>2. /\ request'[h] = r /\ pc'[h] = "work" /\ pc[h] = "work" /\ loaded'[h] = loaded[h]
        /\ todo'[h] = todo[h] \ {t} /\ UNCHANGED <<tables, disturbed>>
    BY <1>0, <1>6, <2>1 DEF Resolve, TypeOK
  <2>3. ASSUME ~disturbed[h] PROVE ReadsHold(h)'
    <3>1. ReadsHold(h)
      BY <2>3 DEF Served
    <3>2. \A u \in r.asked \ (todo[h] \ {t}) : Found(u, r.tenant)
      BY <2>1, <2>2, <3>1 DEF ReadsHold
    <3>. QED  BY <2>2, <3>1, <3>2 DEF ReadsHold, Found, ToolsOf, AgentsOf, tables
  <2>4. WritesHold(h)' /\ AnswerHolds(h)'
    BY <2>2 DEF WritesHold, AnswerHolds
  <2>. QED  BY <2>2, <2>3, <2>4 DEF Served
<1>7. CASE Load(h)
  <2>1. /\ request'[h] = r /\ pc'[h] = "work" /\ pc[h] = "load" /\ todo'[h] = todo[h]
        /\ loaded'[h] = AgentsOf(r.id) /\ UNCHANGED <<tables, disturbed>>
    BY <1>0, <1>7 DEF Load, TypeOK
  <2>2. r.asked \ todo[h] = {}
    BY <2>1 DEF Apart, Checked
  <2>3. r.op = "delete tool" /\ r.op \notin OnAgents
    BY <2>1 DEF Fitting, OnAgents
  <2>4. ASSUME ~disturbed[h] PROVE ReadsHold(h)'
    <3>1. r.id # Nobody => Found(r.id, r.tenant)
      BY <2>1, <2>4 DEF Served, ReadsHold
    <3>. QED  BY <2>1, <2>2, <2>3, <3>1 DEF ReadsHold, Found, AgentsOf, tables
  <2>5. WritesHold(h)' /\ AnswerHolds(h)'
    BY <2>1 DEF WritesHold, AnswerHolds
  <2>. QED  BY <2>1, <2>4, <2>5 DEF Served
<1>. QED  BY <1>1, <1>3, <1>4, <1>5, <1>6, <1>7 DEF Read

\* So does what it writes, and what it reads for its answer.
LEMMA OwnAnswersServed ==
  ASSUME Apart, Fitting, Apart', NEW h \in Handlers, Served(h),
         Fail(h) \/ Refresh(h) \/ Respond(h) \/ Leave(h)
  PROVE  Served(h)'
<1>. DEFINE r == request[h]
<1>0. TypeOK
  BY DEF Apart
<1>1. ASSUME NEW answer, Answer(h, answer), answer # "missing",
             answer = "ok" => r.op \in {"create tool", "update tool"}
      PROVE  Served(h)'
  <2>1. pc'[h] = "done" /\ status'[h] = answer /\ request'[h] = r
    BY <1>0, <1>1 DEF Answer, TypeOK
  <2>2. answer = "ok" => r.op \notin AgentWrites \cup {"get agent", "delete agent", "delete tool"}
    BY <1>1 DEF AgentWrites
  <2>. QED  BY <1>1, <2>1, <2>2 DEF Served, ReadsHold, WritesHold, AnswerHolds
<1>2. CASE Fail(h)
  BY <1>1, <1>2 DEF Fail
<1>3. CASE Refresh(h)
  <2>1. CASE r.op \in AgentWrites
    <3>1. /\ request'[h] = r /\ pc'[h] = "respond" /\ pc[h] = "refresh"
          /\ UNCHANGED <<tables, disturbed>>
      BY <1>0, <1>3, <2>1 DEF Refresh, TypeOK
    <3>. QED  BY <3>1 DEF Served, ReadsHold, WritesHold, AnswerHolds, Found, ToolsOf, tables
  <2>2. CASE r.op \notin AgentWrites
    <3>1. r.op \in {"create tool", "update tool"} /\ Answer(h, "ok")
      BY <1>3, <2>2 DEF Refresh, Fitting
    <3>. QED  BY <1>1, <3>1
  <2>. QED  BY <2>1, <2>2
<1>4. CASE Respond(h)
  <2>1. /\ request'[h] = r /\ pc'[h] = "done" /\ pc[h] = "respond" /\ status'[h] = "ok"
        /\ loaded'[h] = ToolsOf(r.id) /\ UNCHANGED <<tables, disturbed>>
    BY <1>0, <1>4 DEF Respond, TypeOK
  <2>2. r.op \in AgentWrites /\ r.op \notin {"delete agent", "delete tool"}
    BY <2>1 DEF Fitting, AgentWrites
  <2>. QED  BY <2>1, <2>2 DEF Served, ReadsHold, WritesHold, AnswerHolds, Found, ToolsOf, tables
<1>5. CASE Leave(h)
  <2>1. pc'[h] = "idle"
    BY <1>0, <1>5 DEF Leave, TypeOK
  <2>. QED  BY <2>1 DEF Served, ReadsHold, WritesHold, AnswerHolds
<1>. QED  BY <1>2, <1>3, <1>4, <1>5

LEMMA OwnWriteServed ==
  ASSUME Apart, Fitting, Apart', NEW h \in Handlers, Served(h), Write(h)
  PROVE  Served(h)'
<1>. DEFINE r == request[h]
<1>0. TypeOK /\ TypeOK' /\ r \in RequestShape /\ pc[h] = "work" /\ todo[h] = {}
  BY ShapeOfRequests DEF Apart, Write, Writing, CreateTool, UpdateTool, DeleteTool, CreateAgent,
     UpdateAgent, DeleteAgent
<1>1. ASSUME NEW i \in Ids, NEW place \in {"done", "refresh"}, Committed(h, i, place)
      PROVE  /\ request'[h].id = i /\ request'[h].tenant = r.tenant /\ request'[h].op = r.op
             /\ request'[h].asked = r.asked /\ request'[h].replaces = r.replaces
             /\ pc'[h] = place /\ (place = "done" => status'[h] = "ok")
             /\ disturbed'[h] <=> disturbed[h]
  <2>1. request \in [Handlers -> RequestShape]
    BY ShapeOfRequests DEF Apart
  <2>2. disturbed'[h] <=> disturbed[h]
    BY <1>0, <1>1 DEF Committed, TypeOK
  <2>. QED  BY <1>0, <1>1, <2>1, <2>2 DEF Committed, TypeOK, RequestShape
<1>2. PICK U \in Tenants : U = r.tenant
  BY <1>0 DEF Apart, Working
<1>3. ASSUME NEW i \in Ids, Committed(h, i, "refresh"), Found(i, U)',
             r.replaces => ToolsOf(i)' = r.asked
      PROVE  Served(h)'
  <2>1. /\ request'[h].id = i /\ request'[h].tenant = U /\ request'[h].asked = r.asked
        /\ request'[h].replaces = r.replaces /\ pc'[h] = "refresh"
    BY <1>1, <1>2, <1>3
  <2>2. WritesHold(h)'
    BY <1>3, <2>1 DEF WritesHold, Found, ToolsOf
  <2>. QED  BY <2>1, <2>2 DEF Served, ReadsHold, AnswerHolds
<1>4. ASSUME NEW i \in Ids, Committed(h, i, "done"), r.op \in {"delete agent", "delete tool"},
             owner'[i] = U, i \notin live', ToolsOf(i)' = {}, AgentsOf(i)' = {}
      PROVE  Served(h)'
  <2>1. /\ request'[h].id = i /\ request'[h].tenant = U /\ request'[h].op = r.op
        /\ pc'[h] = "done" /\ status'[h] = "ok"
    BY <1>1, <1>2, <1>4
  <2>2. r.op \notin AgentWrites \cup {"get agent"}
    BY <1>4 DEF AgentWrites
  <2>3. AnswerHolds(h)'
    BY <1>4, <2>1, <2>2 DEF AnswerHolds, ToolsOf, AgentsOf
  <2>. QED  BY <2>1, <2>3 DEF Served, ReadsHold, WritesHold
<1>5. CASE disturbed[h]
  <2>1. disturbed'[h]
    BY <1>1, <1>5, WriteTouchesOne
  <2>. QED  BY <2>1 DEF Served
<1>6. CASE ~disturbed[h]
  <2>1. /\ r.id # Nobody => r.id \in live /\ owner[r.id] = U
        /\ \A t \in r.asked : t \in live /\ owner[t] = U
        /\ r.op \in OnAgents => loaded[h] = ToolsOf(r.id)
        /\ r.op = "delete tool" => loaded[h] = AgentsOf(r.id)
    BY <1>0, <1>2, <1>6 DEF Served, ReadsHold, Found
  <2>2. /\ links \subseteq AgentIds \X ToolIds /\ links' \subseteq AgentIds \X ToolIds
        /\ r.asked \subseteq ToolIds /\ U # Nobody
        /\ ToolIds \subseteq Ids /\ AgentIds \subseteq Ids
    BY <1>0, RegistryAssumption DEF TypeOK, RequestShape, Ids
  <2>3. ASSUME NEW i \in Ids, Insert(h, i) PROVE Found(i, U)'
    BY <1>0, <1>2, <2>3 DEF Insert, Found, TypeOK
  <2>4. CASE CreateTool(h)
    <3>1. PICK i \in ToolIds : Insert(h, i) /\ Committed(h, i, "refresh")
      BY <2>4 DEF CreateTool
    <3>2. ~r.replaces
      BY <1>0, <2>4 DEF CreateTool, Writing, Fitting, AgentWrites
    <3>. QED  BY <1>3, <2>2, <2>3, <3>1, <3>2
  <2>5. CASE UpdateTool(h)
    <3>1. /\ Committed(h, r.id, "refresh") /\ UNCHANGED tables
          /\ r.id \in ToolIds /\ r.id \in Ids /\ r.id # Nobody /\ ~r.replaces
      BY <1>0, <2>2, <2>5, RegistryAssumption
      DEF UpdateTool, Writing, Fitting, ToolChanges, AgentWrites
    <3>2. PICK i \in Ids : i = r.id
      BY <3>1
    <3>3. Found(i, U)'
      BY <2>1, <3>1, <3>2 DEF Found, tables
    <3>. QED  BY <1>3, <3>1, <3>2, <3>3
  <2>6. CASE DeleteTool(h)
    <3>1. /\ Committed(h, r.id, "done") /\ owner' = owner /\ live' = live \ {r.id}
          /\ links' = links \ (loaded[h] \X {r.id}) /\ r.op = "delete tool"
          /\ r.id \in ToolIds /\ r.id \in Ids /\ r.id # Nobody
      BY <1>0, <2>2, <2>6, RegistryAssumption
      DEF DeleteTool, Writing, Fitting, ToolChanges, Relink
    <3>2. PICK i \in Ids : i = r.id
      BY <3>1
    <3>3. ToolsOf(i)' = {}
      BY <2>2, <3>1, <3>2, RegistryAssumption DEF ToolsOf
    <3>4. ASSUME NEW a \in AgentIds, a \in live', <<a, i>> \in links' PROVE FALSE
      <4>1. a \in live /\ <<a, i>> \in links
        BY <3>1, <3>4
      <4>2. a \in loaded[h]
        BY <2>1, <3>1, <3>2, <4>1 DEF AgentsOf
      <4>. QED  BY <3>1, <3>2, <3>4, <4>2
    <3>5. AgentsOf(i)' = {}
      BY <3>4 DEF AgentsOf
    <3>. QED  BY <1>4, <2>1, <3>1, <3>2, <3>3, <3>5
  <2>7. CASE CreateAgent(h)
    <3>1. PICK i \in AgentIds : /\ Insert(h, i) /\ Committed(h, i, "refresh")
                                /\ links' = links \cup ({i} \X r.asked)
      BY <2>7 DEF CreateAgent, Relink
    <3>2. owner[i] = Nobody /\ live' = live \cup {i}
      BY <3>1 DEF Insert
    <3>3. \A t \in ToolIds : <<i, t>> \notin links
      BY <3>2, RegistryAssumption DEF Apart, Linked
    <3>4. \A t \in ToolIds : t \in live' /\ <<i, t>> \in links' <=> t \in r.asked
      BY <2>1, <2>2, <3>1, <3>2, <3>3
    <3>5. ToolsOf(i)' = r.asked
      BY <2>2, <3>4 DEF ToolsOf
    <3>. QED  BY <1>3, <2>2, <2>3, <3>1, <3>5
  <2>8. CASE UpdateAgent(h)
    <3>1. /\ Committed(h, r.id, "refresh") /\ owner' = owner /\ live' = live
          /\ r.replaces => links' = (links \ ({r.id} \X (loaded[h] \ r.asked)))
                                     \cup ({r.id} \X (r.asked \ loaded[h]))
          /\ r.op = "update agent"
      BY <2>8 DEF UpdateAgent, Writing, Relink
    <3>2. r.id \in AgentIds /\ r.id \in Ids /\ r.id # Nobody /\ r.op \in OnAgents
      BY <1>0, <2>2, <3>1, RegistryAssumption DEF Fitting, OnAgents
    <3>3. PICK i \in Ids : i = r.id
      BY <3>2
    <3>4. Found(i, U)'
      BY <2>1, <3>1, <3>2, <3>3 DEF Found
    <3>5. ASSUME r.replaces, NEW t \in ToolIds
          PROVE  t \in live' /\ <<i, t>> \in links' <=> t \in r.asked
      <4>1. t \in loaded[h] <=> t \in live /\ <<i, t>> \in links
        BY <2>1, <3>2, <3>3 DEF ToolsOf
      <4>2. <<i, t>> \in links' <=>
              (<<i, t>> \in links /\ ~(t \in loaded[h] /\ t \notin r.asked))
                 \/ (t \in r.asked /\ t \notin loaded[h])
        BY <3>1, <3>3, <3>5
      <4>. QED  BY <2>1, <3>1, <4>1, <4>2
    <3>6. r.replaces => ToolsOf(i)' = r.asked
      BY <2>2, <3>5 DEF ToolsOf
    <3>. QED  BY <1>3, <3>1, <3>3, <3>4, <3>6
  <2>9. CASE DeleteAgent(h)
    <3>1. /\ Committed(h, r.id, "done") /\ owner' = owner /\ live' = live \ {r.id}
          /\ links' = links \ ({r.id} \X loaded[h]) /\ r.op = "delete agent"
          /\ r.op \in OnAgents
      BY <2>9 DEF DeleteAgent, Writing, Relink, OnAgents
    <3>2. r.id \in AgentIds /\ r.id \in Ids /\ r.id # Nobody
      BY <1>0, <2>2, <3>1, RegistryAssumption DEF Fitting
    <3>3. PICK i \in Ids : i = r.id
      BY <3>2
    <3>4. AgentsOf(i)' = {}
      BY <2>2, <3>2, <3>3, RegistryAssumption DEF AgentsOf
    <3>5. ASSUME NEW t \in ToolIds, t \in live', <<i, t>> \in links' PROVE FALSE
      <4>1. t \in live /\ <<i, t>> \in links
        BY <3>1, <3>5
      <4>2. t \in loaded[h]
        BY <2>1, <3>1, <3>3, <4>1 DEF ToolsOf
      <4>. QED  BY <3>1, <3>3, <3>5, <4>2
    <3>6. ToolsOf(i)' = {}
      BY <3>5 DEF ToolsOf
    <3>. QED  BY <1>4, <2>1, <3>1, <3>2, <3>3, <3>4, <3>6
  <2>. QED  BY <2>4, <2>5, <2>6, <2>7, <2>8, <2>9 DEF Write
<1>. QED  BY <1>5, <1>6

LEMMA AloneStep == Apart /\ Apart' /\ Alone /\ [Next]_vars => Alone'
<1>. SUFFICES ASSUME Apart, Apart', Alone, [Next]_vars PROVE Alone'
  OBVIOUS
<1>1. Fitting'
  BY FittingStep DEF Alone
<1>2. ASSUME NEW h \in Handlers PROVE Served(h)'
  <2>1. CASE UNCHANGED vars
    BY <2>1 DEF vars, tables, handling, Alone, Served, ReadsHold, WritesHold, AnswerHolds,
       Found, ToolsOf, AgentsOf
  <2>2. ASSUME NEW g \in Handlers,
               Begin(g) \/ Read(g) \/ Write(g) \/ Fail(g) \/ Refresh(g) \/ Respond(g) \/ Leave(g)
        PROVE  Served(h)'
    <3>1. CASE g = h
      BY <2>2, <3>1, OwnReadsServed, OwnAnswersServed, OwnWriteServed DEF Alone
    <3>2. CASE g # h
      BY <2>2, <3>2, OthersKeepServed DEF Alone
    <3>. QED  BY <3>1, <3>2
  <2>. QED  BY <2>1, <2>2 DEF Next
<1>. QED  BY <1>1, <1>2 DEF Alone

\* A request that no other write of its tenant falls into gets the answer of a
\* server that has nothing else to do, whatever the other tenants ask for and
\* whichever statements of theirs come between its own.
THEOREM AnsweredAsIfAlone == Spec => []AnsweredAsAsked
<1>1. Init => Alone
  BY DEF Init, Alone, Fitting, Served, ReadsHold, WritesHold, AnswerHolds
<1>2. Alone => AnsweredAsAsked
  <2>. SUFFICES ASSUME Alone, NEW h \in Handlers, pc[h] = "done", ~disturbed[h]
                PROVE  LET r == request[h]
                           agent == r.op \in AgentWrites \cup {"get agent"}
                       IN  /\ status[h] = "missing" =>
                                \/ r.id # Nobody /\ ~Found(r.id, r.tenant)
                                \/ \E t \in r.asked : ~Found(t, r.tenant)
                           /\ status[h] = "ok" /\ agent =>
                                /\ r.id \in live
                                /\ loaded[h] = ToolsOf(r.id)
                                /\ r.replaces => ToolsOf(r.id) = r.asked
                           /\ status[h] = "ok" /\ r.op \in {"delete agent", "delete tool"} =>
                                /\ r.id \notin live
                                /\ ToolsOf(r.id) = {} /\ AgentsOf(r.id) = {}
    BY DEF AnsweredAsAsked
  <2>1. AnswerHolds(h)
    BY DEF Alone, Served
  <2>. QED  BY <2>1 DEF AnswerHolds, Found
<1>. QED  BY <1>1, <1>2, ApartAlways, AloneStep, PTL DEF Spec
=============================================================================
