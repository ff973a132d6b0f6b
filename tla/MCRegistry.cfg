SPECIFICATION Spec
CONSTANTS
  Handlers = {h1, h2}
  Tenants = {acme, globex}
  AgentIds = {a1}
  ToolIds = {t1, t2}
  Nobody = Nobody
SYMMETRY Interchangeable
INVARIANTS
  TypeOK
  TenantsApart
  AnsweredAsAsked
PROPERTY
  RowsAreFinal
