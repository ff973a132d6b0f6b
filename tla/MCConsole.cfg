SPECIFICATION Spec
CONSTANTS
  k1 = k1
  k2 = k2
  t1 = t1
  t2 = t2
  a1 = a1
  a2 = a2
  None = None
  Keys = {k1, k2}
  Tenants = {t1, t2}
  Agents = {a1, a2}
  TenantOf <- MCTenantOf
  AgentsOf <- MCAgentsOf
  MaxRuns = 2
  MaxSteps = 2
  MaxCopies = 1
INVARIANTS
  TypeOK
  SessionKeepsItsKey
  VerdictIsTheServers
  TimelineIsOneRun
PROPERTIES
  RunFormComesBack
