SPECIFICATION Spec
CONSTANTS
  Runs = {run1, run2}
  Agents = {support, sales}
  Models = {"asked", "house"}
  OtherModel = "retired"
  RagModel = "house"
  Priced = {"asked"}
  NoScope = NoScope
  MaxCalls = 2
SYMMETRY Interchangeable
INVARIANTS
  ByModelIsByModel
