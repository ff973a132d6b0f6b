SPECIFICATION Spec
CONSTANTS
  ToolNames <- MCToolNames
  AgentTools <- MCAgentTools
  Registry <- MCRegistry
  MaxSteps = 3
  MaxModelCalls = 3
  MaxConsecutiveErrors = 3
  MaxCallsPerTurn = 2
PROPERTIES
  CallsNeverRaise
