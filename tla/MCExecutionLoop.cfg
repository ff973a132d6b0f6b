SPECIFICATION Spec
CONSTANTS
  ToolNames <- MCToolNames
  AgentTools <- MCAgentTools
  Registry <- MCRegistry
  MaxSteps = 3
  MaxModelCalls = 4
  MaxConsecutiveErrors = 3
  MaxCallsPerTurn = 2
INVARIANTS
  TypeOK
  StepsNumbered
  StreakMatchesTrail
  ForcedAfterFailure
  ToolCallsAnswered
  BackstopNeverFires
  StepOvershootBounded
PROPERTIES
  RunEnds
  SourceSpec
