SPECIFICATION Spec
CONSTANTS
  MaxEvents = 2
  QueueSize = 6
INVARIANTS
  ShownStepsArePersisted
