SPECIFICATION Spec
CONSTANTS
  MaxEvents = 6
  QueueSize = 4
INVARIANTS
  TypeOK
  RecordedBeforeAnswer
  FramesWithoutGap
  UnstalledStreamIsComplete
  AmpleQueueNeverFills
PROPERTIES
  RunSettles
  ReaderReleased
  ProducerExits
