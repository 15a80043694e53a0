SPECIFICATION Spec
CONSTANTS
  ClipSamples = 3
  FrameSamples = 2
  ChunkSamples = 2
  RingCap = 1
  MaxCaptured = 6
  OutCap = 2
  SeqMod = 8
  JitterCap = 2
  MaxQueuedPackets = 1
  Capacity = 3
  ReadSize = 2
  Budget = 2
INVARIANTS
  FramesAreTheCapture
  RefusedIsKept
  HeardInOrder
PROPERTIES
  QueueSpec
  NothingStuck
CHECK_DEADLOCK FALSE
