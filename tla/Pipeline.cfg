CONSTANTS
  NumWorkers = 2
  NumPublishers = 1
  Keys = {1}
  BatchSizes = {2}
  Procs = {p1}
  Geoms <- OneGeometry
  SaveProcessed = {FALSE}
  SaveIntervals = {2}
  NoFrame = NoFrame
  NoContext = NoContext
  NoBatch = NoBatch
  MaxFrames = 2
  MaxLostReplies = 1
SPECIFICATION Spec
INVARIANTS NoThreadOutlivesShutdown
PROPERTIES ImplementsFrameDelivery ShutdownCompletes
