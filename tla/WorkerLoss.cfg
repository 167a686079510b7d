CONSTANTS
  NumThreads = 2
  Keys = {k1}
  Procs = {p1}
  Geoms <- OneGeometry
  StreamOf <- OneStream
  SaveProcessed = {FALSE}
  SaveIntervals = {1}
  NoFrame = NoFrame
  NoContext = NoContext
  MaxFrames = 2
SPECIFICATION Spec
INVARIANTS NoFramesLost
