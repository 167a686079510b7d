CONSTANTS
  NumThreads = 2
  Keys = {k1}
  Procs = {p1, p2}
  Geoms <- Geometries
  StreamOf <- OneStream
  SaveProcessed = {TRUE, FALSE}
  SaveIntervals = {0, 2}
  NoFrame = NoFrame
  NoContext = NoContext
  MaxFrames = 2
SPECIFICATION Spec
INVARIANTS TypeOK FilterMatchesFrame EachFrameInOnePlace
  DirectoriesExist OneFramePerWorkerAndFile
PROPERTIES StopTerminates
