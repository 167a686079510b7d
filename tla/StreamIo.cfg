CONSTANTS
  Ids = {1, 2}
  Configs = {x, y}
  MaxRetries = 0
  MaxThreads = 3
SPECIFICATION Spec
INVARIANTS TypeOK LiveThreadsRegistered NoStaleStreamAfterUpdate
PROPERTIES UnchangedStreamsUninterrupted ManagerCallsReturn
