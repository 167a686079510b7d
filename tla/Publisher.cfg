CONSTANTS
  NumPublishers = 2
  Keys = {1, 2}
  EventConfigs <- Events
  NoFrame = NoFrame
  NoBatch = NoBatch
  MaxFrames = 2
  MaxLostReplies = 1
SPECIFICATION SpecWithRedis
INVARIANTS
  TypeOK DuplicatesOnlyAfterLostReply NothingLostWhileOpen BatchesWellFormed
  NoOvertakingOfUntriedBatch
PROPERTIES DeliveredEventually
