CONSTANTS
  T = {a, b}
  Consumers = {c1, c2, c3}
  MaxPushes = 4
  MaxDrops = 1
SPECIFICATION Spec
INVARIANTS TypeOK NoLostWakeup WakeupsCoverItems FifoOrder
PROPERTIES StopReleasesConsumers ImplementsAbstractFifo
