CONSTANTS
  EventLists <- Lists
  AvgRates = {0, 50, 75}
  RealRates = {0, 60}
  ActualRates = {50, 60, 75}
  Fps = 10
  IntMax = 50
  MaxFrames = 8
SPECIFICATION Spec
INVARIANTS TypeOK EachSelectedFrameOnce RateKeptOnlyIfKnown OnlyShadowedSinksPileUp
