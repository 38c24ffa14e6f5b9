SPECIFICATION Spec
CONSTANTS
  MinTick <- FloorTick
  MaxTick = 9
  NoTick = NoTick
  StreamLength = 4
  StreamTicks <- FromMinusOne
  Demos <- AllDemos
  Targets <- SomeTargets
  Budgets = {0, 2, 3}
  MaxChain = 3
PROPERTY TellsTheFeed
INVARIANTS
  CallbacksAreTicks
  SegmentsVisitTicksOnce
  SeekIsStraightSuffix
  IndexPredictsTicks
  SignonAgreesWithIndex
  ResumeIsStraightThrough
  SignonLeaksOnce
CHECK_DEADLOCK FALSE
