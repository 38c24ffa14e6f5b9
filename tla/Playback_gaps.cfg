SPECIFICATION Spec
CONSTANTS
  MinTick <- FloorTick
  MaxTick = 9
  NoTick = NoTick
  StreamLength = 4
  StreamTicks = {0, 1, 2}
  Demos <- OrderedDemos
  Targets = {0, 1}
  Budgets = {0, 2, 3}
  MaxChain = 0
INVARIANTS
  SegmentsDecodeEveryCommand
CHECK_DEADLOCK FALSE
