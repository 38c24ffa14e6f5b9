SPECIFICATION Spec
CONSTANTS
  MaxIndex = 1
  Serials = {1}
  ClassIds = {a, b}
  Names = {x, y}
  Payloads = {0, 1}
  SelectedNames = {x}
  NoFilter = NoFilter
  NoEntity = NoEntity
  NoClass = NoClass
  MaxDeltas = 2
  MaxLog = 3
SYMMETRY Symmetric
INVARIANTS
  OnlySelectedRecorded
CHECK_DEADLOCK FALSE
VIEW DecodeView
