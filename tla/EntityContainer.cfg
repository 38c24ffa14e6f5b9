SPECIFICATION Spec
CONSTANTS
  a = a
  b = b
  MaxIndex = 1
  Serials = {1}
  Classes = {a, b}
  Payloads = {0}
  Filters <- MCFilters
  NoFilter = NoFilter
  NoEntity = NoEntity
  NoClass = NoClass
  MaxDeltas = 2
  MaxLog = 3
INVARIANTS
  TypeOK
  CountCoherent
  JournalsAgree
  LogExplainsState
  LogWellFormed
CHECK_DEADLOCK FALSE
