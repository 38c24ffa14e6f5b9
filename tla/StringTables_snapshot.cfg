SPECIFICATION MCSpec
CONSTANTS
  BaselineTable = instancebaseline
  OtherTables = {userinfo}
  Keys = {k1}
  NoKey = NoKey
  Values = {v1, v2}
  NoValue = NoValue
  ClassIds = {}
  NoId = NoId
  ClassOf <- NoClass
  Revisions = {r1, r2}
  MaxEntries = 2
  MaxTables = 1
  MaxLog = 2
  HistorySize = 1
  KeySize = 1
  Letters = {"a", "b", "0"}
  Nul = "0"
  Texts <- MCTexts
  MaxRead = 0
SYMMETRY Symmetric
INVARIANTS
  ChangesAreWrites
CHECK_DEADLOCK FALSE
