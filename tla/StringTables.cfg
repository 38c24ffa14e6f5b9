SPECIFICATION MCSpec
CONSTANTS
  BaselineTable = instancebaseline
  OtherTables = {userinfo}
  Keys = {k1, k2}
  NoKey = NoKey
  Values = {v1, v2}
  NoValue = NoValue
  ClassIds = {5}
  NoId = NoId
  ClassOf <- SameClass
  Revisions = {r1, r2}
  MaxEntries = 2
  MaxTables = 1
  MaxLog = 2
  HistorySize = 2
  KeySize = 2
  Letters = {"a", "b", "0"}
  Nul = "0"
  Texts <- MCTexts
  MaxRead = 5
SYMMETRY Symmetric
INVARIANTS
  DirtyCoversWrites
  ChangesTellEntries
  BaselinesFollowTable
  ReferencesAreWindow
PROPERTIES
  RevisionTracksBaselines
CHECK_DEADLOCK FALSE
