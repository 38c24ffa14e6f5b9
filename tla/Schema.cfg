SPECIFICATION MCSpec
CONSTANTS
  Top = 2
  Limit <- MCLimit
  Gap = 2
  Operands = {0, 1}
  Signed <- MCSigned
  MaxPaths = 3
  NumberOf <- MCNumberOf
  NumeralFor <- MCNumeralFor
  Profiles <- MCProfiles
  MaxSerializers = 4
  MaxSerializerFields = 10
  MaxSymbols = 3
  MaxFixedArray = 2
  BadSymbol = "?"
  MaxClasses = 2
  MaxClassId = 4
  Messages <- MCMessages
  ClassLists <- MCClassLists
  RequestLists <- MCRequestLists
  Identities = {i1, i2, i3, i4}
  Queries <- MCQueries
SYMMETRY Symmetric
CONSTRAINT Explored
INVARIANTS
  PathsCanonical
  KeysAreAddresses
  NamesFindFields
  SchemaLinked
  SelectionsAreSubtrees
  ClassesReadable
CHECK_DEADLOCK FALSE
