SPECIFICATION UpdatesSpec
CONSTANTS
  x = x
  Top = 2
  Limit <- MCLimit
  Gap = 2
  Fields <- MCFields
  NoSerializer = NoSerializer
  OutOfRange = OutOfRange
  Requested <- MCRequested
  Counts = {0, 1, 2}
  Scalars = {x}
  Present = Present
  Missing = Missing
  NoValue = NoValue
INVARIANTS
  ProjectionAgrees
  NoOrphans
