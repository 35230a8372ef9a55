SPECIFICATION Spec
CONSTANTS
  None = None
  MaxTyped = 2
  MaxOthers = 1
  MaxActs = 2
  MaxDrops = 1
  MaxStarts = 1
  MaxEvents = 4
  CallIds = {c1, c2}
  c1 = c1
  c2 = c2
SYMMETRY Slots
INVARIANTS
  TypeOK
  NothingTypedIsLost
  NothingGivenUpComesBack
  RevisionNamesContent
  QuietMeansInSync
CHECK_DEADLOCK FALSE
