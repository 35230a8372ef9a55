SPECIFICATION Spec
CONSTANTS
  None = None
  MaxTyped = 2
  MaxOthers = 2
  MaxActs = 2
  MaxDrops = 1
  MaxStarts = 1
  MaxEvents = 4
  CallIds = {c1, c2}
  c1 = c1
  c2 = c2
PROPERTY DraftsAreNotOverwritten
CHECK_DEADLOCK FALSE
