SPECIFICATION Spec
CONSTANTS
  Names = {billing, shelf}
  Ids = {i1, i2, i3, i4}
  Objects = {x}
  None = None
  MaxCalls = 2
  MaxRequests = 2
  MaxChanges = 1
  MaxFails = 1
SYMMETRY Interchangeable
INVARIANTS
  OneDomainUnlessShared
  LoneExportIsComplete
PROPERTIES
  OnlyStaleTagsGo
  LoneImportReplaces
CHECK_DEADLOCK FALSE
