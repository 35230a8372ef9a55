SPECIFICATION FairSpec
CONSTANTS
  Users = {ann, bob}
  Founder = ann
  Custom = {auditor}
  None = None
  MaxCalls = 2
  MaxRequests = 3
  MaxOpens = 1
INVARIANTS
  PermissionsAreFresh
PROPERTIES
  LoneSetRoleKeepsTheKeys
  LoneRemovalLeavesAnOwner
  RevocationArrives
CHECK_DEADLOCK FALSE
