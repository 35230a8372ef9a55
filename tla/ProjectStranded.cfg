SPECIFICATION Spec
CONSTANTS
  Users = {ann, bob}
  Founder = ann
  Custom = {auditor}
  None = None
  MaxCalls = 1
  MaxRequests = 2
  MaxOpens = 1
INVARIANTS
  SomebodyKeepsTheKeys
CHECK_DEADLOCK FALSE
