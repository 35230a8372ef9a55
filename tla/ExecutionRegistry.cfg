\* Two requests of one person, one of them awaited; row batches overflow the
\* buffer and history UPDATEs fail.
CONSTANTS
  alice = alice
  bob = bob
  e1 = e1
  e2 = e2
  e3 = e3
  Users = {alice, bob}
  Managers = {bob}
  Executions = {e1, e2}
  Owner <- MCOwnerTwo
  Awaited = {e2}
  MaxConcurrentPerUser = 1
  RowEventBuffer = 1
  MaxEvents = 3
  MaxCrashes = 0
  LossyHistory = TRUE
SPECIFICATION Spec
INVARIANTS
  VerdictsAgree
  ReplayIsComplete
PROPERTY HistoryNeverGoesBack
CHECK_DEADLOCK FALSE
