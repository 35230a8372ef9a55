\* Every admitted execution settles, and so does its history row;
\* the process may stop at any moment.
CONSTANTS
  alice = alice
  bob = bob
  e1 = e1
  e2 = e2
  e3 = e3
  Users = {alice, bob}
  Managers = {bob}
  Executions = {e1, e2}
  Owner <- MCOwnerTwo
  Awaited = {e2}
  MaxConcurrentPerUser = 1
  RowEventBuffer = 1
  MaxEvents = 2
  MaxCrashes = 1
  LossyHistory = FALSE
SPECIFICATION FairSpec
PROPERTIES
  AdmittedSettles
  HistorySettles
  LifecycleSpec
CHECK_DEADLOCK FALSE
