\* The starter and a second member open the execution, and a socket is lost.
CONSTANTS
  starter = starter
  member = member
  Clients = {starter, member}
  Starter = starter
  Stream <- QueryStream
  RowEventBuffer = 1
  EarlyCap = 500
  MaxOpens = 2
  MaxFaults = 1
SPECIFICATION FairSpec
INVARIANTS
  RowsInOrder
  RowsForSubscribers
  
PROPERTY StarterSeesTheEnd
CHECK_DEADLOCK FALSE
