SPECIFICATION FairSpec
CONSTANTS
  full = full
  alike = alike
  short = short
  seed = seed
  serve = serve
  go = go
  Clients = {ann, bob}
  Lists = {full, alike, short}
  Names = {seed, serve}
  Argvs = {go}
  Commands <- MCCommands
  Runs = {r1, r2}
  None = None
  MaxCalls = 2
  MaxRequests = 3
  MaxChanges = 1
  MaxStops = 1
INVARIANTS
  ApprovedWasShown
  RunsWereApproved
  StopIsReported
  RunningMeansRunning
PROPERTIES
  RunsEnd
CHECK_DEADLOCK FALSE
