\* An editor script and a sandboxed call share a pool of two.
CONSTANTS
  None = None
  e1 = e1
  e2 = e2
  c1 = c1
  c2 = c2
  Executions = {e1, e2}
  Connections = {c1, c2}
  Program <- MixedProgram
  ReadOnly = {}
  Sandbox = {e2}
SPECIFICATION FairSpec
INVARIANTS
  AutocommitPerStatement
  SandboxWritesNothing
PROPERTIES
  EarlyCancelHolds
  ConnectionsComeBack
CHECK_DEADLOCK FALSE
