\* Two sandboxed calls that overlap or not, beside an editor.
CONSTANTS
  e1 = e1
  e2 = e2
  e3 = e3
  Executions = {e1, e2, e3}
  Program <- ReadThenWrite
  Sandbox = {e1, e2}
SPECIFICATION SqliteSpec
INVARIANTS
  SandboxWritesNothing
  PragmaPutBack
CHECK_DEADLOCK FALSE
