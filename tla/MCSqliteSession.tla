-------------------------- MODULE MCSqliteSession --------------------------
EXTENDS SqliteSession, TLC

CONSTANTS e1, e2, e3

\* Each reads and then writes; which of them is sandboxed is up to the run.
ReadThenWrite == e1 :> <<"read", "write">> @@ e2 :> <<"read", "write">> @@ e3 :> <<"write">>
=============================================================================
