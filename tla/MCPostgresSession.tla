------------------------- MODULE MCPostgresSession -------------------------
EXTENDS PostgresSession, TLC

CONSTANTS e1, e2, c1, c2

\* An editor script and an MCP call that got past the classifier.
MixedProgram == e1 :> <<"function", "withDml", "write">> @@ e2 :> <<"read", "withDml">>
=============================================================================
