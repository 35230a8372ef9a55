--------------------------- MODULE MCResultStream ---------------------------
EXTENDS ResultStream

CONSTANTS starter, member

\* Two row batches and one finished statement.
QueryStream == <<"started", "columns", "rows", "rows", "progress", "completed">>
=============================================================================
