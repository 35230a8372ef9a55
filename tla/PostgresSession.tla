--------------------------- MODULE PostgresSession ---------------------------
(***************************************************************************)
(* Executions on a pool of PostgreSQL connections                          *)
(* (packages/database-adapters/src/postgres/execution.ts), cancelled the   *)
(* way the registry cancels them (apps/server/src/execution/registry.ts).  *)
(*                                                                         *)
(* An execution reserves a connection, sets it up, runs its statements one *)
(* by one and gives the connection back.  The server side of a connection  *)
(* keeps a transaction and a session setting, and neither is reset when    *)
(* the connection goes back to the pool.  A cancellation is a query of its *)
(* own, on another connection of the same pool, that names a backend and   *)
(* interrupts whatever that backend runs when it arrives.                  *)
(*                                                                         *)
(* A statement is one of a few kinds, told apart by what the code and the  *)
(* server do with them:                                                    *)
(*   "read"     a query without effects, run through a cursor              *)
(*   "function" a query that calls a writing function, through a cursor    *)
(*   "withDml"  WITH ... INSERT: row-returning, but DECLARE refuses it     *)
(*   "write"    an INSERT, UPDATE or DELETE, run directly                  *)
(* Transaction control written by the user is left out.                    *)
(***************************************************************************)
EXTENDS Integers, Sequences

CONSTANTS
  Executions,
  Connections,   \* the pool: max connections of one client
  None,          \* nobody
  Program,       \* the statements of each execution, a sequence of kinds
  ReadOnly,      \* executions on a connection marked readOnly
  Sandbox        \* executions with limits.sandbox (MCP read-only mode)

Kinds == {"read", "function", "withDml", "write"}

ASSUME ConstantsAssumption ==
  /\ None \notin Executions
  /\ Program \in [Executions -> Seq(Kinds)]
  /\ ReadOnly \subseteq Executions
  /\ Sandbox \subseteq Executions

VARIABLES
  pc,         \* the await the session is suspended at
  position,   \* the statement it is at
  truncated,  \* state.truncated
  outcome,    \* what run() returned
  stop,       \* record.cancelRequested, what shouldStop() returns
  attached,   \* is record.session set?
  owner,      \* who reserved each connection
  tx,         \* transaction block of each connection
  txReadOnly, \* is that transaction read only?
  readOnly,   \* default_transaction_read_only of each connection
  pending,    \* writes of the open transaction
  committed,  \* writes that are durable
  cancels     \* pg_cancel_backend queries on their way

sessionVars == <<pc, position, truncated, outcome>>
controlVars == <<stop, attached, cancels>>
serverVars  == <<tx, txReadOnly, readOnly, pending, committed>>
vars == <<sessionVars, controlVars, serverVars, owner>>

-----------------------------------------------------------------------------

Preparing   == {"setting", "sandboxing", "restricting", "locating"}
Running     == {"opening", "declaring", "fetching", "direct"}
Locations   == {"idle", "next", "fetched", "ending", "settled", "closing", "done"}
                 \cup Preparing \cup Running
Outcomes    == {"completed", "cancelled", "failed"}
Writes      == Executions \X Nat

TypeOK ==
  /\ pc \in [Executions -> Locations]
  /\ position \in [Executions -> Nat \ {0}]
  /\ truncated \in [Executions -> BOOLEAN]
  /\ outcome \in [Executions -> {"none"} \cup Outcomes]
  /\ stop \in [Executions -> BOOLEAN]
  /\ attached \in [Executions -> BOOLEAN]
  /\ owner \in [Connections -> Executions \cup {None}]
  /\ tx \in [Connections -> {"none", "open", "aborted"}]
  /\ txReadOnly \in [Connections -> BOOLEAN]
  /\ readOnly \in [Connections -> BOOLEAN]
  /\ pending \in [Connections -> SUBSET Writes]
  /\ committed \subseteq Writes
  /\ cancels \subseteq Executions \X Connections

Init ==
  /\ pc = [e \in Executions |-> "idle"]
  /\ position = [e \in Executions |-> 1]
  /\ truncated = [e \in Executions |-> FALSE]
  /\ outcome = [e \in Executions |-> "none"]
  /\ stop = [e \in Executions |-> FALSE]
  /\ attached = [e \in Executions |-> FALSE]
  /\ owner = [c \in Connections |-> None]
  /\ tx = [c \in Connections |-> "none"]
  /\ txReadOnly = [c \in Connections |-> FALSE]
  /\ readOnly = [c \in Connections |-> FALSE]
  /\ pending = [c \in Connections |-> {}]
  /\ committed = {}
  /\ cancels = {}

-----------------------------------------------------------------------------
(* What the server does with a connection.                                 *)

Statement(e)    == Program[e][position[e]]
RowReturning(k) == k \in {"read", "function", "withDml"}
Writing(k)      == k \in {"function", "withDml", "write"}
Changing(k)     == k \in {"withDml", "write"}

Refuses(c) == IF tx[c] = "open" THEN txReadOnly[c] ELSE readOnly[c]

(* BEGIN; inside a transaction it only warns.                              *)
OpenTransaction(c, restricted) ==
  /\ tx[c] # "aborted"
  /\ tx' = [tx EXCEPT ![c] = "open"]
  /\ txReadOnly' = [txReadOnly EXCEPT
       ![c] = restricted \/ IF tx[c] = "open" THEN @ ELSE readOnly[c]]
  /\ UNCHANGED <<readOnly, pending, committed>>

Rollback(c) ==
  /\ tx' = [tx EXCEPT ![c] = "none"]
  /\ pending' = [pending EXCEPT ![c] = {}]
  /\ UNCHANGED <<txReadOnly, readOnly, committed>>

(* A write lands in the open transaction, or commits by itself.            *)
Write(c, w) ==
  /\ tx[c] # "aborted"
  /\ ~Refuses(c)
  /\ IF tx[c] = "open"
     THEN pending' = [pending EXCEPT ![c] = @ \cup {w}] /\ UNCHANGED committed
     ELSE committed' = committed \cup {w} /\ UNCHANGED pending
  /\ UNCHANGED <<tx, txReadOnly, readOnly>>

(* A failed statement aborts the transaction it is in.                     *)
Abort(c) ==
  /\ tx' = [tx EXCEPT ![c] = IF @ = "none" THEN "none" ELSE "aborted"]
  /\ UNCHANGED <<txReadOnly, readOnly, pending, committed>>

-----------------------------------------------------------------------------
(* Helpers of the session.                                                 *)

Goto(e, location) == pc' = [pc EXCEPT ![e] = location]

Release(c) == owner' = [owner EXCEPT ![c] = None]

Return(e, result) ==
  /\ Goto(e, "settled")
  /\ outcome' = [outcome EXCEPT ![e] = result]
  /\ UNCHANGED <<position, truncated>>

(* The catch block of run().                                               *)
Throw(e, why) == Return(e, IF stop[e] \/ why = "user" THEN "cancelled" ELSE "failed")

NextStatement(e) ==
  /\ Goto(e, "next")
  /\ position' = [position EXCEPT ![e] = @ + 1]
  /\ UNCHANGED outcome

At(e, location) == pc[e] = location /\ UNCHANGED controlVars

-----------------------------------------------------------------------------
(* beginPostgresExecution                                                  *)

Reserve(e, c) ==
  /\ At(e, "idle")
  /\ owner[c] = None
  /\ owner' = [owner EXCEPT ![c] = e]
  /\ Goto(e, "setting")
  /\ UNCHANGED <<position, truncated, outcome, serverVars>>

(* SET statement_timeout, SET default_transaction_read_only = on.          *)
Set(e, c) ==
  /\ At(e, "setting")
  /\ tx[c] # "aborted"
  /\ readOnly' = [readOnly EXCEPT ![c] = @ \/ e \in ReadOnly]
  /\ Goto(e, IF e \in Sandbox THEN "sandboxing" ELSE "locating")
  /\ UNCHANGED <<position, truncated, outcome, tx, txReadOnly, pending, committed, owner>>

BeginSandbox(e, c) ==
  /\ At(e, "sandboxing")
  /\ OpenTransaction(c, FALSE)
  /\ Goto(e, "restricting")
  /\ UNCHANGED <<position, truncated, outcome, owner>>

Restrict(e, c) ==
  /\ At(e, "restricting")
  /\ OpenTransaction(c, TRUE)
  /\ Goto(e, "locating")
  /\ UNCHANGED <<position, truncated, outcome, owner>>

(* SELECT pg_backend_pid(); the registry sets record.session.              *)
Locate(e, c) ==
  /\ pc[e] = "locating"
  /\ tx[c] # "aborted"
  /\ attached' = [attached EXCEPT ![e] = TRUE]
  /\ Goto(e, "next")
  /\ UNCHANGED <<position, truncated, outcome, stop, cancels, serverVars, owner>>

(* Mutant: the catch block forgets to release.                             *)
BeginFailsHolding(e, c) ==
  /\ pc[e] \in Preparing
  /\ Abort(c)
  /\ Goto(e, "done")
  /\ outcome' = [outcome EXCEPT ![e] = "failed"]
  /\ UNCHANGED <<position, truncated, owner>>

(* Any of these fails: the connection is released as it is.                *)
BeginFails(e, c) ==
  /\ pc[e] \in Preparing
  /\ Abort(c)
  /\ Release(c)
  /\ Goto(e, "done")
  /\ outcome' = [outcome EXCEPT ![e] = "failed"]
  /\ UNCHANGED <<position, truncated>>

-----------------------------------------------------------------------------
(* run(), between two statements                                           *)

Complete(e) ==
  /\ At(e, "next")
  /\ truncated[e] \/ position[e] > Len(Program[e])
  /\ Return(e, "completed")
  /\ UNCHANGED <<serverVars, owner>>

StopHere(e) ==
  /\ At(e, "next")
  /\ ~truncated[e] /\ position[e] <= Len(Program[e])
  /\ stop[e]
  /\ Return(e, "cancelled")
  /\ UNCHANGED <<serverVars, owner>>

(* Mutant: shouldStop() is only consulted when a statement fails.          *)
StartIgnoringStop(e) ==
  /\ At(e, "next")
  /\ ~truncated[e] /\ position[e] <= Len(Program[e])
  /\ Goto(e, IF RowReturning(Statement(e)) THEN "opening" ELSE "direct")
  /\ UNCHANGED <<position, truncated, outcome, serverVars, owner>>

StartStatement(e) ==
  /\ At(e, "next")
  /\ ~truncated[e] /\ position[e] <= Len(Program[e])
  /\ ~stop[e]
  /\ Goto(e, IF RowReturning(Statement(e)) THEN "opening" ELSE "direct")
  /\ UNCHANGED <<position, truncated, outcome, serverVars, owner>>

-----------------------------------------------------------------------------
(* runCursor                                                               *)

(* SAVEPOINT in a sandbox, BEGIN outside one.                              *)
OpenCursor(e, c) ==
  /\ At(e, "opening")
  /\ IF e \in Sandbox
     THEN tx[c] # "aborted" /\ UNCHANGED serverVars
     ELSE OpenTransaction(c, FALSE)
  /\ Goto(e, "declaring")
  /\ UNCHANGED <<position, truncated, outcome, owner>>

Declare(e, c) ==
  /\ At(e, "declaring")
  /\ Statement(e) # "withDml"
  /\ Goto(e, "fetching")
  /\ UNCHANGED <<position, truncated, outcome, serverVars, owner>>

(* Mutant: the transaction of a failed DECLARE is left open.               *)
RewindNothing(e, c) == UNCHANGED serverVars

(* What brings the connection back after a failed DECLARE.                 *)
Rewind(e, c) ==
  IF e \in Sandbox
  THEN UNCHANGED serverVars        \* ROLLBACK TO SAVEPOINT
  ELSE Rollback(c)

(* DECLARE refuses the statement: the fallback to direct execution.        *)
DeclareRefused(e, c) ==
  /\ At(e, "declaring")
  /\ Rewind(e, c)
  /\ Goto(e, "direct")
  /\ UNCHANGED <<position, truncated, outcome, owner>>

(* One FETCH.  A batch of rows may reach the row or byte cap; an empty one *)
(* ends the loop, and so does the one after the cap.                       *)
Fetch(e, c) ==
  /\ At(e, "fetching")
  /\ IF Statement(e) = "function"
     THEN Write(c, <<e, position[e]>>)
     ELSE UNCHANGED serverVars
  /\ \/ Goto(e, "ending") /\ UNCHANGED truncated
     \/ /\ ~truncated[e]
        /\ Goto(e, "fetched")
        /\ \E full \in BOOLEAN : truncated' = [truncated EXCEPT ![e] = full]
  /\ UNCHANGED <<position, outcome, owner>>

FetchAgain(e) ==
  /\ At(e, "fetched")
  /\ Goto(e, "fetching")
  /\ UNCHANGED <<position, truncated, outcome, serverVars, owner>>

(* Mutant: the cursor path ends with ROLLBACK in a sandbox too.            *)
EndCursorRollsBack(e, c) ==
  /\ At(e, "ending")
  /\ Rollback(c)
  /\ NextStatement(e)
  /\ UNCHANGED <<truncated, owner>>

(* CLOSE, then RELEASE SAVEPOINT in a sandbox, ROLLBACK outside one.       *)
EndCursor(e, c) ==
  /\ At(e, "ending")
  /\ IF e \in Sandbox THEN UNCHANGED serverVars ELSE Rollback(c)
  /\ NextStatement(e)
  /\ UNCHANGED <<truncated, owner>>

-----------------------------------------------------------------------------
(* runDirect                                                               *)

(* The rows a write returns may reach the cap too.                         *)
RunDirect(e, c) ==
  /\ At(e, "direct")
  /\ tx[c] # "aborted"
  /\ IF Writing(Statement(e)) THEN Write(c, <<e, position[e]>>) ELSE UNCHANGED serverVars
  /\ NextStatement(e)
  /\ \/ UNCHANGED truncated
     \/ Writing(Statement(e)) /\ truncated' = [truncated EXCEPT ![e] = TRUE]
  /\ UNCHANGED owner

(* A statement fails: an error, the statement timeout, or an interrupt.    *)
(* Whatever the cursor path had opened is closed on the way out.           *)
StatementFails(e, c, why) ==
  /\ pc[e] \in Running
  /\ pc[e] = "declaring" => why # "error"
  /\ CASE pc[e] = "declaring" -> Rewind(e, c)
       [] pc[e] = "fetching" /\ e \notin Sandbox -> Rollback(c)
       [] OTHER -> Abort(c)
  /\ Throw(e, why)
  /\ UNCHANGED owner

-----------------------------------------------------------------------------
(* The finally block of the registry's run(): record.session is cleared    *)
(* and close() releases the connection, after a ROLLBACK in a sandbox.     *)

Settle(e, c) ==
  /\ pc[e] = "settled"
  /\ attached' = [attached EXCEPT ![e] = FALSE]
  /\ IF e \in Sandbox
     THEN Goto(e, "closing") /\ UNCHANGED owner
     ELSE Goto(e, "done") /\ Release(c)
  /\ UNCHANGED <<position, truncated, outcome, stop, cancels, serverVars>>

CloseSandbox(e, c) ==
  /\ At(e, "closing")
  /\ Rollback(c)
  /\ Release(c)
  /\ Goto(e, "done")
  /\ UNCHANGED <<position, truncated, outcome>>

-----------------------------------------------------------------------------
(* Cancellation                                                            *)

(* registry.cancel(): the flag, then session.cancel() if there is one.     *)
RequestCancel(e) ==
  /\ pc[e] \notin {"closing", "done"}
  /\ stop' = [stop EXCEPT ![e] = TRUE]
  /\ cancels' = cancels \cup {<<e, c>> : c \in {k \in Connections : attached[e] /\ owner[k] = e}}
  /\ UNCHANGED <<sessionVars, attached, serverVars, owner>>

(* The query needs a connection of its own, and interrupts the statement   *)
(* the backend runs when it gets there, whoever that runs for.  An idle    *)
(* backend ignores it.                                                     *)
DeliverCancel(e, c) ==
  /\ <<e, c>> \in cancels
  /\ \E free \in Connections : owner[free] = None
  /\ cancels' = cancels \ {<<e, c>>}
  /\ \/ /\ owner[c] # None
        /\ pc[owner[c]] \in Preparing \cup Running
        /\ BeginFails(owner[c], c) \/ StatementFails(owner[c], c, "user")
     \/ /\ owner[c] # None => pc[owner[c]] \notin Preparing \cup Running
        /\ UNCHANGED <<sessionVars, serverVars, owner>>
  /\ UNCHANGED <<stop, attached>>

-----------------------------------------------------------------------------

Step(e, c) ==
  /\ owner[c] = e
  /\ \/ Set(e, c) \/ BeginSandbox(e, c) \/ Restrict(e, c) \/ Locate(e, c)
     \/ BeginFails(e, c) /\ UNCHANGED controlVars
     \/ Complete(e) \/ StopHere(e) \/ StartStatement(e)
     \/ OpenCursor(e, c) \/ Declare(e, c) \/ DeclareRefused(e, c)
     \/ Fetch(e, c) \/ FetchAgain(e) \/ EndCursor(e, c)
     \/ RunDirect(e, c)
     \/ \E why \in {"error", "timeout"} : StatementFails(e, c, why) /\ UNCHANGED controlVars
     \/ Settle(e, c) \/ CloseSandbox(e, c)

Next ==
  \/ \E e \in Executions, c \in Connections :
       Reserve(e, c) \/ Step(e, c) \/ DeliverCancel(e, c)
  \/ \E e \in Executions : RequestCancel(e)

Spec == Init /\ [][Next]_vars

(* Statements are bounded by statement_timeout and result sets by the row  *)
(* cap, so a session that holds a connection moves on, and a fetch loop    *)
(* ends.  Nothing is assumed of cancellations, nor of waiting sessions.    *)
FairSpec ==
  /\ Spec
  /\ \A e \in Executions :
       /\ WF_vars(\E c \in Connections : Step(e, c))
       /\ SF_vars(\E c \in Connections : Step(e, c) /\ pc'[e] = "ending")

-----------------------------------------------------------------------------
(* Properties                                                              *)

(* "Autocommit-per-statement mode" (query-execution.md): outside a sandbox *)
(* every INSERT, UPDATE, DELETE or WITH ... INSERT the session has gone    *)
(* past is durable, and no write beyond the statement it is at has         *)
(* happened, whatever was cancelled, timed out or fell back from a cursor  *)
(* to direct execution on the way.  A query that calls a writing function  *)
(* is the exception to the first part: it runs in a cursor, and what it    *)
(* wrote is rolled back with the cursor's transaction                      *)
(* (postgres/execution.ts:228-235), though the execution succeeds.         *)
AutocommitPerStatement ==
  \A e \in Executions \ Sandbox :
    /\ \A i \in 1..Len(Program[e]) :
         i < position[e] /\ Changing(Program[e][i]) => <<e, i>> \in committed
    /\ \A i \in 1..Len(Program[e]) : <<e, i>> \in committed => i <= position[e]

(* Nothing a sandboxed execution runs is ever durable, even a write that   *)
(* got past the classifier, even after a failed DECLARE, even when the     *)
(* transaction is rolled back under it by an interrupt (mcp.md, layer 2).  *)
SandboxWritesNothing ==
  \A w \in committed : w[1] \notin Sandbox

(* Every connection comes back to the pool, whatever the session met.      *)
ConnectionsComeBack ==
  \A c \in Connections : (owner[c] # None) ~> (owner[c] = None)

(* A cancel asked for before there is a session to cancel is not lost: the *)
(* execution starts none of its statements, and never ends as completed.   *)
(* It may end as failed: what interrupts or breaks the setting up of the   *)
(* connection is reported as a failure (registry.ts:393-396).              *)
EarlyCancelHolds ==
  \A e \in Executions :
    [](stop[e] /\ pc[e] \in {"idle"} \cup Preparing =>
         [](outcome[e] # "completed" /\ pc[e] \notin Running))
=============================================================================
