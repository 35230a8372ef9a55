---------------------------- MODULE SqliteSession ----------------------------
(***************************************************************************)
(* Executions on one SQLite file                                           *)
(* (packages/database-adapters/src/sqlite/adapter.ts).  There is one       *)
(* client per file and no connection to reserve, so every session shares   *)
(* it, and with it the query_only pragma a sandboxed session turns on when *)
(* it begins and off when it closes.  There is no driver-level interrupt:  *)
(* a cancelled execution stops before its next statement.                  *)
(***************************************************************************)
EXTENDS Integers, Sequences

CONSTANTS
  Executions,
  Program,   \* the statements of each execution: "read" or "write"
  Sandbox    \* executions with limits.sandbox (MCP read-only mode)

ASSUME SqliteConstants ==
  /\ Program \in [Executions -> Seq({"read", "write"})]
  /\ Sandbox \subseteq Executions

VARIABLES
  pc,         \* the await the session is suspended at
  position,   \* the statement it is at
  outcome,    \* what run() returned
  stop,       \* record.cancelRequested
  queryOnly,  \* PRAGMA query_only of the shared client
  written,    \* the writes that went through
  exposed     \* history: sandboxes that were open when another one closed

sessionVars == <<pc, position, outcome, stop, queryOnly, written, exposed>>

SqliteTypeOK ==
  /\ pc \in [Executions -> {"idle", "next", "running", "closing", "done"}]
  /\ position \in [Executions -> Nat \ {0}]
  /\ outcome \in [Executions -> {"none", "completed", "cancelled", "failed"}]
  /\ stop \in [Executions -> BOOLEAN]
  /\ queryOnly \in BOOLEAN
  /\ written \subseteq Executions \X Nat
  /\ exposed \subseteq Sandbox

SqliteInit ==
  /\ pc = [e \in Executions |-> "idle"]
  /\ position = [e \in Executions |-> 1]
  /\ outcome = [e \in Executions |-> "none"]
  /\ stop = [e \in Executions |-> FALSE]
  /\ queryOnly = FALSE
  /\ written = {}
  /\ exposed = {}

-----------------------------------------------------------------------------

Goto(e, location) == pc' = [pc EXCEPT ![e] = location]

Return(e, result) ==
  /\ Goto(e, "closing")
  /\ outcome' = [outcome EXCEPT ![e] = result]

(* Mutant: the sandbox relies on the classifier alone.                     *)
BeginWritable(e) ==
  /\ pc[e] = "idle"
  /\ Goto(e, "next")
  /\ UNCHANGED <<position, outcome, stop, queryOnly, written, exposed>>

(* beginExecution: the pragma is set for a sandbox, and awaited.           *)
Begin(e) ==
  /\ pc[e] = "idle"
  /\ Goto(e, "next")
  /\ queryOnly' = (queryOnly \/ e \in Sandbox)
  /\ UNCHANGED <<position, outcome, stop, written, exposed>>

StopOrComplete(e) ==
  /\ pc[e] = "next"
  /\ \/ position[e] > Len(Program[e]) /\ Return(e, "completed")
     \/ position[e] <= Len(Program[e]) /\ stop[e] /\ Return(e, "cancelled")
  /\ UNCHANGED <<position, stop, queryOnly, written, exposed>>

StartStatement(e) ==
  /\ pc[e] = "next"
  /\ position[e] <= Len(Program[e])
  /\ ~stop[e]
  /\ Goto(e, "running")
  /\ UNCHANGED <<position, outcome, stop, queryOnly, written, exposed>>

Refused(e) == queryOnly /\ Program[e][position[e]] = "write"

Succeed(e) ==
  /\ pc[e] = "running"
  /\ ~Refused(e)
  /\ Goto(e, "next")
  /\ position' = [position EXCEPT ![e] = @ + 1]
  /\ written' = IF Program[e][position[e]] = "write"
                THEN written \cup {<<e, position[e]>>} ELSE written
  /\ UNCHANGED <<outcome, stop, queryOnly, exposed>>

(* The row or byte limit was hit: the statements that are left never run.  *)
Truncate(e) ==
  /\ pc[e] = "running"
  /\ Program[e][position[e]] = "read"
  /\ Return(e, "completed")
  /\ UNCHANGED <<position, stop, queryOnly, written, exposed>>

(* Refused, or failed for a reason of its own; shouldStop() decides what   *)
(* the failure is called.                                                  *)
Fail(e) ==
  /\ pc[e] = "running"
  /\ Return(e, IF stop[e] THEN "cancelled" ELSE "failed")
  /\ UNCHANGED <<position, stop, queryOnly, written, exposed>>

IsOpen(e) == pc[e] \in {"next", "running", "closing"}

(* A sandbox closes, and no other open one is protected any more.          *)
Expose(e) ==
  exposed' = IF e \in Sandbox THEN exposed \cup {x \in Sandbox : x # e /\ IsOpen(x)} ELSE exposed

(* Mutant: only a session that did not fail puts the pragma back.          *)
CloseUnlessFailed(e) ==
  /\ pc[e] = "closing"
  /\ Goto(e, "done")
  /\ queryOnly' = (queryOnly /\ (e \notin Sandbox \/ outcome[e] = "failed"))
  /\ Expose(e)
  /\ UNCHANGED <<position, outcome, stop, written>>

(* close(): the pragma goes back to off.                                   *)
Close(e) ==
  /\ pc[e] = "closing"
  /\ Goto(e, "done")
  /\ queryOnly' = (queryOnly /\ e \notin Sandbox)
  /\ Expose(e)
  /\ UNCHANGED <<position, outcome, stop, written>>

RequestCancel(e) ==
  /\ pc[e] \notin {"closing", "done"}
  /\ stop' = [stop EXCEPT ![e] = TRUE]
  /\ UNCHANGED <<pc, position, outcome, queryOnly, written, exposed>>

SqliteNext ==
  \E e \in Executions :
    \/ Begin(e) \/ StopOrComplete(e) \/ StartStatement(e)
    \/ Succeed(e) \/ Truncate(e) \/ Fail(e) \/ Close(e) \/ RequestCancel(e)

SqliteSpec == SqliteInit /\ [][SqliteNext]_sessionVars

-----------------------------------------------------------------------------
(* Properties                                                              *)

(* "query_only refuses the write outright, which is the property wanted":  *)
(* a sandboxed execution writes nothing, a write past the classifier       *)
(* included, whatever editors and other sandboxes do beside it.  It        *)
(* excepts a sandbox during whose session another sandbox on the file      *)
(* closed: that close turned the shared pragma off for both.               *)
SandboxWritesNothing == \A w \in written : w[1] \in Sandbox => w[1] \in exposed

(* "... and close() puts it back": once every sandbox has closed, the file *)
(* is writable again for whoever comes next, however the sandboxes ended   *)
(* and whatever overlapped.                                                *)
PragmaPutBack ==
  (\A e \in Sandbox : pc[e] \in {"idle", "done"}) => ~queryOnly
=============================================================================
