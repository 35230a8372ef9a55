----------------------- MODULE PostgresSessionProofs ------------------------
(***************************************************************************)
(* What holds of executions on a pool of PostgreSQL connections, for any   *)
(* programs, any number of executions and connections, and cancellations   *)
(* that arrive at any moment.                                              *)
(***************************************************************************)
EXTENDS PostgresSession, TLAPS

(* The bodies of the two actions a cancel shares with the session.         *)
Aborts(e, c) == BeginFails(e, c) \/ \E why \in {"error", "timeout", "user"} : StatementFails(e, c, why)

(* The steps of a session that do not fail.                                *)
Goes(e, c) ==
  \/ Set(e, c) \/ BeginSandbox(e, c) \/ Restrict(e, c) \/ Locate(e, c)
  \/ Complete(e) \/ StopHere(e) \/ StartStatement(e)
  \/ OpenCursor(e, c) \/ Declare(e, c) \/ DeclareRefused(e, c)
  \/ Fetch(e, c) \/ FetchAgain(e) \/ EndCursor(e, c) \/ RunDirect(e, c)
  \/ Settle(e, c) \/ CloseSandbox(e, c)

Ignored(e, c) ==
  /\ cancels' = cancels \ {<<e, c>>}
  /\ UNCHANGED <<sessionVars, serverVars, owner, stop, attached>>

(* A step is one of these, whoever asked for it.                           *)
LEMMA StepCases ==
  ASSUME Next
  PROVE  \/ \E e \in Executions, c \in Connections : Reserve(e, c)
         \/ \E e \in Executions, c \in Connections : owner[c] = e /\ Goes(e, c)
         \/ \E c \in Connections :
              /\ owner[c] # None /\ Aborts(owner[c], c) /\ UNCHANGED <<stop, attached>>
              /\ cancels' \subseteq cancels
         \/ \E e \in Executions, c \in Connections : Ignored(e, c)
         \/ \E e \in Executions : RequestCancel(e)
<1>1. ASSUME NEW e \in Executions, NEW c \in Connections, Step(e, c)
      PROVE  owner[c] = e /\ (Goes(e, c) \/ (Aborts(e, c) /\ UNCHANGED controlVars))
  BY <1>1 DEF Step, Goes, Aborts
<1>2. \A e \in Executions : e # None
  BY ConstantsAssumption
<1>3. ASSUME NEW e \in Executions, NEW c \in Connections, DeliverCancel(e, c)
      PROVE  \/ Ignored(e, c)
             \/ /\ owner[c] # None /\ Aborts(owner[c], c) /\ UNCHANGED <<stop, attached>>
                /\ cancels' \subseteq cancels
  BY <1>3 DEF DeliverCancel, Aborts, Ignored
<1> QED
  BY <1>1, <1>2, <1>3 DEF Next, controlVars

-----------------------------------------------------------------------------

ServerTyped ==
  /\ tx \in [Connections -> {"none", "open", "aborted"}]
  /\ txReadOnly \in [Connections -> BOOLEAN]
  /\ readOnly \in [Connections -> BOOLEAN]
  /\ pending \in [Connections -> SUBSET Writes]
  /\ committed \subseteq Writes

LEMMA OpenTyped ==
  ASSUME ServerTyped, NEW c \in Connections, NEW restricted \in BOOLEAN,
         OpenTransaction(c, restricted)
  PROVE  ServerTyped'
BY DEF ServerTyped, OpenTransaction

LEMMA RollbackTyped ==
  ASSUME ServerTyped, NEW c \in Connections, Rollback(c)
  PROVE  ServerTyped'
BY DEF ServerTyped, Rollback

LEMMA AbortTyped ==
  ASSUME ServerTyped, NEW c \in Connections, Abort(c)
  PROVE  ServerTyped'
BY DEF ServerTyped, Abort

LEMMA WriteTyped ==
  ASSUME ServerTyped, NEW c \in Connections, NEW w \in Writes, Write(c, w)
  PROVE  ServerTyped'
BY DEF ServerTyped, Write

LEMMA IdleTyped ==
  ASSUME ServerTyped, UNCHANGED serverVars
  PROVE  ServerTyped'
BY DEF ServerTyped, serverVars

(* Every variable keeps its type (postgres/execution.ts).                  *)
THEOREM TypeCorrect == Spec => []TypeOK
<1>1. Init => TypeOK
  BY DEF Init, TypeOK, Locations, Outcomes, Preparing, Running
<1>2. TypeOK /\ [Next]_vars => TypeOK'
  <2> SUFFICES ASSUME TypeOK, [Next]_vars PROVE TypeOK'
    OBVIOUS
  <2> DEFINE SessionTyped ==
        /\ pc \in [Executions -> Locations]
        /\ position \in [Executions -> Nat \ {0}]
        /\ truncated \in [Executions -> BOOLEAN]
        /\ outcome \in [Executions -> {"none"} \cup Outcomes]
      ControlTyped ==
        /\ stop \in [Executions -> BOOLEAN]
        /\ attached \in [Executions -> BOOLEAN]
        /\ cancels \subseteq Executions \X Connections
      OwnerTyped == owner \in [Connections -> Executions \cup {None}]
  <2>a. SessionTyped /\ ControlTyped /\ OwnerTyped /\ ServerTyped
    BY DEF TypeOK, ServerTyped
  <2>b. SessionTyped' /\ ControlTyped' /\ OwnerTyped' /\ ServerTyped' => TypeOK'
    BY DEF TypeOK, ServerTyped
  <2>1. ASSUME NEW e \in Executions, NEW c \in Connections, Reserve(e, c) PROVE TypeOK'
    BY <2>a, <2>b, <2>1, IdleTyped
       DEF Reserve, At, Goto, controlVars, Locations, Preparing
  <2>2. ASSUME NEW e \in Executions, NEW c \in Connections, owner[c] = e, Goes(e, c)
        PROVE  TypeOK'
    <3> USE <2>a, <2>2 DEF At, Goto, controlVars, Locations, Preparing, Running
    <3>w. <<e, position[e]>> \in Writes
      BY DEF Writes
    <3>1. CASE Set(e, c)
      BY <2>b, <3>1 DEF Set, ServerTyped
    <3>2. CASE BeginSandbox(e, c)
      BY <2>b, <3>2, OpenTyped DEF BeginSandbox
    <3>3. CASE Restrict(e, c)
      BY <2>b, <3>3, OpenTyped DEF Restrict
    <3>4. CASE Locate(e, c)
      BY <2>b, <3>4, IdleTyped DEF Locate
    <3>5. CASE Complete(e) \/ StopHere(e)
      BY <2>b, <3>5, IdleTyped DEF Complete, StopHere, Return, Outcomes
    <3>6. CASE StartStatement(e)
      BY <2>b, <3>6, IdleTyped DEF StartStatement
    <3>7. CASE OpenCursor(e, c)
      BY <2>b, <3>7, OpenTyped, IdleTyped DEF OpenCursor
    <3>8. CASE Declare(e, c)
      BY <2>b, <3>8, IdleTyped DEF Declare
    <3>9. CASE DeclareRefused(e, c)
      BY <2>b, <3>9, RollbackTyped, IdleTyped DEF DeclareRefused, Rewind
    <3>10. CASE Fetch(e, c)
      <4>1. ServerTyped'
        BY <3>10, <3>w, WriteTyped, IdleTyped DEF Fetch
      <4> QED
        BY <2>b, <3>10, <4>1 DEF Fetch
    <3>11. CASE FetchAgain(e)
      BY <2>b, <3>11, IdleTyped DEF FetchAgain
    <3>12. CASE EndCursor(e, c)
      BY <2>b, <3>12, RollbackTyped, IdleTyped DEF EndCursor, NextStatement
    <3>13. CASE RunDirect(e, c)
      <4>1. ServerTyped'
        BY <3>13, <3>w, WriteTyped, IdleTyped DEF RunDirect
      <4>2. /\ pc' = [pc EXCEPT ![e] = "next"]
            /\ position' = [position EXCEPT ![e] = @ + 1]
            /\ UNCHANGED <<outcome, owner, stop, attached, cancels>>
        BY <3>13 DEF RunDirect, NextStatement
      <4>3. truncated' \in [Executions -> BOOLEAN]
        BY <3>13, Zenon DEF RunDirect
      <4> QED
        <5>1. SessionTyped'
          <6>1. pc' \in [Executions -> Locations]
            BY <4>2
          <6>2. position' \in [Executions -> Nat \ {0}]
            BY <4>2
          <6>3. outcome' \in [Executions -> {"none"} \cup Outcomes]
            BY <4>2
          <6> QED
            BY <4>3, <6>1, <6>2, <6>3
        <5>2. ControlTyped' /\ OwnerTyped'
          BY <4>2
        <5> QED
          BY <2>b, <4>1, <5>1, <5>2
    <3>14. CASE Settle(e, c)
      BY <2>b, <3>14, IdleTyped DEF Settle, Release
    <3>15. CASE CloseSandbox(e, c)
      BY <2>b, <3>15, RollbackTyped DEF CloseSandbox, Release
    <3> QED
      BY <3>1, <3>2, <3>3, <3>4, <3>5, <3>6, <3>7, <3>8, <3>9, <3>10, <3>11, <3>12,
         <3>13, <3>14, <3>15 DEF Goes
  <2>3. ASSUME NEW c \in Connections, owner[c] # None, Aborts(owner[c], c),
               UNCHANGED <<stop, attached>>, cancels' \subseteq cancels
        PROVE  TypeOK'
    <3>1. owner[c] \in Executions
      BY <2>a, <2>3
    <3>2. CASE BeginFails(owner[c], c)
      BY <2>a, <2>b, <2>3, <3>1, <3>2, AbortTyped
         DEF BeginFails, Goto, Release, Locations, Outcomes
    <3>3. ASSUME NEW why \in {"error", "timeout", "user"}, StatementFails(owner[c], c, why)
          PROVE  TypeOK'
      <4>1. ServerTyped'
        BY <2>a, <3>3, AbortTyped, RollbackTyped, IdleTyped DEF StatementFails, Rewind
      <4> QED
        BY <2>a, <2>b, <2>3, <3>1, <3>3, <4>1
           DEF StatementFails, Throw, Return, Goto, Locations, Outcomes
    <3> QED
      BY <2>3, <3>2, <3>3 DEF Aborts
  <2>4. ASSUME NEW e \in Executions, NEW c \in Connections, Ignored(e, c) PROVE TypeOK'
    BY <2>a, <2>b, <2>4, IdleTyped DEF Ignored, sessionVars
  <2>5. ASSUME NEW e \in Executions, RequestCancel(e) PROVE TypeOK'
    BY <2>a, <2>b, <2>5, IdleTyped DEF RequestCancel, sessionVars
  <2>6. CASE UNCHANGED vars
    BY <2>a, <2>b, <2>6, IdleTyped DEF vars, sessionVars, controlVars
  <2> QED
    BY <2>1, <2>2, <2>3, <2>4, <2>5, <2>6, StepCases
<1> QED
  BY <1>1, <1>2, PTL DEF Spec

-----------------------------------------------------------------------------
(* Who holds a connection, and in what state it is.                        *)

(* A session under way holds one connection, and holds no other.           *)
Holding ==
  /\ \A c \in Connections : owner[c] # None => pc[owner[c]] \notin {"idle", "done"}
  /\ \A c, d \in Connections : owner[c] = owner[d] /\ owner[c] # None => c = d

(* Where a sandbox is between its BEGIN and its last ROLLBACK.             *)
Sandboxed == Locations \ {"idle", "setting", "sandboxing", "done"}

(* A sandbox is inside its transaction; outside a sandbox a session is in  *)
(* one only between the BEGIN of a cursor and its ROLLBACK.                *)
Enclosed(c) ==
  LET e == owner[c]
  IN  /\ e = None => tx[c] # "open"
      /\ e # None /\ pc[e] = "setting" => tx[c] # "open"
      /\ e # None /\ pc[e] \in {"sandboxing", "restricting", "closing"} => e \in Sandbox
      /\ e # None /\ e \in Sandbox /\ pc[e] \in Sandboxed => tx[c] # "none"
      /\ e # None /\ e \notin Sandbox =>
           /\ pc[e] \in {"locating", "next", "opening", "direct", "settled"} => tx[c] = "none"
           /\ pc[e] \in {"declaring", "fetching", "fetched", "ending"} => tx[c] = "open"

Session == TypeOK /\ Holding /\ \A c \in Connections : Enclosed(c)

(* A step of one session leaves the other connections as they are.         *)
LEMMA Elsewhere ==
  ASSUME Session, NEW c \in Connections, NEW e \in Executions, owner[c] = e,
         NEW location \in Locations, pc' = [pc EXCEPT ![e] = location],
         \A d \in Connections \ {c} : tx'[d] = tx[d],
         \/ owner' = owner /\ location \notin {"idle", "done"}
         \/ Release(c)
  PROVE  Holding' /\ \A d \in Connections \ {c} : Enclosed(d)'
<1>1. e # None
  BY ConstantsAssumption
<1>2. /\ owner \in [Connections -> Executions \cup {None}] /\ pc \in [Executions -> Locations]
  BY DEF Session, TypeOK
<1>3. \A d \in Connections \ {c} : owner'[d] = owner[d] /\ owner[d] # e
  BY <1>1, <1>2 DEF Session, Holding, Release
<1>4. ASSUME NEW d \in Connections \ {c} PROVE Enclosed(d)'
  <2>1. owner[d] # None => pc'[owner[d]] = pc[owner[d]]
    BY <1>2, <1>3
  <2> QED
    BY <1>3, <2>1 DEF Session, Enclosed
<1>5. Holding'
  BY <1>1, <1>2, <1>3 DEF Session, Holding, Release
<1> QED
  BY <1>4, <1>5

(* ... and it is enough to look at its own.                                *)
LEMMA Here ==
  ASSUME Session, TypeOK', NEW c \in Connections, NEW e \in Executions, owner[c] = e,
         NEW location \in Locations, pc' = [pc EXCEPT ![e] = location],
         \A d \in Connections \ {c} : tx'[d] = tx[d],
         \/ owner' = owner /\ location \notin {"idle", "done"}
         \/ Release(c),
         Enclosed(c)'
  PROVE  Session'
BY Elsewhere DEF Session

LEMMA SessionInit == Init => Session
<1> SUFFICES ASSUME Init PROVE Session
  OBVIOUS
<1>1. TypeOK
  BY DEF Init, TypeOK, Locations, Outcomes, Preparing, Running
<1> QED
  BY <1>1 DEF Init, Session, Holding, Enclosed

LEMMA SessionKept == Session /\ TypeOK' /\ [Next]_vars => Session'
<1> SUFFICES ASSUME Session, TypeOK', [Next]_vars PROVE Session'
  OBVIOUS
<1>a. /\ owner \in [Connections -> Executions \cup {None}] /\ pc \in [Executions -> Locations]
      /\ tx \in [Connections -> {"none", "open", "aborted"}]
  BY DEF Session, TypeOK
<1>b. \A e \in Executions : e # None
  BY ConstantsAssumption
<1>1. ASSUME NEW e \in Executions, NEW c \in Connections, Reserve(e, c) PROVE Session'
  <2>1. /\ pc[e] = "idle" /\ owner[c] = None /\ tx' = tx
        /\ owner' = [owner EXCEPT ![c] = e] /\ pc' = [pc EXCEPT ![e] = "setting"]
    BY <1>1 DEF Reserve, At, Goto, serverVars
  <2>2. \A d \in Connections : owner[d] # e
    BY <2>1, <1>b DEF Session, Holding
  <2>3. Holding'
    BY <1>a, <1>b, <2>1, <2>2 DEF Session, Holding
  <2>4. ASSUME NEW d \in Connections PROVE Enclosed(d)'
    <3>1. CASE d = c
      BY <1>a, <1>b, <2>1, <3>1 DEF Session, Enclosed, Sandboxed
    <3>2. CASE d # c
      <4>1. owner'[d] = owner[d] /\ (owner[d] # None => pc'[owner[d]] = pc[owner[d]])
        BY <1>a, <2>1, <2>2, <3>2
      <4> QED
        BY <2>1, <4>1 DEF Session, Enclosed
    <3> QED
      BY <3>1, <3>2
  <2> QED
    BY <2>3, <2>4 DEF Session
<1>2. ASSUME NEW e \in Executions, NEW c \in Connections, owner[c] = e, Goes(e, c)
      PROVE  Session'
  <2> DEFINE Leads(location) ==
        /\ pc' = [pc EXCEPT ![e] = location] /\ location \in Locations
        /\ \A d \in Connections \ {c} : tx'[d] = tx[d]
      Inside(location) ==
        /\ location = "setting" => tx'[c] # "open"
        /\ location \in {"sandboxing", "restricting", "closing"} => e \in Sandbox
        /\ e \in Sandbox /\ location \in Sandboxed => tx'[c] # "none"
        /\ e \notin Sandbox =>
             /\ location \in {"locating", "next", "opening", "direct", "settled"} => tx'[c] = "none"
             /\ location \in {"declaring", "fetching", "fetched", "ending"} => tx'[c] = "open"
  <2>b. ASSUME NEW location, Leads(location), Inside(location), owner' = owner,
               location \notin {"idle", "done"}
        PROVE  Session'
    <3>1. Enclosed(c)'
      BY <1>a, <1>b, <1>2, <2>b DEF Enclosed
    <3> QED
      BY <1>2, <2>b, <3>1, Here
  <2>c. ASSUME NEW location, Leads(location), tx'[c] # "open", Release(c)
        PROVE  Session'
    <3>1. Enclosed(c)'
      BY <1>a, <1>b, <2>c DEF Enclosed, Release
    <3> QED
      BY <1>2, <2>c, <3>1, Here
  <2>d. /\ pc[e] = "setting" => tx[c] # "open"
        /\ pc[e] \in {"sandboxing", "restricting", "closing"} => e \in Sandbox
        /\ e \in Sandbox /\ pc[e] \in Sandboxed => tx[c] # "none"
        /\ e \notin Sandbox =>
             /\ pc[e] \in {"locating", "next", "opening", "direct", "settled"} => tx[c] = "none"
             /\ pc[e] \in {"declaring", "fetching", "fetched", "ending"} => tx[c] = "open"
    BY <1>2, <1>b DEF Session, Enclosed
  <2> HIDE DEF Leads, Inside
  <2>1. CASE Set(e, c)
    <3>1. \/ Leads("sandboxing") /\ Inside("sandboxing")
          \/ Leads("locating") /\ Inside("locating")
      BY <1>a, <2>d, <2>1
         DEF Set, At, Goto, Leads, Inside,
             Sandboxed, Locations, Preparing, Running
    <3>2. owner' = owner
      BY <2>1 DEF Set
    <3> QED
      BY <2>b, <3>1, <3>2
  <2>2. CASE BeginSandbox(e, c)
    <3>1. Leads("restricting") /\ Inside("restricting")
      BY <1>a, <2>d, <2>2
         DEF BeginSandbox, OpenTransaction, At, Goto, Leads, Inside,
             Sandboxed, Locations, Preparing, Running
    <3>2. owner' = owner
      BY <2>2 DEF BeginSandbox
    <3> QED
      BY <2>b, <3>1, <3>2
  <2>3. CASE Restrict(e, c)
    <3>1. Leads("locating") /\ Inside("locating")
      BY <1>a, <2>d, <2>3
         DEF Restrict, OpenTransaction, At, Goto, Leads, Inside,
             Sandboxed, Locations, Preparing, Running
    <3>2. owner' = owner
      BY <2>3 DEF Restrict
    <3> QED
      BY <2>b, <3>1, <3>2
  <2>4. CASE Locate(e, c)
    <3>1. Leads("next") /\ Inside("next")
      BY <1>a, <2>d, <2>4
         DEF Locate, serverVars, At, Goto, Leads, Inside,
             Sandboxed, Locations, Preparing, Running
    <3>2. owner' = owner
      BY <2>4 DEF Locate
    <3> QED
      BY <2>b, <3>1, <3>2
  <2>5. CASE Complete(e) \/ StopHere(e)
    <3>1. Leads("settled") /\ Inside("settled")
      BY <1>a, <2>d, <2>5
         DEF Complete, StopHere, Return, serverVars, At, Goto, Leads, Inside,
             Sandboxed, Locations, Preparing, Running
    <3>2. owner' = owner
      BY <2>5 DEF Complete, StopHere
    <3> QED
      BY <2>b, <3>1, <3>2
  <2>6. CASE StartStatement(e)
    <3>1. \/ Leads("opening") /\ Inside("opening")
          \/ Leads("direct") /\ Inside("direct")
      BY <1>a, <2>d, <2>6
         DEF StartStatement, serverVars, At, Goto, Leads, Inside,
             Sandboxed, Locations, Preparing, Running
    <3>2. owner' = owner
      BY <2>6 DEF StartStatement
    <3> QED
      BY <2>b, <3>1, <3>2
  <2>7. CASE OpenCursor(e, c)
    <3>1. Leads("declaring") /\ Inside("declaring")
      BY <1>a, <2>d, <2>7
         DEF OpenCursor, OpenTransaction, serverVars, At, Goto, Leads, Inside,
             Sandboxed, Locations, Preparing, Running
    <3>2. owner' = owner
      BY <2>7 DEF OpenCursor
    <3> QED
      BY <2>b, <3>1, <3>2
  <2>8. CASE Declare(e, c)
    <3>1. Leads("fetching") /\ Inside("fetching")
      BY <1>a, <2>d, <2>8
         DEF Declare, serverVars, At, Goto, Leads, Inside,
             Sandboxed, Locations, Preparing, Running
    <3>2. owner' = owner
      BY <2>8 DEF Declare
    <3> QED
      BY <2>b, <3>1, <3>2
  <2>9. CASE DeclareRefused(e, c)
    <3>1. Leads("direct") /\ Inside("direct")
      BY <1>a, <2>d, <2>9
         DEF DeclareRefused, Rewind, Rollback, serverVars, At, Goto, Leads, Inside,
             Sandboxed, Locations, Preparing, Running
    <3>2. owner' = owner
      BY <2>9 DEF DeclareRefused
    <3> QED
      BY <2>b, <3>1, <3>2
  <2>10. CASE Fetch(e, c)
    <3>1. \/ Leads("ending") /\ Inside("ending")
          \/ Leads("fetched") /\ Inside("fetched")
      BY <1>a, <2>d, <2>10
         DEF Fetch, Write, serverVars, At, Goto, Leads, Inside,
             Sandboxed, Locations, Preparing, Running
    <3>2. owner' = owner
      BY <2>10 DEF Fetch
    <3> QED
      BY <2>b, <3>1, <3>2
  <2>11. CASE FetchAgain(e)
    <3>1. Leads("fetching") /\ Inside("fetching")
      BY <1>a, <2>d, <2>11
         DEF FetchAgain, serverVars, At, Goto, Leads, Inside,
             Sandboxed, Locations, Preparing, Running
    <3>2. owner' = owner
      BY <2>11 DEF FetchAgain
    <3> QED
      BY <2>b, <3>1, <3>2
  <2>12. CASE EndCursor(e, c)
    <3>1. Leads("next") /\ Inside("next")
      BY <1>a, <2>d, <2>12
         DEF EndCursor, NextStatement, Rollback, serverVars, At, Goto, Leads, Inside,
             Sandboxed, Locations, Preparing, Running
    <3>2. owner' = owner
      BY <2>12 DEF EndCursor
    <3> QED
      BY <2>b, <3>1, <3>2
  <2>13. CASE RunDirect(e, c)
    <3>1. Leads("next") /\ Inside("next")
      BY <1>a, <2>d, <2>13
         DEF RunDirect, NextStatement, Write, serverVars, At, Goto, Leads, Inside,
             Sandboxed, Locations, Preparing, Running
    <3>2. owner' = owner
      BY <2>13 DEF RunDirect
    <3> QED
      BY <2>b, <3>1, <3>2
  <2>14. CASE Settle(e, c) /\ e \in Sandbox
    <3>1. Leads("closing") /\ Inside("closing")
      BY <1>a, <2>d, <2>14
         DEF Settle, serverVars, At, Goto, Leads, Inside, Sandboxed, Locations
    <3>2. owner' = owner
      BY <2>14 DEF Settle
    <3> QED
      BY <2>b, <3>1, <3>2
  <2>15. CASE Settle(e, c) /\ e \notin Sandbox
    <3>1. Leads("done") /\ tx'[c] # "open"
      BY <1>a, <2>d, <2>15 DEF Settle, serverVars, Goto, Leads, Locations
    <3>2. Release(c)
      BY <2>15 DEF Settle
    <3> QED
      BY <2>c, <3>1, <3>2
  <2>16. CASE CloseSandbox(e, c)
    <3>1. Leads("done") /\ tx'[c] # "open"
      BY <1>a, <2>16 DEF CloseSandbox, Rollback, At, Goto, Leads, Locations
    <3>2. Release(c)
      BY <2>16 DEF CloseSandbox
    <3> QED
      BY <2>c, <3>1, <3>2
  <2> QED
    BY <1>2, <2>1, <2>2, <2>3, <2>4, <2>5, <2>6, <2>7, <2>8, <2>9, <2>10, <2>11, <2>12,
       <2>13, <2>14, <2>15, <2>16 DEF Goes
<1>3. ASSUME NEW c \in Connections, owner[c] # None, Aborts(owner[c], c)
      PROVE  Session'
  <2> DEFINE e == owner[c]
  <2>a. /\ e \in Executions
        /\ e \in Sandbox /\ pc[e] \in Sandboxed => tx[c] # "none"
        /\ e \notin Sandbox =>
             /\ pc[e] \in {"locating", "next", "opening", "direct", "settled"} => tx[c] = "none"
             /\ pc[e] \in {"declaring", "fetching", "fetched", "ending"} => tx[c] = "open"
    BY <1>a, <1>3 DEF Session, Enclosed
  <2>1. CASE BeginFails(e, c)
    <3>1. /\ pc' = [pc EXCEPT ![e] = "done"] /\ Release(c)
          /\ tx' = [tx EXCEPT ![c] = IF @ = "none" THEN "none" ELSE "aborted"]
      BY <2>1 DEF BeginFails, Goto, Abort
    <3>2. Enclosed(c)'
      BY <1>a, <3>1 DEF Enclosed, Release
    <3> QED
      BY <1>a, <2>a, <3>1, <3>2, Here DEF Locations
  <2>2. ASSUME NEW why \in {"error", "timeout", "user"}, StatementFails(e, c, why)
        PROVE  Session'
    <3>1. /\ pc' = [pc EXCEPT ![e] = "settled"] /\ owner' = owner /\ pc[e] \in Running
      BY <2>2 DEF StatementFails, Throw, Return, Goto
    <3>2. /\ \A d \in Connections \ {c} : tx'[d] = tx[d]
          /\ e \in Sandbox => tx'[c] # "none"
          /\ e \notin Sandbox => tx'[c] = "none"
      BY <1>a, <2>a, <2>2, <3>1
         DEF StatementFails, Rewind, Rollback, Abort, serverVars, Running, Sandboxed, Locations
    <3>3. Enclosed(c)'
      <4>1. owner'[c] = e /\ pc'[e] = "settled" /\ e # None
        BY <1>a, <1>3, <2>a, <3>1
      <4> QED
        BY <3>2, <4>1 DEF Enclosed
    <3> QED
      BY <1>a, <2>a, <3>1, <3>2, <3>3, Here DEF Locations
  <2> QED
    BY <1>3, <2>1, <2>2 DEF Aborts
<1>4. CASE UNCHANGED <<pc, owner, tx>>
  BY <1>4 DEF Session, Holding, Enclosed
<1>5. ASSUME NEW e \in Executions, NEW c \in Connections, Ignored(e, c) PROVE Session'
  BY <1>4, <1>5 DEF Ignored, sessionVars, serverVars
<1>6. ASSUME NEW e \in Executions, RequestCancel(e) PROVE Session'
  BY <1>4, <1>6 DEF RequestCancel, sessionVars, serverVars
<1>7. CASE UNCHANGED vars
  BY <1>4, <1>7 DEF vars, sessionVars, serverVars
<1> QED
  BY <1>1, <1>2, <1>3, <1>5, <1>6, <1>7, StepCases

LEMMA SessionHolds == Spec => []Session
BY SessionInit, SessionKept, TypeCorrect, PTL DEF Spec

(* A session that has ended holds no connection, however it ended, nobody  *)
(* has two, and one that is free is in no transaction that still works (in *)
(* an aborted one at most), so that no statement joins another session's   *)
(* (postgres/execution.ts:45-59, 76-83).                                   *)
THEOREM FreeConnectionsAreClean ==
  Spec => [](Holding /\ \A c \in Connections : owner[c] = None => tx[c] # "open")
<1>1. Session => Holding /\ \A c \in Connections : owner[c] = None => tx[c] # "open"
  BY DEF Session, Enclosed
<1> QED
  BY <1>1, SessionHolds, PTL

-----------------------------------------------------------------------------
(* What becomes durable.                                                   *)

(* Only a statement that runs directly, outside a sandbox, commits.        *)
LEMMA WhoCommits ==
  ASSUME Session, [Next]_vars
  PROVE  \/ committed' = committed
         \/ \E e \in Executions \ Sandbox, c \in Connections :
              /\ owner[c] = e /\ RunDirect(e, c)
              /\ committed' = committed \cup {<<e, position[e]>>}
<1>1. ASSUME NEW e \in Executions, NEW c \in Connections, owner[c] = e, Goes(e, c),
             committed' # committed
      PROVE  /\ e \notin Sandbox /\ RunDirect(e, c)
             /\ committed' = committed \cup {<<e, position[e]>>}
  <2>1. /\ e # None
        /\ e \in Sandbox /\ pc[e] \in Sandboxed => tx[c] # "none"
        /\ e \notin Sandbox /\ pc[e] = "fetching" => tx[c] = "open"
    BY <1>1, ConstantsAssumption DEF Session, Enclosed
  <2>2. tx[c] \in {"none", "open", "aborted"}
    BY DEF Session, TypeOK
  <2>3. CASE Fetch(e, c)
    BY <1>1, <2>1, <2>2, <2>3
       DEF Fetch, Write, At, serverVars, Sandboxed, Locations, Running
  <2>4. CASE RunDirect(e, c)
    BY <1>1, <2>1, <2>2, <2>4
       DEF RunDirect, Write, At, serverVars, Sandboxed, Locations, Running
  <2> QED
    BY <1>1, <2>3, <2>4
       DEF Goes, Set, BeginSandbox, Restrict, Locate, Complete, StopHere, StartStatement,
           OpenCursor, Declare, DeclareRefused, FetchAgain, EndCursor, Settle, CloseSandbox,
           OpenTransaction, Rewind, Rollback, serverVars
<1>2. ASSUME NEW c \in Connections, Aborts(owner[c], c) PROVE committed' = committed
  BY <1>2 DEF Aborts, BeginFails, StatementFails, Abort, Rewind, Rollback, serverVars
<1> QED
  BY <1>1, <1>2, StepCases
     DEF Reserve, Ignored, RequestCancel, vars, serverVars

(* Whatever a sandboxed execution runs, through cursors that fall back,    *)
(* interrupts that come late and connections that come back aborted, none  *)
(* of it is ever durable (postgres/execution.ts:40-47, 76-83).             *)
THEOREM SandboxIsSafe == Spec => []SandboxWritesNothing
<1>1. Init => SandboxWritesNothing
  BY DEF Init, SandboxWritesNothing
<1>2. Session /\ SandboxWritesNothing /\ [Next]_vars => SandboxWritesNothing'
  BY WhoCommits DEF SandboxWritesNothing
<1> QED
  BY <1>1, <1>2, SessionHolds, PTL DEF Spec

-----------------------------------------------------------------------------
(* Autocommit.                                                             *)

(* Where a session is in its program: what has been declared is no DML.    *)
Reading(e) ==
  pc[e] \in {"fetching", "fetched", "ending"} => Statement(e) # "withDml"

Fetching(e) ==
  pc[e] \in {"opening", "declaring", "fetching", "fetched", "ending"} => RowReturning(Statement(e))

(* The part of AutocommitPerStatement about one execution.                 *)
Durable(e) ==
  /\ \A i \in 1..Len(Program[e]) :
       i < position[e] /\ Changing(Program[e][i]) => <<e, i>> \in committed
  /\ \A i \in 1..Len(Program[e]) : <<e, i>> \in committed => i <= position[e]

(* A session stays where it is in its program, or ends a statement.        *)
LEMMA WhoMoves ==
  ASSUME Session, [Next]_vars, NEW e \in Executions
  PROVE  \/ pc'[e] = pc[e] /\ position'[e] = position[e]
         \/ /\ position'[e] = position[e]
            /\ \/ pc'[e] \notin {"opening", "declaring", "fetching", "fetched", "ending"}
               \/ pc'[e] = "opening" /\ RowReturning(Statement(e))
               \/ pc[e] = "opening" /\ pc'[e] = "declaring"
               \/ pc[e] = "declaring" /\ pc'[e] = "fetching" /\ Statement(e) # "withDml"
               \/ pc[e] \in {"fetching", "fetched"} /\ pc'[e] \in {"fetching", "fetched", "ending"}
         \/ /\ pc[e] \in {"ending", "direct"} /\ pc'[e] = "next"
            /\ position'[e] = position[e] + 1
            /\ pc[e] = "direct" => \E c \in Connections : owner[c] = e /\ RunDirect(e, c)
<1>a. pc \in [Executions -> Locations] /\ position \in [Executions -> Nat \ {0}]
  BY DEF Session, TypeOK
<1> DEFINE Claim(x) ==
      \/ pc'[x] = pc[x] /\ position'[x] = position[x]
      \/ /\ position'[x] = position[x]
         /\ \/ pc'[x] \notin {"opening", "declaring", "fetching", "fetched", "ending"}
            \/ pc'[x] = "opening" /\ RowReturning(Statement(x))
            \/ pc[x] = "opening" /\ pc'[x] = "declaring"
            \/ pc[x] = "declaring" /\ pc'[x] = "fetching" /\ Statement(x) # "withDml"
            \/ pc[x] \in {"fetching", "fetched"} /\ pc'[x] \in {"fetching", "fetched", "ending"}
      \/ /\ pc[x] \in {"ending", "direct"} /\ pc'[x] = "next"
         /\ position'[x] = position[x] + 1
         /\ pc[x] = "direct" => \E c \in Connections : owner[c] = x /\ RunDirect(x, c)
<1>1. ASSUME NEW x \in Executions, NEW c \in Connections, owner[c] = x, Goes(x, c)
      PROVE  Claim(x) /\ \A y \in Executions \ {x} : pc'[y] = pc[y] /\ position'[y] = position[y]
  <2> DEFINE Goal == Claim(x) /\ \A y \in Executions \ {x} : pc'[y] = pc[y] /\ position'[y] = position[y]
  <2>1. CASE Set(x, c) \/ BeginSandbox(x, c) \/ Restrict(x, c) \/ Locate(x, c)
    BY <1>a, <2>1 DEF Set, BeginSandbox, Restrict, Locate, Goto
  <2>2. CASE Complete(x) \/ StopHere(x)
    BY <1>a, <2>2 DEF Complete, StopHere, Return, Goto
  <2>3. CASE StartStatement(x)
    BY <1>a, <2>3 DEF StartStatement, Goto
  <2>4. CASE OpenCursor(x, c) \/ Declare(x, c) \/ DeclareRefused(x, c)
    BY <1>a, <2>4 DEF OpenCursor, Declare, DeclareRefused, At, Goto
  <2>5. CASE Fetch(x, c) \/ FetchAgain(x)
    BY <1>a, <2>5 DEF Fetch, FetchAgain, At, Goto
  <2>6. CASE EndCursor(x, c)
    BY <1>a, <2>6 DEF EndCursor, NextStatement, At, Goto
  <2>7. CASE RunDirect(x, c)
    <3>1. /\ pc[x] = "direct" /\ pc' = [pc EXCEPT ![x] = "next"]
          /\ position' = [position EXCEPT ![x] = @ + 1]
      BY <2>7 DEF RunDirect, NextStatement, At, Goto
    <3> QED
      BY <1>a, <1>1, <2>7, <3>1
  <2>8. CASE Settle(x, c) \/ CloseSandbox(x, c)
    BY <1>a, <2>8 DEF Settle, CloseSandbox, Goto
  <2> QED
    BY <1>1, <2>1, <2>2, <2>3, <2>4, <2>5, <2>6, <2>7, <2>8 DEF Goes
<1>2. ASSUME NEW c \in Connections, owner[c] # None, Aborts(owner[c], c)
      PROVE  /\ position' = position
             /\ pc'[e] = pc[e] \/ pc'[e] \in {"done", "settled"}
  BY <1>a, <1>2 DEF Aborts, BeginFails, StatementFails, Throw, Return, Goto
<1>3. ASSUME NEW x \in Executions, NEW c \in Connections, Reserve(x, c)
      PROVE  /\ position' = position
             /\ pc'[e] = pc[e] \/ pc'[e] = "setting"
  BY <1>a, <1>3 DEF Reserve, Goto
<1>4. CASE UNCHANGED <<pc, position>>
  BY <1>4
<1>5. CASE \E x \in Executions, c \in Connections : owner[c] = x /\ Goes(x, c)
  BY <1>1, <1>5
<1>6. CASE \E x \in Executions, c \in Connections : Ignored(x, c)
  BY <1>4, <1>6 DEF Ignored, sessionVars
<1>7. CASE \E x \in Executions : RequestCancel(x)
  BY <1>4, <1>7 DEF RequestCancel, sessionVars
<1> QED
  BY <1>2, <1>3, <1>4, <1>5, <1>6, <1>7, StepCases DEF vars, sessionVars

(* Outside a sandbox every INSERT, UPDATE, DELETE and WITH ... INSERT a    *)
(* session has gone past is durable, and no write beyond the statement it  *)
(* is at, whatever else runs on the pool.  Nothing is said of a query that *)
(* calls a writing function: it runs in a cursor, and the cursor's         *)
(* transaction is rolled back (postgres/execution.ts:228-235).             *)
THEOREM AutocommitHolds == Spec => []AutocommitPerStatement
<1> DEFINE Autocommits == \A e \in Executions : Reading(e) /\ Fetching(e) /\ (e \notin Sandbox => Durable(e))
<1>1. Init => Autocommits
  <2> SUFFICES ASSUME Init, NEW e \in Executions
               PROVE  Reading(e) /\ Fetching(e) /\ Durable(e)
    OBVIOUS
  <2>1. pc[e] = "idle" /\ position[e] = 1 /\ committed = {} /\ Len(Program[e]) \in Nat
    BY ConstantsAssumption DEF Init
  <2> QED
    BY <2>1 DEF Reading, Fetching, Durable
<1>2. Session /\ Autocommits /\ TypeOK' /\ [Next]_vars => Autocommits'
  <2> SUFFICES ASSUME Session, Autocommits, TypeOK', [Next]_vars, NEW e \in Executions
               PROVE  (Reading(e) /\ Fetching(e) /\ (e \notin Sandbox => Durable(e)))'
    OBVIOUS
  <2>a. /\ position[e] \in Nat \ {0} /\ Reading(e) /\ Fetching(e)
        /\ e \notin Sandbox => Durable(e)
    BY DEF Session, TypeOK
  <2>1. (Reading(e) /\ Fetching(e))'
    BY <2>a, WhoMoves DEF Reading, Fetching, Statement
  <2>2. ASSUME e \notin Sandbox PROVE Durable(e)'
    <3>1. /\ committed \subseteq committed'
          /\ \A i \in Nat : <<e, i>> \in committed' =>
               \/ <<e, i>> \in committed
               \/ i = position[e] /\ \E c \in Connections : owner[c] = e /\ RunDirect(e, c)
      BY WhoCommits
    <3>2. CASE position'[e] = position[e]
      BY <2>a, <2>2, <3>1, <3>2 DEF Durable
    <3>3. CASE /\ pc[e] \in {"ending", "direct"} /\ position'[e] = position[e] + 1
               /\ pc[e] = "direct" => \E c \in Connections : owner[c] = e /\ RunDirect(e, c)
      <4>1. \A i \in 1..Len(Program[e]) :
              i = position[e] /\ Changing(Program[e][i]) => <<e, i>> \in committed'
        <5> SUFFICES ASSUME position[e] \in 1..Len(Program[e]), Changing(Statement(e))
                     PROVE  <<e, position[e]>> \in committed'
          BY DEF Statement
        <5>1. Statement(e) \in {"withDml", "write"} /\ Writing(Statement(e))
          BY DEF Changing, Writing
        <5>2. pc[e] # "ending"
          BY <2>a, <5>1 DEF Reading, Fetching, RowReturning
        <5>3. PICK c \in Connections : owner[c] = e /\ RunDirect(e, c)
          BY <3>3, <5>2
        <5>4. tx[c] = "none"
          BY <2>2, <3>3, <5>2, <5>3, ConstantsAssumption DEF Session, Enclosed
        <5> QED
          BY <5>1, <5>3, <5>4 DEF RunDirect, Write
      <4> QED
        BY <2>a, <2>2, <3>1, <3>3, <4>1 DEF Durable
    <3> QED
      BY <3>2, <3>3, WhoMoves
  <2> QED
    BY <2>1, <2>2
<1>3. Autocommits => AutocommitPerStatement
  BY DEF Durable, AutocommitPerStatement
<1> HIDE DEF Autocommits
<1> QED
  BY <1>1, <1>2, <1>3, SessionHolds, TypeCorrect, PTL DEF Spec

-----------------------------------------------------------------------------
(* Cancelling early.                                                       *)

(* Before its first statement an execution has nothing to show.            *)
Untouched(e) ==
  pc[e] \in {"idle"} \cup Preparing =>
    outcome[e] = "none" /\ position[e] = 1 /\ ~truncated[e]

(* From an early cancel on, an execution is on its way out.                *)
CalledOff(e) ==
  /\ stop[e] /\ outcome[e] # "completed"
  /\ pc[e] \in {"idle", "next", "settled", "closing", "done"} \cup Preparing
  /\ pc[e] \in {"idle", "next"} \cup Preparing => position[e] = 1 /\ ~truncated[e]

(* Nothing goes back to where it has no session.                           *)
LEMMA WhoComesBack ==
  ASSUME Session, [Next]_vars, NEW e \in Executions, pc'[e] \in {"idle"} \cup Preparing
  PROVE  pc[e] \in {"idle"} \cup Preparing
<1>a. pc \in [Executions -> Locations]
  BY DEF Session, TypeOK
<1>1. ASSUME NEW x \in Executions, NEW c \in Connections, Goes(x, c)
      PROVE  pc[e] \in {"idle"} \cup Preparing
  <2>1. CASE Set(x, c) \/ BeginSandbox(x, c) \/ Restrict(x, c) \/ Locate(x, c)
    BY <1>a, <2>1 DEF Set, BeginSandbox, Restrict, Locate, At, Goto, Preparing
  <2>2. CASE Complete(x) \/ StopHere(x) \/ StartStatement(x)
    BY <1>a, <2>2 DEF Complete, StopHere, StartStatement, Return, Goto, Preparing
  <2>3. CASE OpenCursor(x, c) \/ Declare(x, c) \/ DeclareRefused(x, c)
    BY <1>a, <2>3 DEF OpenCursor, Declare, DeclareRefused, Goto, Preparing
  <2>4. CASE Fetch(x, c) \/ FetchAgain(x) \/ EndCursor(x, c) \/ RunDirect(x, c)
    BY <1>a, <2>4 DEF Fetch, FetchAgain, EndCursor, RunDirect, NextStatement, Goto, Preparing
  <2>5. CASE Settle(x, c) \/ CloseSandbox(x, c)
    BY <1>a, <2>5 DEF Settle, CloseSandbox, Goto, Preparing
  <2> QED
    BY <1>1, <2>1, <2>2, <2>3, <2>4, <2>5 DEF Goes
<1>2. ASSUME NEW c \in Connections, owner[c] # None, Aborts(owner[c], c)
      PROVE  pc[e] \in {"idle"} \cup Preparing
  BY <1>a, <1>2 DEF Aborts, BeginFails, StatementFails, Throw, Return, Goto, Preparing
<1>3. ASSUME NEW x \in Executions, NEW c \in Connections, Reserve(x, c)
      PROVE  pc[e] \in {"idle"} \cup Preparing
  BY <1>a, <1>3 DEF Reserve, At, Goto, Preparing
<1>4. CASE UNCHANGED sessionVars
  BY <1>4 DEF sessionVars
<1> QED
  BY <1>1, <1>2, <1>3, <1>4, StepCases DEF vars, Ignored, RequestCancel

(* The steps of an execution that has not started a statement.             *)
LEMMA EarlySteps ==
  ASSUME Session, [Next]_vars, NEW e \in Executions, Program[e] # <<>>,
         pc[e] \in {"idle", "next", "settled", "closing", "done"} \cup Preparing,
         pc[e] = "next" => position[e] = 1 /\ ~truncated[e]
  PROVE  /\ position'[e] = position[e] /\ truncated'[e] = truncated[e]
         /\ stop[e] => stop'[e]
         /\ \/ pc'[e] = pc[e] /\ outcome'[e] = outcome[e]
            \/ pc'[e] \in Preparing \cup {"next"} /\ outcome'[e] = outcome[e] /\ pc[e] \in {"idle"} \cup Preparing
            \/ pc'[e] \in {"settled", "closing", "done"} /\ (outcome'[e] \in {"failed", "cancelled"} \/ outcome'[e] = outcome[e])
            \/ pc[e] = "next" /\ ~stop[e]
<1> DEFINE Claim ==
      /\ position'[e] = position[e] /\ truncated'[e] = truncated[e]
      /\ stop[e] => stop'[e]
      /\ \/ pc'[e] = pc[e] /\ outcome'[e] = outcome[e]
         \/ pc'[e] \in Preparing \cup {"next"} /\ outcome'[e] = outcome[e] /\ pc[e] \in {"idle"} \cup Preparing
         \/ pc'[e] \in {"settled", "closing", "done"} /\ (outcome'[e] \in {"failed", "cancelled"} \/ outcome'[e] = outcome[e])
         \/ pc[e] = "next" /\ ~stop[e]
<1>a. /\ pc \in [Executions -> Locations] /\ position \in [Executions -> Nat \ {0}]
      /\ outcome \in [Executions -> {"none"} \cup Outcomes]
      /\ truncated \in [Executions -> BOOLEAN] /\ stop \in [Executions -> BOOLEAN]
  BY DEF Session, TypeOK
<1>b. Len(Program[e]) \in Nat /\ Len(Program[e]) >= 1
  BY ConstantsAssumption
<1>1. ASSUME NEW c \in Connections, owner[c] = e, Goes(e, c) PROVE Claim
  <2>1. CASE Set(e, c) \/ BeginSandbox(e, c) \/ Restrict(e, c) \/ Locate(e, c)
    BY <1>a, <2>1 DEF Set, BeginSandbox, Restrict, Locate, At, Goto, controlVars, Preparing
  <2>2. CASE Complete(e)
    BY <1>a, <1>b, <2>2 DEF Complete, At
  <2>3. CASE StopHere(e)
    BY <1>a, <2>3 DEF StopHere, Return, At, Goto, controlVars
  <2>4. CASE StartStatement(e)
    BY <1>a, <2>4 DEF StartStatement, At, Goto, controlVars
  <2>5. CASE Settle(e, c) \/ CloseSandbox(e, c)
    BY <1>a, <2>5 DEF Settle, CloseSandbox, At, Goto, controlVars
  <2> QED
    BY <1>1, <2>1, <2>2, <2>3, <2>4, <2>5
       DEF Goes, OpenCursor, Declare, DeclareRefused, Fetch, FetchAgain, EndCursor, RunDirect,
           At, Preparing
<1>2. ASSUME NEW x \in Executions, x # e, NEW c \in Connections, owner[c] = x, Goes(x, c)
      PROVE  /\ pc'[e] = pc[e] /\ outcome'[e] = outcome[e] /\ position'[e] = position[e]
             /\ truncated'[e] = truncated[e] /\ stop'[e] = stop[e]
  <2>1. CASE Set(x, c) \/ BeginSandbox(x, c) \/ Restrict(x, c) \/ Locate(x, c)
    BY <1>a, <1>2, <2>1 DEF Set, BeginSandbox, Restrict, Locate, At, Goto, controlVars
  <2>2. CASE Complete(x) \/ StopHere(x) \/ StartStatement(x)
    BY <1>a, <1>2, <2>2 DEF Complete, StopHere, StartStatement, Return, At, Goto, controlVars
  <2>3. CASE OpenCursor(x, c) \/ Declare(x, c) \/ DeclareRefused(x, c)
    BY <1>a, <1>2, <2>3 DEF OpenCursor, Declare, DeclareRefused, At, Goto, controlVars
  <2>4. CASE Fetch(x, c)
    <3>1. truncated'[e] = truncated[e]
      BY <1>a, <1>2, <2>4, Zenon DEF Fetch
    <3> QED
      BY <1>a, <1>2, <2>4, <3>1 DEF Fetch, At, Goto, controlVars
  <2>5. CASE FetchAgain(x) \/ EndCursor(x, c)
    BY <1>a, <1>2, <2>5 DEF FetchAgain, EndCursor, NextStatement, At, Goto, controlVars
  <2>6. CASE RunDirect(x, c)
    BY <1>a, <1>2, <2>6 DEF RunDirect, NextStatement, At, Goto, controlVars
  <2>7. CASE Settle(x, c) \/ CloseSandbox(x, c)
    BY <1>a, <1>2, <2>7 DEF Settle, CloseSandbox, At, Goto, controlVars
  <2> QED
    BY <1>2, <2>1, <2>2, <2>3, <2>4, <2>5, <2>6, <2>7 DEF Goes
<1>3. ASSUME NEW c \in Connections, owner[c] # None, Aborts(owner[c], c),
             UNCHANGED <<stop, attached>>
      PROVE  Claim
  BY <1>a, <1>3 DEF Aborts, BeginFails, StatementFails, Throw, Return, Goto, Running
<1>4. ASSUME NEW x \in Executions, NEW c \in Connections, Reserve(x, c) PROVE Claim
  BY <1>a, <1>4 DEF Reserve, At, Goto, controlVars, Preparing
<1>5. ASSUME NEW x \in Executions, RequestCancel(x) PROVE Claim
  BY <1>a, <1>5 DEF RequestCancel, sessionVars
<1>6. CASE UNCHANGED <<sessionVars, stop>>
  BY <1>6 DEF sessionVars
<1> QED
  BY <1>1, <1>2, <1>3, <1>4, <1>5, <1>6, StepCases DEF vars, Ignored, controlVars

(* A cancel asked for while the connection is being set up holds, whatever *)
(* connects, fails or is interrupted meanwhile: from then on no statement  *)
(* of the execution is started, and it never ends as completed             *)
(* (registry.ts:580, postgres/execution.ts:93-100).                        *)
THEOREM EarlyCancelIsKept ==
  ASSUME \A e \in Executions : Program[e] # <<>>
  PROVE  Spec => EarlyCancelHolds
<1> SUFFICES ASSUME NEW e \in Executions
             PROVE  Spec => [](stop[e] /\ pc[e] \in {"idle"} \cup Preparing =>
                               [](outcome[e] # "completed" /\ pc[e] \notin Running))
  BY DEF EarlyCancelHolds
<1> DEFINE Early == stop[e] /\ pc[e] \in {"idle"} \cup Preparing
           Safe == outcome[e] # "completed" /\ pc[e] \notin Running
<1>1. Init => Untouched(e)
  BY DEF Init, Untouched
<1>2. Session /\ Untouched(e) /\ [Next]_vars => Untouched(e)'
  <2> SUFFICES ASSUME Session, Untouched(e), [Next]_vars, pc'[e] \in {"idle"} \cup Preparing
               PROVE  outcome'[e] = "none" /\ position'[e] = 1 /\ ~truncated'[e]
    BY DEF Untouched
  <2>1. pc[e] \in {"idle"} \cup Preparing
    BY WhoComesBack
  <2> QED
    BY <2>1, EarlySteps DEF Untouched, Preparing
<1>3. Untouched(e) /\ Early => CalledOff(e)
  BY DEF Untouched, CalledOff, Preparing
<1>4. Session /\ CalledOff(e) /\ [Next]_vars => CalledOff(e)'
  BY EarlySteps DEF CalledOff, Preparing
<1>5. CalledOff(e) => Safe
  BY DEF CalledOff, Preparing, Running
<1> HIDE DEF Early, Safe
<1>6. Spec => [](Early => []Safe)
  BY <1>1, <1>2, <1>3, <1>4, <1>5, SessionHolds, PTL DEF Spec
<1> QED
  BY <1>6 DEF Early, Safe
=============================================================================
