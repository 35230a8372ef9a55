-------------------------- MODULE ExecutionRegistry --------------------------
(***************************************************************************)
(* The execution registry: admission, the coroutine that runs one          *)
(* execution, its buffered events, its history row and cancellation        *)
(* (apps/server/src/execution/registry.ts).                                *)
(*                                                                         *)
(* Every await of the code is a point where other requests run, so it is a *)
(* boundary between two actions: pc[e] says which await the coroutine of   *)
(* execution e is suspended at.  The target database is abstract here: the *)
(* session may call the sink in any order and end in any way.  What the    *)
(* session does itself is the subject of PostgresSession.                  *)
(***************************************************************************)
EXTENDS Integers, FiniteSets

CONSTANTS
  Users,                 \* people who may start or cancel an execution
  Managers,              \* those who may cancel somebody else's
  Executions,            \* execution requests; a uuid is used once
  Owner,                 \* who made each request
  Awaited,               \* requests made through runOnce, not start
  MaxConcurrentPerUser,  \* limits.maxConcurrentPerUser
  RowEventBuffer,        \* ROW_EVENT_BUFFER
  MaxEvents,             \* bound: sink events of one execution
  MaxCrashes,            \* bound: times the process stops
  LossyHistory           \* may a history UPDATE fail?

ASSUME ConstantsAssumption ==
  /\ Managers \subseteq Users
  /\ Owner \in [Executions -> Users]
  /\ Awaited \subseteq Executions
  /\ MaxConcurrentPerUser \in Nat
  /\ RowEventBuffer \in Nat
  /\ MaxEvents \in Nat
  /\ MaxCrashes \in Nat
  /\ LossyHistory \in BOOLEAN

VARIABLES
  pc,               \* the await the request's coroutine is suspended at
  registered,       \* is the record in the records map?
  status,           \* record.status
  cancelRequested,  \* record.cancelRequested
  attached,         \* is record.session set?
  nextSequence,     \* record.nextSequence
  events,           \* record.events; the order is the order of sequence
  history,          \* status column of the query_executions row
  historyWrite,     \* the terminal UPDATE finish() issued and did not await
  answer,           \* what the caller of start or runOnce was told
  crashes

recordVars  == <<registered, status, cancelRequested, attached>>
streamVars  == <<nextSequence, events>>
historyVars == <<history, historyWrite>>
vars == <<pc, recordVars, streamVars, historyVars, answer, crashes>>

-----------------------------------------------------------------------------

Active    == {"queued", "running"}
Terminal  == {"succeeded", "failed", "cancelled"}
SinkTopics == {"rows", "progress"}  \* "columns" is buffered as "progress" is
TerminalTopics == {"completed", "failed", "cancelled"}
Topics    == {"started"} \cup SinkTopics \cup TerminalTopics
Locations == {"idle", "resolving", "inserting", "admitted", "announcing",
              "beginning", "executing", "closing", "done", "rejected", "lost"}

TopicOf(outcome) == IF outcome = "succeeded" THEN "completed" ELSE outcome

TypeOK ==
  /\ pc \in [Executions -> Locations]
  /\ registered \in [Executions -> BOOLEAN]
  /\ status \in [Executions -> {"absent"} \cup Active \cup Terminal]
  /\ cancelRequested \in [Executions -> BOOLEAN]
  /\ attached \in [Executions -> BOOLEAN]
  /\ nextSequence \in [Executions -> Nat \ {0}]
  /\ events \in [Executions -> SUBSET [sequence : Nat, topic : Topics]]
  /\ history \in [Executions -> {"none"} \cup Active \cup Terminal]
  /\ historyWrite \in [Executions -> {"none"} \cup Terminal]
  /\ answer \in [Executions -> {"none", "error", "id"} \cup Terminal]
  /\ crashes \in 0..MaxCrashes

Init ==
  /\ pc = [e \in Executions |-> "idle"]
  /\ registered = [e \in Executions |-> FALSE]
  /\ status = [e \in Executions |-> "absent"]
  /\ cancelRequested = [e \in Executions |-> FALSE]
  /\ attached = [e \in Executions |-> FALSE]
  /\ nextSequence = [e \in Executions |-> 1]
  /\ events = [e \in Executions |-> {}]
  /\ history = [e \in Executions |-> "none"]
  /\ historyWrite = [e \in Executions |-> "none"]
  /\ answer = [e \in Executions |-> "none"]
  /\ crashes = 0

-----------------------------------------------------------------------------
(* Helpers of the code.                                                    *)

Goto(e, location) == pc' = [pc EXCEPT ![e] = location]

RunningOf(u) ==
  {e \in Executions : registered[e] /\ Owner[e] = u /\ status[e] \in Active}

RowEvents(buffer) == {ev \in buffer : ev.topic = "rows"}

(* Mutant: the buffer drops its oldest events, whatever they are.          *)
DropOldEvents(buffer) ==
  {ev \in buffer :
     Cardinality({other \in buffer : other.sequence > ev.sequence}) < RowEventBuffer + 1}

(* Old row batches drop first; every other event stays.                    *)
DropOldRows(buffer) ==
  {ev \in buffer :
     ev.topic = "rows" =>
       Cardinality({other \in RowEvents(buffer) : other.sequence > ev.sequence})
         < RowEventBuffer}

BufferEvent(e, topic) ==
  /\ nextSequence' = [nextSequence EXCEPT ![e] = @ + 1]
  /\ events' = [events EXCEPT
       ![e] = DropOldRows(@ \cup {[sequence |-> nextSequence[e], topic |-> topic]})]

(* Mutant: finish() does not write the history row.                        *)
FinishQuietly(e, outcome) ==
  /\ status' = [status EXCEPT ![e] = outcome]
  /\ attached' = [attached EXCEPT ![e] = FALSE]
  /\ UNCHANGED historyWrite

(* finish(): the history UPDATE is sent and not awaited.                   *)
Finish(e, outcome) ==
  /\ status' = [status EXCEPT ![e] = outcome]
  /\ attached' = [attached EXCEPT ![e] = FALSE]
  /\ historyWrite' = [historyWrite EXCEPT ![e] = outcome]

Answer(e, value) == answer' = [answer EXCEPT ![e] = value]

-----------------------------------------------------------------------------
(* admit(): the check, two awaits, then the registration.                  *)

Admit(e) ==
  /\ pc[e] = "idle"
  /\ Cardinality(RunningOf(Owner[e])) < MaxConcurrentPerUser
  /\ Goto(e, "resolving")
  /\ UNCHANGED <<recordVars, streamVars, historyVars, answer, crashes>>

RateLimit(e) ==
  /\ pc[e] = "idle"
  /\ Cardinality(RunningOf(Owner[e])) >= MaxConcurrentPerUser
  /\ Goto(e, "rejected")
  /\ Answer(e, "error")
  /\ UNCHANGED <<recordVars, streamVars, historyVars, crashes>>

(* resolveConnection, the capability check and the splitter either let the *)
(* request through or refuse it; so does the INSERT of the history row.    *)
Resolved(e) ==
  /\ pc[e] = "resolving"
  /\ Goto(e, "inserting")
  /\ UNCHANGED <<recordVars, streamVars, historyVars, answer, crashes>>

Refused(e) ==
  /\ pc[e] \in {"resolving", "inserting"}
  /\ Goto(e, "rejected")
  /\ Answer(e, "error")
  /\ UNCHANGED <<recordVars, streamVars, historyVars, crashes>>

Register(e) ==
  /\ pc[e] = "inserting"
  /\ Goto(e, "admitted")
  /\ history' = [history EXCEPT ![e] = "queued"]
  /\ registered' = [registered EXCEPT ![e] = TRUE]
  /\ status' = [status EXCEPT ![e] = "queued"]
  /\ UNCHANGED <<cancelRequested, attached, streamVars, historyWrite, answer, crashes>>

-----------------------------------------------------------------------------
(* run()                                                                   *)

(* start answers with the id as soon as run() first awaits; runOnce waits. *)
Run(e) ==
  /\ pc[e] = "admitted"
  /\ Goto(e, "announcing")
  /\ status' = [status EXCEPT ![e] = "running"]
  /\ IF e \in Awaited THEN UNCHANGED answer ELSE Answer(e, "id")
  /\ UNCHANGED <<registered, cancelRequested, attached, streamVars, historyVars, crashes>>

(* Mutant: the UPDATE to 'running' is not awaited and lands any time later. *)
AnnounceUnawaited(e) ==
  \/ /\ pc[e] = "announcing"
     /\ Goto(e, "beginning")
     /\ BufferEvent(e, "started")
     /\ UNCHANGED <<recordVars, historyVars, answer, crashes>>
  \/ /\ pc[e] \in {"beginning", "executing", "closing", "done"}
     /\ history' = [history EXCEPT ![e] = "running"]
     /\ UNCHANGED <<pc, recordVars, streamVars, historyWrite, answer, crashes>>

(* The awaited UPDATE to 'running' ends, or fails and is swallowed.        *)
Announce(e) ==
  /\ pc[e] = "announcing"
  /\ Goto(e, "beginning")
  /\ \/ history' = [history EXCEPT ![e] = "running"]
     \/ LossyHistory /\ UNCHANGED history
  /\ BufferEvent(e, "started")
  /\ UNCHANGED <<recordVars, historyWrite, answer, crashes>>

Begin(e) ==
  /\ pc[e] = "beginning"
  /\ Goto(e, "executing")
  /\ attached' = [attached EXCEPT ![e] = TRUE]
  /\ UNCHANGED <<registered, status, cancelRequested, streamVars, historyVars, answer, crashes>>

(* Mutant: beginExecution throws outside the try block.                    *)
BeginFailsUncaught(e) ==
  /\ pc[e] = "beginning"
  /\ Goto(e, "done")
  /\ UNCHANGED <<recordVars, streamVars, historyVars, answer, crashes>>

(* beginExecution throws: the catch block, and no session to close.        *)
BeginFails(e) ==
  /\ pc[e] = "beginning"
  /\ Goto(e, "done")
  /\ BufferEvent(e, "failed")
  /\ Finish(e, "failed")
  /\ IF e \in Awaited THEN Answer(e, "failed") ELSE UNCHANGED answer
  /\ UNCHANGED <<registered, cancelRequested, history, crashes>>

(* Mutant: the sink still accepts rows once the outcome is published.      *)
SinkLate(e, topic) ==
  /\ pc[e] \in {"executing", "closing"}
  /\ nextSequence[e] <= MaxEvents
  /\ BufferEvent(e, topic)
  /\ UNCHANGED <<pc, recordVars, historyVars, answer, crashes>>

Sink(e, topic) ==
  /\ pc[e] = "executing"
  /\ nextSequence[e] <= MaxEvents
  /\ BufferEvent(e, topic)
  /\ UNCHANGED <<pc, recordVars, historyVars, answer, crashes>>

(* session.run() resolves, or throws (then the outcome is "failed").       *)
Settle(e, outcome) ==
  /\ pc[e] = "executing"
  /\ Goto(e, "closing")
  /\ BufferEvent(e, TopicOf(outcome))
  /\ Finish(e, outcome)
  /\ UNCHANGED <<registered, cancelRequested, history, answer, crashes>>

Close(e) ==
  /\ pc[e] = "closing"
  /\ Goto(e, "done")
  /\ IF e \in Awaited THEN Answer(e, status[e]) ELSE UNCHANGED answer
  /\ UNCHANGED <<recordVars, streamVars, historyVars, crashes>>

(* The UPDATE finish() did not wait for.                                   *)
FlushHistory(e) ==
  /\ historyWrite[e] # "none"
  /\ history' = [history EXCEPT ![e] = historyWrite[e]]
  /\ historyWrite' = [historyWrite EXCEPT ![e] = "none"]
  /\ UNCHANGED <<pc, recordVars, streamVars, answer, crashes>>

LoseHistory(e) ==
  /\ LossyHistory
  /\ historyWrite[e] # "none"
  /\ historyWrite' = [historyWrite EXCEPT ![e] = "none"]
  /\ UNCHANGED <<pc, recordVars, streamVars, history, answer, crashes>>

(* The cleanup timer of finish().                                          *)
Expire(e) ==
  /\ registered[e]
  /\ status[e] \in Terminal
  /\ registered' = [registered EXCEPT ![e] = FALSE]
  /\ UNCHANGED <<pc, status, cancelRequested, attached, streamVars, historyVars, answer, crashes>>

-----------------------------------------------------------------------------
(* Mutant: cancel() settles the record itself.                             *)
CancelSettles(u, e) ==
  /\ registered[e]
  /\ u = Owner[e] \/ u \in Managers
  /\ status[e] \notin Terminal
  /\ status' = [status EXCEPT ![e] = "cancelled"]
  /\ UNCHANGED <<pc, registered, cancelRequested, attached, streamVars, historyVars, answer, crashes>>

(* cancel() of an execution that has not settled.  Cancelling any other    *)
(* one, or without the right to, changes nothing.                          *)
Cancel(u, e) ==
  /\ registered[e]
  /\ u = Owner[e] \/ u \in Managers
  /\ status[e] \notin Terminal
  /\ cancelRequested' = [cancelRequested EXCEPT ![e] = TRUE]
  /\ UNCHANGED <<pc, registered, status, attached, streamVars, historyVars, answer, crashes>>

(* The process stops.  Memory is gone; the rows of query_executions stay   *)
(* as they are, and nothing reads them again when the server comes back.   *)
Crash ==
  /\ crashes < MaxCrashes
  /\ crashes' = crashes + 1
  /\ pc' = [e \in Executions |->
              IF pc[e] \in {"idle", "done", "rejected"} THEN pc[e] ELSE "lost"]
  /\ registered' = [e \in Executions |-> FALSE]
  /\ status' = [e \in Executions |-> "absent"]
  /\ cancelRequested' = [e \in Executions |-> FALSE]
  /\ attached' = [e \in Executions |-> FALSE]
  /\ nextSequence' = [e \in Executions |-> 1]
  /\ events' = [e \in Executions |-> {}]
  /\ historyWrite' = [e \in Executions |-> "none"]
  /\ UNCHANGED <<history, answer>>

-----------------------------------------------------------------------------

(* What the server does by itself once it holds a request.                 *)
Progress(e) ==
  \/ Resolved(e) \/ Refused(e) \/ Register(e)
  \/ Run(e) \/ Announce(e) \/ Begin(e) \/ BeginFails(e)
  \/ \E outcome \in Terminal : Settle(e, outcome)
  \/ Close(e)

Next ==
  \/ \E e \in Executions :
       \/ Admit(e)
       \/ RateLimit(e)
       \/ Progress(e)
       \/ \E topic \in SinkTopics : Sink(e, topic)
       \/ FlushHistory(e)
       \/ LoseHistory(e)
       \/ Expire(e)
       \/ \E u \in Users : Cancel(u, e)
  \/ Crash

Spec == Init /\ [][Next]_vars

(* The event loop resumes every coroutine whose await has ended; a session *)
(* ends because every statement is bounded by statement_timeout; a history *)
(* UPDATE that was sent is answered.  Nothing makes anybody start, cancel  *)
(* or crash.                                                               *)
FairSpec ==
  /\ Spec
  /\ \A e \in Executions : WF_vars(Progress(e)) /\ WF_vars(FlushHistory(e))
-----------------------------------------------------------------------------
(* Properties                                                              *)

(* replay(): what a subscriber that has seen up to `after` is sent.        *)
Replay(e, after) == {ev \in events[e] : ev.sequence > after}

(* "Terminal event exactly once" (query-execution.md): a settled execution *)
(* has one terminal event, the last of its stream, saying what its status  *)
(* says; an unsettled one has none.  Broken by a catch block that runs     *)
(* after the outcome was already published, or by an event after finish(). *)
TerminalEventOnce ==
  \A e \in Executions :
    LET verdicts == {ev \in events[e] : ev.topic \in TerminalTopics}
    IN  IF status[e] \in Terminal
        THEN verdicts = {[sequence |-> nextSequence[e] - 1, topic |-> TopicOf(status[e])]}
        ELSE verdicts = {}

(* A replay from any point leaves nothing out but old row batches: a       *)
(* missing sequence number is followed by as many buffered row events as   *)
(* the buffer holds, and no number is used twice.                          *)
ReplayIsComplete ==
  \A e \in Executions :
    /\ \A ev, other \in events[e] : ev.sequence = other.sequence => ev = other
    /\ \A n \in 1..(nextSequence[e] - 1) :
         \/ \E ev \in Replay(e, n - 1) : ev.sequence = n
         \/ Cardinality(RowEvents(Replay(e, n))) = RowEventBuffer

(* The history row "is updated to match": whatever verdict the row shows   *)
(* is the verdict of the record, even though finish() does not wait for    *)
(* its UPDATE and the record may already have expired.                     *)
HistoryMatches ==
  \A e \in Executions :
    history[e] \in Terminal /\ status[e] # "absent" => history[e] = status[e]

HistoryRank(value) ==
  CASE value = "none" -> 0 [] value = "queued" -> 1 [] value = "running" -> 2 [] OTHER -> 3

(* A history row never goes back: the UPDATE to 'running' cannot overtake  *)
(* the one finish() sends, because run() awaits it first.                  *)
HistoryNeverGoesBack ==
  [][\A e \in Executions :
       \/ history'[e] = history[e]
       \/ HistoryRank(history[e]) < HistoryRank(history'[e])]_vars

(* What runOnce returns is the verdict every subscriber saw, although it   *)
(* reads record.status only after closing the session, when a crash of the *)
(* buffer or the expiry of the record may have come first.                 *)
AwaitedAnswerIsTheVerdict ==
  \A e \in Executions :
    answer[e] \in Terminal =>
      /\ e \in Awaited
      /\ status[e] # "absent" =>
           [sequence |-> nextSequence[e] - 1, topic |-> TopicOf(answer[e])] \in events[e]

(* One verdict: the stream, the record, its history row and the answer of  *)
(* runOnce say the same of an execution, although each is written at a     *)
(* time of its own and the record may have expired in between.             *)
VerdictsAgree == TerminalEventOnce /\ HistoryMatches /\ AwaitedAnswerIsTheVerdict

(* An execution the registry admitted settles, unless the process stops    *)
(* first: no await of run() can leave it running for good.                 *)
AdmittedSettles ==
  \A e \in Executions :
    (status[e] = "queued") ~> (status[e] \in Terminal \/ pc[e] = "lost")

(* A history row does not say 'queued' or 'running' for ever while the     *)
(* process stays up and no UPDATE is lost: finish() does not wait for its  *)
(* UPDATE, and every way out of run() goes through finish().               *)
HistorySettles ==
  \A e \in Executions :
    (history[e] \in Active) ~> (history[e] \in Terminal \/ crashes > 0)

(* The registry implements the lifecycle it promises.                      *)
Lifecycle == INSTANCE ExecutionLifecycle WITH
  state <- [e \in Executions |->
              IF history[e] # "none" /\ ~registered[e] THEN "gone" ELSE status[e]],
  announced <- [e \in Executions |->
              IF registered[e]
              THEN {v \in Terminal : \E ev \in events[e] : ev.topic = TopicOf(v)}
              ELSE {}]

LifecycleSpec == Lifecycle!Spec
=============================================================================
