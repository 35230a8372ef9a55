----------------------- MODULE ExecutionRegistryProofs -----------------------
(***************************************************************************)
(* What the registry guarantees for any number of users, executions,       *)
(* events and crashes.  Everything follows from one inductive invariant:   *)
(* the await a coroutine is suspended at fixes what its record and its     *)
(* history row may say (Placed), an UPDATE still on its way carries the    *)
(* record's own verdict, and a stream is numbered without gaps ahead.      *)
(***************************************************************************)
EXTENDS ExecutionRegistry, FiniteSetTheorems, WellFoundedInduction, TLAPS

-----------------------------------------------------------------------------
(* The inductive invariant.                                                *)

Placed(e) ==
  /\ pc[e] \in {"idle", "resolving", "inserting", "rejected"} =>
       status[e] = "absent" /\ history[e] = "none" /\ ~registered[e]
  /\ pc[e] = "lost" => status[e] = "absent" /\ ~registered[e]
  /\ pc[e] = "admitted" =>
       status[e] = "queued" /\ history[e] = "queued" /\ registered[e]
  /\ pc[e] = "announcing" =>
       status[e] = "running" /\ history[e] = "queued" /\ registered[e]
  /\ pc[e] \in {"beginning", "executing"} =>
       status[e] = "running" /\ history[e] \in Active /\ registered[e]
  /\ pc[e] = "closing" => status[e] \in Terminal /\ history[e] # "none"
  /\ pc[e] = "done" =>
       /\ history[e] # "none"
       /\ status[e] \in Terminal \/ (status[e] = "absent" /\ ~registered[e])

Recorded(e) ==
  /\ historyWrite[e] # "none" => historyWrite[e] = status[e]
  /\ history[e] \in Terminal /\ status[e] # "absent" => history[e] = status[e]

Answered(e) ==
  answer[e] \in Terminal =>
    e \in Awaited /\ pc[e] = "done" /\ (status[e] # "absent" => answer[e] = status[e])

Verdict(e) == [sequence |-> nextSequence[e] - 1, topic |-> TopicOf(status[e])]

Streamed(e) ==
  /\ \A ev \in events[e] : ev.sequence < nextSequence[e]
  /\ status[e] \notin Terminal => \A ev \in events[e] : ev.topic \notin TerminalTopics
  /\ status[e] \in Terminal =>
       /\ Verdict(e) \in events[e]
       /\ \A ev \in events[e] : ev.topic \in TerminalTopics => ev = Verdict(e)

Consistent(e) == Placed(e) /\ Recorded(e) /\ Answered(e) /\ Streamed(e)

IInv == TypeOK /\ \A e \in Executions : Consistent(e)

-----------------------------------------------------------------------------
(* What the event buffer does.                                             *)

(* DropOldRows removes row batches and nothing else (bufferEvent).         *)
LEMMA BufferKeepsTheRest ==
  ASSUME NEW buffer
  PROVE  /\ DropOldRows(buffer) \subseteq buffer
         /\ \A ev \in buffer : ev.topic # "rows" => ev \in DropOldRows(buffer)
BY DEF DropOldRows

(* Buffering an event numbers it, adds it and touches no other stream.     *)
LEMMA Buffered ==
  ASSUME TypeOK, NEW e \in Executions, NEW topic \in Topics, BufferEvent(e, topic)
  PROVE  /\ nextSequence' \in [Executions -> Nat \ {0}]
         /\ events' \in [Executions -> SUBSET [sequence : Nat, topic : Topics]]
         /\ nextSequence'[e] = nextSequence[e] + 1
         /\ \A x \in Executions \ {e} :
              nextSequence'[x] = nextSequence[x] /\ events'[x] = events[x]
         /\ LET new == [sequence |-> nextSequence[e], topic |-> topic]
            IN  /\ \A ev \in events'[e] : ev \in events[e] \/ ev = new
                /\ \A ev \in events[e] : ev.topic # "rows" => ev \in events'[e]
                /\ topic # "rows" => new \in events'[e]
<1> DEFINE new == [sequence |-> nextSequence[e], topic |-> topic]
           added == events[e] \cup {new}
<1>1. new \in [sequence : Nat, topic : Topics] /\ new.topic = topic
  BY DEF TypeOK
<1>2. added \subseteq [sequence : Nat, topic : Topics]
  BY <1>1 DEF TypeOK
<1>3. /\ DropOldRows(added) \subseteq added
      /\ \A ev \in added : ev.topic # "rows" => ev \in DropOldRows(added)
  BY BufferKeepsTheRest
<1>4. /\ nextSequence' = [nextSequence EXCEPT ![e] = @ + 1]
      /\ events' = [events EXCEPT ![e] = DropOldRows(added)]
  BY DEF BufferEvent
<1> HIDE DEF new
<1>5. events'[e] = DropOldRows(added)
  BY <1>4 DEF TypeOK
<1>6. nextSequence' \in [Executions -> Nat \ {0}] /\ nextSequence'[e] = nextSequence[e] + 1
  BY <1>4 DEF TypeOK
<1>7. events' \in [Executions -> SUBSET [sequence : Nat, topic : Topics]]
  BY <1>2, <1>3, <1>4 DEF TypeOK
<1>8. \A x \in Executions \ {e} :
        nextSequence'[x] = nextSequence[x] /\ events'[x] = events[x]
  BY <1>4 DEF TypeOK
<1>9. /\ \A ev \in events'[e] : ev \in events[e] \/ ev = new
      /\ \A ev \in events[e] : ev.topic # "rows" => ev \in events'[e]
      /\ topic # "rows" => new \in events'[e]
  BY <1>1, <1>3, <1>5
<1> QED
  BY <1>6, <1>7, <1>8, <1>9 DEF new

(* A stream that has no verdict yet and gets an event that is none either. *)
LEMMA StreamGoesOn ==
  ASSUME TypeOK, NEW e \in Executions, NEW topic \in Topics \ TerminalTopics,
         BufferEvent(e, topic), Streamed(e), status[e] \notin Terminal, status'[e] = status[e]
  PROVE  Streamed(e)'
<1>1. /\ nextSequence'[e] = nextSequence[e] + 1 /\ nextSequence[e] \in Nat
      /\ \A ev \in events'[e] :
           ev \in events[e] \/ ev = [sequence |-> nextSequence[e], topic |-> topic]
      /\ events[e] \subseteq [sequence : Nat, topic : Topics]
  BY Buffered DEF TypeOK
<1> QED
  BY <1>1 DEF Streamed

(* A stream that gets its verdict together with the record.                *)
LEMMA StreamEnds ==
  ASSUME TypeOK, NEW e \in Executions, NEW outcome \in Terminal,
         BufferEvent(e, TopicOf(outcome)), Streamed(e), status[e] \notin Terminal,
         status'[e] = outcome
  PROVE  Streamed(e)'
<1> DEFINE new == [sequence |-> nextSequence[e], topic |-> TopicOf(outcome)]
<1>1. TopicOf(outcome) \in TerminalTopics /\ TopicOf(outcome) # "rows" /\ TopicOf(outcome) \in Topics
  BY DEF TopicOf, Terminal, TerminalTopics, Topics
<1>2. /\ nextSequence'[e] = nextSequence[e] + 1 /\ nextSequence[e] \in Nat
      /\ \A ev \in events'[e] : ev \in events[e] \/ ev = new
      /\ new \in events'[e]
      /\ events[e] \subseteq [sequence : Nat, topic : Topics]
  BY <1>1, Buffered DEF TypeOK
<1>3. Verdict(e)' = new
  BY <1>2 DEF Verdict
<1>4. \A ev \in events'[e] : ev.sequence < nextSequence'[e]
  BY <1>2 DEF Streamed
<1>5. \A ev \in events'[e] : ev.topic \in TerminalTopics => ev = new
  BY <1>2 DEF Streamed
<1> QED
  BY <1>2, <1>3, <1>4, <1>5 DEF Streamed

-----------------------------------------------------------------------------
(* Type correctness.                                                       *)

(* The initial state is well typed.                                       *)
LEMMA InitType == Init => TypeOK
BY ConstantsAssumption DEF Init, TypeOK, Active, Terminal, Locations

(* bufferEvent keeps the streams well typed.                               *)
LEMMA BufferType ==
  ASSUME TypeOK, NEW e \in Executions, NEW topic \in Topics, BufferEvent(e, topic)
  PROVE  /\ nextSequence' \in [Executions -> Nat \ {0}]
         /\ events' \in [Executions -> SUBSET [sequence : Nat, topic : Topics]]
BY Buffered

(* runOnce answers with record.status after close(): that it is a verdict  *)
(* by then is why the types alone are not inductive.                       *)
LEMMA StepType == IInv /\ [Next]_vars => TypeOK'
<1> SUFFICES ASSUME TypeOK, \A e \in Executions : Placed(e), [Next]_vars PROVE TypeOK'
  BY DEF IInv, Consistent
<1> USE DEF TypeOK, recordVars, streamVars, historyVars, Goto, Answer, Finish
<1>1. ASSUME NEW e \in Executions, Admit(e) PROVE TypeOK'
  BY <1>1 DEF Admit, Locations
<1>2. ASSUME NEW e \in Executions, RateLimit(e) PROVE TypeOK'
  BY <1>2 DEF RateLimit, Locations
<1>3. ASSUME NEW e \in Executions, Resolved(e) \/ Refused(e) PROVE TypeOK'
  BY <1>3 DEF Resolved, Refused, Locations
<1>4. ASSUME NEW e \in Executions, Register(e) PROVE TypeOK'
  BY <1>4 DEF Register, Locations, Active
<1>5. ASSUME NEW e \in Executions, Run(e) PROVE TypeOK'
  BY <1>5 DEF Run, Locations, Active
<1>6. ASSUME NEW e \in Executions, Announce(e) PROVE TypeOK'
  <2>1. /\ nextSequence' \in [Executions -> Nat \ {0}]
        /\ events' \in [Executions -> SUBSET [sequence : Nat, topic : Topics]]
    BY <1>6, BufferType DEF Announce, Topics
  <2> QED BY <1>6, <2>1 DEF Announce, Locations, Active
<1>7. ASSUME NEW e \in Executions, Begin(e) PROVE TypeOK'
  BY <1>7 DEF Begin, Locations
<1>8. ASSUME NEW e \in Executions, BeginFails(e) PROVE TypeOK'
  <2>1. /\ nextSequence' \in [Executions -> Nat \ {0}]
        /\ events' \in [Executions -> SUBSET [sequence : Nat, topic : Topics]]
    BY <1>8, BufferType DEF BeginFails, Topics, TerminalTopics
  <2> QED BY <1>8, <2>1 DEF BeginFails, Locations, Terminal
<1>9. ASSUME NEW e \in Executions, NEW outcome \in Terminal, Settle(e, outcome) PROVE TypeOK'
  <2>1. TopicOf(outcome) \in Topics
    BY DEF TopicOf, Terminal, Topics, TerminalTopics
  <2>2. /\ nextSequence' \in [Executions -> Nat \ {0}]
        /\ events' \in [Executions -> SUBSET [sequence : Nat, topic : Topics]]
    BY <1>9, <2>1, BufferType DEF Settle
  <2> QED BY <1>9, <2>2 DEF Settle, Locations
<1>10. ASSUME NEW e \in Executions, Close(e) PROVE TypeOK'
  BY <1>10 DEF Close, Locations, Placed
<1>11. ASSUME NEW e \in Executions, NEW topic \in SinkTopics, Sink(e, topic) PROVE TypeOK'
  <2>1. /\ nextSequence' \in [Executions -> Nat \ {0}]
        /\ events' \in [Executions -> SUBSET [sequence : Nat, topic : Topics]]
    BY <1>11, BufferType DEF Sink, Topics
  <2> QED BY <1>11, <2>1 DEF Sink
<1>12. ASSUME NEW e \in Executions, FlushHistory(e) \/ LoseHistory(e) PROVE TypeOK'
  BY <1>12 DEF FlushHistory, LoseHistory
<1>13. ASSUME NEW e \in Executions, Expire(e) PROVE TypeOK'
  BY <1>13 DEF Expire
<1>14. ASSUME NEW e \in Executions, NEW u \in Users, Cancel(u, e) PROVE TypeOK'
  BY <1>14 DEF Cancel
<1>15. ASSUME Crash PROVE TypeOK'
  BY <1>15, ConstantsAssumption DEF Crash, Locations
<1>16. CASE UNCHANGED vars
  BY <1>16 DEF vars
<1> QED
  BY <1>1, <1>2, <1>3, <1>4, <1>5, <1>6, <1>7, <1>8, <1>9, <1>10, <1>11, <1>12, <1>13,
     <1>14, <1>15, <1>16 DEF Next, Progress

-----------------------------------------------------------------------------
(* Consistency.                                                            *)

(* Nothing the coroutine of one execution does shows in another's state.   *)
SameAt(x) ==
  /\ pc'[x] = pc[x] /\ registered'[x] = registered[x] /\ status'[x] = status[x]
  /\ nextSequence'[x] = nextSequence[x] /\ events'[x] = events[x]
  /\ history'[x] = history[x] /\ historyWrite'[x] = historyWrite[x]
  /\ answer'[x] = answer[x]

(* An execution a step leaves alone stays consistent.                      *)
LEMMA Frame ==
  ASSUME NEW x \in Executions, Consistent(x), SameAt(x)
  PROVE  Consistent(x)'
BY DEF SameAt, Consistent, Placed, Recorded, Answered, Streamed, Verdict

(* Before anything is admitted every execution is consistent.              *)
LEMMA InitConsistent == Init => \A e \in Executions : Consistent(e)
BY DEF Init, Consistent, Placed, Recorded, Answered, Streamed, Active, Terminal

(* A stream nothing is added to stays as consistent as it was, when its    *)
(* record keeps its status.                                                *)
LEMMA StreamStays ==
  ASSUME NEW e \in Executions, Streamed(e), UNCHANGED streamVars, status'[e] = status[e]
  PROVE  Streamed(e)'
BY DEF Streamed, Verdict, streamVars

(* admit(): nothing about the execution exists before its row does.        *)
LEMMA AdmissionConsistent ==
  ASSUME IInv, NEW e \in Executions,
         Admit(e) \/ RateLimit(e) \/ Resolved(e) \/ Refused(e) \/ Register(e)
  PROVE  (\A x \in Executions \ {e} : SameAt(x)) /\ Consistent(e)'
<1> USE DEF IInv, TypeOK, Admit, RateLimit, Resolved, Refused, Register,
            Goto, Answer, recordVars, streamVars, historyVars
<1>1. \A x \in Executions \ {e} : SameAt(x)
  BY DEF SameAt
<1>2. Placed(e)'
  BY DEF Consistent, Placed
<1>3. Recorded(e)' /\ Answered(e)'
  BY DEF Consistent, Placed, Recorded, Answered, Active, Terminal
<1>4. Streamed(e)'
  BY DEF Consistent, Placed, Streamed, Active, Terminal
<1> QED
  BY <1>1, <1>2, <1>3, <1>4 DEF Consistent

(* run() up to the first event: the record runs before its row says so.    *)
LEMMA RunConsistent ==
  ASSUME IInv, NEW e \in Executions, Run(e) \/ Begin(e)
  PROVE  (\A x \in Executions \ {e} : SameAt(x)) /\ Consistent(e)'
<1> USE DEF IInv, TypeOK, Run, Begin, Goto, Answer, recordVars, streamVars, historyVars
<1>1. \A x \in Executions \ {e} : SameAt(x)
  BY DEF SameAt
<1>2. Placed(e)'
  BY DEF Consistent, Placed
<1>3. Recorded(e)' /\ Answered(e)'
  BY DEF Consistent, Placed, Recorded, Answered, Active, Terminal
<1>4. Streamed(e)'
  BY DEF Consistent, Placed, Streamed, Active, Terminal
<1> QED
  BY <1>1, <1>2, <1>3, <1>4 DEF Consistent

(* The UPDATE to 'running' lands before any other, because it is awaited.  *)
LEMMA AnnounceConsistent ==
  ASSUME IInv, NEW e \in Executions, Announce(e)
  PROVE  (\A x \in Executions \ {e} : SameAt(x)) /\ Consistent(e)'
<1> USE DEF recordVars, streamVars, historyVars, Goto, Answer, Finish
<1>1. TypeOK /\ Consistent(e) /\ status[e] = "running"
  BY DEF IInv, Consistent, Placed, Announce
<1>2. "started" \in Topics /\ BufferEvent(e, "started")
  BY DEF Topics, SinkTopics, TerminalTopics, Terminal, TopicOf, Announce
<1>3. \A x \in Executions \ {e} : SameAt(x)
  BY <1>1, <1>2, Buffered DEF SameAt, TypeOK, Announce
<1>4. Streamed(e)'
  BY <1>1, <1>2, StreamGoesOn DEF Consistent, Topics, TerminalTopics, Terminal, Announce
<1>5. Placed(e)' /\ Recorded(e)' /\ Answered(e)'
  BY <1>1 DEF TypeOK, Consistent, Placed, Recorded, Answered, Active, Terminal, Announce
<1> QED
  BY <1>3, <1>4, <1>5 DEF Consistent

(* What the session reports while it runs is no verdict.                   *)
LEMMA SinkConsistent ==
  ASSUME IInv, NEW e \in Executions, NEW topic \in SinkTopics, Sink(e, topic)
  PROVE  (\A x \in Executions \ {e} : SameAt(x)) /\ Consistent(e)'
<1> USE DEF recordVars, streamVars, historyVars, Goto, Answer, Finish
<1>1. TypeOK /\ Consistent(e) /\ status[e] = "running"
  BY DEF IInv, Consistent, Placed, Sink
<1>2. topic \in Topics /\ BufferEvent(e, topic)
  BY DEF Topics, SinkTopics, TerminalTopics, Terminal, TopicOf, Sink
<1>3. \A x \in Executions \ {e} : SameAt(x)
  BY <1>1, <1>2, Buffered DEF SameAt, TypeOK, Sink
<1>4. Streamed(e)'
  BY <1>1, <1>2, StreamGoesOn DEF Consistent, SinkTopics, TerminalTopics, Terminal, Sink
<1>5. Placed(e)' /\ Recorded(e)' /\ Answered(e)'
  BY <1>1 DEF TypeOK, Consistent, Placed, Recorded, Answered, Sink
<1> QED
  BY <1>3, <1>4, <1>5 DEF Consistent

(* No session: the catch block publishes the one verdict.                  *)
LEMMA BeginFailsConsistent ==
  ASSUME IInv, NEW e \in Executions, BeginFails(e)
  PROVE  (\A x \in Executions \ {e} : SameAt(x)) /\ Consistent(e)'
<1> USE DEF recordVars, streamVars, historyVars, Goto, Answer, Finish
<1>1. TypeOK /\ Consistent(e) /\ status[e] = "running"
  BY DEF IInv, Consistent, Placed, BeginFails
<1>2. TopicOf("failed") \in Topics /\ BufferEvent(e, TopicOf("failed"))
  BY DEF Topics, SinkTopics, TerminalTopics, Terminal, TopicOf, BeginFails
<1>3. \A x \in Executions \ {e} : SameAt(x)
  BY <1>1, <1>2, Buffered DEF SameAt, TypeOK, BeginFails
<1>4. Streamed(e)'
  BY <1>1, <1>2, StreamEnds DEF TypeOK, Consistent, Terminal, BeginFails
<1>5. Placed(e)' /\ Recorded(e)' /\ Answered(e)'
  BY <1>1 DEF TypeOK, Consistent, Placed, Recorded, Answered, Active, Terminal, BeginFails
<1> QED
  BY <1>3, <1>4, <1>5 DEF Consistent

(* The session has ended: event, record and UPDATE carry one verdict.      *)
LEMMA SettleConsistent ==
  ASSUME IInv, NEW e \in Executions, NEW outcome \in Terminal, Settle(e, outcome)
  PROVE  (\A x \in Executions \ {e} : SameAt(x)) /\ Consistent(e)'
<1> USE DEF recordVars, streamVars, historyVars, Goto, Answer, Finish
<1>1. TypeOK /\ Consistent(e) /\ status[e] = "running"
  BY DEF IInv, Consistent, Placed, Settle
<1>2. TopicOf(outcome) \in Topics /\ BufferEvent(e, TopicOf(outcome))
  BY DEF Topics, SinkTopics, TerminalTopics, Terminal, TopicOf, Settle
<1>3. \A x \in Executions \ {e} : SameAt(x)
  BY <1>1, <1>2, Buffered DEF SameAt, TypeOK, Settle
<1>4. Streamed(e)'
  BY <1>1, <1>2, StreamEnds DEF TypeOK, Consistent, Terminal, Settle
<1>5. Placed(e)' /\ Recorded(e)' /\ Answered(e)'
  BY <1>1 DEF TypeOK, Consistent, Placed, Recorded, Answered, Active, Terminal, Settle
<1> QED
  BY <1>3, <1>4, <1>5 DEF Consistent

(* What happens to a record that has its verdict, or beside the coroutine. *)
LEMMA AfterwardsConsistent ==
  ASSUME IInv, NEW e \in Executions,
         \/ Close(e) \/ FlushHistory(e) \/ LoseHistory(e) \/ Expire(e)
         \/ \E u \in Users : Cancel(u, e)
  PROVE  (\A x \in Executions \ {e} : SameAt(x)) /\ Consistent(e)'
<1> USE DEF IInv, TypeOK, Close, FlushHistory, LoseHistory, Expire, Cancel,
            Goto, Answer, recordVars, streamVars, historyVars
<1>1. \A x \in Executions \ {e} : SameAt(x)
  BY DEF SameAt
<1>2. Placed(e)'
  BY DEF Consistent, Placed, Recorded, Active, Terminal
<1>3. Recorded(e)' /\ Answered(e)'
  BY DEF Consistent, Placed, Recorded, Answered, Active, Terminal
<1>4. Streamed(e)'
  BY StreamStays DEF Consistent
<1> QED
  BY <1>1, <1>2, <1>3, <1>4 DEF Consistent

(* Every step but a crash is the step of one execution.                    *)
LocalStep(e) ==
  \/ Admit(e) \/ RateLimit(e) \/ Progress(e)
  \/ \E topic \in SinkTopics : Sink(e, topic)
  \/ FlushHistory(e) \/ LoseHistory(e) \/ Expire(e)
  \/ \E u \in Users : Cancel(u, e)

(* Whatever a step does to one execution, it stays consistent and the      *)
(* others are left alone.                                                  *)
LEMMA LocalStepConsistent ==
  ASSUME IInv, NEW e \in Executions, LocalStep(e)
  PROVE  (\A x \in Executions \ {e} : SameAt(x)) /\ Consistent(e)'
BY AdmissionConsistent, RunConsistent, AnnounceConsistent, SinkConsistent,
   BeginFailsConsistent, SettleConsistent, AfterwardsConsistent DEF LocalStep, Progress

(* The process stops: what is left of a coroutine contradicts nothing.     *)
LEMMA CrashConsistent ==
  ASSUME IInv, Crash
  PROVE  \A x \in Executions : Consistent(x)'
<1> SUFFICES ASSUME NEW x \in Executions PROVE Consistent(x)'
  OBVIOUS
<1>1. Placed(x)'
  BY DEF IInv, TypeOK, Crash, Consistent, Placed, Locations
<1>2. Recorded(x)' /\ Answered(x)'
  BY DEF IInv, TypeOK, Crash, Consistent, Placed, Recorded, Answered, Terminal
<1>3. Streamed(x)'
  BY DEF IInv, TypeOK, Crash, Streamed, Terminal
<1> QED
  BY <1>1, <1>2, <1>3 DEF Consistent

-----------------------------------------------------------------------------
(* The theorems.                                                           *)

(* Every step of the registry preserves the inductive invariant.           *)
LEMMA StepInvariant == IInv /\ [Next]_vars => IInv'
<1> SUFFICES ASSUME IInv, [Next]_vars PROVE IInv'
  OBVIOUS
<1>1. TypeOK'
  BY StepType
<1>2. ASSUME NEW e \in Executions, LocalStep(e) PROVE IInv'
  BY <1>1, <1>2, LocalStepConsistent, Frame DEF IInv
<1>3. CASE Next
  BY <1>1, <1>2, <1>3, CrashConsistent DEF Next, LocalStep, IInv
<1>4. CASE UNCHANGED vars
  BY <1>1, <1>4, Frame DEF IInv, SameAt, vars, recordVars, streamVars, historyVars
<1> QED
  BY <1>3, <1>4

(* The inductive invariant holds in every reachable state.                 *)
THEOREM Invariance == Spec => []IInv
<1>1. Init => IInv
  BY InitType, InitConsistent DEF IInv
<1> QED
  BY <1>1, StepInvariant, PTL DEF Spec

(* Every variable keeps its type, for any number of users and executions.  *)
THEOREM TypeCorrect == Spec => []TypeOK
<1>1. IInv => TypeOK
  BY DEF IInv
<1> QED
  BY <1>1, Invariance, PTL

(* A settled execution has one terminal event, the last of its stream,     *)
(* that says what the record says, and an unsettled one has none           *)
(* (registry.ts run(), finish() and bufferEvent()).                        *)
THEOREM OneVerdict == Spec => []TerminalEventOnce
<1>1. IInv => TerminalEventOnce
  <2> SUFFICES ASSUME IInv, NEW e \in Executions
               PROVE  LET verdicts == {ev \in events[e] : ev.topic \in TerminalTopics}
                      IN  IF status[e] \in Terminal
                          THEN verdicts = {Verdict(e)} ELSE verdicts = {}
    BY DEF TerminalEventOnce, Verdict
  <2>1. Streamed(e)
    BY DEF IInv, Consistent
  <2>2. CASE status[e] \notin Terminal
    BY <2>1, <2>2 DEF Streamed
  <2>3. CASE status[e] \in Terminal
    <3>1. Verdict(e).topic \in TerminalTopics
      BY <2>3 DEF Verdict, TopicOf, Terminal, TerminalTopics
    <3> QED
      BY <2>1, <2>3, <3>1 DEF Streamed
  <2> QED
    BY <2>2, <2>3
<1> QED
  BY <1>1, Invariance, PTL

(* A verdict shown by a history row is the record's, although nobody waits *)
(* for the UPDATE that wrote it (registry.ts finish()).                    *)
THEOREM HistoryAgrees == Spec => []HistoryMatches
<1>1. IInv => HistoryMatches
  BY DEF IInv, Consistent, Recorded, HistoryMatches
<1> QED
  BY <1>1, Invariance, PTL

(* What runOnce returned is what the stream said (registry.ts runOnce()).  *)
THEOREM AnswerIsTheVerdict == Spec => []AwaitedAnswerIsTheVerdict
<1>1. IInv => AwaitedAnswerIsTheVerdict
  BY DEF IInv, TypeOK, Consistent, Placed, Answered, Streamed, Verdict,
         AwaitedAnswerIsTheVerdict, Terminal
<1> QED
  BY <1>1, Invariance, PTL

(* Stream, record, history row and answer name one verdict.                *)
THEOREM Agreement == Spec => []VerdictsAgree
<1>1. TerminalEventOnce /\ HistoryMatches /\ AwaitedAnswerIsTheVerdict => VerdictsAgree
  BY DEF VerdictsAgree
<1> QED
  BY <1>1, OneVerdict, HistoryAgrees, AnswerIsTheVerdict, PTL

(* No step takes a history row back: each UPDATE finds the row where the   *)
(* one before it left it (registry.ts run() and finish()).                 *)
THEOREM HistoryAdvances == Spec => HistoryNeverGoesBack
<1> DEFINE Advances(e) == \/ history'[e] = history[e]
                          \/ HistoryRank(history[e]) < HistoryRank(history'[e])
<1>1. ASSUME IInv, Next, NEW x \in Executions PROVE Advances(x)
  <2> USE <1>1 DEF IInv, TypeOK, recordVars, streamVars, historyVars, Active, Terminal
  <2>1. CASE history' = history
    BY <2>1
  <2>2. ASSUME NEW e \in Executions, Register(e) PROVE Advances(x)
    BY <2>2 DEF Register, Consistent, Placed, HistoryRank
  <2>3. ASSUME NEW e \in Executions, Announce(e) PROVE Advances(x)
    BY <2>3 DEF Announce, Consistent, Placed, HistoryRank
  <2>4. ASSUME NEW e \in Executions, FlushHistory(e) PROVE Advances(x)
    BY <2>4 DEF FlushHistory, Consistent, Recorded, HistoryRank
  <2> HIDE DEF Advances
  <2> QED
    BY <2>1, <2>2, <2>3, <2>4
       DEF Next, Progress, Admit, RateLimit, Resolved, Refused, Run, Begin, BeginFails, Sink,
           Settle, Close, LoseHistory, Expire, Cancel, Crash
<1>2. IInv /\ [Next]_vars => [\A e \in Executions :
                              \/ history'[e] = history[e]
                              \/ HistoryRank(history[e]) < HistoryRank(history'[e])]_vars
  BY <1>1
<1> QED
  BY <1>2, Invariance, PTL DEF Spec, HistoryNeverGoesBack

-----------------------------------------------------------------------------
(* What a replay leaves out.                                               *)

(* A set of natural numbers has a least element: the prefixes 0..n are     *)
(* finite sets, and those are well founded under inclusion.                *)
LEMMA Least ==
  ASSUME NEW S, S \subseteq Nat, S # {}
  PROVE  \E m \in S : \A n \in S : m <= n
<1> DEFINE Prefixes == {0..n : n \in S}
           Inclusion == StrictSubsetOrdering(Nat)
<1>1. IsWellFoundedOn(Inclusion, FiniteSubsetsOf(Nat))
  BY FS_StrictSubsetOrderingWellFounded
<1>2. Prefixes \subseteq FiniteSubsetsOf(Nat) /\ Prefixes # {}
  <2>1. \A n \in S : IsFiniteSet(0..n) /\ 0..n \subseteq Nat
    BY FS_Interval
  <2> QED
    BY <2>1 DEF FiniteSubsetsOf
<1>3. PICK x \in Prefixes : \A y \in Prefixes : <<y, x>> \notin Inclusion
  <2> HIDE DEF Inclusion, Prefixes
  <2> QED
    BY <1>1, <1>2, WFMin
<1>4. PICK m \in S : x = 0..m
  OBVIOUS
<1>5. ASSUME NEW n \in S, n < m PROVE FALSE
  <2>1. <<0..n, 0..m>> \notin Inclusion
    BY <1>3, <1>4
  <2>2. 0..n \subseteq 0..m /\ m \in 0..m /\ m \notin 0..n
    BY <1>5
  <2>3. 0..n \in SUBSET Nat /\ 0..m \in SUBSET Nat
    OBVIOUS
  <2> QED
    BY <2>1, <2>2, <2>3 DEF StrictSubsetOrdering
<1> QED
  BY <1>5

(* A buffer that has given the numbers below `next`: no number twice, at   *)
(* most as many row batches as it holds, and exactly that many, all of     *)
(* them later, once a number is missing.                                   *)
Present(buffer, n) == \E ev \in buffer : ev.sequence = n
Filled(buffer, n) ==
  /\ Cardinality(RowEvents(buffer)) = RowEventBuffer
  /\ \A ev \in RowEvents(buffer) : ev.sequence > n

WellBuffered(buffer, next) ==
  /\ IsFiniteSet(buffer)
  /\ \A ev \in buffer : ev.sequence \in Nat /\ ev.sequence < next
  /\ \A ev, other \in buffer : ev.sequence = other.sequence => ev = other
  /\ Cardinality(RowEvents(buffer)) <= RowEventBuffer
  /\ \A n \in 1..(next - 1) : Present(buffer, n) \/ Filled(buffer, n)

(* The row batches after one of them are fewer than all of them.           *)
LEMMA LaterRows ==
  ASSUME NEW rows, IsFiniteSet(rows), \A ev \in rows : ev.sequence \in Nat, NEW ev \in rows
  PROVE  LET later == {other \in rows : other.sequence > ev.sequence}
         IN  /\ Cardinality(later) \in Nat /\ Cardinality(rows) \in Nat
             /\ Cardinality(later) < Cardinality(rows)
<1> DEFINE later == {other \in rows : other.sequence > ev.sequence}
<1>1. later \subseteq rows \ {ev}
  OBVIOUS
<1>2. IsFiniteSet(rows \ {ev}) /\ Cardinality(rows \ {ev}) = Cardinality(rows) - 1
  BY FS_RemoveElement
<1>3. IsFiniteSet(later) /\ Cardinality(later) <= Cardinality(rows \ {ev})
  BY <1>1, <1>2, FS_Subset
<1>4. Cardinality(later) \in Nat /\ Cardinality(rows) \in Nat
  BY <1>3, FS_CardinalityType
<1> QED
  BY <1>2, <1>3, <1>4

(* As long as there are no more row batches than it holds, it keeps all.   *)
LEMMA NothingDropped ==
  ASSUME NEW buffer, IsFiniteSet(buffer), \A ev \in buffer : ev.sequence \in Nat,
         Cardinality(RowEvents(buffer)) <= RowEventBuffer
  PROVE  DropOldRows(buffer) = buffer
<1>1. IsFiniteSet(RowEvents(buffer)) /\ \A ev \in RowEvents(buffer) : ev.sequence \in Nat
  BY FS_Subset DEF RowEvents
<1>2. ASSUME NEW ev \in buffer, ev.topic = "rows"
      PROVE  Cardinality({other \in RowEvents(buffer) : other.sequence > ev.sequence})
               < RowEventBuffer
  <2>1. ev \in RowEvents(buffer)
    BY <1>2 DEF RowEvents
  <2> QED
    BY <1>1, <2>1, LaterRows, ConstantsAssumption
<1> QED
  BY <1>2 DEF DropOldRows

(* One row batch too many, and the oldest goes.                            *)
LEMMA OldestDropped ==
  ASSUME NEW buffer, IsFiniteSet(buffer), \A ev \in buffer : ev.sequence \in Nat,
         \A ev, other \in buffer : ev.sequence = other.sequence => ev = other,
         Cardinality(RowEvents(buffer)) = RowEventBuffer + 1
  PROVE  \E oldest \in RowEvents(buffer) :
           /\ DropOldRows(buffer) = buffer \ {oldest}
           /\ \A ev \in RowEvents(buffer) \ {oldest} : ev.sequence > oldest.sequence
           /\ Cardinality(RowEvents(buffer \ {oldest})) = RowEventBuffer
<1> DEFINE rows == RowEvents(buffer)
           later(ev) == {other \in rows : other.sequence > ev.sequence}
<1>1. IsFiniteSet(rows) /\ \A ev \in rows : ev.sequence \in Nat /\ ev \in buffer
  BY FS_Subset DEF RowEvents
<1>2. RowEventBuffer \in Nat
  BY ConstantsAssumption
<1>3. Cardinality(rows) = RowEventBuffer + 1
  OBVIOUS
<1> HIDE DEF rows
<1>4. rows # {}
  <2>1. RowEventBuffer + 1 # 0
    BY <1>2
  <2> QED
    BY <1>3, <2>1, FS_EmptySet
<1>5. PICK oldest \in rows : \A ev \in rows : oldest.sequence <= ev.sequence
  <2> DEFINE numbers == {ev.sequence : ev \in rows}
  <2>1. numbers \subseteq Nat /\ numbers # {}
    BY <1>1, <1>4
  <2>2. PICK m \in numbers : \A n \in numbers : m <= n
    BY <2>1, Least
  <2> QED
    BY <2>2
<1>6. \A ev \in rows \ {oldest} : ev.sequence > oldest.sequence
  BY <1>1, <1>5
<1>7. rows \ {oldest} = later(oldest)
  BY <1>1, <1>6
<1>8. IsFiniteSet(rows \ {oldest}) /\ Cardinality(rows \ {oldest}) = RowEventBuffer
  <2>1. IsFiniteSet(rows \ {oldest}) /\ Cardinality(rows \ {oldest}) = Cardinality(rows) - 1
    BY <1>1, <1>5, FS_RemoveElement
  <2> QED
    BY <1>2, <1>3, <2>1
<1>9. ASSUME NEW ev \in rows \ {oldest} PROVE Cardinality(later(ev)) < RowEventBuffer
  <2> DEFINE others == {other \in rows \ {oldest} : other.sequence > ev.sequence}
  <2>1. later(ev) = others
    BY <1>1, <1>5
  <2>2. Cardinality(others) < Cardinality(rows \ {oldest})
    BY <1>1, <1>8, LaterRows
  <2> QED
    BY <1>8, <2>1, <2>2
<1>10. ~(Cardinality(later(oldest)) < RowEventBuffer)
  BY <1>2, <1>7, <1>8
<1>11. RowEvents(buffer \ {oldest}) = rows \ {oldest}
  BY DEF RowEvents, rows
<1>12. DropOldRows(buffer) = {ev \in buffer : ev.topic = "rows" => Cardinality(later(ev)) < RowEventBuffer}
  BY DEF DropOldRows, rows
<1>13. \A ev \in buffer : ev.topic = "rows" <=> ev \in rows
  BY DEF RowEvents, rows
<1>14. DropOldRows(buffer) = buffer \ {oldest}
  <2> HIDE DEF later
  <2> QED
    BY <1>5, <1>9, <1>10, <1>12, <1>13
<1> QED
  BY <1>5, <1>6, <1>8, <1>11, <1>14 DEF rows

(* An event more: a buffer stays well as it is (bufferEvent).              *)
LEMMA StaysWellBuffered ==
  ASSUME NEW buffer, NEW next \in Nat \ {0}, WellBuffered(buffer, next), NEW topic \in Topics
  PROVE  WellBuffered(DropOldRows(buffer \cup {[sequence |-> next, topic |-> topic]}), next + 1)
<1> DEFINE new == [sequence |-> next, topic |-> topic]
           added == buffer \cup {new}
           kept == DropOldRows(added)
<1>1. /\ IsFiniteSet(added)
      /\ \A ev \in added : ev.sequence \in Nat /\ ev.sequence < next + 1
      /\ \A ev, other \in added : ev.sequence = other.sequence => ev = other
  <2>1. IsFiniteSet(added)
    BY FS_AddElement DEF WellBuffered
  <2>2. new.sequence = next /\ new.sequence \in Nat
    OBVIOUS
  <2> HIDE DEF new
  <2>3. \A ev \in added : ev.sequence \in Nat /\ ev.sequence < next + 1
    BY <2>2 DEF WellBuffered
  <2>4. \A ev, other \in added : ev.sequence = other.sequence => ev = other
    BY <2>2 DEF WellBuffered
  <2> QED
    BY <2>1, <2>3, <2>4
<1>2. /\ IsFiniteSet(RowEvents(buffer)) /\ Cardinality(RowEvents(buffer)) \in Nat
      /\ Cardinality(RowEvents(buffer)) <= RowEventBuffer
  BY FS_Subset, FS_CardinalityType DEF WellBuffered, RowEvents
<1>3. RowEvents(added) = IF topic = "rows" THEN RowEvents(buffer) \cup {new} ELSE RowEvents(buffer)
  BY DEF RowEvents
<1>4. new \notin RowEvents(buffer)
  BY DEF RowEvents, WellBuffered
<1>5. Cardinality(RowEvents(buffer) \cup {new}) = Cardinality(RowEvents(buffer)) + 1
  BY <1>2, <1>4, FS_AddElement
<1>6. \A n \in 1..next : Present(added, n) \/ Filled(buffer, n)
  <2>1. Present(added, next)
    <3>1. new \in added /\ new.sequence = next
      OBVIOUS
    <3> QED
      BY <3>1 DEF Present
  <2>2. \A n \in 1..(next - 1) : Present(added, n) \/ Filled(buffer, n)
    BY DEF Present, WellBuffered
  <2>3. \A n \in 1..next : n = next \/ n \in 1..(next - 1)
    OBVIOUS
  <2> HIDE DEF added
  <2> QED
    BY <2>1, <2>2, <2>3
<1>7. RowEventBuffer \in Nat
  BY ConstantsAssumption
<1>8. Present(added, next)
  <2>1. new \in added /\ new.sequence = next
    OBVIOUS
  <2> QED
    BY <2>1 DEF Present
<1>9. new.sequence = next
  OBVIOUS
<1> HIDE DEF added, new
<1>10. CASE Cardinality(RowEvents(added)) <= RowEventBuffer
  <2>1. kept = added
    BY <1>1, <1>10, NothingDropped
  <2>2. topic = "rows" => Cardinality(RowEvents(buffer)) # RowEventBuffer
    BY <1>2, <1>3, <1>5, <1>10, <1>7
  <2>3. \A n \in 1..next : Present(added, n) \/ Filled(added, n)
    BY <1>3, <1>6, <2>2 DEF Filled
  <2>4. next + 1 - 1 = next
    OBVIOUS
  <2>5. WellBuffered(kept, next + 1)
    BY <1>1, <1>10, <2>1, <2>3, <2>4 DEF WellBuffered
  <2> QED
    BY <2>5 DEF added, new
<1>11. CASE ~(Cardinality(RowEvents(added)) <= RowEventBuffer)
  <2>1. /\ topic = "rows" /\ Cardinality(RowEvents(buffer)) = RowEventBuffer
        /\ Cardinality(RowEvents(added)) = RowEventBuffer + 1
    BY <1>2, <1>3, <1>5, <1>11, <1>7
  <2>2. PICK oldest \in RowEvents(added) :
           /\ kept = added \ {oldest}
           /\ \A ev \in RowEvents(added) \ {oldest} : ev.sequence > oldest.sequence
           /\ Cardinality(RowEvents(added \ {oldest})) = RowEventBuffer
    BY <1>1, <2>1, OldestDropped
  <2>3. IsFiniteSet(kept)
    <3>1. IsFiniteSet(added \ {oldest})
      BY <1>1, FS_RemoveElement
    <3> QED
      BY <2>2, <3>1
  <2>4. RowEvents(kept) = RowEvents(added) \ {oldest}
    BY <2>2 DEF RowEvents
  <2>5. ASSUME NEW n \in 1..next PROVE Present(kept, n) \/ Filled(kept, n)
    <3>1. CASE Filled(buffer, n) /\ n < next
      <4>1. \A ev \in RowEvents(added) : ev.sequence > n
        BY <1>3, <1>9, <3>1 DEF Filled
      <4> QED
        BY <2>2, <2>4, <4>1 DEF Filled
    <3>2. CASE Present(added, n) /\ ~Present(kept, n)
      <4>1. oldest.sequence = n
        BY <2>2, <3>2 DEF Present
      <4> QED
        BY <2>2, <2>4, <4>1 DEF Filled
    <3>3. n = next => Present(added, n)
      BY <1>8
    <3>4. n = next \/ n < next
      OBVIOUS
    <3> QED
      BY <1>6, <3>1, <3>2, <3>3, <3>4
  <2>6. next + 1 - 1 = next
    OBVIOUS
  <2>7. \A ev \in kept : ev \in added
    BY <2>2
  <2>8. Cardinality(RowEvents(kept)) <= RowEventBuffer
    BY <1>7, <2>2
  <2> HIDE DEF kept
  <2>9. WellBuffered(kept, next + 1)
    BY <1>1, <2>3, <2>5, <2>6, <2>7, <2>8 DEF WellBuffered
  <2> QED
    BY <2>9 DEF kept, added, new
<1> QED
  BY <1>10, <1>11

(* What is missing from a replay is an old row batch, and what follows it  *)
(* is all a buffer holds (registry.ts bufferEvent() and replay()).         *)
THEOREM ReplaysAreComplete == Spec => []ReplayIsComplete
<1> DEFINE Inv == \A e \in Executions : WellBuffered(events[e], nextSequence[e])
<1>1. Init => Inv
  BY FS_EmptySet, ConstantsAssumption DEF Init, WellBuffered, RowEvents
<1>2. TypeOK /\ Inv /\ [Next]_vars => Inv'
  <2> SUFFICES ASSUME TypeOK, Inv, [Next]_vars PROVE Inv'
    OBVIOUS
  <2>1. ASSUME NEW e \in Executions, NEW topic \in Topics, BufferEvent(e, topic) PROVE Inv'
    <3>1. WellBuffered(DropOldRows(events[e] \cup {[sequence |-> nextSequence[e], topic |-> topic]}),
                       nextSequence[e] + 1)
      BY StaysWellBuffered DEF TypeOK
    <3>2. /\ nextSequence'[e] = nextSequence[e] + 1
          /\ events'[e] = DropOldRows(events[e] \cup {[sequence |-> nextSequence[e], topic |-> topic]})
          /\ \A x \in Executions \ {e} :
               nextSequence'[x] = nextSequence[x] /\ events'[x] = events[x]
      BY <2>1 DEF BufferEvent, TypeOK
    <3>3. ASSUME NEW x \in Executions PROVE WellBuffered(events'[x], nextSequence'[x])
      BY <3>1, <3>2
    <3> QED
      BY <3>3
  <2>2. CASE UNCHANGED streamVars
    BY <2>2 DEF streamVars
  <2>3. CASE Crash
    BY <2>3, FS_EmptySet, ConstantsAssumption DEF Crash, WellBuffered, RowEvents
  <2>4. \A outcome \in Terminal : TopicOf(outcome) \in Topics
    BY DEF Terminal, TopicOf, Topics, TerminalTopics
  <2>5. \A e \in Executions : Announce(e) => BufferEvent(e, "started") /\ "started" \in Topics
    BY DEF Announce, Topics
  <2>6. \A e \in Executions : BeginFails(e) => BufferEvent(e, "failed") /\ "failed" \in Topics
    BY DEF BeginFails, Topics, TerminalTopics
  <2>7. \A e \in Executions, topic \in SinkTopics : Sink(e, topic) => BufferEvent(e, topic) /\ topic \in Topics
    BY DEF Sink, Topics
  <2>8. \A e \in Executions, outcome \in Terminal : Settle(e, outcome) => BufferEvent(e, TopicOf(outcome))
    BY DEF Settle
  <2> HIDE DEF Inv
  <2> QED
    BY <2>1, <2>2, <2>3, <2>4, <2>5, <2>6, <2>7, <2>8
       DEF Next, Progress, Admit, RateLimit, Resolved, Refused, Register, Run, Begin, Close,
           FlushHistory, LoseHistory, Expire, Cancel, vars
<1>3. Inv => ReplayIsComplete
  <2> SUFFICES ASSUME Inv, NEW e \in Executions
               PROVE  /\ \A ev, other \in events[e] : ev.sequence = other.sequence => ev = other
                      /\ \A n \in 1..(nextSequence[e] - 1) :
                           \/ \E ev \in Replay(e, n - 1) : ev.sequence = n
                           \/ Cardinality(RowEvents(Replay(e, n))) = RowEventBuffer
    BY DEF ReplayIsComplete
  <2>1. WellBuffered(events[e], nextSequence[e])
    OBVIOUS
  <2>2. ASSUME NEW n \in 1..(nextSequence[e] - 1)
        PROVE  \/ \E ev \in Replay(e, n - 1) : ev.sequence = n
               \/ Cardinality(RowEvents(Replay(e, n))) = RowEventBuffer
    <3>1. CASE Present(events[e], n)
      BY <3>1 DEF Present, Replay
    <3>2. CASE Filled(events[e], n)
      <4>1. RowEvents(Replay(e, n)) = RowEvents(events[e])
        BY <3>2 DEF Filled, RowEvents, Replay
      <4> QED
        BY <3>2, <4>1 DEF Filled
    <3> QED
      BY <2>1, <3>1, <3>2 DEF WellBuffered
  <2> QED
    BY <2>1, <2>2 DEF WellBuffered
<1> HIDE DEF Inv
<1> QED
  BY <1>1, <1>2, <1>3, TypeCorrect, PTL DEF Spec

-----------------------------------------------------------------------------
(* The registry implements ExecutionLifecycle.                             *)

StateOf(e) == IF history[e] # "none" /\ ~registered[e] THEN "gone" ELSE status[e]

AnnouncedOf(e) ==
  IF registered[e] THEN {v \in Terminal : \E ev \in events[e] : ev.topic = TopicOf(v)} ELSE {}

(* The verdicts in a buffer are the record's verdict, once it has one.     *)
AnnouncedOnce ==
  \A e \in Executions :
    AnnouncedOf(e) = IF registered[e] /\ status[e] \in Terminal THEN {status[e]} ELSE {}

(* What a stream has announced is exactly the verdict of its record.       *)
LEMMA AnnouncedIsTheVerdict == IInv => AnnouncedOnce
<1> SUFFICES ASSUME IInv, NEW e \in Executions
             PROVE  AnnouncedOf(e) =
                      IF registered[e] /\ status[e] \in Terminal THEN {status[e]} ELSE {}
  BY DEF AnnouncedOnce
<1>1. Streamed(e)
  BY DEF IInv, Consistent
<1>2. \A v \in Terminal : TopicOf(v) \in TerminalTopics
  BY DEF Terminal, TerminalTopics, TopicOf
<1>3. \A v, w \in Terminal : TopicOf(v) = TopicOf(w) => v = w
  BY DEF Terminal, TopicOf
<1>4. CASE status[e] \notin Terminal
  BY <1>1, <1>2, <1>4 DEF Streamed, AnnouncedOf
<1>5. CASE status[e] \in Terminal
  <2>1. Verdict(e) \in events[e] /\ Verdict(e).topic = TopicOf(status[e])
    BY <1>1, <1>5 DEF Streamed, Verdict
  <2>2. \A ev \in events[e], v \in Terminal : ev.topic = TopicOf(v) => v = status[e]
    BY <1>1, <1>2, <1>3, <1>5, <2>1 DEF Streamed
  <2> QED
    BY <1>5, <2>1, <2>2 DEF AnnouncedOf
<1> QED
  BY <1>4, <1>5

(* A step of one execution shows in the lifecycle of no other.             *)
LEMMA StepOfOne ==
  ASSUME IInv, NEW e \in Executions, LocalStep(e)
  PROVE  \A x \in Executions \ {e} :
           StateOf(x)' = StateOf(x) /\ AnnouncedOf(x)' = AnnouncedOf(x)
BY LocalStepConsistent DEF SameAt, StateOf, AnnouncedOf

(* What the step shows of the execution that takes it.                     *)
LEMMA StepShows ==
  ASSUME IInv, IInv', NEW e \in Executions, LocalStep(e)
  PROVE  \/ StateOf(e)' = StateOf(e) /\ AnnouncedOf(e)' = AnnouncedOf(e)
         \/ /\ StateOf(e) = "absent" /\ StateOf(e)' = "queued"
            /\ AnnouncedOf(e)' = AnnouncedOf(e)
         \/ /\ StateOf(e) = "queued" /\ StateOf(e)' = "running"
            /\ AnnouncedOf(e)' = AnnouncedOf(e)
         \/ /\ StateOf(e) = "running" /\ StateOf(e)' \in Terminal
            /\ AnnouncedOf(e)' = {StateOf(e)'}
         \/ /\ StateOf(e) \in Terminal /\ StateOf(e)' = "gone"
            /\ AnnouncedOf(e)' = {}
<1> DEFINE Shown == IF registered[e] /\ status[e] \in Terminal THEN {status[e]} ELSE {}
<1>1. AnnouncedOf(e) = Shown /\ AnnouncedOf(e)' = Shown'
  <2>1. AnnouncedOnce /\ AnnouncedOnce'
    BY AnnouncedIsTheVerdict, PTL
  <2> QED
    BY <2>1 DEF AnnouncedOnce
<1>2. TypeOK /\ Placed(e) /\ Recorded(e)
  BY DEF IInv, Consistent
<1>3. CASE UNCHANGED <<registered, status>> /\ (history'[e] = "none" <=> history[e] = "none")
  BY <1>1, <1>3 DEF StateOf
<1>4. CASE Register(e)
  <2>1. StateOf(e) = "absent" /\ Shown = {}
    BY <1>2, <1>4 DEF Register, Placed, StateOf, Terminal
  <2>2. StateOf(e)' = "queued" /\ Shown' = {}
    BY <1>2, <1>4 DEF Register, TypeOK, StateOf, Terminal
  <2> QED
    BY <1>1, <2>1, <2>2
<1>5. CASE Run(e)
  <2>1. StateOf(e) = "queued" /\ Shown = {}
    BY <1>2, <1>5 DEF Run, Placed, StateOf, Terminal
  <2>2. StateOf(e)' = "running" /\ Shown' = {}
    BY <1>2, <1>5 DEF Run, TypeOK, Placed, StateOf, Terminal, historyVars
  <2> QED
    BY <1>1, <2>1, <2>2
<1>6. ASSUME NEW outcome \in Terminal, Finish(e, outcome), UNCHANGED <<registered, history>>,
             pc[e] \in {"beginning", "executing"}
      PROVE  /\ StateOf(e) = "running" /\ StateOf(e)' = outcome
             /\ AnnouncedOf(e)' = {outcome}
  <2>1. StateOf(e) = "running" /\ registered[e]
    BY <1>2, <1>6 DEF Placed, StateOf
  <2>2. StateOf(e)' = outcome /\ Shown' = {outcome}
    BY <1>2, <1>6, <2>1 DEF Finish, TypeOK, StateOf
  <2> QED
    BY <1>1, <2>1, <2>2
<1>7. CASE Expire(e)
  <2>1. StateOf(e) \in Terminal /\ history[e] # "none"
    BY <1>2, <1>7 DEF Expire, TypeOK, Placed, Locations, Active, Terminal, StateOf
  <2>2. StateOf(e)' = "gone" /\ Shown' = {}
    BY <1>2, <1>7, <2>1 DEF Expire, TypeOK, StateOf, historyVars
  <2> QED
    BY <1>1, <2>1, <2>2
<1> HIDE DEF Shown
<1>8. CASE Admit(e) \/ RateLimit(e) \/ Resolved(e) \/ Refused(e)
  BY <1>3, <1>8 DEF Admit, RateLimit, Resolved, Refused, recordVars, historyVars
<1>9. CASE Announce(e) \/ Begin(e) \/ \E topic \in SinkTopics : Sink(e, topic)
  BY <1>2, <1>3, <1>9 DEF Announce, Begin, Sink, TypeOK, Placed, recordVars, historyVars
<1>10. CASE BeginFails(e) \/ \E outcome \in Terminal : Settle(e, outcome)
  BY <1>6, <1>10 DEF BeginFails, Settle, Terminal
<1>11. CASE Close(e) \/ LoseHistory(e) \/ \E u \in Users : Cancel(u, e)
  BY <1>3, <1>11 DEF Close, LoseHistory, Cancel, recordVars, historyVars
<1>12. CASE FlushHistory(e)
  BY <1>2, <1>3, <1>12 DEF FlushHistory, TypeOK, Placed, Recorded, Locations, Active, Terminal, recordVars
<1> QED
  BY <1>4, <1>5, <1>7, <1>8, <1>9, <1>10, <1>11, <1>12 DEF LocalStep, Progress

(* The crash of a registry is the stop of the lifecycle.                   *)
LEMMA CrashShows ==
  ASSUME IInv, Crash, NEW e \in Executions
  PROVE  /\ StateOf(e)' = IF StateOf(e) = "absent" THEN "absent" ELSE "gone"
         /\ AnnouncedOf(e)' = {}
<1>1. TypeOK /\ Placed(e)
  BY DEF IInv, Consistent
<1>2. registered'[e] = FALSE /\ status'[e] = "absent" /\ history' = history
  BY DEF Crash
<1>3. history[e] = "none" => StateOf(e) = "absent"
  BY <1>1 DEF TypeOK, Placed, Locations, Active, StateOf
<1>4. history[e] # "none" => StateOf(e) # "absent"
  BY <1>1 DEF TypeOK, Placed, Locations, Active, Terminal, StateOf
<1> QED
  BY <1>2, <1>3, <1>4 DEF StateOf, AnnouncedOf

(* The registry implements the lifecycle it promises: queued, running, one *)
(* verdict announced in the instant it is reached, then forgotten          *)
(* (registry.ts, all of it, against ExecutionLifecycle).                   *)
THEOREM ImplementsLifecycle == Spec => LifecycleSpec
<1> DEFINE state == [e \in Executions |-> StateOf(e)]
           announced == [e \in Executions |-> AnnouncedOf(e)]
<1>1. Init => Lifecycle!Init
  BY DEF Init, Lifecycle!Init
<1>2. IInv /\ IInv' /\ [Next]_vars => [Lifecycle!Next]_(Lifecycle!vars)
  <2> SUFFICES ASSUME IInv, IInv', [Next]_vars
               PROVE  \/ \E e \in Executions :
                           \/ /\ state[e] = "absent"
                              /\ state' = [state EXCEPT ![e] = "queued"]
                              /\ announced' = announced
                           \/ /\ state[e] = "queued"
                              /\ state' = [state EXCEPT ![e] = "running"]
                              /\ announced' = announced
                           \/ \E verdict \in Terminal :
                                /\ state[e] = "running"
                                /\ state' = [state EXCEPT ![e] = verdict]
                                /\ announced' = [announced EXCEPT ![e] = {verdict}]
                           \/ /\ state[e] \in Terminal
                              /\ state' = [state EXCEPT ![e] = "gone"]
                              /\ announced' = [announced EXCEPT ![e] = {}]
                      \/ /\ state' = [e \in Executions |->
                                       IF state[e] = "absent" THEN "absent" ELSE "gone"]
                         /\ announced' = [e \in Executions |-> {}]
                      \/ state' = state /\ announced' = announced
    BY DEF Lifecycle!Next, Lifecycle!Enqueue, Lifecycle!Start, Lifecycle!Settle,
           Lifecycle!Forget, Lifecycle!Stop, Lifecycle!vars, Lifecycle!Verdicts, Terminal,
           StateOf, AnnouncedOf
  <2>1. CASE UNCHANGED vars
    BY <2>1 DEF StateOf, AnnouncedOf, vars, recordVars, streamVars, historyVars
  <2>2. CASE Crash
    BY <2>2, CrashShows
  <2>3. ASSUME NEW e \in Executions, LocalStep(e)
        PROVE  /\ state' = [state EXCEPT ![e] = StateOf(e)']
               /\ announced' = [announced EXCEPT ![e] = AnnouncedOf(e)']
    BY <2>3, StepOfOne
  <2>4. ASSUME NEW e \in Executions, LocalStep(e)
        PROVE  \/ state' = state /\ announced' = announced
               \/ /\ state[e] = "absent" /\ state' = [state EXCEPT ![e] = "queued"]
                  /\ announced' = announced
               \/ /\ state[e] = "queued" /\ state' = [state EXCEPT ![e] = "running"]
                  /\ announced' = announced
               \/ \E verdict \in Terminal :
                    /\ state[e] = "running"
                    /\ state' = [state EXCEPT ![e] = verdict]
                    /\ announced' = [announced EXCEPT ![e] = {verdict}]
               \/ /\ state[e] \in Terminal /\ state' = [state EXCEPT ![e] = "gone"]
                  /\ announced' = [announced EXCEPT ![e] = {}]
    BY <2>3, <2>4, StepShows
  <2> HIDE DEF state, announced
  <2> QED
    BY <2>1, <2>2, <2>4 DEF Next, LocalStep
<1> QED
  BY <1>1, <1>2, Invariance, PTL DEF Spec, LifecycleSpec, Lifecycle!Spec
=============================================================================
