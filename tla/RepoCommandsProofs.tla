------------------------- MODULE RepoCommandsProofs -------------------------
(***************************************************************************)
(* What holds of approvals, runs and run panels for any number of members, *)
(* lists, commands, runs, pulls, lost sockets and restarts.                *)
(***************************************************************************)
EXTENDS RepoCommands, SequenceTheorems, TLAPS

-----------------------------------------------------------------------------
(* Types.                                                                  *)

(* What the handlers are given and what they become has its type.          *)
LEMMA CallTypes ==
  /\ Idle \in CallType
  /\ \A call \in CallType :
       /\ [call EXCEPT !.client = None] \in CallType
       /\ \A pc \in {"begin", "store", "trust", "start", "announce"} :
            [call EXCEPT !.pc = pc] \in CallType
       /\ \A list \in Lists \cup {None} : [call EXCEPT !.vouched = @ \cup {list}] \in CallType
  BY DEF Idle, CallType, Ops

(* What happens to a process leaves it the record of one.                  *)
LEMMA RunRecords ==
  ASSUME NEW run \in RunType
  PROVE  /\ \A reason \in Reasons :
              /\ Stopped(run, reason) \in RunType
              /\ [Stopped(run, reason) EXCEPT !.cancelled = TRUE] \in RunType
              /\ [Stopped(run, reason) EXCEPT !.timer = FALSE] \in RunType
         /\ [run EXCEPT !.phase = "dead"] \in RunType
         /\ [run EXCEPT !.phase = "gone"] \in RunType
         /\ [run EXCEPT !.phase = "dead", !.grace = FALSE] \in RunType
         /\ \A phase \in {"reported", "orphan", "gone"} : Forgotten(run, phase) \in RunType
         /\ Outlives(run) \in RunType
<1>1. \A reason \in Reasons :
        /\ Stopped(run, reason) \in RunType
        /\ [Stopped(run, reason) EXCEPT !.cancelled = TRUE] \in RunType
        /\ [Stopped(run, reason) EXCEPT !.timer = FALSE] \in RunType
  BY DEF RunType, Stopped
<1>2. /\ [run EXCEPT !.phase = "dead"] \in RunType
      /\ [run EXCEPT !.phase = "gone"] \in RunType
      /\ [run EXCEPT !.phase = "dead", !.grace = FALSE] \in RunType
  BY DEF RunType
<1>3. \A phase \in {"reported", "orphan", "gone"} : Forgotten(run, phase) \in RunType
  BY DEF RunType, Forgotten, Reasons
<1> QED
  BY <1>1, <1>2, <1>3 DEF Outlives

(* A message is of one of four kinds.                                      *)
LEMMA Kinds ==
  ASSUME NEW m \in Message
  PROVE  \/ m.kind = "state" /\ m.list \in Lists
         \/ m.kind = "started" /\ m.run \in Runs
         \/ m.kind = "exit" /\ m.run \in Runs /\ m.reason \in Reasons
         \/ m.kind = "changed"
<1>1. CASE m \in [kind : {"state"}, list : Lists]
  BY <1>1
<1>2. CASE m \in [kind : {"started"}, run : Runs]
  BY <1>2
<1>3. CASE m \in [kind : {"exit"}, run : Runs, reason : Reasons]
  BY <1>3
<1>4. CASE m \in [kind : {"changed"}]
  BY <1>4
<1> QED
  BY <1>1, <1>2, <1>3, <1>4 DEF Message

(* What one tab shows of one run, and the rest stays.                      *)
LEMMA ShowTypes ==
  ASSUME TypeOK, NEW c \in Clients, NEW r \in Runs, NEW view \in Views,
         views' = [views EXCEPT ![c] = [views[c] EXCEPT ![r] = view]]
  PROVE  views' \in [Clients -> [Runs -> Views]]
  BY DEF TypeOK

(* A response reaches its client, or nobody.                               *)
LEMMA RespondTypes ==
  ASSUME TypeOK, NEW k \in CallIds, NEW m \in Message, Respond(k, m)
  PROVE  inbox' \in [Clients -> Seq(Message)]
  BY DEF TypeOK, Respond

(* ... and an event everybody who is online.                               *)
LEMMA BroadcastTypes ==
  ASSUME TypeOK, NEW m \in Message, Broadcast(m)
  PROVE  inbox' \in [Clients -> Seq(Message)]
  BY DEF TypeOK, Broadcast

(* Counting keeps the counters natural numbers.                            *)
LEMMA CountTypes ==
  ASSUME TypeOK, NEW b \in Bounded, NEW max, Count(b, max)
  PROVE  count' \in [Bounded -> Nat]
  BY DEF TypeOK, Count

(* A panel is answered with a list that was read.                          *)
Answerable == \A k \in CallIds : At(k, "look", "trust") => calls[k].list # None

Typed == TypeOK /\ Answerable

(* A step of a handler keeps the types.                                    *)
LEMMA ServeTypes ==
  ASSUME Typed, NEW k \in CallIds, Serve(k)
  PROVE  Typed'
<1> USE DEF Typed, Answerable, At, Becomes, Return
<1>1. calls[k] \in CallType /\ calls \in [CallIds -> CallType]
  BY DEF TypeOK
<1>2. Idle.op = "idle" /\ Idle \in CallType
  BY CallTypes DEF Idle
<1>a. CASE ReadState(k) \/ ReadCommands(k)
  <2>1. [calls[k] EXCEPT !.list = file, !.pc = "trust"] \in CallType
    BY <1>1 DEF CallType, TypeOK
  <2>2. file # None
    BY RepoCommandsAssumption DEF TypeOK
  <2>3. calls' = [calls EXCEPT ![k] = [calls[k] EXCEPT !.list = file, !.pc = "trust"]]
    BY <1>a DEF ReadState, ReadCommands
  <2>4. calls' \in [CallIds -> CallType]
    BY <1>1, <2>1, <2>3
  <2>5. Answerable'
    BY <1>1, <2>2, <2>3 DEF CallType
  <2> QED
    BY <1>a, <2>4, <2>5 DEF ReadState, ReadCommands, TypeOK, tabs
<1>b. CASE AnswerState(k)
  <2>1. [kind |-> "state", list |-> calls[k].list] \in Message
    BY <1>b, <1>1 DEF AnswerState, CallType, Message
  <2>2. inbox' \in [Clients -> Seq(Message)]
    BY <1>b, <2>1, RespondTypes DEF AnswerState
  <2> QED
    BY <1>b, <1>1, <1>2, <2>2 DEF AnswerState, TypeOK
<1>c. CASE CompareHash(k) \/ CheckTrust(k) \/ SpawnFails(k)
  <2>1. \A pc \in {"store", "start"} : [calls[k] EXCEPT !.pc = pc] \in CallType
    BY <1>1, CallTypes
  <2>2. \/ calls' = [calls EXCEPT ![k] = Idle]
        \/ /\ calls[k].op # "look"
           /\ \E pc \in {"store", "start"} :
                calls' = [calls EXCEPT ![k] = [calls[k] EXCEPT !.pc = pc]]
    BY <1>c DEF CompareHash, CheckTrust, SpawnFails
  <2>3. calls' \in [CallIds -> CallType]
    BY <1>1, <1>2, <2>1, <2>2
  <2>4. Answerable'
    BY <1>1, <1>2, <2>2 DEF CallType
  <2> QED
    BY <1>c, <2>3, <2>4 DEF CompareHash, CheckTrust, SpawnFails, TypeOK, tabs
<1>d. CASE StoreTrust(k) \/ ClearTrust(k)
  <2>1. ThenLook(k) \in CallType /\ ThenLook(k).pc = "begin"
    BY <1>1 DEF ThenLook, CallType, Ops
  <2>2. PICK list \in Lists \cup {None} : SetTrust(k, list, ThenLook(k))
    BY <1>d, <1>1 DEF StoreTrust, ClearTrust, CallType
  <2>3. \A j \in CallIds : [calls[j] EXCEPT !.vouched = @ \cup {list}] \in CallType
    BY <1>1, CallTypes
  <2>4. calls' \in [CallIds -> CallType] /\ trust' = list
    BY <2>1, <2>2, <2>3, <1>1 DEF SetTrust
  <2>5. Answerable'
    BY <2>1, <2>2, <1>1 DEF SetTrust, CallType
  <2> QED
    BY <1>d, <2>4, <2>5 DEF StoreTrust, ClearTrust, TypeOK, tabs
<1>e. CASE Spawn(k)
  <2>1. PICK r \in Runs :
          /\ runs' = [runs EXCEPT ![r] =
               [Unused EXCEPT !.phase = "running", !.name = calls[k].name,
                              !.list = calls[k].list, !.vouched = calls[k].vouched,
                              !.timer = calls[k].name \notin Services(calls[k].list)]]
          /\ Respond(k, [kind |-> "started", run |-> r])
    BY <1>e DEF Spawn
  <2>2. runs' \in [Runs -> RunType]
    BY <2>1, <1>1 DEF TypeOK, RunType, CallType, Unused, Reasons
  <2>3. [kind |-> "started", run |-> r] \in Message
    BY DEF Message
  <2>4. inbox' \in [Clients -> Seq(Message)]
    BY <2>1, <2>3, RespondTypes
  <2> QED
    BY <1>e, <1>1, <1>2, <2>2, <2>4 DEF Spawn, TypeOK
<1>f. CASE MoveHead(k)
  <2>1. [calls[k] EXCEPT !.pc = "announce"] \in CallType
    BY <1>1, CallTypes
  <2>2. count' \in [Bounded -> Nat]
    BY <1>f, CountTypes DEF MoveHead, TypeOK, Bounded
  <2>3. \/ calls' = [calls EXCEPT ![k] = Idle]
        \/ calls' = [calls EXCEPT ![k] = [calls[k] EXCEPT !.pc = "announce"]]
    BY <1>f DEF MoveHead
  <2>4. calls' \in [CallIds -> CallType]
    BY <1>1, <1>2, <2>1, <2>3
  <2>5. Answerable'
    BY <1>1, <1>2, <2>3 DEF CallType
  <2> QED
    BY <1>f, <2>2, <2>4, <2>5 DEF MoveHead, TypeOK, tabs
<1>g. CASE AnnouncePull(k)
  <2>1. [kind |-> "changed"] \in Message
    BY DEF Message
  <2>2. inbox' \in [Clients -> Seq(Message)]
    BY <1>g, <2>1, BroadcastTypes DEF AnnouncePull
  <2> QED
    BY <1>g, <1>1, <1>2, <2>2 DEF AnnouncePull, TypeOK
<1> QED
  BY <1>a, <1>b, <1>c, <1>d, <1>e, <1>f, <1>g DEF Serve

(* A panel is told from no panel, and offers the list it was sent and the  *)
(* commands of that list.                                                  *)
LEMMA PanelFacts ==
  ASSUME NEW panel \in Panels
  PROVE  /\ panel # None /\ panel.hash \in Lists /\ panel = Panel(panel.hash)
         /\ \A row \in panel.rows : row[1] \in Names
<1>1. PICK list \in Lists : panel = Panel(list)
  BY DEF Panels
<1>2. panel.hash = list /\ panel.rows = {<<d.name, d.argv>> : d \in Commands[list]}
  BY <1>1 DEF Panel
<1>3. Commands[list] \subseteq Command
  BY RepoCommandsAssumption
<1>4. \A d \in Command : <<d.name, d.argv>>[1] \in Names
  BY DEF Command
<1>5. panel # None
  BY RepoCommandsAssumption
<1> QED
  BY <1>1, <1>2, <1>3, <1>4, <1>5

(* So does a request a member sends.                                       *)
LEMMA PressTypes ==
  ASSUME Typed, NEW c \in Clients, Press(c)
  PROVE  Typed'
<1> USE DEF Typed, Answerable, At
<1>1. CASE \E op \in Ops \ {"idle"}, name \in Names \cup {None}, list \in Lists \cup {None} :
             Begin(op, c, name, list) /\ (op = "approve" => screen[c] # None)
  <2>1. PICK op \in Ops \ {"idle"}, name \in Names \cup {None}, list \in Lists \cup {None} :
          Begin(op, c, name, list) /\ (op = "approve" => screen[c] # None)
    BY <1>1
  <2>2. PICK k \in CallIds :
          calls' = [calls EXCEPT ![k] =
            [op |-> op, pc |-> "begin", client |-> c, name |-> name, list |-> list,
             vouched |-> IF op = "run" THEN {trust} ELSE {}]]
    BY <2>1 DEF Begin, Becomes
  <2>3. calls' \in [CallIds -> CallType]
    BY <2>2 DEF TypeOK, CallType
  <2>4. count' \in [Bounded -> Nat]
    BY <2>1, CountTypes DEF Begin, Bounded
  <2>5. Answerable'
    BY <2>2 DEF TypeOK
  <2>6. shown' \subseteq Panels
    BY <2>1 DEF Begin, TypeOK
  <2> QED
    BY <2>1, <2>3, <2>4, <2>5, <2>6 DEF Begin, TypeOK
<1>2. CASE \E r \in Runs : Cancel(c, r)
  <2>1. PICK r \in Runs : Cancel(c, r)
    BY <1>2
  <2>2. runs' \in [Runs -> RunType]
    <3>1. Stopped(runs[r], "cancelled") \in RunType
          /\ [Stopped(runs[r], "cancelled") EXCEPT !.cancelled = TRUE] \in RunType
      BY RunRecords DEF TypeOK, Reasons
    <3> QED
      BY <2>1, <3>1 DEF Cancel, TypeOK
  <2>3. count' \in [Bounded -> Nat]
    BY <2>1, CountTypes DEF Cancel, Bounded
  <2> QED
    BY <2>1, <2>2, <2>3 DEF Cancel, TypeOK, tabs
<1>3. screen[c] # None => screen[c] \in Panels
  BY DEF TypeOK
<1>4. screen[c] # None =>
        screen[c].hash \in Lists /\ \A row \in screen[c].rows : row[1] \in Names
  BY <1>3, PanelFacts
<1> QED
  BY <1>1, <1>2, <1>4 DEF Press, Look, Approve, Withdraw, Run, Pull, Ops

(* ... what happens in a tab ...                                           *)
LEMMA TabTypes ==
  ASSUME Typed, NEW c \in Clients, Deliver(c) \/ Disconnect(c) \/ Connect(c)
  PROVE  Typed'
<1> USE DEF Typed, Answerable, At
<1>1. CASE Deliver(c)
  <2>1. inbox[c] \in Seq(Message) /\ inbox[c] # <<>>
    BY <1>1 DEF Deliver, TypeOK
  <2>2. Head(inbox[c]) \in Message /\ Tail(inbox[c]) \in Seq(Message)
    BY <2>1, HeadTailProperties
  <2>3. inbox' \in [Clients -> Seq(Message)]
    BY <1>1, <2>2 DEF Deliver, TypeOK
  <2> DEFINE m == Head(inbox[c])
  <2>4. screen' \in [Clients -> Panels \cup {None}] /\ views' \in [Clients -> [Runs -> Views]]
    <3> HIDE DEF m
    <3>0. Handle(c, m) /\ m \in Message
      BY <1>1, <2>2 DEF Deliver, m
    <3>1. CASE m.kind = "state"
      <4>1. m.list \in Lists
        BY <3>0, <3>1, Kinds
      <4>2. Panel(m.list) \in Panels
        BY <4>1 DEF Panels
      <4> QED
        BY <3>0, <3>1, <4>2 DEF Handle, TypeOK
    <3>2. CASE m.kind = "started"
      <4>1. m.run \in Runs
        BY <3>0, <3>2, Kinds
      <4>2. /\ views' = [views EXCEPT ![c] = [views[c] EXCEPT ![m.run] = "running"]]
            /\ UNCHANGED screen
        BY <3>0, <3>2 DEF Handle
      <4>3. "running" \in Views
        BY DEF Views
      <4> QED
        BY <4>1, <4>2, <4>3, ShowTypes DEF TypeOK
    <3>3. CASE m.kind = "exit"
      <4>1. m.run \in Runs /\ m.reason \in Reasons
        BY <3>0, <3>3, Kinds
      <4>2. PICK view \in Views :
              views' = [views EXCEPT ![c] = [views[c] EXCEPT ![m.run] = view]]
        BY <3>0, <3>3, <4>1 DEF Handle, TypeOK, Views, Reasons
      <4>3. UNCHANGED screen
        BY <3>0, <3>3 DEF Handle
      <4> QED
        BY <4>1, <4>2, <4>3, ShowTypes DEF TypeOK
    <3>4. CASE m.kind = "changed"
      <4>1. /\ views' = [views EXCEPT ![c] = NoViews]
            /\ screen' = [screen EXCEPT ![c] = None]
        BY <3>0, <3>4 DEF Handle
      <4>2. NoViews \in [Runs -> Views]
        BY DEF NoViews, Views
      <4> QED
        BY <4>1, <4>2 DEF TypeOK
    <3>5. m.kind = "state" \/ m.kind = "started" \/ m.kind = "exit" \/ m.kind = "changed"
      BY <3>0, Kinds
    <3> QED
      BY <3>1, <3>2, <3>3, <3>4, <3>5
  <2> QED
    BY <1>1, <2>3, <2>4 DEF Deliver, TypeOK, server
<1>2. CASE Disconnect(c)
  <2>1. calls' \in [CallIds -> CallType]
    BY <1>2, CallTypes DEF Disconnect, TypeOK
  <2>2. Answerable'
    BY <1>2 DEF Disconnect, TypeOK, CallType
  <2>3. count' \in [Bounded -> Nat]
    BY <1>2, CountTypes DEF Disconnect, Bounded
  <2> QED
    BY <1>2, <2>1, <2>2, <2>3 DEF Disconnect, TypeOK
<1>3. CASE Connect(c)
  BY <1>3 DEF Connect, TypeOK, server, NoViews, Views
<1> QED
  BY <1>1, <1>2, <1>3

(* ... and what happens to processes, the file and the server.             *)
LEMMA RunTypes ==
  ASSUME Typed,
         \/ \E r \in Runs : Deadline(r) \/ ProcessExits(r) \/ Sigkill(r) \/ OnExit(r)
         \/ EditFile \/ Restart
  PROVE  Typed'
<1> USE DEF Typed, Answerable, At
<1>1. ASSUME NEW r \in Runs, Deadline(r) \/ ProcessExits(r) \/ Sigkill(r) PROVE Typed'
  <2>1. runs' \in [Runs -> RunType]
    <3>1. runs[r] \in RunType /\ runs \in [Runs -> RunType]
      BY DEF TypeOK
    <3>2. runs' = [runs EXCEPT ![r] = [Stopped(runs[r], "timed out") EXCEPT !.timer = FALSE]]
          \/ runs' = [runs EXCEPT ![r] = [runs[r] EXCEPT !.phase = "dead"]]
          \/ runs' = [runs EXCEPT ![r] = [runs[r] EXCEPT !.phase = "gone"]]
          \/ runs' = [runs EXCEPT ![r] = [runs[r] EXCEPT !.phase = "dead", !.grace = FALSE]]
      BY <1>1, <3>1 DEF Deadline, ProcessExits, Sigkill
    <3>3. [Stopped(runs[r], "timed out") EXCEPT !.timer = FALSE] \in RunType
      BY <3>1, RunRecords DEF Reasons
    <3>4. /\ [runs[r] EXCEPT !.phase = "dead"] \in RunType
          /\ [runs[r] EXCEPT !.phase = "gone"] \in RunType
          /\ [runs[r] EXCEPT !.phase = "dead", !.grace = FALSE] \in RunType
      BY <3>1, RunRecords
    <3> QED
      BY <3>1, <3>2, <3>3, <3>4
  <2> QED
    BY <1>1, <2>1 DEF Deadline, ProcessExits, Sigkill, TypeOK, tabs
<1>2. ASSUME NEW r \in Runs, OnExit(r) PROVE Typed'
  <2>1. runs' \in [Runs -> RunType]
    BY <1>2, RunRecords DEF OnExit, TypeOK
  <2>2. [kind |-> "exit", run |-> r, reason |-> runs[r].reason] \in Message
    BY DEF TypeOK, RunType, Message
  <2>3. inbox' \in [Clients -> Seq(Message)]
    BY <1>2, <2>2, BroadcastTypes DEF OnExit
  <2> QED
    BY <1>2, <2>1, <2>3 DEF OnExit, TypeOK
<1>3. CASE EditFile
  <2>1. count' \in [Bounded -> Nat]
    BY <1>3, CountTypes DEF EditFile, Bounded
  <2> QED
    BY <1>3, <2>1 DEF EditFile, TypeOK, server, tabs
<1>4. CASE Restart
  <2>1. \A r \in Runs : Outlives(runs[r]) \in RunType
    BY RunRecords DEF TypeOK
  <2>2. count' \in [Bounded -> Nat]
    BY <1>4, CountTypes DEF Restart, Bounded
  <2>3. calls' \in [CallIds -> CallType] /\ Answerable'
    BY <1>4, CallTypes DEF Restart, Idle
  <2> QED
    BY <1>4, <2>1, <2>2, <2>3 DEF Restart, TypeOK
<1> QED
  BY <1>1, <1>2, <1>3, <1>4

(* The types are an invariant together with what is read before it is      *)
(* answered.                                                               *)
LEMMA TypedInvariant == Spec => []Typed
<1>1. Init => Typed
  <2> SUFFICES ASSUME Init PROVE Typed
    OBVIOUS
  <2>1. calls \in [CallIds -> CallType] /\ Answerable
    BY CallTypes DEF Init, Answerable, At, Idle
  <2>2. runs \in [Runs -> RunType]
    BY DEF Init, Unused, RunType, Reasons
  <2>3. inbox \in [Clients -> Seq(Message)]
    BY DEF Init
  <2>4. views \in [Clients -> [Runs -> Views]]
    BY DEF Init, NoViews, Views
  <2>5. shown \subseteq Panels /\ screen \in [Clients -> Panels \cup {None}]
    BY DEF Init, Panels
  <2> QED
    BY <2>1, <2>2, <2>3, <2>4, <2>5 DEF Init, Typed, TypeOK, Bounded
<1>2. Typed /\ [Next]_vars => Typed'
  <2> SUFFICES ASSUME Typed, [Next]_vars PROVE Typed'
    OBVIOUS
  <2>1. CASE UNCHANGED vars
    BY <2>1 DEF Typed, Answerable, At, TypeOK, vars, server, tabs
  <2> QED
    BY <2>1, ServeTypes, PressTypes, TabTypes, RunTypes DEF Next
<1> QED
  BY <1>1, <1>2, PTL DEF Spec

(* Every variable keeps its type (git/commands.ts, git/runner.ts,          *)
(* stores/repoRuns.ts).                                                    *)
THEOREM TypeCorrect == Spec => []TypeOK
<1>1. Typed => TypeOK
  BY DEF Typed
<1> QED
  BY <1>1, TypedInvariant, PTL

-----------------------------------------------------------------------------
(* Approvals.  A list is approved by a call that carries it, and a call    *)
(* carries the list of the panel that was on the screen.                   *)

ShownBefore ==
  /\ ApprovedWasShown
  /\ \A k \in CallIds : calls[k].op = "approve" => Panel(calls[k].list) \in shown

(* A step keeps ShownBefore when nothing that was shown is forgotten and   *)
(* every approval and every call is as before or of something shown.       *)
LEMMA ShownStep ==
  ASSUME Typed, ShownBefore, shown \subseteq shown',
         trust' # trust /\ trust' # None => Panel(trust') \in shown',
         \A k \in CallIds : calls'[k].op = "approve" =>
           \/ calls'[k].list = calls[k].list /\ calls[k].op = "approve"
           \/ Panel(calls'[k].list) \in shown'
  PROVE  ShownBefore'
  BY DEF ShownBefore, ApprovedWasShown

(* Handlers approve only what they were sent.                              *)
LEMMA ServeShown ==
  ASSUME Typed, ShownBefore, NEW k \in CallIds, Serve(k)
  PROVE  ShownBefore'
<1> USE DEF Typed, Becomes, Return, At
<1>1. calls \in [CallIds -> CallType] /\ UNCHANGED shown
  BY DEF TypeOK, Serve, ReadState, AnswerState, CompareHash, StoreTrust, ClearTrust,
         ReadCommands, CheckTrust, Spawn, SpawnFails, MoveHead, AnnouncePull, tabs
<1>2. calls[k] \in CallType /\ Idle.op = "idle"
  BY <1>1 DEF Idle
<1>a. CASE ReadState(k) \/ ReadCommands(k)
  <2>1. calls' = [calls EXCEPT ![k] = [calls[k] EXCEPT !.list = file, !.pc = "trust"]]
        /\ calls[k].op \in {"look", "run"} /\ UNCHANGED trust
    BY <1>a DEF ReadState, ReadCommands
  <2>2. [calls[k] EXCEPT !.list = file, !.pc = "trust"].op = calls[k].op
    BY <1>2 DEF CallType
  <2> QED
    BY <1>1, <2>1, <2>2, ShownStep
<1>b. CASE AnswerState(k) \/ Spawn(k) \/ SpawnFails(k) \/ AnnouncePull(k)
  BY <1>b, <1>1, <1>2, ShownStep DEF AnswerState, Spawn, SpawnFails, AnnouncePull
<1>c. CASE CompareHash(k) \/ CheckTrust(k) \/ MoveHead(k)
  <2>1. /\ UNCHANGED trust
        /\ \/ calls' = [calls EXCEPT ![k] = Idle]
           \/ \E pc \in {"store", "start", "announce"} :
                calls' = [calls EXCEPT ![k] = [calls[k] EXCEPT !.pc = pc]]
    BY <1>c DEF CompareHash, CheckTrust, MoveHead
  <2>2. \A pc \in {"store", "start", "announce"} :
          /\ [calls[k] EXCEPT !.pc = pc].op = calls[k].op
          /\ [calls[k] EXCEPT !.pc = pc].list = calls[k].list
    BY <1>2 DEF CallType
  <2>3. \A j \in CallIds : calls'[j].op = "approve" =>
          calls'[j].list = calls[j].list /\ calls[j].op = "approve"
    BY <1>1, <1>2, <2>1, <2>2
  <2> QED
    BY <1>1, <2>1, <2>3, ShownStep
<1>d. CASE StoreTrust(k) \/ ClearTrust(k)
  <2>1. PICK list \in Lists \cup {None} :
          SetTrust(k, list, ThenLook(k)) /\ (list # None => Panel(list) \in shown)
    BY <1>d, <1>2 DEF StoreTrust, ClearTrust, CallType, ShownBefore
  <2>2. ThenLook(k).op = "look"
    BY <1>2 DEF ThenLook, CallType
  <2>3. \A j \in CallIds : calls'[j].op = "approve" =>
          calls'[j].list = calls[j].list /\ calls[j].op = "approve"
    BY <1>1, <2>1, <2>2 DEF SetTrust, CallType
  <2> QED
    BY <1>1, <2>1, <2>3, ShownStep DEF SetTrust
<1> QED
  BY <1>a, <1>b, <1>c, <1>d DEF Serve

(* Members approve what they see, and see what they are sent.              *)
LEMMA TabShown ==
  ASSUME Typed, ShownBefore, NEW c \in Clients,
         Press(c) \/ Deliver(c) \/ Disconnect(c) \/ Connect(c)
  PROVE  ShownBefore'
<1> USE DEF Typed
<1>1. calls \in [CallIds -> CallType] /\ screen \in [Clients -> Panels \cup {None}]
  BY DEF TypeOK
<1>2. ASSUME NEW op \in Ops, NEW name, NEW list, Begin(op, c, name, list),
             op = "approve" => Panel(list) = screen[c]
      PROVE  ShownBefore'
  <2>1. PICK k \in CallIds :
          calls' = [calls EXCEPT ![k] =
            [op |-> op, pc |-> "begin", client |-> c, name |-> name, list |-> list,
             vouched |-> IF op = "run" THEN {trust} ELSE {}]]
    BY <1>2 DEF Begin, Becomes
  <2>2. /\ UNCHANGED trust /\ shown \subseteq shown'
        /\ op = "approve" => Panel(list) \in shown'
    BY <1>2 DEF Begin
  <2>3. \A j \in CallIds : calls'[j].op = "approve" =>
          \/ calls'[j].list = calls[j].list /\ calls[j].op = "approve"
          \/ Panel(calls'[j].list) \in shown'
    BY <1>1, <2>1, <2>2
  <2> QED
    BY <2>2, <2>3, ShownStep
<1>3. CASE Press(c)
  <2>1. screen[c] # None => Panel(screen[c].hash) = screen[c]
    BY <1>1, PanelFacts
  <2>2. CASE \E r \in Runs : Cancel(c, r)
    BY <2>2, ShownStep DEF Cancel, tabs
  <2> QED
    BY <1>2, <1>3, <2>1, <2>2 DEF Press, Look, Approve, Withdraw, Run, Pull, Ops
<1>4. CASE Deliver(c)
  BY <1>4, ShownStep DEF Deliver, server
<1>5. CASE Disconnect(c)
  <2>1. \A k \in CallIds : calls'[k].op = calls[k].op /\ calls'[k].list = calls[k].list
    BY <1>1, <1>5 DEF Disconnect, CallType
  <2> QED
    BY <1>5, <2>1, ShownStep DEF Disconnect
<1>6. CASE Connect(c)
  BY <1>1, <1>6, ShownStep DEF Connect, server
<1> QED
  BY <1>3, <1>4, <1>5, <1>6

(* What is approved is a list whose hash, names and argvs a member had on  *)
(* the screen when pressing approve, whatever the file became and however  *)
(* calls, pulls and restarts interleave (repo.trust in ws/dispatch.ts).    *)
(* What the panel does not show of a list (cwd, env, timeoutSeconds,       *)
(* background: RepoCommands.tsx:64-75) nobody need have seen.              *)
THEOREM ApprovedIsShown == Spec => []ApprovedWasShown
<1>1. Init => ShownBefore
  BY DEF Init, ShownBefore, ApprovedWasShown, Idle
<1>2. Typed /\ ShownBefore /\ [Next]_vars => ShownBefore'
  <2> SUFFICES ASSUME Typed, ShownBefore, [Next]_vars PROVE ShownBefore'
    OBVIOUS
  <2>1. ASSUME NEW r \in Runs, Deadline(r) \/ ProcessExits(r) \/ Sigkill(r) \/ OnExit(r)
        PROVE ShownBefore'
    BY <2>1, ShownStep DEF Deadline, ProcessExits, Sigkill, OnExit, tabs
  <2>2. CASE EditFile
    BY <2>2, ShownStep DEF EditFile, server, tabs
  <2>3. CASE Restart
    BY <2>3, ShownStep DEF Restart, Idle
  <2>4. CASE UNCHANGED vars
    BY <2>4, ShownStep DEF vars, server, tabs
  <2> QED
    BY <2>1, <2>2, <2>3, <2>4, ServeShown, TabShown DEF Next
<1>3. ShownBefore => ApprovedWasShown
  BY DEF ShownBefore
<1> QED
  BY <1>1, <1>2, <1>3, TypedInvariant, PTL DEF Spec

-----------------------------------------------------------------------------
(* Runs.  A call has seen every approval since it began, the present one   *)
(* among them, and starts only what one of them covers.                    *)

Vouched ==
  /\ RunsWereApproved
  /\ \A k \in CallIds : calls[k].op = "run" => trust \in calls[k].vouched
  /\ \A k \in CallIds : At(k, "run", "start") =>
       calls[k].list \in calls[k].vouched /\ calls[k].name \in Declares(calls[k].list)

(* No step but Spawn starts a process or changes what one was started for. *)
SameRuns ==
  \A r \in Runs :
    /\ runs'[r].phase # "unused" => runs[r].phase # "unused"
    /\ runs'[r].list = runs[r].list /\ runs'[r].name = runs[r].name
    /\ runs'[r].vouched = runs[r].vouched

(* A step keeps Vouched when the approval and the processes stay, and every *)
(* run call is as before, new, or not about to start anything.             *)
LEMMA VouchedStep ==
  ASSUME Typed, Vouched, SameRuns, UNCHANGED trust,
         \A k \in CallIds : calls'[k].op = "run" =>
           /\ \/ calls[k].op = "run" /\ calls'[k].vouched = calls[k].vouched
              \/ trust \in calls'[k].vouched
           /\ \/ calls'[k].pc # "start"
              \/ /\ At(k, "run", "start")
                 /\ calls'[k].vouched = calls[k].vouched
                 /\ calls'[k].list = calls[k].list /\ calls'[k].name = calls[k].name
  PROVE  Vouched'
  BY DEF Vouched, RunsWereApproved, SameRuns, At

(* What happens to a process that is there does not change what it is for. *)
LEMMA SameRunRecords ==
  ASSUME NEW run \in RunType, NEW next,
         \/ \E reason \in Reasons : next \in {Stopped(run, reason),
              [Stopped(run, reason) EXCEPT !.cancelled = TRUE],
              [Stopped(run, reason) EXCEPT !.timer = FALSE]}
         \/ next = [run EXCEPT !.phase = "dead"] /\ run.phase # "unused"
         \/ next = [run EXCEPT !.phase = "gone"] /\ run.phase # "unused"
         \/ next = [run EXCEPT !.phase = "dead", !.grace = FALSE] /\ run.phase # "unused"
         \/ next = Forgotten(run, "reported") /\ run.phase # "unused"
         \/ next = Outlives(run)
  PROVE  /\ next.phase # "unused" => run.phase # "unused"
         /\ next.list = run.list /\ next.name = run.name /\ next.vouched = run.vouched
<1>1. CASE next = Outlives(run)
  BY <1>1 DEF Outlives, Forgotten, RunType
<1>2. CASE next # Outlives(run)
  BY <1>2 DEF Stopped, Forgotten, RunType
<1> QED
  BY <1>1, <1>2

(* Handlers start only what was vouched for.                               *)
LEMMA ServeVouched ==
  ASSUME Typed, Vouched, NEW k \in CallIds, Serve(k)
  PROVE  Vouched'
<1> USE DEF Typed, Becomes, Return, At
<1>1. calls \in [CallIds -> CallType] /\ calls[k] \in CallType
  BY DEF TypeOK
<1>2. Idle.op = "idle"
  BY DEF Idle
<1>a. CASE ReadState(k) \/ ReadCommands(k)
  <2>1. calls' = [calls EXCEPT ![k] = [calls[k] EXCEPT !.list = file, !.pc = "trust"]]
        /\ UNCHANGED <<runs, trust>>
    BY <1>a DEF ReadState, ReadCommands
  <2>2. /\ [calls[k] EXCEPT !.list = file, !.pc = "trust"].op = calls[k].op
        /\ [calls[k] EXCEPT !.list = file, !.pc = "trust"].pc = "trust"
        /\ [calls[k] EXCEPT !.list = file, !.pc = "trust"].vouched = calls[k].vouched
    BY <1>1 DEF CallType
  <2> QED
    BY <1>1, <2>1, <2>2, VouchedStep DEF SameRuns
<1>b. CASE AnswerState(k) \/ SpawnFails(k) \/ AnnouncePull(k)
  BY <1>b, <1>1, <1>2, VouchedStep DEF AnswerState, SpawnFails, AnnouncePull, SameRuns
<1>c. CASE CompareHash(k) \/ MoveHead(k)
  <2>1. /\ UNCHANGED <<runs, trust>>
        /\ calls[k].op # "run"
        /\ \/ calls' = [calls EXCEPT ![k] = Idle]
           \/ \E pc \in {"store", "announce"} :
                calls' = [calls EXCEPT ![k] = [calls[k] EXCEPT !.pc = pc]]
    BY <1>c DEF CompareHash, MoveHead
  <2>2. \A pc \in {"store", "announce"} : [calls[k] EXCEPT !.pc = pc].op = calls[k].op
    BY <1>1 DEF CallType
  <2> QED
    BY <1>1, <1>2, <2>1, <2>2, VouchedStep DEF SameRuns
<1>d. CASE StoreTrust(k) \/ ClearTrust(k)
  <2>1. PICK list \in Lists \cup {None} : SetTrust(k, list, ThenLook(k)) /\ UNCHANGED runs
    BY <1>d, <1>1 DEF StoreTrust, ClearTrust, CallType
  <2>2. ThenLook(k).op = "look"
    BY <1>1 DEF ThenLook, CallType
  <2>3. \A j \in CallIds : calls'[j].op = "run" =>
          /\ calls[j].op = "run" /\ calls'[j].pc = calls[j].pc
          /\ calls'[j].list = calls[j].list /\ calls'[j].name = calls[j].name
          /\ calls'[j].vouched = calls[j].vouched \cup {list}
    BY <1>1, <2>1, <2>2 DEF SetTrust, CallType
  <2> QED
    BY <2>1, <2>3 DEF Vouched, RunsWereApproved, SetTrust
<1>e. CASE CheckTrust(k)
  <2>1. CASE trust = calls[k].list /\ calls[k].name \in Declares(calls[k].list)
    <3>1. calls' = [calls EXCEPT ![k] = [calls[k] EXCEPT !.pc = "start"]]
          /\ UNCHANGED <<runs, trust>> /\ calls[k].op = "run"
      BY <1>e, <2>1 DEF CheckTrust
    <3>2. \A j \in CallIds :
            /\ calls'[j].op = calls[j].op /\ calls'[j].list = calls[j].list
            /\ calls'[j].name = calls[j].name /\ calls'[j].vouched = calls[j].vouched
            /\ j # k => calls'[j].pc = calls[j].pc
      BY <1>1, <3>1 DEF CallType
    <3> QED
      BY <2>1, <3>1, <3>2 DEF Vouched, RunsWereApproved
  <2>2. CASE ~(trust = calls[k].list /\ calls[k].name \in Declares(calls[k].list))
    BY <1>e, <2>2, <1>1, <1>2, VouchedStep DEF CheckTrust, SameRuns
  <2> QED
    BY <2>1, <2>2
<1>f. CASE Spawn(k)
  <2>1. PICK r \in Runs : runs' = [runs EXCEPT ![r] =
               [Unused EXCEPT !.phase = "running", !.name = calls[k].name,
                              !.list = calls[k].list, !.vouched = calls[k].vouched,
                              !.timer = calls[k].name \notin Services(calls[k].list)]]
    BY <1>f DEF Spawn
  <2>2. /\ runs'[r].list = calls[k].list /\ runs'[r].name = calls[k].name
        /\ runs'[r].vouched = calls[k].vouched
        /\ \A q \in Runs \ {r} : runs'[q] = runs[q]
    BY <2>1 DEF TypeOK, Unused
  <2>3. calls' = [calls EXCEPT ![k] = Idle] /\ UNCHANGED trust
        /\ calls[k].op = "run" /\ calls[k].pc = "start"
    BY <1>f DEF Spawn
  <2> QED
    BY <1>1, <1>2, <2>2, <2>3 DEF Vouched, RunsWereApproved
<1> QED
  BY <1>a, <1>b, <1>c, <1>d, <1>e, <1>f DEF Serve

(* A new run call vouches for the approval it finds; tabs change none.     *)
LEMMA TabVouched ==
  ASSUME Typed, Vouched, NEW c \in Clients,
         Press(c) \/ Deliver(c) \/ Disconnect(c) \/ Connect(c)
  PROVE  Vouched'
<1> USE DEF Typed, At
<1>1. calls \in [CallIds -> CallType]
  BY DEF TypeOK
<1>2. ASSUME NEW op \in Ops, NEW name, NEW list, Begin(op, c, name, list)
      PROVE  Vouched'
  <2>1. PICK k \in CallIds :
          calls' = [calls EXCEPT ![k] =
            [op |-> op, pc |-> "begin", client |-> c, name |-> name, list |-> list,
             vouched |-> IF op = "run" THEN {trust} ELSE {}]]
    BY <1>2 DEF Begin, Becomes
  <2>2. UNCHANGED <<trust, runs>>
    BY <1>2 DEF Begin
  <2> QED
    BY <1>1, <2>1, <2>2, VouchedStep DEF SameRuns
<1>3. CASE \E r \in Runs : Cancel(c, r)
  <2>1. PICK r \in Runs : Cancel(c, r)
    BY <1>3
  <2>2. runs[r] \in RunType /\ "cancelled" \in Reasons
    BY DEF TypeOK, Reasons
  <2> DEFINE next == [Stopped(runs[r], "cancelled") EXCEPT !.cancelled = TRUE]
  <2>3. /\ next.phase # "unused" => runs[r].phase # "unused"
        /\ next.list = runs[r].list /\ next.name = runs[r].name
        /\ next.vouched = runs[r].vouched
    BY <2>2, SameRunRecords
  <2>4. runs' = [runs EXCEPT ![r] = next] \/ UNCHANGED runs
    BY <2>1 DEF Cancel
  <2> HIDE DEF next
  <2>5. SameRuns
    BY <2>3, <2>4 DEF SameRuns, TypeOK
  <2> QED
    BY <2>1, <2>5, VouchedStep DEF Cancel
<1>4. CASE Press(c)
  BY <1>2, <1>3, <1>4 DEF Press, Look, Approve, Withdraw, Run, Pull, Ops
<1>5. CASE Deliver(c) \/ Connect(c)
  BY <1>5, VouchedStep DEF Deliver, Connect, server, SameRuns
<1>6. CASE Disconnect(c)
  <2>1. \A k \in CallIds :
          /\ calls'[k].op = calls[k].op /\ calls'[k].pc = calls[k].pc
          /\ calls'[k].list = calls[k].list /\ calls'[k].name = calls[k].name
          /\ calls'[k].vouched = calls[k].vouched
    BY <1>1, <1>6 DEF Disconnect, CallType
  <2> QED
    BY <1>6, <2>1, VouchedStep DEF Disconnect, SameRuns
<1> QED
  BY <1>4, <1>5, <1>6

(* Nothing that happens to a process changes what it was started for.      *)
LEMMA RunVouched ==
  ASSUME Typed, Vouched,
         \/ \E r \in Runs : Deadline(r) \/ ProcessExits(r) \/ Sigkill(r) \/ OnExit(r)
         \/ Restart
  PROVE  Vouched'
<1> USE DEF Typed
<1>1. ASSUME NEW r \in Runs, Deadline(r) \/ ProcessExits(r) \/ Sigkill(r) \/ OnExit(r)
      PROVE  Vouched'
  <2>1. runs[r] \in RunType /\ runs \in [Runs -> RunType] /\ "timed out" \in Reasons
    BY DEF TypeOK, Reasons
  <2>2. PICK next :
          /\ runs' = [runs EXCEPT ![r] = next]
          /\ \/ next = [Stopped(runs[r], "timed out") EXCEPT !.timer = FALSE]
             \/ next = [runs[r] EXCEPT !.phase = "dead"] /\ runs[r].phase # "unused"
             \/ next = [runs[r] EXCEPT !.phase = "gone"] /\ runs[r].phase # "unused"
             \/ next = [runs[r] EXCEPT !.phase = "dead", !.grace = FALSE]
                /\ runs[r].phase # "unused"
             \/ next = Forgotten(runs[r], "reported") /\ runs[r].phase # "unused"
    BY <1>1, <2>1 DEF Deadline, ProcessExits, Sigkill, OnExit, InActive
  <2>3. /\ next.phase # "unused" => runs[r].phase # "unused"
        /\ next.list = runs[r].list /\ next.name = runs[r].name
        /\ next.vouched = runs[r].vouched
    <3>1. CASE next = [Stopped(runs[r], "timed out") EXCEPT !.timer = FALSE]
      BY <2>1, <3>1, SameRunRecords
    <3>2. CASE next # [Stopped(runs[r], "timed out") EXCEPT !.timer = FALSE]
      BY <2>1, <2>2, <3>2, SameRunRecords
    <3> QED
      BY <3>1, <3>2
  <2>4. SameRuns
    BY <2>1, <2>2, <2>3 DEF SameRuns
  <2> QED
    BY <1>1, <2>4, VouchedStep DEF Deadline, ProcessExits, Sigkill, OnExit, At
<1>2. CASE Restart
  <2>1. \A r \in Runs : runs[r] \in RunType
    BY DEF TypeOK
  <2>2. SameRuns
    BY <1>2, <2>1, SameRunRecords DEF SameRuns, Restart
  <2> QED
    BY <1>2, <2>2, VouchedStep DEF Restart, Idle
<1> QED
  BY <1>1, <1>2

(* A process runs a command of a list that was approved at some moment     *)
(* since the button was pressed (repo.run in ws/dispatch.ts).              *)
THEOREM RunsAreApproved == Spec => []RunsWereApproved
<1>1. Init => Vouched
  BY DEF Init, Vouched, RunsWereApproved, Idle, Unused, At
<1>2. Typed /\ Vouched /\ [Next]_vars => Vouched'
  <2> SUFFICES ASSUME Typed, Vouched, [Next]_vars PROVE Vouched'
    OBVIOUS
  <2>1. CASE EditFile
    BY <2>1, VouchedStep DEF EditFile, server, tabs, SameRuns, At
  <2>2. CASE UNCHANGED vars
    BY <2>2, VouchedStep DEF vars, server, tabs, SameRuns, At
  <2> QED
    BY <2>1, <2>2, ServeVouched, TabVouched, RunVouched DEF Next
<1>3. Vouched => RunsWereApproved
  BY DEF Vouched
<1> QED
  BY <1>1, <1>2, <1>3, TypedInvariant, PTL DEF Spec

-----------------------------------------------------------------------------
(* Stops.  Settled means that CommandRunner is done with the process.      *)

Settled(run) == run.phase \notin {"unused", "running", "dead"}

StopKept(run) ==
  /\ run.cancelled /\ run.phase \in {"running", "dead"} => run.reason # "none"
  /\ run.timer \/ run.reason = "timed out" => run.name \notin Services(run.list)

Tells(all, m) ==
  m.kind = "exit" =>
    /\ Settled(all[m.run])
    /\ m.reason = "none" => ~all[m.run].cancelled
    /\ m.reason = "timed out" => all[m.run].name \notin Services(all[m.run].list)

Shows(run, view) ==
  /\ view = "ended" => Settled(run) /\ ~run.cancelled
  /\ view = "timed out" => Settled(run) /\ run.name \notin Services(run.list)

Told ==
  /\ \A r \in Runs : StopKept(runs[r])
  /\ \A c \in Clients : \A i \in DOMAIN inbox[c] : Tells(runs, inbox[c][i])
  /\ \A c \in Clients, r \in Runs : Shows(runs[r], views[c][r])

(* Once settled, a process is never asked about again.                     *)
Settling(run, next) ==
  /\ StopKept(next)
  /\ Settled(run) => /\ Settled(next) /\ next.cancelled = run.cancelled
                     /\ next.name = run.name /\ next.list = run.list

(* What can happen to a process keeps the reason it was stopped for.       *)
LEMMA StopRecords ==
  ASSUME NEW run \in RunType, StopKept(run), NEW next,
         \/ /\ next = [Stopped(run, "cancelled") EXCEPT !.cancelled = TRUE]
            /\ run.phase \in {"running", "dead"}
         \/ /\ next = [Stopped(run, "timed out") EXCEPT !.timer = FALSE]
            /\ run.phase \in {"running", "dead"} /\ run.timer
         \/ next = [run EXCEPT !.phase = "dead"] /\ run.phase = "running"
         \/ next = [run EXCEPT !.phase = "gone"] /\ run.phase = "orphan"
         \/ /\ next = [run EXCEPT !.phase = "dead", !.grace = FALSE]
            /\ run.phase \in {"running", "dead"}
         \/ next = Forgotten(run, "reported") /\ run.phase = "dead"
         \/ next = Outlives(run)
         \/ next = run
  PROVE  Settling(run, next)
<1> USE DEF RunType, StopKept, Settling, Settled
<1>1. CASE next = Outlives(run)
  BY <1>1 DEF Outlives, Forgotten
<1>2. CASE /\ next = [Stopped(run, "cancelled") EXCEPT !.cancelled = TRUE]
           /\ run.phase \in {"running", "dead"}
  BY <1>2 DEF Stopped
<1>3. CASE /\ next = [Stopped(run, "timed out") EXCEPT !.timer = FALSE]
           /\ run.phase \in {"running", "dead"} /\ run.timer
  BY <1>3 DEF Stopped
<1>4. CASE \/ next = [run EXCEPT !.phase = "dead"] /\ run.phase = "running"
           \/ next = [run EXCEPT !.phase = "gone"] /\ run.phase = "orphan"
           \/ /\ next = [run EXCEPT !.phase = "dead", !.grace = FALSE]
              /\ run.phase \in {"running", "dead"}
  <2>1. /\ next.cancelled = run.cancelled /\ next.timer = run.timer
        /\ next.reason = run.reason /\ next.name = run.name /\ next.list = run.list
    <3>1. CASE next = [run EXCEPT !.phase = "dead"]
      BY <3>1
    <3>2. CASE next = [run EXCEPT !.phase = "gone"]
      BY <3>2
    <3>3. CASE next = [run EXCEPT !.phase = "dead", !.grace = FALSE]
      BY <3>3
    <3> QED
      BY <1>4, <3>1, <3>2, <3>3
  <2>2. \/ next.phase = "dead" /\ run.phase \in {"running", "dead"}
        \/ next.phase = "gone" /\ run.phase = "orphan"
    BY <1>4
  <2> HIDE DEF RunType
  <2> QED
    BY <2>1, <2>2
<1>5. CASE next = Forgotten(run, "reported") /\ run.phase = "dead"
  <2>1. /\ next.timer = FALSE /\ next.reason = "none" /\ next.phase = "reported"
    BY <1>5 DEF Forgotten
  <2> HIDE DEF RunType
  <2> QED
    BY <1>5, <2>1
<1>6. CASE next = run
  BY <1>6
<1> QED
  BY <1>1, <1>2, <1>3, <1>4, <1>5, <1>6

(* A step keeps Told when processes only settle and every message and view *)
(* that is new is true.                                                    *)
LEMMA ToldStep ==
  ASSUME Typed, Told, runs' \in [Runs -> RunType],
         inbox' \in [Clients -> Seq(Message)],
         \A r \in Runs : Settling(runs[r], runs'[r]),
         \A c \in Clients : \A i \in DOMAIN inbox'[c] :
           (\E j \in DOMAIN inbox[c] : inbox'[c][i] = inbox[c][j]) \/ Tells(runs', inbox'[c][i]),
         \A c \in Clients, r \in Runs :
           views'[c][r] = views[c][r] \/ Shows(runs'[r], views'[c][r])
  PROVE  Told'
<1>1. \A r \in Runs : StopKept(runs'[r])
  BY DEF Settling
<1>2. ASSUME NEW c \in Clients, NEW i \in DOMAIN inbox'[c] PROVE Tells(runs', inbox'[c][i])
  <2>1. CASE \E j \in DOMAIN inbox[c] : inbox'[c][i] = inbox[c][j]
    <3>1. inbox'[c][i] \in Message
      BY <1>2
    <3>2. Tells(runs, inbox'[c][i])
      BY <2>1 DEF Told
    <3>3. inbox'[c][i].kind = "exit" => inbox'[c][i].run \in Runs
      BY <3>1, Kinds
    <3> QED
      BY <3>2, <3>3 DEF Tells, Settling
  <2> QED
    BY <1>2, <2>1
<1>3. ASSUME NEW c \in Clients, NEW r \in Runs PROVE Shows(runs'[r], views'[c][r])
  <2>1. Shows(runs[r], views[c][r])
    BY DEF Told
  <2> QED
    BY <2>1 DEF Shows, Settling
<1> QED
  BY <1>1, <1>2, <1>3 DEF Told

(* The messages a response or an event adds.                               *)
LEMMA Sent ==
  ASSUME TypeOK, NEW m \in Message, NEW c \in Clients,
         \/ \E k \in CallIds : Respond(k, m)
         \/ Broadcast(m)
  PROVE  /\ inbox' \in [Clients -> Seq(Message)]
         /\ \/ inbox'[c] = inbox[c]
            \/ /\ DOMAIN inbox[c] = 1..Len(inbox[c]) /\ Len(inbox[c]) \in Nat
               /\ DOMAIN inbox'[c] = 1..(Len(inbox[c]) + 1)
               /\ \A i \in DOMAIN inbox[c] : inbox'[c][i] = inbox[c][i]
               /\ inbox'[c][Len(inbox[c]) + 1] = m
<1>1. inbox[c] \in Seq(Message)
  BY DEF TypeOK
<1>2. inbox' \in [Clients -> Seq(Message)]
  BY RespondTypes, BroadcastTypes
<1>3. inbox'[c] = inbox[c] \/ inbox'[c] = Append(inbox[c], m)
  BY DEF Respond, Broadcast
<1>4. CASE inbox'[c] = Append(inbox[c], m)
  BY <1>1, <1>2, <1>4
<1> QED
  BY <1>2, <1>3, <1>4

(* The messages that are left when one is delivered.                       *)
LEMMA Left ==
  ASSUME NEW s \in Seq(Message), s # <<>>
  PROVE  /\ DOMAIN s = 1..Len(s) /\ Len(s) \in Nat \ {0}
         /\ DOMAIN Tail(s) = 1..(Len(s) - 1)
         /\ \A i \in DOMAIN Tail(s) : Tail(s)[i] = s[i + 1]
         /\ Head(s) = s[1]
  BY HeadTailProperties, LenProperties, EmptySeq

(* A step that leaves processes, messages and views alone.                 *)
LEMMA ToldStays ==
  ASSUME Typed, Told, UNCHANGED <<runs, inbox, views>>
  PROVE  Told'
  BY DEF Told

(* A step that sends a message, which is true, and shows nothing.          *)
LEMMA ToldSent ==
  ASSUME Typed, Told, runs' \in [Runs -> RunType], NEW m \in Message,
         \/ \E k \in CallIds : Respond(k, m)
         \/ Broadcast(m),
         \A r \in Runs : Settling(runs[r], runs'[r]),
         Tells(runs', m), UNCHANGED views
  PROVE  Told'
<1>1. inbox' \in [Clients -> Seq(Message)]
  BY RespondTypes, BroadcastTypes DEF Typed
<1>2. ASSUME NEW c \in Clients, NEW i \in DOMAIN inbox'[c]
      PROVE  (\E j \in DOMAIN inbox[c] : inbox'[c][i] = inbox[c][j]) \/ Tells(runs', inbox'[c][i])
  <2>1. CASE inbox'[c] = inbox[c]
    BY <1>2, <2>1
  <2>2. CASE inbox'[c] # inbox[c]
    <3>1. /\ DOMAIN inbox[c] = 1..Len(inbox[c]) /\ Len(inbox[c]) \in Nat
          /\ DOMAIN inbox'[c] = 1..(Len(inbox[c]) + 1)
          /\ \A j \in DOMAIN inbox[c] : inbox'[c][j] = inbox[c][j]
          /\ inbox'[c][Len(inbox[c]) + 1] = m
      BY <2>2, Sent DEF Typed
    <3>2. i \in DOMAIN inbox[c] \/ i = Len(inbox[c]) + 1
      BY <1>2, <3>1
    <3> QED
      BY <3>1, <3>2
  <2> QED
    BY <2>1, <2>2
<1> QED
  BY <1>1, <1>2, ToldStep

(* A step that changes one process and tells nobody.                       *)
LEMMA ToldRun ==
  ASSUME Typed, Told, NEW r \in Runs, NEW next, Settling(runs[r], next),
         runs' = [runs EXCEPT ![r] = next], UNCHANGED <<inbox, views>>
  PROVE  Told'
<1>1. runs \in [Runs -> RunType]
  BY DEF Typed, TypeOK
<1>2. \A q \in Runs : StopKept(runs'[q])
  BY <1>1 DEF Told, Settling
<1>3. \A q \in Runs : Settled(runs[q]) =>
        /\ Settled(runs'[q]) /\ runs'[q].cancelled = runs[q].cancelled
        /\ runs'[q].name = runs[q].name /\ runs'[q].list = runs[q].list
  BY <1>1 DEF Settling
<1>4. ASSUME NEW c \in Clients, NEW i \in DOMAIN inbox[c] PROVE Tells(runs', inbox[c][i])
  <2>1. inbox[c][i] \in Message
    BY DEF Typed, TypeOK
  <2>2. inbox[c][i].kind = "exit" => inbox[c][i].run \in Runs
    BY <2>1, Kinds
  <2>3. Tells(runs, inbox[c][i])
    BY DEF Told
  <2> QED
    BY <1>3, <2>2, <2>3 DEF Tells
<1>5. \A c \in Clients, q \in Runs : Shows(runs'[q], views[c][q])
  BY <1>3 DEF Told, Shows
<1> QED
  BY <1>2, <1>4, <1>5 DEF Told

(* Handlers start processes and say so; only an exit says how one ended.   *)
LEMMA ServeTold ==
  ASSUME Typed, Told, NEW k \in CallIds, Serve(k)
  PROVE  Told'
<1>1. runs \in [Runs -> RunType] /\ calls[k] \in CallType
  BY DEF Typed, TypeOK
<1>2. \A r \in Runs : Settling(runs[r], runs[r])
  BY <1>1, StopRecords DEF Told
<1>a. CASE \/ ReadState(k) \/ CompareHash(k) \/ StoreTrust(k) \/ ClearTrust(k)
           \/ ReadCommands(k) \/ CheckTrust(k) \/ SpawnFails(k) \/ MoveHead(k)
  BY <1>a, ToldStays DEF ReadState, CompareHash, StoreTrust, ClearTrust, ReadCommands,
                         CheckTrust, SpawnFails, MoveHead, tabs
<1>b. CASE AnswerState(k)
  <2> DEFINE m == [kind |-> "state", list |-> calls[k].list]
  <2>1. m \in Message
    BY <1>b, <1>1 DEF AnswerState, Typed, Answerable, CallType, Message
  <2>2. Tells(runs', m)
    BY DEF Tells
  <2> QED
    BY <1>b, <1>1, <1>2, <2>1, <2>2, ToldSent DEF AnswerState
<1>c. CASE AnnouncePull(k)
  <2> DEFINE m == [kind |-> "changed"]
  <2>1. m \in Message
    BY DEF Message
  <2>2. Tells(runs', m)
    BY DEF Tells
  <2> QED
    BY <1>c, <1>1, <1>2, <2>1, <2>2, ToldSent DEF AnnouncePull
<1>d. CASE Spawn(k)
  <2>1. PICK r \in Runs :
          /\ runs[r].phase = "unused"
          /\ runs' = [runs EXCEPT ![r] =
               [Unused EXCEPT !.phase = "running", !.name = calls[k].name,
                              !.list = calls[k].list, !.vouched = calls[k].vouched,
                              !.timer = calls[k].name \notin Services(calls[k].list)]]
          /\ Respond(k, [kind |-> "started", run |-> r])
    BY <1>d DEF Spawn
  <2> DEFINE m == [kind |-> "started", run |-> r]
  <2>2. m \in Message
    BY DEF Message
  <2>3. Tells(runs', m)
    BY DEF Tells
  <2>4. /\ runs'[r].cancelled = FALSE /\ runs'[r].reason = "none"
        /\ runs'[r].timer <=> calls[k].name \notin Services(calls[k].list)
        /\ runs'[r].name = calls[k].name /\ runs'[r].list = calls[k].list
    BY <1>1, <2>1 DEF Unused
  <2>5. Settling(runs[r], runs'[r])
    BY <2>1, <2>4 DEF Settling, StopKept, Settled
  <2>6. \A q \in Runs : Settling(runs[q], runs'[q])
    BY <1>1, <1>2, <2>1, <2>5
  <2>7. runs' \in [Runs -> RunType] /\ UNCHANGED views
    BY <1>d, ServeTypes DEF Serve, Spawn, Typed, TypeOK
  <2> QED
    BY <2>1, <2>2, <2>3, <2>6, <2>7, ToldSent
<1> QED
  BY <1>a, <1>b, <1>c, <1>d DEF Serve

(* Members stop runs; tabs forget messages or show what they say.          *)
LEMMA TabTold ==
  ASSUME Typed, Told, NEW c \in Clients,
         Press(c) \/ Deliver(c) \/ Disconnect(c) \/ Connect(c)
  PROVE  Told'
<1>1. runs \in [Runs -> RunType] /\ inbox \in [Clients -> Seq(Message)]
      /\ views \in [Clients -> [Runs -> Views]]
  BY DEF Typed, TypeOK
<1>2. \A r \in Runs : Settling(runs[r], runs[r])
  BY <1>1, StopRecords DEF Told
<1>3. Typed'
  BY PressTypes, TabTypes
<1>4. inbox' \in [Clients -> Seq(Message)]
  BY <1>3 DEF Typed, TypeOK
<1>5. CASE Press(c)
  <2>1. ASSUME NEW r \in Runs, Cancel(c, r) PROVE Told'
    <3> DEFINE next == [Stopped(runs[r], "cancelled") EXCEPT !.cancelled = TRUE]
    <3>1. CASE InActive(r)
      <4>1. Settling(runs[r], next)
        BY <1>1, <3>1, StopRecords DEF Told, InActive
      <4>2. runs' = [runs EXCEPT ![r] = next] /\ UNCHANGED <<inbox, views>>
        BY <2>1, <3>1 DEF Cancel, tabs
      <4> HIDE DEF next
      <4> QED
        BY <4>1, <4>2, ToldRun
    <3>2. CASE ~InActive(r)
      BY <2>1, <3>2, ToldStays DEF Cancel, tabs
    <3> QED
      BY <3>1, <3>2
  <2>2. CASE UNCHANGED <<runs, inbox, views>>
    BY <2>2, ToldStays
  <2> QED
    BY <1>5, <2>1, <2>2 DEF Press, Look, Approve, Withdraw, Run, Pull, Begin, tabs
<1>6. CASE Deliver(c)
  <2> DEFINE m == Head(inbox[c])
  <2>1. /\ inbox[c] \in Seq(Message) /\ inbox[c] # <<>>
        /\ inbox' = [inbox EXCEPT ![c] = Tail(inbox[c])]
        /\ UNCHANGED runs /\ Handle(c, m)
    BY <1>1, <1>6 DEF Deliver, server
  <2>2. /\ m \in Message /\ m = inbox[c][1] /\ 1 \in DOMAIN inbox[c]
        /\ DOMAIN Tail(inbox[c]) = 1..(Len(inbox[c]) - 1) /\ Len(inbox[c]) \in Nat
        /\ DOMAIN inbox[c] = 1..Len(inbox[c])
        /\ \A i \in DOMAIN Tail(inbox[c]) : Tail(inbox[c])[i] = inbox[c][i + 1]
    BY <2>1, Left, HeadTailProperties
  <2>3. Tells(runs, m)
    BY <2>2 DEF Told
  <2>4. \A d \in Clients : \A i \in DOMAIN inbox'[d] :
          \E j \in DOMAIN inbox[d] : inbox'[d][i] = inbox[d][j]
    <3>1. \A i \in DOMAIN Tail(inbox[c]) :
            i + 1 \in DOMAIN inbox[c] /\ Tail(inbox[c])[i] = inbox[c][i + 1]
      BY <2>2
    <3> QED
      BY <1>1, <2>1, <3>1
  <2> HIDE DEF m
  <2>5. \A d \in Clients, r \in Runs :
          views'[d][r] = views[d][r] \/ Shows(runs'[r], views'[d][r])
    <3>1. CASE m.kind = "state"
      BY <2>1, <3>1 DEF Handle
    <3>2. CASE m.kind = "started"
      <4>1. views' = [views EXCEPT ![c] = [views[c] EXCEPT ![m.run] = "running"]]
        BY <2>1, <3>2 DEF Handle
      <4> QED
        BY <1>1, <4>1 DEF Shows
    <3>3. CASE m.kind = "exit"
      <4>1. m.run \in Runs /\ m.reason \in Reasons
        BY <2>2, <3>3, Kinds
      <4>2. PICK view :
              /\ views' = [views EXCEPT ![c] = [views[c] EXCEPT ![m.run] = view]]
              /\ view = IF views[c][m.run] = "none" THEN "none"
                        ELSE IF m.reason = "none" THEN "ended" ELSE m.reason
        BY <2>1, <3>3 DEF Handle
      <4>3. Shows(runs[m.run], view)
        BY <2>3, <3>3, <4>1, <4>2 DEF Tells, Shows, Reasons
      <4> QED
        BY <1>1, <2>1, <4>1, <4>2, <4>3
    <3>4. CASE m.kind = "changed"
      <4>1. views' = [views EXCEPT ![c] = NoViews]
        BY <2>1, <3>4 DEF Handle
      <4> QED
        BY <1>1, <4>1 DEF NoViews, Shows
    <3>5. m.kind = "state" \/ m.kind = "started" \/ m.kind = "exit" \/ m.kind = "changed"
      BY <2>2, Kinds
    <3> QED
      BY <3>1, <3>2, <3>3, <3>4, <3>5
  <2> QED
    BY <1>1, <1>2, <1>4, <2>1, <2>4, <2>5, ToldStep
<1>7. CASE Disconnect(c)
  <2>1. inbox' = [inbox EXCEPT ![c] = <<>>] /\ UNCHANGED <<runs, views>>
    BY <1>7 DEF Disconnect
  <2> QED
    BY <1>1, <1>2, <1>4, <2>1, ToldStep
<1>8. CASE Connect(c)
  <2>1. views' = [views EXCEPT ![c] = NoViews] /\ UNCHANGED <<runs, inbox>>
    BY <1>8 DEF Connect, server
  <2>2. \A d \in Clients, r \in Runs :
          views'[d][r] = views[d][r] \/ Shows(runs'[r], views'[d][r])
    BY <1>1, <2>1 DEF NoViews, Shows
  <2> QED
    BY <1>1, <1>2, <1>4, <2>1, <2>2, ToldStep
<1> QED
  BY <1>5, <1>6, <1>7, <1>8

(* Processes end, and their exits are reported with the reason kept.       *)
LEMMA RunTold ==
  ASSUME Typed, Told,
         \/ \E r \in Runs : Deadline(r) \/ ProcessExits(r) \/ Sigkill(r) \/ OnExit(r)
         \/ Restart
  PROVE  Told'
<1>1. runs \in [Runs -> RunType] /\ \A r \in Runs : StopKept(runs[r])
  BY DEF Typed, TypeOK, Told
<1>2. Typed'
  BY RunTypes
<1>3. ASSUME NEW r \in Runs, Deadline(r) \/ ProcessExits(r) \/ Sigkill(r) PROVE Told'
  <2>1. PICK next :
          /\ runs' = [runs EXCEPT ![r] = next]
          /\ \/ /\ next = [Stopped(runs[r], "timed out") EXCEPT !.timer = FALSE]
                /\ runs[r].phase \in {"running", "dead"} /\ runs[r].timer
             \/ next = [runs[r] EXCEPT !.phase = "dead"] /\ runs[r].phase = "running"
             \/ next = [runs[r] EXCEPT !.phase = "gone"] /\ runs[r].phase = "orphan"
             \/ /\ next = [runs[r] EXCEPT !.phase = "dead", !.grace = FALSE]
                /\ runs[r].phase \in {"running", "dead"}
    BY <1>1, <1>3 DEF Deadline, ProcessExits, Sigkill, InActive
  <2>2. Settling(runs[r], next)
    BY <1>1, <2>1, StopRecords
  <2> QED
    BY <1>3, <2>1, <2>2, ToldRun DEF Deadline, ProcessExits, Sigkill, tabs
<1>4. ASSUME NEW r \in Runs, OnExit(r) PROVE Told'
  <2> DEFINE m == [kind |-> "exit", run |-> r, reason |-> runs[r].reason]
  <2>1. runs' = [runs EXCEPT ![r] = Forgotten(runs[r], "reported")]
        /\ runs[r].phase = "dead" /\ Broadcast(m) /\ UNCHANGED views
    BY <1>4 DEF OnExit
  <2>2. m \in Message /\ runs[r] \in RunType
    BY <1>1 DEF Message, RunType
  <2>3. Settling(runs[r], Forgotten(runs[r], "reported"))
    BY <1>1, <2>1, StopRecords
  <2>4. \A q \in Runs : Settling(runs[q], runs[q])
    BY <1>1, StopRecords
  <2>5. \A q \in Runs : Settling(runs[q], runs'[q])
    BY <1>1, <2>1, <2>3, <2>4
  <2>6. runs'[r].phase = "reported" /\ runs'[r].name = runs[r].name
        /\ runs'[r].list = runs[r].list /\ runs'[r].cancelled = runs[r].cancelled
    BY <1>1, <2>1, <2>2 DEF Forgotten, RunType
  <2>7. Tells(runs', m)
    <3>1. StopKept(runs[r])
      BY <1>1
    <3> QED
      BY <2>1, <2>6, <3>1 DEF Tells, StopKept, Settled
  <2>8. runs' \in [Runs -> RunType]
    BY <1>2 DEF Typed, TypeOK
  <2> HIDE DEF m
  <2> QED
    BY <2>1, <2>2, <2>5, <2>7, <2>8, ToldSent
<1>5. CASE Restart
  <2>1. \A r \in Runs : Settling(runs[r], Outlives(runs[r]))
    BY <1>1, StopRecords
  <2>2. /\ runs' = [r \in Runs |-> Outlives(runs[r])]
        /\ inbox' = [c \in Clients |-> <<>>] /\ UNCHANGED views
    BY <1>5 DEF Restart
  <2>3. runs' \in [Runs -> RunType] /\ inbox' \in [Clients -> Seq(Message)]
    BY <1>2 DEF Typed, TypeOK
  <2> QED
    BY <2>1, <2>2, <2>3, ToldStep
<1> QED
  BY <1>3, <1>4, <1>5

(* Whoever stopped a run never sees it end as if by itself, and no service *)
(* is reported to have run out of time, whatever exit, deadline, cancel    *)
(* and lost socket come in which order (stop() and child.exited in         *)
(* git/runner.ts, handleEvent in stores/repoRuns.ts).                      *)
THEOREM StopsAreReported == Spec => []StopIsReported
<1>1. Init => Told
  <2> SUFFICES ASSUME Init PROVE Told
    OBVIOUS
  <2>1. \A r \in Runs : /\ runs[r].cancelled = FALSE /\ runs[r].timer = FALSE
                        /\ runs[r].reason = "none"
    BY DEF Init, Unused
  <2>2. \A r \in Runs : StopKept(runs[r])
    BY <2>1 DEF StopKept
  <2>3. \A c \in Clients : inbox[c] = <<>> /\ \A r \in Runs : views[c][r] = "none"
    BY DEF Init, NoViews
  <2>4. \A c \in Clients : \A i \in DOMAIN inbox[c] : Tells(runs, inbox[c][i])
    BY <2>3
  <2>5. \A c \in Clients, r \in Runs : Shows(runs[r], views[c][r])
    BY <2>3 DEF Shows
  <2> QED
    BY <2>2, <2>4, <2>5 DEF Told
<1>2. Typed /\ Told /\ [Next]_vars => Told'
  <2> SUFFICES ASSUME Typed, Told, [Next]_vars PROVE Told'
    OBVIOUS
  <2>1. CASE EditFile
    BY <2>1, ToldStays DEF EditFile, server, tabs
  <2>2. CASE UNCHANGED vars
    BY <2>2, ToldStays DEF vars, server, tabs
  <2> QED
    BY <2>1, <2>2, ServeTold, TabTold, RunTold DEF Next
<1>3. Told => StopIsReported
  BY DEF Told, Shows, StopIsReported
<1> QED
  BY <1>1, <1>2, <1>3, TypedInvariant, PTL DEF Spec

-----------------------------------------------------------------------------
(* Panels.  Nothing is on its way to a closed socket, and no call answers  *)
(* one.                                                                    *)

Connected ==
  /\ \A c \in Clients \ online : inbox[c] = <<>>
  /\ \A k \in CallIds : calls[k].client # None => calls[k].client \in online

(* A handler answers the client it was called by, or ends.                 *)
LEMMA ServeClients ==
  ASSUME Typed, NEW k \in CallIds, Serve(k)
  PROVE  /\ \A j \in CallIds : calls'[j].client \in {calls[j].client, None}
         /\ UNCHANGED online
<1> USE DEF Becomes, Return
<1>1. calls \in [CallIds -> CallType] /\ calls[k] \in CallType
  BY DEF Typed, TypeOK
<1>2. Idle.client = None
  BY DEF Idle
<1>3. UNCHANGED online
  BY DEF Serve, ReadState, AnswerState, CompareHash, StoreTrust, ClearTrust,
         ReadCommands, CheckTrust, Spawn, SpawnFails, MoveHead, AnnouncePull, tabs
<1>a. CASE ReadState(k) \/ ReadCommands(k)
  <2>1. calls' = [calls EXCEPT ![k] = [calls[k] EXCEPT !.list = file, !.pc = "trust"]]
    BY <1>a DEF ReadState, ReadCommands
  <2>2. [calls[k] EXCEPT !.list = file, !.pc = "trust"].client = calls[k].client
    BY <1>1 DEF CallType
  <2> QED
    BY <1>1, <1>3, <2>1, <2>2
<1>b. CASE \/ CompareHash(k) \/ CheckTrust(k) \/ MoveHead(k)
           \/ AnswerState(k) \/ Spawn(k) \/ SpawnFails(k) \/ AnnouncePull(k)
  <2>1. \/ calls' = [calls EXCEPT ![k] = Idle]
        \/ \E pc \in {"store", "start", "announce"} :
             calls' = [calls EXCEPT ![k] = [calls[k] EXCEPT !.pc = pc]]
    BY <1>b DEF CompareHash, CheckTrust, MoveHead, AnswerState, Spawn, SpawnFails, AnnouncePull
  <2>2. \A pc \in {"store", "start", "announce"} :
          [calls[k] EXCEPT !.pc = pc].client = calls[k].client
    BY <1>1 DEF CallType
  <2> QED
    BY <1>1, <1>2, <1>3, <2>1, <2>2
<1>c. CASE StoreTrust(k) \/ ClearTrust(k)
  <2>1. PICK list : SetTrust(k, list, ThenLook(k))
    BY <1>c DEF StoreTrust, ClearTrust
  <2>2. ThenLook(k).client = calls[k].client
    BY <1>1 DEF ThenLook, CallType
  <2>3. \A j \in CallIds : [calls[j] EXCEPT !.vouched = @ \cup {list}].client = calls[j].client
    BY <1>1 DEF CallType
  <2> QED
    BY <1>1, <1>3, <2>1, <2>2, <2>3 DEF SetTrust
<1> QED
  BY <1>a, <1>b, <1>c DEF Serve

(* Closing a socket empties its queue, and answers go to open ones.        *)
LEMMA ConnectedStep ==
  ASSUME Typed, Connected, [Next]_vars
  PROVE  Connected'
<1> USE DEF Connected
<1>0. calls \in [CallIds -> CallType] /\ inbox \in [Clients -> Seq(Message)]
      /\ online \subseteq Clients
  BY DEF Typed, TypeOK
<1>1. ASSUME NEW k \in CallIds, Serve(k) PROVE Connected'
  <2>1. \A j \in CallIds : calls'[j].client # None => calls'[j].client \in online'
    BY <1>1, ServeClients
  <2>2. \A c \in Clients \ online : inbox'[c] = inbox[c]
    <3>1. ASSUME NEW m, Respond(k, m) PROVE \A c \in Clients \ online : inbox'[c] = inbox[c]
      BY <1>0, <3>1, RepoCommandsAssumption DEF Respond
    <3>2. ASSUME NEW m, Broadcast(m) PROVE \A c \in Clients \ online : inbox'[c] = inbox[c]
      BY <3>2 DEF Broadcast
    <3> QED
      BY <1>1, <3>1, <3>2 DEF Serve, ReadState, AnswerState, CompareHash, StoreTrust,
             ClearTrust, ReadCommands, CheckTrust, Spawn, SpawnFails, MoveHead,
             AnnouncePull, tabs
  <2> QED
    BY <1>1, <2>1, <2>2, ServeClients
<1>2. ASSUME NEW c \in Clients, Press(c) PROVE Connected'
  <2>1. ASSUME NEW op, NEW name, NEW list, Begin(op, c, name, list) PROVE Connected'
    <3>1. PICK k \in CallIds :
            calls' = [calls EXCEPT ![k] =
              [op |-> op, pc |-> "begin", client |-> c, name |-> name, list |-> list,
               vouched |-> IF op = "run" THEN {trust} ELSE {}]]
      BY <2>1 DEF Begin, Becomes
    <3>2. \A j \in CallIds : calls'[j].client \in {calls[j].client, c}
      BY <1>0, <3>1
    <3> QED
      BY <2>1, <3>2 DEF Begin, tabs
  <2>2. ASSUME NEW r \in Runs, Cancel(c, r) PROVE Connected'
    BY <2>2 DEF Cancel, tabs
  <2> QED
    BY <1>2, <2>1, <2>2 DEF Press, Look, Approve, Withdraw, Run, Pull
<1>3. ASSUME NEW c \in Clients, Deliver(c) PROVE Connected'
  BY <1>0, <1>3 DEF Deliver, server
<1>4. ASSUME NEW c \in Clients, Disconnect(c) PROVE Connected'
  <2>1. \A k \in CallIds :
          calls'[k].client = IF calls[k].client = c THEN None ELSE calls[k].client
    BY <1>0, <1>4 DEF Disconnect, CallType
  <2> QED
    BY <1>0, <1>4, <2>1 DEF Disconnect
<1>5. ASSUME NEW c \in Clients, Connect(c) PROVE Connected'
  BY <1>5 DEF Connect, server
<1>6. ASSUME NEW r \in Runs, Deadline(r) \/ ProcessExits(r) \/ Sigkill(r) PROVE Connected'
  BY <1>6 DEF Deadline, ProcessExits, Sigkill, tabs
<1>7. ASSUME NEW r \in Runs, OnExit(r) PROVE Connected'
  BY <1>0, <1>7 DEF OnExit, Broadcast
<1>8. CASE EditFile
  BY <1>8 DEF EditFile, server, tabs
<1>9. CASE Restart
  BY <1>9 DEF Restart, Idle
<1>10. CASE UNCHANGED vars
  BY <1>10 DEF vars, server, tabs
<1> QED
  BY <1>1, <1>2, <1>3, <1>4, <1>5, <1>6, <1>7, <1>8, <1>9, <1>10 DEF Next

(* What is owed to a panel that shows a run as running, or is about to:    *)
(* the process is there, or its exit follows in the queue.                 *)
Going(run) == run.phase \in {"running", "dead"}

ExitAfter(q, i, r) == \E j \in DOMAIN q : j > i /\ q[j].kind = "exit" /\ q[j].run = r

Due ==
  \A c \in online :
    /\ \A i \in DOMAIN inbox[c] : inbox[c][i].kind = "started" =>
         Going(runs[inbox[c][i].run]) \/ ExitAfter(inbox[c], i, inbox[c][i].run)
    /\ \A r \in Runs : views[c][r] = "running" =>
         Going(runs[r]) \/ ExitAfter(inbox[c], 0, r)

(* An exit that follows still does when the queue grows at its end.        *)
LEMMA ExitStays ==
  ASSUME NEW q, NEW p, DOMAIN q \subseteq DOMAIN p, \A i \in DOMAIN q : p[i] = q[i],
         NEW i, NEW r, ExitAfter(q, i, r)
  PROVE  ExitAfter(p, i, r)
  BY DEF ExitAfter

(* A step that ends no run, and shows and sends nothing, leaves what is    *)
(* due.                                                                    *)
LEMMA DueStays ==
  ASSUME Typed, Due, online' \subseteq online,
         \A c \in online' : inbox'[c] = inbox[c] /\ views'[c] = views[c],
         \A r \in Runs : Going(runs[r]) => Going(runs'[r])
  PROVE  Due'
<1> SUFFICES ASSUME NEW c \in online'
             PROVE  /\ \A i \in DOMAIN inbox'[c] : inbox'[c][i].kind = "started" =>
                         Going(runs'[inbox'[c][i].run]) \/ ExitAfter(inbox'[c], i, inbox'[c][i].run)
                    /\ \A r \in Runs : views'[c][r] = "running" =>
                         Going(runs'[r]) \/ ExitAfter(inbox'[c], 0, r)
  BY DEF Due
<1>1. c \in online /\ c \in Clients /\ inbox'[c] = inbox[c] /\ views'[c] = views[c]
  BY DEF Typed, TypeOK
<1>2. ASSUME NEW i \in DOMAIN inbox[c], inbox[c][i].kind = "started"
      PROVE  Going(runs'[inbox[c][i].run]) \/ ExitAfter(inbox[c], i, inbox[c][i].run)
  <2>1. inbox[c][i] \in Message
    BY <1>1 DEF Typed, TypeOK
  <2>2. inbox[c][i].run \in Runs
    BY <1>2, <2>1, Kinds
  <2> QED
    BY <1>1, <1>2, <2>2 DEF Due
<1>3. \A r \in Runs : views[c][r] = "running" => Going(runs'[r]) \/ ExitAfter(inbox[c], 0, r)
  BY <1>1 DEF Due
<1> QED
  BY <1>1, <1>2, <1>3

(* A message that is sent starts a run that goes on; and a run that ends   *)
(* is told to everybody.                                                   *)
LEMMA DueSent ==
  ASSUME Typed, Due, NEW m \in Message, UNCHANGED <<online, views>>,
         \/ /\ \E k \in CallIds : Respond(k, m)
            /\ \A r \in Runs : Going(runs[r]) => Going(runs'[r])
         \/ /\ Broadcast(m)
            /\ \A r \in Runs : Going(runs[r]) =>
                 Going(runs'[r]) \/ (m.kind = "exit" /\ m.run = r),
         m.kind = "started" => Going(runs'[m.run])
  PROVE  Due'
<1> SUFFICES ASSUME NEW c \in online
             PROVE  /\ \A i \in DOMAIN inbox'[c] : inbox'[c][i].kind = "started" =>
                         Going(runs'[inbox'[c][i].run]) \/ ExitAfter(inbox'[c], i, inbox'[c][i].run)
                    /\ \A r \in Runs : views[c][r] = "running" =>
                         Going(runs'[r]) \/ ExitAfter(inbox'[c], 0, r)
  BY DEF Due
<1>1. c \in Clients /\ inbox[c] \in Seq(Message)
  BY DEF Typed, TypeOK
<1>2. /\ DOMAIN inbox[c] = 1..Len(inbox[c]) /\ Len(inbox[c]) \in Nat
      /\ \/ inbox'[c] = inbox[c]
         \/ /\ DOMAIN inbox'[c] = 1..(Len(inbox[c]) + 1)
            /\ \A i \in DOMAIN inbox[c] : inbox'[c][i] = inbox[c][i]
            /\ inbox'[c][Len(inbox[c]) + 1] = m
  BY <1>1, Sent DEF Typed
<1>3. Broadcast(m) => inbox'[c] = Append(inbox[c], m)
  BY <1>1 DEF Broadcast
<1>4. Broadcast(m) => Len(inbox[c]) + 1 \in DOMAIN inbox'[c]
                      /\ inbox'[c][Len(inbox[c]) + 1] = m
  BY <1>1, <1>2, <1>3
<1>5. ASSUME NEW i \in 0..Len(inbox[c]), NEW r \in Runs,
             Going(runs[r]) \/ ExitAfter(inbox[c], i, r)
      PROVE  Going(runs'[r]) \/ ExitAfter(inbox'[c], i, r)
  <2>1. CASE ExitAfter(inbox[c], i, r)
    <3>1. DOMAIN inbox[c] \subseteq DOMAIN inbox'[c]
          /\ \A j \in DOMAIN inbox[c] : inbox'[c][j] = inbox[c][j]
      BY <1>2
    <3> QED
      BY <2>1, <3>1, ExitStays
  <2>2. CASE Going(runs[r]) /\ ~Going(runs'[r])
    <3>1. Broadcast(m) /\ m.kind = "exit" /\ m.run = r
      BY <2>2
    <3>2. Len(inbox[c]) + 1 > i
      BY <1>2, <1>5
    <3> QED
      BY <1>4, <3>1, <3>2 DEF ExitAfter
  <2> QED
    BY <1>5, <2>1, <2>2
<1>6. ASSUME NEW i \in DOMAIN inbox'[c], inbox'[c][i].kind = "started"
      PROVE  Going(runs'[inbox'[c][i].run]) \/ ExitAfter(inbox'[c], i, inbox'[c][i].run)
  <2>1. CASE i \in DOMAIN inbox[c]
    <3>1. inbox'[c][i] = inbox[c][i] /\ inbox[c][i] \in Message
      BY <1>1, <1>2, <2>1
    <3>2. inbox[c][i].run \in Runs
      BY <1>6, <3>1, Kinds
    <3>3. Going(runs[inbox[c][i].run]) \/ ExitAfter(inbox[c], i, inbox[c][i].run)
      BY <1>6, <2>1, <3>1 DEF Due
    <3> QED
      BY <1>2, <1>5, <2>1, <3>1, <3>2, <3>3
  <2>2. CASE i \notin DOMAIN inbox[c]
    BY <1>2, <1>6, <2>2
  <2> QED
    BY <2>1, <2>2
<1>7. ASSUME NEW r \in Runs, views[c][r] = "running"
      PROVE  Going(runs'[r]) \/ ExitAfter(inbox'[c], 0, r)
  <2>1. Going(runs[r]) \/ ExitAfter(inbox[c], 0, r)
    BY <1>7 DEF Due
  <2> QED
    BY <1>2, <1>5, <2>1
<1> QED
  BY <1>6, <1>7

(* Handlers announce a run that goes on.                                   *)
LEMMA ServeDue ==
  ASSUME Typed, Due, NEW k \in CallIds, Serve(k)
  PROVE  Due'
<1>1. runs \in [Runs -> RunType] /\ calls[k] \in CallType
  BY DEF Typed, TypeOK
<1>a. CASE \/ ReadState(k) \/ CompareHash(k) \/ StoreTrust(k) \/ ClearTrust(k)
           \/ ReadCommands(k) \/ CheckTrust(k) \/ SpawnFails(k) \/ MoveHead(k)
  <2>1. UNCHANGED <<online, inbox, views, runs>>
    BY <1>a DEF ReadState, CompareHash, StoreTrust, ClearTrust, ReadCommands,
                CheckTrust, SpawnFails, MoveHead, tabs
  <2> QED
    BY <2>1, DueStays
<1>b. CASE AnswerState(k)
  <2> DEFINE m == [kind |-> "state", list |-> calls[k].list]
  <2>1. m \in Message
    BY <1>b, <1>1 DEF AnswerState, Typed, Answerable, CallType, Message
  <2>2. m.kind # "started" /\ Respond(k, m) /\ UNCHANGED <<online, views, runs>>
    BY <1>b DEF AnswerState
  <2> HIDE DEF m
  <2> QED
    BY <2>1, <2>2, DueSent
<1>c. CASE AnnouncePull(k)
  <2> DEFINE m == [kind |-> "changed"]
  <2>1. m \in Message
    BY DEF Message
  <2>2. m.kind # "started" /\ Broadcast(m) /\ UNCHANGED <<online, views, runs>>
    BY <1>c DEF AnnouncePull
  <2> HIDE DEF m
  <2> QED
    BY <2>1, <2>2, DueSent
<1>d. CASE Spawn(k)
  <2>1. PICK r \in Runs :
          /\ runs[r].phase = "unused"
          /\ runs' = [runs EXCEPT ![r] =
               [Unused EXCEPT !.phase = "running", !.name = calls[k].name,
                              !.list = calls[k].list, !.vouched = calls[k].vouched,
                              !.timer = calls[k].name \notin Services(calls[k].list)]]
          /\ Respond(k, [kind |-> "started", run |-> r])
    BY <1>d DEF Spawn
  <2> DEFINE m == [kind |-> "started", run |-> r]
  <2>2. m \in Message /\ m.kind = "started" /\ m.run = r
    BY DEF Message
  <2>3. runs'[r].phase = "running"
    BY <1>1, <2>1 DEF Unused
  <2>4. Going(runs'[m.run]) /\ \A q \in Runs : Going(runs[q]) => Going(runs'[q])
    BY <1>1, <2>1, <2>2, <2>3 DEF Going
  <2>5. Respond(k, m) /\ UNCHANGED <<online, views>>
    BY <1>d, <2>1 DEF Spawn
  <2> HIDE DEF m
  <2> QED
    BY <2>2, <2>4, <2>5, DueSent
<1> QED
  BY <1>a, <1>b, <1>c, <1>d DEF Serve

(* Tabs show a run as running when it is due, and forget it when they open. *)
LEMMA TabDue ==
  ASSUME Typed, Connected, Due, NEW c \in Clients,
         Press(c) \/ Deliver(c) \/ Disconnect(c) \/ Connect(c)
  PROVE  Due'
<1>1. runs \in [Runs -> RunType] /\ inbox \in [Clients -> Seq(Message)]
      /\ views \in [Clients -> [Runs -> Views]] /\ online \subseteq Clients
  BY DEF Typed, TypeOK
<1>2. CASE Press(c)
  <2>1. UNCHANGED <<online, inbox, views>>
    BY <1>2 DEF Press, Look, Approve, Withdraw, Run, Pull, Begin, Cancel, tabs
  <2>2. ASSUME NEW q \in Runs, Going(runs[q]) PROVE Going(runs'[q])
    <3>1. ASSUME NEW r \in Runs, Cancel(c, r) PROVE Going(runs'[q])
      <4>1. [Stopped(runs[r], "cancelled") EXCEPT !.cancelled = TRUE].phase = runs[r].phase
        BY <1>1 DEF Stopped, RunType
      <4> QED
        BY <1>1, <2>2, <3>1, <4>1 DEF Cancel, Going
    <3>2. CASE UNCHANGED runs
      BY <2>2, <3>2
    <3> QED
      BY <1>2, <3>1, <3>2 DEF Press, Look, Approve, Withdraw, Run, Pull, Begin
  <2> QED
    BY <2>1, <2>2, DueStays
<1>3. CASE Deliver(c)
  <2> DEFINE m == Head(inbox[c])
  <2>1. /\ inbox[c] \in Seq(Message) /\ inbox[c] # <<>>
        /\ inbox' = [inbox EXCEPT ![c] = Tail(inbox[c])]
        /\ UNCHANGED <<runs, online>> /\ Handle(c, m)
    BY <1>1, <1>3 DEF Deliver, server
  <2>2. /\ m \in Message /\ m = inbox[c][1] /\ 1 \in DOMAIN inbox[c]
        /\ DOMAIN Tail(inbox[c]) = 1..(Len(inbox[c]) - 1) /\ Len(inbox[c]) \in Nat
        /\ DOMAIN inbox[c] = 1..Len(inbox[c])
        /\ \A i \in DOMAIN Tail(inbox[c]) : Tail(inbox[c])[i] = inbox[c][i + 1]
    BY <2>1, Left, HeadTailProperties
  <2> HIDE DEF m
  <2>3. \A i \in Nat : \A r : ExitAfter(inbox[c], i + 1, r) => ExitAfter(Tail(inbox[c]), i, r)
    <3> SUFFICES ASSUME NEW i \in Nat, NEW r, NEW j \in DOMAIN inbox[c], j > i + 1,
                        inbox[c][j].kind = "exit", inbox[c][j].run = r
                 PROVE  ExitAfter(Tail(inbox[c]), i, r)
      BY DEF ExitAfter
    <3>1. j - 1 \in DOMAIN Tail(inbox[c]) /\ j - 1 > i /\ (j - 1) + 1 = j
      BY <2>2
    <3> QED
      BY <2>2, <3>1 DEF ExitAfter
  <2>4. \A r \in Runs : ExitAfter(inbox[c], 0, r) =>
          (m.kind = "exit" /\ m.run = r) \/ ExitAfter(Tail(inbox[c]), 0, r)
    <3> SUFFICES ASSUME NEW r \in Runs, NEW j \in DOMAIN inbox[c], j > 0,
                        inbox[c][j].kind = "exit", inbox[c][j].run = r
                 PROVE  (m.kind = "exit" /\ m.run = r) \/ ExitAfter(Tail(inbox[c]), 0, r)
      BY DEF ExitAfter
    <3>1. CASE j = 1
      BY <2>2, <3>1
    <3>2. CASE j # 1
      <4>1. j - 1 \in DOMAIN Tail(inbox[c]) /\ j - 1 > 0 /\ (j - 1) + 1 = j
        BY <2>2, <3>2
      <4> QED
        BY <2>2, <4>1 DEF ExitAfter
    <3> QED
      BY <3>1, <3>2
  <2>5. ASSUME NEW d \in online, NEW i \in DOMAIN inbox'[d], inbox'[d][i].kind = "started"
        PROVE  Going(runs[inbox'[d][i].run]) \/ ExitAfter(inbox'[d], i, inbox'[d][i].run)
    <3>1. CASE d = c
      <4>1. inbox'[c] = Tail(inbox[c]) /\ i \in Nat
        BY <1>1, <2>1, <2>2, <2>5, <3>1
      <4>2. i + 1 \in DOMAIN inbox[c] /\ inbox'[c][i] = inbox[c][i + 1]
        BY <2>2, <2>5, <3>1, <4>1
      <4>3. Going(runs[inbox[c][i + 1].run])
            \/ ExitAfter(inbox[c], i + 1, inbox[c][i + 1].run)
        BY <2>5, <3>1, <4>2 DEF Due
      <4> QED
        BY <2>3, <3>1, <4>1, <4>2, <4>3
    <3>2. CASE d # c
      BY <1>1, <2>1, <2>5, <3>2 DEF Due
    <3> QED
      BY <3>1, <3>2
  <2>6. ASSUME NEW d \in online, NEW r \in Runs, views'[d][r] = "running"
        PROVE  Going(runs[r]) \/ ExitAfter(inbox'[d], 0, r)
    <3>1. CASE d # c
      <4>1. views'[d] = views[d] /\ inbox'[d] = inbox[d]
        BY <1>1, <2>1, <2>2, <3>1, Kinds DEF Handle
      <4> QED
        BY <2>6, <4>1 DEF Due
    <3>2. CASE d = c
      <4>0. inbox'[c] = Tail(inbox[c]) /\ c \in online
        BY <1>1, <2>1, <3>2
      <4>1. CASE m.kind = "started"
        <5>1. m.run \in Runs
                /\ views' = [views EXCEPT ![c] = [views[c] EXCEPT ![m.run] = "running"]]
          BY <2>1, <2>2, <4>1, Kinds DEF Handle
        <5>2. CASE r = m.run
          <6>1. Going(runs[r]) \/ ExitAfter(inbox[c], 0 + 1, r)
            BY <2>2, <4>0, <4>1, <5>2 DEF Due
          <6> QED
            BY <2>3, <3>2, <4>0, <6>1
        <5>3. CASE r # m.run
          <6>1. views[c][r] = "running"
            BY <1>1, <2>6, <3>2, <5>1, <5>3
          <6> QED
            BY <2>4, <3>2, <4>0, <4>1, <6>1 DEF Due
        <5> QED
          BY <5>2, <5>3
      <4>2. CASE m.kind = "exit"
        <5>1. m.run \in Runs /\ m.reason \in Reasons
          BY <2>2, <4>2, Kinds
        <5>2. PICK view :
                /\ views' = [views EXCEPT ![c] = [views[c] EXCEPT ![m.run] = view]]
                /\ view = IF views[c][m.run] = "none" THEN "none"
                          ELSE IF m.reason = "none" THEN "ended" ELSE m.reason
          BY <2>1, <4>2 DEF Handle
        <5>3. view # "running"
          BY <5>1, <5>2 DEF Reasons
        <5>4. r # m.run /\ views[c][r] = "running"
          BY <1>1, <2>6, <3>2, <5>1, <5>2, <5>3
        <5> QED
          BY <2>4, <3>2, <4>0, <5>4 DEF Due
      <4>3. CASE m.kind = "state"
        <5>1. views[c][r] = "running"
          BY <2>1, <2>6, <3>2, <4>3 DEF Handle
        <5> QED
          BY <2>4, <3>2, <4>0, <4>3, <5>1 DEF Due
      <4>4. CASE m.kind = "changed"
        <5>1. views' = [views EXCEPT ![c] = NoViews]
          BY <2>1, <4>4 DEF Handle
        <5> QED
          BY <1>1, <2>6, <3>2, <5>1 DEF NoViews
      <4>5. m.kind = "state" \/ m.kind = "started" \/ m.kind = "exit" \/ m.kind = "changed"
        BY <2>2, Kinds
      <4> QED
        BY <4>1, <4>2, <4>3, <4>4, <4>5
    <3> QED
      BY <3>1, <3>2
  <2> QED
    BY <2>1, <2>5, <2>6 DEF Due
<1>4. CASE Disconnect(c)
  <2>1. online' = online \ {c} /\ \A d \in online' : inbox'[d] = inbox[d] /\ views'[d] = views[d]
    BY <1>1, <1>4 DEF Disconnect
  <2> QED
    BY <1>4, <2>1, DueStays DEF Disconnect
<1>5. CASE Connect(c)
  <2>1. /\ online' = online \cup {c} /\ UNCHANGED <<runs, inbox>>
        /\ views' = [views EXCEPT ![c] = NoViews] /\ inbox[c] = <<>>
    BY <1>5 DEF Connect, server, Connected
  <2>2. \A r \in Runs : views'[c][r] # "running"
    BY <1>1, <2>1 DEF NoViews
  <2>3. \A d \in online \ {c} : views'[d] = views[d]
    BY <1>1, <2>1
  <2>4. DOMAIN inbox[c] = {}
    BY <2>1
  <2> QED
    BY <2>1, <2>2, <2>3, <2>4 DEF Due
<1> QED
  BY <1>2, <1>3, <1>4, <1>5

(* A process that ends is announced to every open socket.                  *)
LEMMA RunDue ==
  ASSUME Typed, Due,
         \/ \E r \in Runs : Deadline(r) \/ ProcessExits(r) \/ Sigkill(r) \/ OnExit(r)
         \/ Restart
  PROVE  Due'
<1>1. runs \in [Runs -> RunType]
  BY DEF Typed, TypeOK
<1>2. ASSUME NEW r \in Runs, Deadline(r) \/ ProcessExits(r) \/ Sigkill(r) PROVE Due'
  <2>1. UNCHANGED <<online, inbox, views>>
    BY <1>2 DEF Deadline, ProcessExits, Sigkill, tabs
  <2>2. [Stopped(runs[r], "timed out") EXCEPT !.timer = FALSE].phase = runs[r].phase
    BY <1>1 DEF Stopped, RunType
  <2>3. \A q \in Runs : Going(runs[q]) => Going(runs'[q])
    <3>1. CASE Deadline(r)
      BY <1>1, <2>2, <3>1 DEF Deadline, Going
    <3>2. CASE ProcessExits(r)
      BY <1>1, <3>2 DEF ProcessExits, Going, RunType
    <3>3. CASE Sigkill(r)
      BY <1>1, <3>3 DEF Sigkill, Going, RunType
    <3> QED
      BY <1>2, <3>1, <3>2, <3>3
  <2> QED
    BY <2>1, <2>3, DueStays
<1>3. ASSUME NEW r \in Runs, OnExit(r) PROVE Due'
  <2> DEFINE m == [kind |-> "exit", run |-> r, reason |-> runs[r].reason]
  <2>1. /\ m \in Message /\ m.kind = "exit" /\ m.run = r
        /\ Broadcast(m) /\ UNCHANGED <<online, views>>
    BY <1>1, <1>3 DEF OnExit, Message, RunType
  <2>2. \A q \in Runs : Going(runs[q]) => Going(runs'[q]) \/ q = r
    BY <1>1, <1>3 DEF OnExit
  <2> HIDE DEF m
  <2> QED
    BY <2>1, <2>2, DueSent
<1>4. CASE Restart
  BY <1>4 DEF Restart, Due
<1> QED
  BY <1>2, <1>3, <1>4

(* A panel that says running is right or will be told, whatever was lost,  *)
(* pulled or restarted in between (child.exited in git/runner.ts, onOpen   *)
(* in Workspace.tsx).                                                      *)
THEOREM RunningIsTrue == Spec => []RunningMeansRunning
<1>1. Init => Connected /\ Due
  <2> SUFFICES ASSUME Init PROVE Connected /\ Due
    OBVIOUS
  <2>1. \A c \in Clients : inbox[c] = <<>> /\ \A r \in Runs : views[c][r] = "none"
    BY DEF Init, NoViews
  <2>2. online = Clients /\ \A k \in CallIds : calls[k].client = None
    BY DEF Init, Idle
  <2>3. ASSUME NEW c \in Clients PROVE DOMAIN inbox[c] = {}
    <3>1. inbox[c] = <<>>
      BY <2>1
    <3> QED
      BY <3>1
  <2> QED
    BY <2>1, <2>2, <2>3 DEF Connected, Due
<1>2. Typed /\ Connected /\ Due /\ [Next]_vars => (Connected /\ Due)'
  <2> SUFFICES ASSUME Typed, Connected, Due, [Next]_vars PROVE (Connected /\ Due)'
    OBVIOUS
  <2>1. CASE EditFile
    <3>1. UNCHANGED <<online, inbox, views, runs>>
      BY <2>1 DEF EditFile, server, tabs
    <3> QED
      BY <3>1, DueStays, ConnectedStep
  <2>2. CASE UNCHANGED vars
    <3>1. UNCHANGED <<online, inbox, views, runs>>
      BY <2>2 DEF vars, server, tabs
    <3> QED
      BY <3>1, DueStays, ConnectedStep
  <2>3. Due'
    BY <2>1, <2>2, ServeDue, TabDue, RunDue DEF Next
  <2> QED
    BY <2>3, ConnectedStep
<1>3. Typed /\ Due => RunningMeansRunning
  <2> SUFFICES ASSUME Typed, Due, NEW c \in online, NEW r \in Runs, views[c][r] = "running"
               PROVE  \/ InActive(r)
                      \/ \E i \in DOMAIN inbox[c] : inbox[c][i].kind = "exit" /\ inbox[c][i].run = r
    BY DEF RunningMeansRunning
  <2> QED
    BY DEF Due, Going, InActive, ExitAfter
<1> QED
  BY <1>1, <1>2, <1>3, TypedInvariant, PTL DEF Spec
=============================================================================
