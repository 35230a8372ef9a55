---------------------------- MODULE ResultStream ----------------------------
(***************************************************************************)
(* How the events of one execution reach the people looking at it: the     *)
(* socket hub (apps/server/src/ws/hub.ts), the point in the message        *)
(* handler where a socket is subscribed (apps/server/src/ws/handler.ts)    *)
(* and the client's executions store (apps/web/src/stores/executions.ts).  *)
(*                                                                         *)
(* The server emits a fixed Stream of topics, one result set long, and the *)
(* events are known by their sequence numbers.  Lifecycle events go to     *)
(* every socket of the workspace, row batches to subscribed sockets only.  *)
(* A socket is a FIFO channel that loses what it holds when it closes.  The *)
(* registry forgets the execution some time after its end, or with the     *)
(* process, and a client gives up a request that is not answered in time.  *)
(***************************************************************************)
EXTENDS Integers, Sequences, FiniteSets

CONSTANTS
  Clients,         \* browsers with a socket in the workspace
  Starter,         \* the one that runs the query
  Stream,          \* the topics of the execution, in order
  RowEventBuffer,  \* ROW_EVENT_BUFFER of the registry
  EarlyCap,        \* events buffered for an execution not yet known
  MaxOpens,        \* bound: times a client opens the execution from history
  MaxFaults        \* bound: sockets lost, restarts of the server and requests given up

Topics == {"started", "columns", "rows", "progress", "completed", "failed", "cancelled"}

ASSUME ConstantsAssumption ==
  /\ Starter \in Clients
  /\ Stream \in Seq(Topics)
  /\ {RowEventBuffer, EarlyCap, MaxOpens, MaxFaults} \subseteq Nat

\* A session sends the columns of a result set before its rows.
ASSUME ColumnsFirst ==
  \A n \in 1..Len(Stream) :
    Stream[n] = "rows" => \E m \in 1..(n - 1) : Stream[m] = "columns"

VARIABLES
  emitted,     \* how many events the registry has buffered and emitted
  forgotten,   \* the registry has no record of the execution
  subscribed,  \* hub.executionSubscribers of the execution
  connected,   \* hub.sockets
  request,     \* what each client has asked and the server not answered
  late,        \* requests given up that the server has still to carry out
  channel,     \* messages on their way to each client
  view,        \* executions[id] of each client's store
  early,       \* earlyEvents[id] of each client's store
  mishaps,     \* what has gone wrong for the starter so far
  opens,
  faults

vars == <<emitted, forgotten, subscribed, connected, request, late, channel, view, early,
          mishaps, opens, faults>>

-----------------------------------------------------------------------------

Numbers  == 1..Len(Stream)
IsRows(n) == Stream[n] = "rows"

Statuses == {"queued", "running", "succeeded", "failed", "cancelled"}
Unknown  == [known |-> FALSE, status |-> "queued", rows |-> <<>>, progress |-> 0]
Queued   == [Unknown EXCEPT !.known = TRUE]

Messages == [kind : {"event"}, number : Numbers]
              \cup [kind : {"response", "refusal", "ignored"}]
              \cup [kind : {"replay"}, events : Seq(Numbers)]

TypeOK ==
  /\ emitted \in 0..Len(Stream)
  /\ forgotten \in BOOLEAN
  /\ subscribed \subseteq Clients
  /\ connected \subseteq Clients
  /\ request \in [Clients -> {"none", "start", "subscribe"}]
  /\ late \subseteq Clients \X {"start", "subscribe"}
  /\ channel \in [Clients -> Seq(Messages)]
  /\ view \in [Clients -> [known : BOOLEAN, status : Statuses, rows : Seq(Numbers), progress : Nat]]
  /\ early \in [Clients -> Seq(Numbers)]
  /\ mishaps \subseteq {"socket", "refusal", "start", "open"}
  /\ opens \in 0..MaxOpens
  /\ faults \in 0..MaxFaults

(* Nothing is emitted before somebody starts the execution: emission is    *)
(* enabled by the starter's request having reached the registry.           *)
Init ==
  /\ emitted = 0
  /\ forgotten = FALSE
  /\ subscribed = {}
  /\ connected = Clients
  /\ request = [c \in Clients |-> IF c = Starter THEN "start" ELSE "none"]
  /\ late = {}
  /\ channel = [c \in Clients |-> <<>>]
  /\ view = [c \in Clients |-> Unknown]
  /\ early = [c \in Clients |-> <<>>]
  /\ mishaps = {}
  /\ opens = 0
  /\ faults = 0

(* A mishap of the starter is remembered.                                  *)
Mishap(c, what) == mishaps' = IF c = Starter THEN mishaps \cup {what} ELSE mishaps

-----------------------------------------------------------------------------
(* The server                                                              *)

SendTo(receivers, message) ==
  channel' = [c \in Clients |-> IF c \in receivers THEN Append(channel[c], message) ELSE channel[c]]

(* Mutant: row batches go to every socket of the workspace.                *)
ReceiversAll(n) == connected

(* broadcastExecution                                                      *)
Receivers(n) == IF IsRows(n) THEN subscribed \cap connected ELSE connected

Emit ==
  /\ ~forgotten
  /\ emitted < Len(Stream)
  /\ emitted' = emitted + 1
  /\ SendTo(Receivers(emitted + 1), [kind |-> "event", number |-> emitted + 1])
  /\ UNCHANGED <<forgotten, subscribed, connected, request, late, view, early, mishaps, opens,
                 faults>>

(* The record is deleted a while after the execution has ended.            *)
Expire ==
  /\ ~forgotten
  /\ emitted = Len(Stream)
  /\ forgotten' = TRUE
  /\ UNCHANGED <<emitted, subscribed, connected, request, late, channel, view, early, mishaps,
                 opens, faults>>

(* replay(..., 0): what bufferEvent has kept of the events so far.         *)
Buffered(n) ==
  IsRows(n) => Cardinality({m \in (n + 1)..emitted : IsRows(m)}) < RowEventBuffer

Replay ==
  LET upTo[n \in 0..emitted] ==
        IF n = 0 THEN <<>> ELSE IF Buffered(n) THEN Append(upTo[n - 1], n) ELSE upTo[n - 1]
  IN  upTo[emitted]

(* dispatch() has returned: the start ran, and its response was stored     *)
(* under the idempotency key, while the execution was already under way.   *)
(* Only now is the socket subscribed, and the response sent.               *)
RespondStart ==
  /\ request[Starter] = "start"
  /\ Starter \in connected
  /\ request' = [request EXCEPT ![Starter] = "none"]
  /\ subscribed' = subscribed \cup {Starter}
  /\ SendTo({Starter}, [kind |-> "response"])
  /\ UNCHANGED <<emitted, forgotten, connected, late, view, early, mishaps, opens,
                 faults>>

(* execution.subscribe reads nothing from a database: the replay, the      *)
(* subscription and the response are one turn of the event loop.           *)
RespondSubscribe(c) ==
  /\ request[c] = "subscribe"
  /\ c \in connected
  /\ ~forgotten
  /\ request' = [request EXCEPT ![c] = "none"]
  /\ subscribed' = subscribed \cup {c}
  /\ SendTo({c}, [kind |-> "replay", events |-> Replay])
  /\ UNCHANGED <<emitted, forgotten, connected, late, view, early, mishaps, opens,
                 faults>>

(* ... or NotFound, when there is no record to replay.                     *)
RefuseSubscribe(c) ==
  /\ request[c] = "subscribe"
  /\ c \in connected
  /\ forgotten
  /\ request' = [request EXCEPT ![c] = "none"]
  /\ SendTo({c}, [kind |-> "refusal"])
  /\ Mishap(c, "refusal")
  /\ UNCHANGED <<emitted, forgotten, subscribed, connected, late, view, early, opens, faults>>

(* A request whose client has given it up is carried out all the same: the *)
(* socket is subscribed, and nobody waits for the answer.                  *)
CarryOutLate(c, what) ==
  /\ <<c, what>> \in late
  /\ late' = late \ {<<c, what>>}
  /\ subscribed' = IF what = "start" \/ ~forgotten THEN subscribed \cup {c} ELSE subscribed
  /\ UNCHANGED <<emitted, forgotten, connected, request, channel, view, early, mishaps, opens,
                 faults>>

-----------------------------------------------------------------------------
(* The client's store                                                      *)

(* Mutant: the columns of a result set do not start it over.               *)
ApplyKeepingRows(v, n) ==
  CASE Stream[n] = "started"   -> [v EXCEPT !.status = "running"]
    [] Stream[n] = "columns"   -> v
    [] Stream[n] = "rows"      -> [v EXCEPT !.rows = Append(@, n)]
    [] Stream[n] = "progress"  -> [v EXCEPT !.progress = @ + 1]
    [] Stream[n] = "completed" -> [v EXCEPT !.status = "succeeded"]
    [] OTHER                   -> [v EXCEPT !.status = Stream[n]]

(* applyEvent: no look at the sequence number.                             *)
Apply(v, n) ==
  CASE Stream[n] = "started"   -> [v EXCEPT !.status = "running"]
    [] Stream[n] = "columns"   -> [v EXCEPT !.rows = <<>>]
    [] Stream[n] = "rows"      -> [v EXCEPT !.rows = Append(@, n)]
    [] Stream[n] = "progress"  -> [v EXCEPT !.progress = @ + 1]
    [] Stream[n] = "completed" -> [v EXCEPT !.status = "succeeded"]
    [] OTHER                   -> [v EXCEPT !.status = Stream[n]]

ApplyAll(v, numbers) ==
  LET after[i \in 0..Len(numbers)] ==
        IF i = 0 THEN v ELSE Apply(after[i - 1], numbers[i])
  IN  after[Len(numbers)]

Take(c) == channel' = [channel EXCEPT ![c] = Tail(@)]

(* Mutant: events of an execution not yet known are dropped.               *)
ReceiveKnownEvent(c) ==
  /\ channel[c] # <<>> /\ Head(channel[c]).kind = "event"
  /\ view' = [view EXCEPT ![c] = IF @.known THEN Apply(@, Head(channel[c]).number) ELSE @]
  /\ Take(c)
  /\ UNCHANGED <<emitted, forgotten, subscribed, connected, request, late, early, mishaps, opens,
                 faults>>

(* handleEvent                                                             *)
ReceiveEvent(c) ==
  /\ channel[c] # <<>> /\ Head(channel[c]).kind = "event"
  /\ LET n == Head(channel[c]).number
     IN  IF view[c].known
         THEN /\ view' = [view EXCEPT ![c] = Apply(@, n)]
              /\ UNCHANGED early
         ELSE /\ early' = [early EXCEPT ![c] = IF Len(@) < EarlyCap THEN Append(@, n) ELSE @]
              /\ UNCHANGED view
  /\ Take(c)
  /\ UNCHANGED <<emitted, forgotten, subscribed, connected, request, late, mishaps, opens,
                 faults>>

(* Mutant: the early events are not drained.                               *)
ReceiveResponseOnly(c) ==
  /\ channel[c] # <<>> /\ Head(channel[c]).kind = "response"
  /\ view' = [view EXCEPT ![c] = Queued]
  /\ early' = [early EXCEPT ![c] = <<>>]
  /\ Take(c)
  /\ UNCHANGED <<emitted, forgotten, subscribed, connected, request, late, mishaps, opens,
                 faults>>

(* run(): the execution is registered, then the early events are drained.  *)
ReceiveResponse(c) ==
  /\ channel[c] # <<>> /\ Head(channel[c]).kind = "response"
  /\ view' = [view EXCEPT ![c] = ApplyAll(Queued, early[c])]
  /\ early' = [early EXCEPT ![c] = <<>>]
  /\ Take(c)
  /\ UNCHANGED <<emitted, forgotten, subscribed, connected, request, late, mishaps, opens,
                 faults>>

(* openSharedExecution: a placeholder, then the request.                   *)
Open(c) ==
  /\ opens < MaxOpens
  /\ c \in connected
  /\ request[c] = "none"
  /\ opens' = opens + 1
  /\ request' = [request EXCEPT ![c] = "subscribe"]
  /\ view' = [view EXCEPT ![c] = IF @.known THEN @ ELSE Queued]
  /\ UNCHANGED <<emitted, forgotten, subscribed, connected, late, channel, early, mishaps, faults>>

(* ... and its answer: the replay, then the early events.                  *)
ReceiveReplay(c) ==
  /\ channel[c] # <<>> /\ Head(channel[c]).kind = "replay"
  /\ view' = [view EXCEPT ![c] = ApplyAll(@, Head(channel[c]).events \o early[c])]
  /\ early' = [early EXCEPT ![c] = <<>>]
  /\ Take(c)
  /\ UNCHANGED <<emitted, forgotten, subscribed, connected, request, late, mishaps, opens,
                 faults>>

(* A refusal shows as failed, whatever has become of the execution.        *)
ReceiveRefusal(c) ==
  /\ channel[c] # <<>> /\ Head(channel[c]).kind = "refusal"
  /\ view' = [view EXCEPT ![c].status = IF view[c].known THEN "failed" ELSE @]
  /\ Take(c)
  /\ UNCHANGED <<emitted, forgotten, subscribed, connected, request, late, early, mishaps, opens,
                 faults>>

(* The answer to a request that is no longer pending.                      *)
ReceiveIgnored(c) ==
  /\ channel[c] # <<>> /\ Head(channel[c]).kind = "ignored"
  /\ Take(c)
  /\ UNCHANGED <<emitted, forgotten, subscribed, connected, request, late, view, early, mishaps,
                 opens, faults>>

(* The client gives up a start: a run error of the document, no execution. *)
(* It gives up an opening: the execution shows as failed.                  *)
GiveUp(c, what) ==
  /\ faults < MaxFaults
  /\ faults' = faults + 1
  /\ Mishap(c, what)
  /\ view' = [view EXCEPT ![c].status = IF what = "open" THEN "failed" ELSE @]
  /\ UNCHANGED <<emitted, forgotten, subscribed, connected, early, opens>>

(* After REQUEST_TIMEOUT_MS, the socket being open: the server has not     *)
(* answered yet, ...                                                       *)
TimeOutUnanswered(c) ==
  /\ c \in connected
  /\ request[c] # "none"
  /\ GiveUp(c, IF request[c] = "start" THEN "start" ELSE "open")
  /\ request' = [request EXCEPT ![c] = "none"]
  /\ late' = late \cup {<<c, request[c]>>}
  /\ UNCHANGED channel

(* ... or its answer is on the way, and will be ignored.                   *)
TimeOutAnswered(c) ==
  \E i \in 1..Len(channel[c]) :
    /\ channel[c][i].kind \in {"response", "replay", "refusal"}
    /\ GiveUp(c, IF channel[c][i].kind = "response" THEN "start" ELSE "open")
    /\ channel' = [channel EXCEPT ![c][i] = [kind |-> "ignored"]]
    /\ UNCHANGED <<request, late>>

-----------------------------------------------------------------------------
(* The socket                                                              *)

(* The client waits for an answer to its subscription.                     *)
Opening(c) ==
  \/ request[c] = "subscribe"
  \/ \E i \in 1..Len(channel[c]) : channel[c][i].kind \in {"replay", "refusal"}

(* Sockets close: the hub forgets them, and their pending requests are     *)
(* rejected; a subscription that is rejected shows as failed.              *)
CloseSockets(closed) ==
  /\ faults < MaxFaults
  /\ faults' = faults + 1
  /\ connected' = connected \ closed
  /\ subscribed' = subscribed \ closed
  /\ channel' = [c \in Clients |-> IF c \in closed THEN <<>> ELSE channel[c]]
  /\ request' = [c \in Clients |-> IF c \in closed THEN "none" ELSE request[c]]
  /\ late' = {l \in late : l[1] \notin closed}
  /\ view' = [c \in Clients |-> IF c \in closed /\ Opening(c)
                               THEN [view[c] EXCEPT !.status = "failed"]
                               ELSE view[c]]
  /\ mishaps' = IF Starter \in closed THEN mishaps \cup {"socket"} ELSE mishaps
  /\ UNCHANGED <<emitted, early, opens>>

Disconnect(c) == c \in connected /\ CloseSockets({c}) /\ UNCHANGED forgotten

(* The server starts again: every socket closes, and the registry is empty.*)
Restart == CloseSockets(Clients) /\ forgotten' = TRUE

(* It opens again, and the workspace resets the executions store.          *)
Reconnect(c) ==
  /\ c \notin connected
  /\ connected' = connected \cup {c}
  /\ view' = [view EXCEPT ![c] = Unknown]
  /\ early' = [early EXCEPT ![c] = <<>>]
  /\ UNCHANGED <<emitted, forgotten, subscribed, request, late, channel, mishaps, opens,
                 faults>>

-----------------------------------------------------------------------------

Receive(c) ==
  \/ ReceiveEvent(c) \/ ReceiveResponse(c) \/ ReceiveReplay(c)
  \/ ReceiveRefusal(c) \/ ReceiveIgnored(c)

AnswerSubscribe(c) == RespondSubscribe(c) \/ RefuseSubscribe(c)

Next ==
  \/ Emit \/ Expire \/ RespondStart \/ Restart
  \/ \E c \in Clients :
       \/ AnswerSubscribe(c) \/ \E what \in {"start", "subscribe"} : CarryOutLate(c, what)
       \/ Receive(c) \/ Open(c) \/ TimeOutUnanswered(c) \/ TimeOutAnswered(c)
       \/ Disconnect(c) \/ Reconnect(c)

Spec == Init /\ [][Next]_vars

(* The execution ends, the server answers, an open socket delivers, and a  *)
(* closed one is opened again a second later.                              *)
FairSpec ==
  /\ Spec
  /\ WF_vars(Emit)
  /\ WF_vars(RespondStart)
  /\ \A c \in Clients :
       WF_vars(AnswerSubscribe(c)) /\ WF_vars(Receive(c)) /\ WF_vars(Reconnect(c))

-----------------------------------------------------------------------------
(* Properties                                                              *)

(* The client has nothing left to receive about an execution it shows.     *)
CaughtUp(c) ==
  /\ c \in connected
  /\ view[c].known
  /\ request[c] = "none"
  /\ channel[c] = <<>>

StatusAt(n) == ApplyAll(Queued, [m \in 1..n |-> m]).status

(* A row batch is shown at most once and never before an older one, even   *)
(* when an execution is opened again while its rows still arrive, and when *)
(* a starter that gave up its start is sent batches of an execution it     *)
(* does not know: what a replay, the early events and the live ones bring  *)
(* twice is shown once.                                                    *)
RowsInOrder ==
  \A c \in Clients :
    \A i, j \in 1..Len(view[c].rows) : i < j => view[c].rows[i] < view[c].rows[j]

(* "Row payloads are sent only to clients subscribed" (multiplayer.md 6d): *)
(* a socket that has not asked since it connected is sent no batch.        *)
RowsForSubscribers ==
  \A c \in Clients :
    \A i \in 1..Len(channel[c]) :
      channel[c][i].kind = "event" /\ IsRows(channel[c][i].number) => c \in subscribed

(* The starter, on the socket it started the execution with, has caught up *)
(* and shows the status the execution has: no event that raced the         *)
(* response of its own start, or its opening of the execution from         *)
(* history, was lost or applied out of turn.  It excepts a starter whose   *)
(* opening the registry refused, and one that gave up a request.           *)
StarterShowsTheStatus ==
  mishaps = {} /\ CaughtUp(Starter) => view[Starter].status = StatusAt(emitted)

(* Whoever starts an execution, keeps the socket, and has every request    *)
(* answered in time and none refused, sees it end.                         *)
StarterSeesTheEnd ==
  <>(view[Starter].status \in {"succeeded", "failed", "cancelled"} \/ mishaps # {})
=============================================================================
