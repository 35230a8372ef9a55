---------------------------- MODULE RepoCommands ----------------------------
(***************************************************************************)
(* The commands a checkout declares in .datagripe/run.yaml: who approved   *)
(* which list, the processes that run them, and the run a panel shows      *)
(* (apps/server/src/git/commands.ts and runner.ts, the repo.* and git.pull *)
(* handlers of ws/dispatch.ts, apps/web/src/stores/repoRuns.ts).           *)
(*                                                                         *)
(* A list stands for its hash, which covers all that an approval is about: *)
(* names, argvs, cwd, env, timeouts and what is a service.  A panel shows  *)
(* only names and argvs, so two lists may look alike.  One datasource,     *)
(* whose clients all have the capability; every command names a cwd, so    *)
(* that starting it awaits once more.  Output, descriptions, the exit code,*)
(* a run.yaml that cannot be read and the processes a command starts of    *)
(* its own are left out.                                                   *)
(***************************************************************************)
EXTENDS Integers, Sequences

CONSTANTS
  Clients,     \* tabs of members who may run commands
  Lists,       \* contents of run.yaml
  Names,       \* names of commands
  Argvs,       \* what a command runs
  Commands,    \* the commands a list declares
  Runs,        \* run ids
  None,        \* no list, no client
  MaxCalls,    \* bound: handlers awaiting at once
  MaxRequests, \* bound: requests sent
  MaxChanges,  \* bound: edits of the file and pulls that move HEAD
  MaxStops     \* bound: sockets that drop and restarts of the server

(* background stands for all the hash covers and no panel shows.           *)
Command == [name : Names, argv : Argvs, background : BOOLEAN]
Declares(list) == {d.name : d \in Commands[list]}
Services(list) == {d.name : d \in {e \in Commands[list] : e.background}}

(* What a panel keeps of the list it was sent: the hash it will send back, *)
(* and the lines it shows (RepoCommands.tsx:64-75).                        *)
Panel(list) == [hash |-> list, rows |-> {<<d.name, d.argv>> : d \in Commands[list]}]
Panels == {Panel(list) : list \in Lists}

ASSUME RepoCommandsAssumption ==
  /\ Commands \in [Lists -> SUBSET Command]
  /\ None \notin Clients \cup Lists \cup Names \cup Panels
  /\ MaxCalls \in Nat \ {0}
  /\ {MaxRequests, MaxChanges, MaxStops} \subseteq Nat

VARIABLES
  file,    \* the list in the work tree
  trust,   \* git_datasource_trust: the approved list, or None
  calls,   \* the handlers that await
  runs,    \* run id -> its process and what CommandRunner keeps of it
  online,  \* clients whose socket is open
  inbox,   \* client -> responses and events on their way, in order
  screen,  \* client -> what its panel shows, or None
  views,   \* client -> run id -> what the run panel says of it
  shown,   \* history: what somebody had on the screen who approved it
  count    \* how often each bounded thing has happened

server == <<trust, calls, runs>>
tabs == <<online, inbox, screen, views, shown>>
vars == <<file, server, tabs, count>>

-----------------------------------------------------------------------------

CallIds == 1..MaxCalls
Ops == {"idle", "look", "approve", "withdraw", "run", "pull"}
Reasons == {"none", "cancelled", "timed out"}
Views == {"none", "running", "ended", "cancelled", "timed out"}
Bounded == {"requests", "changes", "stops"}

(* list is the hash the client sent (approve) or the list a handler read;  *)
(* vouched, the lists that were the approved one at some moment since the  *)
(* call began, is a history field.                                         *)
CallType == [op : Ops, pc : {"begin", "store", "trust", "start", "announce"},
             client : Clients \cup {None}, name : Names \cup {None},
             list : Lists \cup {None}, vouched : SUBSET (Lists \cup {None})]

(* A process is running or dead until child.exited has been handled, then  *)
(* reported; one that outlives its server is an orphan, and gone at last.  *)
(* timer and grace are the two timeouts; reason stands for killed as well. *)
(* cancelled, that somebody was told the run is stopped, and vouched are   *)
(* history fields.                                                         *)
RunType == [phase : {"unused", "running", "dead", "reported", "orphan", "gone"},
            name : Names \cup {None}, list : Lists \cup {None},
            timer : BOOLEAN, grace : BOOLEAN, reason : Reasons,
            cancelled : BOOLEAN, vouched : SUBSET (Lists \cup {None})]

Message == [kind : {"state"}, list : Lists]
           \cup [kind : {"started"}, run : Runs]
           \cup [kind : {"exit"}, run : Runs, reason : Reasons]
           \cup [kind : {"changed"}]

Idle == [op |-> "idle", pc |-> "begin", client |-> None, name |-> None, list |-> None,
         vouched |-> {}]
Unused == [phase |-> "unused", name |-> None, list |-> None, timer |-> FALSE,
           grace |-> FALSE, reason |-> "none", cancelled |-> FALSE, vouched |-> {}]
NoViews == [r \in Runs |-> "none"]

TypeOK ==
  /\ file \in Lists
  /\ trust \in Lists \cup {None}
  /\ calls \in [CallIds -> CallType]
  /\ runs \in [Runs -> RunType]
  /\ online \subseteq Clients
  /\ inbox \in [Clients -> Seq(Message)]
  /\ screen \in [Clients -> Panels \cup {None}]
  /\ views \in [Clients -> [Runs -> Views]]
  /\ shown \subseteq Panels
  /\ count \in [Bounded -> Nat]

(* The approval may be of another day, and of another list than the file's. *)
Init ==
  /\ file \in Lists
  /\ trust \in Lists \cup {None}
  /\ calls = [k \in CallIds |-> Idle]
  /\ runs = [r \in Runs |-> Unused]
  /\ online = Clients
  /\ inbox = [c \in Clients |-> <<>>]
  /\ screen = [c \in Clients |-> None]
  /\ views = [c \in Clients |-> NoViews]
  /\ shown = {Panel(list) : list \in {trust} \ {None}}
  /\ count = [b \in Bounded |-> 0]

-----------------------------------------------------------------------------

Count(b, max) == count[b] < max /\ count' = [count EXCEPT ![b] = @ + 1]

At(k, op, pc) == calls[k].op = op /\ calls[k].pc = pc
Becomes(k, call) == calls' = [calls EXCEPT ![k] = call]
Return(k) == Becomes(k, Idle)

(* A response goes to the socket that asked, if it is still open.          *)
Respond(k, message) ==
  inbox' = [c \in Clients |->
              IF c = calls[k].client THEN Append(inbox[c], message) ELSE inbox[c]]
Broadcast(message) ==
  inbox' = [c \in Clients |-> IF c \in online THEN Append(inbox[c], message) ELSE inbox[c]]

(* The approval changes, under the eyes of every call that is running.     *)
SetTrust(k, list, next) ==
  /\ trust' = list
  /\ calls' = [j \in CallIds |->
                 IF j = k THEN next
                 ELSE IF calls[j].op = "run" THEN [calls[j] EXCEPT !.vouched = @ \cup {list}]
                 ELSE calls[j]]

(* A member who approves has what is approved on the screen.               *)
Begin(op, c, name, list) ==
  /\ c \in online
  /\ Count("requests", MaxRequests)
  /\ \E k \in CallIds :
       /\ calls[k].op = "idle"
       /\ Becomes(k, [op |-> op, pc |-> "begin", client |-> c, name |-> name, list |-> list,
                      vouched |-> IF op = "run" THEN {trust} ELSE {}])
  /\ shown' = IF op = "approve" THEN shown \cup {screen[c]} ELSE shown
  /\ UNCHANGED <<file, trust, runs, online, inbox, screen, views>>

(* What a member can press: the panel offers to approve and to run what it *)
(* shows, and reads the list again when it opens or a run has finished.    *)
Look(c) == Begin("look", c, None, None)
Approve(c) == screen[c] # None /\ Begin("approve", c, None, screen[c].hash)
Withdraw(c) == screen[c] # None /\ Begin("withdraw", c, None, None)
Run(c) == screen[c] # None /\ \E row \in screen[c].rows : Begin("run", c, row[1], None)
Pull(c) == Begin("pull", c, None, None)

-----------------------------------------------------------------------------
(* Reading and approving the list.                                         *)

(* commandsState: the list, then the approval, which colours the panel.    *)
ReadState(k) ==
  /\ At(k, "look", "begin")
  /\ Becomes(k, [calls[k] EXCEPT !.list = file, !.pc = "trust"])
  /\ UNCHANGED <<file, trust, runs, tabs, count>>

AnswerState(k) ==
  /\ At(k, "look", "trust")
  /\ Respond(k, [kind |-> "state", list |-> calls[k].list])
  /\ Return(k)
  /\ UNCHANGED <<file, trust, runs, online, screen, views, shown, count>>

(* Every handler of the approval answers with the state read afresh.       *)
ThenLook(k) == [calls[k] EXCEPT !.op = "look", !.pc = "begin", !.list = None]

(* Mutant: what is approved is the file as it is by now.                   *)
CompareNothing(k) ==
  /\ At(k, "approve", "begin")
  /\ Becomes(k, [calls[k] EXCEPT !.list = file, !.pc = "store"])
  /\ UNCHANGED <<file, trust, runs, tabs, count>>

CompareHash(k) ==
  /\ At(k, "approve", "begin")
  /\ IF file = calls[k].list
     THEN Becomes(k, [calls[k] EXCEPT !.pc = "store"])
     ELSE Return(k)
  /\ UNCHANGED <<file, trust, runs, tabs, count>>

StoreTrust(k) ==
  /\ At(k, "approve", "store")
  /\ SetTrust(k, calls[k].list, ThenLook(k))
  /\ UNCHANGED <<file, runs, tabs, count>>

ClearTrust(k) ==
  /\ At(k, "withdraw", "begin")
  /\ SetTrust(k, None, ThenLook(k))
  /\ UNCHANGED <<file, runs, tabs, count>>

-----------------------------------------------------------------------------
(* Running a command.                                                      *)

ReadCommands(k) ==
  /\ At(k, "run", "begin")
  /\ Becomes(k, [calls[k] EXCEPT !.list = file, !.pc = "trust"])
  /\ UNCHANGED <<file, trust, runs, tabs, count>>

(* Mutant: any approval will do.                                           *)
CheckSomeTrust(k) ==
  /\ At(k, "run", "trust")
  /\ IF trust # None /\ calls[k].name \in Declares(calls[k].list)
     THEN Becomes(k, [calls[k] EXCEPT !.pc = "start"])
     ELSE Return(k)
  /\ UNCHANGED <<file, trust, runs, tabs, count>>

CheckTrust(k) ==
  /\ At(k, "run", "trust")
  /\ IF trust = calls[k].list /\ calls[k].name \in Declares(calls[k].list)
     THEN Becomes(k, [calls[k] EXCEPT !.pc = "start"])
     ELSE Return(k)
  /\ UNCHANGED <<file, trust, runs, tabs, count>>

(* The rest of start(), after the cwd was resolved: the process, its timer *)
(* and its entry in active come to be together, and the answer follows     *)
(* before anything the process does can be noticed.                        *)
Spawn(k) ==
  /\ At(k, "run", "start")
  /\ \E r \in Runs :
       /\ runs[r].phase = "unused"
       /\ runs' = [runs EXCEPT ![r] =
            [Unused EXCEPT !.phase = "running", !.name = calls[k].name,
                           !.list = calls[k].list, !.vouched = calls[k].vouched,
                           !.timer = calls[k].name \notin Services(calls[k].list)]]
       /\ Respond(k, [kind |-> "started", run |-> r])
  /\ Return(k)
  /\ UNCHANGED <<file, trust, online, screen, views, shown, count>>

(* A cwd outside the checkout or a program that is not there.              *)
SpawnFails(k) ==
  /\ At(k, "run", "start")
  /\ Return(k)
  /\ UNCHANGED <<file, trust, runs, tabs, count>>

(* The entry is in active until the exit has been handled.                 *)
InActive(r) == runs[r].phase \in {"running", "dead"}

(* Mutant: no SIGKILL follows.                                             *)
StoppedPolitely(run, reason) == [run EXCEPT !.reason = reason]

(* stop(): the last reason given is the one that is reported.  SIGTERM may *)
(* be ignored.                                                             *)
Stopped(run, reason) ==
  [run EXCEPT !.reason = reason, !.grace = TRUE]

Cancel(c, r) ==
  /\ c \in online
  /\ views[c][r] = "running"
  /\ Count("requests", MaxRequests)
  /\ runs' = IF InActive(r)
             THEN [runs EXCEPT ![r] = [Stopped(@, "cancelled") EXCEPT !.cancelled = TRUE]]
             ELSE runs
  /\ UNCHANGED <<file, trust, calls, tabs>>

Deadline(r) ==
  /\ InActive(r)
  /\ runs[r].timer
  /\ runs' = [runs EXCEPT ![r] = [Stopped(@, "timed out") EXCEPT !.timer = FALSE]]
  /\ UNCHANGED <<file, trust, calls, tabs, count>>

(* The process ends by itself or obeys SIGTERM.                            *)
ProcessExits(r) ==
  /\ runs[r].phase \in {"running", "orphan"}
  /\ runs' = [runs EXCEPT ![r].phase = IF @ = "running" THEN "dead" ELSE "gone"]
  /\ UNCHANGED <<file, trust, calls, tabs, count>>

(* The grace period is over: SIGKILL unless the exit has been handled.     *)
Sigkill(r) ==
  /\ InActive(r)
  /\ runs[r].grace
  /\ runs' = [runs EXCEPT ![r].phase = "dead", ![r].grace = FALSE]
  /\ UNCHANGED <<file, trust, calls, tabs, count>>

(* Its timers and its entries in active, killed and reasons are gone.      *)
Forgotten(run, phase) ==
  [run EXCEPT !.phase = phase, !.timer = FALSE, !.grace = FALSE, !.reason = "none"]

(* Mutant: killed and reasons are cleared before they are reported.        *)
OnExitForgotten(r) ==
  /\ runs[r].phase = "dead"
  /\ Broadcast([kind |-> "exit", run |-> r, reason |-> "none"])
  /\ runs' = [runs EXCEPT ![r] = Forgotten(@, "reported")]
  /\ UNCHANGED <<file, trust, calls, online, screen, views, shown, count>>

OnExit(r) ==
  /\ runs[r].phase = "dead"
  /\ Broadcast([kind |-> "exit", run |-> r, reason |-> runs[r].reason])
  /\ runs' = [runs EXCEPT ![r] = Forgotten(@, "reported")]
  /\ UNCHANGED <<file, trust, calls, online, screen, views, shown, count>>

-----------------------------------------------------------------------------
(* The list changes: somebody edits the file, or a pull moves HEAD and     *)
(* everybody is told.                                                      *)

EditFile ==
  /\ Count("changes", MaxChanges)
  /\ file' \in Lists \ {file}
  /\ UNCHANGED <<server, tabs>>

MoveHead(k) ==
  /\ At(k, "pull", "begin")
  /\ \/ /\ Count("changes", MaxChanges)
        /\ file' \in Lists
        /\ Becomes(k, [calls[k] EXCEPT !.pc = "announce"])
     \/ /\ Return(k)
        /\ UNCHANGED <<file, count>>
  /\ UNCHANGED <<trust, runs, tabs>>

AnnouncePull(k) ==
  /\ At(k, "pull", "announce")
  /\ Broadcast([kind |-> "changed"])
  /\ Return(k)
  /\ UNCHANGED <<file, trust, runs, online, screen, views, shown, count>>

-----------------------------------------------------------------------------
(* The tabs.                                                               *)

(* An exit is shown by a tab that knows the run; repo.changed resets the   *)
(* whole store, the runs with the lists.                                   *)
Handle(c, m) ==
  CASE m.kind = "state" ->
         /\ screen' = [screen EXCEPT ![c] = Panel(m.list)]
         /\ UNCHANGED views
    [] m.kind = "started" ->
         /\ views' = [views EXCEPT ![c][m.run] = "running"]
         /\ UNCHANGED screen
    [] m.kind = "exit" ->
         /\ views' = [views EXCEPT ![c][m.run] =
              IF @ = "none" THEN @ ELSE IF m.reason = "none" THEN "ended" ELSE m.reason]
         /\ UNCHANGED screen
    [] m.kind = "changed" ->
         /\ views' = [views EXCEPT ![c] = NoViews]
         /\ screen' = [screen EXCEPT ![c] = None]

Deliver(c) ==
  /\ inbox[c] # <<>>
  /\ Handle(c, Head(inbox[c]))
  /\ inbox' = [inbox EXCEPT ![c] = Tail(@)]
  /\ UNCHANGED <<file, server, online, shown, count>>

Disconnect(c) ==
  /\ c \in online
  /\ Count("stops", MaxStops)
  /\ online' = online \ {c}
  /\ inbox' = [inbox EXCEPT ![c] = <<>>]
  /\ calls' = [k \in CallIds |->
                 IF calls[k].client = c THEN [calls[k] EXCEPT !.client = None] ELSE calls[k]]
  /\ UNCHANGED <<file, trust, runs, screen, views, shown>>

(* Mutant: the runs survive the reconnect.                                 *)
ConnectKeepingRuns(c) ==
  /\ c \notin online
  /\ online' = online \cup {c}
  /\ screen' = [screen EXCEPT ![c] = None]
  /\ UNCHANGED <<file, server, inbox, views, shown, count>>

(* The socket opens again and the workspace resets its stores.             *)
Connect(c) ==
  /\ c \notin online
  /\ online' = online \cup {c}
  /\ screen' = [screen EXCEPT ![c] = None]
  /\ views' = [views EXCEPT ![c] = NoViews]
  /\ UNCHANGED <<file, server, inbox, shown, count>>

(* shutdown() drains the disposers and exits; stopAll() is not among them. *)
Outlives(run) ==
  CASE run.phase = "running" -> Forgotten(run, "orphan")
    [] run.phase = "dead" -> Forgotten(run, "gone")
    [] OTHER -> run

Restart ==
  /\ Count("stops", MaxStops)
  /\ calls' = [k \in CallIds |-> Idle]
  /\ runs' = [r \in Runs |-> Outlives(runs[r])]
  /\ online' = {}
  /\ inbox' = [c \in Clients |-> <<>>]
  /\ UNCHANGED <<file, trust, screen, views, shown>>

-----------------------------------------------------------------------------

Serve(k) ==
  \/ ReadState(k) \/ AnswerState(k) \/ CompareHash(k) \/ StoreTrust(k) \/ ClearTrust(k)
  \/ ReadCommands(k) \/ CheckTrust(k) \/ Spawn(k) \/ SpawnFails(k)
  \/ MoveHead(k) \/ AnnouncePull(k)

Press(c) ==
  \/ Look(c) \/ Approve(c) \/ Withdraw(c) \/ Run(c) \/ Pull(c)
  \/ \E r \in Runs : Cancel(c, r)

Next ==
  \/ \E k \in CallIds : Serve(k)
  \/ \E c \in Clients : Press(c) \/ Deliver(c) \/ Disconnect(c) \/ Connect(c)
  \/ \E r \in Runs : Deadline(r) \/ ProcessExits(r) \/ Sigkill(r) \/ OnExit(r)
  \/ EditFile \/ Restart

Spec == Init /\ [][Next]_vars

(* Timers fire, a killed process dies and its exit is handled; nothing     *)
(* makes a program end by itself.                                          *)
Fairness == \A r \in Runs : WF_vars(Deadline(r)) /\ WF_vars(Sigkill(r)) /\ WF_vars(OnExit(r))

FairSpec == Spec /\ Fairness

-----------------------------------------------------------------------------
(* Properties.                                                             *)

(* The list that is approved is the one whose hash, names and argvs a      *)
(* member had on the screen when pressing approve: a file that changed     *)
(* meanwhile is not approved in its place, not even by one that looks the  *)
(* same.  What else the hash covers (cwd, env, timeoutSeconds, background) *)
(* the panel does not show, so the screen does not tell such lists apart,  *)
(* against "what they approved has to be what they saw"                    *)
(* (repo-commands.md:113-116).                                             *)
ApprovedWasShown == trust # None => Panel(trust) \in shown

(* A process runs a command of a list that was the approved one at some    *)
(* moment since the button was pressed, whatever the file became.          *)
RunsWereApproved ==
  \A r \in Runs : runs[r].phase # "unused" =>
    runs[r].list \in runs[r].vouched /\ runs[r].name \in Declares(runs[r].list)

(* A member who was told that a run is cancelled never sees it end as if   *)
(* by itself, and no service is ever reported to have run out of time.     *)
StopIsReported ==
  \A c \in Clients, r \in Runs :
    /\ runs[r].cancelled => views[c][r] # "ended"
    /\ views[c][r] = "timed out" => runs[r].name \notin Services(runs[r].list)

(* A panel that says running is right, or will be told: the process or its *)
(* exit is still to be handled, or the event is on its way to this tab.    *)
RunningMeansRunning ==
  \A c \in online, r \in Runs :
    views[c][r] = "running" =>
      \/ InActive(r)
      \/ \E i \in DOMAIN inbox[c] : inbox[c][i].kind = "exit" /\ inbox[c][i].run = r

(* A task, and any run somebody stopped, comes to an end while the server  *)
(* lives, also when the program ignores SIGTERM.  The run is the process   *)
(* the server spawned: child.kill() signals that one and none it started,  *)
(* though runner.ts:24 speaks of "a kill that reaches the children".       *)
RunsEnd ==
  \A r \in Runs :
    (InActive(r) /\ (runs[r].name \notin Services(runs[r].list) \/ runs[r].cancelled))
      ~> ~InActive(r)
=============================================================================
