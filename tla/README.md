# DataGripe in TLA+

DataGripe is a collaborative database IDE: a Bun server (`apps/server`), a
browser client (`apps/web`) and a set of packages, of which
`packages/database-adapters` talks to the target databases. People in one
workspace share connections, documents and query executions over WebSockets.

This directory holds TLA+ models of the parts of it where the order of things
matters, TLC configurations that check them on small instances, and proofs,
checked by TLAPS, of what matters most.

    tlc -config ExecutionRegistry.cfg MCExecutionRegistry    # a run
    tlapm ExecutionRegistryProofs.tla                        # the proofs

## 1. The system

Paths are relative to `apps/server/src` unless they say otherwise.

| component | state it keeps | operations | what is hard about it |
| --- | --- | --- | --- |
| execution registry `execution/registry.ts` | records, their event buffers, rows of `query_executions` | admit, run, finish, cancel, replay, runOnce, expiry | every `await` lets other requests in; history is written behind the record's back; memory dies with the process |
| PostgreSQL sessions `packages/database-adapters/src/postgres` | a pool of reserved connections, the transaction and settings of each | begin, run (cursor, fallback, direct), cancel, close | the connection outlives the session; a cancel is a query that names a backend, not an execution |
| SQLite sessions `packages/database-adapters/src/sqlite` | one client per file and its `query_only` pragma | the same | every session shares the client |
| MySQL sessions `packages/database-adapters/src/mysql` | as PostgreSQL, with a watchdog | the same | `KILL QUERY` that arrives late |
| socket hub and handler `ws/hub.ts`, `ws/handler.ts` | open sockets, subscribers of executions | broadcast, subscribe, respond | a response and the events it belongs to race |
| client executions store `apps/web/src/stores/executions.ts` | executions shown, events of unknown executions | run, open from history, events, reconnect | events before their response, replays over live events, lost sockets |
| shared documents `documents/service.ts`, `db/app/idempotency.ts`, `files/` | rows of `documents`, files on disk, stored responses | save, archive, file.open | check and update in two queries; a row, a file and a hash that must agree; retries |
| client documents store `apps/web/src/stores/documents.ts`, `persistence/` | open documents, drafts in IndexedDB | save, sync, apply a change, recover | typing during an awaited save; offline edits |
| workspaces and roles `workspaces/`, `permissions.ts` | members, roles, what open sockets may do | add, remove, set role, create, update and delete a role, refresh the sockets | counting and changing in two queries; sockets that keep old rights |
| domains `domains/` | domains and tags of a datasource, the tree of exported files, the domain file | tag, create, rename, delete, import, reconcile, export | transactions that lock nothing; a catalog that changes while it is read; a write that fails half-way |
| repository commands `git/commands.ts`, `git/runner.ts`, `apps/web/src/stores/repoRuns.ts` | the approved list, processes and their timers, what panels show | approve, withdraw, run, stop, pull | files edited underneath; a stop, a deadline and an exit that race; one event that says a run has ended |
| presence and views `multiplayer/` | socket counts, who is shown | join, leave, focus | two maps that must agree |
| authentication `auth/`, rate limits `security/` | sessions, challenges, windows | sign in, expire, consume | one-time use, time |
| MCP endpoint `mcp/` | tokens and their scopes | tool calls through runOnce | a read-only classifier in front of the sandboxes |
| gripes, SQL tools, contracts, HTTP, configuration, migrations, user interface, desktop shell | little or none | | pure functions, I/O, rendering |

How they interact. A client's `execution.start` reaches the registry through the
dispatcher; the registry asks an adapter for a session and passes it a sink; each
call of the sink becomes a numbered event that is buffered and handed to the hub,
which sends it to sockets; the client's store folds the events into what it shows.
An MCP tool call takes the same way through `runOnce`, with `limits.sandbox`. A
`document.save` or `file.open` goes from the dispatcher to the documents service
and the file system, and is broadcast to the other sockets, whose documents stores
fetch what changed. Every request passes the capability its socket carries; the
handlers of members and roles put new ones on the open sockets. An export of domains
and an approved command work on the files of a datasource, which a git pull and other
programs change too.

The server is one event loop. Code between two awaits runs undisturbed, so an
action of a model is what the code does between two awaits (or between two
queries, which comes to the same), and `pc` says which await a coroutine is
suspended at. Requests, cancellations, timers and crashes interleave freely with
that.

What makes each component correct:

- *registry*: one verdict per execution, announced once and last; replays with no
  hole but old row batches; a history row that ends up with the record's verdict;
- *sessions*: every INSERT, UPDATE or DELETE of an editor commits by itself, nothing of a
  sandbox is ever durable, a cancel asked for in time holds, connections come back;
- *stream*: a client that has received everything shows the status the execution
  has, its rows in order, and rows go to subscribers only;
- *documents*: one live row per file, no silent overwrite, a revision that names
  one content, a file and a hash that agree with the row, retries that run once;
- *client documents*: nothing typed is lost, nothing given up comes back, a quiet tab
  shows what the server has;
- *roles*: a project always has somebody who can administer it, and rights that
  were taken away are gone from open sockets too;
- *domains*: an object has one domain, no tag goes because a read failed, an import
  replaces what it says it replaces, an export leaves what it built and nothing else;
- *repository commands*: nothing runs that nobody approved, nobody approves a
  list no panel showed, a stop is reported as one, a task ends, a panel that says running is
  right.

## 2. The modules

| module | models | composed with or implements |
| --- | --- | --- |
| ExecutionRegistry | the registry, its stream and its history rows | implements ExecutionLifecycle |
| ExecutionLifecycle | what the registry promises | |
| PostgresSession | sessions on a pool of PostgreSQL connections | stands where the registry has `Sink` and `Settle` |
| SqliteSession | sessions on one SQLite file | the same |
| ResultStream | hub, sockets and the client's executions store | the registry's stream is its input |
| SharedDocument | a file, its rows, idempotency keys | |
| DocumentSync | a tab's documents store, IndexedDB, the server's row | the server's side is SharedDocument seen from one tab |
| ProjectRoles | members, roles, capabilities of open sockets | |
| Domains | tags, imports, reconciliation, exports | |
| RepoCommands | approvals, processes, run panels | |

`MC...` modules give the constants of an instance; `...Proofs` modules hold the
theorems of the module they are named after (section 4), SessionAndStreamProofs those of
SqliteSession and ResultStream.

### ExecutionRegistry, ExecutionLifecycle

`ExecutionRegistry` models `registry.ts`. `registered`, `status`,
`cancelRequested` and `attached` are the fields of a record; `nextSequence` and
`events` its stream; `history` the status column of its row, and `historyWrite` the
UPDATE that `finish()` issued and did not await; `answer` what the caller was told.
`pc` goes

    idle -> resolving -> inserting -> admitted -> announcing -> beginning
         -> executing -> closing -> done

with `rejected` for a refused request and `lost` for a coroutine whose process
stopped. `Admit` is the check, `Register` what happens after the two awaits that
follow it; `Announce` ends the awaited UPDATE to `running`; `Sink` and `Settle` are
the session as the registry sees it (any events, any outcome); `BeginFails` and the
outcome `failed` of `Settle` are the catch block; `FlushHistory` and `LoseHistory`
end the UPDATE nobody waits for; `Expire` is the cleanup timer. `Crash` empties
everything but the rows.

`columns` events are buffered exactly as `progress` events and are not told apart.

`ExecutionLifecycle` is what the registry promises, without coroutines, buffers or a
database: absent, queued, running, one verdict announced in the instant it is
reached, forgotten. `LifecycleSpec` states that the registry implements it, under
the mapping that reads `state` off the record and its row and `announced` off the
buffered events.

### PostgresSession

`postgres/execution.ts` on a pool of connections. A connection has an owner, a
transaction (none, open, aborted; read only or not), a session setting and writes
not yet committed. `Set`, `BeginSandbox`, `Restrict` and `Locate` prepare a session;
`StartStatement` picks the cursor path (`OpenCursor`, `Declare`, `Fetch`,
`EndCursor`) or `RunDirect`; `DeclareRefused` is the fallback from the first to the
second; `StatementFails` is an error, a timeout or an interrupt, at any of them, with
what the catch blocks undo. `RequestCancel` is the registry's flag plus, once there
is a session, a query of its own; `DeliverCancel` needs a free connection and
interrupts whatever the named backend runs *when it arrives*, which may be somebody
else's statement. What PostgreSQL does (`OpenTransaction`, `Rollback`, `Write`,
`Abort`, `Refuses`) is modelled from how the session uses it.

Programs are sequences of statement kinds: a plain query, a query that calls a
writing function, a `WITH ... INSERT` that `DECLARE` refuses, a direct write. The
second is no exception to what a sandbox or a cancel may do, but it is one to autocommit:
what it wrote goes with its cursor (section 5), and `AutocommitPerStatement` speaks of the
other two kinds of write (`Changing`).

### SqliteSession

`sqlite/adapter.ts`: sessions on one file, which share one client and so one `query_only`
pragma. `Begin` and `Close` of a sandboxed session set and reset it; a write runs only
while it is off. The UPDATE of the pragma in `close()` is taken to succeed (the code
swallows its failure). `exposed` is a history variable: the sandboxes during whose session
another one closed, which turns the pragma off for both. The names `SqliteInit`,
`SqliteNext` and `SqliteSpec` are longer than elsewhere so that one module of proofs can
extend this one and ResultStream.

### ResultStream

How events reach clients. The registry's stream is a constant sequence of topics, one
result set long, and `emitted` counts how far it is; `subscribed` and `connected` are the
hub's sets; `channel` is a FIFO per socket that loses its contents when the socket closes;
`view` and `early` are the store's `executions[id]` and `earlyEvents[id]`. `RespondStart`
comes at any time after the first event, because the handler subscribes the socket only
after `dispatch()` returned; `RespondSubscribe` is one turn of the event loop. `Apply` is
`applyEvent`, which does not look at sequence numbers. `Reconnect` includes the reset of
the store that `Workspace.tsx` does. `Expire` is the cleanup timer of the record, after
which, or after a `Restart` of the server, the registry answers an opening with NotFound
(`RefuseSubscribe`) and the client shows the execution as failed (`ReceiveRefusal`). A
request that is not answered in 15 s on an open socket is given up (`TimeOutUnanswered`,
or `TimeOutAnswered` when the answer is on its way): the server carries it out all the
same (`CarryOutLate`) and its answer is ignored. `mishaps` is a history variable of what
has gone wrong for the starter: its socket, an opening refused, a start or an opening
given up. `Buffered` is what the registry has kept for a replay. A stream has its columns
before its rows (`ColumnsFirst`), as every adapter sends them: `applyEvent` empties the
rows of a view when columns arrive. Left out: an opening asked for while the socket is
closed, which the client queues until it is open (`ws.ts:123-127`).

### SharedDocument

One file and the rows of `documents` that cache it; at the start it has been opened
before or not. A request is a coroutine; a save goes lookup, reading, updating,
storing, writing, marking (the idempotency table, the row, the table again, the file,
the hash), an open goes through `file.open`: read the file, find the row, insert or
compare, check, adopt. A content is a token (the save's key names what it saves);
`disk_content_hash`, which is only ever compared, is the content it was computed from.
`Archive` and `EditOutside` (a git pull, another program) happen at any time.

`overlapped` is a history variable: the requests during which another one, or an
archive, began. Three of the properties promise something only of requests that are not
in it, because of two that overlap they are false (section 5).

### DocumentSync

One document in one browser tab (`stores/documents.ts`, `persistence/drafts.ts`,
`persistence/debounce.ts`). `doc` is the document in the store, `row` and `draft` what
IndexedDB keeps of it, `pending` the checkpoint the debouncer will write, `known`
membership in `serverDocs`, `conflict` the banner, `events` the `document.changed`
messages on their way, `server` the server's row with every content it ever had.

Every method of the store reads the document, awaits, and writes back what it read. A call
is such a method between its awaits, and `local` is the document as it read it;
`WriteBack` puts it back whether or not the document changed meanwhile. A save is
`SaveInternal` (up to the request), `SaveAnswered` (the row of IndexedDB), `FinishSave`
(the draft goes, the document is written back); a request that fails, by a closed socket
or after 15 s, becomes a local save with the next revision (`GiveUp`). `ApplyServerChange`
and `SyncFromServer` decide what to fetch, `Adopt` what to do with it. `Restart` is a tab
that is closed and loaded again, `Recovered` is `hydrate()` with `mergeDrafts()`.

A content is a number: what the user types counts up, what others save counts down, so
that no two writings are equal. `typed` is what the user typed and neither saved nor
gave up. `excused` names the promises that one of the code's known mishaps has voided
so far, one about typing, one about what a draft restores, one about being in sync
(section 5); a behaviour in which none happened has to keep them all.

A draft whose row is gone stays in IndexedDB and is not shown again: `hydrate()` passes
`mergeDrafts()` only the drafts of rows it has found (`documents.ts:297-304`).

Left out: documents of files, several tabs, titles, the switch of workspaces, the list
of save errors, and a request the server handles after the socket closed.

### ProjectRoles

The roles of one project, who holds which, the rank each member still has from before
there were roles, and what the open sockets carry. A handler is a call that awaits between
its queries: member.set-role reads the role, checks that somebody else keeps
`members.manage` (two queries), moves the member, reads again and refreshes the sockets
(`Snapshot`, then `Resolve` and `Apply` once per socket). `OpenSocket` is the membership
lookup of an upgrade, `AddSocket` the moment the hub has the socket. `excused` are the
sockets a refresh is known to miss: those two handlers touched at once, those that opened
during one, those of a member who was removed.

Left out: every other capability, creating and deleting projects, invitations, and the
capabilities an MCP token falls back to (`mcp/context.ts:141`).

### Domains

Domains, tags and catalog of one datasource, the tree under `domains/` and the file
`domains.yaml`. PostgreSQL runs at READ COMMITTED, so a transaction is two steps, its last
DELETE (which waits for what other transactions have deleted) and its last INSERT with the
commit. `Untag` and `Tag` are `tag()`, `ReadFile`, `Clear` and `Fill` an import;
`ListDomains`, `ListTags`, `ReadCatalog` and `Reconcile` are `reconcileDomains()`, by
itself or first thing in an export, which goes on with `Build`, `Scan`, `WriteFile`,
`Prune`, `WriteDomains` and `Record`. Reads and writes may fail at any step.

A tag names a domain by its id and the files name it by its name, so a domain renamed
while an export runs is two things at once. `gone`, `alone` and `shared` are history;
`shared` are the objects that may have several domains: those of a tag that overlapped
another handler, and those an import names although a shelf, another import or another
domain of its own file has them. At the start `domains.yaml` is any file the schema
accepts, one that lists an object twice included.

Left out: an edit or a pull of `domains.yaml` or of the tree while a handler runs (both
are free at the start, and afterwards only exports write them), dry runs, pull.log, what a
run's row says, access files, idempotency keys, and what is inside a file.

### RepoCommands

A list of commands is the hash of `run.yaml`, which covers everything an approval is
about: names and argvs, and cwd, env, timeouts and what is a service, for which
`background` stands. `Panel` is what a tab keeps and shows of a list: the hash it will send
back, and the names and argvs it renders (`RepoCommands.tsx:64-75`), so two lists may look
alike. `calls` are the handlers of `repo.trust`, `repo.run` and `git.pull` between
their awaits, `runs` the processes (running; dead, with `child.exited` still to be handled;
reported; an orphan of a server that stopped) with their two timers, `inbox` what is on
its way to each tab, `screen` and `views` what a tab shows. A stop is SIGTERM, which a
program may ignore, and SIGKILL five seconds later. `shown` is a history variable, the
panels that were on the screen of somebody who pressed approve.

Left out: the processes a command starts of its own (`child.kill()` signals only the one
the server spawned), output and exit codes, a `run.yaml` that cannot be read, audit rows,
idempotency keys.

## 3. The runs

| run | checks | distinct states |
| --- | --- | --- |
| ExecutionRegistry | VerdictsAgree, ReplayIsComplete, HistoryNeverGoesBack | 774 400 |
| ExecutionRegistryLive | AdmittedSettles, HistorySettles, LifecycleSpec | 55 012 |
| PostgresSession | AutocommitPerStatement, SandboxWritesNothing, EarlyCancelHolds, ConnectionsComeBack | 59 870 |
| SqliteSession | SandboxWritesNothing, PragmaPutBack | 12 736 |
| ResultStream | RowsInOrder, RowsForSubscribers, StarterShowsTheStatus, StarterSeesTheEnd | 1 261 770 |
| SharedDocument | OneLiveRow, RevisionNamesContent, RetryRunsOnce, SavedMeansOnDisk, NoSilentOverwrite, AdoptLosesNothing | 1 704 131 |
| DocumentSync | TypeOK, NothingTypedIsLost, NothingGivenUpComesBack, RevisionNamesContent, QuietMeansInSync | 1 992 735 |
| ProjectRoles | PermissionsAreFresh, LoneSetRoleKeepsTheKeys, LoneRemovalLeavesAnOwner, RevocationArrives | 642 585 |
| Domains | OneDomainUnlessShared, LoneExportIsComplete, OnlyStaleTagsGo, LoneImportReplaces | 397 275 |
| RepoCommands | ApprovedWasShown, RunsWereApproved, StopIsReported, RunningMeansRunning, RunsEnd | 1 239 673 |
| DraftOverwritten (MCDocumentSync) | DraftsAreNotOverwritten: violated | |
| ProjectStranded (MCProjectRoles) | SomebodyKeepsTheKeys: violated | |

A run uses the `MC` module of its name unless the table says otherwise. The type
invariants of ExecutionRegistry, PostgresSession, SqliteSession, ResultStream,
SharedDocument, ProjectRoles, Domains and RepoCommands are not checked by a run, because
they are proved. Deadlock is not checked: every model stops once its requests are done.

Bounds, and why they are enough for what they are used for:

- *ExecutionRegistry*: two executions of one person, one awaited and one not, a limit
  of one (so that the second is refused, or admitted after the first or beside it).
  `MaxEvents = 3` events of a session and
  `RowEventBuffer = 1` make the buffer drop batches with events of other kinds before,
  between and after them. Crashes are left to ExecutionRegistryLive, which allows one and
  keeps two events. Executions do not touch each other's state (proved:
  `LocalStepConsistent`), so a third one adds nothing but the limit.
- *PostgresSession*: two connections and two sessions, so that a cancel always has or
  lacks a connection, and a late one meets the other session. One session is sandboxed
  with a cursor before a write that got past the classifier; the other calls a writing
  function, falls back from a cursor and then writes directly. `ReadOnly` is empty in that
  run: the setting never comes back off a connection, and a refused write breaks none of
  the properties.
- *ResultStream*: two clients, two openings from history, one fault (a lost socket, a
  restart of the server or a request given up), a record that expires at any time after
  the end, two row
  batches with a buffer of one, so that a replay omits a batch the client may or may not have.
- *SqliteSession*: two sandboxes beside an editor, so that one can close during the
  session of the other, or not.
- *SharedDocument*: three saves, of which one is the retry of another and two are forced,
  and two opens; any two requests are in flight at once (`MaxInFlight = 2`), one edit
  outside, two rows beside the archived one, writes of the file that are refused. The
  retry waits for its first attempt to end (`TwinOverlap = FALSE`): section 5 says what
  happens if it does not. The opens are interchangeable, and so are a save and its retry,
  which is what `TwinsAndOpens` says.
- *DocumentSync*: two calls at once, two bursts of typing, two acts of the user, one save
  by somebody else, one lost connection or timeout, one restart, four of these in all:
  every pair of methods overlaps, and a save can be overtaken by typing, by somebody
  else's change, by a lost socket and by a restart, each beside another act.
  DraftOverwritten has two saves by others and no restart.
- *ProjectRoles*: two members, one role of the project's own beside the three built-in
  ones, three requests of which two overlap, one socket that opens late.
- *Domains*: two names and four ids, so that a domain is deleted and made again under
  its name while something refers to the old one; one object, which is dropped or comes back
  once and which the initial file may list under both names;
  two handlers at once; one failure. Initially there are any domains, tags and files.
- *RepoCommands*: two members, a list with a task and a service, one that looks the same
  and makes the task a service too, and one with the service only, two runs, two handlers
  at once, three requests, one edit or pull, one lost socket or restart. Old approvals, of
  any of the lists, exist at the start or not.

In every passing run each property has been tried against a faulty variant of the
code, kept in the modules as the definitions commented "Mutant", and found violated.

### Fairness

- `ExecutionRegistry!FairSpec`: `Progress(e)` is weakly fair, because the event loop resumes
  every coroutine whose await has ended and every await ends: a session is bounded by
  `statement_timeout`, a query to the application database is answered. So is
  `FlushHistory`. Nothing makes anybody start, cancel or crash.
- `PostgresSession!FairSpec`: a session that holds a connection takes its next step, for
  the same reason; strong fairness on leaving the fetch loop says that a result set is
  finite, which the row cap enforces. Nothing is assumed of cancellations, nor of
  sessions that wait for a connection.
- `ResultStream!FairSpec`: the execution goes on, the server answers, an open socket
  delivers, a closed one is opened again (`RECONNECT_DELAY_MS`).
- `ProjectRoles!FairSpec`: while handlers await, one of them goes on. That is weaker than
  fairness of each, and enough because a handler is finite. Nobody has to send a request.
- `RepoCommands!FairSpec`: the deadline of a task and the SIGKILL after a stop come, and
  the exit of a process that died is handled. Nothing makes a program end by itself.

## 4. What is proved

Each theorem holds for every value of the constants that satisfies the module's named
assumption; the bounds of the runs are constants too, and any number does.

**ExecutionRegistryProofs.** `TypeCorrect`; `Agreement` (`VerdictsAgree`: stream, record,
row and answer name one verdict); `OneVerdict` (one terminal event, the last one);
`HistoryAdvances`; `ReplaysAreComplete` (`ReplayIsComplete`); `ImplementsLifecycle`, the
refinement of ExecutionLifecycle with crashes and expiry. All but `ReplaysAreComplete`
rest on one inductive invariant, `IInv`. None of the
properties is inductive by itself, not even the types: that `runOnce` answers with a
verdict depends on the record having one when the session has closed. `IInv` adds what
ties the parts together: `Placed` (the await a coroutine is suspended at fixes what its
record and its row may say), `Recorded` (an UPDATE still on its way carries the
record's verdict), `Answered`, and `Streamed` (all numbers used are below the next one,
and a verdict is in the stream exactly when the record has one). The proof that a step
keeps `IInv` goes action by action; `Frame` disposes of all other executions,
`StreamGoesOn` and `StreamEnds` of the two ways an event is buffered. `ReplaysAreComplete`
has an invariant of its own, `WellBuffered`: a number that is missing was a row batch's,
and the buffer holds as many row batches as it can, all of them later. The refinement
shows what each action does to the mapped state of its own execution (`StepShows`) and
that it does nothing to any other (`StepOfOne`).

**PostgresSessionProofs.** `TypeCorrect`; `SandboxIsSafe`: no statement of a sandboxed
execution is ever committed, whatever fails, is cancelled or falls back;
`AutocommitHolds`: outside a sandbox every INSERT, UPDATE, DELETE and `WITH ... INSERT`
the session has gone past stays committed and nothing of a later statement is, whatever
functions the queries between them call; `EarlyCancelIsKept`, for programs of at least one
statement: an execution cancelled before its session is set up starts none of its
statements and does not end as completed (it may end as failed: `registry.ts:393-396`).
`FreeConnectionsAreClean`, the part of `ConnectionsComeBack` that is no liveness: a
session that has ended holds no connection, nobody has two, and a free one is in no
transaction that still works. The invariants say what transaction a connection is in at
every `pc` of its owner; a connection that was given back inside a read-only transaction
(section 5) is harmless to these properties because nothing written in it commits.

**SessionAndStreamProofs.** Of SqliteSession: `SqliteTypeCorrect`; `PragmaComesBack`:
however sandboxes overlap, the file is writable once all have closed (the pragma is on
only while a sandbox is open); `UnexposedSandboxWritesNothing`: of any number of
sandboxes and editors on a file, a sandbox writes nothing unless another one closed
during its session. Of one during whose session another closed it is false (section 5).

Of ResultStream, for any clients, stream, size of the buffers, openings and lost sockets:
`TypeCorrect`; `RowsNeverOutOfOrder` (`RowsInOrder`) and `RowsOnlyForSubscribers`
(`RowsForSubscribers`) from `Fitting`, which says of every client what may be in its
channel: the batches that arrive one by one are newer than those of a replay before them
and than those the view shows, and the columns of a replay, which empty the view, come
before its rows. This is where `ColumnsFirst` is used. `StarterShowsStatus`
(`StarterShowsTheStatus`) from `StarterFollows`: as long as the starter keeps its first
socket there is a number `k` such that the view, or the early events, account for the
lifecycle up to `k` and the channel holds the rest in order. It assumes `LifecycleFits`:
the early events of an execution the client does not know yet are dropped beyond
`EarlyCap`, so the events of a stream that are no row batches must be no more than that.
It says nothing of a starter that gave up a request or whose opening was refused: such a
starter does show the wrong status (section 5).

**SharedDocumentProofs.** `TypeCorrect`, with the fact that whoever needs a row has one;
`OneRow` (`OneLiveRow`), whatever overlaps: an insert conflicts with a live row of the
same path; `OneContentPerRevision` (`RevisionNamesContent`), whatever overlaps: a row's
revision goes up with every change of its content, so what an answer, a stored
response and the row say of one revision is what was written then; `RetriesAgree`
(`RetryRunsOnce`), where a retry waits for the first attempt; `NothingOverwritten`,
`AdoptionIsSafe` and `FileFollows` (`NoSilentOverwrite`, `AdoptLosesNothing`,
`SavedMeansOnDisk`), from an invariant about requests that nothing has overlapped: what
they read is what still is.

**ProjectRolesProofs.** `TypeCorrect`; `RolesStay`: whoever is given a role while it is
being deleted, no member ends up with one that is gone (the foreign key decides);
`ChangesReachSockets` (`PermissionsAreFresh`), from an invariant that says of every socket
that is neither excused nor up to date which handler has still to refresh it;
`KeysStayWithSomebody` and `RemovalLeavesAnOwner`, of handlers that run alone, from an
invariant that says what such a handler has found out by each of its awaits.

**DomainsProofs.** `TypeCorrect`, with the facts that a tag names a domain there is and a
name one domain; `OneDomain` (`OneDomainUnlessShared`), from an invariant that says a tag
alone has deleted every other tag of its object, and that what an export has read lists an
object once unless it is shared; `TagsOfPresentObjectsStay`
(`OnlyStaleTagsGo`): a tag a call holds for stale was out of the catalog since it began;
`ImportsReplace` and `ExportsAreComplete`, of calls that run alone: `Exporting` says what
is left to write and to delete at each step of an export.

**DocumentSyncProofs.** For any number of calls, contents, restarts and lost connections,
if `None` is no document, row, draft, snapshot or content: `TypeCorrect`, and four
theorems on what the store promises, each by an invariant that says what every call in
the middle of an await may still do:

- `OneContentPerRevision` (`RevisionNamesContent`), from `Honest`: whatever the store,
  IndexedDB, the banner or a call holds under a revision the server acknowledged is what
  the server had then;
- `TypingIsKept` (`NothingTypedIsLost`), while no mishap has voided that promise, from
  `Past` (every time stamp is of the past), `Stored` (a save that has written its row took
  what was typed with it) and `Kept`: what is typed is carried by the checkpoint that
  waits, or else by a draft that is newer than the row and than every row a call has still
  to write. That is why a restart finds it: `mergeDrafts()` prefers the draft only if it
  is newer;
- `GivenUpStaysAway` (`NothingGivenUpComesBack`), from `Tidy` (a document without edits
  shows what is saved) and `GoneForGood`: what a draft that would win over its row holds,
  and what the document takes for saved, is on record in the row or at the server, or a
  save or an archive that is under way is about to settle it;
- `QuietTabsAreInSync` (`QuietMeansInSync`), from `Informed` (what a call or a change says
  of the server was true, and the server only goes on) and `InSync`: while the tab is
  connected and behind the server, a change, a fetch, a list or the answer to a save of its
  own is on its way with the newest revision, and nothing else on its way can put an older
  one in its place.

The proof of the last showed that the list of mishaps was not complete (section 5).

**RepoCommandsProofs.** `TypeCorrect`; `ApprovedIsShown`, `RunsAreApproved`,
`StopsAreReported` and `RunningIsTrue`. `ApprovedIsShown` is about the hash and what the
panel renders, names and argvs; nobody need have seen the rest (section 5). The last needs
an invariant over the messages on their way: a panel that says running has an exit event
behind it in its inbox or a run the server still knows.

Every invariant and every action property of the runs is proved, and the refinement, some
under a hypothesis the theorem names (`LifecycleFits`, a retry that waits, programs of at
least one statement). Only model-checked:
`ConnectionsComeBack`, `AdmittedSettles`, `HistorySettles`, `StarterSeesTheEnd`,
`RevocationArrives` and `RunsEnd`, which are liveness under fairness, out of the prover's
reach. Where a proof needs induction over a sequence it takes the least number that would
be an exception (`Least`: the prefixes `0..n` are finite sets, well founded under
inclusion; `Induction` follows from it for a set of numbers in place of a formula).

## 5. Where code and documentation disagree, and what else the models found

Shown by a run:

- *DraftOverwritten*: `applyServerChange()` and `syncFromServer()` fetch what the server
  has and put it in the store by what they read before (`documents.ts:628-641`, `:386-440`),
  so what was typed during the fetch is gone, while `documents.ts:368` says "A dirty draft is
  never silently overwritten."
- *ProjectStranded*: `role.upsert` takes `members.manage` away from the only role whose
  holder has it; `docs/spec/permissions.md:104` says "Somebody must keep `members.manage`."

True of the models too, and stated by no run (the properties are conditioned so that they
do not promise it):

- *registry*: `admit()` counts, awaits twice, then registers, so requests sent together
  all pass `MAX_CONCURRENT_QUERIES_PER_USER` (`registry.ts:414`). The history row of an
  execution that was running when the process stopped says so for good.
- *PostgreSQL*: a `SELECT` that calls a writing function succeeds and is rolled back with
  its cursor (`execution.ts:228-235`), although `query-execution.md:44` speaks of
  "autocommit-per-statement mode". A cancel that arrives late
  interrupts the next execution on its backend; three running executions leave no
  connection for a cancel (`max: 3`); an interrupt between two FETCHes is lost; a failure
  while a sandbox is set up gives the connection back inside its transaction;
  `default_transaction_read_only` stays on a connection.
- *SQLite*: of two overlapping sandboxes on one file the first to close lets the other
  write (`sqlite/adapter.ts:252`), although the adapter says that "query_only refuses the
  write outright"; editors are refused writes while a sandbox is open.
- *stream*: a client that was online when a colleague's query started and opens it once
  finished ends up showing it as running, because early events are applied after the
  replay that already contains them (`executions.ts:491`). Row batches emitted before the
  starter's subscription reach nobody. Whoever opens an execution the registry has
  forgotten, its starter included, is shown "failed" whatever became of it
  (`registry.ts:590-598`, `executions.ts:501-510`). A start answered after 15 s leaves its
  starter with a run error and an execution it does not know, whose end it never shows
  (`ws.ts:28`, `:104-107`), and whose rows reach it as early events only.
- *shared documents*: two saves of one revision that overlap both succeed, the check and
  the update being two queries (`documents/service.ts:278`); they may write the file in the
  opposite order of their revisions. `file.open` may adopt over a save that lands between
  its check and its update. A retry answered from its key writes its older content to
  the file once more; a retry that overlaps its first attempt may be told something else.
- *client documents*: a save that ends writes back the document it was called with and
  deletes its draft, so what was typed while the server's answer was awaited is gone
  (`documents.ts:255-276`); a save cancels the pending checkpoint before the server has
  answered (`documents.ts:163`), so a tab that closes then loses the typing; a rename or
  the repair of the shared flag makes the row newer than the draft, which then loses
  (`documents.ts:954`, `:497`); answers to two fetches can be adopted out of order; a fetch
  that times out on an open socket is not repeated (`:143`); the banner is not cleared by a
  later save (`:686`) and `resolveConflict` stores the row without `shared` (`:701`), and
  does so after an await, so that the row may go over that of a later save; a clean
  document archived elsewhere leaves its draft in IndexedDB (`:571`), as does its waiting
  checkpoint, and neither is shown again: `hydrate()` keeps the drafts of known rows only
  (`documents.ts:297-304`), although `drafts.ts:63-65` restores such a draft "so nothing
  typed is lost" (`editor-workspace.md:145` says it is dropped), and the switch of
  workspaces, which passes `mergeDrafts()` the drafts of scratchpads without their rows,
  makes a `recovered.sql` of each (`documents.ts:331-347`);
  typing since the last checkpoint is lost with the tab, although `drafts.ts:12` speaks of
  crash recovery; a scratchpad is sent to the server when it is saved, although
  `docs/spec/workspaces.md:43` keeps it private until shared; a save made offline is
  pushed with a revision of its own and meets CONFLICT although nobody else wrote
  (`documents.ts:32`). `document.create` of an id that exists answers with that row and
  drops what was sent (`service.ts:262`). A document that local saves have carried past the
  server's revision meets a change and finds it no news (`:627`); a save that ends after
  that writes back the revision the server gave it (`:255`), and if the change was later
  the tab goes on showing what the server has left. A document discarded while a fetch that
  found none here is under way comes back with what the fetch brings (`:1021`, `:627`).
- *roles*: two `member.set-role`, or two removals, that overlap can each count on the
  other's member; a socket that opens during a change, and the sockets two changes
  refresh at once, keep what an older query said.
- *domains*: two tags that overlap leave an object in two domains; an import gives an
  object a domain although a shelf holds it, and two if the file lists it under two names,
  which nothing refuses (`contracts/src/git.ts:201-217`, `git/config.ts:276-290`,
  `import.ts:154-176` against `domains/service.ts:17-22` and `domains.md:36`).
- *repository commands*: `runner.ts:112` says a restart orphans nothing, and `shutdown`
  (`index.ts:508-515`) stops no run; `repo.changed` empties every panel, and with it the
  button that stops a run that goes on. The hash an approval sends back covers cwd, env,
  timeoutSeconds and background (`git/commands.ts:43-57`), and the panel renders names,
  argvs and descriptions (`RepoCommands.tsx:64-75`): a list that differs from another in
  the rest looks the same, although `repo-commands.md:113-116` says that what was approved
  "has to be what they saw" and `:92-94` that background is visible in the approval list.
  `runner.ts:24` speaks of "a kill that reaches the children", and `child.kill()` signals
  the process the server spawned and none that it started.
- *MySQL* (not modelled): the driver resolves a killed statement as if it had succeeded,
  so a `KILL QUERY` that arrives late, on a connection that has a new owner, makes another
  execution report a statement as done that was not (`mysql/adapter.ts:364`).

## 6. Not modelled

- *MySQL sessions*: PostgresSession without cursors; what is their own is described above.
- *Presence, rate limits, the SSRF guard*: maps in memory that change without an await;
  nothing interleaves, and their unit tests reach every branch.
- *Authentication, connections and secrets*: libraries, cryptography and single-row
  writes.
- *MCP endpoint*: its tools are the capabilities ProjectRoles has and the sandboxes
  PostgresSession and SqliteSession have; the classifier in front of them parses SQL, and
  the models assume nothing of it.
- *Migrations*: one transaction per file under an advisory lock.
- *Gripes, SQL tools, completion, object rendering*: pure functions of text.
- *Execution history, explorer, HTTP, configuration, logging, contracts, user interface,
  desktop shell*: reads, I/O, wiring and rendering. What the user interface does to the
  stores on a reconnect is part of ResultStream, DocumentSync and RepoCommands.

PROJECT.json lists every component with its status, and every hazard with the properties
that cover it or the reason why none does.
