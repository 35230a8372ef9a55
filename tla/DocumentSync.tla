---------------------------- MODULE DocumentSync ----------------------------
(***************************************************************************)
(* One document in one browser tab: the documents store, the rows of       *)
(* IndexedDB that survive the tab, and the server it is shared through     *)
(* (apps/web/src/stores/documents.ts, persistence/drafts.ts,               *)
(* persistence/debounce.ts).                                               *)
(*                                                                         *)
(* Every method of the store reads the document, awaits, and writes back.  *)
(* A call is such a method between its awaits: local is the document as it *)
(* read it.  A content is a number: 0 is the empty document, what the user *)
(* types counts up from 1 and what everybody else saves counts down from   *)
(* -1, so that no two writings are ever equal.                             *)
(***************************************************************************)
EXTENDS Integers, SequencesExt

CONSTANTS
  None,       \* no document, row, draft, checkpoint or conflict
  MaxTyped,   \* bound: bursts of typing
  MaxOthers,  \* bound: saves by other people
  MaxActs,    \* bound: saves, renames, reverts and discards by the user
  MaxDrops,   \* bound: lost connections and timed-out requests
  MaxStarts,  \* bound: times the tab is loaded again
  MaxEvents,  \* bound: all of these together
  CallIds     \* bound: methods of the store awaiting at once

ASSUME SyncAssumption ==
  /\ {MaxTyped, MaxOthers, MaxActs, MaxDrops, MaxStarts, MaxEvents} \subseteq Nat
  /\ CallIds # {}

VARIABLES
  doc,       \* documents[id] in the store
  row,       \* db.documents: the last saved state
  draft,     \* db.drafts: the last checkpoint of unsaved content
  pending,   \* the checkpoint the debouncer will write
  known,     \* is the document in serverDocs?
  conflict,  \* conflicts[id]: the banner
  online,    \* is the socket open?
  events,    \* document.changed messages on their way to this tab
  calls,     \* what awaits
  server,    \* the server's row, with every content it ever had
  clock,     \* the time: now() is never the same twice
  typed,     \* history: what the user typed and neither saved nor gave up
  excused,   \* history: which promise one of the mishaps below has voided
  count      \* how often each bounded thing has happened

local == <<doc, row, draft, pending>>
vars == <<local, known, conflict, online, events, calls, server, clock,
          typed, excused, count>>

-----------------------------------------------------------------------------

Contents == -MaxOthers .. MaxTyped

(* held is a history field: the server acknowledged this content under     *)
(* this revision.                                                          *)
DocType == [cur : Contents, saved : Contents, rev : Nat, dirty : BOOLEAN,
            shared : BOOLEAN, at : Nat, held : BOOLEAN]
(* touched is a history field: the row's time moved without a save.      *)
RowType == [content : Contents, rev : Nat, shared : BOOLEAN, at : Nat,
            held : BOOLEAN, touched : BOOLEAN]
DraftType == [content : Contents, base : Nat, at : Nat]
ServerType == [hist : Seq(Contents), live : BOOLEAN, at : Nat]
Snapshot == [rev : Nat, content : Contents, at : Nat]
ASSUME NoneAssumption ==
  None \notin DocType \cup RowType \cup DraftType \cup Snapshot \cup Contents
ReplyType == [kind : {"none", "document", "conflict", "created", "existed",
                      "missing", "list"}, value : Snapshot \cup {None}]
Events == [rev : Nat, archived : BOOLEAN]
Ops == {"idle", "save", "force", "publish", "create", "sync", "fetch",
        "archive", "reload"}
CallType == [op : Ops, pc : {"sent", "answered", "storing"},
             local : DocType \cup {None}, base : Nat, reply : ReplyType]
(* "typing": what is typed survives.  "draft": what a draft restores was    *)
(* not given up.  "sync": a quiet tab shows what the server has.  A method  *)
(* that writes the document back over a change voids them all.             *)
Promises == {"typing", "draft", "sync"}
Bounded == {"typed", "others", "acts", "drops", "starts"}

TypeOK ==
  /\ doc \in DocType \cup {None}
  /\ row \in RowType \cup {None}
  /\ draft \in DraftType \cup {None}
  /\ pending \in DraftType \cup {None}
  /\ known \in BOOLEAN
  /\ conflict \in Snapshot \cup {None}
  /\ online \in BOOLEAN
  /\ events \subseteq Events
  /\ calls \in [CallIds -> CallType]
  /\ server \in ServerType
  /\ clock \in Nat
  /\ typed \in Contents \cup {None}
  /\ excused \subseteq Promises
  /\ count \in [Bounded -> Nat]

NoReply == [kind |-> "none", value |-> None]
Idle == [op |-> "idle", pc |-> "sent", local |-> None, base |-> 0, reply |-> NoReply]

(* A tab with nothing in it, and a workspace without the document.         *)
Init ==
  /\ doc = None /\ row = None /\ draft = None /\ pending = None
  /\ known = FALSE
  /\ conflict = None
  /\ online = TRUE
  /\ events = {}
  /\ calls = [k \in CallIds |-> Idle]
  /\ server = [hist |-> <<>>, live |-> FALSE, at |-> 0]
  /\ clock = 0
  /\ typed = None
  /\ excused = {}
  /\ count = [b \in Bounded |-> 0]

-----------------------------------------------------------------------------

Count(b, max) ==
  /\ count[b] < max
  /\ count["typed"] + count["others"] + count["acts"] + count["drops"] + count["starts"] < MaxEvents
  /\ count' = [count EXCEPT ![b] = @ + 1]
Now == clock + 1
Tick == clock' = Now

(* The server's row.                                                       *)
Exists == server.hist # <<>>
Revision == Len(server.hist) - 1
Current == [rev |-> Revision, content |-> Last(server.hist), at |-> server.at]

(* A call takes a free slot; which one does not matter.                    *)
Free == {k \in CallIds : calls[k].op = "idle"}
Slot == CHOOSE k \in Free : TRUE
MayCall == Free # {}
Call(op, pc, d, base) == [op |-> op, pc |-> pc, local |-> d, base |-> base,
                          reply |-> NoReply]
Begin(call) == MayCall /\ calls' = [calls EXCEPT ![Slot] = call]
Become(k, call) == calls' = [calls EXCEPT ![k] = call]
End(k) == Become(k, Idle)
OnSocket(call) == call.op \notin {"idle", "reload"} /\ call.pc # "storing"

(* The rows a method writes.                                               *)
RowOf(d, at) == [content |-> d.saved, rev |-> d.rev, shared |-> d.shared,
                 at |-> at, held |-> d.held, touched |-> FALSE]
CheckpointOf(d) == [content |-> d.cur, base |-> d.rev, at |-> d.at]

(* Mutant: the content comes without its revision.                         *)
AdoptedContent(d, s) == [d EXCEPT !.cur = s.content, !.saved = s.content,
                                  !.dirty = FALSE, !.at = s.at, !.held = TRUE]

(* The document that holds what the server answered.                       *)
Adopted(d, s) == [d EXCEPT !.cur = s.content, !.saved = s.content, !.rev = s.rev,
                           !.dirty = FALSE, !.at = s.at, !.held = TRUE]
Fetched(s) == [cur |-> s.content, saved |-> s.content, rev |-> s.rev, dirty |-> FALSE,
               shared |-> TRUE, at |-> s.at, held |-> TRUE]

(* A method writes back the document it read; if that is no longer the     *)
(* document, what happened in between is gone.                             *)
Raced(k) == IF doc = calls[k].local THEN {} ELSE Promises
WriteBack(k, d) ==
  /\ doc' = d
  /\ excused' = excused \cup Raced(k)

-----------------------------------------------------------------------------
(* What the user does                                                      *)

(* createDocument(): a shared file is registered at once if it can be.     *)
CreateDocument(shared) ==
  LET d == [cur |-> 0, saved |-> 0, rev |-> 0, dirty |-> FALSE, shared |-> shared,
            at |-> Now, held |-> FALSE]
  IN
  /\ doc = None /\ row = None /\ draft = None /\ ~Exists
  /\ Tick
  /\ doc' = d
  /\ row' = RowOf(d, Now)
  /\ IF shared /\ online THEN Begin(Call("create", "sent", d, 0)) ELSE UNCHANGED calls
  /\ UNCHANGED <<draft, pending, known, conflict, online, events, server, typed, excused,
                 count>>

(* updateContent(): something new, or back to what is saved.               *)
UpdateContent(content) ==
  /\ doc # None
  /\ content # doc.cur
  /\ Count("typed", MaxTyped)
  /\ Tick
  /\ doc' = [doc EXCEPT !.cur = content, !.dirty = content # doc.saved, !.at = Now]
  /\ pending' = CheckpointOf(doc')
  /\ typed' = IF content = doc.saved THEN None ELSE content
  /\ UNCHANGED <<row, draft, known, conflict, online, events, calls, server, excused>>

(* The debouncer's timer, its flush, and a tab that is about to close.     *)
Checkpoint ==
  /\ pending # None
  /\ draft' = pending
  /\ pending' = None
  /\ UNCHANGED <<doc, row, known, conflict, online, events, calls, server, clock,
                 typed, excused, count>>

(* onLastRelease: the last view of the document closes.                    *)
ReleaseModel ==
  /\ doc # None
  /\ Count("acts", MaxActs)
  /\ pending' = None
  /\ draft' = CheckpointOf(doc)
  /\ UNCHANGED <<doc, row, known, conflict, online, events, calls, server, clock,
                 typed, excused>>

(* saveInternal() up to its first await, and from the answer to the next   *)
(* one: the row is written first.  Without a socket the save is local, one *)
(* revision on from the one it is based on.                                *)
StoreSave(k, d, rev, held) ==
  /\ Tick
  /\ row' = [RowOf(d, Now) EXCEPT !.content = d.cur, !.rev = rev, !.held = held]
  /\ typed' = IF typed = d.cur THEN None ELSE typed
  /\ Become(k, [Call("save", "storing", d, 0) EXCEPT
                  !.reply = [kind |-> IF held THEN "document" ELSE "none",
                             value |-> [rev |-> rev, content |-> d.cur, at |-> Now]]])

(* The pending checkpoint is cancelled before the server has answered.     *)
Cancelled == IF online /\ pending # None THEN excused \cup {"typing"} ELSE excused

(* Mutant: the local revision counts down.                                 *)
SaveInternalBackwards(k, d, base, force) ==
  /\ pending' = None
  /\ excused' = Cancelled
  /\ StoreSave(k, d, base - 1, FALSE)

SaveInternal(k, d, base, force) ==
  /\ pending' = None
  /\ excused' = Cancelled
  /\ IF online
     THEN /\ Become(k, Call(IF known \/ base > 0
                            THEN IF force THEN "force" ELSE "save"
                            ELSE "publish", "sent", d, base))
          /\ UNCHANGED <<row, clock, typed>>
     ELSE StoreSave(k, d, base + 1, FALSE)

SaveDocument ==
  /\ doc # None
  /\ MayCall
  /\ Count("acts", MaxActs)
  /\ SaveInternal(Slot, doc, doc.rev, FALSE)
  /\ UNCHANGED <<doc, draft, known, conflict, online, events, server>>

(* What was saved is older than the document, and not what the server has: *)
(* a local save on a banner's revision, or one the server took from a      *)
(* document that local saves had carried past it.                          *)
Outdated(k) ==
  LET stored == calls[k].reply.value
  IN
  IF stored.rev < calls[k].local.rev /\ ~(calls[k].reply.kind = "document" /\ stored.rev = Revision)
  THEN {"sync"} ELSE {}

(* ... then the draft is deleted, and the document written back.           *)
FinishSave(k) ==
  LET stored == calls[k].reply.value
  IN
  /\ calls[k].op = "save" /\ calls[k].pc = "storing"
  /\ draft' = None
  /\ doc' = [calls[k].local EXCEPT
                !.saved = stored.content, !.rev = stored.rev, !.dirty = FALSE,
                !.at = stored.at, !.held = calls[k].reply.kind = "document"]
  /\ excused' = excused \cup Raced(k) \cup Outdated(k)
  /\ End(k)
  /\ UNCHANGED <<row, pending, known, conflict, online, events, server, clock, typed,
                 count>>

(* renameDocument(): the row's time moves, and a shared file is saved.     *)
RenameDocument ==
  LET renamed == [doc EXCEPT !.at = Now]
  IN
  /\ doc # None
  /\ Count("acts", MaxActs)
  /\ Tick
  /\ doc' = renamed
  /\ row' = IF row = None THEN None ELSE [row EXCEPT !.at = Now, !.touched = TRUE]
  /\ IF doc.shared /\ online
     THEN /\ MayCall
          /\ pending' = None
          /\ excused' = Cancelled
          /\ Become(Slot, Call(IF known \/ doc.rev > 0 THEN "save" ELSE "publish",
                               "sent", renamed, doc.rev))
     ELSE UNCHANGED <<pending, calls, excused>>
  /\ UNCHANGED <<draft, known, conflict, online, events, server, typed>>

(* Mutant: the draft stays.                                                *)
RevertKeepsDraft ==
  /\ doc # None
  /\ doc.dirty
  /\ Count("acts", MaxActs)
  /\ doc' = [doc EXCEPT !.cur = doc.saved, !.dirty = FALSE]
  /\ pending' = None
  /\ typed' = None
  /\ UNCHANGED <<row, draft, known, conflict, online, events, calls, server, clock, excused>>

(* revertDocument(): back to the last save.                                *)
RevertDocument ==
  /\ doc # None
  /\ doc.dirty
  /\ Count("acts", MaxActs)
  /\ doc' = [doc EXCEPT !.cur = doc.saved, !.dirty = FALSE]
  /\ pending' = None
  /\ draft' = None
  /\ typed' = None
  /\ UNCHANGED <<row, known, conflict, online, events, calls, server, clock, excused>>

(* resolveConflict(): take theirs, or save over it.                        *)
ResolveReload ==
  /\ doc # None /\ conflict # None
  /\ MayCall
  /\ doc' = Adopted(doc, conflict)
  /\ pending' = None
  /\ draft' = None
  /\ conflict' = None
  /\ typed' = None
  /\ Begin(Call("reload", "storing", doc', 0))
  /\ excused' = IF conflict.rev < doc.rev THEN excused \cup {"sync"} ELSE excused
  /\ UNCHANGED <<row, known, online, events, server, clock, count>>

FinishReload(k) ==
  /\ calls[k].op = "reload"
  /\ row' = [RowOf(calls[k].local, calls[k].local.at) EXCEPT !.shared = FALSE]
  /\ End(k)
  /\ excused' = IF doc = calls[k].local THEN excused ELSE excused \cup {"draft"}
  /\ UNCHANGED <<doc, draft, pending, known, conflict, online, events, server, clock,
                 typed, count>>

ResolveKeep ==
  /\ doc # None /\ conflict # None
  /\ MayCall
  /\ conflict' = None
  /\ SaveInternal(Slot, doc, conflict.rev, TRUE)
  /\ UNCHANGED <<doc, draft, known, online, events, server, count>>

(* discardDocument(): archived on the server, then dropped here.           *)
Drop ==
  /\ doc' = None /\ row' = None /\ draft' = None
  /\ typed' = None

DiscardDocument ==
  /\ doc # None
  /\ Count("acts", MaxActs)
  /\ pending' = None
  /\ IF online /\ known
     THEN /\ Begin(Call("archive", "sent", doc, 0))
          /\ typed' = None
          /\ UNCHANGED <<doc, row, draft, excused>>
     ELSE /\ Drop
          /\ UNCHANGED calls
          /\ excused' = IF \E k \in CallIds : calls[k].op = "fetch" /\ calls[k].local = None
                        THEN excused \cup {"sync"} ELSE excused
  /\ UNCHANGED <<known, conflict, online, events, server, clock>>

-----------------------------------------------------------------------------
(* Other people, and the server                                            *)

(* The server's clock shows the time of the last thing that happened here. *)
Stores(content) ==
  server' = [hist |-> Append(server.hist, content), live |-> TRUE, at |-> clock]

Announce(archived) ==
  events' = IF online THEN events \cup {[rev |-> Len(server'.hist) - 1, archived |-> archived]}
            ELSE events

(* Somebody else creates the document or saves it.                         *)
OtherSaves ==
  /\ Exists => server.live
  /\ doc # None => Exists
  /\ Count("others", MaxOthers)
  /\ Stores(-count'["others"])
  /\ Announce(FALSE)
  /\ UNCHANGED <<local, known, conflict, online, calls, clock, typed, excused>>

OtherArchives ==
  /\ server.live
  /\ Count("others", MaxOthers)
  /\ server' = [server EXCEPT !.live = FALSE]
  /\ Announce(TRUE)
  /\ UNCHANGED <<local, known, conflict, online, calls, clock, typed, excused>>

(* The server handles a request.  A refused save answers with the row as   *)
(* it is; a create of a row that is there answers with that row.           *)
Answer(k, kind, value) ==
  Become(k, [calls[k] EXCEPT !.pc = "answered", !.reply = [kind |-> kind, value |-> value]])

Asked(k, ops) == calls[k].op \in ops /\ calls[k].pc = "sent"

ServeSave(k) ==
  /\ Asked(k, {"save", "force"})
  /\ IF ~server.live
     THEN Answer(k, "missing", None) /\ UNCHANGED server
     ELSE IF calls[k].base # Revision /\ calls[k].op # "force"
     THEN Answer(k, "conflict", Current) /\ UNCHANGED server
     ELSE /\ Stores(calls[k].local.cur)
          /\ Answer(k, "document", [rev |-> Revision + 1, content |-> calls[k].local.cur,
                                    at |-> clock])
  /\ UNCHANGED <<local, known, conflict, online, events, clock, typed, excused, count>>

(* A save that publishes sends what is typed, a registration what is saved. *)
ServeCreate(k) ==
  LET content == IF calls[k].op = "publish" THEN calls[k].local.cur ELSE calls[k].local.saved
  IN
  /\ Asked(k, {"publish", "create"})
  /\ IF ~Exists
     THEN /\ Stores(content)
          /\ Answer(k, "created", None)
     ELSE /\ Answer(k, IF server.live THEN "existed" ELSE "missing", None)
          /\ UNCHANGED server
  /\ UNCHANGED <<local, known, conflict, online, events, clock, typed, excused, count>>

ServeGet(k) ==
  /\ Asked(k, {"fetch"})
  /\ IF server.live THEN Answer(k, "document", Current) ELSE Answer(k, "missing", None)
  /\ UNCHANGED <<local, known, conflict, online, events, server, clock, typed, excused,
                 count>>

ServeList(k) ==
  /\ Asked(k, {"sync"})
  /\ Answer(k, "list", IF server.live THEN Current ELSE None)
  /\ UNCHANGED <<local, known, conflict, online, events, server, clock, typed, excused,
                 count>>

ServeArchive(k) ==
  /\ Asked(k, {"archive"})
  /\ server' = [server EXCEPT !.live = FALSE]
  /\ Answer(k, "document", None)
  /\ UNCHANGED <<local, known, conflict, online, events, clock, typed, excused, count>>

-----------------------------------------------------------------------------
(* What the tab does with the answers                                      *)

Answered(k, ops) == online /\ calls[k].op \in ops /\ calls[k].pc = "answered"

(* A save: stored here too, or the banner, or an error and still dirty.    *)
SaveAnswered(k) ==
  LET reply == calls[k].reply
      rev == IF reply.kind = "document" THEN reply.value.rev ELSE 0
  IN
  /\ Answered(k, {"save", "force", "publish"})
  /\ IF reply.kind \in {"document", "created", "existed"}
     THEN /\ known' = TRUE
          /\ StoreSave(k, calls[k].local, rev, reply.kind # "existed")
          /\ excused' = excused \cup Raced(k)
          /\ UNCHANGED conflict
     ELSE /\ conflict' = IF reply.kind = "conflict" THEN reply.value ELSE conflict
          /\ End(k)
          /\ UNCHANGED <<known, row, clock, typed, excused>>
  /\ UNCHANGED <<doc, draft, pending, online, events, server, count>>

CreateAnswered(k) ==
  /\ Answered(k, {"create"})
  /\ known' = (known \/ calls[k].reply.kind # "missing")
  /\ End(k)
  /\ UNCHANGED <<local, conflict, online, events, server, clock, typed, excused, count>>

ArchiveAnswered(k) ==
  /\ Answered(k, {"archive"})
  /\ known' = FALSE
  /\ Drop
  /\ End(k)
  /\ excused' = excused \cup Raced(k)
  /\ UNCHANGED <<pending, conflict, online, events, server, clock, count>>

(* Mutant: a draft is no reason to keep the document.                      *)
AlwaysClean(read) == TRUE
Clean(read) == read = None \/ ~read.dirty

(* fetchServerDocument() has answered, for a change or for a sync: add the *)
(* document, adopt what the server has, or keep the draft and flag it.     *)
Adopt(k) ==
  LET read == calls[k].local
      got == calls[k].reply.value
      adopted == IF read = None THEN Fetched(got) ELSE Adopted(read, got)
  IN
  /\ Answered(k, {"fetch"})
  /\ IF calls[k].reply.kind = "missing"
     THEN UNCHANGED <<local, conflict, excused>>
     ELSE IF Clean(read)
     THEN /\ WriteBack(k, adopted)
          /\ row' = [RowOf(adopted, got.at) EXCEPT !.shared = TRUE]
          /\ IF read = None THEN UNCHANGED <<draft, pending>>
             ELSE draft' = None /\ pending' = None
          /\ UNCHANGED conflict
     ELSE /\ WriteBack(k, [read EXCEPT !.saved = got.content, !.rev = got.rev, !.held = TRUE])
          /\ conflict' = got
          /\ UNCHANGED <<row, draft, pending>>
  /\ End(k)
  /\ UNCHANGED <<known, online, events, server, clock, typed, count>>

(* Mutant: a change is taken for an older one.                             *)
FarBehind(rev) == rev > doc.rev + 1
Behind(rev) == rev > doc.rev

(* applyServerChange() up to its first await.                              *)
ApplyServerChange(e) ==
  /\ e \in events
  /\ events' = events \ {e}
  /\ known' = TRUE
  /\ IF e.archived
     THEN /\ IF doc # None /\ ~doc.dirty THEN doc' = None /\ row' = None
             ELSE UNCHANGED <<doc, row>>
          /\ excused' = IF doc # None /\ ~doc.dirty /\ {draft, pending} # {None}
                        THEN excused \cup {"draft"} ELSE excused
          /\ UNCHANGED calls
     ELSE /\ IF doc = None \/ (doc.shared /\ Behind(e.rev))
             THEN Begin(Call("fetch", "sent", doc, 0))
             ELSE UNCHANGED calls
          /\ excused' = IF doc # None /\ ~doc.shared /\ Behind(e.rev)
                        THEN excused \cup {"sync"} ELSE excused
          /\ UNCHANGED <<doc, row>>
  /\ UNCHANGED <<draft, pending, conflict, online, server, clock, typed, count>>

(* syncFromServer() up to its first await, for the list it was given.      *)
SyncFromServer(k) ==
  LET list == calls[k].reply.value
  IN
  /\ Answered(k, {"sync"})
  /\ known' = (list # None)
  /\ CASE list # None /\ (doc = None \/ Behind(list.rev)) ->
            Become(k, Call("fetch", "sent", doc, 0)) /\ UNCHANGED <<local, clock, typed, excused>>
       [] list # None /\ doc # None /\ doc.shared /\ doc.rev > list.rev
          /\ ~doc.dirty /\ known ->
            SaveInternal(k, doc, doc.rev, FALSE) /\ UNCHANGED <<doc, draft>>
       [] list # None /\ doc # None /\ ~doc.shared /\ doc.rev = list.rev ->
            /\ doc' = [doc EXCEPT !.shared = TRUE]
            /\ row' = [RowOf(doc', doc.at) EXCEPT !.touched = TRUE]
            /\ End(k)
            /\ UNCHANGED <<draft, pending, clock, typed, excused>>
       [] list = None /\ doc # None /\ doc.shared /\ doc.rev = 0 ->
            Become(k, Call("create", "sent", doc, 0)) /\ UNCHANGED <<local, clock, typed, excused>>
       [] OTHER -> End(k) /\ UNCHANGED <<local, clock, typed, excused>>
  /\ UNCHANGED <<conflict, online, events, server, count>>

-----------------------------------------------------------------------------
(* The socket, and the tab                                                 *)

(* A request fails: the socket closed, or 15 s went by.  A save becomes a  *)
(* local one; a fetch, a registration or a list is simply not repeated.    *)
GiveUp(k) ==
  CASE calls[k].op \in {"save", "force", "publish"} ->
         StoreSave(k, calls[k].local, calls[k].base + 1, FALSE)
         /\ UNCHANGED <<doc, draft, pending, known>>
    [] calls[k].op = "archive" ->
         /\ known' = FALSE
         /\ Drop
         /\ End(k)
         /\ UNCHANGED <<pending, clock>>
    [] OTHER -> End(k) /\ UNCHANGED <<local, known, clock, typed>>

Overtaken(k) == IF calls[k].op \in {"save", "force", "publish", "archive"} THEN Raced(k) ELSE {}

RequestFails(k) ==
  /\ OnSocket(calls[k])
  /\ ~online
  /\ GiveUp(k)
  /\ excused' = excused \cup Overtaken(k)
  /\ UNCHANGED <<conflict, online, events, server, count>>

TimeOut(k) ==
  /\ OnSocket(calls[k])
  /\ online
  /\ Count("drops", MaxDrops)
  /\ GiveUp(k)
  /\ excused' = excused \cup {"sync"} \cup Overtaken(k)
  /\ UNCHANGED <<conflict, online, events, server>>

Disconnect ==
  /\ online
  /\ Count("drops", MaxDrops)
  /\ online' = FALSE
  /\ events' = {}
  /\ UNCHANGED <<local, known, conflict, calls, server, clock, typed, excused>>

(* onOpen: ask for the workspace and its documents, then sync.             *)
Connect ==
  /\ ~online
  /\ \A k \in CallIds : ~OnSocket(calls[k])
  /\ online' = TRUE
  /\ Begin(Call("sync", "sent", None, 0))
  /\ UNCHANGED <<local, known, conflict, events, server, clock, typed, excused, count>>

(* mergeDrafts(): a draft newer than the row it belongs to wins.           *)
(* A draft whose row is gone does not come back: hydrate() passes on only  *)
(* the drafts of rows it loads (documents.ts:297-304).                     *)
DraftWins == draft # None /\ draft.at > row.at
Recovered ==
  IF row = None THEN None
  ELSE [cur |-> IF DraftWins THEN draft.content ELSE row.content,
        saved |-> row.content, rev |-> row.rev, dirty |-> DraftWins,
        shared |-> row.shared, at |-> IF DraftWins THEN draft.at ELSE row.at,
        held |-> row.held]

(* The tab is gone, with everything in memory, and hydrate() starts a new  *)
(* one from IndexedDB.  What was typed since the last checkpoint is lost.  *)
Restart ==
  /\ Count("starts", MaxStarts)
  /\ doc' = Recovered
  /\ pending' = None
  /\ known' = FALSE
  /\ conflict' = None
  /\ online' = FALSE
  /\ events' = {}
  /\ calls' = [k \in CallIds |-> Idle]
  /\ typed' = CASE row # None /\ DraftWins -> draft.content
               [] pending # None /\ ~(row # None /\ DraftWins) -> None
               [] OTHER -> typed
  /\ excused' = IF row # None /\ row.touched /\ draft # None /\ ~DraftWins
                THEN excused \cup {"typing"} ELSE excused
  /\ UNCHANGED <<row, draft, server, clock>>

-----------------------------------------------------------------------------

User ==
  \/ \E shared \in BOOLEAN : CreateDocument(shared)
  \/ UpdateContent(count["typed"] + 1)
  \/ doc # None /\ UpdateContent(doc.saved)
  \/ ReleaseModel \/ SaveDocument \/ RenameDocument \/ RevertDocument
  \/ ResolveReload \/ ResolveKeep \/ DiscardDocument
Others == OtherSaves \/ OtherArchives
Serve(k) == ServeSave(k) \/ ServeCreate(k) \/ ServeGet(k) \/ ServeList(k) \/ ServeArchive(k)
Proceed(k) ==
  \/ SaveAnswered(k) \/ CreateAnswered(k) \/ ArchiveAnswered(k) \/ Adopt(k)
  \/ SyncFromServer(k) \/ FinishSave(k) \/ FinishReload(k) \/ RequestFails(k)

Next ==
  \/ User \/ Others \/ Checkpoint
  \/ \E k \in CallIds : Serve(k) \/ Proceed(k) \/ TimeOut(k)
  \/ \E e \in events : ApplyServerChange(e)
  \/ Disconnect \/ Connect \/ Restart

Spec == Init /\ [][Next]_vars

-----------------------------------------------------------------------------

(* Four mishaps void the promise about typing: a method wrote back a       *)
(* document that had changed while it awaited; a save cancelled a          *)
(* checkpoint before there was anything in its place; a rename, or the     *)
(* repair of the shared flag, made the row newer than the draft.           *)
Undisturbed == "typing" \notin excused

(* What the user typed is in the editor until it is saved or given up, also *)
(* after conflicts, lost connections and a tab that was loaded again.       *)
NothingTypedIsLost ==
  Undisturbed /\ typed # None => doc # None /\ doc.cur = typed

(* A tab loaded again brings back nothing the user had saved or given up:   *)
(* what a draft restores is unsaved typing, or what is saved somewhere.     *)
(* Void too once a reload has put its row over that of a later save, or an  *)
(* archived document was dropped without its draft.                         *)
NothingGivenUpComesBack ==
  /\ Undisturbed /\ "draft" \notin excused
  /\ row # None /\ DraftWins /\ typed = None /\ pending = None
  /\ \A k \in CallIds : calls[k].pc # "storing" /\ calls[k].op # "archive"
  => draft.content \in {row.content} \cup ToSet(server.hist)

(* A revision the server has acknowledged names one content, here as on the *)
(* server, whatever overlaps: in the store, in IndexedDB and in the banner. *)
(* Of the number a save without an answer gives its own content nothing is  *)
(* said; somebody else's content may have it too (documents.ts:488).        *)
Names(rev, content) == rev + 1 \in DOMAIN server.hist /\ server.hist[rev + 1] = content
RevisionNamesContent ==
  /\ doc # None /\ doc.held => Names(doc.rev, doc.saved)
  /\ row # None /\ row.held => Names(row.rev, row.content)
  /\ conflict # None => Names(conflict.rev, conflict.content)

(* When nothing is on its way, a connected tab without edits of its own     *)
(* shows what the server has.  Void after a write-back over a change, a     *)
(* request that timed out on an open socket, a banner answered after a      *)
(* later save, a change met by a document not yet marked shared, a save     *)
(* that takes the document back to a revision the server has left, and a    *)
(* document discarded while a fetch that found none here is on its way.     *)
Quiet == online /\ events = {} /\ \A k \in CallIds : calls[k] = Idle
QuietMeansInSync ==
  /\ Quiet /\ "sync" \notin excused
  /\ doc # None /\ doc.shared /\ doc.held /\ ~doc.dirty
  /\ server.live
  => doc.rev = Revision /\ doc.cur = Last(server.hist)

(* "A dirty draft is never silently overwritten": what a change or a sync   *)
(* writes back keeps what is typed.                                         *)
DraftsAreNotOverwritten ==
  [][\A k \in CallIds : Adopt(k) /\ doc # None /\ doc.dirty => doc'.cur = doc.cur]_vars
=============================================================================
