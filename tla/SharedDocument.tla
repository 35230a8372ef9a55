--------------------------- MODULE SharedDocument ---------------------------
(***************************************************************************)
(* One file opened as a shared document: the rows of `documents` that      *)
(* cache it, the file itself, and the requests document.save,              *)
(* document.archive and file.open                                          *)
(* (apps/server/src/documents/service.ts, ws/dispatch.ts,                  *)
(* db/app/idempotency.ts, files/browse.ts).                                *)
(*                                                                         *)
(* A request is a coroutine; pc says which query or file operation it will *)
(* do next, and everything it does between two awaits is one action.  A    *)
(* content is a token, and disk_content_hash, which is compared and never  *)
(* inverted, is the content it was computed from.                          *)
(***************************************************************************)
EXTENDS Integers, FiniteSets

CONSTANTS
  Saves,       \* document.save requests
  Forced,      \* those of them that carry force
  Opens,       \* file.open requests
  Keys,        \* idempotency keys; a key also names the content it saves
  Key,         \* the key of each save
  Original,    \* what the file holds at first
  Edits,       \* what somebody may write to the file outside DataGripe
  TwinOverlap, \* may a save be retried while its first attempt is in flight?
  WriteFails,  \* may writing the file be refused?
  MaxInFlight, \* bound: requests in flight at once
  MaxEdits,    \* bound: edits outside DataGripe
  MaxRows      \* bound: rows ever created for the file

ASSUME DocumentAssumption ==
  /\ Forced \subseteq Saves
  /\ Saves \cap Opens = {}
  /\ Key \in [Saves -> Keys]
  /\ Original \notin Keys \cup Edits
  /\ Keys \cap Edits = {}
  /\ {TwinOverlap, WriteFails} \subseteq BOOLEAN
  /\ {MaxInFlight, MaxEdits} \subseteq Nat
  /\ MaxRows \in Nat \ {0}

VARIABLES
  row,     \* the rows of `documents` that came from the file
  disk,    \* the file
  stored,  \* idempotency_keys: the response stored under each key
  pc,      \* what each request does next
  target,  \* the row a request names or has found
  base,    \* request.revision of a save
  seen,    \* the row as an open read it
  onDisk,  \* the file as an open read it
  result,  \* what the request is answered
  edits,
  overlapped  \* history: the requests during which another, or an archive, began

requestVars == <<pc, target, base, seen, onDisk, result>>
vars == <<row, disk, stored, requestVars, edits, overlapped>>

-----------------------------------------------------------------------------

Requests == Saves \cup Opens
RowIds == 1..MaxRows
Contents == {Original} \cup Keys \cup Edits

SavePoints == {"lookup", "reading", "updating", "storing", "writing", "marking"}
OpenPoints == {"file", "finding", "inserting", "finding again", "comparing",
               "checking", "adopting"}
Ended == {"answered", "conflict", "error", "diverged"}

NoRow == [state |-> "absent", revision |-> 0, content |-> Original, hash |-> Original]
RowType == [state : {"absent", "live", "archived"}, revision : Nat,
            content : Contents, hash : Contents]
NoResult == [document |-> 0, revision |-> 0, content |-> Original]
ResultType == [document : 0..MaxRows, revision : Nat, content : Contents]

TypeOK ==
  /\ row \in [RowIds -> RowType]
  /\ disk \in Contents
  /\ stored \in [Keys -> ResultType]
  /\ pc \in [Requests -> {"unsent"} \cup SavePoints \cup OpenPoints \cup Ended]
  /\ target \in [Requests -> 0..MaxRows]
  /\ base \in [Saves -> Nat]
  /\ seen \in [Opens -> RowType]
  /\ onDisk \in [Opens -> Contents]
  /\ result \in [Requests -> ResultType]
  /\ edits \in 0..MaxEdits
  /\ overlapped \subseteq Requests

(* Nobody has opened the file yet, or somebody has: its row caches it.     *)
Init ==
  /\ \E opened \in SUBSET {1} :
       row = [d \in RowIds |-> IF d \in opened THEN [NoRow EXCEPT !.state = "live"] ELSE NoRow]
  /\ disk = Original
  /\ stored = [k \in Keys |-> NoResult]
  /\ pc = [r \in Requests |-> "unsent"]
  /\ target = [r \in Requests |-> 0]
  /\ base = [r \in Saves |-> 0]
  /\ seen = [r \in Opens |-> NoRow]
  /\ onDisk = [r \in Opens |-> Original]
  /\ result = [r \in Requests |-> NoResult]
  /\ edits = 0
  /\ overlapped = {}

-----------------------------------------------------------------------------

Live(d) == row[d].state = "live"
LiveRows == {d \in RowIds : Live(d)}
InFlight(r) == pc[r] \notin {"unsent"} \cup Ended
Goto(r, point) == pc' = [pc EXCEPT ![r] = point]
ResultOf(d, content) == [document |-> d, revision |-> content.revision,
                         content |-> content.content]
Respond(r, value) == result' = [result EXCEPT ![r] = value]

(* getRow(): the row a request names, unless it was archived.              *)
RowMissing(r) == ~Live(target[r])

Running == {r \in Requests : InFlight(r)}
Quiet == Running = {}

(* Something begins: a request, or an archive, which is no request.  Of    *)
(* what has ended only whether anything overlapped at all is remembered.   *)
Begin(begun) ==
  /\ Cardinality(Running) < MaxInFlight
  /\ overlapped' = (IF Quiet THEN {} ELSE Running \cup begun)
                    \cup (IF overlapped = {} THEN {} ELSE {r \in Requests : pc[r] \in Ended})

CanSend(r) == pc[r] = "unsent" /\ Begin({r})

-----------------------------------------------------------------------------
(* document.save                                                           *)

(* A client saves a row it has had, over a revision it has seen; a retry   *)
(* repeats the request it retries.                                         *)
SendSave(r, d, revision) ==
  /\ CanSend(r)
  /\ row[d].state # "absent"
  /\ revision <= row[d].revision
  /\ \A twin \in Saves \ {r} :
       Key[twin] = Key[r] /\ pc[twin] # "unsent" =>
         /\ target[twin] = d /\ base[twin] = revision
         /\ TwinOverlap \/ ~InFlight(twin)
  /\ Goto(r, "lookup")
  /\ target' = [target EXCEPT ![r] = d]
  /\ base' = [base EXCEPT ![r] = revision]
  /\ UNCHANGED <<row, disk, stored, seen, onDisk, result, edits>>

(* withIdempotency(): a stored response stands for the mutation ...        *)
LookUp(r) ==
  /\ pc[r] = "lookup"
  /\ IF stored[Key[r]] = NoResult
     THEN Goto(r, "reading") /\ UNCHANGED result
     ELSE Goto(r, "writing") /\ Respond(r, stored[Key[r]])
  /\ UNCHANGED <<row, disk, stored, target, base, seen, onDisk, edits, overlapped>>

(* Mutant: the revision is not compared.                                   *)
ReadUnguarded(r) ==
  /\ pc[r] = "reading"
  /\ Goto(r, IF RowMissing(r) THEN "error" ELSE "updating")
  /\ UNCHANGED <<row, disk, stored, target, base, seen, onDisk, result, edits, overlapped>>

(* saveDocument(), first query: the row has to be there, at the revision   *)
(* the save is based on.                                                   *)
Read(r) ==
  /\ pc[r] = "reading"
  /\ Goto(r, CASE RowMissing(r) -> "error"
               [] ~RowMissing(r) /\ r \notin Forced /\ row[target[r]].revision # base[r]
                    -> "conflict"
               [] OTHER -> "updating")
  /\ UNCHANGED <<row, disk, stored, target, base, seen, onDisk, result, edits, overlapped>>

(* Mutant: the new revision is counted from the one the client sent.       *)
UpdateFromBase(r) ==
  LET updated == [row[target[r]] EXCEPT !.content = Key[r], !.revision = base[r] + 1]
  IN  /\ pc[r] = "updating"
      /\ row' = [row EXCEPT ![target[r]] = updated]
      /\ Respond(r, ResultOf(target[r], updated))
      /\ Goto(r, "storing")
      /\ UNCHANGED <<disk, stored, target, base, seen, onDisk, edits, overlapped>>

(* saveDocument(), second query: UPDATE ... WHERE id = ${request.id}.      *)
Update(r) ==
  LET updated == [row[target[r]] EXCEPT !.content = Key[r], !.revision = @ + 1]
  IN  /\ pc[r] = "updating"
      /\ row' = [row EXCEPT ![target[r]] = updated]
      /\ Respond(r, ResultOf(target[r], updated))
      /\ Goto(r, "storing")
      /\ UNCHANGED <<disk, stored, target, base, seen, onDisk, edits, overlapped>>

(* Mutant: the response is never stored.                                   *)
StoreNothing(r) ==
  /\ pc[r] = "storing"
  /\ Goto(r, "writing")
  /\ UNCHANGED <<row, disk, stored, target, base, seen, onDisk, result, edits, overlapped>>

(* ... and the first response stored under a key stays.                    *)
Store(r) ==
  /\ pc[r] = "storing"
  /\ stored' = IF stored[Key[r]] = NoResult
               THEN [stored EXCEPT ![Key[r]] = result[r]] ELSE stored
  /\ Goto(r, "writing")
  /\ UNCHANGED <<row, disk, target, base, seen, onDisk, result, edits, overlapped>>

(* Mutant: a refused write is swallowed.                                   *)
WriteSwallowed(r) ==
  /\ pc[r] = "writing"
  /\ Goto(r, "marking")
  /\ disk' = result[r].content \/ (WriteFails /\ UNCHANGED disk)
  /\ UNCHANGED <<row, stored, target, base, seen, onDisk, result, edits, overlapped>>

(* writeDocumentToDisk(): the file takes the content of the response.  The *)
(* path may be gone, or the write refused.                                 *)
Write(r) ==
  /\ pc[r] = "writing"
  /\ \/ disk' = result[r].content /\ Goto(r, "marking")
     \/ WriteFails /\ UNCHANGED disk /\ Goto(r, "error")
  /\ UNCHANGED <<row, stored, target, base, seen, onDisk, result, edits, overlapped>>

(* markDiskSynced(), then the broadcast and the answer.                    *)
Mark(r) ==
  /\ pc[r] = "marking"
  /\ row' = [row EXCEPT ![result[r].document].hash = result[r].content]
  /\ Goto(r, "answered")
  /\ UNCHANGED <<disk, stored, target, base, seen, onDisk, result, edits, overlapped>>

-----------------------------------------------------------------------------
(* file.open                                                               *)

SendOpen(r) ==
  /\ CanSend(r)
  /\ Goto(r, "file")
  /\ UNCHANGED <<row, disk, stored, target, base, seen, onDisk, result, edits>>

ReadFile(r) ==
  /\ pc[r] = "file"
  /\ onDisk' = [onDisk EXCEPT ![r] = disk]
  /\ Goto(r, "finding")
  /\ UNCHANGED <<row, disk, stored, target, base, seen, result, edits, overlapped>>

(* getDocumentByOrigin()                                                   *)
Find(r) ==
  /\ pc[r] = "finding"
  /\ \/ /\ LiveRows = {}
        /\ Goto(r, "inserting")
        /\ UNCHANGED <<target, seen>>
     \/ \E d \in LiveRows :
          /\ Goto(r, "comparing")
          /\ target' = [target EXCEPT ![r] = d]
          /\ seen' = [seen EXCEPT ![r] = row[d]]
  /\ UNCHANGED <<row, disk, stored, base, onDisk, result, edits, overlapped>>

(* The row an open creates from the file.                                  *)
CreateRow(r, d) ==
  LET created == [state |-> "live", revision |-> 0,
                  content |-> onDisk[r], hash |-> onDisk[r]]
  IN  /\ row[d].state = "absent"
      /\ \A earlier \in RowIds : earlier < d => row[earlier].state # "absent"
      /\ row' = [row EXCEPT ![d] = created]
      /\ target' = [target EXCEPT ![r] = d]
      /\ Respond(r, ResultOf(d, created))
      /\ Goto(r, "answered")

(* Mutant: the INSERT has no conflict to run into.                         *)
InsertAlways(r) ==
  /\ pc[r] = "inserting"
  /\ \E d \in RowIds : CreateRow(r, d)
  /\ UNCHANGED <<disk, stored, base, seen, onDisk, edits, overlapped>>

(* createFileDocument(): INSERT ... ON CONFLICT DO NOTHING, where the      *)
(* index allows one live row per file.                                     *)
Insert(r) ==
  /\ pc[r] = "inserting"
  /\ IF LiveRows = {}
     THEN \E d \in RowIds : CreateRow(r, d)
     ELSE Goto(r, "finding again") /\ UNCHANGED <<row, target, result>>
  /\ UNCHANGED <<disk, stored, base, seen, onDisk, edits, overlapped>>

FindAgain(r) ==
  /\ pc[r] = "finding again"
  /\ \/ LiveRows = {} /\ Goto(r, "error") /\ UNCHANGED <<target, result>>
     \/ \E d \in LiveRows :
          /\ target' = [target EXCEPT ![r] = d]
          /\ Respond(r, ResultOf(d, row[d]))
          /\ Goto(r, "answered")
  /\ UNCHANGED <<row, disk, stored, base, seen, onDisk, edits, overlapped>>

(* Mutant: a file that moved is always adopted.                            *)
CompareDiskOnly(r) ==
  /\ pc[r] = "comparing"
  /\ Goto(r, CASE RowMissing(r) -> "error"
               [] ~RowMissing(r) /\ row[target[r]].hash = onDisk[r] -> "answered"
               [] OTHER -> "checking")
  /\ Respond(r, ResultOf(target[r], seen[r]))
  /\ UNCHANGED <<row, disk, stored, target, base, seen, onDisk, edits, overlapped>>

(* diskSyncState(): the hash is read now, the content was read before.     *)
Compare(r) ==
  LET synced == row[target[r]].hash
  IN  /\ pc[r] = "comparing"
      /\ Goto(r, CASE RowMissing(r) -> "error"
                   [] ~RowMissing(r) /\ synced = onDisk[r] -> "answered"
                   [] ~RowMissing(r) /\ synced # onDisk[r] /\ seen[r].content = synced
                        -> "checking"
                   [] OTHER -> "diverged")
      /\ Respond(r, ResultOf(target[r], seen[r]))
      /\ UNCHANGED <<row, disk, stored, target, base, seen, onDisk, edits, overlapped>>

(* adoptFromDisk(): the row is looked up, then updated by id.              *)
CheckRow(r) ==
  /\ pc[r] = "checking"
  /\ Goto(r, IF RowMissing(r) THEN "error" ELSE "adopting")
  /\ UNCHANGED <<row, disk, stored, target, base, seen, onDisk, result, edits, overlapped>>

Adopt(r) ==
  LET adopted == [row[target[r]] EXCEPT !.content = onDisk[r], !.revision = @ + 1,
                                        !.hash = onDisk[r]]
  IN  /\ pc[r] = "adopting"
      /\ row' = [row EXCEPT ![target[r]] = adopted]
      /\ Respond(r, ResultOf(target[r], adopted))
      /\ Goto(r, "answered")
      /\ UNCHANGED <<disk, stored, target, base, seen, onDisk, edits, overlapped>>

-----------------------------------------------------------------------------

(* document.archive; a path that is dropped archives its documents too.    *)
Archive(d) ==
  /\ Live(d)
  /\ Begin({})
  /\ row' = [row EXCEPT ![d].state = "archived"]
  /\ UNCHANGED <<disk, stored, requestVars, edits>>

(* A git pull, or another program.                                         *)
EditOutside(content) ==
  /\ edits < MaxEdits
  /\ edits' = edits + 1
  /\ disk' = content
  /\ UNCHANGED <<row, stored, requestVars, overlapped>>

SaveStep(r) ==
  LookUp(r) \/ Read(r) \/ Update(r) \/ Store(r) \/ Write(r) \/ Mark(r)

OpenStep(r) ==
  \/ ReadFile(r) \/ Find(r) \/ Insert(r) \/ FindAgain(r)
  \/ Compare(r) \/ CheckRow(r) \/ Adopt(r)

Next ==
  \/ \E r \in Saves :
       \/ \E d \in RowIds, revision \in 0..(Cardinality(Requests)) : SendSave(r, d, revision)
       \/ SaveStep(r)
  \/ \E r \in Opens : SendOpen(r) \/ OpenStep(r)
  \/ \E d \in RowIds : Archive(d)
  \/ \E content \in Edits : EditOutside(content)

Spec == Init /\ [][Next]_vars
-----------------------------------------------------------------------------
(* Properties                                                              *)

(* "Two people opening the same file at the same moment must land on one   *)
(* row" (createFileDocument): whatever opens and archives overlap, a file  *)
(* has one live row at most.                                               *)
OneLiveRow == Cardinality(LiveRows) <= 1

(* A revision names one content: clients adopt a document, or keep theirs, *)
(* by comparing revisions alone.  Two answers that give a row the same     *)
(* revision give it the same content, and so does the row itself, although *)
(* saves and opens that overlap read and update it in separate queries.    *)
RevisionNamesContent ==
  \A r \in Requests :
    pc[r] \in {"answered", "diverged"} =>
      /\ \A s \in Requests :
           /\ pc[s] \in {"answered", "diverged"}
           /\ result[s].document = result[r].document
           /\ result[s].revision = result[r].revision
           => result[s].content = result[r].content
      /\ row[result[r].document].revision = result[r].revision
           => row[result[r].document].content = result[r].content

(* A retry sent once its first attempt has ended does not save again: both *)
(* are answered with one revision (withIdempotency).                       *)
RetryRunsOnce ==
  \A r, s \in Saves :
    Key[r] = Key[s] /\ pc[r] = "answered" /\ pc[s] = "answered" => result[r] = result[s]

(* "Never silent overwrite" (multiplayer.md): a save that is not forced and *)
(* that nothing overlaps replaces the revision it was based on and no      *)
(* other, whatever overlapped before it.  The check and the update are two *)
(* queries: saves that overlap do overwrite each other.                    *)
NoSilentOverwrite ==
  [][\A r \in Saves \ Forced :
       r \notin overlapped /\ pc[r] = "updating" /\ pc'[r] = "storing"
         => row[target[r]].revision = base[r]]_vars

(* "Adopting it is only safe when the cached copy is still exactly what    *)
(* was last synced" (file.open): the content an adoption replaces is in    *)
(* the file's past, never somebody's edit, unless something overlapped the *)
(* open: a save that does can still be adopted over.                       *)
AdoptLosesNothing ==
  [][\A r \in Opens :
       r \notin overlapped /\ pc[r] = "adopting" /\ pc'[r] = "answered"
         => row[target[r]].content = row[target[r]].hash]_vars

(* A retry answered from its key writes the content of the save it         *)
(* repeats to the file once more, whoever has saved since.                 *)
Retried == \E r, s \in Saves :
  r # s /\ Key[r] = Key[s] /\ "unsent" \notin {pc[r], pc[s]}

(* "The save is not finished until the file matches it" (document.save):   *)
(* once nothing is in flight, nothing overlapped or was retried and nobody *)
(* else touched the file, disk_content_hash is what the file holds, refused *)
(* writes or not; and when none was refused, the row's content is.         *)
SavedMeansOnDisk ==
  Quiet /\ overlapped = {} /\ ~Retried /\ edits = 0 =>
    \A d \in LiveRows :
      /\ disk = row[d].hash
      /\ (\A r \in Saves : pc[r] # "error") => disk = row[d].content
=============================================================================
