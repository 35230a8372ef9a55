------------------------------ MODULE Domains -------------------------------
(***************************************************************************)
(* The domains of one datasource: the labels people put on its objects,    *)
(* the tree of files an export writes and the domain file an import reads  *)
(* (apps/server/src/domains, the domain handlers of ws/dispatch.ts).       *)
(*                                                                         *)
(* PostgreSQL runs at READ COMMITTED: a statement sees what was committed  *)
(* when it began, and waits for a row another transaction has deleted.     *)
(* A transaction is therefore two steps, its last DELETE and its last      *)
(* INSERT with the commit, and held and dropping are the rows and domains  *)
(* it has deleted in between.  A tag names a domain by its id, the files   *)
(* name it by its name.  A kind of object, a colour, a description and the *)
(* text of a file say nothing the properties ask about.                    *)
(***************************************************************************)
EXTENDS Integers, Functions

CONSTANTS
  Names,       \* names a domain may have
  Ids,         \* uuids; one nobody refers to any more is as good as new
  Objects,     \* tables, views and routines
  None,        \* no domain, no domain file
  MaxCalls,    \* bound: handlers awaiting at once
  MaxRequests, \* bound: requests sent
  MaxChanges,  \* bound: objects dropped from or created in the database
  MaxFails     \* bound: catalog reads, descriptions and writes that fail

ASSUME DomainsAssumption ==
  /\ None \notin Ids \cup [name : Names, hidden : BOOLEAN]
  /\ MaxCalls \in Nat \ {0}
  /\ {MaxRequests, MaxChanges, MaxFails} \subseteq Nat

VARIABLES
  domains,  \* id -> name and hidden, or None
  tags,     \* domain_tags: pairs of a domain's id and an object
  catalog,  \* the objects the database has
  inRepo,   \* a git datasource keeps its domain file outside the dump
  dump,     \* files under domains/: pairs of a domain's name and an object
  file,     \* domains.yaml: name -> its objects, or None; None for no file
  calls,    \* the handlers that await
  shared,   \* history: objects that may have come to have two domains
  count     \* how often each bounded thing has happened

db == <<domains, tags>>
disk == <<dump, file>>
vars == <<db, catalog, inRepo, disk, calls, shared, count>>
source == <<catalog, inRepo>>

-----------------------------------------------------------------------------

CallIds == 1..MaxCalls
Domain == [name : Names, hidden : BOOLEAN]
Tags == Ids \X Objects
Files == Names \X Objects
DomainFile == [Names -> (SUBSET Objects) \cup {None}]
Ops == {"idle", "tag", "import", "refresh", "export"}
Bounded == {"requests", "changes", "fails"}

(* rows are the tags a statement deleted (tag, import) or a list read      *)
(* (refresh, export); tree and plan are what the export generated and has  *)
(* still to write or delete.                                               *)
(* gone (objects that were out of the catalog at some time since the call  *)
(* began) and alone (no other call, no change of the catalog since) are    *)
(* history fields.                                                         *)
CallType == [op : Ops,
             pc : {"begin", "commit", "tags", "catalog", "reconcile", "build", "scan",
                   "write", "prune", "domains", "record"},
             target : Ids \cup {None}, object : Objects \cup {None},
             rows : SUBSET Tags, dropping : SUBSET Ids,
             listed : [Ids -> Names \cup {None}], stale : SUBSET Tags,
             tree : SUBSET Files, plan : SUBSET Files, extra : SUBSET Files,
             file : DomainFile \cup {None}, gone : SUBSET Objects, alone : BOOLEAN]

Unlisted == [i \in Ids |-> None]
Request(op, target, object) ==
  [op |-> op, pc |-> "begin", target |-> target, object |-> object, rows |-> {},
   dropping |-> {}, listed |-> Unlisted, stale |-> {}, tree |-> {}, plan |-> {},
   extra |-> {}, file |-> None, gone |-> Objects \ catalog, alone |-> TRUE]
Idle == [op |-> "idle", pc |-> "begin", target |-> None, object |-> None, rows |-> {},
         dropping |-> {}, listed |-> Unlisted, stale |-> {}, tree |-> {}, plan |-> {},
         extra |-> {}, file |-> None, gone |-> {}, alone |-> TRUE]

Live == {i \in Ids : domains[i] # None}
Visible == {i \in Live : ~domains[i].hidden}
Named(n) == {i \in Live : domains[i].name = n}
DomainsOf(o) == {i \in Live : <<i, o>> \in tags}
ObjectsOf(i) == {o \in Objects : <<i, o>> \in tags}
AtMostOne(S) == \A a, b \in S : a = b

TypeOK ==
  /\ domains \in [Ids -> Domain \cup {None}]
  /\ tags \subseteq Live \X Objects
  /\ \A n \in Names : AtMostOne(Named(n))
  /\ catalog \subseteq Objects
  /\ inRepo \in BOOLEAN
  /\ dump \subseteq Files
  /\ file \in DomainFile \cup {None}
  /\ calls \in [CallIds -> CallType]
  /\ shared \subseteq Objects
  /\ count \in [Bounded -> Nat]

(* Any set of domains with at most one for each object, and a dump in the  *)
(* working tree, or none: what a colleague's export left there, or what a  *)
(* merge or an editor made of it.  Nothing refuses a domain file that      *)
(* lists an object under two names (contracts/src/git.ts:201-217).         *)
Init ==
  /\ domains \in [Ids -> Domain \cup {None}]
  /\ \A n \in Names : AtMostOne(Named(n))
  /\ tags \in SUBSET (Live \X Objects)
  /\ \A o \in Objects : AtMostOne(DomainsOf(o))
  /\ catalog = Objects
  /\ inRepo \in BOOLEAN
  /\ file \in DomainFile \cup {None}
  /\ dump = IF file = None THEN {}
            ELSE {f \in Files : file[f[1]] # None /\ f[2] \in file[f[1]]}
  /\ calls = [k \in CallIds |-> Idle]
  /\ shared = {}
  /\ count = [b \in Bounded |-> 0]

-----------------------------------------------------------------------------

Count(b, max) == count[b] < max /\ count' = [count EXCEPT ![b] = @ + 1]

Active == {k \in CallIds : calls[k].op # "idle"}
At(k, ops, pc) == calls[k].op \in ops /\ calls[k].pc = pc
Becomes(k, call) == calls' = [calls EXCEPT ![k] = call]
Goto(k, pc) == Becomes(k, [calls[k] EXCEPT !.pc = pc])
Return(k) == Becomes(k, Idle)

(* What other transactions have deleted and not committed.                 *)
InTransaction(k) == calls[k].op \in {"tag", "import"} /\ calls[k].pc = "commit"
Locked(k) == UNION {calls[j].rows : j \in {j \in CallIds \ {k} : InTransaction(j)}}
Dropping(k) == UNION {calls[j].dropping : j \in CallIds \ {k}}

(* Ids that may be given to a new domain.                                  *)
Referred == {calls[k].target : k \in CallIds}
            \cup UNION {{r[1] : r \in calls[k].rows \cup calls[k].stale} : k \in CallIds}
            \cup {i \in Ids : \E k \in CallIds : calls[k].listed[i] # None}
Fresh == Ids \ (Live \cup Referred)

Begin(request) ==
  LET k == CHOOSE j \in CallIds \ Active : \A i \in CallIds \ Active : j <= i
  IN
  /\ Active # CallIds
  /\ Count("requests", MaxRequests)
  /\ calls' = [j \in CallIds |->
       IF j = k THEN [request EXCEPT !.alone = (Active = {})]
       ELSE [calls[j] EXCEPT !.alone = FALSE]]
  /\ UNCHANGED <<db, source, disk, shared>>

Ask ==
  \/ \E i \in Live \cup {None}, o \in Objects : Begin(Request("tag", i, o))
  \/ \E op \in {"import", "refresh", "export"} : Begin(Request(op, None, None))

Alone(k) == calls[k].alone
Crowded == [j \in CallIds |-> [calls[j] EXCEPT !.alone = FALSE]]

-----------------------------------------------------------------------------
(* domain.upsert and domain.delete: one statement each, or as good as one  *)

CreateDomain(i, n, hidden) ==
  /\ Count("requests", MaxRequests)
  /\ i \in Fresh /\ Named(n) = {}
  /\ domains' = [domains EXCEPT ![i] = [name |-> n, hidden |-> hidden]]
  /\ calls' = Crowded
  /\ UNCHANGED <<tags, source, disk, shared>>

UpdateDomain(i, n, hidden) ==
  /\ Count("requests", MaxRequests)
  /\ i \in Live \ Dropping(0)
  /\ Named(n) \subseteq {i}
  /\ domains' = [domains EXCEPT ![i] = [name |-> n, hidden |-> hidden]]
  /\ calls' = Crowded
  /\ UNCHANGED <<tags, source, disk, shared>>

DeleteDomain(i) ==
  /\ Count("requests", MaxRequests)
  /\ i \in Live \ Dropping(0)
  /\ \A r \in Locked(0) : r[1] # i
  /\ domains' = [domains EXCEPT ![i] = None]
  /\ tags' = {t \in tags : t[1] # i}
  /\ calls' = Crowded
  /\ UNCHANGED <<source, disk, shared>>

-----------------------------------------------------------------------------
(* domain.tag                                                              *)

(* Mutant: only the domain the object goes to is looked at.                *)
UntagHere(k) ==
  LET c == calls[k]
      old == {t \in tags : t[2] = c.object /\ t[1] = c.target}
  IN
  /\ At(k, {"tag"}, "begin")
  /\ IF c.target # None /\ c.target \notin Live
     THEN Return(k)
     ELSE /\ old \cap Locked(k) = {}
          /\ Becomes(k, [c EXCEPT !.pc = "commit", !.rows = old])
  /\ UNCHANGED <<db, source, disk, shared, count>>

(* tag() checks the domain and deletes what tags the object has.           *)
Untag(k) ==
  LET c == calls[k]
      old == {t \in tags : t[2] = c.object}
  IN
  /\ At(k, {"tag"}, "begin")
  /\ IF c.target # None /\ c.target \notin Live
     THEN Return(k)
     ELSE /\ old \cap Locked(k) = {}
          /\ Becomes(k, [c EXCEPT !.pc = "commit", !.rows = old])
  /\ UNCHANGED <<db, source, disk, shared, count>>

(* The INSERT waits for a domain that is being dropped; the foreign key    *)
(* refuses one that is gone, the primary key a tag that is there by now.   *)
Tag(k) ==
  LET c == calls[k]
      left == tags \ c.rows
  IN
  /\ At(k, {"tag"}, "commit")
  /\ c.target \notin Dropping(k)
  /\ CASE c.target = None -> tags' = left
       [] c.target \in Live /\ <<c.target, c.object>> \notin left ->
            tags' = left \cup {<<c.target, c.object>>}
       [] OTHER -> UNCHANGED tags
  /\ shared' = IF Alone(k) THEN shared ELSE shared \cup {c.object}
  /\ Return(k)
  /\ UNCHANGED <<domains, source, disk, count>>

-----------------------------------------------------------------------------
(* domain.import                                                           *)

ReadFile(k) ==
  /\ At(k, {"import"}, "begin")
  /\ IF file = None THEN Return(k)
     ELSE Becomes(k, [calls[k] EXCEPT !.pc = "scan", !.file = file])
  /\ UNCHANGED <<db, source, disk, shared, count>>

InFile(c) == {n \in Names : c.file[n] # None}

(* Mutant: only the domains the file names are replaced.                   *)
ClearNamed(k) ==
  LET c == calls[k]
      dropped == {i \in Live : domains[i].name \in InFile(c)}
  IN
  /\ At(k, {"import"}, "scan")
  /\ dropped \cap Dropping(k) = {}
  /\ \A r \in Locked(k) : r[1] \notin dropped
  /\ Becomes(k, [c EXCEPT !.pc = "commit", !.dropping = dropped,
                          !.rows = {t \in tags : t[1] \in dropped}])
  /\ UNCHANGED <<db, source, disk, shared, count>>

(* clearImportedDomains(): the visible ones and the ones the file names.   *)
Clear(k) ==
  LET c == calls[k]
      dropped == {i \in Live : ~domains[i].hidden \/ domains[i].name \in InFile(c)}
  IN
  /\ At(k, {"import"}, "scan")
  /\ dropped \cap Dropping(k) = {}
  /\ \A r \in Locked(k) : r[1] \notin dropped
  /\ Becomes(k, [c EXCEPT !.pc = "commit", !.dropping = dropped,
                          !.rows = {t \in tags : t[1] \in dropped}])
  /\ UNCHANGED <<db, source, disk, shared, count>>

(* The file's domains and their objects, whatever a shelf, or another      *)
(* domain of the file, says of them.  A name that somebody has taken since *)
(* rolls the import back.                                                  *)
Fill(k) ==
  LET c == calls[k]
      kept == Live \ c.dropping
      left == {t \in tags : t[1] \in kept}
  IN
  /\ At(k, {"import"}, "commit")
  /\ \A i \in Dropping(k) : domains[i].name \notin InFile(c)
  /\ IF \E i \in kept : domains[i].name \in InFile(c)
     THEN UNCHANGED <<db, shared>>
     ELSE \E id \in Injection(InFile(c), Fresh) :
            LET new == UNION {{<<id[n], o>> : o \in c.file[n]} : n \in InFile(c)}
            IN /\ domains' = [i \in Ids |->
                    IF \E n \in InFile(c) : id[n] = i
                    THEN [name |-> CHOOSE n \in InFile(c) : id[n] = i, hidden |-> FALSE]
                    ELSE IF i \in kept THEN domains[i] ELSE None]
               /\ tags' = left \cup new
               /\ shared' = shared \cup {o \in Objects :
                    \E t \in left \cup new, u \in new : t # u /\ t[2] = o /\ u[2] = o}
  /\ Return(k)
  /\ UNCHANGED <<source, disk, count>>

-----------------------------------------------------------------------------
(* reconcileDomains(), by itself when a datasource is refreshed and first  *)
(* thing in an export                                                      *)

ListDomains(k) ==
  /\ At(k, {"refresh", "export"}, "begin")
  /\ Becomes(k, [calls[k] EXCEPT !.pc = "tags",
       !.listed = [i \in Ids |-> IF i \in Visible THEN domains[i].name ELSE None]])
  /\ UNCHANGED <<db, source, disk, shared, count>>

ListTags(k) ==
  /\ At(k, {"refresh", "export"}, "tags")
  /\ Becomes(k, [calls[k] EXCEPT !.pc = "catalog", !.rows = tags])
  /\ UNCHANGED <<db, source, disk, shared, count>>

(* Mutant: a catalog that cannot be read is an empty one.                  *)
ReadCatalogAnyway(k) ==
  /\ At(k, {"refresh", "export"}, "catalog")
  /\ \/ /\ Becomes(k, [calls[k] EXCEPT !.pc = "reconcile",
                         !.stale = {t \in @ \cup calls[k].rows : t[2] \notin catalog}])
        /\ UNCHANGED count
     \/ /\ Count("fails", MaxFails)
        /\ Becomes(k, [calls[k] EXCEPT !.pc = "reconcile", !.stale = calls[k].rows])
  /\ UNCHANGED <<db, source, disk, shared>>

(* staleTags(): a read that fails ends the call.                           *)
ReadCatalog(k) ==
  /\ At(k, {"refresh", "export"}, "catalog")
  /\ \/ /\ Becomes(k, [calls[k] EXCEPT !.pc = "reconcile",
                         !.stale = {t \in calls[k].rows : t[2] \notin catalog}])
        /\ UNCHANGED count
     \/ Count("fails", MaxFails) /\ Return(k)
  /\ UNCHANGED <<db, source, disk, shared>>

(* The stale tags go, if they are still there.  Without a visible domain   *)
(* there is nothing to export.                                             *)
Reconcile(k) ==
  LET c == calls[k]
  IN
  /\ At(k, {"refresh", "export"}, "reconcile")
  /\ c.stale \cap Locked(k) = {}
  /\ tags' = tags \ c.stale
  /\ IF c.op = "export" /\ c.listed # Unlisted
     THEN Becomes(k, [c EXCEPT !.pc = "build", !.rows = c.rows \ c.stale, !.stale = {}])
     ELSE Return(k)
  /\ UNCHANGED <<domains, source, disk, shared, count>>

-----------------------------------------------------------------------------
(* domain.export                                                           *)

(* buildExport(): every object is described, and one that cannot be is     *)
(* refused; the domain file names it all the same.                         *)
Build(k) ==
  LET c == calls[k]
      listed == {i \in Ids : c.listed[i] # None}
      named == {n \in Names : \E i \in listed : c.listed[i] = n}
      described == {r \in c.rows : r[1] \in listed /\ r[2] \in catalog}
      filesOf(rows) == {<<c.listed[r[1]], r[2]>> : r \in rows}
  IN
  /\ At(k, {"export"}, "build")
  /\ \E refused \in SUBSET described :
       /\ IF refused = {} THEN UNCHANGED count ELSE Count("fails", MaxFails)
       /\ Becomes(k, [c EXCEPT
            !.pc = "scan", !.rows = {}, !.listed = Unlisted,
            !.tree = filesOf(described \ refused),
            !.file = [n \in Names |->
              IF n \notin named THEN None
              ELSE {o \in Objects : \E r \in c.rows : r[2] = o /\ r[1] \in listed
                                                       /\ c.listed[r[1]] = n}]])
  /\ UNCHANGED <<db, source, disk, shared>>

(* Mutant: the directory of a domain that is gone is not looked into.      *)
ScanListed(k) ==
  LET c == calls[k]
      present == {f \in dump : c.file[f[1]] # None}
  IN
  /\ At(k, {"export"}, "scan")
  /\ Becomes(k, [c EXCEPT !.pc = IF inRepo THEN "write" ELSE "domains",
                          !.plan = c.tree \ present, !.extra = present \ c.tree])
  /\ UNCHANGED <<db, source, disk, shared, count>>

(* applyExport(): what is there decides what is written and deleted.       *)
Scan(k) ==
  LET c == calls[k]
  IN
  /\ At(k, {"export"}, "scan")
  /\ Becomes(k, [c EXCEPT !.pc = IF inRepo THEN "write" ELSE "domains",
                          !.plan = c.tree \ dump, !.extra = dump \ c.tree])
  /\ UNCHANGED <<db, source, disk, shared, count>>

(* domains.yaml sorts before domains/, and is written last in a repository. *)
WriteDomains(k) ==
  /\ At(k, {"export"}, "domains")
  /\ file' = calls[k].file
  /\ Goto(k, IF inRepo THEN "record" ELSE "write")
  /\ UNCHANGED <<db, source, dump, shared, count>>

WriteFile(k) ==
  /\ At(k, {"export"}, "write")
  /\ IF calls[k].plan = {} THEN Goto(k, "prune") /\ UNCHANGED dump
     ELSE \E f \in calls[k].plan :
            /\ dump' = dump \cup {f}
            /\ Becomes(k, [calls[k] EXCEPT !.plan = @ \ {f}])
  /\ UNCHANGED <<db, source, file, shared, count>>

Prune(k) ==
  /\ At(k, {"export"}, "prune")
  /\ IF calls[k].extra = {} THEN Goto(k, IF inRepo THEN "domains" ELSE "record") /\ UNCHANGED dump
     ELSE \E f \in calls[k].extra :
            /\ dump' = dump \ {f}
            /\ Becomes(k, [calls[k] EXCEPT !.extra = @ \ {f}])
  /\ UNCHANGED <<db, source, file, shared, count>>

(* A write fails: what is written stays, the run is recorded as failed.    *)
WriteFails(k) ==
  /\ calls[k].op = "export"
  /\ calls[k].pc \in {"write", "prune", "domains"}
  /\ Count("fails", MaxFails)
  /\ Return(k)
  /\ UNCHANGED <<db, source, disk, shared>>

Record(k) ==
  /\ At(k, {"export"}, "record")
  /\ Return(k)
  /\ UNCHANGED <<db, source, disk, shared, count>>

-----------------------------------------------------------------------------
(* The database: objects come and go                                       *)

ChangeCatalog(o) ==
  /\ Count("changes", MaxChanges)
  /\ catalog' = IF o \in catalog THEN catalog \ {o} ELSE catalog \cup {o}
  /\ calls' = [k \in CallIds |->
       IF k \notin Active THEN Idle
       ELSE [calls[k] EXCEPT !.alone = FALSE, !.gone = @ \cup (Objects \ catalog')]]
  /\ UNCHANGED <<db, inRepo, disk, shared>>

-----------------------------------------------------------------------------

Edit ==
  \/ \E i \in Ids, n \in Names, hidden \in BOOLEAN :
       CreateDomain(i, n, hidden) \/ UpdateDomain(i, n, hidden)
  \/ \E i \in Ids : DeleteDomain(i)

Proceed(k) ==
  \/ Untag(k) \/ Tag(k)
  \/ ReadFile(k) \/ Clear(k) \/ Fill(k)
  \/ ListDomains(k) \/ ListTags(k) \/ ReadCatalog(k) \/ Reconcile(k)
  \/ Build(k) \/ Scan(k) \/ WriteDomains(k) \/ WriteFile(k) \/ Prune(k) \/ WriteFails(k)
  \/ Record(k)

Next ==
  \/ Ask \/ Edit
  \/ \E k \in CallIds : Proceed(k)
  \/ \E o \in Objects : ChangeCatalog(o)

Spec == Init /\ [][Next]_vars

-----------------------------------------------------------------------------

(* "An object has at most one domain": through any tagging, renaming,      *)
(* deleting and reconciling, and in the file an export is about to write,  *)
(* except where tag() overlapped another handler or an import named an     *)
(* object that a shelf, another import or another domain of its own file   *)
(* holds: nothing refuses a file that lists an object twice, and the       *)
(* import puts the object in both domains (import.ts:154-176).             *)
OneDomainUnlessShared ==
  \A o \in Objects \ shared :
    /\ AtMostOne(DomainsOf(o))
    /\ \A k \in CallIds : calls[k].op = "export" /\ calls[k].file # None
         => AtMostOne({n \in InFile(calls[k]) : o \in calls[k].file[n]})

(* A tag is reconciled away only when its object was out of the catalog at *)
(* some time while the call ran.                                           *)
OnlyStaleTagsGo ==
  [][\A k \in CallIds : Reconcile(k) => \A t \in tags \ tags' : t[2] \in calls[k].gone]_vars

(* An import that runs alone leaves the file's opinion of the visible      *)
(* domains, and nothing else's.                                            *)
Opinion(n) == IF \E i \in Visible : domains[i].name = n
              THEN ObjectsOf(CHOOSE i \in Visible : domains[i].name = n) ELSE None
LoneImportReplaces ==
  [][\A k \in CallIds : Fill(k) /\ Alone(k) => \A n \in Names : Opinion(n)' = calls[k].file[n]]_vars

(* A run that is recorded, and that ran alone, has left the tree it built  *)
(* and nothing else, whatever failed or half-written run came before.      *)
LoneExportIsComplete ==
  \A k \in CallIds : At(k, {"export"}, "record") /\ Alone(k)
    => dump = calls[k].tree /\ file = calls[k].file
=============================================================================
