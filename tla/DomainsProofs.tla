--------------------------- MODULE DomainsProofs ----------------------------
(***************************************************************************)
(* What holds of tags, imports, reconciliation and exports for any names,  *)
(* domains and objects, and any number of handlers at once.                *)
(***************************************************************************)
EXTENDS Domains, WellFoundedInduction, TLAPS

-----------------------------------------------------------------------------
(* Types.                                                                  *)

(* A tag is for an object, an import that has read the file has one.       *)
Formed(c) ==
  /\ c.op = "tag" => c.object \in Objects
  /\ c.op = "import" /\ c.pc \in {"scan", "commit"} => c.file \in DomainFile \ {None}
Typed == TypeOK /\ \A k \in CallIds : Formed(calls[k])

(* A name of a domain that is not there is nobody's.                       *)
LEMMA DomainRecords == \A d \in Domain : d # None
  BY DomainsAssumption DEF Domain

(* What a handler is given has the type of a call.                         *)
LEMMA RequestTypes ==
  ASSUME NEW op \in Ops, NEW target \in Ids \cup {None}, NEW object \in Objects \cup {None},
         op = "tag" => object \in Objects
  PROVE  /\ Request(op, target, object) \in CallType
         /\ Formed(Request(op, target, object))
         /\ Request(op, target, object).op = op
         /\ Request(op, target, object).pc = "begin"
  BY DEF Request, CallType, Unlisted, Formed

(* ... and so has nobody's.                                                *)
LEMMA IdleTypes == Idle \in CallType /\ Idle.op = "idle" /\ Formed(Idle)
  BY DEF Idle, CallType, Ops, Unlisted, Formed

(* Whoever watches a call changes none of what it has read.                *)
LEMMA WatchTypes ==
  ASSUME NEW c \in CallType, Formed(c)
  PROVE  /\ \A b \in BOOLEAN : [c EXCEPT !.alone = b] \in CallType /\ Formed([c EXCEPT !.alone = b])
         /\ \A gone \in SUBSET Objects :
              /\ [c EXCEPT !.alone = FALSE, !.gone = gone] \in CallType
              /\ Formed([c EXCEPT !.alone = FALSE, !.gone = gone])
<1>1. \A b \in BOOLEAN : [c EXCEPT !.alone = b] \in CallType
  BY DEF CallType
<1>2. \A b \in BOOLEAN : Formed([c EXCEPT !.alone = b])
  BY DEF CallType, Formed
<1>3. \A gone \in SUBSET Objects : [c EXCEPT !.alone = FALSE, !.gone = gone] \in CallType
  BY DEF CallType
<1>4. \A gone \in SUBSET Objects : Formed([c EXCEPT !.alone = FALSE, !.gone = gone])
  BY DEF CallType, Formed
<1> QED
  BY <1>1, <1>2, <1>3, <1>4

(* A handler that waits for the next query has read what it waits with.    *)
LEMMA StepTypes ==
  ASSUME NEW c \in CallType
  PROVE  /\ \A rows \in SUBSET Tags : [c EXCEPT !.pc = "commit", !.rows = rows] \in CallType
         /\ \A f \in DomainFile : [c EXCEPT !.pc = "scan", !.file = f] \in CallType
         /\ \A dropped \in SUBSET Ids, rows \in SUBSET Tags :
              [c EXCEPT !.pc = "commit", !.dropping = dropped, !.rows = rows] \in CallType
         /\ \A names \in [Ids -> Names \cup {None}] :
              [c EXCEPT !.pc = "tags", !.listed = names] \in CallType
         /\ \A rows \in SUBSET Tags : [c EXCEPT !.pc = "catalog", !.rows = rows] \in CallType
         /\ \A rows \in SUBSET Tags : [c EXCEPT !.pc = "reconcile", !.stale = rows] \in CallType
         /\ \A rows \in SUBSET Tags :
              [c EXCEPT !.pc = "build", !.rows = rows, !.stale = {}] \in CallType
         /\ \A tree \in SUBSET Files, f \in DomainFile :
              [c EXCEPT !.pc = "scan", !.rows = {}, !.listed = Unlisted,
                        !.tree = tree, !.file = f] \in CallType
         /\ \A pc \in {"write", "domains"}, plan \in SUBSET Files, extra \in SUBSET Files :
              [c EXCEPT !.pc = pc, !.plan = plan, !.extra = extra] \in CallType
         /\ \A pc \in {"write", "prune", "domains", "record"} : [c EXCEPT !.pc = pc] \in CallType
         /\ \A f : [c EXCEPT !.plan = @ \ {f}] \in CallType
         /\ \A f : [c EXCEPT !.extra = @ \ {f}] \in CallType
<1> USE DEF CallType
<1>1. \A rows \in SUBSET Tags : [c EXCEPT !.pc = "commit", !.rows = rows] \in CallType
  OBVIOUS
<1>2. \A f \in DomainFile : [c EXCEPT !.pc = "scan", !.file = f] \in CallType
  OBVIOUS
<1>3. \A dropped \in SUBSET Ids, rows \in SUBSET Tags :
        [c EXCEPT !.pc = "commit", !.dropping = dropped, !.rows = rows] \in CallType
  OBVIOUS
<1>4. \A names \in [Ids -> Names \cup {None}] :
        [c EXCEPT !.pc = "tags", !.listed = names] \in CallType
  OBVIOUS
<1>5. \A rows \in SUBSET Tags :
        /\ [c EXCEPT !.pc = "catalog", !.rows = rows] \in CallType
        /\ [c EXCEPT !.pc = "reconcile", !.stale = rows] \in CallType
        /\ [c EXCEPT !.pc = "build", !.rows = rows, !.stale = {}] \in CallType
  OBVIOUS
<1>6. \A tree \in SUBSET Files, f \in DomainFile :
        [c EXCEPT !.pc = "scan", !.rows = {}, !.listed = Unlisted,
                  !.tree = tree, !.file = f] \in CallType
  BY DEF Unlisted
<1>7. \A pc \in {"write", "domains"}, plan \in SUBSET Files, extra \in SUBSET Files :
        [c EXCEPT !.pc = pc, !.plan = plan, !.extra = extra] \in CallType
  OBVIOUS
<1>8. /\ \A pc \in {"write", "prune", "domains", "record"} : [c EXCEPT !.pc = pc] \in CallType
      /\ \A f : [c EXCEPT !.plan = @ \ {f}] \in CallType
      /\ \A f : [c EXCEPT !.extra = @ \ {f}] \in CallType
  OBVIOUS
<1> HIDE DEF CallType
<1> QED
  BY <1>1, <1>2, <1>3, <1>4, <1>5, <1>6, <1>7, <1>8

(* Counting keeps the counters natural numbers.                            *)
LEMMA CountTypes ==
  ASSUME TypeOK, NEW b \in Bounded, NEW max, Count(b, max)
  PROVE  count' \in [Bounded -> Nat]
  BY DEF TypeOK, Count

(* One handler goes on and the others wait.                                *)
LEMMA BecomesTypes ==
  ASSUME Typed, NEW k \in CallIds, NEW c \in CallType, Formed(c), Becomes(k, c)
  PROVE  calls' \in [CallIds -> CallType] /\ \A j \in CallIds : Formed(calls'[j])
  BY DEF Typed, TypeOK, Becomes


(* Requests and changes of single rows tell the handlers at work.          *)
LEMMA CrowdedTypes ==
  ASSUME Typed
  PROVE  Crowded \in [CallIds -> CallType] /\ \A j \in CallIds : Formed(Crowded[j])
  BY WatchTypes DEF Typed, TypeOK, Crowded

LEMMA BeginTypes ==
  ASSUME Typed, NEW request \in CallType, Formed(request), Begin(request)
  PROVE  calls' \in [CallIds -> CallType] /\ \A j \in CallIds : Formed(calls'[j])
<1>1. \A j \in CallIds : \/ \E b \in BOOLEAN : calls'[j] = [request EXCEPT !.alone = b]
                         \/ calls'[j] = [calls[j] EXCEPT !.alone = FALSE]
  BY DEF Begin
<1>2. \A j \in CallIds : calls[j] \in CallType /\ Formed(calls[j])
  BY DEF Typed, TypeOK
<1>3. ASSUME NEW j \in CallIds PROVE calls'[j] \in CallType /\ Formed(calls'[j])
  <2>1. \A b \in BOOLEAN : /\ [request EXCEPT !.alone = b] \in CallType
                           /\ Formed([request EXCEPT !.alone = b])
    BY WatchTypes
  <2>2. /\ [calls[j] EXCEPT !.alone = FALSE] \in CallType
        /\ Formed([calls[j] EXCEPT !.alone = FALSE])
    BY <1>2, WatchTypes
  <2>3. CASE \E b \in BOOLEAN : calls'[j] = [request EXCEPT !.alone = b]
    BY <2>1, <2>3
  <2>4. CASE calls'[j] = [calls[j] EXCEPT !.alone = FALSE]
    BY <2>2, <2>4
  <2> QED
    BY <1>1, <2>3, <2>4
<1>4. \E f : calls' = [j \in CallIds |-> f[j]]
  <2>1. calls' = [j \in CallIds |-> calls'[j]]
    BY DEF Begin
  <2> QED
    BY <2>1
<1> QED
  BY <1>3, <1>4

LEMMA AskTypes == ASSUME Typed, Ask PROVE Typed'
<1>1. PICK request \in CallType : Formed(request) /\ Begin(request)
  <2>1. CASE \E i \in Live \cup {None}, o \in Objects : Begin(Request("tag", i, o))
    BY <2>1, RequestTypes DEF Ops, Live
  <2>2. CASE \E op \in {"import", "refresh", "export"} : Begin(Request(op, None, None))
    BY <2>2, RequestTypes DEF Ops
  <2> QED
    BY <2>1, <2>2 DEF Ask
<1>2. calls' \in [CallIds -> CallType] /\ \A j \in CallIds : Formed(calls'[j])
  BY <1>1, BeginTypes
<1>3. count' \in [Bounded -> Nat]
  BY <1>1, CountTypes DEF Begin, Bounded, Typed
<1> QED
  BY <1>1, <1>2, <1>3 DEF Begin, Typed, TypeOK, db, source, disk, Live, Named

LEMMA EditTypes == ASSUME Typed, Edit PROVE Typed'
<1>1. calls' = Crowded /\ Count("requests", MaxRequests)
  BY DEF Edit, CreateDomain, UpdateDomain, DeleteDomain
<1>2. calls' \in [CallIds -> CallType] /\ \A j \in CallIds : Formed(calls'[j])
  BY <1>1, CrowdedTypes
<1>3. count' \in [Bounded -> Nat]
  BY <1>1, CountTypes DEF Bounded, Typed
<1>4. UNCHANGED <<source, disk, shared>>
  BY DEF Edit, CreateDomain, UpdateDomain, DeleteDomain
<1>5. /\ domains' \in [Ids -> Domain \cup {None}]
      /\ tags' \subseteq Live' \X Objects
      /\ \A n \in Names : AtMostOne(Named(n))'
  <2>1. CASE \E i \in Ids, n \in Names, hidden \in BOOLEAN :
               CreateDomain(i, n, hidden) \/ UpdateDomain(i, n, hidden)
    <3>1. PICK i \in Ids, n \in Names, hidden \in BOOLEAN :
            /\ domains' = [domains EXCEPT ![i] = [name |-> n, hidden |-> hidden]]
            /\ Named(n) \subseteq {i}
      BY <2>1 DEF CreateDomain, UpdateDomain
    <3>2. [name |-> n, hidden |-> hidden] \in Domain
      BY DEF Domain
    <3>3. domains' \in [Ids -> Domain \cup {None}] /\ Live \subseteq Live'
      BY <3>1, <3>2, DomainRecords DEF Typed, TypeOK, Live
    <3>4. Named(n)' \subseteq {i}
      BY <3>1 DEF Named, Live, Typed, TypeOK
    <3>5. \A m \in Names \ {n} : Named(m)' \subseteq Named(m)
      BY <3>1 DEF Named, Live, Typed, TypeOK
    <3>6. tags' = tags
      BY <2>1 DEF CreateDomain, UpdateDomain
    <3> QED
      BY <3>3, <3>4, <3>5, <3>6 DEF Typed, TypeOK, AtMostOne
  <2>2. CASE \E i \in Ids : DeleteDomain(i)
    <3>1. PICK i \in Ids : /\ domains' = [domains EXCEPT ![i] = None]
                           /\ tags' = {t \in tags : t[1] # i}
      BY <2>2 DEF DeleteDomain
    <3>2. Live' = Live \ {i} /\ domains' \in [Ids -> Domain \cup {None}]
      BY <3>1 DEF Typed, TypeOK, Live
    <3>3. \A n \in Names : Named(n)' \subseteq Named(n)
      BY <3>1, <3>2 DEF Named, Typed, TypeOK
    <3>4. tags' \subseteq Live' \X Objects
      BY <3>1, <3>2 DEF Typed, TypeOK
    <3> QED
      BY <3>2, <3>3, <3>4 DEF Typed, TypeOK, AtMostOne
  <2> QED
    BY <2>1, <2>2 DEF Edit
<1> QED
  BY <1>2, <1>3, <1>4, <1>5 DEF Typed, TypeOK, source, disk

(* What an import that goes through has done: every name of the file is a  *)
(* domain with a fresh id, and what it did not drop is as it was.          *)
Kept(c) == Live \ c.dropping
Left(c) == {t \in tags : t[1] \in Kept(c)}
NewTags(c, id) == UNION {{<<id[n], o>> : o \in c.file[n]} : n \in InFile(c)}
Imported(c, id) ==
  /\ id \in [InFile(c) -> Fresh]
  /\ \A m, n \in InFile(c) : id[m] = id[n] => m = n
  /\ \A i \in Kept(c) : domains[i].name \notin InFile(c)
  /\ \A n \in InFile(c) : domains'[id[n]] = [name |-> n, hidden |-> FALSE]
  /\ \A i \in Ids : (\A n \in InFile(c) : id[n] # i)
                      => domains'[i] = IF i \in Kept(c) THEN domains[i] ELSE None
  /\ tags' = Left(c) \cup NewTags(c, id)
  /\ shared' = shared \cup {o \in Objects :
                  \E t \in Left(c) \cup NewTags(c, id), u \in NewTags(c, id) :
                    t # u /\ t[2] = o /\ u[2] = o}

LEMMA FillImports ==
  ASSUME Typed, NEW k \in CallIds, Fill(k)
  PROVE  /\ domains' \in [Ids -> Domain \cup {None}]
         /\ \/ /\ UNCHANGED <<db, shared>>
               /\ \E i \in Kept(calls[k]) : domains[i].name \in InFile(calls[k])
            \/ \E id : Imported(calls[k], id)
<1> DEFINE c == calls[k]
<1>1. CASE \E i \in Kept(c) : domains[i].name \in InFile(c)
  <2>1. UNCHANGED <<db, shared>>
    BY <1>1 DEF Fill, Kept
  <2> QED
    BY <1>1, <2>1 DEF Typed, TypeOK, db
<1>2. CASE ~\E i \in Kept(c) : domains[i].name \in InFile(c)
  <2>1. PICK id \in Injection(InFile(c), Fresh) :
          /\ domains' = [i \in Ids |->
               IF \E n \in InFile(c) : id[n] = i
               THEN [name |-> CHOOSE n \in InFile(c) : id[n] = i, hidden |-> FALSE]
               ELSE IF i \in Kept(c) THEN domains[i] ELSE None]
          /\ tags' = Left(c) \cup NewTags(c, id)
          /\ shared' = shared \cup {o \in Objects :
                          \E t \in Left(c) \cup NewTags(c, id), u \in NewTags(c, id) :
                            t # u /\ t[2] = o /\ u[2] = o}
    BY <1>2 DEF Fill, Kept, Left, NewTags
  <2>2. \A i \in Kept(c) : domains[i].name \notin InFile(c)
    BY <1>2
  <2>3. /\ id \in [InFile(c) -> Fresh]
        /\ \A m, n \in InFile(c) : id[m] = id[n] => m = n
    BY <2>1 DEF Injection, IsInjective
  <2>4. Fresh \subseteq Ids
    BY DEF Fresh
  <2>5. \A i \in Ids, n \in InFile(c) : id[n] = i => (CHOOSE m \in InFile(c) : id[m] = i) = n
    BY <2>3
  <2>6. \A n \in InFile(c) : domains'[id[n]] = [name |-> n, hidden |-> FALSE]
    BY <2>1, <2>3, <2>4, <2>5
  <2>7. \A i \in Ids : (\A n \in InFile(c) : id[n] # i)
                         => domains'[i] = IF i \in Kept(c) THEN domains[i] ELSE None
    BY <2>1
  <2>8. ASSUME NEW i \in Ids PROVE domains'[i] \in Domain \cup {None}
    <3>1. CASE \E n \in InFile(c) : id[n] = i
      <4>1. PICK n \in InFile(c) : id[n] = i
        BY <3>1
      <4>2. domains'[i] = [name |-> n, hidden |-> FALSE] /\ n \in Names
        BY <2>6, <4>1 DEF InFile
      <4> QED
        BY <4>2 DEF Domain
    <3>2. CASE \A n \in InFile(c) : id[n] # i
      BY <2>7, <3>2 DEF Typed, TypeOK
    <3> QED
      BY <3>1, <3>2
  <2>9. domains' \in [Ids -> Domain \cup {None}]
    BY <2>1, <2>8
  <2>10. Imported(c, id)
    BY <2>1, <2>2, <2>3, <2>6, <2>7 DEF Imported
  <2> QED
    BY <2>9, <2>10
<1> QED
  BY <1>1, <1>2

LEMMA ImportTypes ==
  ASSUME Typed, NEW k \in CallIds, Fill(k)
  PROVE  /\ tags' \subseteq Live' \X Objects
         /\ \A n \in Names : AtMostOne(Named(n))'
         /\ shared' \subseteq Objects
<1> DEFINE c == calls[k]
<1>1. CASE UNCHANGED <<db, shared>>
  BY <1>1 DEF Typed, TypeOK, db, Live, Named, AtMostOne
<1>2. CASE \E id : Imported(c, id)
  <2>1. PICK id : Imported(c, id)
    BY <1>2
  <2> DEFINE New == {id[n] : n \in InFile(c)}
  <2>2. Fresh \subseteq Ids \ Live /\ Kept(c) \subseteq Live /\ Live \subseteq Ids
    BY DEF Fresh, Kept, Live
  <2>3. \A n \in InFile(c) : id[n] \in Fresh
    BY <2>1 DEF Imported
  <2>4. \A n \in InFile(c) : /\ id[n] \in Ids
                             /\ domains'[id[n]] \in Domain
                             /\ domains'[id[n]].name = n
    <3> SUFFICES ASSUME NEW n \in InFile(c)
                 PROVE  id[n] \in Ids /\ domains'[id[n]] \in Domain /\ domains'[id[n]].name = n
      OBVIOUS
    <3>1. domains'[id[n]] = [name |-> n, hidden |-> FALSE] /\ n \in Names
      BY <2>1 DEF Imported, InFile
    <3> QED
      BY <3>1, <2>2, <2>3 DEF Domain
  <2>5. \A i \in Kept(c) : domains'[i] = domains[i] /\ i \notin New
    BY <2>1, <2>2, <2>3 DEF Imported
  <2>6. \A i \in Ids : i \notin New \cup Kept(c) => domains'[i] = None
    BY <2>1 DEF Imported
  <2>7. Live' = New \cup Kept(c)
    BY <2>2, <2>4, <2>5, <2>6, DomainRecords DEF Live
  <2>8. Left(c) \subseteq Kept(c) \X Objects
    BY DEF Left, Typed, TypeOK
  <2>9. NewTags(c, id) \subseteq New \X Objects
    <3>1. c.file \in DomainFile
      BY DEF Typed, Formed, Fill, At
    <3>2. \A n \in InFile(c) : c.file[n] \subseteq Objects
      BY <3>1 DEF DomainFile, InFile
    <3> QED
      BY <3>2 DEF NewTags
  <2>10. tags' \subseteq Live' \X Objects
    BY <2>1, <2>7, <2>8, <2>9 DEF Imported
  <2>11. ASSUME NEW n \in Names, NEW i \in Named(n)', NEW j \in Named(n)' PROVE i = j
    <3>1. /\ i \in New \cup Kept(c) /\ domains'[i].name = n
          /\ j \in New \cup Kept(c) /\ domains'[j].name = n
      BY <2>7, <2>11 DEF Named
    <3>2. \A x \in New : domains'[x].name = n => n \in InFile(c) /\ x = id[n]
      BY <2>4
    <3>3. \A x \in Kept(c) : domains'[x].name = n => n \notin InFile(c) /\ x \in Named(n)
      BY <2>1, <2>2, <2>5 DEF Imported, Named
    <3>4. AtMostOne(Named(n))
      BY DEF Typed, TypeOK
    <3> QED
      BY <3>1, <3>2, <3>3, <3>4 DEF AtMostOne
  <2>12. shared' \subseteq Objects
    BY <2>1 DEF Imported, Typed, TypeOK
  <2> QED
    BY <2>10, <2>11, <2>12 DEF AtMostOne
<1> QED
  BY <1>1, <1>2, FillImports

(* A handler ends, or goes on with what its query said.                    *)
LEMMA ProceedCalls ==
  ASSUME Typed, NEW k \in CallIds, Proceed(k)
  PROVE  calls' \in [CallIds -> CallType] /\ \A j \in CallIds : Formed(calls'[j])
<1> DEFINE c == calls[k]
<1>1. c \in CallType /\ Formed(c)
  BY DEF Typed, TypeOK
<1>2. ASSUME Return(k)
      PROVE  calls' \in [CallIds -> CallType] /\ \A j \in CallIds : Formed(calls'[j])
  BY <1>2, IdleTypes, BecomesTypes DEF Return
<1>3. ASSUME NEW d \in CallType, d.op \notin {"tag", "import"}, Becomes(k, d)
      PROVE  calls' \in [CallIds -> CallType] /\ \A j \in CallIds : Formed(calls'[j])
  BY <1>3, BecomesTypes DEF Formed
<1>a. CASE Untag(k)
  <2>1. {t \in tags : t[2] = c.object} \in SUBSET Tags
    BY DEF Typed, TypeOK, Tags, Live
  <2>2. CASE Becomes(k, [c EXCEPT !.pc = "commit", !.rows = {t \in tags : t[2] = c.object}])
    <3>1. [c EXCEPT !.pc = "commit", !.rows = {t \in tags : t[2] = c.object}] \in CallType
      BY <1>1, <2>1, StepTypes
    <3>2. Formed([c EXCEPT !.pc = "commit", !.rows = {t \in tags : t[2] = c.object}])
      BY <1>a, <1>1 DEF Untag, At, CallType, Formed
    <3> QED
      BY <2>2, <3>1, <3>2, BecomesTypes
  <2> QED
    BY <1>a, <1>2, <2>2 DEF Untag
<1>b. CASE Tag(k) \/ Fill(k) \/ WriteFails(k) \/ Record(k)
  BY <1>b, <1>2 DEF Tag, Fill, WriteFails, Record
<1>c. CASE ReadFile(k)
  <2>1. CASE file # None /\ Becomes(k, [c EXCEPT !.pc = "scan", !.file = file])
    <3>1. file \in DomainFile \ {None}
      BY <2>1 DEF Typed, TypeOK
    <3>2. [c EXCEPT !.pc = "scan", !.file = file] \in CallType
      BY <1>1, <3>1, StepTypes
    <3>3. Formed([c EXCEPT !.pc = "scan", !.file = file])
      BY <1>1, <3>1 DEF Formed, CallType
    <3> QED
      BY <2>1, <3>2, <3>3, BecomesTypes
  <2> QED
    BY <1>c, <1>2, <2>1 DEF ReadFile
<1>d. CASE Clear(k)
  <2>1. PICK dropped \in SUBSET Ids, rows \in SUBSET Tags :
          Becomes(k, [c EXCEPT !.pc = "commit", !.dropping = dropped, !.rows = rows])
    BY <1>d DEF Clear, Typed, TypeOK, Tags, Live
  <2>2. [c EXCEPT !.pc = "commit", !.dropping = dropped, !.rows = rows] \in CallType
    BY <1>1, StepTypes
  <2>3. Formed([c EXCEPT !.pc = "commit", !.dropping = dropped, !.rows = rows])
    BY <1>1, <1>d DEF Formed, CallType, Clear, At
  <2> QED
    BY <2>1, <2>2, <2>3, BecomesTypes
<1>e. CASE ListDomains(k) \/ ListTags(k) \/ ReadCatalog(k)
  <2>1. PICK names \in [Ids -> Names \cup {None}], rows \in SUBSET Tags :
          \/ Becomes(k, [c EXCEPT !.pc = "tags", !.listed = names])
          \/ Becomes(k, [c EXCEPT !.pc = "catalog", !.rows = rows])
          \/ Becomes(k, [c EXCEPT !.pc = "reconcile", !.stale = rows])
          \/ Return(k)
    <3>1. [i \in Ids |-> IF i \in Visible THEN domains[i].name ELSE None]
            \in [Ids -> Names \cup {None}]
      BY DEF Typed, TypeOK, Visible, Live, Domain
    <3>2. tags \in SUBSET Tags /\ {t \in c.rows : t[2] \notin catalog} \in SUBSET Tags
      BY <1>1 DEF Typed, TypeOK, Tags, Live, CallType
    <3>3. CASE ListDomains(k)
      BY <3>1, <3>3 DEF ListDomains
    <3>4. CASE ListTags(k)
      BY <3>1, <3>2, <3>4 DEF ListTags
    <3>5. CASE ReadCatalog(k)
      BY <3>1, <3>2, <3>5 DEF ReadCatalog
    <3> QED
      BY <1>e, <3>3, <3>4, <3>5
  <2>2. /\ [c EXCEPT !.pc = "tags", !.listed = names] \in CallType
        /\ [c EXCEPT !.pc = "catalog", !.rows = rows] \in CallType
        /\ [c EXCEPT !.pc = "reconcile", !.stale = rows] \in CallType
    BY <1>1, StepTypes
  <2>3. /\ [c EXCEPT !.pc = "tags", !.listed = names].op \notin {"tag", "import"}
        /\ [c EXCEPT !.pc = "catalog", !.rows = rows].op \notin {"tag", "import"}
        /\ [c EXCEPT !.pc = "reconcile", !.stale = rows].op \notin {"tag", "import"}
    BY <1>1, <1>e DEF ListDomains, ListTags, ReadCatalog, At, CallType
  <2> QED
    BY <2>1, <2>2, <2>3, <1>2, <1>3
<1>f. CASE Reconcile(k)
  <2>1. [c EXCEPT !.pc = "build", !.rows = c.rows \ c.stale, !.stale = {}] \in CallType
    <3>1. c.rows \ c.stale \in SUBSET Tags
      BY <1>1 DEF CallType
    <3> QED
      BY <1>1, <3>1, StepTypes
  <2>2. [c EXCEPT !.pc = "build", !.rows = c.rows \ c.stale, !.stale = {}].op \notin {"tag", "import"}
    BY <1>1, <1>f DEF Reconcile, At, CallType
  <2> QED
    BY <1>f, <2>1, <2>2, <1>2, <1>3 DEF Reconcile
<1>g. CASE Build(k)
  <2>1. PICK tree \in SUBSET Files, f \in DomainFile :
          Becomes(k, [c EXCEPT !.pc = "scan", !.rows = {}, !.listed = Unlisted,
                               !.tree = tree, !.file = f])
    <3> DEFINE listed == {i \in Ids : c.listed[i] # None}
               named == {n \in Names : \E i \in listed : c.listed[i] = n}
               described == {r \in c.rows : r[1] \in listed /\ r[2] \in catalog}
               fileOf == [n \in Names |->
                 IF n \notin named THEN None
                 ELSE {o \in Objects : \E r \in c.rows : r[2] = o /\ r[1] \in listed
                                                          /\ c.listed[r[1]] = n}]
    <3>1. PICK refused \in SUBSET described :
            Becomes(k, [c EXCEPT !.pc = "scan", !.rows = {}, !.listed = Unlisted,
              !.tree = {<<c.listed[r[1]], r[2]>> : r \in described \ refused},
              !.file = fileOf])
      BY <1>g DEF Build
    <3>2. {<<c.listed[r[1]], r[2]>> : r \in described \ refused} \in SUBSET Files
      BY <1>1 DEF CallType, Files, Tags
    <3>3. fileOf \in DomainFile
      BY DEF DomainFile
    <3> HIDE DEF fileOf, described
    <3> QED
      BY <3>1, <3>2, <3>3
  <2> DEFINE d == [c EXCEPT !.pc = "scan", !.rows = {}, !.listed = Unlisted,
                            !.tree = tree, !.file = f]
  <2>2. d \in CallType
    BY <1>1, StepTypes
  <2>3. d.op \notin {"tag", "import"}
    BY <1>1, <1>g DEF Build, At, CallType
  <2> QED
    BY <2>1, <2>2, <2>3, <1>3
<1>h. CASE Scan(k)
  <2>1. PICK pc \in {"write", "domains"}, plan \in SUBSET Files, extra \in SUBSET Files :
          Becomes(k, [c EXCEPT !.pc = pc, !.plan = plan, !.extra = extra])
    BY <1>h, <1>1 DEF Scan, CallType, Typed, TypeOK
  <2>2. [c EXCEPT !.pc = pc, !.plan = plan, !.extra = extra] \in CallType
    BY <1>1, StepTypes
  <2>3. [c EXCEPT !.pc = pc, !.plan = plan, !.extra = extra].op \notin {"tag", "import"}
    BY <1>1, <1>h DEF Scan, At, CallType
  <2> QED
    BY <2>1, <2>2, <2>3, <1>3
<1>i. CASE WriteDomains(k) \/ WriteFile(k) \/ Prune(k)
  <2>1. \/ \E pc \in {"write", "prune", "domains", "record"} : Goto(k, pc)
        \/ \E f : Becomes(k, [c EXCEPT !.plan = @ \ {f}])
        \/ \E f : Becomes(k, [c EXCEPT !.extra = @ \ {f}])
    BY <1>i DEF WriteDomains, WriteFile, Prune
  <2>2. c.op \notin {"tag", "import"}
    BY <1>i DEF WriteDomains, WriteFile, Prune, At
  <2>3. /\ \A pc : [c EXCEPT !.pc = pc].op \notin {"tag", "import"}
        /\ \A f : [c EXCEPT !.plan = @ \ {f}].op \notin {"tag", "import"}
        /\ \A f : [c EXCEPT !.extra = @ \ {f}].op \notin {"tag", "import"}
    BY <1>1, <2>2 DEF CallType
  <2> QED
    BY <1>1, <2>1, <2>3, <1>3, StepTypes DEF Goto
<1> QED
  BY <1>a, <1>b, <1>c, <1>d, <1>e, <1>f, <1>g, <1>h, <1>i DEF Proceed

LEMMA ProceedTypes == ASSUME Typed, NEW k \in CallIds, Proceed(k) PROVE Typed'
<1>1. calls' \in [CallIds -> CallType] /\ \A j \in CallIds : Formed(calls'[j])
  BY ProceedCalls
<1>2. count' \in [Bounded -> Nat]
  <2>1. UNCHANGED count \/ Count("fails", MaxFails)
    BY DEF Proceed, Untag, Tag, ReadFile, Clear, Fill, ListDomains, ListTags, ReadCatalog,
           Reconcile, Build, Scan, WriteDomains, WriteFile, Prune, WriteFails, Record
  <2> QED
    BY <2>1, CountTypes DEF Bounded, Typed, TypeOK
<1>3. UNCHANGED source
  BY DEF Proceed, Untag, Tag, ReadFile, Clear, Fill, ListDomains, ListTags, ReadCatalog,
         Reconcile, Build, Scan, WriteDomains, WriteFile, Prune, WriteFails, Record, source
<1>4. dump' \subseteq Files /\ file' \in DomainFile \cup {None}
  <2>1. calls[k] \in CallType
    BY DEF Typed, TypeOK
  <2>2. UNCHANGED disk \/ WriteDomains(k) \/ WriteFile(k) \/ Prune(k)
    BY DEF Proceed, Untag, Tag, ReadFile, Clear, Fill, ListDomains, ListTags, ReadCatalog,
           Reconcile, Build, Scan, WriteFails, Record
  <2> QED
    BY <2>1, <2>2 DEF disk, WriteDomains, WriteFile, Prune, Typed, TypeOK, CallType
<1>5. /\ domains' \in [Ids -> Domain \cup {None}]
      /\ tags' \subseteq Live' \X Objects
      /\ \A n \in Names : AtMostOne(Named(n))'
      /\ shared' \subseteq Objects
  <2>1. CASE Fill(k)
    BY <2>1, FillImports, ImportTypes
  <2>2. CASE Tag(k)
    <3>1. domains' = domains /\ Live' = Live
      BY <2>2 DEF Tag, Live
    <3>2. calls[k].object \in Objects
      BY <2>2 DEF Typed, Formed, Tag, At
    <3>3. tags' \subseteq tags \/ /\ calls[k].target \in Live
                                  /\ tags' \subseteq tags \cup {<<calls[k].target, calls[k].object>>}
      BY <2>2 DEF Tag
    <3>4. tags' \subseteq Live' \X Objects /\ shared' \subseteq Objects
      BY <2>2, <3>1, <3>2, <3>3 DEF Tag, Typed, TypeOK
    <3> QED
      BY <3>1, <3>4 DEF Typed, TypeOK, Live, Named, AtMostOne
  <2>3. CASE ~Fill(k) /\ ~Tag(k)
    <3>1. tags' \subseteq tags /\ domains' = domains /\ shared' = shared
      BY <2>3 DEF Proceed, Untag, ReadFile, Clear, ListDomains, ListTags, ReadCatalog,
           Reconcile, Build, Scan, WriteDomains, WriteFile, Prune, WriteFails, Record, db
    <3> QED
      BY <3>1 DEF Typed, TypeOK, Live, Named, AtMostOne
  <2> QED
    BY <2>1, <2>2, <2>3
<1> QED
  BY <1>1, <1>2, <1>3, <1>4, <1>5 DEF Typed, TypeOK, source

LEMMA ChangeTypes == ASSUME Typed, NEW o \in Objects, ChangeCatalog(o) PROVE Typed'
<1>1. catalog' \subseteq Objects
  BY DEF ChangeCatalog, Typed, TypeOK
<1>2. calls' \in [CallIds -> CallType] /\ \A k \in CallIds : Formed(calls'[k])
  <2>1. ASSUME NEW k \in CallIds PROVE calls'[k] \in CallType /\ Formed(calls'[k])
    <3>1. calls[k] \in CallType /\ Formed(calls[k])
      BY DEF Typed, TypeOK
    <3>2. calls[k].gone \cup (Objects \ catalog') \in SUBSET Objects
      BY <3>1 DEF CallType
    <3>3. \/ calls'[k] = Idle
          \/ calls'[k] = [calls[k] EXCEPT !.alone = FALSE,
                                          !.gone = calls[k].gone \cup (Objects \ catalog')]
      BY DEF ChangeCatalog
    <3> QED
      BY <3>1, <3>2, <3>3, IdleTypes, WatchTypes
  <2> QED
    BY <2>1 DEF ChangeCatalog
<1>3. count' \in [Bounded -> Nat]
  BY CountTypes DEF ChangeCatalog, Bounded, Typed
<1> QED
  BY <1>1, <1>2, <1>3 DEF ChangeCatalog, db, disk, Typed, TypeOK, Live, Named, AtMostOne

LEMMA AlwaysTyped == Spec => []Typed
<1>1. Init => Typed
  <2> SUFFICES ASSUME Init PROVE Typed
    OBVIOUS
  <2>1. \A k \in CallIds : calls[k] \in CallType /\ Formed(calls[k])
    BY IdleTypes DEF Init
  <2>2. calls \in [CallIds -> CallType]
    BY <2>1 DEF Init
  <2>3. dump \subseteq Files
    BY DEF Init, Files
  <2> QED
    BY <2>1, <2>2, <2>3 DEF Init, Typed, TypeOK
<1>2. Typed /\ [Next]_vars => Typed'
  <2>1. CASE UNCHANGED vars
    BY <2>1 DEF vars, db, disk, Typed, TypeOK, Live, Named, AtMostOne
  <2> QED
    BY <2>1, AskTypes, EditTypes, ProceedTypes, ChangeTypes DEF Next
<1> QED
  BY <1>1, <1>2, PTL DEF Spec

(* Every variable keeps its type, a tag names a domain there is, and no    *)
(* two domains have one name (apps/server/src/domains/service.ts).         *)
THEOREM TypeCorrect == Spec => []TypeOK
BY AlwaysTyped, PTL DEF Typed

-----------------------------------------------------------------------------
(* Who runs alone.                                                         *)

AloneIsAlone ==
  \A j, k \in CallIds : calls[k].op # "idle" /\ calls[k].alone /\ calls[j].op # "idle" => j = k

(* A handler ends or goes on as what it is.                                *)
GoesOn(c, d) ==
  d = Idle \/ (d.op = c.op /\ d.alone = c.alone /\ d.gone = c.gone)

LEMMA StepsGoOn ==
  ASSUME NEW c \in CallType
  PROVE  /\ GoesOn(c, Idle)
         /\ \A pc, a, b, d, e :
              /\ GoesOn(c, [c EXCEPT !.pc = pc, !.rows = a])
              /\ GoesOn(c, [c EXCEPT !.pc = pc, !.file = a])
              /\ GoesOn(c, [c EXCEPT !.pc = pc, !.dropping = a, !.rows = b])
              /\ GoesOn(c, [c EXCEPT !.pc = pc, !.listed = a])
              /\ GoesOn(c, [c EXCEPT !.pc = pc, !.stale = a])
              /\ GoesOn(c, [c EXCEPT !.pc = pc, !.rows = a, !.stale = b])
              /\ GoesOn(c, [c EXCEPT !.pc = pc, !.rows = a, !.listed = b, !.tree = d, !.file = e])
              /\ GoesOn(c, [c EXCEPT !.pc = pc, !.plan = a, !.extra = b])
              /\ GoesOn(c, [c EXCEPT !.pc = pc])
              /\ GoesOn(c, [c EXCEPT !.plan = @ \ {a}])
              /\ GoesOn(c, [c EXCEPT !.extra = @ \ {a}])
  BY DEF CallType, GoesOn

LEMMA ProceedAlone ==
  ASSUME Typed, NEW k \in CallIds, Proceed(k)
  PROVE  /\ \A j \in CallIds \ {k} : calls'[j] = calls[j]
         /\ GoesOn(calls[k], calls'[k])
         /\ calls[k].op # "idle"
<1> DEFINE c == calls[k]
<1>1. c \in CallType /\ calls \in [CallIds -> CallType]
  BY DEF Typed, TypeOK
<1>2. ASSUME NEW d, Becomes(k, d), GoesOn(c, d)
      PROVE  (\A j \in CallIds \ {k} : calls'[j] = calls[j]) /\ GoesOn(calls[k], calls'[k])
  BY <1>1, <1>2 DEF Becomes
<1>3. \E d : Becomes(k, d) /\ GoesOn(c, d)
  <2>1. CASE Untag(k)
    BY <2>1, <1>1, StepsGoOn DEF Untag, Return, Goto
  <2>2. CASE Tag(k) \/ Fill(k) \/ WriteFails(k) \/ Record(k)
    BY <2>2, <1>1, StepsGoOn DEF Tag, Fill, WriteFails, Record, Return, Goto
  <2>3. CASE ReadFile(k)
    BY <2>3, <1>1, StepsGoOn DEF ReadFile, Return, Goto
  <2>4. CASE Clear(k)
    <3>1. \E a, b : Becomes(k, [c EXCEPT !.pc = "commit", !.dropping = a, !.rows = b])
      BY <2>4 DEF Clear, Return
    <3>2. \A a, b : GoesOn(c, [c EXCEPT !.pc = "commit", !.dropping = a, !.rows = b])
      BY <1>1, StepsGoOn
    <3> QED
      BY <3>1, <3>2
  <2>5. CASE ListDomains(k)
    BY <2>5, <1>1, StepsGoOn DEF ListDomains, Return, Goto
  <2>6. CASE ListTags(k)
    BY <2>6, <1>1, StepsGoOn DEF ListTags, Return, Goto
  <2>7. CASE ReadCatalog(k)
    BY <2>7, <1>1, StepsGoOn DEF ReadCatalog, Return, Goto
  <2>8. CASE Reconcile(k)
    <3>1. \/ Becomes(k, [c EXCEPT !.pc = "build", !.rows = c.rows \ c.stale, !.stale = {}])
          \/ Becomes(k, Idle)
      BY <2>8 DEF Reconcile, Return
    <3>2. /\ GoesOn(c, [c EXCEPT !.pc = "build", !.rows = c.rows \ c.stale, !.stale = {}])
          /\ GoesOn(c, Idle)
      BY <1>1, StepsGoOn
    <3> QED
      BY <3>1, <3>2
  <2>9. CASE Build(k)
    <3>1. \E a, b : Becomes(k, [c EXCEPT !.pc = "scan", !.rows = {}, !.listed = Unlisted,
                                        !.tree = a, !.file = b])
      BY <2>9 DEF Build, Return
    <3>2. \A a, b : GoesOn(c, [c EXCEPT !.pc = "scan", !.rows = {}, !.listed = Unlisted,
                                       !.tree = a, !.file = b])
      BY <1>1, StepsGoOn
    <3> QED
      BY <3>1, <3>2
  <2>10. CASE Scan(k)
    <3>1. \E pc, a, b : Becomes(k, [c EXCEPT !.pc = pc, !.plan = a, !.extra = b])
      BY <2>10 DEF Scan, Return
    <3>2. \A pc, a, b : GoesOn(c, [c EXCEPT !.pc = pc, !.plan = a, !.extra = b])
      BY <1>1, StepsGoOn
    <3> QED
      BY <3>1, <3>2
  <2>11. CASE WriteDomains(k)
    BY <2>11, <1>1, StepsGoOn DEF WriteDomains, Return, Goto
  <2>12. CASE WriteFile(k)
    BY <2>12, <1>1, StepsGoOn DEF WriteFile, Return, Goto
  <2>13. CASE Prune(k)
    BY <2>13, <1>1, StepsGoOn DEF Prune, Return, Goto
  <2> QED
    BY <2>1, <2>2, <2>3, <2>4, <2>5, <2>6, <2>7, <2>8, <2>9, <2>10, <2>11, <2>12, <2>13
       DEF Proceed
<1>4. c.op # "idle"
  BY DEF Proceed, Untag, Tag, ReadFile, Clear, Fill, ListDomains, ListTags, ReadCatalog,
         Reconcile, Build, Scan, WriteDomains, WriteFile, Prune, WriteFails, Record, At
<1> QED
  BY <1>2, <1>3, <1>4

(* Who is watched stays as it is otherwise.                                *)
Same(c, d) ==
  /\ d.op = c.op /\ d.pc = c.pc /\ d.target = c.target /\ d.object = c.object
  /\ d.rows = c.rows /\ d.dropping = c.dropping /\ d.stale = c.stale
  /\ d.tree = c.tree /\ d.plan = c.plan /\ d.extra = c.extra /\ d.file = c.file

LEMMA Watched ==
  ASSUME NEW c \in CallType
  PROVE  /\ \A b \in BOOLEAN : /\ Same(c, [c EXCEPT !.alone = b])
                               /\ [c EXCEPT !.alone = b].alone = b
                               /\ [c EXCEPT !.alone = b].gone = c.gone
         /\ \A gone : /\ Same(c, [c EXCEPT !.alone = FALSE, !.gone = gone])
                      /\ ~[c EXCEPT !.alone = FALSE, !.gone = gone].alone
                      /\ [c EXCEPT !.alone = FALSE, !.gone = gone].gone = gone
  BY DEF CallType, Same

(* A change of a row or of the database leaves nobody alone.               *)
LEMMA Disturbs ==
  ASSUME Typed, Edit \/ \E o \in Objects : ChangeCatalog(o)
  PROVE  \A k \in CallIds :
           \/ calls'[k] = Idle /\ calls[k].op = "idle"
           \/ /\ Same(calls[k], calls'[k]) /\ ~calls'[k].alone
              /\ calls'[k].gone = IF Edit THEN calls[k].gone
                                  ELSE calls[k].gone \cup (Objects \ catalog')
<1>1. \A k \in CallIds : calls[k] \in CallType
  BY DEF Typed, TypeOK
<1>2. CASE Edit
  <2>1. \A k \in CallIds : calls'[k] = [calls[k] EXCEPT !.alone = FALSE]
    BY <1>2 DEF Edit, CreateDomain, UpdateDomain, DeleteDomain, Crowded
  <2>2. \A k \in CallIds : LET d == [calls[k] EXCEPT !.alone = FALSE]
                          IN  Same(calls[k], d) /\ ~d.alone /\ d.gone = calls[k].gone
    BY <1>1, Watched
  <2> QED
    BY <1>2, <2>1, <2>2
<1>3. CASE ~Edit
  <2> SUFFICES ASSUME NEW k \in CallIds
               PROVE  \/ calls'[k] = Idle /\ calls[k].op = "idle"
                      \/ /\ Same(calls[k], calls'[k]) /\ ~calls'[k].alone
                         /\ calls'[k].gone = calls[k].gone \cup (Objects \ catalog')
    BY <1>3
  <2>1. \/ calls'[k] = Idle /\ calls[k].op = "idle"
        \/ calls'[k] = [calls[k] EXCEPT !.alone = FALSE,
                                        !.gone = calls[k].gone \cup (Objects \ catalog')]
    BY <1>3 DEF ChangeCatalog, Active
  <2>2. /\ calls[k] \in CallType
        /\ \A gone : /\ Same(calls[k], [calls[k] EXCEPT !.alone = FALSE, !.gone = gone])
                     /\ ~[calls[k] EXCEPT !.alone = FALSE, !.gone = gone].alone
                     /\ [calls[k] EXCEPT !.alone = FALSE, !.gone = gone].gone = gone
    <3>1. calls[k] \in CallType
      BY <1>1
    <3> QED
      BY <3>1, Watched
  <2>3. LET d == [calls[k] EXCEPT !.alone = FALSE, !.gone = calls[k].gone \cup (Objects \ catalog')]
        IN  Same(calls[k], d) /\ ~d.alone /\ d.gone = calls[k].gone \cup (Objects \ catalog')
    BY <2>2
  <2> QED
    BY <2>1, <2>3
<1> QED
  BY <1>2, <1>3

(* Numbers of calls have a least one.                                      *)
LEMMA LeastCall ==
  ASSUME NEW S \in SUBSET CallIds, S # {}
  PROVE  \E k \in S : \A i \in S : k <= i
<1> DEFINE less == {ss \in Nat \X Nat : ss[1] < ss[2]}
<1>1. S \subseteq Nat
  BY DomainsAssumption DEF CallIds
<1>2. IsWellFoundedOn(less, Nat)
  BY NatLessThanWellFounded DEF OpToRel
<1>3. PICK k \in S : \A i \in S : ~(<<i, k>> \in less)
  BY <1>1, <1>2, WFMin
<1>4. \A i \in S : ~(i < k)
  BY <1>1, <1>3
<1> QED
  BY <1>1, <1>4

(* A request that begins is alone if nothing else runs, and nothing else   *)
(* is alone any more.                                                      *)
LEMMA BeginsAlone ==
  ASSUME Typed, Ask
  PROVE  \E k \in CallIds, request \in CallType, alone \in BOOLEAN :
           /\ request.op # "idle" /\ request.pc = "begin"
           /\ calls[k].op = "idle"
           /\ request.gone = Objects \ catalog
           /\ request.rows = {} /\ request.stale = {} /\ request.file = None
           /\ Same(request, calls'[k]) /\ calls'[k].alone = alone
           /\ calls'[k].gone = request.gone
           /\ alone => \A j \in CallIds : calls[j].op = "idle"
           /\ \A j \in CallIds \ {k} :
                Same(calls[j], calls'[j]) /\ ~calls'[j].alone /\ calls'[j].gone = calls[j].gone
<1>1. PICK request \in CallType : /\ request.op # "idle" /\ request.pc = "begin"
                                  /\ request.gone = Objects \ catalog
                                  /\ request.rows = {} /\ request.stale = {}
                                  /\ request.file = None
                                  /\ Begin(request)
  <2>1. \A op \in Ops \ {"idle", "tag"} :
          /\ Request(op, None, None) \in CallType
          /\ Request(op, None, None).op # "idle"
          /\ Request(op, None, None).pc = "begin"
          /\ Request(op, None, None).gone = Objects \ catalog
          /\ Request(op, None, None).rows = {} /\ Request(op, None, None).stale = {}
          /\ Request(op, None, None).file = None
    BY RequestTypes DEF Request
  <2>2. \A i \in Live \cup {None}, o \in Objects :
          /\ Request("tag", i, o) \in CallType
          /\ Request("tag", i, o).op # "idle"
          /\ Request("tag", i, o).pc = "begin"
          /\ Request("tag", i, o).gone = Objects \ catalog
          /\ Request("tag", i, o).rows = {} /\ Request("tag", i, o).stale = {}
          /\ Request("tag", i, o).file = None
    BY RequestTypes DEF Request, Ops, Live
  <2> QED
    BY <2>1, <2>2 DEF Ask, Ops
<1> DEFINE k == CHOOSE j \in CallIds \ Active : \A i \in CallIds \ Active : j <= i
<1>2. k \in CallIds \ Active
  <2>1. CallIds \ Active # {} /\ CallIds \ Active \subseteq Nat
    BY <1>1 DEF Begin, Active, CallIds
  <2>2. \E j \in CallIds \ Active : \A i \in CallIds \ Active : j <= i
    BY <2>1, LeastCall
  <2> QED
    BY <2>2
<1>3. /\ calls'[k] = [request EXCEPT !.alone = (Active = {})]
      /\ \A j \in CallIds \ {k} : calls'[j] = [calls[j] EXCEPT !.alone = FALSE]
  BY <1>1, <1>2 DEF Begin
<1>4. calls[k].op = "idle" /\ (Active = {} => \A j \in CallIds : calls[j].op = "idle")
  BY <1>2 DEF Active
<1> HIDE DEF k
<1>5. k \in CallIds /\ (Active = {}) \in BOOLEAN
  BY <1>2
<1>6. /\ Same(request, calls'[k]) /\ calls'[k].alone = (Active = {})
      /\ calls'[k].gone = request.gone
  BY <1>3, <1>5, Watched
<1>7. \A j \in CallIds \ {k} :
        Same(calls[j], calls'[j]) /\ ~calls'[j].alone /\ calls'[j].gone = calls[j].gone
  <2>1. \A j \in CallIds : LET d == [calls[j] EXCEPT !.alone = FALSE]
                          IN  Same(calls[j], d) /\ ~d.alone /\ d.gone = calls[j].gone
    BY Watched DEF Typed, TypeOK
  <2> QED
    BY <1>3, <2>1
<1> QED
  BY <1>1, <1>4, <1>5, <1>6, <1>7

(* A call that runs alone is the only one.                                 *)
LEMMA AloneKept ==
  ASSUME Typed, AloneIsAlone, [Next]_vars
  PROVE  AloneIsAlone'
<1>1. CASE Ask
  <2>1. PICK k \in CallIds, alone \in BOOLEAN :
          /\ calls'[k].alone = alone
          /\ alone => \A j \in CallIds : calls[j].op = "idle"
          /\ \A j \in CallIds \ {k} : ~calls'[j].alone /\ calls'[j].op = calls[j].op
    BY <1>1, BeginsAlone DEF Same
  <2> QED
    BY <2>1 DEF AloneIsAlone
<1>2. CASE Edit \/ \E o \in Objects : ChangeCatalog(o)
  BY <1>2, Disturbs, IdleTypes DEF AloneIsAlone
<1>3. ASSUME NEW k \in CallIds, Proceed(k) PROVE AloneIsAlone'
  <2>1. /\ \A j \in CallIds \ {k} : calls'[j] = calls[j]
        /\ calls'[k] = Idle \/ (calls'[k].op = calls[k].op /\ calls'[k].alone = calls[k].alone)
    BY <1>3, ProceedAlone DEF GoesOn
  <2> QED
    BY <2>1, IdleTypes DEF AloneIsAlone
<1>4. CASE UNCHANGED vars
  BY <1>4 DEF vars, AloneIsAlone
<1> QED
  BY <1>1, <1>2, <1>3, <1>4 DEF Next

LEMMA AlwaysAlone == Spec => []AloneIsAlone
<1>1. Init => AloneIsAlone
  BY IdleTypes DEF Init, AloneIsAlone
<1> QED
  BY <1>1, AloneKept, AlwaysTyped, PTL DEF Spec

-----------------------------------------------------------------------------
(* One domain.                                                             *)

(* An object that is not shared is in one row, and in one domain's list of *)
(* what an export writes.                                                  *)
Apart(rows, free) == \A r, s \in rows : r[2] = s[2] /\ r[2] \notin free => r = s
Lists(f, n, o) == f[n] # None /\ o \in f[n]
FileApart(f, free) ==
  f # None => \A m, n \in Names, o \in Objects \ free : Lists(f, m, o) /\ Lists(f, n, o) => m = n

(* A tag nobody disturbs has deleted all the object's tags.                *)
Untagged ==
  \A k \in CallIds : At(k, {"tag"}, "commit") /\ calls[k].alone
    => calls[k].rows = {t \in tags : t[2] = calls[k].object}

Exports(call, free) == call.op = "export" => FileApart(call.file, free)

AllApart ==
  /\ Apart(tags, shared)
  /\ \A k \in CallIds : Apart(calls[k].rows, shared) /\ Exports(calls[k], shared)

(* What a step of a handler reads and what it makes of the tags.           *)
LEMMA TagApart ==
  ASSUME Typed, AllApart, Untagged, NEW k \in CallIds, Tag(k)
  PROVE  Apart(tags, shared)'
<1> DEFINE c == calls[k]
<1>1. \/ tags' \subseteq tags
      \/ tags' = (tags \ c.rows) \cup {<<c.target, c.object>>}
  BY DEF Tag
<1>2. shared \subseteq shared' /\ (~c.alone => c.object \in shared')
  BY DEF Tag, Alone
<1>3. c.alone => \A t \in tags \ c.rows : t[2] # c.object
  BY DEF Untagged, Tag
<1>4. CASE tags' \subseteq tags
  BY <1>2, <1>4 DEF AllApart, Apart
<1>5. CASE tags' = (tags \ c.rows) \cup {<<c.target, c.object>>}
  BY <1>2, <1>3, <1>5 DEF AllApart, Apart
<1> QED
  BY <1>1, <1>4, <1>5

LEMMA FillApart ==
  ASSUME Typed, AllApart, NEW k \in CallIds, Fill(k)
  PROVE  Apart(tags, shared)' /\ shared \subseteq shared'
<1> DEFINE c == calls[k]
<1>1. CASE UNCHANGED <<db, shared>>
  BY <1>1 DEF AllApart, db
<1>2. CASE \E id : Imported(c, id)
  <2>1. PICK id : Imported(c, id)
    BY <1>2
  <2>2. c.file \in DomainFile \ {None}
    BY DEF Typed, Formed, Fill, At
  <2>3. Left(c) \subseteq tags /\ tags \subseteq Ids \X Objects
    BY DEF Left, Typed, TypeOK, Live
  <2>4. \A u \in NewTags(c, id) : \E n \in InFile(c) : u = <<id[n], u[2]>> /\ Lists(c.file, n, u[2])
                                                        /\ u[2] \in Objects
    BY <2>2 DEF NewTags, InFile, Lists, DomainFile
  <2>6. \A t \in Left(c) \cup NewTags(c, id), u \in NewTags(c, id) :
          t # u /\ t[2] = u[2] => t[2] \in shared'
    BY <2>1, <2>4 DEF Imported
  <2>7. shared \subseteq shared' /\ tags' = Left(c) \cup NewTags(c, id)
    BY <2>1 DEF Imported
  <2> QED
    BY <2>3, <2>6, <2>7 DEF AllApart, Apart
<1> QED
  BY <1>1, <1>2, FillImports

LEMMA OtherTags ==
  ASSUME NEW k \in CallIds, Proceed(k), ~Tag(k), ~Fill(k)
  PROVE  tags' \subseteq tags /\ shared' = shared
BY DEF Proceed, Untag, ReadFile, Clear, ListDomains, ListTags, ReadCatalog,
       Reconcile, Build, Scan, WriteDomains, WriteFile, Prune, WriteFails, Record, db

(* What a handler has read is what was there, or what it had read.         *)
LEMMA ProceedReads ==
  ASSUME Typed, NEW k \in CallIds, Proceed(k)
  PROVE  /\ calls'[k].rows \subseteq tags \/ calls'[k].rows \subseteq calls[k].rows
         /\ calls'[k].file \in {calls[k].file, None} \/ Build(k) \/ ReadFile(k)
         /\ calls'[k].stale \subseteq calls[k].stale \/ ReadCatalog(k)
<1> DEFINE c == calls[k]
           Fine(d) == /\ d.rows \subseteq tags \/ d.rows \subseteq c.rows
                      /\ d.file \in {c.file, None} \/ Build(k) \/ ReadFile(k)
                      /\ d.stale \subseteq c.stale \/ ReadCatalog(k)
<1>1. c \in CallType /\ calls \in [CallIds -> CallType]
  BY DEF Typed, TypeOK
<1>2. ASSUME NEW d, Fine(d), Becomes(k, d) PROVE Fine(calls'[k])
  BY <1>1, <1>2 DEF Becomes
<1>3. Fine(Idle)
  BY DEF Idle
<1>4. Fine(c)
  OBVIOUS
<1>5. \E d : Fine(d) /\ Becomes(k, d)
  <2>1. CASE Untag(k)
    <3>1. Fine([c EXCEPT !.pc = "commit", !.rows = {t \in tags : t[2] = c.object}])
      BY <1>1 DEF CallType
    <3> QED
      BY <2>1, <3>1, <1>3 DEF Untag, Return
  <2>2. CASE Tag(k) \/ Fill(k) \/ WriteFails(k) \/ Record(k)
    BY <2>2, <1>3 DEF Tag, Fill, WriteFails, Record, Return
  <2>3. CASE ReadFile(k)
    <3>1. Fine([c EXCEPT !.pc = "scan", !.file = file])
      BY <2>3, <1>1 DEF CallType
    <3> QED
      BY <2>3, <3>1, <1>3 DEF ReadFile, Return
  <2>4. CASE Clear(k)
    <3>1. \E a, b : /\ b \subseteq tags
                    /\ Becomes(k, [c EXCEPT !.pc = "commit", !.dropping = a, !.rows = b])
      BY <2>4 DEF Clear
    <3>2. \A a, b : b \subseteq tags
            => Fine([c EXCEPT !.pc = "commit", !.dropping = a, !.rows = b])
      BY <1>1 DEF CallType
    <3> HIDE DEF Fine
    <3> QED
      BY <3>1, <3>2
  <2>5. CASE ListDomains(k)
    <3>1. \A a : Fine([c EXCEPT !.pc = "tags", !.listed = a])
      BY <1>1 DEF CallType
    <3> HIDE DEF Fine
    <3> QED
      BY <2>5, <3>1 DEF ListDomains
  <2>6. CASE ListTags(k)
    <3>1. Fine([c EXCEPT !.pc = "catalog", !.rows = tags])
      BY <1>1 DEF CallType
    <3> QED
      BY <2>6, <3>1 DEF ListTags
  <2>7. CASE ReadCatalog(k)
    <3>1. \A a : Fine([c EXCEPT !.pc = "reconcile", !.stale = a])
      BY <2>7, <1>1 DEF CallType
    <3> HIDE DEF Fine
    <3> QED
      BY <2>7, <3>1, <1>3 DEF ReadCatalog, Return
  <2>8. CASE Reconcile(k)
    <3>1. Fine([c EXCEPT !.pc = "build", !.rows = c.rows \ c.stale, !.stale = {}])
      BY <1>1 DEF CallType
    <3> HIDE DEF Fine
    <3> QED
      BY <2>8, <3>1, <1>3 DEF Reconcile, Return
  <2>9. CASE Build(k)
    <3>1. \E a, b : Becomes(k, [c EXCEPT !.pc = "scan", !.rows = {}, !.listed = Unlisted,
                                        !.tree = a, !.file = b])
      BY <2>9 DEF Build
    <3>2. \A a, b : Fine([c EXCEPT !.pc = "scan", !.rows = {}, !.listed = Unlisted,
                                   !.tree = a, !.file = b])
      BY <2>9, <1>1 DEF CallType
    <3> HIDE DEF Fine
    <3> QED
      BY <3>1, <3>2
  <2>10. CASE Scan(k)
    <3>1. \E pc, a, b : Becomes(k, [c EXCEPT !.pc = pc, !.plan = a, !.extra = b])
      BY <2>10 DEF Scan
    <3>2. \A pc, a, b : Fine([c EXCEPT !.pc = pc, !.plan = a, !.extra = b])
      BY <1>1 DEF CallType
    <3> HIDE DEF Fine
    <3> QED
      BY <3>1, <3>2
  <2>11. CASE WriteDomains(k) \/ WriteFile(k) \/ Prune(k)
    <3>1. \/ \E pc : Goto(k, pc)
          \/ \E f : Becomes(k, [c EXCEPT !.plan = @ \ {f}])
          \/ \E f : Becomes(k, [c EXCEPT !.extra = @ \ {f}])
      BY <2>11 DEF WriteDomains, WriteFile, Prune
    <3>2. /\ \A pc : Fine([c EXCEPT !.pc = pc])
          /\ \A f : Fine([c EXCEPT !.plan = @ \ {f}])
          /\ \A f : Fine([c EXCEPT !.extra = @ \ {f}])
      BY <1>1 DEF CallType
    <3> HIDE DEF Fine
    <3> QED
      BY <3>1, <3>2 DEF Goto
  <2> QED
    BY <2>1, <2>2, <2>3, <2>4, <2>5, <2>6, <2>7, <2>8, <2>9, <2>10, <2>11 DEF Proceed
<1> QED
  BY <1>2, <1>5

(* An export lists what it has read.                                       *)
LEMMA BuildApart ==
  ASSUME Typed, AllApart, NEW k \in CallIds, Build(k)
  PROVE  FileApart(calls'[k].file, shared)
<1> DEFINE c == calls[k]
           listed == {i \in Ids : c.listed[i] # None}
           named == {n \in Names : \E i \in listed : c.listed[i] = n}
           fileOf == [n \in Names |->
             IF n \notin named THEN None
             ELSE {o \in Objects : \E r \in c.rows : r[2] = o /\ r[1] \in listed
                                                      /\ c.listed[r[1]] = n}]
<1>1. c \in CallType /\ calls \in [CallIds -> CallType]
  BY DEF Typed, TypeOK
<1>2. calls'[k].file = fileOf
  <2>1. \E a : Becomes(k, [c EXCEPT !.pc = "scan", !.rows = {}, !.listed = Unlisted,
                                    !.tree = a, !.file = fileOf])
    BY DEF Build
  <2>2. \A a : [c EXCEPT !.pc = "scan", !.rows = {}, !.listed = Unlisted,
                         !.tree = a, !.file = fileOf].file = fileOf
    BY <1>1 DEF CallType
  <2> HIDE DEF fileOf
  <2> QED
    BY <1>1, <2>1, <2>2 DEF Becomes
<1>3. ASSUME NEW m \in Names, NEW n \in Names, NEW o \in Objects \ shared,
             Lists(fileOf, m, o), Lists(fileOf, n, o)
      PROVE  m = n
  <2>1. PICK r \in c.rows : r[2] = o /\ c.listed[r[1]] = m
    BY <1>3 DEF Lists
  <2>2. PICK s \in c.rows : s[2] = o /\ c.listed[s[1]] = n
    BY <1>3 DEF Lists
  <2>3. r = s
    BY <2>1, <2>2 DEF AllApart, Apart
  <2> QED
    BY <2>1, <2>2, <2>3
<1> HIDE DEF fileOf
<1> QED
  BY <1>2, <1>3 DEF FileApart

LEMMA ApartKept ==
  ASSUME Typed, AllApart, Untagged, [Next]_vars
  PROVE  AllApart'
<1>1. ASSUME NEW k \in CallIds, Proceed(k) PROVE AllApart'
  <2>1. Apart(tags, shared)' /\ shared \subseteq shared'
    <3>1. CASE Tag(k)
      BY <3>1, TagApart DEF Tag
    <3>2. CASE Fill(k)
      BY <3>2, FillApart
    <3>3. CASE ~Tag(k) /\ ~Fill(k)
      BY <1>1, <3>3, OtherTags DEF AllApart, Apart
    <3> QED
      BY <3>1, <3>2, <3>3
  <2>2. \A rows : Apart(rows, shared) => Apart(rows, shared')
    BY <2>1 DEF Apart
  <2>3. \A f : FileApart(f, shared) => FileApart(f, shared')
    BY <2>1 DEF FileApart
  <2>4. Apart(calls'[k].rows, shared')
    <3>1. Apart(calls'[k].rows, shared)
      BY <1>1, ProceedReads DEF AllApart, Apart
    <3> QED
      BY <2>2, <3>1
  <2>5. Exports(calls'[k], shared')
    <3> SUFFICES ASSUME calls'[k].op = "export" PROVE FileApart(calls'[k].file, shared')
      BY DEF Exports
    <3>1. calls[k].op = "export"
      BY <1>1, ProceedAlone, IdleTypes DEF GoesOn
    <3>2. CASE Build(k)
      BY <2>3, <3>2, BuildApart
    <3>3. CASE calls'[k].file \in {calls[k].file, None}
      <4>1. FileApart(calls[k].file, shared) /\ FileApart(None, shared)
        BY <3>1 DEF AllApart, Exports, FileApart
      <4> QED
        BY <2>3, <3>3, <4>1
    <3>4. ~ReadFile(k)
      BY <3>1 DEF ReadFile, At
    <3> QED
      BY <1>1, <3>2, <3>3, <3>4, ProceedReads
  <2>6. \A j \in CallIds \ {k} : calls'[j] = calls[j]
    BY <1>1, ProceedAlone
  <2> QED
    BY <2>1, <2>2, <2>3, <2>4, <2>5, <2>6 DEF AllApart, Exports
<1>2. CASE Ask
  <2>1. PICK k \in CallIds : /\ calls'[k].rows = {} /\ calls'[k].file = None
                             /\ \A j \in CallIds \ {k} : /\ calls'[j].rows = calls[j].rows
                                                         /\ calls'[j].file = calls[j].file
                                                         /\ calls'[j].op = calls[j].op
    BY <1>2, BeginsAlone DEF Same
  <2>2. UNCHANGED <<db, disk, shared>>
    BY <1>2 DEF Ask, Begin
  <2>3. \A j \in CallIds : Apart(calls'[j].rows, shared) /\ Exports(calls'[j], shared)
    BY <2>1 DEF AllApart, Apart, Exports, FileApart
  <2> QED
    BY <2>2, <2>3 DEF AllApart, db, disk
<1>3. CASE Edit \/ \E o \in Objects : ChangeCatalog(o)
  <2>1. tags' \subseteq tags /\ shared' = shared
    BY <1>3 DEF Edit, CreateDomain, UpdateDomain, DeleteDomain, ChangeCatalog, db
  <2>2. \A k \in CallIds : \/ calls'[k] = Idle
                           \/ /\ calls'[k].rows = calls[k].rows /\ calls'[k].file = calls[k].file
                              /\ calls'[k].op = calls[k].op
    BY <1>3, Disturbs DEF Same
  <2>3. Idle.rows = {} /\ Idle.file = None
    BY DEF Idle
  <2>4. \A j \in CallIds : Apart(calls'[j].rows, shared) /\ Exports(calls'[j], shared)
    BY <2>2, <2>3 DEF AllApart, Apart, Exports, FileApart
  <2> QED
    BY <2>1, <2>4 DEF AllApart, Apart
<1>4. CASE UNCHANGED vars
  BY <1>4 DEF vars, db, disk, AllApart
<1> QED
  BY <1>1, <1>2, <1>3, <1>4 DEF Next

LEMMA UntaggedKept ==
  ASSUME Typed, AloneIsAlone, Untagged, [Next]_vars
  PROVE  Untagged'
<1>1. ASSUME NEW k \in CallIds, Proceed(k) PROVE Untagged'
  <2> DEFINE c == calls[k]
  <2>1. /\ \A j \in CallIds \ {k} : calls'[j] = calls[j]
        /\ GoesOn(c, calls'[k]) /\ c.op # "idle"
    BY <1>1, ProceedAlone
  <2>2. ASSUME NEW j \in CallIds \ {k}, At(j, {"tag"}, "commit")' PROVE ~calls'[j].alone
    BY <2>1, <2>2 DEF AloneIsAlone, At
  <2>3. ASSUME At(k, {"tag"}, "commit")'
        PROVE  calls'[k].rows = {t \in tags' : t[2] = calls'[k].object}
    <3>1. c.op = "tag" /\ calls'[k] # Idle
      BY <2>1, <2>3, IdleTypes DEF At, GoesOn
    <3>2. Untag(k) \/ Tag(k)
      BY <1>1, <3>1 DEF Proceed, ReadFile, Clear, Fill, ListDomains, ListTags, ReadCatalog,
         Reconcile, Build, Scan, WriteDomains, WriteFile, Prune, WriteFails, Record, At
    <3>3. c \in CallType /\ calls \in [CallIds -> CallType]
      BY DEF Typed, TypeOK
    <3>4. calls'[k] = [c EXCEPT !.pc = "commit", !.rows = {t \in tags : t[2] = c.object}]
      BY <3>1, <3>2, <3>3 DEF Untag, Tag, Becomes, Return
    <3>5. Untag(k)
      BY <3>1, <3>2, <3>3 DEF Tag, Return, Becomes
    <3>6. tags' = tags
      BY <3>5 DEF Untag, db
    <3> QED
      BY <3>3, <3>4, <3>6 DEF CallType
  <2> QED
    BY <2>2, <2>3 DEF Untagged
<1>2. CASE Ask
  <2>1. PICK k \in CallIds : /\ calls'[k].pc = "begin"
                             /\ \A j \in CallIds \ {k} : ~calls'[j].alone
    BY <1>2, BeginsAlone DEF Same
  <2> QED
    BY <2>1 DEF Untagged, At
<1>3. CASE Edit \/ \E o \in Objects : ChangeCatalog(o)
  BY <1>3, Disturbs, IdleTypes DEF Untagged, At
<1>4. CASE UNCHANGED vars
  BY <1>4 DEF vars, db, Untagged, At
<1> QED
  BY <1>1, <1>2, <1>3, <1>4 DEF Next

(* "An object has at most one domain" (domains/service.ts tag()), in the   *)
(* database and in what an export writes, unless a tag overlapped another  *)
(* handler, or an import named an object that a shelf, another import or   *)
(* another domain of its own file holds.                                   *)
THEOREM OneDomain == Spec => []OneDomainUnlessShared
<1>1. Init => AllApart /\ Untagged
  <2> SUFFICES ASSUME Init PROVE AllApart /\ Untagged
    OBVIOUS
  <2>1. Apart(tags, shared)
    BY DEF Init, Apart, AtMostOne, DomainsOf, Live
  <2>2. \A k \in CallIds : calls[k] = Idle
    BY DEF Init
  <2>3. Idle.rows = {} /\ Idle.op = "idle"
    BY DEF Idle
  <2> QED
    BY <2>1, <2>2, <2>3 DEF AllApart, Untagged, At, Apart, Exports
<1>2. AllApart /\ Untagged /\ Typed /\ AloneIsAlone /\ [Next]_vars => (AllApart /\ Untagged)'
  BY ApartKept, UntaggedKept
<1>3. AllApart => OneDomainUnlessShared
  <2> SUFFICES ASSUME AllApart, NEW o \in Objects \ shared
               PROVE  /\ AtMostOne(DomainsOf(o))
                      /\ \A k \in CallIds : calls[k].op = "export" /\ calls[k].file # None
                           => AtMostOne({n \in InFile(calls[k]) : o \in calls[k].file[n]})
    BY DEF OneDomainUnlessShared
  <2>1. AtMostOne(DomainsOf(o))
    BY DEF AllApart, Apart, AtMostOne, DomainsOf
  <2>2. ASSUME NEW k \in CallIds, calls[k].op = "export", calls[k].file # None
        PROVE  AtMostOne({n \in InFile(calls[k]) : o \in calls[k].file[n]})
    BY <2>2 DEF AllApart, Exports, FileApart, Lists, InFile, AtMostOne
  <2> QED
    BY <2>1, <2>2
<1> QED
  BY <1>1, <1>2, <1>3, AlwaysTyped, AlwaysAlone, PTL DEF Spec

-----------------------------------------------------------------------------
(* Stale tags.                                                             *)

(* A call remembers what was out of the catalog, and gives up nothing else. *)
StaleWasGone ==
  \A k \in CallIds :
    calls[k].op # "idle" => /\ Objects \ catalog \subseteq calls[k].gone
                            /\ \A t \in calls[k].stale : t[2] \in calls[k].gone

LEMMA StaleKept ==
  ASSUME Typed, StaleWasGone, [Next]_vars
  PROVE  StaleWasGone'
<1>1. ASSUME NEW k \in CallIds, Proceed(k) PROVE StaleWasGone'
  <2> DEFINE c == calls[k]
  <2>1. /\ \A j \in CallIds \ {k} : calls'[j] = calls[j]
        /\ GoesOn(c, calls'[k]) /\ c.op # "idle"
    BY <1>1, ProceedAlone
  <2>2. catalog' = catalog
    BY <1>1 DEF Proceed, Untag, Tag, ReadFile, Clear, Fill, ListDomains, ListTags, ReadCatalog,
         Reconcile, Build, Scan, WriteDomains, WriteFile, Prune, WriteFails, Record, source
  <2>3. CASE calls'[k] = Idle
    BY <2>1, <2>2, <2>3, IdleTypes DEF StaleWasGone
  <2>4. CASE calls'[k].gone = c.gone /\ calls'[k] # Idle
    <3>1. CASE ReadCatalog(k)
      <4>1. c \in CallType /\ calls \in [CallIds -> CallType]
        BY DEF Typed, TypeOK
      <4>2. calls'[k] = [c EXCEPT !.pc = "reconcile", !.stale = {t \in c.rows : t[2] \notin catalog}]
        BY <2>4, <3>1, <4>1 DEF ReadCatalog, Becomes, Return
      <4>3. calls'[k].stale = {t \in c.rows : t[2] \notin catalog}
        BY <4>1, <4>2 DEF CallType
      <4>4. \A t \in c.rows : t[2] \in Objects
        BY <4>1 DEF CallType, Tags
      <4> QED
        BY <2>1, <2>2, <2>4, <4>3, <4>4 DEF StaleWasGone
    <3>2. CASE calls'[k].stale \subseteq c.stale
      BY <2>1, <2>2, <2>4, <3>2 DEF StaleWasGone
    <3> QED
      BY <1>1, <3>1, <3>2, ProceedReads
  <2> QED
    BY <2>1, <2>3, <2>4 DEF GoesOn
<1>2. CASE Ask
  <2>1. PICK k \in CallIds : /\ calls'[k].stale = {} /\ calls'[k].gone = Objects \ catalog
                             /\ \A j \in CallIds \ {k} : /\ calls'[j].op = calls[j].op
                                                         /\ calls'[j].stale = calls[j].stale
                                                         /\ calls'[j].gone = calls[j].gone
    BY <1>2, BeginsAlone DEF Same
  <2>2. catalog' = catalog
    BY <1>2 DEF Ask, Begin, source
  <2> QED
    BY <2>1, <2>2 DEF StaleWasGone
<1>3. CASE Edit
  <2>1. catalog' = catalog
    BY <1>3 DEF Edit, CreateDomain, UpdateDomain, DeleteDomain, source
  <2> QED
    BY <1>3, <2>1, Disturbs, IdleTypes DEF StaleWasGone, Same
<1>4. CASE ~Edit /\ \E o \in Objects : ChangeCatalog(o)
  <2>1. \A k \in CallIds :
          \/ calls'[k].op = "idle"
          \/ /\ calls'[k].op = calls[k].op /\ calls'[k].stale = calls[k].stale
             /\ calls'[k].gone = calls[k].gone \cup (Objects \ catalog')
    BY <1>4, Disturbs, IdleTypes DEF Same
  <2> QED
    BY <2>1 DEF StaleWasGone
<1>5. CASE UNCHANGED vars
  BY <1>5 DEF vars, source, StaleWasGone
<1> QED
  BY <1>1, <1>2, <1>3, <1>4, <1>5 DEF Next

(* Reconciliation removes no tag of an object that was in the catalog all  *)
(* the time it ran (domains/reconcile.ts), whatever fails or changes.      *)
THEOREM TagsOfPresentObjectsStay == Spec => OnlyStaleTagsGo
<1>1. Init => StaleWasGone
  BY IdleTypes DEF Init, StaleWasGone
<1>2. StaleWasGone =>
        \A k \in CallIds : Reconcile(k) => \A t \in tags \ tags' : t[2] \in calls[k].gone
  BY DEF StaleWasGone, Reconcile, At
<1> QED
  BY <1>1, <1>2, StaleKept, AlwaysTyped, PTL DEF Spec, OnlyStaleTagsGo

-----------------------------------------------------------------------------
(* Imports and exports that run alone.                                     *)

(* An import that nobody disturbs drops what clearImportedDomains() says.  *)
LoneImport ==
  \A k \in CallIds : At(k, {"import"}, "commit") /\ calls[k].alone
    => calls[k].dropping =
         {i \in Live : ~domains[i].hidden \/ domains[i].name \in InFile(calls[k])}

LEMMA LoneImportKept ==
  ASSUME Typed, AloneIsAlone, LoneImport, [Next]_vars
  PROVE  LoneImport'
<1>1. ASSUME NEW k \in CallIds, Proceed(k) PROVE LoneImport'
  <2> DEFINE c == calls[k]
  <2>1. /\ \A j \in CallIds \ {k} : calls'[j] = calls[j]
        /\ GoesOn(c, calls'[k]) /\ c.op # "idle"
    BY <1>1, ProceedAlone
  <2>2. ASSUME NEW j \in CallIds \ {k}, At(j, {"import"}, "commit")' PROVE ~calls'[j].alone
    BY <2>1, <2>2 DEF AloneIsAlone, At
  <2>3. ASSUME At(k, {"import"}, "commit")'
        PROVE  calls'[k].dropping =
                 {i \in Live' : ~domains'[i].hidden \/ domains'[i].name \in InFile(calls'[k])}
    <3>1. c.op = "import" /\ calls'[k] # Idle
      BY <2>1, <2>3, IdleTypes DEF At, GoesOn
    <3>2. ReadFile(k) \/ Clear(k) \/ Fill(k)
      BY <1>1, <3>1 DEF Proceed, Untag, Tag, ListDomains, ListTags, ReadCatalog,
         Reconcile, Build, Scan, WriteDomains, WriteFile, Prune, WriteFails, Record, At
    <3>3. c \in CallType /\ calls \in [CallIds -> CallType]
      BY DEF Typed, TypeOK
    <3>4. ~Fill(k)
      BY <3>1, <3>3 DEF Fill, Return, Becomes
    <3>5. ~ReadFile(k)
      <4>1. [c EXCEPT !.pc = "scan", !.file = file].pc = "scan"
        BY <3>3 DEF CallType
      <4> QED
        BY <2>3, <3>1, <3>3, <4>1 DEF ReadFile, Return, Becomes, At
    <3> DEFINE dropped == {i \in Live : ~domains[i].hidden \/ domains[i].name \in InFile(c)}
    <3>6. /\ calls'[k] = [c EXCEPT !.pc = "commit", !.dropping = dropped,
                                   !.rows = {t \in tags : t[1] \in dropped}]
          /\ domains' = domains
      BY <3>2, <3>3, <3>4, <3>5 DEF Clear, Becomes, db
    <3>7. calls'[k].dropping = dropped /\ calls'[k].file = c.file
      <4> HIDE DEF dropped
      <4> QED
        BY <3>3, <3>6 DEF CallType
    <3> QED
      BY <3>6, <3>7 DEF InFile, Live
  <2> QED
    BY <2>2, <2>3 DEF LoneImport
<1>2. CASE Ask
  <2>1. PICK k \in CallIds : /\ calls'[k].pc = "begin"
                             /\ \A j \in CallIds \ {k} : ~calls'[j].alone
    BY <1>2, BeginsAlone DEF Same
  <2> QED
    BY <2>1 DEF LoneImport, At
<1>3. CASE Edit \/ \E o \in Objects : ChangeCatalog(o)
  BY <1>3, Disturbs, IdleTypes DEF LoneImport, At
<1>4. CASE UNCHANGED vars
  BY <1>4 DEF vars, db, LoneImport, At, Live, InFile
<1> QED
  BY <1>1, <1>2, <1>3, <1>4 DEF Next

(* What an import leaves that dropped all but shelves.                     *)
LEMMA Replaced ==
  ASSUME Typed, LoneImport, NEW k \in CallIds, Fill(k), Alone(k), NEW n \in Names
  PROVE  Opinion(n)' = calls[k].file[n]
<1> DEFINE c == calls[k]
<1>1. c.dropping = {i \in Live : ~domains[i].hidden \/ domains[i].name \in InFile(c)}
  BY DEF LoneImport, Fill, Alone
<1>2. \A i \in Kept(c) : i \in Live /\ domains[i].hidden /\ domains[i].name \notin InFile(c)
  BY <1>1 DEF Kept, Typed, TypeOK, Live, Domain
<1>3. PICK id : Imported(c, id)
  BY <1>2, FillImports
<1>4. Fresh \subseteq Ids \ Live /\ Live \subseteq Ids /\ c.file \in DomainFile
  BY DEF Fresh, Live, Typed, Formed, Fill, At
<1>5. \A m \in InFile(c) : /\ id[m] \in Ids /\ id[m] \notin Kept(c)
                           /\ domains'[id[m]] = [name |-> m, hidden |-> FALSE]
  BY <1>2, <1>3, <1>4 DEF Imported
<1>6. \A i \in Kept(c) : domains'[i] = domains[i]
  BY <1>2, <1>4, <1>5, <1>3 DEF Imported
<1>7. \A i \in Ids : \/ \E m \in InFile(c) : i = id[m]
                     \/ i \in Kept(c) /\ domains'[i].hidden
                     \/ domains'[i] = None
  BY <1>2, <1>3, <1>6 DEF Imported
<1>8. \A i \in Visible' : \E m \in InFile(c) : i = id[m]
  BY <1>7 DEF Visible, Live
<1>9. \A m \in InFile(c) : id[m] \in Visible' /\ domains'[id[m]].name = m
  <2> SUFFICES ASSUME NEW m \in InFile(c) PROVE id[m] \in Visible' /\ domains'[id[m]].name = m
    OBVIOUS
  <2>1. domains'[id[m]] = [name |-> m, hidden |-> FALSE] /\ m \in Names
    BY <1>5 DEF InFile
  <2>2. domains'[id[m]] # None
    BY <2>1, DomainRecords DEF Domain
  <2> QED
    BY <1>5, <2>1, <2>2 DEF Visible, Live
<1>10. CASE n \in InFile(c)
  <2>1. \A i \in Visible' : domains'[i].name = n => i = id[n]
    BY <1>8, <1>9
  <2>2. (CHOOSE i \in Visible' : domains'[i].name = n) = id[n]
    BY <1>9, <1>10, <2>1
  <2>3. {o \in Objects : <<id[n], o>> \in tags'} = c.file[n]
    <3>1. c.file[n] \subseteq Objects
      BY <1>4, <1>10 DEF DomainFile, InFile
    <3>2. tags' = Left(c) \cup NewTags(c, id)
      BY <1>3 DEF Imported
    <3>3. \A o : <<id[n], o>> \notin Left(c)
      BY <1>5, <1>10 DEF Left
    <3>4. \A o : <<id[n], o>> \in NewTags(c, id) <=> o \in c.file[n]
      <4>1. \A o : o \in c.file[n] => <<id[n], o>> \in NewTags(c, id)
        BY <1>10 DEF NewTags
      <4>2. ASSUME NEW o, <<id[n], o>> \in NewTags(c, id) PROVE o \in c.file[n]
        <5>1. PICK m \in InFile(c) : <<id[n], o>> \in {<<id[m], x>> : x \in c.file[m]}
          BY <4>2 DEF NewTags
        <5>2. id[m] = id[n] /\ o \in c.file[m]
          BY <5>1
        <5>3. m = n
          BY <1>3, <1>10, <5>2 DEF Imported
        <5> QED
          BY <5>2, <5>3
      <4> QED
        BY <4>1, <4>2
    <3> QED
      BY <3>1, <3>2, <3>3, <3>4
  <2> QED
    BY <1>9, <1>10, <2>2, <2>3 DEF Opinion, ObjectsOf
<1>11. CASE n \notin InFile(c)
  <2>1. ~\E i \in Visible' : domains'[i].name = n
    BY <1>8, <1>9, <1>11
  <2> QED
    BY <1>11, <2>1 DEF Opinion, InFile
<1> QED
  BY <1>10, <1>11

(* An import that runs alone leaves the file's opinion of every visible    *)
(* name (domains/import.ts).                                               *)
THEOREM ImportsReplace == Spec => LoneImportReplaces
<1>1. Init => LoneImport
  BY IdleTypes DEF Init, LoneImport, At
<1>2. Typed /\ LoneImport =>
        \A k \in CallIds : Fill(k) /\ Alone(k) => \A n \in Names : Opinion(n)' = calls[k].file[n]
  BY Replaced
<1>3. Typed /\ AloneIsAlone /\ LoneImport /\ [Next]_vars => LoneImport'
  BY LoneImportKept
<1> QED
  BY <1>1, <1>2, <1>3, AlwaysTyped, AlwaysAlone, PTL DEF Spec, LoneImportReplaces

(* An export that nobody disturbs knows what is missing and what is over.  *)
Exporting(c) ==
  /\ c.plan = c.tree \ dump
  /\ c.extra = dump \ c.tree
  /\ c.pc = "prune" \/ (c.pc = "domains" /\ inRepo) \/ c.pc = "record" => c.plan = {}
  /\ (c.pc = "domains" /\ inRepo) \/ c.pc = "record" => c.extra = {}
  /\ (c.pc \in {"write", "prune"} /\ ~inRepo) \/ c.pc = "record" => file = c.file
LoneExport ==
  \A k \in CallIds :
    /\ calls[k].op = "export" /\ calls[k].alone
    /\ calls[k].pc \in {"write", "prune", "domains", "record"}
    => Exporting(calls[k])

(* A step of the export itself.                                            *)
LEMMA ExportStep ==
  ASSUME Typed, LoneExport, NEW k \in CallIds, Proceed(k), calls[k].alone,
         calls'[k].op = "export", calls'[k].pc \in {"write", "prune", "domains", "record"}
  PROVE  Exporting(calls[k])'
<1> DEFINE c == calls[k]
           d == calls'[k]
<1>1. c \in CallType /\ calls \in [CallIds -> CallType]
  BY DEF Typed, TypeOK
<1>2. d # Idle /\ GoesOn(c, d)
  BY IdleTypes, ProceedAlone
<1>3. c.op = "export"
  BY <1>2 DEF GoesOn
<1>4. inRepo' = inRepo
  BY DEF Proceed, Untag, Tag, ReadFile, Clear, Fill, ListDomains, ListTags, ReadCatalog,
         Reconcile, Build, Scan, WriteDomains, WriteFile, Prune, WriteFails, Record, source
<1>5. \/ ListDomains(k) \/ ListTags(k) \/ ReadCatalog(k) \/ Reconcile(k) \/ Build(k) \/ Scan(k)
      \/ WriteDomains(k) \/ WriteFile(k) \/ Prune(k)
  <2>1. ~(WriteFails(k) \/ Record(k))
    BY <1>1, <1>2 DEF WriteFails, Record, Return, Becomes
  <2> QED
    BY <1>3, <2>1 DEF Proceed, Untag, Tag, ReadFile, Clear, Fill, At
<1>6. ~(ListDomains(k) \/ ListTags(k) \/ ReadCatalog(k) \/ Reconcile(k) \/ Build(k))
  <2>1. ASSUME ListDomains(k)  PROVE  FALSE
    <3>1. \E a : d = [c EXCEPT !.pc = "tags", !.listed = a]
      BY <1>1, <2>1 DEF ListDomains, Becomes
    <3>2. d.pc = "tags"
      BY <1>1, <3>1 DEF CallType
    <3> QED
      BY <3>2
  <2>2. ASSUME ListTags(k)  PROVE  FALSE
    <3>1. \E a : d = [c EXCEPT !.pc = "catalog", !.rows = a]
      BY <1>1, <2>2 DEF ListTags, Becomes
    <3>2. d.pc = "catalog"
      BY <1>1, <3>1 DEF CallType
    <3> QED
      BY <3>2
  <2>3. ASSUME ReadCatalog(k)  PROVE  FALSE
    <3>1. \E a : d = [c EXCEPT !.pc = "reconcile", !.stale = a]
      BY <1>1, <1>2, <2>3 DEF ReadCatalog, Return, Becomes
    <3>2. d.pc = "reconcile"
      BY <1>1, <3>1 DEF CallType
    <3> QED
      BY <3>2
  <2>4. ASSUME Reconcile(k)  PROVE  FALSE
    <3>1. \E a : d = [c EXCEPT !.pc = "build", !.rows = a, !.stale = {}]
      BY <1>1, <1>2, <2>4 DEF Reconcile, Return, Becomes
    <3>2. d.pc = "build"
      BY <1>1, <3>1 DEF CallType
    <3> QED
      BY <3>2
  <2>5. ASSUME Build(k)  PROVE  FALSE
    <3>1. \E a, b : d = [c EXCEPT !.pc = "scan", !.rows = {}, !.listed = Unlisted,
                                  !.tree = a, !.file = b]
      <4>1. \E a, b : Becomes(k, [c EXCEPT !.pc = "scan", !.rows = {}, !.listed = Unlisted,
                                           !.tree = a, !.file = b])
        BY <2>5, Zenon DEF Build
      <4> QED
        BY <1>1, <4>1 DEF Becomes
    <3>2. d.pc = "scan"
      BY <1>1, <3>1 DEF CallType
    <3> QED
      BY <3>2
  <2> QED
    BY <2>1, <2>2, <2>3, <2>4, <2>5
<1>a. CASE Scan(k)
  <2> DEFINE next == IF inRepo THEN "write" ELSE "domains"
  <2>1. d = [c EXCEPT !.pc = next, !.plan = c.tree \ dump, !.extra = dump \ c.tree]
    BY <1>1, <1>a DEF Scan, Becomes
  <2>2. /\ d.pc = next /\ d.plan = c.tree \ dump /\ d.extra = dump \ c.tree
        /\ d.tree = c.tree /\ d.file = c.file
    BY <1>1, <2>1 DEF CallType
  <2>3. dump' = dump /\ file' = file
    BY <1>a DEF Scan, disk
  <2> QED
    BY <1>4, <2>2, <2>3 DEF Exporting
<1>b. CASE WriteDomains(k)
  <2> DEFINE next == IF inRepo THEN "record" ELSE "write"
  <2>1. d = [c EXCEPT !.pc = next] /\ c.pc = "domains" /\ file' = c.file /\ dump' = dump
    BY <1>1, <1>b DEF WriteDomains, Goto, Becomes, At
  <2>2. /\ d.pc = next /\ d.plan = c.plan /\ d.extra = c.extra
        /\ d.tree = c.tree /\ d.file = c.file
    BY <1>1, <2>1 DEF CallType
  <2>3. Exporting(c)
    BY <1>3, <2>1 DEF LoneExport
  <2> QED
    BY <1>4, <2>1, <2>2, <2>3 DEF Exporting
<1>c. CASE WriteFile(k)
  <2>1. c.pc = "write" /\ file' = file /\ Exporting(c)
    BY <1>3, <1>c DEF WriteFile, At, LoneExport
  <2>2. CASE c.plan = {}
    <3>1. d = [c EXCEPT !.pc = "prune"] /\ dump' = dump
      BY <1>1, <1>c, <2>2 DEF WriteFile, Goto, Becomes
    <3>2. /\ d.pc = "prune" /\ d.plan = c.plan /\ d.extra = c.extra
          /\ d.tree = c.tree /\ d.file = c.file
      BY <1>1, <3>1 DEF CallType
    <3> QED
      BY <1>4, <2>1, <2>2, <3>1, <3>2 DEF Exporting
  <2>3. CASE c.plan # {}
    <3>1. PICK f \in c.plan : d = [c EXCEPT !.plan = c.plan \ {f}] /\ dump' = dump \cup {f}
      BY <1>1, <1>c, <2>3 DEF WriteFile, Becomes
    <3>2. /\ d.pc = c.pc /\ d.plan = c.plan \ {f} /\ d.extra = c.extra
          /\ d.tree = c.tree /\ d.file = c.file
      BY <1>1, <3>1 DEF CallType
    <3> QED
      BY <1>4, <2>1, <3>1, <3>2 DEF Exporting
  <2> QED
    BY <2>2, <2>3
<1>d. CASE Prune(k)
  <2>1. c.pc = "prune" /\ file' = file /\ Exporting(c)
    BY <1>3, <1>d DEF Prune, At, LoneExport
  <2>2. CASE c.extra = {}
    <3> DEFINE next == IF inRepo THEN "domains" ELSE "record"
    <3>1. d = [c EXCEPT !.pc = next] /\ dump' = dump
      BY <1>1, <1>d, <2>2 DEF Prune, Goto, Becomes
    <3>2. /\ d.pc = next /\ d.plan = c.plan /\ d.extra = c.extra
          /\ d.tree = c.tree /\ d.file = c.file
      BY <1>1, <3>1 DEF CallType
    <3> QED
      BY <1>4, <2>1, <2>2, <3>1, <3>2 DEF Exporting
  <2>3. CASE c.extra # {}
    <3>1. PICK f \in c.extra : d = [c EXCEPT !.extra = c.extra \ {f}] /\ dump' = dump \ {f}
      BY <1>1, <1>d, <2>3 DEF Prune, Becomes
    <3>2. /\ d.pc = c.pc /\ d.plan = c.plan /\ d.extra = c.extra \ {f}
          /\ d.tree = c.tree /\ d.file = c.file
      BY <1>1, <3>1 DEF CallType
    <3> QED
      BY <1>4, <2>1, <3>1, <3>2 DEF Exporting
  <2> QED
    BY <2>2, <2>3
<1> QED
  BY <1>5, <1>6, <1>a, <1>b, <1>c, <1>d

LEMMA LoneExportKept ==
  ASSUME Typed, AloneIsAlone, LoneExport, [Next]_vars
  PROVE  LoneExport'
<1>1. ASSUME NEW k \in CallIds, Proceed(k) PROVE LoneExport'
  <2>1. /\ \A j \in CallIds \ {k} : calls'[j] = calls[j]
        /\ GoesOn(calls[k], calls'[k]) /\ calls[k].op # "idle"
    BY <1>1, ProceedAlone
  <2>2. \A j \in CallIds \ {k} : calls'[j].op = "export" => ~calls'[j].alone
    BY <2>1 DEF AloneIsAlone
  <2>3. ASSUME calls'[k].op = "export", calls'[k].alone,
               calls'[k].pc \in {"write", "prune", "domains", "record"}
        PROVE  Exporting(calls[k])'
    <3>1. calls[k].alone
      BY <2>1, <2>3, IdleTypes DEF GoesOn
    <3> QED
      BY <1>1, <2>3, <3>1, ExportStep
  <2> QED
    BY <2>2, <2>3 DEF LoneExport
<1>2. CASE Ask
  <2>1. PICK k \in CallIds : /\ calls'[k].pc = "begin"
                             /\ \A j \in CallIds \ {k} : ~calls'[j].alone
    BY <1>2, BeginsAlone DEF Same
  <2> QED
    BY <2>1 DEF LoneExport
<1>3. CASE Edit \/ \E o \in Objects : ChangeCatalog(o)
  BY <1>3, Disturbs, IdleTypes DEF LoneExport
<1>4. CASE UNCHANGED vars
  BY <1>4 DEF vars, source, disk, LoneExport, Exporting
<1> QED
  BY <1>1, <1>2, <1>3, <1>4 DEF Next

(* An export that runs alone and is recorded has left the tree it built    *)
(* and nothing else, over whatever was there (domains/writer.ts).          *)
THEOREM ExportsAreComplete == Spec => []LoneExportIsComplete
<1>1. Init => LoneExport
  BY IdleTypes DEF Init, LoneExport
<1>2. Typed /\ LoneExport => LoneExportIsComplete
  <2> SUFFICES ASSUME Typed, LoneExport, NEW k \in CallIds,
                      At(k, {"export"}, "record"), Alone(k)
               PROVE  dump = calls[k].tree /\ file = calls[k].file
    BY DEF LoneExportIsComplete
  <2>1. Exporting(calls[k]) /\ calls[k].pc = "record"
    BY DEF LoneExport, At, Alone
  <2> QED
    BY <2>1 DEF Exporting
<1>3. Typed /\ AloneIsAlone /\ LoneExport /\ [Next]_vars => LoneExport'
  BY LoneExportKept
<1> QED
  BY <1>1, <1>2, <1>3, AlwaysTyped, AlwaysAlone, PTL DEF Spec
=============================================================================
