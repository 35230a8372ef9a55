------------------------ MODULE SharedDocumentProofs ------------------------
(***************************************************************************)
(* What holds of a file opened as a shared document for any number of      *)
(* saves, opens, keys and rows, requests in flight and edits outside.      *)
(***************************************************************************)
EXTENDS SharedDocument, FiniteSetTheorems, TLAPS

SaveStates == {"unsent"} \cup SavePoints \cup Ended
OpenStates == {"unsent"} \cup OpenPoints \cup Ended
Exists(d) == d \in RowIds /\ row[d].state # "absent"

(* A request has a row where it needs one, and an answer names a row.      *)
SavePlaced(r) ==
  /\ pc[r] \in SaveStates
  /\ pc[r] # "unsent" => Exists(target[r])
  /\ pc[r] \in {"storing", "writing", "marking", "answered"} => Exists(result[r].document)
OpenPlaced(r) ==
  /\ pc[r] \in OpenStates
  /\ pc[r] \in {"comparing", "checking", "adopting", "diverged"} => Exists(target[r])
  /\ pc[r] \in {"answered", "diverged"} => Exists(result[r].document)
KeyPlaced(k) == stored[k] = NoResult \/ Exists(stored[k].document)

Typed ==
  /\ TypeOK
  /\ \A r \in Saves : SavePlaced(r)
  /\ \A r \in Opens : OpenPlaced(r)
  /\ \A k \in Keys : KeyPlaced(k)

-----------------------------------------------------------------------------
(* The fields of rows and answers.                                         *)

LEMMA Rows == RowIds \subseteq Nat /\ 0 \notin RowIds /\ 0..MaxRows = RowIds \cup {0} /\ 1 \in RowIds
BY DocumentAssumption DEF RowIds

SavedAs(x, content) == [x EXCEPT !.content = content, !.revision = @ + 1]

LEMMA SavedRow ==
  ASSUME NEW x \in RowType, NEW content \in Contents
  PROVE  /\ SavedAs(x, content) \in RowType /\ SavedAs(x, content).state = x.state
         /\ SavedAs(x, content).revision = x.revision + 1
         /\ SavedAs(x, content).content = content /\ SavedAs(x, content).hash = x.hash
<1>1. /\ x.state \in {"absent", "live", "archived"} /\ x.revision \in Nat /\ x.hash \in Contents
      /\ DOMAIN x = {"state", "revision", "content", "hash"}
  BY DEF RowType
<1>2. ASSUME NEW y, y = [x EXCEPT !.content = content, !.revision = @ + 1]
      PROVE  y = [state |-> x.state, revision |-> x.revision + 1, content |-> content, hash |-> x.hash]
  BY <1>1, <1>2 DEF RowType
<1>3. SavedAs(x, content) = [state |-> x.state, revision |-> x.revision + 1, content |-> content, hash |-> x.hash]
  BY <1>2 DEF SavedAs
<1> QED
  BY <1>1, <1>3 DEF RowType

AdoptedAs(x, content) == [x EXCEPT !.content = content, !.revision = @ + 1, !.hash = content]

LEMMA AdoptedRow ==
  ASSUME NEW x \in RowType, NEW content \in Contents
  PROVE  /\ AdoptedAs(x, content) \in RowType /\ AdoptedAs(x, content).state = x.state
         /\ AdoptedAs(x, content).revision = x.revision + 1
         /\ AdoptedAs(x, content).content = content /\ AdoptedAs(x, content).hash = content
<1>1. /\ x.state \in {"absent", "live", "archived"} /\ x.revision \in Nat /\ x.hash \in Contents
      /\ DOMAIN x = {"state", "revision", "content", "hash"}
  BY DEF RowType
<1>2. ASSUME NEW y, y = [x EXCEPT !.content = content, !.revision = @ + 1, !.hash = content]
      PROVE  y = [state |-> x.state, revision |-> x.revision + 1, content |-> content, hash |-> content]
  BY <1>1, <1>2 DEF RowType
<1>3. AdoptedAs(x, content) = [state |-> x.state, revision |-> x.revision + 1, content |-> content, hash |-> content]
  BY <1>2 DEF AdoptedAs
<1> QED
  BY <1>1, <1>3 DEF RowType

LEMMA MarkedRow ==
  ASSUME NEW x \in RowType, NEW hash \in Contents, NEW y, y = [x EXCEPT !.hash = hash]
  PROVE  /\ y \in RowType /\ y.state = x.state /\ y.revision = x.revision
         /\ y.content = x.content /\ y.hash = hash
BY DEF RowType

LEMMA ArchivedRow ==
  ASSUME NEW x \in RowType, NEW y, y = [x EXCEPT !.state = "archived"]
  PROVE  /\ y \in RowType /\ y.state = "archived" /\ y.revision = x.revision
         /\ y.content = x.content /\ y.hash = x.hash
BY DEF RowType

LEMMA AnswerTyped ==
  ASSUME NEW d \in 0..MaxRows, NEW x \in RowType
  PROVE  ResultOf(d, x) \in ResultType /\ ResultOf(d, x).document = d
         /\ ResultOf(d, x).revision = x.revision /\ ResultOf(d, x).content = x.content
BY DEF ResultOf, ResultType, RowType

-----------------------------------------------------------------------------

LEMMA InitTyped == Init => Typed
<1> SUFFICES ASSUME Init PROVE Typed
  OBVIOUS
<1>1. NoRow \in RowType /\ NoRow.state = "absent" /\ [NoRow EXCEPT !.state = "live"] \in RowType
  BY DEF NoRow, RowType, Contents
<1>2. NoResult \in ResultType
  BY Rows DEF NoResult, ResultType, Contents
<1>3. TypeOK
  <2>1. row \in [RowIds -> RowType]
    BY <1>1 DEF Init
  <2>2. /\ disk \in Contents /\ stored \in [Keys -> ResultType]
        /\ seen \in [Opens -> RowType] /\ onDisk \in [Opens -> Contents]
        /\ result \in [Requests -> ResultType]
    BY <1>1, <1>2 DEF Init, Contents
  <2>3. /\ pc \in [Requests -> {"unsent"} \cup SavePoints \cup OpenPoints \cup Ended]
        /\ target \in [Requests -> 0..MaxRows] /\ base \in [Saves -> Nat]
        /\ edits \in 0..MaxEdits /\ overlapped \subseteq Requests
    BY Rows, DocumentAssumption DEF Init
  <2> QED
    BY <2>1, <2>2, <2>3 DEF TypeOK
<1>4. /\ \A r \in Saves : SavePlaced(r)
      /\ \A r \in Opens : OpenPlaced(r)
      /\ \A k \in Keys : KeyPlaced(k)
  BY DEF Init, Requests, SavePlaced, OpenPlaced, KeyPlaced, SaveStates, OpenStates
<1> QED
  BY <1>3, <1>4 DEF Typed

-----------------------------------------------------------------------------
(* The effect of each step that changes a row, field by field.             *)

(* The rows besides d stay.                                                *)
OthersStay(d) == \A c \in RowIds \ {d} : row'[c] = row[c]

LEMMA UpdateEffect ==
  ASSUME Typed, NEW r \in Saves, Update(r)
  PROVE  LET d == target[r] IN
         /\ d \in RowIds /\ row' \in [RowIds -> RowType] /\ OthersStay(d)
         /\ row'[d].state = row[d].state /\ row'[d].revision = row[d].revision + 1
         /\ row'[d].content = Key[r] /\ row'[d].hash = row[d].hash
         /\ result' \in [Requests -> ResultType] /\ result' = [result EXCEPT ![r] = ResultOf(d, row'[d])]
<1> DEFINE d == target[r]
           updated == SavedAs(row[d], Key[r])
<1>1. d \in RowIds /\ row[d] \in RowType /\ Key[r] \in Contents
  BY DocumentAssumption DEF Typed, TypeOK, SavePlaced, Exists, Update, Contents
<1>2. updated = SavedAs(row[d], Key[r])
  OBVIOUS
<1>3. /\ row' = [row EXCEPT ![d] = updated] /\ result' = [result EXCEPT ![r] = ResultOf(d, updated)]
  BY DEF Update, Respond, SavedAs
<1> HIDE DEF updated, d
<1>4. /\ updated \in RowType /\ updated.state = row[d].state
      /\ updated.revision = row[d].revision + 1
      /\ updated.content = Key[r] /\ updated.hash = row[d].hash
  BY <1>1, <1>2, SavedRow
<1>5. row'[d] = updated /\ row' \in [RowIds -> RowType] /\ OthersStay(d)
  BY <1>1, <1>3, <1>4 DEF Typed, TypeOK, OthersStay
<1>6. result' \in [Requests -> ResultType]
  BY <1>1, <1>3, <1>4, AnswerTyped, Rows DEF Typed, TypeOK
<1> QED
  BY <1>1, <1>3, <1>4, <1>5, <1>6 DEF d

LEMMA AdoptEffect ==
  ASSUME Typed, NEW r \in Opens, Adopt(r)
  PROVE  LET d == target[r] IN
         /\ d \in RowIds /\ row' \in [RowIds -> RowType] /\ OthersStay(d)
         /\ row'[d].state = row[d].state /\ row'[d].revision = row[d].revision + 1
         /\ row'[d].content = onDisk[r] /\ row'[d].hash = onDisk[r]
         /\ result' \in [Requests -> ResultType] /\ result' = [result EXCEPT ![r] = ResultOf(d, row'[d])]
<1> DEFINE d == target[r]
           adopted == AdoptedAs(row[d], onDisk[r])
<1>1. d \in RowIds /\ row[d] \in RowType /\ onDisk[r] \in Contents
  BY DEF Typed, TypeOK, OpenPlaced, Exists, Adopt
<1>2. adopted = AdoptedAs(row[d], onDisk[r])
  OBVIOUS
<1>3. /\ row' = [row EXCEPT ![d] = adopted] /\ result' = [result EXCEPT ![r] = ResultOf(d, adopted)]
  BY DEF Adopt, Respond, AdoptedAs
<1> HIDE DEF adopted, d
<1>4. /\ adopted \in RowType /\ adopted.state = row[d].state
      /\ adopted.revision = row[d].revision + 1
      /\ adopted.content = onDisk[r] /\ adopted.hash = onDisk[r]
  BY <1>1, <1>2, AdoptedRow
<1>5. row'[d] = adopted /\ row' \in [RowIds -> RowType] /\ OthersStay(d)
  BY <1>1, <1>3, <1>4 DEF Typed, TypeOK, OthersStay
<1>6. result' \in [Requests -> ResultType]
  BY <1>1, <1>3, <1>4, AnswerTyped, Rows DEF Typed, TypeOK
<1> QED
  BY <1>1, <1>3, <1>4, <1>5, <1>6 DEF d

LEMMA MarkEffect ==
  ASSUME Typed, NEW r \in Saves, Mark(r)
  PROVE  LET d == result[r].document IN
         /\ d \in RowIds /\ row' \in [RowIds -> RowType] /\ OthersStay(d)
         /\ row'[d].state = row[d].state /\ row'[d].revision = row[d].revision
         /\ row'[d].content = row[d].content /\ row'[d].hash = result[r].content
<1> DEFINE d == result[r].document
           marked == [row[d] EXCEPT !.hash = result[r].content]
<1>1. d \in RowIds /\ row[d] \in RowType /\ result[r].content \in Contents
  BY DEF Typed, TypeOK, SavePlaced, Exists, Mark, ResultType, Requests
<1>2. marked = [row[d] EXCEPT !.hash = result[r].content]
  OBVIOUS
<1>3. row' = [row EXCEPT ![d] = marked]
  BY DEF Mark
<1> HIDE DEF marked, d
<1>4. /\ marked \in RowType /\ marked.state = row[d].state
      /\ marked.revision = row[d].revision
      /\ marked.content = row[d].content /\ marked.hash = result[r].content
  BY <1>1, <1>2, MarkedRow
<1>5. row'[d] = marked /\ row' \in [RowIds -> RowType] /\ OthersStay(d)
  BY <1>1, <1>3, <1>4 DEF Typed, TypeOK, OthersStay
<1> QED
  BY <1>1, <1>4, <1>5 DEF d

LEMMA ArchiveEffect ==
  ASSUME Typed, NEW d \in RowIds, Archive(d)
  PROVE  /\ row' \in [RowIds -> RowType] /\ OthersStay(d)
         /\ row[d].state = "live" /\ row'[d].state = "archived" /\ row'[d].revision = row[d].revision
         /\ row'[d].content = row[d].content /\ row'[d].hash = row[d].hash
<1> DEFINE archived == [row[d] EXCEPT !.state = "archived"]
<1>1. row[d] \in RowType
  BY DEF Typed, TypeOK
<1>2. /\ archived \in RowType /\ archived.state = "archived"
      /\ archived.revision = row[d].revision
      /\ archived.content = row[d].content /\ archived.hash = row[d].hash
  BY <1>1, ArchivedRow
<1>3. row' = [row EXCEPT ![d] = archived] /\ row[d].state = "live"
  BY DEF Archive, Live
<1> HIDE DEF archived
<1>4. row'[d] = archived /\ row' \in [RowIds -> RowType] /\ OthersStay(d)
  BY <1>1, <1>2, <1>3 DEF Typed, TypeOK, OthersStay
<1> QED
  BY <1>2, <1>3, <1>4

LEMMA CreateEffect ==
  ASSUME Typed, NEW r \in Opens, NEW d \in RowIds, CreateRow(r, d)
  PROVE  /\ row' \in [RowIds -> RowType] /\ OthersStay(d) /\ row[d].state = "absent"
         /\ row'[d].state = "live" /\ row'[d].revision = 0
         /\ row'[d].content = onDisk[r] /\ row'[d].hash = onDisk[r]
         /\ target' = [target EXCEPT ![r] = d] /\ pc' = [pc EXCEPT ![r] = "answered"]
         /\ result' \in [Requests -> ResultType] /\ result' = [result EXCEPT ![r] = ResultOf(d, row'[d])]
<1> DEFINE created == [state |-> "live", revision |-> 0, content |-> onDisk[r], hash |-> onDisk[r]]
<1>1. onDisk[r] \in Contents
  BY DEF Typed, TypeOK
<1>2. /\ created \in RowType /\ created.state = "live" /\ created.revision = 0
      /\ created.content = onDisk[r] /\ created.hash = onDisk[r]
  BY <1>1 DEF RowType
<1>3. /\ row' = [row EXCEPT ![d] = created] /\ result' = [result EXCEPT ![r] = ResultOf(d, created)]
      /\ row[d].state = "absent"
      /\ target' = [target EXCEPT ![r] = d] /\ pc' = [pc EXCEPT ![r] = "answered"]
  BY DEF CreateRow, Respond, Goto
<1> HIDE DEF created
<1>4. row'[d] = created /\ row' \in [RowIds -> RowType] /\ OthersStay(d)
  BY <1>2, <1>3 DEF Typed, TypeOK, OthersStay
<1>5. result' \in [Requests -> ResultType]
  BY <1>2, <1>3, AnswerTyped, Rows DEF Typed, TypeOK
<1> QED
  BY <1>2, <1>3, <1>4, <1>5

-----------------------------------------------------------------------------
(* Types.                                                                  *)

RowsRemain == \A d \in RowIds : Exists(d) => Exists(d)'
Elsewhere(r) ==
  \A s \in Requests \ {r} : pc'[s] = pc[s] /\ target'[s] = target[s] /\ result'[s] = result[s]

LEMMA SavesTyped ==
  ASSUME Typed, TypeOK', NEW r \in Saves, RowsRemain, Elsewhere(r), SavePlaced(r)',
         \A k \in Keys : stored'[k] = stored[k] \/ Exists(stored[k].document)'
  PROVE  Typed'
BY DocumentAssumption
   DEF Typed, RowsRemain, Elsewhere, SavePlaced, OpenPlaced, KeyPlaced, Exists, Requests

LEMMA OpensTyped ==
  ASSUME Typed, TypeOK', NEW r \in Opens, RowsRemain, Elsewhere(r), OpenPlaced(r)',
         stored' = stored
  PROVE  Typed'
BY DocumentAssumption
   DEF Typed, RowsRemain, Elsewhere, SavePlaced, OpenPlaced, KeyPlaced, Exists, Requests

LEMMA BeginTyped ==
  ASSUME TypeOK, NEW begun \in SUBSET Requests, Begin(begun)
  PROVE  overlapped' \subseteq Requests
BY DEF TypeOK, Begin, Running

LEMMA SaveStepTyped ==
  ASSUME Typed, NEW r \in Saves,
         \/ \E d \in RowIds, revision \in Nat : SendSave(r, d, revision)
         \/ SaveStep(r)
  PROVE  Typed'
<1>a. /\ TypeOK /\ r \in Requests /\ SavePlaced(r) /\ r \notin Opens /\ Key[r] \in Keys
      /\ KeyPlaced(Key[r])
  BY DocumentAssumption DEF Typed, Requests
<1>b. ASSUME UNCHANGED row PROVE RowsRemain
  BY <1>b DEF RowsRemain, Exists
<1>1. ASSUME NEW d \in RowIds, NEW revision \in Nat, SendSave(r, d, revision) PROVE Typed'
  <2>1. /\ pc' = [pc EXCEPT ![r] = "lookup"] /\ target' = [target EXCEPT ![r] = d]
        /\ base' = [base EXCEPT ![r] = revision] /\ row[d].state # "absent"
        /\ UNCHANGED <<row, disk, stored, seen, onDisk, result, edits>>
        /\ overlapped' \subseteq Requests
    BY <1>1, <1>a, BeginTyped DEF SendSave, CanSend, Goto
  <2>2. TypeOK'
    BY <1>a, <2>1, Rows DEF TypeOK, SavePoints
  <2>3. Elsewhere(r) /\ SavePlaced(r)'
    BY <1>a, <2>1 DEF TypeOK, Elsewhere, SavePlaced, SaveStates, SavePoints, Exists
  <2> QED
    BY <1>b, <2>1, <2>2, <2>3, SavesTyped
<1>2. CASE LookUp(r)
  <2>1. /\ UNCHANGED <<row, disk, stored, target, base, seen, onDisk, edits, overlapped>>
        /\ pc[r] = "lookup"
        /\ \/ pc' = [pc EXCEPT ![r] = "reading"] /\ UNCHANGED result
           \/ /\ pc' = [pc EXCEPT ![r] = "writing"] /\ result' = [result EXCEPT ![r] = stored[Key[r]]]
              /\ stored[Key[r]] # NoResult
    BY <1>2 DEF LookUp, Goto, Respond
  <2>2. TypeOK'
    BY <1>a, <2>1 DEF TypeOK, SavePoints
  <2>3. Elsewhere(r) /\ SavePlaced(r)'
    BY <1>a, <2>1 DEF TypeOK, Elsewhere, SavePlaced, SaveStates, SavePoints, Exists, KeyPlaced
  <2> QED
    BY <1>b, <2>1, <2>2, <2>3, SavesTyped
<1>3. CASE Read(r)
  <2>1. /\ UNCHANGED <<row, disk, stored, target, base, seen, onDisk, result, edits, overlapped>>
        /\ pc[r] = "reading"
        /\ \E point \in {"error", "conflict", "updating"} : pc' = [pc EXCEPT ![r] = point]
    BY <1>3 DEF Read, Goto
  <2>2. TypeOK'
    BY <1>a, <2>1 DEF TypeOK, SavePoints, Ended
  <2>3. Elsewhere(r) /\ SavePlaced(r)'
    BY <1>a, <2>1 DEF TypeOK, Elsewhere, SavePlaced, SaveStates, SavePoints, Ended, Exists
  <2> QED
    BY <1>b, <2>1, <2>2, <2>3, SavesTyped
<1>4. CASE Update(r)
  <2> DEFINE d == target[r]
  <2>1. /\ UNCHANGED <<disk, stored, target, base, seen, onDisk, edits, overlapped>>
        /\ pc[r] = "updating" /\ pc' = [pc EXCEPT ![r] = "storing"]
    BY <1>4 DEF Update, Goto
  <2>2. /\ d \in RowIds /\ row' \in [RowIds -> RowType] /\ OthersStay(d)
        /\ row'[d].state = row[d].state
        /\ result' \in [Requests -> ResultType] /\ result' = [result EXCEPT ![r] = ResultOf(d, row'[d])]
    BY <1>4, UpdateEffect
  <2>3. TypeOK'
    BY <1>a, <2>1, <2>2 DEF TypeOK, SavePoints
  <2>4. RowsRemain
    BY <2>2 DEF RowsRemain, Exists, OthersStay
  <2>5. result'[r].document = d
    BY <1>a, <2>2 DEF ResultOf, TypeOK
  <2>6. Elsewhere(r) /\ SavePlaced(r)'
    BY <1>a, <2>1, <2>2, <2>5 DEF TypeOK, Elsewhere, SavePlaced, SaveStates, SavePoints, Exists
  <2> QED
    BY <2>1, <2>3, <2>4, <2>6, SavesTyped
<1>5. CASE Store(r)
  <2>1. /\ UNCHANGED <<row, disk, target, base, seen, onDisk, result, edits, overlapped>>
        /\ pc[r] = "storing" /\ pc' = [pc EXCEPT ![r] = "writing"]
        /\ stored' = stored \/ stored' = [stored EXCEPT ![Key[r]] = result[r]]
    BY <1>5 DEF Store, Goto
  <2>2. TypeOK'
    BY <1>a, <2>1 DEF TypeOK, SavePoints
  <2>3. Elsewhere(r) /\ SavePlaced(r)'
    BY <1>a, <2>1 DEF TypeOK, Elsewhere, SavePlaced, SaveStates, SavePoints, Exists
  <2>4. \A k \in Keys : stored'[k] = stored[k] \/ Exists(stored[k].document)'
    BY <1>a, <2>1 DEF TypeOK, SavePlaced, Exists
  <2> QED
    BY <1>b, <2>1, <2>2, <2>3, <2>4, SavesTyped
<1>6. CASE Write(r)
  <2>1. /\ UNCHANGED <<row, stored, target, base, seen, onDisk, result, edits, overlapped>>
        /\ pc[r] = "writing" /\ disk' \in {disk, result[r].content}
        /\ \E point \in {"marking", "error"} : pc' = [pc EXCEPT ![r] = point]
    BY <1>6 DEF Write, Goto
  <2>2. TypeOK'
    BY <1>a, <2>1 DEF TypeOK, SavePoints, Ended, ResultType
  <2>3. Elsewhere(r) /\ SavePlaced(r)'
    BY <1>a, <2>1 DEF TypeOK, Elsewhere, SavePlaced, SaveStates, SavePoints, Ended, Exists
  <2> QED
    BY <1>b, <2>1, <2>2, <2>3, SavesTyped
<1>7. CASE Mark(r)
  <2> DEFINE d == result[r].document
  <2>1. /\ UNCHANGED <<disk, stored, target, base, seen, onDisk, result, edits, overlapped>>
        /\ pc[r] = "marking" /\ pc' = [pc EXCEPT ![r] = "answered"]
    BY <1>7 DEF Mark, Goto
  <2>2. /\ d \in RowIds /\ row' \in [RowIds -> RowType] /\ OthersStay(d)
        /\ row'[d].state = row[d].state
    BY <1>7, MarkEffect
  <2>3. TypeOK'
    BY <1>a, <2>1, <2>2 DEF TypeOK, Ended
  <2>4. RowsRemain
    BY <2>2 DEF RowsRemain, Exists, OthersStay
  <2>5. Elsewhere(r) /\ SavePlaced(r)'
    BY <1>a, <2>1, <2>4 DEF TypeOK, Elsewhere, SavePlaced, SaveStates, Ended, Exists, RowsRemain
  <2> QED
    BY <2>1, <2>3, <2>4, <2>5, SavesTyped
<1> QED
  BY <1>1, <1>2, <1>3, <1>4, <1>5, <1>6, <1>7 DEF SaveStep

LEMMA OpenStepTyped ==
  ASSUME Typed, NEW r \in Opens, SendOpen(r) \/ OpenStep(r)
  PROVE  Typed'
<1>a. /\ TypeOK /\ r \in Requests /\ OpenPlaced(r) /\ r \notin Saves
  BY DocumentAssumption DEF Typed, Requests
<1>b. ASSUME UNCHANGED row PROVE RowsRemain
  BY <1>b DEF RowsRemain, Exists
<1>1. CASE SendOpen(r)
  <2>1. /\ pc' = [pc EXCEPT ![r] = "file"]
        /\ UNCHANGED <<row, disk, stored, target, base, seen, onDisk, result, edits>>
        /\ overlapped' \subseteq Requests
    BY <1>1, <1>a, BeginTyped DEF SendOpen, CanSend, Goto
  <2>2. TypeOK'
    BY <1>a, <2>1 DEF TypeOK, OpenPoints
  <2>3. Elsewhere(r) /\ OpenPlaced(r)'
    BY <1>a, <2>1 DEF TypeOK, Elsewhere, OpenPlaced, OpenStates, OpenPoints
  <2> QED
    BY <1>b, <2>1, <2>2, <2>3, OpensTyped
<1>2. CASE ReadFile(r)
  <2>1. /\ pc' = [pc EXCEPT ![r] = "finding"] /\ onDisk' = [onDisk EXCEPT ![r] = disk]
        /\ UNCHANGED <<row, disk, stored, target, base, seen, result, edits, overlapped>>
    BY <1>2 DEF ReadFile, Goto
  <2>2. TypeOK'
    BY <1>a, <2>1 DEF TypeOK, OpenPoints
  <2>3. Elsewhere(r) /\ OpenPlaced(r)'
    BY <1>a, <2>1 DEF TypeOK, Elsewhere, OpenPlaced, OpenStates, OpenPoints
  <2> QED
    BY <1>b, <2>1, <2>2, <2>3, OpensTyped
<1>3. CASE Find(r)
  <2>1. /\ UNCHANGED <<row, disk, stored, base, onDisk, result, edits, overlapped>>
        /\ \/ pc' = [pc EXCEPT ![r] = "inserting"] /\ UNCHANGED <<target, seen>>
           \/ \E d \in LiveRows : /\ pc' = [pc EXCEPT ![r] = "comparing"]
                                  /\ target' = [target EXCEPT ![r] = d]
                                  /\ seen' = [seen EXCEPT ![r] = row[d]]
    BY <1>3 DEF Find, Goto
  <2>2. \A d \in LiveRows : Exists(d) /\ d \in 0..MaxRows /\ row[d] \in RowType
    BY <1>a, Rows DEF LiveRows, Live, Exists, TypeOK
  <2>3. TypeOK'
    BY <1>a, <2>1, <2>2 DEF TypeOK, OpenPoints
  <2>4. Elsewhere(r) /\ OpenPlaced(r)'
    BY <1>a, <2>1, <2>2 DEF TypeOK, Elsewhere, OpenPlaced, OpenStates, OpenPoints, Exists
  <2> QED
    BY <1>b, <2>1, <2>3, <2>4, OpensTyped
<1>4. ASSUME NEW d \in RowIds, CreateRow(r, d),
             UNCHANGED <<disk, stored, base, seen, onDisk, edits, overlapped>>
      PROVE  Typed'
  <2>1. /\ row' \in [RowIds -> RowType] /\ OthersStay(d) /\ row'[d].state = "live"
        /\ target' = [target EXCEPT ![r] = d] /\ pc' = [pc EXCEPT ![r] = "answered"]
        /\ result' \in [Requests -> ResultType] /\ result' = [result EXCEPT ![r] = ResultOf(d, row'[d])]
    BY <1>4, CreateEffect
  <2>2. TypeOK'
    BY <1>a, <1>4, <2>1, Rows DEF TypeOK, Ended
  <2>3. RowsRemain
    BY <2>1 DEF RowsRemain, Exists, OthersStay
  <2>4. result'[r].document = d
    BY <1>a, <2>1 DEF ResultOf, TypeOK
  <2>5. Elsewhere(r) /\ OpenPlaced(r)'
    BY <1>a, <2>1, <2>4 DEF TypeOK, Elsewhere, OpenPlaced, OpenStates, Ended, Exists
  <2> QED
    BY <1>4, <2>2, <2>3, <2>5, OpensTyped
<1>5. CASE Insert(r)
  <2>1. CASE pc' = [pc EXCEPT ![r] = "finding again"] /\ UNCHANGED <<row, target, result>>
    <3>1. UNCHANGED <<disk, stored, base, seen, onDisk, edits, overlapped>>
      BY <1>5 DEF Insert
    <3>2. TypeOK'
      BY <1>a, <2>1, <3>1 DEF TypeOK, OpenPoints
    <3>3. Elsewhere(r) /\ OpenPlaced(r)'
      BY <1>a, <2>1 DEF TypeOK, Elsewhere, OpenPlaced, OpenStates, OpenPoints
    <3> QED
      BY <1>b, <2>1, <3>1, <3>2, <3>3, OpensTyped
  <2> QED
    BY <1>4, <1>5, <2>1 DEF Insert, Goto
<1>6. CASE FindAgain(r)
  <2>1. /\ UNCHANGED <<row, disk, stored, base, seen, onDisk, edits, overlapped>>
        /\ \/ pc' = [pc EXCEPT ![r] = "error"] /\ UNCHANGED <<target, result>>
           \/ \E d \in LiveRows : /\ pc' = [pc EXCEPT ![r] = "answered"]
                                  /\ target' = [target EXCEPT ![r] = d]
                                  /\ result' = [result EXCEPT ![r] = ResultOf(d, row[d])]
    BY <1>6 DEF FindAgain, Goto, Respond
  <2>2. \A d \in LiveRows : /\ Exists(d) /\ d \in 0..MaxRows
                            /\ ResultOf(d, row[d]) \in ResultType /\ ResultOf(d, row[d]).document = d
    BY <1>a, Rows, AnswerTyped DEF LiveRows, Live, Exists, TypeOK
  <2>3. TypeOK'
    BY <1>a, <2>1, <2>2 DEF TypeOK, Ended
  <2>4. Elsewhere(r) /\ OpenPlaced(r)'
    BY <1>a, <2>1, <2>2 DEF TypeOK, Elsewhere, OpenPlaced, OpenStates, Ended, Exists
  <2> QED
    BY <1>b, <2>1, <2>3, <2>4, OpensTyped
<1>7. CASE Compare(r)
  <2>1. /\ UNCHANGED <<row, disk, stored, target, base, seen, onDisk, edits, overlapped>>
        /\ pc[r] = "comparing"
        /\ \E point \in {"error", "answered", "checking", "diverged"} : pc' = [pc EXCEPT ![r] = point]
        /\ result' = [result EXCEPT ![r] = ResultOf(target[r], seen[r])]
    BY <1>7 DEF Compare, Goto, Respond
  <2>2. /\ ResultOf(target[r], seen[r]) \in ResultType /\ Exists(target[r])
        /\ ResultOf(target[r], seen[r]).document = target[r]
    BY <1>a, <2>1, AnswerTyped DEF TypeOK, OpenPlaced
  <2>3. TypeOK'
    BY <1>a, <2>1, <2>2 DEF TypeOK, Ended, OpenPoints
  <2>4. Elsewhere(r) /\ OpenPlaced(r)'
    BY <1>a, <2>1, <2>2 DEF TypeOK, Elsewhere, OpenPlaced, OpenStates, OpenPoints, Ended, Exists
  <2> QED
    BY <1>b, <2>1, <2>3, <2>4, OpensTyped
<1>8. CASE CheckRow(r)
  <2>1. /\ UNCHANGED <<row, disk, stored, target, base, seen, onDisk, result, edits, overlapped>>
        /\ pc[r] = "checking"
        /\ \E point \in {"error", "adopting"} : pc' = [pc EXCEPT ![r] = point]
    BY <1>8 DEF CheckRow, Goto
  <2>2. TypeOK'
    BY <1>a, <2>1 DEF TypeOK, Ended, OpenPoints
  <2>3. Elsewhere(r) /\ OpenPlaced(r)'
    BY <1>a, <2>1 DEF TypeOK, Elsewhere, OpenPlaced, OpenStates, OpenPoints, Ended, Exists
  <2> QED
    BY <1>b, <2>1, <2>2, <2>3, OpensTyped
<1>9. CASE Adopt(r)
  <2> DEFINE d == target[r]
  <2>1. /\ UNCHANGED <<disk, stored, target, base, seen, onDisk, edits, overlapped>>
        /\ pc' = [pc EXCEPT ![r] = "answered"]
    BY <1>9 DEF Adopt, Goto
  <2>2. /\ d \in RowIds /\ row' \in [RowIds -> RowType] /\ OthersStay(d)
        /\ row'[d].state = row[d].state /\ Exists(d)
        /\ result' \in [Requests -> ResultType] /\ result' = [result EXCEPT ![r] = ResultOf(d, row'[d])]
    BY <1>a, <1>9, AdoptEffect DEF Adopt, OpenPlaced
  <2>3. TypeOK'
    BY <1>a, <2>1, <2>2 DEF TypeOK, Ended
  <2>4. RowsRemain
    BY <2>2 DEF RowsRemain, Exists, OthersStay
  <2>5. result'[r].document = d
    BY <1>a, <2>2 DEF ResultOf, TypeOK
  <2>6. Elsewhere(r) /\ OpenPlaced(r)'
    BY <1>a, <2>1, <2>2, <2>5 DEF TypeOK, Elsewhere, OpenPlaced, OpenStates, Ended, Exists
  <2> QED
    BY <2>1, <2>3, <2>4, <2>6, OpensTyped
<1> QED
  BY <1>1, <1>2, <1>3, <1>5, <1>6, <1>7, <1>8, <1>9 DEF OpenStep

LEMMA TypedKept == Typed /\ [Next]_vars => Typed'
<1> SUFFICES ASSUME Typed, [Next]_vars PROVE Typed'
  OBVIOUS
<1>1. ASSUME NEW r \in Saves,
             \/ \E d \in RowIds, revision \in 0..(Cardinality(Requests)) : SendSave(r, d, revision)
             \/ SaveStep(r)
      PROVE  Typed'
  BY <1>1, SaveStepTyped
<1>2. ASSUME NEW r \in Opens, SendOpen(r) \/ OpenStep(r) PROVE Typed'
  BY <1>2, OpenStepTyped
<1>3. ASSUME NEW d \in RowIds, Archive(d) PROVE Typed'
  <2>1. /\ row' \in [RowIds -> RowType] /\ OthersStay(d) /\ row'[d].state = "archived"
        /\ UNCHANGED <<disk, stored, pc, target, base, seen, onDisk, result, edits>>
        /\ overlapped' \subseteq Requests
    BY <1>3, ArchiveEffect, BeginTyped DEF Archive, requestVars, Typed
  <2>2. TypeOK'
    BY <2>1 DEF Typed, TypeOK
  <2>3. \A c \in RowIds : Exists(c) => Exists(c)'
    BY <2>1 DEF Exists, OthersStay
  <2> QED
    BY <2>1, <2>2, <2>3 DEF Typed, SavePlaced, OpenPlaced, KeyPlaced, Exists
<1>4. ASSUME NEW content \in Edits, EditOutside(content) PROVE Typed'
  <2>1. TypeOK'
    BY <1>4, DocumentAssumption DEF Typed, TypeOK, EditOutside, requestVars, Contents
  <2> QED
    BY <1>4, <2>1 DEF Typed, SavePlaced, OpenPlaced, KeyPlaced, Exists, EditOutside, requestVars
<1>5. CASE UNCHANGED vars
  <2>1. TypeOK'
    BY <1>5 DEF Typed, TypeOK, vars, requestVars
  <2> QED
    BY <1>5, <2>1 DEF Typed, SavePlaced, OpenPlaced, KeyPlaced, Exists, vars, requestVars
<1> QED
  BY <1>1, <1>2, <1>3, <1>4, <1>5 DEF Next

LEMMA TypedAlways == Spec => []Typed
BY InitTyped, TypedKept, PTL DEF Spec

(* Every variable keeps its type, and a request that needs a row has one   *)
(* (documents/service.ts, ws/dispatch.ts).                                 *)
THEOREM TypeCorrect == Spec => []TypeOK
<1>1. Typed => TypeOK
  BY DEF Typed
<1> QED
  BY <1>1, TypedAlways, PTL

-----------------------------------------------------------------------------
(* Who changes a row, and who moves.                                       *)

LEMMA WhoWrites ==
  ASSUME [Next]_vars
  PROVE  \/ row' = row
         \/ \E r \in Saves : Update(r)
         \/ \E r \in Saves : Mark(r)
         \/ \E r \in Opens : Adopt(r)
         \/ \E r \in Opens, d \in RowIds : LiveRows = {} /\ CreateRow(r, d)
         \/ \E d \in RowIds : Archive(d)
BY DEF Next, vars, SaveStep, OpenStep, SendSave, LookUp, Read, Store, Write, SendOpen,
       ReadFile, Find, Insert, FindAgain, Compare, CheckRow, EditOutside

(* One row at most is live.                                                *)
Sole == \A c, d \in RowIds : Live(c) /\ Live(d) => c = d

LEMMA SoleKept ==
  ASSUME Typed, Sole, [Next]_vars
  PROVE  Sole'
<1>1. ASSUME NEW d \in RowIds, OthersStay(d), row'[d].state = row[d].state
      PROVE  Sole'
  BY <1>1 DEF Sole, Live, OthersStay
<1>2. CASE row' = row
  BY <1>2 DEF Sole, Live
<1>3. ASSUME NEW r \in Saves, Update(r) PROVE Sole'
  BY <1>1, <1>3, UpdateEffect
<1>4. ASSUME NEW r \in Saves, Mark(r) PROVE Sole'
  BY <1>1, <1>4, MarkEffect
<1>5. ASSUME NEW r \in Opens, Adopt(r) PROVE Sole'
  BY <1>1, <1>5, AdoptEffect
<1>6. ASSUME NEW r \in Opens, NEW d \in RowIds, LiveRows = {}, CreateRow(r, d) PROVE Sole'
  BY <1>6, CreateEffect DEF Sole, Live, LiveRows, OthersStay
<1>7. ASSUME NEW d \in RowIds, Archive(d) PROVE Sole'
  BY <1>7, ArchiveEffect DEF Sole, Live, OthersStay
<1> QED
  BY <1>2, <1>3, <1>4, <1>5, <1>6, <1>7, WhoWrites

LEMMA SoleAlways == Spec => []Sole
<1>1. Init => Sole
  BY DEF Init, Sole, Live, NoRow
<1> QED
  BY <1>1, SoleKept, TypedAlways, PTL DEF Spec

(* Whatever opens, saves and archives overlap, a file has at most one live *)
(* row (createFileDocument, documents/service.ts:191-224).                 *)
THEOREM OneRow == Spec => []OneLiveRow
<1>1. Sole => OneLiveRow
  <2> SUFFICES ASSUME Sole PROVE OneLiveRow
    OBVIOUS
  <2>1. CASE LiveRows = {}
    BY <2>1, FS_EmptySet DEF OneLiveRow
  <2>2. CASE LiveRows # {}
    <3>1. PICK d \in RowIds : LiveRows = {d}
      BY <2>2 DEF Sole, LiveRows
    <3> QED
      BY <3>1, FS_Singleton DEF OneLiveRow
  <2> QED
    BY <2>1, <2>2
<1> QED
  BY <1>1, SoleAlways, PTL

-----------------------------------------------------------------------------
(* What has been overlapped.                                               *)

(* Of two requests in flight each is overlapped, and only what was sent.   *)
Crowds ==
  /\ \A r, s \in Requests : r # s /\ InFlight(r) /\ InFlight(s) => r \in overlapped
  /\ \A r \in overlapped : pc[r] # "unsent"

(* The step of a request that has begun.                                   *)
Own(r) ==
  /\ \/ r \in Saves /\ SaveStep(r)
     \/ r \in Opens /\ OpenStep(r)
  /\ InFlight(r) /\ pc'[r] # "unsent" /\ overlapped' = overlapped
  /\ \A s \in Requests \ {r} : pc'[s] = pc[s]

Sends(r) ==
  /\ \/ r \in Opens /\ SendOpen(r)
     \/ r \in Saves /\ \E d \in RowIds, revision \in Nat : SendSave(r, d, revision)
  /\ pc[r] = "unsent" /\ Begin({r}) /\ pc'[r] \in {"lookup", "file"}
  /\ \A s \in Requests \ {r} : pc'[s] = pc[s]

Nobody == UNCHANGED <<row, stored, requestVars, overlapped>>

LEMMA WhoSteps ==
  ASSUME Typed, [Next]_vars
  PROVE  \/ \E r \in Requests : Own(r)
         \/ \E r \in Requests : Sends(r)
         \/ \E d \in RowIds : Archive(d)
         \/ Nobody
<1>a. pc \in [Requests -> {"unsent"} \cup SavePoints \cup OpenPoints \cup Ended]
  BY DEF Typed, TypeOK
<1>1. ASSUME NEW r \in Saves, SaveStep(r) PROVE Own(r) /\ r \in Requests
  <2>1. /\ pc[r] \in SavePoints /\ overlapped' = overlapped
        /\ \E point \in SavePoints \cup Ended : pc' = [pc EXCEPT ![r] = point]
    <3>1. CASE LookUp(r)
      BY <3>1 DEF LookUp, Goto, SavePoints, Ended
    <3>2. CASE Read(r)
      BY <3>2 DEF Read, Goto, SavePoints, Ended
    <3>3. CASE Update(r)
      BY <3>3 DEF Update, Goto, SavePoints, Ended
    <3>4. CASE Store(r)
      BY <3>4 DEF Store, Goto, SavePoints, Ended
    <3>5. CASE Write(r)
      BY <3>5 DEF Write, Goto, SavePoints, Ended
    <3>6. CASE Mark(r)
      BY <3>6 DEF Mark, Goto, SavePoints, Ended
    <3> QED
      BY <1>1, <3>1, <3>2, <3>3, <3>4, <3>5, <3>6 DEF SaveStep
  <2> QED
    BY <1>a, <1>1, <2>1 DEF Own, InFlight, Requests, SavePoints, OpenPoints, Ended
<1>2. ASSUME NEW r \in Opens, OpenStep(r) PROVE Own(r) /\ r \in Requests
  <2>1. /\ pc[r] \in OpenPoints /\ overlapped' = overlapped
        /\ \E point \in OpenPoints \cup Ended : pc' = [pc EXCEPT ![r] = point]
    <3>1. CASE ReadFile(r)
      BY <3>1 DEF ReadFile, Goto, OpenPoints, Ended
    <3>2. CASE Find(r)
      BY <3>2 DEF Find, Goto, OpenPoints, Ended
    <3>3. CASE Insert(r)
      BY <3>3 DEF Insert, CreateRow, Goto, OpenPoints, Ended
    <3>4. CASE FindAgain(r)
      BY <3>4 DEF FindAgain, Goto, OpenPoints, Ended
    <3>5. CASE Compare(r)
      BY <3>5 DEF Compare, Goto, OpenPoints, Ended
    <3>6. CASE CheckRow(r)
      BY <3>6 DEF CheckRow, Goto, OpenPoints, Ended
    <3>7. CASE Adopt(r)
      BY <3>7 DEF Adopt, Goto, OpenPoints, Ended
    <3> QED
      BY <1>2, <3>1, <3>2, <3>3, <3>4, <3>5, <3>6, <3>7 DEF OpenStep
  <2> QED
    BY <1>a, <1>2, <2>1 DEF Own, InFlight, Requests, SavePoints, OpenPoints, Ended
<1>3. ASSUME NEW r \in Saves, NEW d \in RowIds, NEW revision \in Nat, SendSave(r, d, revision)
      PROVE  Sends(r) /\ r \in Requests
  <2>1. pc[r] = "unsent" /\ Begin({r}) /\ pc' = [pc EXCEPT ![r] = "lookup"]
    BY <1>3 DEF SendSave, CanSend, Goto
  <2>2. r \in Requests /\ pc'[r] = "lookup" /\ \A s \in Requests \ {r} : pc'[s] = pc[s]
    BY <1>a, <2>1 DEF Requests
  <2> QED
    BY <1>3, <2>1, <2>2 DEF Sends
<1>4. ASSUME NEW r \in Opens, SendOpen(r) PROVE Sends(r) /\ r \in Requests
  <2>1. pc[r] = "unsent" /\ Begin({r}) /\ pc' = [pc EXCEPT ![r] = "file"]
    BY <1>4 DEF SendOpen, CanSend, Goto
  <2>2. r \in Requests /\ pc'[r] = "file" /\ \A s \in Requests \ {r} : pc'[s] = pc[s]
    BY <1>a, <2>1 DEF Requests
  <2> QED
    BY <1>4, <2>1, <2>2 DEF Sends
<1>5. ASSUME NEW content \in Edits, EditOutside(content) PROVE Nobody
  BY <1>5 DEF EditOutside, Nobody
<1>6. CASE UNCHANGED vars
  BY <1>6 DEF vars, Nobody
<1>7. \A n \in 0..Cardinality(Requests) : n \in Nat
  OBVIOUS
<1>8. CASE Next
  BY <1>1, <1>2, <1>3, <1>4, <1>5, <1>7, <1>8 DEF Next
<1> QED
  BY <1>6, <1>8

LEMMA CrowdsKept ==
  ASSUME Typed, Crowds, [Next]_vars
  PROVE  Crowds'
<1>1. ASSUME NEW r \in Requests, Own(r) PROVE Crowds'
  <2>1. /\ overlapped' = overlapped /\ InFlight(r) /\ pc'[r] # "unsent"
        /\ \A s \in Requests \ {r} : pc'[s] = pc[s]
    BY <1>1 DEF Own
  <2>2. overlapped \subseteq Requests
    BY DEF Typed, TypeOK
  <2>3. \A s \in Requests : InFlight(s)' => InFlight(s)
    BY <2>1 DEF InFlight
  <2> QED
    BY <2>1, <2>2, <2>3 DEF Crowds
<1>2. ASSUME NEW r \in Requests, Sends(r) PROVE Crowds'
  <2>1. /\ pc[r] = "unsent" /\ pc'[r] \in {"lookup", "file"}
        /\ \A s \in Requests \ {r} : pc'[s] = pc[s]
        /\ overlapped' = (IF Quiet THEN {} ELSE Running \cup {r})
                         \cup (IF overlapped = {} THEN {} ELSE {s \in Requests : pc[s] \in Ended})
    BY <1>2 DEF Sends, Begin
  <2> QED
    BY <2>1 DEF Crowds, InFlight, Running, Quiet, Ended
<1>3. ASSUME NEW d \in RowIds, Archive(d) PROVE Crowds'
  <2>1. /\ pc' = pc
        /\ overlapped' = (IF Quiet THEN {} ELSE Running \cup {})
                         \cup (IF overlapped = {} THEN {} ELSE {s \in Requests : pc[s] \in Ended})
    BY <1>3 DEF Archive, Begin, requestVars
  <2> QED
    BY <2>1 DEF Crowds, InFlight, Running, Quiet, Ended
<1>4. CASE Nobody
  BY <1>4 DEF Nobody, requestVars, Crowds, InFlight
<1> QED
  BY <1>1, <1>2, <1>3, <1>4, WhoSteps

(* Nobody but a request itself touches anything while nothing overlaps it. *)
LEMMA Undisturbed ==
  ASSUME Typed, Crowds, [Next]_vars, NEW r \in Requests, InFlight(r)', r \notin overlapped'
  PROVE  \/ Own(r) /\ r \notin overlapped
         \/ Sends(r)
         \/ Nobody /\ InFlight(r) /\ r \notin overlapped
<1>1. ASSUME NEW s \in Requests, Own(s) PROVE s = r /\ r \notin overlapped
  BY <1>1 DEF Own, Crowds, InFlight
<1>2. ASSUME NEW s \in Requests, Sends(s) PROVE s = r
  BY <1>2 DEF Sends, Begin, InFlight, Running, Quiet
<1>3. ASSUME NEW d \in RowIds, Archive(d) PROVE FALSE
  BY <1>3 DEF Archive, Begin, InFlight, Running, Quiet, requestVars
<1>4. CASE Nobody
  BY <1>4 DEF Nobody, requestVars, InFlight
<1> QED
  BY <1>1, <1>2, <1>3, <1>4, WhoSteps

LEMMA CrowdsAlways == Spec => []Crowds
<1>1. Init => Crowds
  BY DEF Init, Crowds, InFlight, Requests
<1> QED
  BY <1>1, CrowdsKept, TypedAlways, PTL DEF Spec

-----------------------------------------------------------------------------
(* What a request knows while nothing overlaps it.                         *)

(* The check of a save still holds when it updates.                        *)
StillBased == \A r \in Saves \ Forced :
  r \notin overlapped /\ pc[r] = "updating" => row[target[r]].revision = base[r]

(* What an open has read is what the row holds, and the content it is      *)
(* about to replace is the one that was synced.                            *)
StillRead == \A r \in Opens :
  r \notin overlapped =>
    /\ pc[r] = "comparing" => seen[r] = row[target[r]]
    /\ pc[r] \in {"checking", "adopting"} => row[target[r]].content = row[target[r]].hash

LEMMA StillBasedKept ==
  ASSUME Typed, Crowds, StillBased, [Next]_vars
  PROVE  StillBased'
<1> SUFFICES ASSUME NEW r \in Saves \ Forced, r \notin overlapped', pc'[r] = "updating"
             PROVE  row'[target'[r]].revision = base'[r]
  BY DEF StillBased
<1>1. r \in Requests /\ InFlight(r)'
  BY DEF Requests, InFlight, Ended
<1>2. CASE Own(r) /\ r \notin overlapped
  <2>1. SaveStep(r)
    BY <1>2, DocumentAssumption DEF Own
  <2>2. Read(r)
    <3>1. pc \in [Requests -> {"unsent"} \cup SavePoints \cup OpenPoints \cup Ended]
      BY DEF Typed, TypeOK
    <3> QED
      BY <1>1, <2>1, <3>1 DEF SaveStep, LookUp, Update, Store, Write, Mark, Goto
  <2>3. ~RowMissing(r) /\ row[target[r]].revision = base[r]
    <3>1. pc \in [Requests -> {"unsent"} \cup SavePoints \cup OpenPoints \cup Ended]
      BY DEF Typed, TypeOK
    <3>2. pc'[r] = CASE RowMissing(r) -> "error"
                     [] ~RowMissing(r) /\ r \notin Forced /\ row[target[r]].revision # base[r]
                          -> "conflict"
                     [] OTHER -> "updating"
      BY <1>1, <2>2, <3>1 DEF Read, Goto
    <3>3. CASE RowMissing(r)
      BY <3>2, <3>3
    <3>4. CASE ~RowMissing(r)
      BY <3>2, <3>4
    <3> QED
      BY <3>3, <3>4
  <2> QED
    BY <2>2, <2>3 DEF Read
<1>3. CASE Sends(r)
  BY <1>3 DEF Sends
<1>4. CASE Nobody /\ r \notin overlapped
  BY <1>4 DEF Nobody, requestVars, StillBased
<1> QED
  BY <1>1, <1>2, <1>3, <1>4, Undisturbed

LEMMA StillReadKept ==
  ASSUME Typed, Crowds, StillRead, [Next]_vars
  PROVE  StillRead'
<1> SUFFICES ASSUME NEW r \in Opens, r \notin overlapped',
                    pc'[r] \in {"comparing", "checking", "adopting"}
             PROVE  /\ pc'[r] = "comparing" => seen'[r] = row'[target'[r]]
                    /\ pc'[r] # "comparing" => row'[target'[r]].content = row'[target'[r]].hash
  BY DEF StillRead
<1>1. r \in Requests /\ InFlight(r)'
  BY DEF Requests, InFlight, Ended
<1>2. CASE Own(r) /\ r \notin overlapped
  <2>a. /\ pc \in [Requests -> {"unsent"} \cup SavePoints \cup OpenPoints \cup Ended]
        /\ target \in [Requests -> 0..MaxRows]
        /\ seen \in [Opens -> RowType]
    BY DEF Typed, TypeOK
  <2>1. OpenStep(r)
    BY <1>2, DocumentAssumption DEF Own
  <2>2. Find(r) \/ Compare(r) \/ CheckRow(r)
    BY <1>1, <2>1, <2>a DEF OpenStep, ReadFile, Insert, CreateRow, FindAgain, Adopt, Goto
  <2>3. CASE Find(r)
    <3>1. PICK d \in LiveRows : /\ pc' = [pc EXCEPT ![r] = "comparing"]
                                /\ target' = [target EXCEPT ![r] = d]
                                /\ seen' = [seen EXCEPT ![r] = row[d]]
      BY <1>1, <2>3, <2>a DEF Find, Goto
    <3> QED
      BY <1>1, <2>3, <2>a, <3>1 DEF Find
  <2>4. CASE Compare(r)
    <3>1. pc'[r] = CASE RowMissing(r) -> "error"
                     [] ~RowMissing(r) /\ row[target[r]].hash = onDisk[r] -> "answered"
                     [] ~RowMissing(r) /\ row[target[r]].hash # onDisk[r]
                          /\ seen[r].content = row[target[r]].hash -> "checking"
                     [] OTHER -> "diverged"
      BY <1>1, <2>4, <2>a DEF Compare, Goto
    <3>2. pc'[r] = "checking" /\ seen[r].content = row[target[r]].hash
      <4>1. CASE RowMissing(r)
        BY <3>1, <4>1
      <4>2. CASE ~RowMissing(r)
        BY <3>1, <4>2
      <4> QED
        BY <4>1, <4>2
    <3> QED
      BY <1>2, <2>4, <3>2 DEF Compare, StillRead
  <2>5. CASE CheckRow(r)
    <3>1. pc'[r] \in {"error", "adopting"}
      BY <1>1, <2>5, <2>a DEF CheckRow, Goto
    <3> QED
      BY <1>2, <2>5, <3>1 DEF CheckRow, StillRead
  <2> QED
    BY <2>2, <2>3, <2>4, <2>5
<1>3. CASE Sends(r)
  BY <1>3 DEF Sends
<1>4. CASE Nobody /\ r \notin overlapped
  BY <1>4 DEF Nobody, requestVars, StillRead
<1> QED
  BY <1>1, <1>2, <1>3, <1>4, Undisturbed

(* A save that is not forced and that nothing overlaps replaces the        *)
(* revision it was based on (saveDocument, documents/service.ts:278-310).  *)
THEOREM NothingOverwritten == Spec => NoSilentOverwrite
<1>1. Init => StillBased
  BY DEF Init, StillBased, Requests
<1>2. Spec => []StillBased
  BY <1>1, StillBasedKept, CrowdsAlways, TypedAlways, PTL DEF Spec
<1>3. StillBased => \A r \in Saves \ Forced :
        r \notin overlapped /\ pc[r] = "updating" /\ pc'[r] = "storing"
          => row[target[r]].revision = base[r]
  BY DEF StillBased
<1> QED
  BY <1>2, <1>3, PTL DEF NoSilentOverwrite

(* The content an adoption replaces is the one last synced, unless         *)
(* something overlapped the open (file.open, ws/dispatch.ts:1352-1401).    *)
THEOREM AdoptionIsSafe == Spec => AdoptLosesNothing
<1>1. Init => StillRead
  BY DEF Init, StillRead, Requests
<1>2. Spec => []StillRead
  BY <1>1, StillReadKept, CrowdsAlways, TypedAlways, PTL DEF Spec
<1>3. StillRead => \A r \in Opens :
        r \notin overlapped /\ pc[r] = "adopting" /\ pc'[r] = "answered"
          => row[target[r]].content = row[target[r]].hash
  BY DEF StillRead
<1> QED
  BY <1>2, <1>3, PTL DEF AdoptLosesNothing

-----------------------------------------------------------------------------
(* What anybody has been told of a row.                                    *)

Told == {"storing", "writing", "marking", "answered", "diverged"}

(* An answer given or about to be given, stored under a key, or read.      *)
Known(v) ==
  \/ \E r \in Requests : pc[r] \in Told /\ v = result[r]
  \/ \E k \in Keys : stored[k] # NoResult /\ v = stored[k]
  \/ \E r \in Opens : pc[r] = "comparing" /\ v = ResultOf(target[r], seen[r])

(* The row has gone on from v, or is still what v says.                    *)
PastOf(v) ==
  /\ Exists(v.document)
  /\ v.revision <= row[v.document].revision
  /\ v.revision = row[v.document].revision => v.content = row[v.document].content
Now(v) ==
  /\ Exists(v.document)
  /\ v.revision = row[v.document].revision
  /\ v.content = row[v.document].content

Agree(v, w) ==
  v.document = w.document /\ v.revision = w.revision => v.content = w.content

Named ==
  /\ \A v \in ResultType : Known(v) => PastOf(v)
  /\ \A v, w \in ResultType : Known(v) /\ Known(w) => Agree(v, w)

(* A row never goes back, and a new content is a new revision.             *)
Onward(d) ==
  Exists(d) =>
    /\ Exists(d)'
    /\ row[d].revision <= row'[d].revision
    /\ row[d].revision = row'[d].revision => row[d].content = row'[d].content

LEMMA RowsGoOn ==
  ASSUME Typed, [Next]_vars
  PROVE  /\ \A d \in RowIds : Onward(d) /\ row[d].revision \in Nat /\ row'[d].revision \in Nat
<1>a. Typed'
  BY TypedKept
<1>b. \A d \in RowIds : row[d].revision \in Nat /\ row'[d].revision \in Nat
  BY <1>a DEF Typed, TypeOK, RowType
<1>1. CASE row' = row
  BY <1>1, <1>b DEF Onward, Exists
<1>2. ASSUME NEW r \in Saves, Update(r) PROVE \A d \in RowIds : Onward(d)
  BY <1>2, <1>b, UpdateEffect DEF Onward, Exists, OthersStay
<1>3. ASSUME NEW r \in Saves, Mark(r) PROVE \A d \in RowIds : Onward(d)
  BY <1>3, <1>b, MarkEffect DEF Onward, Exists, OthersStay
<1>4. ASSUME NEW r \in Opens, Adopt(r) PROVE \A d \in RowIds : Onward(d)
  BY <1>4, <1>b, AdoptEffect DEF Onward, Exists, OthersStay
<1>5. ASSUME NEW r \in Opens, NEW d \in RowIds, CreateRow(r, d) PROVE \A c \in RowIds : Onward(c)
  BY <1>5, <1>b, CreateEffect DEF Onward, Exists, OthersStay
<1>6. ASSUME NEW d \in RowIds, Archive(d) PROVE \A c \in RowIds : Onward(c)
  BY <1>6, <1>b, ArchiveEffect DEF Onward, Exists, OthersStay
<1> QED
  BY <1>b, <1>1, <1>2, <1>3, <1>4, <1>5, <1>6, WhoWrites

(* What a step tells is what was known already, or what the row now holds. *)
NothingInvented == \A v \in ResultType : Known(v)' => Known(v) \/ Now(v)'

(* The same, one request moving and its own answer looked at alone.        *)
LEMMA OneTells ==
  ASSUME Typed, NEW r \in Requests, Elsewhere(r),
         \A s \in Opens \ {r} : seen'[s] = seen[s],
         \A v \in ResultType :
           /\ (\E k \in Keys : stored'[k] # stored[k] /\ v = stored'[k]) => Known(v) \/ Now(v)'
           /\ pc'[r] \in Told /\ v = result'[r] => Known(v) \/ Now(v)'
           /\ r \in Opens /\ pc'[r] = "comparing" /\ v = ResultOf(target'[r], seen'[r])
                => Known(v) \/ Now(v)'
  PROVE  NothingInvented
<1> SUFFICES ASSUME NEW v \in ResultType, Known(v)' PROVE Known(v) \/ Now(v)'
  BY DEF NothingInvented
<1>1. ASSUME NEW s \in Requests, pc'[s] \in Told, v = result'[s] PROVE Known(v) \/ Now(v)'
  <2>1. CASE s = r
    BY <1>1, <2>1
  <2>2. CASE s # r
    BY <1>1, <2>2 DEF Elsewhere, Known
  <2> QED
    BY <2>1, <2>2
<1>2. ASSUME NEW k \in Keys, stored'[k] # NoResult, v = stored'[k] PROVE Known(v) \/ Now(v)'
  <2>1. CASE stored'[k] = stored[k]
    BY <1>2, <2>1 DEF Known
  <2>2. CASE stored'[k] # stored[k]
    BY <1>2, <2>2
  <2> QED
    BY <2>1, <2>2
<1>3. ASSUME NEW s \in Opens, pc'[s] = "comparing", v = ResultOf(target'[s], seen'[s])
      PROVE  Known(v) \/ Now(v)'
  <2>1. CASE s = r
    BY <1>3, <2>1
  <2>2. CASE s # r
    <3>1. pc[s] = "comparing" /\ v = ResultOf(target[s], seen[s])
      BY <1>3, <2>2 DEF Elsewhere, Requests
    <3> QED
      BY <3>1 DEF Known
  <2> QED
    BY <2>1, <2>2
<1>4. \/ \E s \in Requests : pc'[s] \in Told /\ v = result'[s]
      \/ \E k \in Keys : stored'[k] # NoResult /\ v = stored'[k]
      \/ \E s \in Opens : pc'[s] = "comparing" /\ v = ResultOf(target'[s], seen'[s])
  BY DEF Known, ResultOf
<1> QED
  BY <1>1, <1>2, <1>3, <1>4

LEMMA SavesTellTruth ==
  ASSUME Typed, Typed', RowsRemain, NEW r \in Saves,
         SaveStep(r) \/ \E d \in RowIds, revision \in Nat : SendSave(r, d, revision)
  PROVE  NothingInvented
<1>a. /\ r \in Requests /\ r \notin Opens /\ Key[r] \in Keys
      /\ pc \in [Requests -> {"unsent"} \cup SavePoints \cup OpenPoints \cup Ended]
      /\ target \in [Requests -> 0..MaxRows] /\ result \in [Requests -> ResultType]
      /\ stored \in [Keys -> ResultType]
  BY DocumentAssumption DEF Requests, Typed, TypeOK
<1>1. ASSUME NEW d \in RowIds, NEW revision \in Nat, SendSave(r, d, revision)
      PROVE  NothingInvented
  <2>1. /\ pc' = [pc EXCEPT ![r] = "lookup"] /\ target' = [target EXCEPT ![r] = d]
        /\ UNCHANGED <<stored, seen, result>>
    BY <1>1 DEF SendSave, Goto
  <2>2. Elsewhere(r) /\ pc'[r] \notin Told
    BY <1>a, <2>1 DEF Elsewhere, Told
  <2> QED
    BY <1>a, <2>1, <2>2, OneTells
<1>2. CASE LookUp(r)
  <2>1. /\ UNCHANGED <<stored, target, seen>>
        /\ \/ pc' = [pc EXCEPT ![r] = "reading"] /\ UNCHANGED result
           \/ /\ pc' = [pc EXCEPT ![r] = "writing"] /\ result' = [result EXCEPT ![r] = stored[Key[r]]]
              /\ stored[Key[r]] # NoResult
    BY <1>2 DEF LookUp, Goto, Respond
  <2>2. Elsewhere(r)
    BY <1>a, <2>1 DEF Elsewhere
  <2>3. pc'[r] \in Told => result'[r] = stored[Key[r]] /\ stored[Key[r]] # NoResult
    BY <1>a, <2>1 DEF Told
  <2>4. \A v \in ResultType : pc'[r] \in Told /\ v = result'[r] => Known(v)
    BY <1>a, <2>3 DEF Known
  <2> QED
    BY <1>a, <2>1, <2>2, <2>4, OneTells
<1>3. CASE Read(r)
  <2>1. /\ UNCHANGED <<stored, target, seen, result>>
        /\ \E point \in {"error", "conflict", "updating"} : pc' = [pc EXCEPT ![r] = point]
    BY <1>3 DEF Read, Goto
  <2>2. Elsewhere(r) /\ pc'[r] \notin Told
    BY <1>a, <2>1 DEF Elsewhere, Told
  <2> QED
    BY <1>a, <2>1, <2>2, OneTells
<1>4. CASE Update(r)
  <2>1. /\ UNCHANGED <<stored, target, seen>> /\ pc' = [pc EXCEPT ![r] = "storing"]
    BY <1>4 DEF Update, Goto
  <2>2. result' = [result EXCEPT ![r] = ResultOf(target[r], row'[target[r]])] /\ target[r] \in RowIds
    BY <1>4, UpdateEffect
  <2>3. Exists(target[r])'
    <3>1. Exists(target[r])
      BY <1>4 DEF Typed, SavePlaced, Update
    <3>2. target'[r] = target[r]
      BY <2>1
    <3> QED
      BY <2>1, <2>2, <3>1 DEF RowsRemain, Exists
  <2>4. Elsewhere(r) /\ result'[r] = ResultOf(target[r], row'[target[r]])
    BY <1>a, <2>1, <2>2 DEF Elsewhere
  <2>5. ASSUME NEW v, v = result'[r] PROVE Now(v)'
    <3> DEFINE d == target[r]
    <3>1. Exists(d)'
      BY <2>1, <2>3 DEF Exists
    <3>2. v = ResultOf(d, row'[d])
      BY <2>4, <2>5
    <3> QED
      BY <2>1, <3>1, <3>2 DEF Now, ResultOf, Exists
  <2> QED
    BY <1>a, <2>1, <2>4, <2>5, OneTells
<1>5. CASE Store(r)
  <2>1. /\ UNCHANGED <<target, seen, result>>
        /\ pc[r] = "storing" /\ pc' = [pc EXCEPT ![r] = "writing"]
        /\ stored' = stored \/ stored' = [stored EXCEPT ![Key[r]] = result[r]]
    BY <1>5 DEF Store, Goto
  <2>2. Elsewhere(r) /\ result'[r] = result[r] /\ Known(result[r])
    BY <1>a, <2>1 DEF Elsewhere, Known, Told
  <2>3. \A k \in Keys : stored'[k] = stored[k] \/ stored'[k] = result[r]
    BY <1>a, <2>1
  <2>4. \A v \in ResultType :
          /\ (\E k \in Keys : stored'[k] # stored[k] /\ v = stored'[k]) => Known(v)
          /\ v = result'[r] => Known(v)
    BY <2>2, <2>3
  <2> QED
    BY <1>a, <2>1, <2>2, <2>4, OneTells
<1>6. CASE Write(r)
  <2>1. /\ UNCHANGED <<stored, target, seen, result>> /\ pc[r] = "writing"
        /\ \E point \in {"marking", "error"} : pc' = [pc EXCEPT ![r] = point]
    BY <1>6 DEF Write, Goto
  <2>2. Elsewhere(r) /\ result'[r] = result[r] /\ Known(result[r])
    BY <1>a, <2>1 DEF Elsewhere, Known, Told
  <2> QED
    BY <1>a, <2>1, <2>2, OneTells
<1>7. CASE Mark(r)
  <2>1. /\ UNCHANGED <<stored, target, seen, result>> /\ pc[r] = "marking"
        /\ pc' = [pc EXCEPT ![r] = "answered"]
    BY <1>7 DEF Mark, Goto
  <2>2. Elsewhere(r) /\ result'[r] = result[r] /\ Known(result[r])
    BY <1>a, <2>1 DEF Elsewhere, Known, Told
  <2> QED
    BY <1>a, <2>1, <2>2, OneTells
<1> QED
  BY <1>1, <1>2, <1>3, <1>4, <1>5, <1>6, <1>7 DEF SaveStep

LEMMA OpensTellTruth ==
  ASSUME Typed, Typed', RowsRemain, NEW r \in Opens, SendOpen(r) \/ OpenStep(r)
  PROVE  NothingInvented
<1>a. /\ r \in Requests /\ r \notin Saves
      /\ pc \in [Requests -> {"unsent"} \cup SavePoints \cup OpenPoints \cup Ended]
      /\ target \in [Requests -> 0..MaxRows] /\ result \in [Requests -> ResultType]
      /\ row \in [RowIds -> RowType] /\ seen \in [Opens -> RowType]
  BY DocumentAssumption DEF Requests, Typed, TypeOK
<1>1. CASE SendOpen(r) \/ ReadFile(r) \/ CheckRow(r)
  <2>1. /\ UNCHANGED <<stored, target, seen, result>>
        /\ \E point \in {"file", "finding", "error", "adopting"} : pc' = [pc EXCEPT ![r] = point]
    BY <1>1 DEF SendOpen, ReadFile, CheckRow, Goto
  <2>2. Elsewhere(r) /\ pc'[r] \notin Told \cup {"comparing"}
    BY <1>a, <2>1 DEF Elsewhere, Told
  <2> QED
    BY <1>a, <2>1, <2>2, OneTells
<1>2. CASE Find(r)
  <2>1. UNCHANGED <<row, stored, result>>
    BY <1>2 DEF Find
  <2>2. CASE pc' = [pc EXCEPT ![r] = "inserting"] /\ UNCHANGED <<target, seen>>
    <3>1. Elsewhere(r) /\ pc'[r] \notin Told \cup {"comparing"}
      BY <1>a, <2>1, <2>2 DEF Elsewhere, Told
    <3> QED
      BY <1>a, <2>1, <2>2, <3>1, OneTells
  <2>3. ASSUME NEW d \in LiveRows, pc' = [pc EXCEPT ![r] = "comparing"],
               target' = [target EXCEPT ![r] = d], seen' = [seen EXCEPT ![r] = row[d]]
        PROVE  NothingInvented
    <3>1. /\ Elsewhere(r) /\ pc'[r] \notin Told /\ \A s \in Opens \ {r} : seen'[s] = seen[s]
          /\ target'[r] = d /\ seen'[r] = row[d] /\ Exists(d) /\ d \in RowIds
      BY <1>a, <2>1, <2>3 DEF Elsewhere, Told, LiveRows, Live, Exists
    <3>2. ASSUME NEW v, v = ResultOf(target'[r], seen'[r]) PROVE Now(v)'
      <4>1. v = ResultOf(d, row[d])
        BY <3>1, <3>2
      <4> QED
        BY <2>1, <3>1, <4>1 DEF Now, ResultOf, Exists
    <3> QED
      BY <1>a, <2>1, <3>1, <3>2, OneTells
  <2> QED
    BY <1>2, <2>2, <2>3 DEF Find, Goto
<1>3. CASE Insert(r)
  <2>1. UNCHANGED <<stored, seen>>
    BY <1>3 DEF Insert
  <2>2. CASE pc' = [pc EXCEPT ![r] = "finding again"] /\ UNCHANGED <<row, target, result>>
    <3>1. Elsewhere(r) /\ pc'[r] \notin Told \cup {"comparing"}
      BY <1>a, <2>2 DEF Elsewhere, Told
    <3> QED
      BY <1>a, <2>1, <2>2, <3>1, OneTells
  <2>3. ASSUME NEW d \in RowIds, CreateRow(r, d) PROVE NothingInvented
    <3>1. /\ row'[d].state = "live" /\ target' = [target EXCEPT ![r] = d]
          /\ pc' = [pc EXCEPT ![r] = "answered"]
          /\ result' = [result EXCEPT ![r] = ResultOf(d, row'[d])]
      BY <2>3, CreateEffect
    <3>2. /\ Elsewhere(r) /\ pc'[r] # "comparing"
          /\ result'[r] = ResultOf(d, row'[d])
      BY <1>a, <3>1 DEF Elsewhere
    <3>3. ASSUME NEW v, v = result'[r] PROVE Now(v)'
      BY <3>1, <3>2, <3>3 DEF Now, ResultOf, Exists
    <3> QED
      BY <1>a, <2>1, <3>2, <3>3, OneTells
  <2> QED
    BY <1>3, <2>2, <2>3 DEF Insert, Goto
<1>4. CASE FindAgain(r)
  <2>1. UNCHANGED <<row, stored, seen>>
    BY <1>4 DEF FindAgain
  <2>2. CASE pc' = [pc EXCEPT ![r] = "error"] /\ UNCHANGED <<target, result>>
    <3>1. Elsewhere(r) /\ pc'[r] \notin Told \cup {"comparing"}
      BY <1>a, <2>2 DEF Elsewhere, Told
    <3> QED
      BY <1>a, <2>1, <2>2, <3>1, OneTells
  <2>3. ASSUME NEW d \in LiveRows, pc' = [pc EXCEPT ![r] = "answered"],
               target' = [target EXCEPT ![r] = d],
               result' = [result EXCEPT ![r] = ResultOf(d, row[d])]
        PROVE  NothingInvented
    <3>1. /\ Elsewhere(r) /\ pc'[r] # "comparing"
          /\ result'[r] = ResultOf(d, row[d]) /\ Exists(d)
      BY <1>a, <2>3 DEF Elsewhere, LiveRows, Live, Exists
    <3>2. ASSUME NEW v, v = result'[r] PROVE Now(v)'
      BY <2>1, <3>1, <3>2 DEF Now, ResultOf, Exists
    <3> QED
      BY <1>a, <2>1, <3>1, <3>2, OneTells
  <2> QED
    BY <1>4, <2>2, <2>3 DEF FindAgain, Goto, Respond
<1>5. CASE Compare(r)
  <2>1. /\ UNCHANGED <<stored, target, seen>> /\ pc[r] = "comparing"
        /\ \E point \in {"error", "answered", "checking", "diverged"} : pc' = [pc EXCEPT ![r] = point]
        /\ result' = [result EXCEPT ![r] = ResultOf(target[r], seen[r])]
    BY <1>5 DEF Compare, Goto, Respond
  <2>2. /\ Elsewhere(r) /\ pc'[r] # "comparing"
        /\ result'[r] = ResultOf(target[r], seen[r]) /\ Known(ResultOf(target[r], seen[r]))
    BY <1>a, <2>1 DEF Elsewhere, Known
  <2> QED
    BY <1>a, <2>1, <2>2, OneTells
<1>6. CASE Adopt(r)
  <2>1. /\ UNCHANGED <<stored, target, seen>> /\ pc' = [pc EXCEPT ![r] = "answered"]
    BY <1>6 DEF Adopt, Goto
  <2>2. /\ result' = [result EXCEPT ![r] = ResultOf(target[r], row'[target[r]])]
        /\ target[r] \in RowIds
    BY <1>6, AdoptEffect
  <2>3. Exists(target[r])
    BY <1>6 DEF Typed, OpenPlaced, Adopt
  <2>4. row'[target[r]].state # "absent"
    BY <2>2, <2>3 DEF RowsRemain, Exists
  <2>5. /\ Elsewhere(r) /\ pc'[r] # "comparing"
        /\ result'[r] = ResultOf(target[r], row'[target[r]])
    BY <1>a, <2>1, <2>2 DEF Elsewhere
  <2>6. ASSUME NEW v, v = result'[r] PROVE Now(v)'
    BY <2>2, <2>4, <2>5, <2>6 DEF Now, ResultOf, Exists
  <2> QED
    BY <1>a, <2>1, <2>5, <2>6, OneTells
<1> QED
  BY <1>1, <1>2, <1>3, <1>4, <1>5, <1>6 DEF OpenStep

LEMMA AllTellTruth ==
  ASSUME Typed, [Next]_vars
  PROVE  NothingInvented
<1>a. Typed' /\ RowsRemain
  BY TypedKept, RowsGoOn DEF RowsRemain, Onward
<1>1. ASSUME UNCHANGED <<stored, requestVars>> PROVE NothingInvented
  BY <1>1 DEF NothingInvented, Known, requestVars
<1>2. \A n \in 0..Cardinality(Requests) : n \in Nat
  OBVIOUS
<1> QED
  BY <1>a, <1>1, <1>2, SavesTellTruth, OpensTellTruth DEF Next, vars, Archive, EditOutside, requestVars

LEMMA NamedKept ==
  ASSUME Typed, Named, [Next]_vars
  PROVE  Named'
<1>1. NothingInvented
  BY AllTellTruth
<1>2. ASSUME NEW v \in ResultType, Known(v)' PROVE PastOf(v)'
  <2>1. CASE Now(v)'
    <3>1. v.revision \in Nat
      BY DEF ResultType
    <3> QED
      BY <2>1, <3>1 DEF Now, PastOf
  <2>2. CASE Known(v)
    <3>1. PastOf(v)
      BY <2>2 DEF Named
    <3>2. v.document \in RowIds /\ v.revision \in Nat
      BY <3>1 DEF PastOf, Exists, ResultType
    <3>3. Onward(v.document)
      BY <3>2, RowsGoOn
    <3> QED
      BY <3>1, <3>2, <3>3, RowsGoOn DEF PastOf, Onward, Exists
  <2> QED
    BY <1>1, <1>2, <2>1, <2>2 DEF NothingInvented
<1>3. ASSUME NEW v \in ResultType, NEW w \in ResultType, Known(v)', Known(w)'
      PROVE  Agree(v, w)
  <2>1. PastOf(v)' /\ PastOf(w)'
    BY <1>2, <1>3
  <2>2. CASE Known(v) /\ Known(w)
    BY <2>2 DEF Named
  <2>3. CASE Now(v)' \/ Now(w)'
    BY <2>1, <2>3 DEF Now, PastOf, Agree
  <2> QED
    BY <1>1, <1>3, <2>2, <2>3 DEF NothingInvented
<1> QED
  BY <1>2, <1>3 DEF Named, Agree

(* A revision of a row is told with one content only, by whatever request  *)
(* and from whatever store (saveDocument, adoptFromDisk and file.open).    *)
THEOREM OneContentPerRevision == Spec => []RevisionNamesContent
<1>1. Init => Named
  BY DEF Init, Named, Known, Told, Requests
<1>2. Typed /\ Named => RevisionNamesContent
  <2> SUFFICES ASSUME Typed, Named PROVE RevisionNamesContent
    OBVIOUS
  <2>1. ASSUME NEW r \in Requests, pc[r] \in {"answered", "diverged"}
        PROVE  result[r] \in ResultType /\ Known(result[r])
    BY <2>1 DEF Typed, TypeOK, Known, Told
  <2> QED
    BY <2>1 DEF Named, PastOf, Agree, RevisionNamesContent
<1> QED
  BY <1>1, <1>2, NamedKept, TypedAlways, PTL DEF Spec

-----------------------------------------------------------------------------
(* Retries.                                                                *)

(* A save that is about to change a row has nothing stored under its key,  *)
(* and one past that is answered with what is stored.                      *)
Keyed(r) ==
  /\ pc[r] \in {"reading", "updating", "storing"} => stored[Key[r]] = NoResult
  /\ pc[r] \in {"writing", "marking", "answered"} =>
       result[r] = stored[Key[r]] /\ stored[Key[r]] # NoResult
OneAttempt(r, s) == Key[r] = Key[s] /\ InFlight(r) /\ InFlight(s) => r = s
Once ==
  /\ \A r \in Saves : Keyed(r)
  /\ \A r, s \in Saves : OneAttempt(r, s)

(* A save that stores nothing disturbs only what it knows itself.          *)
LEMMA OnceElsewhere ==
  ASSUME Once, NEW r \in Saves, Elsewhere(r), stored' = stored, Keyed(r)', InFlight(r)
  PROVE  Once'
<1>1. \A s \in Saves : InFlight(s)' => InFlight(s)
  BY DEF Elsewhere, InFlight, Requests
<1>2. \A s \in Saves \ {r} : Keyed(s)'
  BY DEF Elsewhere, Once, Keyed, Requests
<1> QED
  BY <1>1, <1>2 DEF Once, OneAttempt

LEMMA OnceKept ==
  ASSUME Typed, Once, ~TwinOverlap, [Next]_vars
  PROVE  Once'
<1>a. /\ pc \in [Requests -> {"unsent"} \cup SavePoints \cup OpenPoints \cup Ended]
      /\ result \in [Requests -> ResultType] /\ target \in [Requests -> 0..MaxRows]
      /\ stored \in [Keys -> ResultType]
      /\ \A r \in Saves : r \in Requests /\ r \notin Opens /\ Key[r] \in Keys
  BY DocumentAssumption DEF Requests, Typed, TypeOK
<1>1. ASSUME NEW r \in Saves, NEW d \in RowIds, NEW revision \in Nat, SendSave(r, d, revision)
      PROVE  Once'
  <2>1. /\ pc' = [pc EXCEPT ![r] = "lookup"] /\ UNCHANGED <<stored, result>>
        /\ \A s \in Saves \ {r} : Key[s] = Key[r] /\ pc[s] # "unsent" => ~InFlight(s)
    BY <1>1 DEF SendSave, Goto
  <2>2. \A s \in Saves : Keyed(s)'
    BY <1>a, <2>1 DEF Once, Keyed
  <2>3. \A s \in Saves \ {r} :
          (InFlight(s)' <=> InFlight(s)) /\ (Key[s] = Key[r] => ~InFlight(s))
    BY <1>a, <2>1 DEF InFlight
  <2> QED
    BY <2>2, <2>3 DEF Once, OneAttempt
<1>2. ASSUME NEW r \in Saves, LookUp(r) PROVE Once'
  <2>1. /\ UNCHANGED <<stored, target>> /\ pc[r] = "lookup"
        /\ \/ /\ pc' = [pc EXCEPT ![r] = "reading"] /\ UNCHANGED result
              /\ stored[Key[r]] = NoResult
           \/ /\ pc' = [pc EXCEPT ![r] = "writing"] /\ result' = [result EXCEPT ![r] = stored[Key[r]]]
              /\ stored[Key[r]] # NoResult
    BY <1>2 DEF LookUp, Goto, Respond
  <2>2. Elsewhere(r) /\ Keyed(r)' /\ InFlight(r)
    BY <1>a, <2>1 DEF Elsewhere, Keyed, InFlight, Ended
  <2> QED
    BY <2>1, <2>2, OnceElsewhere
<1>3. ASSUME NEW r \in Saves, Read(r) PROVE Once'
  <2>1. /\ UNCHANGED <<stored, target, result>> /\ pc[r] = "reading"
        /\ \E point \in {"error", "conflict", "updating"} : pc' = [pc EXCEPT ![r] = point]
    BY <1>3 DEF Read, Goto
  <2>2. Elsewhere(r) /\ Keyed(r)' /\ InFlight(r)
    BY <1>a, <2>1 DEF Elsewhere, Once, Keyed, InFlight, Ended
  <2> QED
    BY <2>1, <2>2, OnceElsewhere
<1>4. ASSUME NEW r \in Saves, Update(r) PROVE Once'
  <2>1. /\ UNCHANGED <<stored, target>> /\ pc[r] = "updating" /\ pc' = [pc EXCEPT ![r] = "storing"]
        /\ result' = [result EXCEPT ![r] = ResultOf(target[r], row'[target[r]])]
    BY <1>4, UpdateEffect DEF Update, Goto
  <2>2. Elsewhere(r) /\ Keyed(r)' /\ InFlight(r)
    BY <1>a, <2>1 DEF Elsewhere, Once, Keyed, InFlight, Ended
  <2> QED
    BY <2>1, <2>2, OnceElsewhere
<1>5. ASSUME NEW r \in Saves, Store(r) PROVE Once'
  <2>1. stored[Key[r]] = NoResult /\ pc[r] = "storing"
    BY <1>5 DEF Once, Keyed, Store
  <2>2. /\ pc' = [pc EXCEPT ![r] = "writing"] /\ UNCHANGED result
        /\ stored' = [stored EXCEPT ![Key[r]] = result[r]]
    BY <1>5, <2>1 DEF Store, Goto
  <2>3. result[r] # NoResult
    BY <2>1, Rows DEF Typed, SavePlaced, Exists, NoResult
  <2>4. Keyed(r)'
    BY <1>a, <2>2, <2>3 DEF Keyed
  <2>5. ASSUME NEW s \in Saves \ {r} PROVE Keyed(s)' /\ (InFlight(s)' => InFlight(s))
    <3>1. pc'[s] = pc[s] /\ result'[s] = result[s]
      BY <1>a, <2>2
    <3>2. CASE Key[s] = Key[r]
      <4>1. ~InFlight(s)
        BY <2>1, <3>2 DEF Once, OneAttempt, InFlight, Ended
      <4>2. pc[s] \notin {"reading", "updating", "storing", "writing", "marking", "answered"}
        BY <2>1, <3>2, <4>1 DEF Once, Keyed, InFlight, Ended
      <4> QED
        BY <3>1, <4>2 DEF Keyed, InFlight
    <3>3. CASE Key[s] # Key[r]
      <4>1. stored'[Key[s]] = stored[Key[s]]
        BY <1>a, <2>2, <3>3
      <4> QED
        BY <3>1, <4>1 DEF Once, Keyed, InFlight
    <3> QED
      BY <3>2, <3>3
  <2>6. InFlight(r)
    BY <2>1 DEF InFlight, Ended
  <2> QED
    BY <2>4, <2>5, <2>6 DEF Once, OneAttempt
<1>6. ASSUME NEW r \in Saves, Write(r) PROVE Once'
  <2>1. /\ UNCHANGED <<stored, target, result>> /\ pc[r] = "writing"
        /\ \E point \in {"marking", "error"} : pc' = [pc EXCEPT ![r] = point]
    BY <1>6 DEF Write, Goto
  <2>2. Elsewhere(r) /\ Keyed(r)' /\ InFlight(r)
    BY <1>a, <2>1 DEF Elsewhere, Once, Keyed, InFlight, Ended
  <2> QED
    BY <2>1, <2>2, OnceElsewhere
<1>7. ASSUME NEW r \in Saves, Mark(r) PROVE Once'
  <2>1. /\ UNCHANGED <<stored, target, result>> /\ pc[r] = "marking"
        /\ pc' = [pc EXCEPT ![r] = "answered"]
    BY <1>7 DEF Mark, Goto
  <2>2. Elsewhere(r) /\ Keyed(r)' /\ InFlight(r)
    BY <1>a, <2>1 DEF Elsewhere, Once, Keyed, InFlight, Ended
  <2> QED
    BY <2>1, <2>2, OnceElsewhere
<1>8. ASSUME stored' = stored, \A s \in Saves : pc'[s] = pc[s] /\ result'[s] = result[s]
      PROVE  Once'
  BY <1>8 DEF Once, Keyed, OneAttempt, InFlight
<1>9. ASSUME NEW r \in Opens, SendOpen(r) \/ OpenStep(r) PROVE Once'
  <2>1. \A s \in Saves : s # r
    BY DocumentAssumption
  <2>2. stored' = stored
    BY <1>9 DEF SendOpen, OpenStep, ReadFile, Find, Insert, FindAgain, Compare, CheckRow, Adopt
  <2>3. \A s \in Saves : pc'[s] = pc[s]
    <3>1. \E point : pc' = [pc EXCEPT ![r] = point]
      BY <1>9 DEF SendOpen, OpenStep, ReadFile, Find, Insert, CreateRow, FindAgain, Compare,
                  CheckRow, Adopt, Goto
    <3> QED
      BY <1>a, <2>1, <3>1
  <2>4. \A s \in Saves : result'[s] = result[s]
    <3>1. UNCHANGED result \/ \E value : result' = [result EXCEPT ![r] = value]
      BY <1>9 DEF SendOpen, OpenStep, ReadFile, Find, Insert, CreateRow, FindAgain, Compare,
                  CheckRow, Adopt, Respond
    <3> QED
      BY <1>a, <2>1, <3>1
  <2> QED
    BY <1>8, <2>2, <2>3, <2>4
<1>10. CASE UNCHANGED <<stored, requestVars>>
  BY <1>8, <1>10 DEF requestVars
<1>11. \A n \in 0..Cardinality(Requests) : n \in Nat
  OBVIOUS
<1> QED
  BY <1>1, <1>2, <1>3, <1>4, <1>5, <1>6, <1>7, <1>9, <1>10, <1>11
     DEF Next, vars, SaveStep, Archive, EditOutside, requestVars

(* Where a retry waits for the attempt it repeats to end, both are         *)
(* answered alike (withIdempotency, db/app/idempotency.ts).                *)
THEOREM RetriesAgree ==
  ASSUME ~TwinOverlap
  PROVE  Spec => []RetryRunsOnce
<1>1. Init => Once
  BY DEF Init, Once, Keyed, OneAttempt, InFlight, Requests
<1>2. Once => RetryRunsOnce
  BY DEF Once, Keyed, RetryRunsOnce
<1>3. Typed /\ Once /\ [Next]_vars => Once'
  BY OnceKept
<1> QED
  BY <1>1, <1>2, <1>3, TypedAlways, PTL DEF Spec

-----------------------------------------------------------------------------
(* The file, while one request at a time touches it.                       *)

(* What is stored under a key was stored by a save that has looked it up.  *)
StoredBy == \A k \in Keys : stored[k] # NoResult =>
  \E s \in Saves : Key[s] = k /\ pc[s] \notin {"unsent", "lookup"}

Lone == overlapped = {} /\ ~Retried /\ edits = 0

(* What a request in flight knows of its row and of the file.              *)
InSync(r) ==
  /\ r \in Saves =>
       /\ pc[r] = "updating" => Live(target[r])
       /\ pc[r] \in {"storing", "writing", "marking"} =>
            Live(result[r].document) /\ row[result[r].document].content = result[r].content
       /\ pc[r] = "marking" => disk = result[r].content
  /\ r \in Opens /\ pc[r] \in OpenPoints \ {"file"} => onDisk[r] = disk

(* The hash lags only between a write and its mark, the content only from  *)
(* an update to its write, and for good when the write is refused.         *)
Files == \A d \in LiveRows :
  /\ (\A r \in Saves : pc[r] # "marking") => disk = row[d].hash
  /\ (\A r \in Saves : pc[r] \notin {"storing", "writing", "error"}) => disk = row[d].content

Synced == Lone => Files /\ \A r \in Requests : InSync(r)

LEMMA StoredByKept ==
  ASSUME Typed, StoredBy, [Next]_vars
  PROVE  StoredBy'
<1>a. /\ pc \in [Requests -> {"unsent"} \cup SavePoints \cup OpenPoints \cup Ended]
      /\ stored \in [Keys -> ResultType]
      /\ \A r \in Saves : r \in Requests /\ Key[r] \in Keys
  BY DocumentAssumption DEF Requests, Typed, TypeOK
<1>1. ASSUME stored' = stored,
             \A s \in Saves : pc[s] \notin {"unsent", "lookup"} => pc'[s] \notin {"unsent", "lookup"}
      PROVE  StoredBy'
  BY <1>1 DEF StoredBy
<1>2. ASSUME NEW r \in Saves, SaveStep(r) PROVE StoredBy'
  <2>1. \E point \in (SavePoints \ {"lookup"}) \cup Ended : pc' = [pc EXCEPT ![r] = point]
    <3>1. CASE LookUp(r)
      BY <3>1 DEF LookUp, Goto, SavePoints
    <3>2. CASE Read(r)
      BY <3>2 DEF Read, Goto, SavePoints, Ended
    <3>3. CASE Update(r) \/ Store(r) \/ Mark(r)
      BY <3>3 DEF Update, Store, Mark, Goto, SavePoints, Ended
    <3>4. CASE Write(r)
      BY <3>4 DEF Write, Goto, SavePoints, Ended
    <3> QED
      BY <1>2, <3>1, <3>2, <3>3, <3>4 DEF SaveStep
  <2>2. pc'[r] \notin {"unsent", "lookup"} /\ \A s \in Requests \ {r} : pc'[s] = pc[s]
    BY <1>a, <2>1 DEF SavePoints, Ended
  <2>3. \A k \in Keys \ {Key[r]} : stored'[k] = stored[k]
    BY <1>a, <1>2 DEF SaveStep, LookUp, Read, Update, Store, Write, Mark
  <2> QED
    BY <1>a, <2>2, <2>3 DEF StoredBy
<1>3. ASSUME NEW r \in Requests, Sends(r) PROVE StoredBy'
  <2>1. stored' = stored /\ pc[r] = "unsent" /\ \A s \in Requests \ {r} : pc'[s] = pc[s]
    BY <1>3 DEF Sends, SendOpen, SendSave
  <2> QED
    BY <1>1, <1>a, <2>1
<1>4. ASSUME NEW r \in Opens, OpenStep(r), Own(r) PROVE StoredBy'
  <2>1. stored' = stored /\ r \notin Saves /\ \A s \in Requests \ {r} : pc'[s] = pc[s]
    BY <1>4, DocumentAssumption
       DEF Own, OpenStep, ReadFile, Find, Insert, FindAgain, Compare, CheckRow, Adopt
  <2> QED
    BY <1>1, <1>a, <2>1
<1>5. CASE UNCHANGED <<stored, requestVars>>
  BY <1>1, <1>5 DEF requestVars
<1> QED
  BY <1>2, <1>3, <1>4, <1>5, WhoSteps DEF Own, Archive, Nobody, requestVars

LEMMA LoneBefore ==
  ASSUME Typed, Crowds, [Next]_vars, Lone'
  PROVE  Lone
<1>1. \A r \in Requests : pc'[r] = "unsent" => pc[r] = "unsent"
  <2>1. ASSUME NEW r \in Requests, Own(r) \/ Sends(r) PROVE \A s \in Requests : pc'[s] = "unsent" => pc[s] = "unsent"
    BY <2>1 DEF Own, Sends
  <2> QED
    BY <2>1, WhoSteps DEF Archive, Nobody, requestVars
<1>2. ~Retried
  BY <1>1 DEF Lone, Retried, Requests
<1>3. edits = 0
  <2>1. edits \in Nat /\ edits' = 0
    BY DocumentAssumption DEF Typed, TypeOK, Lone
  <2>2. ASSUME NEW r \in Saves, SaveStep(r) PROVE edits' = edits
    BY <2>2 DEF SaveStep, LookUp, Read, Update, Store, Write, Mark
  <2>3. ASSUME NEW r \in Opens, OpenStep(r) PROVE edits' = edits
    BY <2>3 DEF OpenStep, ReadFile, Find, Insert, FindAgain, Compare, CheckRow, Adopt
  <2>4. edits' = edits \/ edits' = edits + 1
    BY <2>2, <2>3 DEF Next, vars, SendSave, SendOpen, Archive, EditOutside
  <2> QED
    BY <2>1, <2>4
<1>4. overlapped = {}
  <2>1. ASSUME NEW begun, Begin(begun) PROVE overlapped = {}
    <3>1. overlapped' = (IF Quiet THEN {} ELSE Running \cup begun)
                         \cup (IF overlapped = {} THEN {} ELSE {s \in Requests : pc[s] \in Ended})
      BY <2>1 DEF Begin
    <3>2. Quiet /\ (overlapped # {} => \A s \in Requests : pc[s] \notin Ended)
      BY <3>1 DEF Lone, Quiet
    <3> QED
      BY <3>2 DEF Crowds, Quiet, Running, InFlight, Typed, TypeOK
  <2> QED
    BY <2>1, WhoSteps DEF Own, Sends, Archive, Nobody, Lone
<1> QED
  BY <1>2, <1>3, <1>4 DEF Lone

LEMMA OnlyOne ==
  ASSUME Typed, Crowds, overlapped = {}, NEW r \in Requests, InFlight(r)
  PROVE  \A s \in Requests \ {r} : pc[s] \in {"unsent"} \cup Ended
BY DEF Crowds, InFlight

(* Who is not in flight knows nothing that could be out of sync.           *)
LEMMA IdleInSync ==
  ASSUME NEW s \in Requests, pc[s] \in {"unsent"} \cup Ended
  PROVE  InSync(s)
BY DEF InSync, Ended, OpenPoints

LEMMA IdleElsewhere ==
  ASSUME NEW r \in Requests, InSync(r)', Files',
         \A s \in Requests \ {r} : pc[s] \in {"unsent"} \cup Ended /\ pc'[s] = pc[s]
  PROVE  Synced'
<1>1. \A s \in Requests \ {r} : InSync(s)'
  BY DEF InSync, Ended, OpenPoints
<1> QED
  BY <1>1 DEF Synced

LEMMA SaveStepSynced ==
  ASSUME Typed, Typed', Sole, Sole', StoredBy, Synced, Lone, Lone',
         NEW r \in Saves, SaveStep(r),
         \A s \in Requests \ {r} : pc[s] \in {"unsent"} \cup Ended
  PROVE  Synced'
<1>a. /\ pc \in [Requests -> {"unsent"} \cup SavePoints \cup OpenPoints \cup Ended]
      /\ result \in [Requests -> ResultType] /\ target \in [Requests -> 0..MaxRows]
      /\ row \in [RowIds -> RowType]
      /\ r \in Requests /\ r \notin Opens /\ Key[r] \in Keys
  BY DocumentAssumption DEF Requests, Typed, TypeOK
<1>b. Files /\ InSync(r)
  BY <1>a DEF Synced
<1>c. \A s \in Saves \ {r} : s \in Requests \ {r} /\ pc[s] \in {"unsent"} \cup Ended
  BY DEF Requests
<1>1. CASE LookUp(r)
  <2>1. stored[Key[r]] = NoResult
    BY <1>1, <1>a, <1>c DEF LookUp, StoredBy, Lone, Retried
  <2>2. UNCHANGED <<row, disk, result, target>> /\ pc[r] = "lookup" /\ pc' = [pc EXCEPT ![r] = "reading"]
    BY <1>1, <2>1 DEF LookUp, Goto
  <2>3. InSync(r)'
    BY <1>a, <2>2 DEF InSync
  <2>4. Files'
    BY <1>a, <1>b, <2>2 DEF Files, LiveRows, Live
  <2> QED
    BY <1>a, <2>2, <2>3, <2>4, IdleElsewhere
<1>2. CASE Read(r)
  <2>1. /\ UNCHANGED <<row, disk, result, target>> /\ pc[r] = "reading"
        /\ \E point \in {"error", "conflict", "updating"} : pc' = [pc EXCEPT ![r] = point]
    BY <1>2 DEF Read, Goto
  <2>2. pc'[r] = "updating" => Live(target[r])
    <3>1. RowMissing(r) => pc' = [pc EXCEPT ![r] = "error"]
      BY <1>2 DEF Read, Goto
    <3> QED
      BY <1>a, <3>1 DEF RowMissing
  <2>3. InSync(r)'
    BY <1>a, <2>1, <2>2 DEF InSync, Live
  <2>4. Files'
    BY <1>a, <1>b, <2>1 DEF Files, LiveRows, Live
  <2> QED
    BY <1>a, <2>1, <2>3, <2>4, IdleElsewhere
<1>3. CASE Update(r)
  <2> DEFINE d == target[r]
  <2>1. /\ d \in RowIds /\ OthersStay(d) /\ row'[d].state = row[d].state
        /\ row'[d].content = Key[r] /\ row'[d].hash = row[d].hash
        /\ result' = [result EXCEPT ![r] = ResultOf(d, row'[d])]
        /\ UNCHANGED <<disk, target>> /\ pc[r] = "updating" /\ pc' = [pc EXCEPT ![r] = "storing"]
    BY <1>3, UpdateEffect DEF Update, Goto
  <2>2. /\ result'[r].document = d /\ result'[r].content = row'[d].content /\ pc'[r] = "storing"
    BY <1>a, <2>1 DEF ResultOf
  <2>3. row[d].state = "live"
    BY <1>b, <2>1 DEF InSync, Live
  <2>4. InSync(r)'
    BY <1>a, <2>1, <2>2, <2>3 DEF InSync, Live
  <2>5. \A s \in Saves : pc[s] # "marking"
    BY <1>a, <1>c, <2>1 DEF Ended
  <2>6. Files'
    <3>1. \A c \in RowIds : disk = row[c].hash \/ row[c].state # "live"
      BY <1>b, <2>5 DEF Files, LiveRows, Live
    <3>2. \A c \in RowIds : row'[c].state = row[c].state /\ row'[c].hash = row[c].hash
      BY <2>1 DEF OthersStay
    <3> QED
      BY <2>1, <2>2, <3>1, <3>2 DEF Files, LiveRows, Live
  <2> QED
    BY <1>a, <2>1, <2>4, <2>6, IdleElsewhere
<1>4. CASE Store(r)
  <2>1. /\ UNCHANGED <<row, disk, result, target>> /\ pc[r] = "storing"
        /\ pc' = [pc EXCEPT ![r] = "writing"]
    BY <1>4 DEF Store, Goto
  <2>2. InSync(r)'
    BY <1>a, <1>b, <2>1 DEF InSync, Live
  <2>3. Files'
    BY <1>a, <1>b, <2>1 DEF Files, LiveRows, Live
  <2> QED
    BY <1>a, <2>1, <2>2, <2>3, IdleElsewhere
<1>5. CASE Write(r)
  <2>1. /\ UNCHANGED <<row, result, target>> /\ pc[r] = "writing"
        /\ \/ disk' = result[r].content /\ pc' = [pc EXCEPT ![r] = "marking"]
           \/ disk' = disk /\ pc' = [pc EXCEPT ![r] = "error"]
    BY <1>5 DEF Write, Goto
  <2>2. CASE disk' = result[r].content /\ pc' = [pc EXCEPT ![r] = "marking"]
    <3>1. InSync(r)'
      BY <1>a, <1>b, <2>1, <2>2 DEF InSync, Live
    <3>2. Live(result[r].document) /\ row[result[r].document].content = disk'
      BY <1>a, <1>b, <2>1, <2>2 DEF InSync
    <3>3. result[r].document \in RowIds
      BY <2>1 DEF Typed, SavePlaced, Exists
    <3>4. \A d \in LiveRows : row[d].content = disk'
      BY <3>2, <3>3 DEF Sole, LiveRows
    <3>5. Files'
      BY <1>a, <2>1, <2>2, <3>4 DEF Files, LiveRows, Live
    <3> QED
      BY <1>a, <2>2, <3>1, <3>5, IdleElsewhere
  <2>3. CASE disk' = disk /\ pc' = [pc EXCEPT ![r] = "error"]
    <3>1. InSync(r)'
      BY <1>a, <2>3 DEF InSync
    <3>2. Files'
      BY <1>a, <1>b, <2>1, <2>3 DEF Files, LiveRows, Live
    <3> QED
      BY <1>a, <2>3, <3>1, <3>2, IdleElsewhere
  <2> QED
    BY <2>1, <2>2, <2>3
<1>6. CASE Mark(r)
  <2> DEFINE d == result[r].document
  <2>1. /\ d \in RowIds /\ OthersStay(d) /\ row'[d].state = row[d].state
        /\ row'[d].content = row[d].content /\ row'[d].hash = result[r].content
        /\ UNCHANGED <<disk, target, result>> /\ pc[r] = "marking" /\ pc' = [pc EXCEPT ![r] = "answered"]
    BY <1>6, MarkEffect DEF Mark, Goto
  <2>2. Live(d) /\ row[d].content = result[r].content /\ disk = result[r].content
    BY <1>a, <1>b, <2>1 DEF InSync
  <2>3. InSync(r)'
    BY <1>a, <2>1 DEF InSync
  <2>4. ASSUME NEW c \in RowIds, row'[c].state = "live" PROVE c = d
    <3>1. row'[d].state = "live"
      BY <2>1, <2>2 DEF Live
    <3> QED
      BY <2>1, <2>4, <3>1 DEF Sole, Live
  <2>5. Files'
    BY <2>1, <2>2, <2>4 DEF Files, LiveRows, Live
  <2> QED
    BY <1>a, <2>1, <2>3, <2>5, IdleElsewhere
<1> QED
  BY <1>1, <1>2, <1>3, <1>4, <1>5, <1>6 DEF SaveStep

LEMMA OpenStepSynced ==
  ASSUME Typed, Typed', Synced, Lone, Lone',
         NEW r \in Opens, OpenStep(r),
         \A s \in Requests \ {r} : pc[s] \in {"unsent"} \cup Ended
  PROVE  Synced'
<1>a. /\ pc \in [Requests -> {"unsent"} \cup SavePoints \cup OpenPoints \cup Ended]
      /\ onDisk \in [Opens -> Contents] /\ row \in [RowIds -> RowType]
      /\ r \in Requests /\ r \notin Saves
  BY DocumentAssumption DEF Requests, Typed, TypeOK
<1>b. Files /\ InSync(r) /\ disk' = disk
  BY <1>a DEF Synced, OpenStep, ReadFile, Find, Insert, FindAgain, Compare, CheckRow, Adopt
<1>c. \A s \in Saves : s \in Requests \ {r} /\ pc[s] \in {"unsent"} \cup Ended
  BY <1>a DEF Requests
<1>1. ASSUME row' = row, InSync(r)', \A s \in Requests \ {r} : pc'[s] = pc[s]
      PROVE  Synced'
  <2>1. Files'
    BY <1>b, <1>c, <1>1 DEF Files, LiveRows, Live
  <2> QED
    BY <1>1, <1>a, <2>1, IdleElsewhere
<1>2. CASE ReadFile(r)
  <2>1. row' = row /\ onDisk'[r] = disk /\ pc' = [pc EXCEPT ![r] = "finding"]
    BY <1>a, <1>2 DEF ReadFile, Goto
  <2>2. InSync(r)'
    BY <1>a, <1>b, <2>1 DEF InSync
  <2> QED
    BY <1>a, <1>1, <2>1, <2>2
<1>3. ASSUME row' = row, onDisk' = onDisk, pc[r] \in OpenPoints \ {"file"},
             \E point \in OpenPoints \cup Ended : pc' = [pc EXCEPT ![r] = point]
      PROVE  Synced'
  <2>1. InSync(r)'
    BY <1>a, <1>b, <1>3 DEF InSync
  <2> QED
    BY <1>a, <1>1, <1>3, <2>1
<1>4. CASE Find(r) \/ FindAgain(r) \/ CheckRow(r)
  BY <1>3, <1>4 DEF Find, FindAgain, CheckRow, Goto, OpenPoints, Ended
<1>5. CASE Compare(r)
  <2>1. \E point \in OpenPoints \cup Ended : pc' = [pc EXCEPT ![r] = point]
    BY <1>5 DEF Compare, Goto, OpenPoints, Ended
  <2> QED
    BY <1>3, <1>5, <2>1 DEF Compare, OpenPoints
<1>6. CASE Insert(r)
  <2>1. pc[r] = "inserting" /\ onDisk' = onDisk
    BY <1>6 DEF Insert
  <2>2. CASE row' = row /\ pc' = [pc EXCEPT ![r] = "finding again"]
    BY <1>3, <2>1, <2>2 DEF OpenPoints
  <2>3. ASSUME NEW d \in RowIds, LiveRows = {}, CreateRow(r, d) PROVE Synced'
    <3>1. /\ OthersStay(d) /\ row'[d].content = onDisk[r] /\ row'[d].hash = onDisk[r]
          /\ pc' = [pc EXCEPT ![r] = "answered"]
      BY <2>3, CreateEffect
    <3>2. onDisk[r] = disk
      BY <1>b, <2>1 DEF InSync, OpenPoints
    <3>3. \A c \in RowIds : row'[c].state = "live" => c = d
      BY <2>3, <3>1 DEF OthersStay, LiveRows, Live
    <3>4. Files'
      BY <1>b, <3>1, <3>2, <3>3 DEF Files, LiveRows, Live
    <3>5. InSync(r)'
      BY <1>a, <3>1 DEF InSync, OpenPoints
    <3> QED
      BY <1>a, <3>1, <3>4, <3>5, IdleElsewhere
  <2> QED
    BY <1>6, <2>2, <2>3 DEF Insert, Goto
<1>7. CASE Adopt(r)
  <2> DEFINE d == target[r]
  <2>1. /\ d \in RowIds /\ OthersStay(d) /\ row'[d].state = row[d].state
        /\ row'[d].content = onDisk[r] /\ row'[d].hash = onDisk[r]
        /\ pc[r] = "adopting" /\ pc' = [pc EXCEPT ![r] = "answered"]
    BY <1>7, AdoptEffect DEF Adopt, Goto
  <2>2. onDisk[r] = disk
    BY <1>b, <2>1 DEF InSync, OpenPoints
  <2>3. \A s \in Saves : pc'[s] = pc[s]
    BY <1>a, <1>c, <2>1
  <2>4. \A c \in RowIds \ {d} : row'[c] = row[c]
    BY <2>1 DEF OthersStay
  <2>5. Files'
    <3> SUFFICES ASSUME NEW c \in RowIds, row'[c].state = "live"
                 PROVE  /\ (\A s \in Saves : pc'[s] # "marking") => disk' = row'[c].hash
                        /\ (\A s \in Saves : pc'[s] \notin {"storing", "writing", "error"})
                             => disk' = row'[c].content
      BY DEF Files, LiveRows, Live
    <3>1. CASE c = d
      BY <1>b, <2>1, <2>2, <3>1
    <3>2. CASE c # d
      BY <1>b, <2>3, <2>4, <3>2 DEF Files, LiveRows, Live
    <3> QED
      BY <3>1, <3>2
  <2>6. InSync(r)'
    BY <1>a, <2>1 DEF InSync, OpenPoints
  <2> QED
    BY <1>a, <2>1, <2>5, <2>6, IdleElsewhere
<1> QED
  BY <1>2, <1>4, <1>5, <1>6, <1>7 DEF OpenStep

LEMMA SyncedKept ==
  ASSUME Typed, Sole, Crowds, StoredBy, Synced, [Next]_vars
  PROVE  Synced'
<1> SUFFICES ASSUME Lone' PROVE Synced'
  BY DEF Synced
<1>a. Lone /\ Typed' /\ Sole' /\ Files /\ \A r \in Requests : InSync(r)
  BY LoneBefore, TypedKept, SoleKept DEF Synced
<1>1. ASSUME NEW r \in Requests, Own(r) PROVE Synced'
  <2>1. \A s \in Requests \ {r} : pc[s] \in {"unsent"} \cup Ended
    BY <1>1, <1>a, OnlyOne DEF Own, Lone
  <2> QED
    BY <1>1, <1>a, <2>1, SaveStepSynced, OpenStepSynced DEF Own
<1>2. ASSUME NEW begun, Begin(begun) PROVE \A s \in Requests : pc[s] \in {"unsent"} \cup Ended
  BY <1>2, <1>a DEF Begin, Lone, Quiet, Running, InFlight
<1>3. ASSUME NEW r \in Requests, Sends(r) PROVE Synced'
  <2>1. UNCHANGED <<row, disk>>
    BY <1>3 DEF Sends, SendSave, SendOpen
  <2>2. /\ pc'[r] \in {"lookup", "file"} /\ pc[r] = "unsent"
        /\ \A s \in Requests \ {r} : pc[s] \in {"unsent"} \cup Ended /\ pc'[s] = pc[s]
    BY <1>2, <1>3 DEF Sends
  <2>3. InSync(r)'
    BY <2>2 DEF InSync, OpenPoints
  <2>4. Files'
    BY <1>a, <2>1, <2>2 DEF Files, LiveRows, Live, Requests
  <2> QED
    BY <2>2, <2>3, <2>4, IdleElsewhere
<1>4. ASSUME NEW d \in RowIds, Archive(d) PROVE Synced'
  <2>1. UNCHANGED <<disk, pc>> /\ \A s \in Requests : pc[s] \in {"unsent"} \cup Ended
    BY <1>2, <1>4 DEF Archive, requestVars
  <2>2. \A s \in Requests : InSync(s)'
    BY <2>1 DEF InSync, Ended, OpenPoints
  <2>3. OthersStay(d) /\ row'[d].state = "archived"
    BY <1>4, ArchiveEffect
  <2>4. Files'
    BY <1>a, <2>1, <2>3 DEF Files, LiveRows, Live, OthersStay
  <2> QED
    BY <2>2, <2>4 DEF Synced
<1>5. CASE Nobody
  <2>1. disk' = disk
    <3>1. ASSUME NEW content \in Edits, EditOutside(content) PROVE FALSE
      BY <3>1, <1>a DEF EditOutside, Lone
    <3>2. ASSUME NEW r \in Saves, SaveStep(r) PROVE disk' = disk
      BY <3>2, <1>5, <1>a DEF Nobody, requestVars, SaveStep, LookUp, Read, Update, Store, Write, Mark,
                               Goto, Typed, TypeOK, Requests
    <3> QED
      BY <3>1, <3>2 DEF Next, vars, SendSave, SendOpen, Archive, OpenStep, ReadFile, Find, Insert,
                        FindAgain, Compare, CheckRow, Adopt
  <2> QED
    BY <1>5, <1>a, <2>1 DEF Nobody, requestVars, Synced, Files, LiveRows, Live, InSync
<1> QED
  BY <1>1, <1>3, <1>4, <1>5, WhoSteps

(* While nothing overlaps and nobody else writes the file, a save that is  *)
(* answered has its content in the file, and disk_content_hash never says  *)
(* what the file does not hold (document.save, ws/dispatch.ts:571-622).  *)
THEOREM FileFollows == Spec => []SavedMeansOnDisk
<1>1. Init => StoredBy /\ Synced
  <2> SUFFICES ASSUME Init PROVE StoredBy /\ Synced
    OBVIOUS
  <2>1. \A d \in LiveRows : row[d].hash = Original /\ row[d].content = Original
    BY DEF Init, LiveRows, Live, NoRow
  <2> QED
    BY <2>1 DEF Init, StoredBy, Synced, Files, InSync, Requests, OpenPoints
<1>2. Typed /\ Synced => SavedMeansOnDisk
  <2> SUFFICES ASSUME Typed, Synced, Quiet, Lone PROVE SavedMeansOnDisk
    BY DEF SavedMeansOnDisk, Lone
  <2>1. \A r \in Saves : pc[r] \notin {"storing", "writing", "marking"}
    BY DEF Quiet, Running, InFlight, Requests, Ended
  <2> QED
    BY <2>1 DEF SavedMeansOnDisk, Synced, Files
<1> QED
  BY <1>1, <1>2, StoredByKept, SyncedKept, SoleAlways, CrowdsAlways, TypedAlways, PTL DEF Spec
=============================================================================
