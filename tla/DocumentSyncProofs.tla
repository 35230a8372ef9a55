------------------------- MODULE DocumentSyncProofs -------------------------
(***************************************************************************)
(* What holds of a document in a tab for any amount of typing, any number  *)
(* of calls at once, saves by others, lost connections and restarts.       *)
(***************************************************************************)
EXTENDS DocumentSync, SequenceTheorems, TLAPS

-----------------------------------------------------------------------------
(* Types.                                                                  *)

(* A call has the document it is about, and a reply a document to store.   *)
Placed(c) ==
  /\ c.op \in {"save", "force", "publish", "create", "archive", "reload"} => c.local \in DocType
  /\ c.pc = "storing" => c.op \in {"save", "reload"}
  /\ c.op = "save" /\ c.pc = "storing" => c.reply.value \in Snapshot
  /\ c.op = "fetch" /\ c.pc = "answered" => c.reply.kind \in {"document", "missing"}
  /\ /\ c.op \in {"save", "force", "publish", "fetch"}
     /\ c.pc = "answered"
     /\ c.reply.kind \in {"document", "conflict"}
     => c.reply.value \in Snapshot

LocalOK ==
  /\ doc \in DocType \cup {None}
  /\ row \in RowType \cup {None}
  /\ draft \in DraftType \cup {None}
  /\ pending \in DraftType \cup {None}
CallsOK == calls \in [CallIds -> CallType] /\ \A k \in CallIds : Placed(calls[k])
ServerOK == server \in ServerType /\ (server.live => Exists)
RestOK ==
  /\ known \in BOOLEAN
  /\ conflict \in Snapshot \cup {None}
  /\ online \in BOOLEAN
  /\ events \subseteq Events
  /\ clock \in Nat
  /\ typed \in Contents \cup {None}
  /\ excused \subseteq Promises
  /\ count \in [Bounded -> Nat]

Typed == LocalOK /\ CallsOK /\ ServerOK /\ RestOK

LEMMA TypedIsTypeOK == Typed => TypeOK
  BY DEF Typed, LocalOK, CallsOK, ServerOK, RestOK, TypeOK

LEMMA ZeroIsContent == 0 \in Contents
  BY SyncAssumption DEF Contents

(* The records the methods make.                                           *)
LEMMA DocFields ==
  ASSUME NEW d \in DocType
  PROVE  /\ d.cur \in Contents /\ d.saved \in Contents /\ d.rev \in Nat /\ d.dirty \in BOOLEAN
         /\ d.shared \in BOOLEAN /\ d.at \in Nat /\ d.held \in BOOLEAN
  BY DEF DocType

LEMMA RowTypes ==
  ASSUME NEW d \in DocType, NEW at \in Nat
  PROVE  /\ RowOf(d, at) \in RowType
         /\ [RowOf(d, at) EXCEPT !.shared = TRUE] \in RowType
         /\ [RowOf(d, at) EXCEPT !.shared = FALSE] \in RowType
         /\ [RowOf(d, at) EXCEPT !.touched = TRUE] \in RowType
         /\ \A rev \in Nat, held \in BOOLEAN :
              [RowOf(d, at) EXCEPT !.content = d.cur, !.rev = rev, !.held = held] \in RowType
         /\ CheckpointOf(d) \in DraftType
  BY DocFields DEF RowOf, RowType, CheckpointOf, DraftType

LEMMA AdoptTypes ==
  ASSUME NEW s \in Snapshot
  PROVE  /\ Fetched(s) \in DocType
         /\ \A d \in DocType : Adopted(d, s) \in DocType
  BY DEF Snapshot, Fetched, Adopted, DocType

LEMMA CallTypes ==
  ASSUME NEW op \in Ops, NEW pc \in {"sent", "answered", "storing"},
         NEW d \in DocType \cup {None}, NEW base \in Nat
  PROVE  /\ Call(op, pc, d, base) \in CallType
         /\ Call(op, pc, d, base).op = op
         /\ Call(op, pc, d, base).pc = pc
         /\ Call(op, pc, d, base).local = d
         /\ Call(op, pc, d, base).base = base
         /\ Call(op, pc, d, base).reply = NoReply
  BY DEF Call, CallType, ReplyType, NoReply

LEMMA SentTypes ==
  ASSUME NEW op \in Ops, NEW d \in DocType \cup {None}, NEW base \in Nat,
         op \in {"sync", "fetch"} \/ d \in DocType
  PROVE  Call(op, "sent", d, base) \in CallType /\ Placed(Call(op, "sent", d, base))
  BY CallTypes DEF Placed

LEMMA IdleTypes == Idle \in CallType /\ Placed(Idle)
  BY DEF Idle, CallType, ReplyType, NoReply, Ops, Placed

LEMMA BecomeTypes ==
  ASSUME CallsOK, NEW k \in CallIds, NEW call \in CallType, Placed(call), Become(k, call)
  PROVE  CallsOK'
  BY DEF CallsOK, Become, Placed

LEMMA EndTypes ==
  ASSUME CallsOK, NEW k \in CallIds, End(k)
  PROVE  CallsOK'
  BY IdleTypes, BecomeTypes DEF End

LEMMA SlotIsFree == MayCall => Slot \in CallIds /\ calls[Slot].op = "idle"
  BY DEF MayCall, Slot, Free

LEMMA BeginTypes ==
  ASSUME CallsOK, NEW call \in CallType, Placed(call), Begin(call)
  PROVE  CallsOK'
  BY SlotIsFree, BecomeTypes DEF Begin, Become

LEMMA StoreSaveTypes ==
  ASSUME Typed, NEW k \in CallIds, NEW d \in DocType, NEW rev \in Nat, NEW held \in BOOLEAN,
         StoreSave(k, d, rev, held)
  PROVE  clock' \in Nat /\ row' \in RowType /\ typed' \in Contents \cup {None} /\ CallsOK'
<1> DEFINE stored == [rev |-> rev, content |-> d.cur, at |-> Now]
           reply == [kind |-> IF held THEN "document" ELSE "none", value |-> stored]
           call == [Call("save", "storing", d, 0) EXCEPT !.reply = reply]
<1>1. Now \in Nat /\ clock' \in Nat /\ typed' \in Contents \cup {None}
  BY DEF StoreSave, Tick, Now, Typed, RestOK
<1>2. row' \in RowType
  BY <1>1, RowTypes DEF StoreSave
<1>3. stored \in Snapshot
  BY <1>1, DocFields DEF Snapshot
<1>4. reply \in ReplyType /\ reply.value = stored
  BY <1>3 DEF ReplyType
<1>5. call \in CallType /\ call.op = "save" /\ call.pc = "storing" /\ call.local = d
      /\ call.reply = reply
  BY <1>4, CallTypes DEF CallType, Ops
<1>6. Placed(call)
  BY <1>3, <1>4, <1>5 DEF Placed
<1>7. Become(k, call)
  BY DEF StoreSave
<1> QED
  BY <1>1, <1>2, <1>5, <1>6, <1>7, BecomeTypes DEF Typed

LEMMA SaveInternalTypes ==
  ASSUME Typed, NEW k \in CallIds, NEW d \in DocType, NEW base \in Nat, NEW force \in BOOLEAN,
         SaveInternal(k, d, base, force)
  PROVE  /\ pending' = None
         /\ excused' \subseteq Promises
         /\ row' \in RowType \cup {None}
         /\ clock' \in Nat
         /\ typed' \in Contents \cup {None}
         /\ CallsOK'
<1>1. pending' = None /\ excused' \subseteq Promises
  BY DEF SaveInternal, Cancelled, Promises, Typed, RestOK
<1>2. CASE online
  <2> DEFINE op == IF known \/ base > 0 THEN IF force THEN "force" ELSE "save" ELSE "publish"
  <2>1. op \in Ops
    BY DEF Ops
  <2>2. Become(k, Call(op, "sent", d, base)) /\ UNCHANGED <<row, clock, typed>>
    BY <1>2 DEF SaveInternal
  <2> HIDE DEF op
  <2>3. CallsOK'
    BY <2>1, <2>2, SentTypes, BecomeTypes DEF Typed
  <2> QED
    BY <1>1, <2>2, <2>3 DEF Typed, LocalOK, RestOK
<1>3. CASE ~online
  <2>1. StoreSave(k, d, base + 1, FALSE)
    BY <1>3 DEF SaveInternal
  <2>2. base + 1 \in Nat
    OBVIOUS
  <2>3. clock' \in Nat /\ row' \in RowType /\ typed' \in Contents \cup {None} /\ CallsOK'
    BY <2>1, <2>2, StoreSaveTypes
  <2> QED
    BY <1>1, <2>3
<1>4. online \in BOOLEAN
  BY DEF Typed, RestOK
<1> QED
  BY <1>2, <1>3, <1>4

-----------------------------------------------------------------------------
(* What the user does.                                                     *)

LEMMA CountTypes ==
  ASSUME Typed, NEW b \in Bounded, NEW max \in Nat, Count(b, max)
  PROVE  count' \in [Bounded -> Nat] /\ count[b] < max /\ count'[b] = count[b] + 1
  BY DEF Typed, RestOK, Count, Bounded

LEMMA CreateTypes ==
  ASSUME Typed, NEW shared \in BOOLEAN, CreateDocument(shared)
  PROVE  Typed'
<1> DEFINE d == [cur |-> 0, saved |-> 0, rev |-> 0, dirty |-> FALSE, shared |-> shared,
                 at |-> Now, held |-> FALSE]
<1>1. Now \in Nat
  BY DEF Now, Typed, RestOK
<1>2. d \in DocType
  BY <1>1, ZeroIsContent DEF DocType
<1>3. doc' = d /\ row' = RowOf(d, Now) /\ clock' = Now
      /\ UNCHANGED <<draft, pending, known, conflict, online, events, server, typed, excused,
                     count>>
      /\ (Begin(Call("create", "sent", d, 0)) \/ UNCHANGED calls)
  BY DEF CreateDocument, Tick
<1> HIDE DEF d
<1>4. LocalOK'
  BY <1>1, <1>2, <1>3, RowTypes DEF LocalOK, Typed
<1>5. CallsOK'
  <2>1. "create" \in Ops /\ 0 \in Nat
    BY DEF Ops
  <2>2. Call("create", "sent", d, 0) \in CallType /\ Placed(Call("create", "sent", d, 0))
    BY <1>2, <2>1, SentTypes
  <2>3. CASE UNCHANGED calls
    BY <2>3 DEF Typed, CallsOK
  <2> QED
    BY <1>3, <2>2, <2>3, BeginTypes DEF Typed
<1> QED
  BY <1>1, <1>3, <1>4, <1>5 DEF Typed, ServerOK, RestOK, Exists

LEMMA UpdateTypes ==
  ASSUME Typed, NEW content \in Contents, UpdateContent(content)
  PROVE  Typed'
<1>1. doc \in DocType /\ Now \in Nat
  BY DEF UpdateContent, Typed, LocalOK, RestOK, Now
<1>2. doc' = [doc EXCEPT !.cur = content, !.dirty = content # doc.saved, !.at = Now]
  BY DEF UpdateContent
<1>3. doc' \in DocType
  BY <1>1, <1>2 DEF DocType
<1>4. CheckpointOf(doc') \in DraftType
  BY <1>3, RowTypes, <1>1
<1>5. LocalOK'
  BY <1>3, <1>4 DEF UpdateContent, Typed, LocalOK
<1>6. RestOK'
  <2>1. count' \in [Bounded -> Nat]
    BY CountTypes, SyncAssumption DEF UpdateContent, Bounded
  <2> QED
    BY <1>1, <2>1 DEF UpdateContent, Tick, Typed, RestOK
<1> QED
  BY <1>5, <1>6 DEF UpdateContent, Typed, CallsOK, ServerOK, Exists

LEMMA CheckpointTypes ==
  ASSUME Typed, Checkpoint \/ ReleaseModel
  PROVE  Typed'
<1>1. CASE Checkpoint
  BY <1>1 DEF Checkpoint, Typed, LocalOK, CallsOK, ServerOK, RestOK, Exists
<1>2. CASE ReleaseModel
  <2>1. doc \in DocType
    BY <1>2 DEF ReleaseModel, Typed, LocalOK
  <2>2. CheckpointOf(doc) \in DraftType
    BY <2>1, RowTypes, 0 \in Nat
  <2>3. count' \in [Bounded -> Nat]
    BY <1>2, CountTypes, SyncAssumption DEF ReleaseModel, Bounded
  <2> QED
    BY <1>2, <2>2, <2>3
       DEF ReleaseModel, Typed, LocalOK, CallsOK, ServerOK, RestOK, Exists
<1> QED
  BY <1>1, <1>2

LEMMA SaveTypes ==
  ASSUME Typed, SaveDocument \/ ResolveKeep
  PROVE  Typed'
<1>1. CASE SaveDocument
  <2>1. doc \in DocType /\ doc.rev \in Nat /\ Slot \in CallIds
    BY <1>1, SlotIsFree, DocFields DEF SaveDocument, Typed, LocalOK
  <2>2. SaveInternal(Slot, doc, doc.rev, FALSE)
    BY <1>1 DEF SaveDocument
  <2>3. count' \in [Bounded -> Nat]
    BY <1>1, CountTypes, SyncAssumption DEF SaveDocument, Bounded
  <2> QED
    BY <1>1, <2>1, <2>2, <2>3, SaveInternalTypes
       DEF SaveDocument, Typed, LocalOK, ServerOK, RestOK, Exists
<1>2. CASE ResolveKeep
  <2>1. doc \in DocType /\ conflict.rev \in Nat /\ Slot \in CallIds
    BY <1>2, SlotIsFree DEF ResolveKeep, Typed, LocalOK, RestOK, Snapshot
  <2>2. SaveInternal(Slot, doc, conflict.rev, TRUE)
    BY <1>2 DEF ResolveKeep
  <2> QED
    BY <1>2, <2>1, <2>2, SaveInternalTypes
       DEF ResolveKeep, Typed, LocalOK, ServerOK, RestOK, Exists
<1> QED
  BY <1>1, <1>2

LEMMA RenameTypes ==
  ASSUME Typed, RenameDocument
  PROVE  Typed'
<1> DEFINE renamed == [doc EXCEPT !.at = Now]
           op == IF known \/ doc.rev > 0 THEN "save" ELSE "publish"
<1>1. doc \in DocType /\ Now \in Nat
  BY DEF RenameDocument, Typed, LocalOK, RestOK, Now
<1>2. renamed \in DocType
  BY <1>1 DEF DocType
<1>3. /\ doc' = renamed
      /\ clock' = Now
      /\ row' = IF row = None THEN None ELSE [row EXCEPT !.at = Now, !.touched = TRUE]
      /\ pending' \in {pending, None}
      /\ excused' \in {excused, Cancelled}
      /\ UNCHANGED <<draft, known, conflict, online, events, server, typed>>
  BY DEF RenameDocument, Tick
<1>4. UNCHANGED calls \/ (MayCall /\ Become(Slot, Call(op, "sent", renamed, doc.rev)))
  BY DEF RenameDocument
<1>5. op \in Ops /\ doc.rev \in Nat
  BY <1>1, DocFields DEF Ops
<1>6. row' \in RowType \cup {None}
  BY <1>1, <1>3 DEF Typed, LocalOK, RowType
<1> HIDE DEF renamed, op
<1>7. CallsOK'
  <2>1. CASE UNCHANGED calls
    BY <2>1 DEF Typed, CallsOK
  <2> QED
    BY <1>2, <1>4, <1>5, <2>1, SentTypes, BecomeTypes, SlotIsFree DEF Typed
<1>8. LocalOK'
  BY <1>2, <1>3, <1>6 DEF Typed, LocalOK
<1>9. RestOK'
  <2>1. count' \in [Bounded -> Nat]
    BY CountTypes, SyncAssumption DEF RenameDocument, Bounded
  <2> QED
    BY <1>1, <1>3, <2>1 DEF Typed, RestOK, Cancelled, Promises
<1> QED
  BY <1>3, <1>7, <1>8, <1>9 DEF Typed, ServerOK, Exists

LEMMA RevertTypes ==
  ASSUME Typed, RevertDocument
  PROVE  Typed'
<1>1. doc \in DocType
  BY DEF RevertDocument, Typed, LocalOK
<1>2. doc' \in DocType
  BY <1>1 DEF RevertDocument, DocType
<1>3. count' \in [Bounded -> Nat]
  BY CountTypes, SyncAssumption DEF RevertDocument, Bounded
<1> QED
  BY <1>2, <1>3 DEF RevertDocument, Typed, LocalOK, CallsOK, ServerOK, RestOK, Exists

LEMMA ReloadTypes ==
  ASSUME Typed, ResolveReload
  PROVE  Typed'
<1>1. doc \in DocType /\ conflict \in Snapshot
  BY DEF ResolveReload, Typed, LocalOK, RestOK
<1>2. doc' \in DocType
  BY <1>1, AdoptTypes DEF ResolveReload
<1>3. CallsOK'
  <2> DEFINE call == Call("reload", "storing", doc', 0)
  <2>1. call \in CallType /\ call.op = "reload" /\ call.local = doc'
    <3>1. "reload" \in Ops /\ 0 \in Nat
      BY DEF Ops
    <3> QED
      BY <1>2, <3>1, CallTypes
  <2>2. call.pc = "storing"
    BY DEF Call
  <2>3. Placed(call)
    BY <1>2, <2>1, <2>2 DEF Placed
  <2>4. Begin(call)
    BY DEF ResolveReload
  <2> QED
    BY <2>1, <2>3, <2>4, BeginTypes DEF Typed
<1> QED
  BY <1>2, <1>3 DEF ResolveReload, Typed, LocalOK, ServerOK, RestOK, Exists, Promises

LEMMA DiscardTypes ==
  ASSUME Typed, DiscardDocument
  PROVE  Typed'
<1>1. doc \in DocType
  BY DEF DiscardDocument, Typed, LocalOK
<1>2. CallsOK'
  <2>1. "archive" \in Ops /\ 0 \in Nat
    BY DEF Ops
  <2>2. Call("archive", "sent", doc, 0) \in CallType /\ Placed(Call("archive", "sent", doc, 0))
    BY <1>1, <2>1, SentTypes
  <2>3. UNCHANGED calls \/ Begin(Call("archive", "sent", doc, 0))
    BY DEF DiscardDocument
  <2>4. CASE UNCHANGED calls
    BY <2>4 DEF Typed, CallsOK
  <2> QED
    BY <2>2, <2>3, <2>4, BeginTypes DEF Typed
<1>3. count' \in [Bounded -> Nat]
  BY CountTypes, SyncAssumption DEF DiscardDocument, Bounded
<1>4. excused' \subseteq Promises
  BY DEF DiscardDocument, Typed, RestOK, Promises
<1> QED
  BY <1>2, <1>3, <1>4 DEF DiscardDocument, Drop, Typed, LocalOK, ServerOK, RestOK, Exists

LEMMA UserTypes ==
  ASSUME Typed, User
  PROVE  Typed'
<1>1. ASSUME UpdateContent(count["typed"] + 1)
      PROVE  Typed'
  <2>1. count["typed"] \in Nat /\ count["typed"] < MaxTyped
    BY <1>1, CountTypes, SyncAssumption DEF UpdateContent, Bounded, Typed, RestOK
  <2>2. count["typed"] + 1 \in Contents
    BY <2>1, SyncAssumption DEF Contents
  <2> QED
    BY <1>1, <2>2, UpdateTypes
<1>2. ASSUME doc # None, UpdateContent(doc.saved)
      PROVE  Typed'
  <2>1. doc.saved \in Contents
    BY <1>2, DocFields DEF Typed, LocalOK
  <2> QED
    BY <1>2, <2>1, UpdateTypes
<1> QED
  BY <1>1, <1>2, CreateTypes, CheckpointTypes, SaveTypes, RenameTypes, RevertTypes, ReloadTypes,
     DiscardTypes DEF User

-----------------------------------------------------------------------------
(* Other people, and the server.                                           *)

LEMMA StoreTypes ==
  ASSUME Typed, NEW content \in Contents, Stores(content)
  PROVE  /\ ServerOK'
         /\ server'.hist = Append(server.hist, content)
         /\ Len(server'.hist) = Len(server.hist) + 1
<1>1. server.hist \in Seq(Contents) /\ clock \in Nat
  BY DEF Typed, ServerOK, RestOK, ServerType
<1>2. /\ Append(server.hist, content) \in Seq(Contents)
      /\ Len(Append(server.hist, content)) = Len(server.hist) + 1
      /\ Append(server.hist, content) # <<>>
  BY <1>1
<1>3. server' = [hist |-> Append(server.hist, content), live |-> TRUE, at |-> clock]
  BY DEF Stores
<1> QED
  BY <1>1, <1>2, <1>3 DEF ServerOK, ServerType, Exists

LEMMA CurrentTypes ==
  ASSUME Typed, Exists
  PROVE  Revision \in Nat /\ Current \in Snapshot /\ Current.rev = Revision
         /\ Current.content = server.hist[Len(server.hist)]
<1>1. server.hist \in Seq(Contents) /\ server.at \in Nat /\ Len(server.hist) \in Nat \ {0}
  BY DEF Typed, ServerOK, ServerType, Exists
<1> QED
  BY <1>1 DEF Revision, Current, Snapshot, Last

LEMMA OtherTypes ==
  ASSUME Typed, Others
  PROVE  Typed'
<1>1. count' \in [Bounded -> Nat] /\ count["others"] \in Nat
      /\ count["others"] < MaxOthers /\ count'["others"] = count["others"] + 1
  BY CountTypes, SyncAssumption DEF Others, OtherSaves, OtherArchives, Bounded, Typed, RestOK
<1>2. ServerOK' /\ Len(server'.hist) \in Nat \ {0}
  <2>1. CASE OtherSaves
    <3>1. -count'["others"] \in Contents
      BY <1>1, SyncAssumption DEF Contents
    <3>2. Len(server.hist) \in Nat
      BY DEF Typed, ServerOK, ServerType
    <3> QED
      BY <2>1, <3>1, <3>2, StoreTypes DEF OtherSaves
  <2>2. CASE OtherArchives
    <3>1. server.hist \in Seq(Contents) /\ server.hist # <<>>
      BY <2>2 DEF OtherArchives, Typed, ServerOK, ServerType, Exists
    <3>2. Len(server.hist) \in Nat \ {0}
      BY <3>1
    <3> QED
      BY <2>2, <3>2 DEF OtherArchives, Typed, ServerOK, ServerType, Exists
  <2> QED
    BY <2>1, <2>2 DEF Others
<1>3. events' \subseteq Events
  <2>1. \A archived \in BOOLEAN : [rev |-> Len(server'.hist) - 1, archived |-> archived] \in Events
    BY <1>2 DEF Events
  <2>2. Announce(TRUE) \/ Announce(FALSE)
    BY DEF Others, OtherSaves, OtherArchives
  <2> QED
    BY <2>1, <2>2 DEF Announce, Typed, RestOK
<1> QED
  BY <1>1, <1>2, <1>3
     DEF Others, OtherSaves, OtherArchives, local, Typed, LocalOK, CallsOK, RestOK

LEMMA AnswerTypes ==
  ASSUME Typed, NEW k \in CallIds, NEW kind \in {"document", "conflict", "created", "existed",
                                                  "missing", "list"},
         NEW value \in Snapshot \cup {None},
         calls[k].pc = "sent", Answer(k, kind, value),
         calls[k].op = "fetch" => kind \in {"document", "missing"},
         calls[k].op \in {"save", "force", "publish", "fetch"} /\ kind \in {"document", "conflict"}
         => value \in Snapshot
  PROVE  CallsOK'
<1> DEFINE reply == [kind |-> kind, value |-> value]
           call == [calls[k] EXCEPT !.pc = "answered", !.reply = reply]
<1>1. calls[k] \in CallType /\ Placed(calls[k])
  BY DEF Typed, CallsOK
<1>2. reply \in ReplyType /\ reply.kind = kind /\ reply.value = value
  BY DEF ReplyType
<1>3. call \in CallType /\ call.op = calls[k].op /\ call.pc = "answered"
      /\ call.local = calls[k].local /\ call.reply = reply
  BY <1>1, <1>2 DEF CallType
<1>4. Placed(call)
  BY <1>1, <1>2, <1>3 DEF Placed
<1>5. Become(k, call)
  BY DEF Answer
<1> QED
  BY <1>3, <1>4, <1>5, BecomeTypes DEF Typed

LEMMA ServeTypes ==
  ASSUME Typed, NEW k \in CallIds, Serve(k)
  PROVE  Typed'
<1>1. calls[k] \in CallType /\ Placed(calls[k])
  BY DEF Typed, CallsOK
<1>2. CASE ServeSave(k)
  <2>1. calls[k].local \in DocType /\ calls[k].pc = "sent" /\ calls[k].op \in {"save", "force"}
    BY <1>1, <1>2 DEF ServeSave, Asked, Placed
  <2>2. calls[k].local.cur \in Contents
    BY <2>1, DocFields
  <2>3. CASE ~server.live
    BY <1>2, <2>1, <2>3, AnswerTypes
       DEF ServeSave, local, Typed, LocalOK, ServerOK, RestOK, Exists
  <2>4. CASE server.live /\ calls[k].base # Revision /\ calls[k].op # "force"
    <3>1. Current \in Snapshot
      BY <2>4, CurrentTypes DEF Typed, ServerOK
    <3> QED
      BY <1>2, <2>1, <2>4, <3>1, AnswerTypes
         DEF ServeSave, local, Typed, LocalOK, ServerOK, RestOK, Exists
  <2>5. CASE server.live /\ ~(calls[k].base # Revision /\ calls[k].op # "force")
    <3> DEFINE stored == [rev |-> Revision + 1, content |-> calls[k].local.cur, at |-> clock]
    <3>1. stored \in Snapshot
      BY <2>2, <2>5, CurrentTypes DEF Typed, ServerOK, RestOK, Snapshot
    <3>2. Stores(calls[k].local.cur) /\ Answer(k, "document", stored)
      BY <1>2, <2>5 DEF ServeSave
    <3>3. ServerOK'
      BY <2>2, <3>2, StoreTypes
    <3>4. CallsOK'
      BY <2>1, <3>1, <3>2, AnswerTypes
    <3> QED
      BY <1>2, <3>3, <3>4 DEF ServeSave, local, Typed, LocalOK, RestOK
  <2> QED
    BY <2>3, <2>4, <2>5
<1>3. CASE ServeCreate(k)
  <2> DEFINE content == IF calls[k].op = "publish" THEN calls[k].local.cur ELSE calls[k].local.saved
  <2>1. calls[k].local \in DocType /\ calls[k].pc = "sent" /\ calls[k].op \in {"publish", "create"}
    BY <1>1, <1>3 DEF ServeCreate, Asked, Placed
  <2>2. content \in Contents
    BY <2>1, DocFields
  <2>3. \/ ~Exists /\ Stores(content) /\ Answer(k, "created", None)
        \/ /\ Answer(k, "existed", None) \/ Answer(k, "missing", None)
           /\ UNCHANGED server
    BY <1>3 DEF ServeCreate
  <2>4. ServerOK'
    BY <2>2, <2>3, StoreTypes DEF Typed, ServerOK, Exists
  <2>5. CallsOK'
    BY <2>1, <2>3, AnswerTypes
  <2> QED
    BY <1>3, <2>4, <2>5 DEF ServeCreate, local, Typed, LocalOK, RestOK
<1>4. CASE ServeGet(k)
  <2>1. calls[k].pc = "sent" /\ calls[k].op = "fetch" /\ UNCHANGED server
    BY <1>4 DEF ServeGet, Asked
  <2>2. \/ Current \in Snapshot /\ Answer(k, "document", Current)
        \/ Answer(k, "missing", None)
    BY <1>4, CurrentTypes DEF ServeGet, Typed, ServerOK
  <2>3. CallsOK'
    BY <2>1, <2>2, AnswerTypes
  <2> QED
    BY <1>4, <2>1, <2>3 DEF ServeGet, local, Typed, LocalOK, ServerOK, RestOK, Exists
<1>5. CASE ServeList(k)
  <2>1. calls[k].pc = "sent" /\ calls[k].op = "sync" /\ UNCHANGED server
    BY <1>5 DEF ServeList, Asked
  <2>2. \E value \in Snapshot \cup {None} : Answer(k, "list", value)
    BY <1>5, CurrentTypes DEF ServeList, Typed, ServerOK
  <2>3. CallsOK'
    BY <2>1, <2>2, AnswerTypes
  <2> QED
    BY <1>5, <2>1, <2>3 DEF ServeList, local, Typed, LocalOK, ServerOK, RestOK, Exists
<1>6. CASE ServeArchive(k)
  <2>1. calls[k].pc = "sent" /\ calls[k].op = "archive" /\ Answer(k, "document", None)
    BY <1>6 DEF ServeArchive, Asked
  <2>2. CallsOK'
    BY <2>1, AnswerTypes
  <2>3. ServerOK'
    BY <1>6 DEF ServeArchive, Typed, ServerOK, ServerType, Exists
  <2> QED
    BY <1>6, <2>2, <2>3 DEF ServeArchive, local, Typed, LocalOK, RestOK
<1> QED
  BY <1>2, <1>3, <1>4, <1>5, <1>6 DEF Serve

-----------------------------------------------------------------------------
(* What the tab does with the answers.                                     *)

LEMMA SaveAnsweredTypes ==
  ASSUME Typed, NEW k \in CallIds, SaveAnswered(k)
  PROVE  Typed'
<1> DEFINE reply == calls[k].reply
           rev == IF reply.kind = "document" THEN reply.value.rev ELSE 0
<1>1. /\ calls[k] \in CallType /\ Placed(calls[k])
      /\ calls[k].op \in {"save", "force", "publish"} /\ calls[k].pc = "answered"
  BY DEF SaveAnswered, Answered, Typed, CallsOK
<1>2. calls[k].local \in DocType
  BY <1>1 DEF Placed
<1>3. reply.kind \in {"document", "conflict"} => reply.value \in Snapshot
  BY <1>1 DEF Placed
<1>4. rev \in Nat
  BY <1>3 DEF Snapshot
<1>5. CASE reply.kind \in {"document", "created", "existed"}
  <2>1. StoreSave(k, calls[k].local, rev, reply.kind # "existed")
    BY <1>5 DEF SaveAnswered
  <2>2. (reply.kind # "existed") \in BOOLEAN
    OBVIOUS
  <2> HIDE DEF rev
  <2>3. clock' \in Nat /\ row' \in RowType /\ typed' \in Contents \cup {None} /\ CallsOK'
    BY <1>2, <1>4, <2>1, <2>2, StoreSaveTypes
  <2>4. known' = TRUE /\ excused' = excused \cup Raced(k) /\ UNCHANGED conflict
    BY <1>5 DEF SaveAnswered
  <2>5. UNCHANGED <<doc, draft, pending, online, events, server, count>>
    BY DEF SaveAnswered
  <2> QED
    BY <2>3, <2>4, <2>5 DEF Raced, Typed, LocalOK, ServerOK, RestOK, Exists
<1>6. CASE reply.kind \notin {"document", "created", "existed"}
  <2>1. /\ conflict' = IF reply.kind = "conflict" THEN reply.value ELSE conflict
        /\ End(k)
        /\ UNCHANGED <<known, row, clock, typed, excused>>
        /\ UNCHANGED <<doc, draft, pending, online, events, server, count>>
    BY <1>6 DEF SaveAnswered
  <2>2. CallsOK'
    BY <2>1, EndTypes DEF Typed
  <2> QED
    BY <1>3, <2>1, <2>2 DEF Typed, LocalOK, ServerOK, RestOK, Exists
<1> QED
  BY <1>5, <1>6

LEMMA AdoptAnswerTypes ==
  ASSUME Typed, NEW k \in CallIds, Adopt(k)
  PROVE  Typed'
<1> DEFINE read == calls[k].local
           got == calls[k].reply.value
           adopted == IF read = None THEN Fetched(got) ELSE Adopted(read, got)
<1>1. /\ calls[k] \in CallType /\ Placed(calls[k])
      /\ calls[k].op = "fetch" /\ calls[k].pc = "answered"
  BY DEF Adopt, Answered, Typed, CallsOK
<1>2. read \in DocType \cup {None}
  BY <1>1 DEF CallType
<1>3. CallsOK'
  BY EndTypes DEF Adopt, Typed
<1>4. UNCHANGED <<known, online, events, server, clock, typed, count>>
  BY DEF Adopt
<1>5. CASE calls[k].reply.kind = "missing"
  BY <1>3, <1>4, <1>5 DEF Adopt, local, Typed, LocalOK, ServerOK, RestOK, Exists
<1>6. CASE calls[k].reply.kind # "missing"
  <2>1. got \in Snapshot /\ got.at \in Nat
    BY <1>1, <1>6 DEF Placed, Snapshot
  <2>2. adopted \in DocType
    BY <1>2, <2>1, AdoptTypes
  <2>3. CASE Clean(read)
    <3>1. /\ doc' = adopted /\ excused' = excused \cup Raced(k)
          /\ row' = [RowOf(adopted, got.at) EXCEPT !.shared = TRUE]
          /\ draft' \in {draft, None} /\ pending' \in {pending, None}
          /\ UNCHANGED conflict
      BY <1>6, <2>3 DEF Adopt, WriteBack
    <3> HIDE DEF adopted
    <3>2. row' \in RowType
      BY <2>1, <2>2, <3>1, RowTypes
    <3> QED
      BY <1>3, <1>4, <2>2, <3>1, <3>2 DEF Raced, Typed, LocalOK, ServerOK, RestOK, Exists
  <2>4. CASE ~Clean(read)
    <3>1. read \in DocType
      BY <1>2, <2>4 DEF Clean
    <3>2. /\ doc' = [read EXCEPT !.saved = got.content, !.rev = got.rev, !.held = TRUE]
          /\ excused' = excused \cup Raced(k)
          /\ conflict' = got
          /\ UNCHANGED <<row, draft, pending>>
      BY <1>6, <2>4 DEF Adopt, WriteBack
    <3>3. doc' \in DocType
      BY <2>1, <3>1, <3>2 DEF DocType, Snapshot
    <3> QED
      BY <1>3, <1>4, <2>1, <3>2, <3>3 DEF Raced, Typed, LocalOK, ServerOK, RestOK, Exists
  <2> QED
    BY <2>3, <2>4
<1> QED
  BY <1>5, <1>6

LEMMA SyncTypes ==
  ASSUME Typed, NEW k \in CallIds, SyncFromServer(k)
  PROVE  Typed'
<1> DEFINE list == calls[k].reply.value
<1>1. /\ known' = (list # None)
      /\ UNCHANGED <<conflict, online, events, server, count>>
  BY DEF SyncFromServer
<1>2. \/ Become(k, Call("fetch", "sent", doc, 0)) /\ UNCHANGED <<local, clock, typed, excused>>
      \/ doc # None /\ SaveInternal(k, doc, doc.rev, FALSE) /\ UNCHANGED <<doc, draft>>
      \/ /\ doc # None
         /\ doc' = [doc EXCEPT !.shared = TRUE]
         /\ row' = [RowOf(doc', doc.at) EXCEPT !.touched = TRUE]
         /\ End(k)
         /\ UNCHANGED <<draft, pending, clock, typed, excused>>
      \/ /\ doc # None
         /\ Become(k, Call("create", "sent", doc, 0)) /\ UNCHANGED <<local, clock, typed, excused>>
      \/ End(k) /\ UNCHANGED <<local, clock, typed, excused>>
  BY DEF SyncFromServer
<1>3. doc \in DocType \cup {None} /\ {"fetch", "create"} \subseteq Ops /\ 0 \in Nat
  BY DEF Typed, LocalOK, Ops
<1>4. CASE Become(k, Call("fetch", "sent", doc, 0)) /\ UNCHANGED <<local, clock, typed, excused>>
  <2>1. CallsOK'
    BY <1>3, <1>4, SentTypes, BecomeTypes DEF Typed
  <2> QED
    BY <1>1, <1>4, <2>1 DEF local, Typed, LocalOK, ServerOK, RestOK, Exists
<1>5. CASE doc # None /\ SaveInternal(k, doc, doc.rev, FALSE) /\ UNCHANGED <<doc, draft>>
  <2>1. doc \in DocType /\ doc.rev \in Nat
    BY <1>3, <1>5, DocFields
  <2>2. /\ pending' = None /\ excused' \subseteq Promises /\ row' \in RowType \cup {None}
        /\ clock' \in Nat /\ typed' \in Contents \cup {None} /\ CallsOK'
    BY <1>5, <2>1, SaveInternalTypes
  <2> QED
    BY <1>1, <1>5, <2>2 DEF Typed, LocalOK, ServerOK, RestOK, Exists
<1>6. CASE /\ doc # None
           /\ doc' = [doc EXCEPT !.shared = TRUE]
           /\ row' = [RowOf(doc', doc.at) EXCEPT !.touched = TRUE]
           /\ End(k)
           /\ UNCHANGED <<draft, pending, clock, typed, excused>>
  <2>1. doc' \in DocType /\ doc.at \in Nat
    BY <1>3, <1>6 DEF DocType
  <2>2. row' \in RowType
    BY <1>6, <2>1, RowTypes
  <2>3. CallsOK'
    BY <1>6, EndTypes DEF Typed
  <2> QED
    BY <1>1, <1>6, <2>1, <2>2, <2>3 DEF Typed, LocalOK, ServerOK, RestOK, Exists
<1>7. CASE /\ doc # None
           /\ Become(k, Call("create", "sent", doc, 0)) /\ UNCHANGED <<local, clock, typed, excused>>
  <2>1. CallsOK'
    BY <1>3, <1>7, SentTypes, BecomeTypes DEF Typed
  <2> QED
    BY <1>1, <1>7, <2>1 DEF local, Typed, LocalOK, ServerOK, RestOK, Exists
<1>8. CASE End(k) /\ UNCHANGED <<local, clock, typed, excused>>
  <2>1. CallsOK'
    BY <1>8, EndTypes DEF Typed
  <2> QED
    BY <1>1, <1>8, <2>1 DEF local, Typed, LocalOK, ServerOK, RestOK, Exists
<1> QED
  BY <1>2, <1>4, <1>5, <1>6, <1>7, <1>8

LEMMA FinishTypes ==
  ASSUME Typed, NEW k \in CallIds, FinishSave(k) \/ FinishReload(k)
  PROVE  Typed'
<1>1. calls[k] \in CallType /\ Placed(calls[k])
  BY DEF Typed, CallsOK
<1>2. CallsOK'
  BY EndTypes DEF Typed, FinishSave, FinishReload
<1>3. CASE FinishSave(k)
  <2> DEFINE stored == calls[k].reply.value
             held == calls[k].reply.kind = "document"
  <2>1. calls[k].local \in DocType /\ stored \in Snapshot
    BY <1>1, <1>3 DEF FinishSave, Placed
  <2>2. doc' = [calls[k].local EXCEPT !.saved = stored.content, !.rev = stored.rev,
                  !.dirty = FALSE, !.at = stored.at, !.held = held]
    BY <1>3 DEF FinishSave
  <2>3. held \in BOOLEAN
    OBVIOUS
  <2> HIDE DEF held
  <2>4. doc' \in DocType
    BY <2>1, <2>2, <2>3 DEF DocType, Snapshot
  <2>5. excused' = excused \cup Raced(k) \cup Outdated(k) /\ draft' = None
        /\ UNCHANGED <<row, pending, known, conflict, online, events, server, clock, typed, count>>
    BY <1>3 DEF FinishSave
  <2>6. excused' \subseteq Promises
    BY <2>5 DEF Raced, Outdated, Promises, Typed, RestOK
  <2> QED
    BY <1>2, <2>4, <2>5, <2>6 DEF Typed, LocalOK, ServerOK, RestOK, Exists
<1>4. CASE FinishReload(k)
  <2>1. calls[k].local \in DocType
    BY <1>1, <1>4 DEF FinishReload, Placed
  <2>2. row' \in RowType
    BY <1>4, <2>1, RowTypes, DocFields DEF FinishReload
  <2>3. excused' \in {excused, excused \cup {"draft"}}
    BY <1>4 DEF FinishReload
  <2>4. excused' \subseteq Promises
    BY <2>3 DEF Typed, RestOK, Promises
  <2>5. UNCHANGED <<doc, draft, pending, known, conflict, online, events, server, clock,
                    typed, count>>
    BY <1>4 DEF FinishReload
  <2> QED
    BY <1>2, <2>2, <2>4, <2>5 DEF Typed, LocalOK, ServerOK, RestOK, Exists
<1> QED
  BY <1>3, <1>4

LEMMA OtherAnswersTypes ==
  ASSUME Typed, NEW k \in CallIds, CreateAnswered(k) \/ ArchiveAnswered(k)
  PROVE  Typed'
<1>1. CallsOK'
  BY EndTypes DEF Typed, CreateAnswered, ArchiveAnswered
<1> QED
  BY <1>1 DEF CreateAnswered, ArchiveAnswered, Drop, Raced, local,
              Typed, LocalOK, ServerOK, RestOK, Exists

LEMMA GiveUpTypes ==
  ASSUME Typed, NEW k \in CallIds, OnSocket(calls[k]), GiveUp(k)
  PROVE  LocalOK' /\ CallsOK' /\ known' \in BOOLEAN /\ clock' \in Nat
         /\ typed' \in Contents \cup {None}
<1>1. calls[k] \in CallType /\ Placed(calls[k])
  BY DEF Typed, CallsOK
<1>2. CASE calls[k].op \in {"save", "force", "publish"}
  <2>1. calls[k].local \in DocType /\ calls[k].base + 1 \in Nat
    BY <1>1, <1>2 DEF Placed, CallType
  <2>2. StoreSave(k, calls[k].local, calls[k].base + 1, FALSE)
        /\ UNCHANGED <<doc, draft, pending, known>>
    BY <1>2 DEF GiveUp
  <2>3. clock' \in Nat /\ row' \in RowType /\ typed' \in Contents \cup {None} /\ CallsOK'
    BY <2>1, <2>2, StoreSaveTypes
  <2> QED
    BY <2>2, <2>3 DEF Typed, LocalOK, RestOK
<1>3. CASE calls[k].op \notin {"save", "force", "publish"}
  <2>1. End(k)
    BY <1>3 DEF GiveUp
  <2>2. CallsOK'
    BY <2>1, EndTypes DEF Typed
  <2> QED
    BY <1>3, <2>2 DEF GiveUp, Drop, local, Typed, LocalOK, RestOK
<1> QED
  BY <1>2, <1>3

LEMMA FailTypes ==
  ASSUME Typed, NEW k \in CallIds, RequestFails(k) \/ TimeOut(k)
  PROVE  Typed'
<1>1. OnSocket(calls[k]) /\ GiveUp(k)
  BY DEF RequestFails, TimeOut
<1>2. LocalOK' /\ CallsOK' /\ known' \in BOOLEAN /\ clock' \in Nat
      /\ typed' \in Contents \cup {None}
  BY <1>1, GiveUpTypes
<1>3. excused' \subseteq Promises
  BY DEF RequestFails, TimeOut, Overtaken, Raced, Promises, Typed, RestOK
<1>4. count' \in [Bounded -> Nat]
  BY CountTypes, SyncAssumption DEF RequestFails, TimeOut, Bounded, Typed, RestOK
<1> QED
  BY <1>2, <1>3, <1>4 DEF RequestFails, TimeOut, Typed, ServerOK, RestOK, Exists

LEMMA ProceedTypes ==
  ASSUME Typed, NEW k \in CallIds, Proceed(k) \/ TimeOut(k)
  PROVE  Typed'
  BY SaveAnsweredTypes, OtherAnswersTypes, AdoptAnswerTypes, SyncTypes, FinishTypes, FailTypes
     DEF Proceed

LEMMA ChangeTypes ==
  ASSUME Typed, NEW e \in events, ApplyServerChange(e)
  PROVE  Typed'
<1>1. doc \in DocType \cup {None} /\ "fetch" \in Ops /\ 0 \in Nat
  BY DEF Typed, LocalOK, Ops
<1>2. UNCHANGED calls \/ Begin(Call("fetch", "sent", doc, 0))
  BY DEF ApplyServerChange
<1>3. CallsOK'
  <2>1. CASE UNCHANGED calls
    BY <2>1 DEF Typed, CallsOK
  <2> QED
    BY <1>1, <1>2, <2>1, SentTypes, BeginTypes DEF Typed
<1>4. excused' \subseteq Promises
  BY DEF ApplyServerChange, Promises, Typed, RestOK
<1>5. LocalOK'
  BY DEF ApplyServerChange, Typed, LocalOK
<1>6. /\ events' \subseteq Events /\ known' = TRUE
      /\ UNCHANGED <<conflict, online, server, clock, typed, count>>
  BY DEF ApplyServerChange, Typed, RestOK
<1> QED
  BY <1>3, <1>4, <1>5, <1>6 DEF Typed, ServerOK, RestOK, Exists

LEMMA SocketTypes ==
  ASSUME Typed, Disconnect \/ Connect
  PROVE  Typed'
<1>1. CASE Disconnect
  <2>1. count' \in [Bounded -> Nat]
    BY <1>1, CountTypes, SyncAssumption DEF Disconnect, Bounded
  <2> QED
    BY <1>1, <2>1 DEF Disconnect, local, Typed, LocalOK, CallsOK, ServerOK, RestOK, Exists
<1>2. CASE Connect
  <2>1. "sync" \in Ops /\ 0 \in Nat
    BY DEF Ops
  <2>2. Call("sync", "sent", None, 0) \in CallType /\ Placed(Call("sync", "sent", None, 0))
    BY <2>1, SentTypes
  <2>3. CallsOK'
    BY <1>2, <2>2, BeginTypes DEF Connect, Typed
  <2> QED
    BY <1>2, <2>3 DEF Connect, local, Typed, LocalOK, ServerOK, RestOK, Exists
<1> QED
  BY <1>1, <1>2

LEMMA RecoveredTypes ==
  ASSUME LocalOK
  PROVE  Recovered \in DocType \cup {None} /\ (row # None => Recovered \in DocType)
<1>1. row # None => row \in RowType
  BY DEF LocalOK
<1>2. DraftWins => draft \in DraftType
  BY DEF DraftWins, LocalOK
<1>3. ASSUME row \in RowType, DraftWins
      PROVE  [cur |-> draft.content, saved |-> row.content, rev |-> row.rev, dirty |-> TRUE,
              shared |-> row.shared, at |-> draft.at, held |-> row.held] \in DocType
  BY <1>2, <1>3 DEF RowType, DraftType, DocType
<1>4. ASSUME row \in RowType
      PROVE  [cur |-> row.content, saved |-> row.content, rev |-> row.rev, dirty |-> FALSE,
              shared |-> row.shared, at |-> row.at, held |-> row.held] \in DocType
  BY <1>4 DEF RowType, DocType
<1>5. DraftWins \in BOOLEAN
  BY DEF DraftWins
<1>6. CASE row = None
  BY <1>6 DEF Recovered
<1>7. CASE row # None /\ DraftWins
  <2>1. Recovered = [cur |-> draft.content, saved |-> row.content, rev |-> row.rev,
                     dirty |-> TRUE, shared |-> row.shared, at |-> draft.at, held |-> row.held]
    BY <1>5, <1>7 DEF Recovered
  <2> QED
    BY <1>1, <1>3, <1>7, <2>1
<1>8. CASE row # None /\ ~DraftWins
  <2>1. Recovered = [cur |-> row.content, saved |-> row.content, rev |-> row.rev,
                     dirty |-> FALSE, shared |-> row.shared, at |-> row.at, held |-> row.held]
    BY <1>5, <1>8 DEF Recovered
  <2> QED
    BY <1>1, <1>4, <1>8, <2>1
<1> QED
  BY <1>5, <1>6, <1>7, <1>8

LEMMA RestartTypes ==
  ASSUME Typed, Restart
  PROVE  Typed'
<1>1. doc' \in DocType \cup {None}
  BY RecoveredTypes DEF Restart, Typed
<1>2. CallsOK'
  BY IdleTypes DEF Restart, CallsOK
<1>3. typed' \in Contents \cup {None}
  BY DEF Restart, DraftWins, Typed, LocalOK, RestOK, DraftType
<1>4. excused' \subseteq Promises
  BY DEF Restart, Promises, Typed, RestOK
<1>5. count' \in [Bounded -> Nat]
  BY CountTypes, SyncAssumption DEF Restart, Bounded
<1> QED
  BY <1>1, <1>2, <1>3, <1>4, <1>5 DEF Restart, Typed, LocalOK, ServerOK, RestOK, Exists

LEMMA StepTypes == Typed /\ [Next]_vars => Typed'
<1> SUFFICES ASSUME Typed, [Next]_vars PROVE Typed'
  OBVIOUS
<1>1. CASE Next
  BY <1>1, UserTypes, OtherTypes, CheckpointTypes, ServeTypes, ProceedTypes, ChangeTypes,
     SocketTypes, RestartTypes DEF Next
<1>2. CASE UNCHANGED vars
  BY <1>2 DEF vars, local, Typed, LocalOK, CallsOK, ServerOK, RestOK, Exists
<1> QED
  BY <1>1, <1>2

LEMMA InitTypes == Init => Typed
<1> SUFFICES ASSUME Init PROVE Typed
  OBVIOUS
<1>1. LocalOK /\ RestOK
  BY DEF Init, LocalOK, RestOK, Bounded
<1>2. CallsOK
  BY IdleTypes DEF Init, CallsOK
<1>3. ServerOK
  BY DEF Init, ServerOK, ServerType
<1> QED
  BY <1>1, <1>2, <1>3 DEF Typed

LEMMA AlwaysTyped == Spec => []Typed
  BY InitTypes, StepTypes, PTL DEF Spec

(* Every variable keeps its type, through any overlap of the store's       *)
(* methods, lost replies and restarts (apps/web/src/stores/documents.ts).  *)
THEOREM TypeCorrect == Spec => []TypeOK
  BY AlwaysTyped, TypedIsTypeOK, PTL

-----------------------------------------------------------------------------
(* A revision names one content.  Whatever the store holds under a         *)
(* revision the server acknowledged is what the server has under it, in    *)
(* the store, in IndexedDB, in the banner and in what awaits.              *)

In(h, rev, content) == rev + 1 \in DOMAIN h /\ h[rev + 1] = content

HonestDoc(h, d) == d # None /\ d.held => In(h, d.rev, d.saved)
HonestRow(h, r) == r # None /\ r.held => In(h, r.rev, r.content)
HonestBanner(h, s) == s # None => In(h, s.rev, s.content)

(* A save that is answered was stored with what it sent, a publication that *)
(* created the document is revision 0.                                     *)
HonestCall(h, c) ==
  /\ HonestDoc(h, c.local)
  /\ c.pc = "storing" /\ c.reply.kind = "document" => In(h, c.reply.value.rev, c.reply.value.content)
  /\ c.pc = "answered" =>
       /\ c.op \in {"save", "force"} /\ c.reply.kind = "document"
          => In(h, c.reply.value.rev, c.local.cur)
       /\ c.op = "publish" => /\ c.reply.kind # "document"
                              /\ c.reply.kind = "created" => In(h, 0, c.local.cur)
       /\ c.op \in {"save", "force", "publish"} /\ c.reply.kind = "conflict"
          => In(h, c.reply.value.rev, c.reply.value.content)
       /\ c.op \in {"save", "force"} => c.reply.kind # "created"
       /\ c.op = "fetch" /\ c.reply.kind = "document"
          => In(h, c.reply.value.rev, c.reply.value.content)
HonestCalls(h, cs) == \A k \in CallIds : HonestCall(h, cs[k])

Honest ==
  /\ HonestDoc(server.hist, doc)
  /\ HonestRow(server.hist, row)
  /\ HonestBanner(server.hist, conflict)
  /\ HonestCalls(server.hist, calls)

LEMMA HonestIsEnough == Honest => RevisionNamesContent
  BY DEF Honest, HonestDoc, HonestRow, HonestBanner, In, RevisionNamesContent, Names

(* What was in the history stays in it.                                    *)
LEMMA HistoryGrows ==
  ASSUME Typed, NEW content \in Contents
  PROVE  \A rev, old : In(server.hist, rev, old) => In(Append(server.hist, content), rev, old)
<1>1. server.hist \in Seq(Contents)
  BY DEF Typed, ServerOK, ServerType
<1> QED
  BY <1>1 DEF In

LEMMA HonestyGrows ==
  ASSUME NEW h, NEW g, \A rev, content : In(h, rev, content) => In(g, rev, content)
  PROVE  /\ \A d : HonestDoc(h, d) => HonestDoc(g, d)
         /\ \A r : HonestRow(h, r) => HonestRow(g, r)
         /\ \A b : HonestBanner(h, b) => HonestBanner(g, b)
         /\ \A c : HonestCall(h, c) => HonestCall(g, c)
         /\ \A cs : HonestCalls(h, cs) => HonestCalls(g, cs)
<1>1. \A d : HonestDoc(h, d) => HonestDoc(g, d)
  BY DEF HonestDoc
<1>2. \A r : HonestRow(h, r) => HonestRow(g, r)
  BY DEF HonestRow
<1>3. \A b : HonestBanner(h, b) => HonestBanner(g, b)
  BY DEF HonestBanner
<1>4. \A c : HonestCall(h, c) => HonestCall(g, c)
  <2> SUFFICES ASSUME NEW c, HonestCall(h, c) PROVE HonestCall(g, c)
    OBVIOUS
  <2> QED
    BY <1>1 DEF HonestCall
<1>5. \A cs : HonestCalls(h, cs) => HonestCalls(g, cs)
  BY <1>4 DEF HonestCalls
<1> QED
  BY <1>1, <1>2, <1>3, <1>4, <1>5

LEMMA SentHonest ==
  ASSUME NEW h, NEW op \in Ops, NEW d \in DocType \cup {None}, NEW base \in Nat, HonestDoc(h, d)
  PROVE  HonestCall(h, Call(op, "sent", d, base))
  BY CallTypes DEF HonestCall

LEMMA IdleHonest == \A h : HonestCall(h, Idle)
  BY DEF HonestCall, HonestDoc, Idle

LEMMA BecomeHonest ==
  ASSUME CallsOK, NEW h, HonestCalls(h, calls), NEW k \in CallIds, NEW call,
         HonestCall(h, call), Become(k, call)
  PROVE  HonestCalls(h, calls')
  BY DEF CallsOK, HonestCalls, Become

LEMMA EndHonest ==
  ASSUME CallsOK, NEW h, HonestCalls(h, calls), NEW k \in CallIds, End(k)
  PROVE  HonestCalls(h, calls')
  BY IdleHonest, BecomeHonest DEF End

LEMMA BeginHonest ==
  ASSUME CallsOK, NEW h, HonestCalls(h, calls), NEW call, HonestCall(h, call), Begin(call)
  PROVE  HonestCalls(h, calls')
  BY SlotIsFree, BecomeHonest DEF Begin, Become

LEMMA StoreSaveHonest ==
  ASSUME Typed, NEW h, HonestCalls(h, calls), NEW k \in CallIds, NEW d \in DocType, NEW rev \in Nat,
         NEW held \in BOOLEAN, StoreSave(k, d, rev, held),
         HonestDoc(h, d), held => In(h, rev, d.cur)
  PROVE  HonestRow(h, row') /\ HonestCalls(h, calls')
<1> DEFINE stored == [rev |-> rev, content |-> d.cur, at |-> Now]
           reply == [kind |-> IF held THEN "document" ELSE "none", value |-> stored]
           call == [Call("save", "storing", d, 0) EXCEPT !.reply = reply]
<1>1. row' = [RowOf(d, Now) EXCEPT !.content = d.cur, !.rev = rev, !.held = held]
  BY DEF StoreSave
<1>2. row'.content = d.cur /\ row'.rev = rev /\ row'.held = held
  BY <1>1 DEF RowOf
<1>3. call.op = "save" /\ call.pc = "storing" /\ call.local = d /\ call.reply = reply
  BY DEF Call
<1>4. reply.value = stored /\ (reply.kind = "document" => held)
      /\ stored.rev = rev /\ stored.content = d.cur
  OBVIOUS
<1> HIDE DEF call, reply, stored
<1>5. HonestCall(h, call)
  BY <1>3, <1>4 DEF HonestCall
<1>6. Become(k, call)
  BY DEF StoreSave, call, reply, stored
<1>7. HonestCalls(h, calls')
  BY <1>5, <1>6, BecomeHonest DEF Typed
<1> QED
  BY <1>2, <1>7 DEF HonestRow

LEMMA SaveInternalHonest ==
  ASSUME Typed, NEW h, HonestCalls(h, calls), HonestRow(h, row), NEW k \in CallIds,
         NEW d \in DocType, NEW base \in Nat, NEW force \in BOOLEAN,
         SaveInternal(k, d, base, force), HonestDoc(h, d)
  PROVE  HonestRow(h, row') /\ HonestCalls(h, calls')
<1>1. CASE online
  <2> DEFINE op == IF known \/ base > 0 THEN IF force THEN "force" ELSE "save" ELSE "publish"
  <2>1. op \in Ops
    BY DEF Ops
  <2>2. Become(k, Call(op, "sent", d, base)) /\ row' = row
    BY <1>1 DEF SaveInternal
  <2> HIDE DEF op
  <2>3. HonestCalls(h, calls')
    BY <2>1, <2>2, SentHonest, BecomeHonest DEF Typed
  <2> QED
    BY <2>2, <2>3
<1>2. CASE ~online
  <2>1. StoreSave(k, d, base + 1, FALSE)
    BY <1>2 DEF SaveInternal
  <2>2. base + 1 \in Nat
    OBVIOUS
  <2> QED
    BY <2>1, <2>2, StoreSaveHonest
<1>3. online \in BOOLEAN
  BY DEF Typed, RestOK
<1> QED
  BY <1>1, <1>2, <1>3

(* What a step leaves, against the history it found.                       *)
Follows(h) ==
  /\ HonestDoc(h, doc')
  /\ HonestRow(h, row')
  /\ HonestBanner(h, conflict')
  /\ HonestCalls(h, calls')

LEMMA UserHonest ==
  ASSUME Typed, Honest, User
  PROVE  server' = server /\ Follows(server.hist)
<1> DEFINE h == server.hist
<1>1. /\ HonestDoc(h, doc) /\ HonestRow(h, row) /\ HonestBanner(h, conflict)
      /\ HonestCalls(h, calls) /\ CallsOK
      /\ doc \in DocType \cup {None} /\ 0 \in Nat
      /\ {"create", "archive", "save", "publish", "reload"} \subseteq Ops
  BY DEF Honest, Typed, LocalOK, Ops
<1> HIDE DEF h
<1>2. ASSUME NEW shared \in BOOLEAN, CreateDocument(shared)
      PROVE  server' = server /\ Follows(h)
  <2> DEFINE d == [cur |-> 0, saved |-> 0, rev |-> 0, dirty |-> FALSE, shared |-> shared,
                   at |-> Now, held |-> FALSE]
  <2>1. d \in DocType
    BY ZeroIsContent DEF Now, Typed, RestOK, DocType
  <2>2. HonestDoc(h, d) /\ HonestRow(h, RowOf(d, Now))
    BY DEF HonestDoc, HonestRow, RowOf
  <2>3. doc' = d /\ row' = RowOf(d, Now) /\ UNCHANGED <<conflict, server>>
        /\ (Begin(Call("create", "sent", d, 0)) \/ UNCHANGED calls)
    BY <1>2 DEF CreateDocument
  <2> HIDE DEF d
  <2>4. HonestCalls(h, calls')
    <3>1. HonestCall(h, Call("create", "sent", d, 0))
      BY <1>1, <2>1, <2>2, SentHonest
    <3> QED
      BY <1>1, <2>3, <3>1, BeginHonest
  <2> QED
    BY <1>1, <2>2, <2>3, <2>4 DEF Follows
<1>3. ASSUME NEW content, UpdateContent(content)
      PROVE  server' = server /\ Follows(h)
  <2>1. doc \in DocType
    BY <1>1, <1>3 DEF UpdateContent
  <2>2. doc' = [doc EXCEPT !.cur = content, !.dirty = content # doc.saved, !.at = Now]
        /\ UNCHANGED <<row, conflict, calls, server>>
    BY <1>3 DEF UpdateContent
  <2>3. doc'.held = doc.held /\ doc'.rev = doc.rev /\ doc'.saved = doc.saved /\ doc # None
    BY <1>3, <2>1, <2>2 DEF DocType, UpdateContent
  <2> QED
    BY <1>1, <2>2, <2>3 DEF HonestDoc, Follows
<1>4. ASSUME ReleaseModel  PROVE server' = server /\ Follows(h)
  BY <1>1, <1>4 DEF ReleaseModel, Follows
<1>5. ASSUME SaveDocument \/ ResolveKeep  PROVE server' = server /\ Follows(h)
  <2>1. /\ doc \in DocType /\ Slot \in CallIds
        /\ UNCHANGED <<doc, server>> /\ (conflict' = conflict \/ conflict' = None)
    BY <1>1, <1>5, SlotIsFree DEF SaveDocument, ResolveKeep
  <2>2. \E base \in Nat, force \in BOOLEAN : SaveInternal(Slot, doc, base, force)
    <3>1. doc.rev \in Nat
      BY <2>1, DocFields
    <3>2. ResolveKeep => conflict.rev \in Nat
      BY DEF ResolveKeep, Typed, RestOK, Snapshot
    <3> QED
      BY <1>5, <3>1, <3>2 DEF SaveDocument, ResolveKeep
  <2>3. HonestRow(h, row') /\ HonestCalls(h, calls')
    BY <1>1, <2>1, <2>2, SaveInternalHonest
  <2> QED
    BY <1>1, <2>1, <2>3 DEF HonestBanner, Follows
<1>6. ASSUME RenameDocument  PROVE server' = server /\ Follows(h)
  <2> DEFINE renamed == [doc EXCEPT !.at = Now]
             op == IF known \/ doc.rev > 0 THEN "save" ELSE "publish"
  <2>1. doc \in DocType /\ renamed \in DocType /\ doc.rev \in Nat /\ op \in Ops
    BY <1>1, <1>6, DocFields DEF RenameDocument, DocType, Now, Typed, RestOK
  <2>2. HonestDoc(h, renamed)
    BY <1>1, <1>6, <2>1 DEF HonestDoc, DocType, RenameDocument
  <2>3. /\ doc' = renamed
        /\ row' = IF row = None THEN None ELSE [row EXCEPT !.at = Now, !.touched = TRUE]
        /\ UNCHANGED <<conflict, server>>
        /\ UNCHANGED calls \/ (MayCall /\ Become(Slot, Call(op, "sent", renamed, doc.rev)))
    BY <1>6 DEF RenameDocument
  <2>4. HonestRow(h, row')
    BY <1>1, <2>3 DEF HonestRow, Typed, LocalOK, RowType
  <2> HIDE DEF renamed, op
  <2>5. HonestCalls(h, calls')
    <3>1. HonestCall(h, Call(op, "sent", renamed, doc.rev))
      BY <2>1, <2>2, SentHonest
    <3> QED
      BY <1>1, <2>3, <3>1, BecomeHonest, SlotIsFree
  <2> QED
    BY <1>1, <2>2, <2>3, <2>4, <2>5 DEF Follows
<1>7. ASSUME RevertDocument  PROVE server' = server /\ Follows(h)
  <2>1. doc \in DocType
    BY <1>1, <1>7 DEF RevertDocument
  <2>2. doc' = [doc EXCEPT !.cur = doc.saved, !.dirty = FALSE]
        /\ UNCHANGED <<row, conflict, calls, server>>
    BY <1>7 DEF RevertDocument
  <2>3. doc'.held = doc.held /\ doc'.rev = doc.rev /\ doc'.saved = doc.saved /\ doc # None
    BY <1>7, <2>1, <2>2 DEF DocType, RevertDocument
  <2> QED
    BY <1>1, <2>2, <2>3 DEF HonestDoc, Follows
<1>8. ASSUME ResolveReload  PROVE server' = server /\ Follows(h)
  <2>1. doc \in DocType /\ conflict \in Snapshot /\ conflict # None
    BY <1>1, <1>8 DEF ResolveReload, Typed, RestOK
  <2>2. /\ doc' = Adopted(doc, conflict) /\ conflict' = None
        /\ Begin(Call("reload", "storing", doc', 0)) /\ UNCHANGED <<row, server>>
    BY <1>8 DEF ResolveReload
  <2>3. doc'.rev = conflict.rev /\ doc'.saved = conflict.content
    BY <2>1, <2>2 DEF Adopted, DocType
  <2>4. HonestDoc(h, doc')
    BY <1>1, <2>1, <2>3 DEF HonestDoc, HonestBanner
  <2>5. HonestCall(h, Call("reload", "storing", doc', 0))
    BY <2>4 DEF HonestCall, Call, NoReply
  <2>6. HonestCalls(h, calls')
    BY <1>1, <2>2, <2>5, BeginHonest
  <2> QED
    BY <1>1, <2>2, <2>4, <2>6 DEF HonestBanner, Follows
<1>9. ASSUME DiscardDocument  PROVE server' = server /\ Follows(h)
  <2>1. /\ UNCHANGED <<conflict, server>>
        /\ \/ UNCHANGED <<doc, row>> /\ Begin(Call("archive", "sent", doc, 0))
           \/ doc' = None /\ row' = None /\ UNCHANGED calls
    BY <1>9 DEF DiscardDocument, Drop
  <2>2. HonestCall(h, Call("archive", "sent", doc, 0))
    BY <1>1, SentHonest
  <2>3. HonestCalls(h, calls')
    BY <1>1, <2>1, <2>2, BeginHonest
  <2> QED
    BY <1>1, <2>1, <2>3 DEF HonestDoc, HonestRow, Follows
<1>10. server' = server /\ Follows(h)
  BY <1>2, <1>3, <1>4, <1>5, <1>6, <1>7, <1>8, <1>9 DEF User
<1> QED
  BY <1>10 DEF h

(* A content that is stored is the last of the history.                    *)
LEMMA LastIn ==
  ASSUME Typed, NEW content \in Contents, Stores(content)
  PROVE  /\ In(server'.hist, Len(server.hist), content)
         /\ \A rev, old : In(server.hist, rev, old) => In(server'.hist, rev, old)
<1>1. server.hist \in Seq(Contents) /\ server'.hist = Append(server.hist, content)
  BY StoreTypes DEF Typed, ServerOK, ServerType
<1> QED
  BY <1>1, HistoryGrows DEF In

LEMMA CurrentIn ==
  ASSUME Typed, Exists
  PROVE  In(server.hist, Current.rev, Current.content)
<1>1. server.hist \in Seq(Contents) /\ Len(server.hist) \in Nat \ {0}
  BY DEF Typed, ServerOK, ServerType, Exists
<1>2. Current.rev = Len(server.hist) - 1
  BY CurrentTypes DEF Revision
<1>3. Current.content = server.hist[Len(server.hist)]
  BY CurrentTypes
<1> QED
  BY <1>1, <1>2, <1>3 DEF In

LEMMA OtherHonest ==
  ASSUME Typed, Honest, Others
  PROVE  Follows(server'.hist)
<1>1. \A rev, old : In(server.hist, rev, old) => In(server'.hist, rev, old)
  <2>1. CASE OtherSaves
    <3>1. -count'["others"] \in Contents
      <4>1. count["others"] \in Nat /\ count["others"] < MaxOthers
            /\ count'["others"] = count["others"] + 1
        BY <2>1, CountTypes, SyncAssumption DEF OtherSaves, Bounded, Typed, RestOK
      <4> QED
        BY <4>1, SyncAssumption DEF Contents
    <3> QED
      BY <2>1, <3>1, LastIn DEF OtherSaves
  <2>2. CASE OtherArchives
    <3>1. server'.hist = server.hist
      BY <2>2 DEF OtherArchives, Typed, ServerOK, ServerType
    <3> QED
      BY <3>1
  <2> QED
    BY <2>1, <2>2 DEF Others
<1>2. UNCHANGED <<doc, row, conflict, calls>>
  BY DEF Others, OtherSaves, OtherArchives, local
<1> QED
  BY <1>1, <1>2, HonestyGrows DEF Honest, Follows

LEMMA AnswerHonest ==
  ASSUME Typed, NEW h, HonestCalls(h, calls), NEW k \in CallIds, calls[k].pc = "sent",
         NEW kind \in {"document", "conflict", "created", "existed", "missing", "list"},
         NEW value \in Snapshot \cup {None}, Answer(k, kind, value),
         calls[k].op \in {"save", "force"} /\ kind = "document" => In(h, value.rev, calls[k].local.cur),
         calls[k].op = "publish" => kind # "document"
                                    /\ (kind = "created" => In(h, 0, calls[k].local.cur)),
         calls[k].op \in {"save", "force"} => kind # "created",
         calls[k].op = "fetch" /\ kind = "document" => In(h, value.rev, value.content),
         kind = "conflict" => In(h, value.rev, value.content)
  PROVE  HonestCalls(h, calls')
<1> DEFINE reply == [kind |-> kind, value |-> value]
           call == [calls[k] EXCEPT !.pc = "answered", !.reply = reply]
<1>1. calls[k] \in CallType /\ HonestCall(h, calls[k]) /\ CallsOK
  BY DEF Typed, CallsOK, HonestCalls
<1>2. call.op = calls[k].op /\ call.pc = "answered" /\ call.local = calls[k].local
      /\ call.reply.kind = kind /\ call.reply.value = value
  BY <1>1 DEF CallType
<1>3. Become(k, call)
  BY DEF Answer
<1> HIDE DEF call
<1>4. HonestCall(h, call)
  BY <1>1, <1>2 DEF HonestCall
<1> QED
  BY <1>1, <1>3, <1>4, BecomeHonest

LEMMA ServeHonest ==
  ASSUME Typed, Honest, NEW k \in CallIds, Serve(k)
  PROVE  Follows(server'.hist)
<1> DEFINE h == server.hist
           g == server'.hist
<1>1. /\ calls[k] \in CallType /\ Placed(calls[k])
      /\ HonestCalls(h, calls)
  BY DEF Typed, CallsOK, Honest
<1>2. calls[k].pc = "sent" /\ UNCHANGED <<doc, row, conflict>>
  BY DEF Serve, ServeSave, ServeCreate, ServeGet, ServeList, ServeArchive, Asked, local
<1>3. (\A rev, old : In(h, rev, old) => In(g, rev, old)) /\ HonestCalls(g, calls')
  <2>1. CASE ServeSave(k)
    <3>1. calls[k].local \in DocType /\ calls[k].op \in {"save", "force"}
      BY <1>1, <2>1 DEF ServeSave, Asked, Placed
    <3>2. calls[k].local.cur \in Contents
      BY <3>1, DocFields
    <3>3. CASE ~server.live
      BY <1>1, <1>2, <2>1, <3>1, <3>3, AnswerHonest DEF ServeSave
    <3>4. CASE server.live /\ calls[k].base # Revision /\ calls[k].op # "force"
      <4>1. Current \in Snapshot /\ In(h, Current.rev, Current.content)
        BY <3>4, CurrentTypes, CurrentIn DEF Typed, ServerOK
      <4> QED
        BY <1>1, <1>2, <2>1, <3>1, <3>4, <4>1, AnswerHonest DEF ServeSave
    <3>5. CASE server.live /\ ~(calls[k].base # Revision /\ calls[k].op # "force")
      <4> DEFINE stored == [rev |-> Revision + 1, content |-> calls[k].local.cur, at |-> clock]
      <4>1. stored \in Snapshot
        BY <3>2, <3>5, CurrentTypes DEF Typed, ServerOK, RestOK, Snapshot
      <4>2. Stores(calls[k].local.cur) /\ Answer(k, "document", stored)
        BY <2>1, <3>5 DEF ServeSave
      <4>3. stored.rev = Len(server.hist)
        BY DEF Revision, Typed, ServerOK, ServerType
      <4>4. In(g, stored.rev, calls[k].local.cur)
            /\ \A rev, old : In(h, rev, old) => In(g, rev, old)
        BY <3>2, <4>2, <4>3, LastIn
      <4> HIDE DEF stored, h, g
      <4>5. HonestCalls(g, calls)
        BY <1>1, <4>4, HonestyGrows
      <4> QED
        BY <1>2, <3>1, <4>1, <4>2, <4>4, <4>5, AnswerHonest
    <3> QED
      BY <3>3, <3>4, <3>5
  <2>2. CASE ServeCreate(k)
    <3> DEFINE content == IF calls[k].op = "publish" THEN calls[k].local.cur
                          ELSE calls[k].local.saved
    <3>1. calls[k].local \in DocType /\ calls[k].op \in {"publish", "create"}
      BY <1>1, <2>2 DEF ServeCreate, Asked, Placed
    <3>2. content \in Contents
      BY <3>1, DocFields
    <3>3. CASE Exists
      <4>1. (Answer(k, "existed", None) \/ Answer(k, "missing", None)) /\ UNCHANGED server
        BY <2>2, <3>3 DEF ServeCreate
      <4> QED
        BY <1>1, <1>2, <3>1, <4>1, AnswerHonest
    <3>4. CASE ~Exists
      <4>1. Stores(content) /\ Answer(k, "created", None) /\ Len(server.hist) = 0
        BY <2>2, <3>4 DEF ServeCreate, Exists
      <4>2. In(g, 0, content) /\ \A rev, old : In(h, rev, old) => In(g, rev, old)
        BY <3>2, <4>1, LastIn
      <4>3. calls[k].op = "publish" => In(g, 0, calls[k].local.cur)
        BY <4>2
      <4> HIDE DEF h, g, content
      <4>4. HonestCalls(g, calls)
        BY <1>1, <4>2, HonestyGrows
      <4> QED
        BY <1>2, <3>1, <4>1, <4>2, <4>3, <4>4, AnswerHonest
    <3> QED
      BY <3>3, <3>4
  <2>3. CASE ServeGet(k)
    <3>1. calls[k].op = "fetch" /\ UNCHANGED server
      BY <2>3 DEF ServeGet, Asked
    <3>2. \/ Current \in Snapshot /\ In(h, Current.rev, Current.content)
             /\ Answer(k, "document", Current)
          \/ Answer(k, "missing", None)
      BY <2>3, CurrentTypes, CurrentIn DEF ServeGet, Typed, ServerOK
    <3> QED
      BY <1>1, <1>2, <3>1, <3>2, AnswerHonest
  <2>4. CASE ServeList(k)
    <3>1. calls[k].op = "sync" /\ UNCHANGED server
      BY <2>4 DEF ServeList, Asked
    <3>2. \E value \in Snapshot \cup {None} : Answer(k, "list", value)
      BY <2>4, CurrentTypes DEF ServeList, Typed, ServerOK
    <3> QED
      BY <1>1, <1>2, <3>1, <3>2, AnswerHonest
  <2>5. CASE ServeArchive(k)
    <3>1. calls[k].op = "archive" /\ Answer(k, "document", None)
      BY <2>5 DEF ServeArchive, Asked
    <3>2. g = h
      BY <2>5 DEF ServeArchive, Typed, ServerOK, ServerType
    <3> QED
      BY <1>1, <1>2, <3>1, <3>2, AnswerHonest
  <2> QED
    BY <2>1, <2>2, <2>3, <2>4, <2>5 DEF Serve
<1> QED
  BY <1>2, <1>3, HonestyGrows DEF Honest, Follows

LEMMA SaveAnsweredHonest ==
  ASSUME Typed, NEW h, HonestDoc(h, doc), HonestRow(h, row), HonestBanner(h, conflict),
         HonestCalls(h, calls), NEW k \in CallIds, SaveAnswered(k)
  PROVE  Follows(h)
<1> DEFINE reply == calls[k].reply
           rev == IF reply.kind = "document" THEN reply.value.rev ELSE 0
<1>1. /\ calls[k] \in CallType /\ Placed(calls[k]) /\ HonestCall(h, calls[k]) /\ CallsOK
      /\ calls[k].op \in {"save", "force", "publish"} /\ calls[k].pc = "answered"
      /\ doc' = doc
  BY DEF SaveAnswered, Answered, Typed, CallsOK, HonestCalls
<1>2. calls[k].local \in DocType /\ HonestDoc(h, calls[k].local)
  BY <1>1 DEF Placed, HonestCall
<1>3. CASE reply.kind \in {"document", "created", "existed"}
  <2>1. StoreSave(k, calls[k].local, rev, reply.kind # "existed") /\ conflict' = conflict
    BY <1>3 DEF SaveAnswered
  <2>2. (reply.kind # "existed") \in BOOLEAN
    OBVIOUS
  <2>3. reply.kind = "document" => reply.value \in Snapshot
    BY <1>1 DEF Placed
  <2>4. rev \in Nat
    BY <2>3 DEF Snapshot
  <2>5. reply.kind # "existed" => In(h, rev, calls[k].local.cur)
    <3>1. CASE reply.kind = "document"
      BY <1>1, <3>1 DEF HonestCall
    <3>2. CASE reply.kind = "created"
      BY <1>1, <3>2 DEF HonestCall
    <3> QED
      BY <1>3, <3>1, <3>2
  <2> HIDE DEF rev
  <2>6. HonestRow(h, row') /\ HonestCalls(h, calls')
    BY <1>2, <2>1, <2>2, <2>4, <2>5, StoreSaveHonest
  <2> QED
    BY <1>1, <2>1, <2>6 DEF Follows
<1>4. CASE reply.kind \notin {"document", "created", "existed"}
  <2>1. conflict' = (IF reply.kind = "conflict" THEN reply.value ELSE conflict)
        /\ End(k) /\ row' = row
    BY <1>4 DEF SaveAnswered
  <2>2. HonestBanner(h, conflict')
    BY <1>1, <2>1 DEF HonestCall, HonestBanner
  <2>3. HonestCalls(h, calls')
    BY <1>1, <2>1, EndHonest
  <2> QED
    BY <1>1, <2>1, <2>2, <2>3 DEF Follows
<1> QED
  BY <1>3, <1>4

LEMMA AdoptHonest ==
  ASSUME Typed, NEW h, HonestDoc(h, doc), HonestRow(h, row), HonestBanner(h, conflict),
         HonestCalls(h, calls), NEW k \in CallIds, Adopt(k)
  PROVE  Follows(h)
<1> DEFINE read == calls[k].local
           got == calls[k].reply.value
           adopted == IF read = None THEN Fetched(got) ELSE Adopted(read, got)
<1>1. /\ calls[k] \in CallType /\ Placed(calls[k]) /\ HonestCall(h, calls[k])
      /\ calls[k].op = "fetch" /\ calls[k].pc = "answered"
      /\ HonestCalls(h, calls')
  BY EndHonest DEF Adopt, Answered, Typed, CallsOK, HonestCalls
<1>2. read \in DocType \cup {None}
  BY <1>1 DEF CallType
<1>3. CASE calls[k].reply.kind = "missing"
  BY <1>1, <1>3 DEF Adopt, local, Follows
<1>4. CASE calls[k].reply.kind # "missing"
  <2>1. got \in Snapshot /\ In(h, got.rev, got.content)
    BY <1>1, <1>4 DEF Placed, HonestCall
  <2>2. CASE Clean(read)
    <3>1. doc' = adopted /\ UNCHANGED conflict
          /\ row' = [RowOf(adopted, got.at) EXCEPT !.shared = TRUE]
      BY <1>4, <2>2 DEF Adopt, WriteBack
    <3>2. adopted.rev = got.rev /\ adopted.saved = got.content
      BY <1>2 DEF Fetched, Adopted, DocType
    <3> HIDE DEF adopted
    <3>3. row'.rev = got.rev /\ row'.content = got.content
      BY <3>1, <3>2 DEF RowOf
    <3> QED
      BY <1>1, <2>1, <3>1, <3>2, <3>3 DEF HonestDoc, HonestRow, Follows
  <2>3. CASE ~Clean(read)
    <3>1. read \in DocType
      BY <1>2, <2>3 DEF Clean
    <3>2. doc' = [read EXCEPT !.saved = got.content, !.rev = got.rev, !.held = TRUE]
          /\ conflict' = got /\ row' = row
      BY <1>4, <2>3 DEF Adopt, WriteBack
    <3>3. doc'.rev = got.rev /\ doc'.saved = got.content
      BY <3>1, <3>2 DEF DocType
    <3> QED
      BY <1>1, <2>1, <3>2, <3>3 DEF HonestDoc, HonestBanner, Follows
  <2> QED
    BY <2>2, <2>3
<1> QED
  BY <1>3, <1>4

LEMMA SyncHonest ==
  ASSUME Typed, NEW h, HonestDoc(h, doc), HonestRow(h, row), HonestBanner(h, conflict),
         HonestCalls(h, calls), NEW k \in CallIds, SyncFromServer(k)
  PROVE  Follows(h)
<1>1. \/ Become(k, Call("fetch", "sent", doc, 0)) /\ UNCHANGED local
      \/ doc # None /\ SaveInternal(k, doc, doc.rev, FALSE) /\ doc' = doc
      \/ /\ doc # None
         /\ doc' = [doc EXCEPT !.shared = TRUE]
         /\ row' = [RowOf(doc', doc.at) EXCEPT !.touched = TRUE]
         /\ End(k)
      \/ Become(k, Call("create", "sent", doc, 0)) /\ UNCHANGED local
      \/ End(k) /\ UNCHANGED local
  BY DEF SyncFromServer
<1>2. /\ doc \in DocType \cup {None} /\ {"fetch", "create"} \subseteq Ops /\ 0 \in Nat
      /\ CallsOK /\ conflict' = conflict /\ FALSE \in BOOLEAN
  BY DEF Typed, LocalOK, Ops, SyncFromServer
<1>3. HonestCall(h, Call("fetch", "sent", doc, 0)) /\ HonestCall(h, Call("create", "sent", doc, 0))
  BY <1>2, SentHonest
<1>4. CASE \E op \in {"fetch", "create"} : Become(k, Call(op, "sent", doc, 0)) /\ UNCHANGED local
  BY <1>2, <1>3, <1>4, BecomeHonest DEF local, Follows
<1>5. CASE doc # None /\ SaveInternal(k, doc, doc.rev, FALSE) /\ doc' = doc
  <2>1. doc \in DocType /\ doc.rev \in Nat
    BY <1>2, <1>5, DocFields
  <2>2. HonestRow(h, row') /\ HonestCalls(h, calls')
    BY <1>2, <1>5, <2>1, SaveInternalHonest
  <2> QED
    BY <1>2, <1>5, <2>2 DEF Follows
<1>6. CASE /\ doc # None
           /\ doc' = [doc EXCEPT !.shared = TRUE]
           /\ row' = [RowOf(doc', doc.at) EXCEPT !.touched = TRUE]
           /\ End(k)
  <2>1. doc'.rev = doc.rev /\ doc'.saved = doc.saved /\ doc'.held = doc.held
    BY <1>2, <1>6 DEF DocType
  <2>2. row'.rev = doc'.rev /\ row'.content = doc'.saved /\ row'.held = doc'.held
    BY <1>6 DEF RowOf
  <2>3. HonestDoc(h, doc') /\ HonestRow(h, row')
    BY <1>6, <2>1, <2>2 DEF HonestDoc, HonestRow
  <2> QED
    BY <1>2, <1>6, <2>3, EndHonest DEF Follows
<1>7. CASE End(k) /\ UNCHANGED local
  BY <1>2, <1>7, EndHonest DEF local, Follows
<1> QED
  BY <1>1, <1>4, <1>5, <1>6, <1>7

LEMMA FinishHonest ==
  ASSUME Typed, NEW h, HonestDoc(h, doc), HonestRow(h, row), HonestBanner(h, conflict),
         HonestCalls(h, calls), NEW k \in CallIds, FinishSave(k) \/ FinishReload(k)
  PROVE  Follows(h)
<1>1. /\ calls[k] \in CallType /\ Placed(calls[k]) /\ HonestCall(h, calls[k])
      /\ HonestCalls(h, calls') /\ conflict' = conflict
  BY EndHonest DEF Typed, CallsOK, HonestCalls, FinishSave, FinishReload
<1>2. CASE FinishSave(k)
  <2> DEFINE stored == calls[k].reply.value
             held == calls[k].reply.kind = "document"
  <2>1. calls[k].local \in DocType
    BY <1>1, <1>2 DEF FinishSave, Placed
  <2>2. doc' = [calls[k].local EXCEPT !.saved = stored.content, !.rev = stored.rev,
                  !.dirty = FALSE, !.at = stored.at, !.held = held]
        /\ row' = row
    BY <1>2 DEF FinishSave
  <2>3. held => In(h, stored.rev, stored.content)
    BY <1>1, <1>2 DEF FinishSave, HonestCall
  <2> HIDE DEF held, stored
  <2>4. doc'.held = held /\ doc'.rev = stored.rev /\ doc'.saved = stored.content
    BY <2>1, <2>2 DEF DocType
  <2> QED
    BY <1>1, <2>2, <2>3, <2>4 DEF HonestDoc, Follows
<1>3. CASE FinishReload(k)
  <2>1. row' = [RowOf(calls[k].local, calls[k].local.at) EXCEPT !.shared = FALSE] /\ doc' = doc
    BY <1>3 DEF FinishReload
  <2>2. row'.rev = calls[k].local.rev /\ row'.content = calls[k].local.saved
        /\ row'.held = calls[k].local.held
    BY <2>1 DEF RowOf
  <2>3. calls[k].local # None
    BY <1>1, <1>3, NoneAssumption DEF FinishReload, Placed
  <2> QED
    BY <1>1, <2>1, <2>2, <2>3 DEF HonestCall, HonestDoc, HonestRow, Follows
<1> QED
  BY <1>2, <1>3

LEMMA FailHonest ==
  ASSUME Typed, NEW h, HonestDoc(h, doc), HonestRow(h, row), HonestBanner(h, conflict),
         HonestCalls(h, calls), NEW k \in CallIds, RequestFails(k) \/ TimeOut(k)
  PROVE  Follows(h)
<1>1. /\ calls[k] \in CallType /\ Placed(calls[k]) /\ HonestCall(h, calls[k]) /\ CallsOK
      /\ GiveUp(k) /\ conflict' = conflict /\ FALSE \in BOOLEAN
  BY DEF RequestFails, TimeOut, Typed, CallsOK, HonestCalls
<1>2. CASE calls[k].op \in {"save", "force", "publish"}
  <2>1. calls[k].local \in DocType /\ calls[k].base + 1 \in Nat /\ HonestDoc(h, calls[k].local)
    BY <1>1, <1>2 DEF Placed, CallType, HonestCall
  <2>2. StoreSave(k, calls[k].local, calls[k].base + 1, FALSE) /\ doc' = doc
    BY <1>1, <1>2 DEF GiveUp
  <2>3. HonestRow(h, row') /\ HonestCalls(h, calls')
    BY <1>1, <2>1, <2>2, StoreSaveHonest
  <2> QED
    BY <1>1, <2>2, <2>3 DEF Follows
<1>3. CASE calls[k].op \notin {"save", "force", "publish"}
  <2>1. End(k) /\ (UNCHANGED <<doc, row>> \/ (doc' = None /\ row' = None))
    BY <1>1, <1>3 DEF GiveUp, Drop, local
  <2> QED
    BY <1>1, <2>1, EndHonest DEF HonestDoc, HonestRow, Follows
<1> QED
  BY <1>2, <1>3

LEMMA ProceedHonest ==
  ASSUME Typed, NEW h, HonestDoc(h, doc), HonestRow(h, row), HonestBanner(h, conflict),
         HonestCalls(h, calls), NEW k \in CallIds, Proceed(k) \/ TimeOut(k)
  PROVE  Follows(h)
<1>1. ASSUME CreateAnswered(k) \/ ArchiveAnswered(k)  PROVE Follows(h)
  <2>1. /\ End(k) /\ conflict' = conflict
        /\ (UNCHANGED <<doc, row>> \/ (doc' = None /\ row' = None))
    BY <1>1 DEF CreateAnswered, ArchiveAnswered, Drop, local
  <2> QED
    BY <2>1, EndHonest DEF Typed, HonestDoc, HonestRow, Follows
<1> QED
  BY <1>1, SaveAnsweredHonest, AdoptHonest, SyncHonest, FinishHonest, FailHonest DEF Proceed

LEMMA ChangeHonest ==
  ASSUME Typed, NEW h, HonestDoc(h, doc), HonestRow(h, row), HonestBanner(h, conflict),
         HonestCalls(h, calls), NEW e \in events, ApplyServerChange(e)
  PROVE  Follows(h)
<1>1. /\ (UNCHANGED <<doc, row>> \/ (doc' = None /\ row' = None))
      /\ UNCHANGED calls \/ Begin(Call("fetch", "sent", doc, 0))
      /\ conflict' = conflict
  BY DEF ApplyServerChange
<1>2. HonestCall(h, Call("fetch", "sent", doc, 0))
  <2>1. "fetch" \in Ops /\ doc \in DocType \cup {None} /\ 0 \in Nat
    BY DEF Ops, Typed, LocalOK
  <2> QED
    BY <2>1, SentHonest
<1>3. HonestCalls(h, calls')
  BY <1>1, <1>2, BeginHonest DEF Typed
<1> QED
  BY <1>1, <1>3 DEF HonestDoc, HonestRow, Follows

LEMMA SocketHonest ==
  ASSUME Typed, NEW h, HonestDoc(h, doc), HonestRow(h, row), HonestBanner(h, conflict),
         HonestCalls(h, calls), Checkpoint \/ Disconnect \/ Connect
  PROVE  Follows(h)
<1>1. /\ UNCHANGED <<doc, row, conflict>>
      /\ UNCHANGED calls \/ Begin(Call("sync", "sent", None, 0))
  BY DEF Checkpoint, Disconnect, Connect, local
<1>2. HonestCall(h, Call("sync", "sent", None, 0))
  BY DEF Call, HonestCall, HonestDoc
<1>3. HonestCalls(h, calls')
  BY <1>1, <1>2, BeginHonest DEF Typed
<1> QED
  BY <1>1, <1>3 DEF Follows

(* A tab loaded again takes the revision from the row.                     *)
LEMMA RestartHonest ==
  ASSUME NEW h, HonestRow(h, row), Restart
  PROVE  Follows(h)
<1>1. HonestDoc(h, Recovered)
  <2>1. CASE row = None
    BY <2>1 DEF Recovered, HonestDoc
  <2>2. CASE row # None
    <3>1. Recovered.rev = row.rev /\ Recovered.saved = row.content /\ Recovered.held = row.held
      BY <2>2 DEF Recovered
    <3> QED
      BY <2>2, <3>1 DEF HonestDoc, HonestRow
  <2> QED
    BY <2>1, <2>2
<1>2. HonestCalls(h, calls')
  BY IdleHonest DEF Restart, HonestCalls
<1> QED
  BY <1>1, <1>2 DEF Restart, HonestBanner, Follows

LEMMA StepHonest == Typed /\ Honest /\ [Next]_vars => Honest'
<1> SUFFICES ASSUME Typed, Honest, [Next]_vars PROVE Honest'
  OBVIOUS
<1>1. Follows(server'.hist)
  <2>1. CASE Others \/ (\E k \in CallIds : Serve(k))
    BY <2>1, OtherHonest, ServeHonest
  <2>2. CASE User
    <3>1. server' = server /\ Follows(server.hist)
      BY <2>2, UserHonest
    <3> QED
      BY <3>1
  <2>3. CASE \/ Checkpoint \/ Disconnect \/ Connect \/ Restart
             \/ \E k \in CallIds : Proceed(k) \/ TimeOut(k)
             \/ \E e \in events : ApplyServerChange(e)
    <3>1. server' = server
      <4>1. ASSUME NEW k \in CallIds, Proceed(k) \/ TimeOut(k)  PROVE server' = server
        BY <4>1 DEF Proceed, SaveAnswered, CreateAnswered, ArchiveAnswered, Adopt, SyncFromServer,
                    FinishSave, FinishReload, RequestFails, TimeOut
      <4>2. ASSUME NEW e \in events, ApplyServerChange(e)  PROVE server' = server
        BY <4>2 DEF ApplyServerChange
      <4> QED
        BY <2>3, <4>1, <4>2 DEF Checkpoint, Disconnect, Connect, Restart
    <3>2. Follows(server.hist)
      BY <2>3, ProceedHonest, ChangeHonest, SocketHonest, RestartHonest DEF Honest
    <3> QED
      BY <3>1, <3>2
  <2>4. CASE UNCHANGED vars
    <3>1. UNCHANGED <<doc, row, conflict, calls, server>>
      BY <2>4 DEF vars, local
    <3> QED
      BY <3>1 DEF Honest, Follows
  <2> QED
    BY <2>1, <2>2, <2>3, <2>4 DEF Next
<1> QED
  BY <1>1 DEF Follows, Honest

LEMMA InitHonest == Init => Honest
  BY IdleHonest DEF Init, Honest, HonestDoc, HonestRow, HonestBanner, HonestCalls

LEMMA AlwaysHonest == Spec => []Honest
  BY AlwaysTyped, InitHonest, StepHonest, PTL DEF Spec

(* What the store, IndexedDB or the banner shows under a revision the      *)
(* server acknowledged is what the server has under it, however saves,     *)
(* answers, fetches, restarts and other people's saves overlap: the server *)
(* compares the base before it stores, a save is answered with what it     *)
(* sent, and adopt() takes content and revision from one answer            *)
(* (apps/web/src/stores/documents.ts: saveInternal, fetchServerDocument).  *)
THEOREM OneContentPerRevision == Spec => []RevisionNamesContent
  BY AlwaysHonest, HonestIsEnough, PTL

-----------------------------------------------------------------------------
(* Everything is of the past: no content is newer than the last typing n,  *)
(* no time is after t.  What is typed next is therefore new, and so is the *)
(* time at which it is typed.                                              *)

PastDoc(n, t, d) == d # None => d.cur <= n /\ d.saved <= n /\ d.at <= t
PastText(n, t, x) == x # None => x.content <= n /\ x.at <= t
PastCall(n, t, c) == PastDoc(n, t, c.local) /\ PastText(n, t, c.reply.value)
PastCalls(n, t, cs) == \A k \in CallIds : PastCall(n, t, cs[k])
PastServer(n, t, s) == (\A i \in DOMAIN s.hist : s.hist[i] <= n) /\ s.at <= t

Past(n, t) ==
  /\ PastDoc(n, t, doc)
  /\ PastText(n, t, row) /\ PastText(n, t, draft) /\ PastText(n, t, pending)
  /\ PastText(n, t, conflict)
  /\ PastCalls(n, t, calls)
  /\ PastServer(n, t, server)
AllPast == Past(count["typed"], clock)

(* What a step leaves.                                                     *)
Leaves(n, t) ==
  /\ PastDoc(n, t, doc')
  /\ PastText(n, t, row') /\ PastText(n, t, draft') /\ PastText(n, t, pending')
  /\ PastText(n, t, conflict')
  /\ PastCalls(n, t, calls')
  /\ PastServer(n, t, server')

LEMMA ContentsAreInts == Contents \subseteq Int
  BY SyncAssumption DEF Contents

LEMMA PastGrows ==
  ASSUME NEW n \in Int, NEW t \in Int, NEW m \in Int, NEW u \in Int, n <= m, t <= u, Typed, Past(n, t)
  PROVE  Past(m, u)
<1>1. \A d \in DocType \cup {None} : PastDoc(n, t, d) => PastDoc(m, u, d)
  <2>1. \A d \in DocType : d.cur \in Int /\ d.saved \in Int /\ d.at \in Int
    <3>1. ASSUME NEW d \in DocType  PROVE d.cur \in Int /\ d.saved \in Int /\ d.at \in Int
      <4>1. d.cur \in Contents /\ d.saved \in Contents /\ d.at \in Nat
        BY DocFields
      <4>2. d.cur \in Int /\ d.saved \in Int
        BY <4>1, ContentsAreInts
      <4>3. d.at \in Int
        BY <4>1
      <4> QED
        BY <4>2, <4>3
    <3> QED
      BY <3>1
  <2> QED
    BY <2>1 DEF PastDoc
<1>2. \A x \in RowType \cup DraftType \cup Snapshot \cup {None} : PastText(n, t, x) => PastText(m, u, x)
  <2>1. \A x \in RowType \cup DraftType \cup Snapshot : x.content \in Int /\ x.at \in Int
    BY ContentsAreInts DEF RowType, DraftType, Snapshot
  <2> QED
    BY <2>1 DEF PastText
<1>3. ASSUME NEW k \in CallIds  PROVE PastCall(m, u, calls[k])
  <2>1. calls[k].local \in DocType \cup {None} /\ calls[k].reply.value \in Snapshot \cup {None}
    BY DEF Typed, CallsOK, CallType, ReplyType
  <2>2. PastCall(n, t, calls[k])
    BY DEF Past, PastCalls
  <2> QED
    BY <1>1, <1>2, <2>1, <2>2 DEF PastCall
<1>4. PastServer(m, u, server)
  <2>1. server.at \in Nat /\ server.hist \in Seq(Contents)
    BY DEF Typed, ServerOK, ServerType
  <2>2. \A i \in DOMAIN server.hist : server.hist[i] \in Int
    <3>1. \A i \in DOMAIN server.hist : server.hist[i] \in Contents
      BY <2>1
    <3> QED
      BY <3>1, ContentsAreInts
  <2> QED
    BY <2>1, <2>2 DEF Past, PastServer
<1> QED
  BY <1>1, <1>2, <1>3, <1>4 DEF Past, PastCalls, Typed, LocalOK, RestOK

(* The records the methods make.                                           *)
LEMMA PastRecords ==
  ASSUME NEW n, NEW t, NEW d \in DocType, PastDoc(n, t, d), d # None
  PROVE  /\ PastText(n, t, CheckpointOf(d))
         /\ \A at : at <= t =>
              /\ PastText(n, t, RowOf(d, at))
              /\ PastText(n, t, [RowOf(d, at) EXCEPT !.shared = TRUE])
              /\ PastText(n, t, [RowOf(d, at) EXCEPT !.shared = FALSE])
              /\ PastText(n, t, [RowOf(d, at) EXCEPT !.touched = TRUE])
              /\ \A rev, held : PastText(n, t, [RowOf(d, at) EXCEPT !.content = d.cur, !.rev = rev,
                                                                    !.held = held])
  BY DEF PastDoc, PastText, CheckpointOf, RowOf

LEMMA PastAdopted ==
  ASSUME NEW n, NEW t, NEW s \in Snapshot, PastText(n, t, s), s # None
  PROVE  PastDoc(n, t, Fetched(s)) /\ \A d \in DocType : PastDoc(n, t, Adopted(d, s))
  BY DEF PastDoc, PastText, Fetched, Adopted, DocType

LEMMA SentPast ==
  ASSUME NEW n, NEW t, NEW op \in Ops, NEW d \in DocType \cup {None}, NEW base \in Nat,
         NEW pc \in {"sent", "answered", "storing"}, PastDoc(n, t, d)
  PROVE  PastCall(n, t, Call(op, pc, d, base))
  BY CallTypes DEF PastCall, PastText, NoReply

LEMMA IdlePast == \A n, t : PastCall(n, t, Idle)
  BY DEF PastCall, PastDoc, PastText, Idle, NoReply

LEMMA BecomePast ==
  ASSUME CallsOK, NEW n, NEW t, PastCalls(n, t, calls), NEW k \in CallIds, NEW call,
         PastCall(n, t, call), Become(k, call)
  PROVE  PastCalls(n, t, calls')
  BY DEF CallsOK, PastCalls, Become

LEMMA EndPast ==
  ASSUME CallsOK, NEW n, NEW t, PastCalls(n, t, calls), NEW k \in CallIds, End(k)
  PROVE  PastCalls(n, t, calls')
  BY IdlePast, BecomePast DEF End

LEMMA BeginPast ==
  ASSUME CallsOK, NEW n, NEW t, PastCalls(n, t, calls), NEW call, PastCall(n, t, call), Begin(call)
  PROVE  PastCalls(n, t, calls')
  BY SlotIsFree, BecomePast DEF Begin, Become

LEMMA StoreSavePast ==
  ASSUME Typed, NEW n, NEW t, PastCalls(n, t, calls), NEW k \in CallIds, NEW d \in DocType,
         NEW rev \in Nat, NEW held \in BOOLEAN, StoreSave(k, d, rev, held), PastDoc(n, t, d), Now <= t
  PROVE  PastText(n, t, row') /\ PastCalls(n, t, calls')
<1> DEFINE stored == [rev |-> rev, content |-> d.cur, at |-> Now]
           reply == [kind |-> IF held THEN "document" ELSE "none", value |-> stored]
           call == [Call("save", "storing", d, 0) EXCEPT !.reply = reply]
<1>1. row' = [RowOf(d, Now) EXCEPT !.content = d.cur, !.rev = rev, !.held = held]
  BY DEF StoreSave
<1>2. d # None
  BY NoneAssumption
<1>3. PastText(n, t, row')
  BY <1>1, <1>2, PastRecords
<1>4. call.local = d /\ call.reply = reply
  BY DEF Call
<1>5. stored.content = d.cur /\ stored.at = Now /\ reply.value = stored
  OBVIOUS
<1> HIDE DEF call, reply, stored
<1>6. PastCall(n, t, call)
  BY <1>2, <1>4, <1>5 DEF PastCall, PastDoc, PastText
<1>7. Become(k, call)
  BY DEF StoreSave, call, reply, stored
<1> QED
  BY <1>3, <1>6, <1>7, BecomePast DEF Typed

LEMMA SaveInternalPast ==
  ASSUME Typed, NEW n, NEW t, PastCalls(n, t, calls), PastText(n, t, row), NEW k \in CallIds,
         NEW d \in DocType, NEW base \in Nat, NEW force \in BOOLEAN,
         SaveInternal(k, d, base, force), PastDoc(n, t, d), ~online => Now <= t
  PROVE  PastText(n, t, row') /\ PastCalls(n, t, calls') /\ PastText(n, t, pending')
<1>1. CASE online
  <2> DEFINE op == IF known \/ base > 0 THEN IF force THEN "force" ELSE "save" ELSE "publish"
  <2>1. op \in Ops
    BY DEF Ops
  <2>2. Become(k, Call(op, "sent", d, base)) /\ row' = row
    BY <1>1 DEF SaveInternal
  <2> HIDE DEF op
  <2>3. PastCalls(n, t, calls')
    BY <2>1, <2>2, SentPast, BecomePast DEF Typed
  <2> QED
    BY <2>2, <2>3 DEF SaveInternal, PastText
<1>2. CASE ~online
  <2>1. StoreSave(k, d, base + 1, FALSE)
    BY <1>2 DEF SaveInternal
  <2>2. base + 1 \in Nat /\ FALSE \in BOOLEAN
    OBVIOUS
  <2>3. PastText(n, t, row') /\ PastCalls(n, t, calls')
    BY <1>2, <2>1, <2>2, StoreSavePast
  <2> QED
    BY <2>3 DEF SaveInternal, PastText
<1>3. online \in BOOLEAN
  BY DEF Typed, RestOK
<1> QED
  BY <1>1, <1>2, <1>3

(* n and t are after the step as well as before it.                        *)
After(n, t) ==
  /\ n \in Nat /\ t \in Nat
  /\ clock <= t /\ clock' <= t
  /\ count'["typed"] <= n

LEMMA UserPast ==
  ASSUME Typed, NEW n, NEW t, Past(n, t), After(n, t), User
  PROVE  Leaves(n, t)
<1>1. /\ PastDoc(n, t, doc) /\ PastText(n, t, row) /\ PastText(n, t, draft)
      /\ PastText(n, t, pending) /\ PastText(n, t, conflict) /\ PastCalls(n, t, calls)
      /\ PastServer(n, t, server)
      /\ CallsOK /\ doc \in DocType \cup {None} /\ 0 \in Nat
      /\ {"create", "archive", "save", "publish", "reload"} \subseteq Ops
      /\ Tick => Now <= t
  BY DEF Past, Typed, LocalOK, Ops, Tick, After
<1>2. ASSUME NEW shared \in BOOLEAN, CreateDocument(shared)
      PROVE  Leaves(n, t)
  <2> DEFINE d == [cur |-> 0, saved |-> 0, rev |-> 0, dirty |-> FALSE, shared |-> shared,
                   at |-> Now, held |-> FALSE]
  <2>1. d \in DocType /\ Now <= t
    BY <1>1, <1>2, ZeroIsContent DEF CreateDocument, Now, Typed, RestOK, DocType
  <2>2. PastDoc(n, t, d)
    BY <2>1 DEF PastDoc, After
  <2>3. doc' = d /\ row' = RowOf(d, Now) /\ UNCHANGED <<draft, pending, conflict, server>>
        /\ (Begin(Call("create", "sent", d, 0)) \/ UNCHANGED calls)
    BY <1>2 DEF CreateDocument
  <2> HIDE DEF d
  <2>4. PastText(n, t, row')
    BY <2>1, <2>2, <2>3, PastRecords, NoneAssumption
  <2>5. PastCall(n, t, Call("create", "sent", d, 0))
    BY <1>1, <2>1, <2>2, SentPast
  <2>6. PastCalls(n, t, calls')
    BY <1>1, <2>3, <2>5, BeginPast
  <2> QED
    BY <1>1, <2>2, <2>3, <2>4, <2>6 DEF Leaves
<1>3. ASSUME NEW content \in Contents, UpdateContent(content), content <= n
      PROVE  Leaves(n, t)
  <2>1. doc \in DocType /\ doc # None /\ Now <= t
    BY <1>1, <1>3 DEF UpdateContent
  <2>2. doc' = [doc EXCEPT !.cur = content, !.dirty = content # doc.saved, !.at = Now]
        /\ pending' = CheckpointOf(doc')
        /\ UNCHANGED <<row, draft, conflict, calls, server>>
    BY <1>3 DEF UpdateContent
  <2>3. doc'.cur = content /\ doc'.saved = doc.saved /\ doc'.at = Now
    BY <2>1, <2>2 DEF DocType
  <2>4. PastDoc(n, t, doc')
    BY <1>1, <1>3, <2>1, <2>3 DEF PastDoc
  <2>5. PastText(n, t, pending')
    BY <1>3, <2>1, <2>2, <2>3 DEF PastText, CheckpointOf
  <2> QED
    BY <1>1, <2>2, <2>4, <2>5 DEF Leaves
<1>4. ASSUME UpdateContent(count["typed"] + 1)
      PROVE  Leaves(n, t)
  <2>1. count["typed"] \in Nat /\ count["typed"] < MaxTyped /\ count'["typed"] = count["typed"] + 1
    BY <1>4, CountTypes, SyncAssumption DEF UpdateContent, Bounded, Typed, RestOK
  <2>2. count["typed"] + 1 \in Contents /\ count["typed"] + 1 <= n
    BY <2>1, SyncAssumption DEF Contents, After
  <2> QED
    BY <1>3, <1>4, <2>2
<1>5. ASSUME doc # None, UpdateContent(doc.saved)
      PROVE  Leaves(n, t)
  <2>1. doc.saved \in Contents /\ doc.saved <= n
    BY <1>1, <1>5, DocFields DEF PastDoc
  <2> QED
    BY <1>3, <1>5, <2>1
<1>6. ASSUME ReleaseModel  PROVE Leaves(n, t)
  <2>1. doc \in DocType /\ doc # None
    BY <1>1, <1>6 DEF ReleaseModel
  <2>2. PastText(n, t, CheckpointOf(doc))
    BY <1>1, <2>1 DEF PastDoc, PastText, CheckpointOf
  <2> QED
    BY <1>1, <1>6, <2>2 DEF ReleaseModel, Leaves, PastText
<1>7. ASSUME SaveDocument \/ ResolveKeep  PROVE Leaves(n, t)
  <2>1. /\ doc \in DocType /\ Slot \in CallIds
        /\ UNCHANGED <<doc, draft, server>> /\ (conflict' = conflict \/ conflict' = None)
    BY <1>1, <1>7, SlotIsFree DEF SaveDocument, ResolveKeep
  <2>2. \E base \in Nat, force \in BOOLEAN : SaveInternal(Slot, doc, base, force)
    <3>1. doc.rev \in Nat
      BY <2>1, DocFields
    <3>2. ResolveKeep => conflict.rev \in Nat
      BY DEF ResolveKeep, Typed, RestOK, Snapshot
    <3> QED
      BY <1>7, <3>1, <3>2 DEF SaveDocument, ResolveKeep
  <2>3. \A base, force : SaveInternal(Slot, doc, base, force) /\ ~online => Now <= t
    BY <1>1 DEF SaveInternal, StoreSave
  <2>4. PastText(n, t, row') /\ PastCalls(n, t, calls') /\ PastText(n, t, pending')
    BY <1>1, <2>1, <2>2, <2>3, SaveInternalPast
  <2> QED
    BY <1>1, <2>1, <2>4 DEF PastText, Leaves
<1>8. ASSUME RenameDocument  PROVE Leaves(n, t)
  <2> DEFINE renamed == [doc EXCEPT !.at = Now]
             op == IF known \/ doc.rev > 0 THEN "save" ELSE "publish"
  <2>1. /\ doc \in DocType /\ doc # None /\ renamed \in DocType /\ doc.rev \in Nat /\ op \in Ops
        /\ Now <= t
    BY <1>1, <1>8, DocFields DEF RenameDocument, DocType, Now, Typed, RestOK
  <2>2. PastDoc(n, t, renamed)
    BY <1>1, <2>1 DEF PastDoc, DocType
  <2>3. /\ doc' = renamed
        /\ row' = IF row = None THEN None ELSE [row EXCEPT !.at = Now, !.touched = TRUE]
        /\ UNCHANGED <<draft, conflict, server>>
        /\ pending' = pending \/ pending' = None
        /\ UNCHANGED calls \/ (MayCall /\ Become(Slot, Call(op, "sent", renamed, doc.rev)))
    BY <1>8 DEF RenameDocument
  <2>4. PastText(n, t, row')
    BY <1>1, <2>1, <2>3 DEF PastText, Typed, LocalOK, RowType
  <2> HIDE DEF renamed, op
  <2>5. PastCall(n, t, Call(op, "sent", renamed, doc.rev))
    BY <2>1, <2>2, SentPast
  <2>6. PastCalls(n, t, calls')
    BY <1>1, <2>3, <2>5, BecomePast, SlotIsFree
  <2> QED
    BY <1>1, <2>2, <2>3, <2>4, <2>6 DEF PastText, Leaves
<1>9. ASSUME RevertDocument  PROVE Leaves(n, t)
  <2>1. doc \in DocType /\ doc # None
    BY <1>1, <1>9 DEF RevertDocument
  <2>2. doc' = [doc EXCEPT !.cur = doc.saved, !.dirty = FALSE]
        /\ UNCHANGED <<row, conflict, calls, server>> /\ pending' = None /\ draft' = None
    BY <1>9 DEF RevertDocument
  <2>3. doc'.cur = doc.saved /\ doc'.saved = doc.saved /\ doc'.at = doc.at
    BY <2>1, <2>2 DEF DocType
  <2> QED
    BY <1>1, <2>1, <2>2, <2>3 DEF PastDoc, PastText, Leaves
<1>10. ASSUME ResolveReload  PROVE Leaves(n, t)
  <2>1. doc \in DocType /\ conflict \in Snapshot /\ conflict # None
    BY <1>1, <1>10 DEF ResolveReload, Typed, RestOK
  <2>2. /\ doc' = Adopted(doc, conflict) /\ conflict' = None /\ pending' = None /\ draft' = None
        /\ Begin(Call("reload", "storing", doc', 0)) /\ UNCHANGED <<row, server>>
    BY <1>10 DEF ResolveReload
  <2>3. PastDoc(n, t, doc') /\ doc' \in DocType
    BY <1>1, <2>1, <2>2, PastAdopted, AdoptTypes
  <2>4. PastCall(n, t, Call("reload", "storing", doc', 0))
    BY <1>1, <2>3, SentPast
  <2>5. PastCalls(n, t, calls')
    BY <1>1, <2>2, <2>4, BeginPast
  <2> QED
    BY <1>1, <2>2, <2>3, <2>5 DEF PastText, Leaves
<1>11. ASSUME DiscardDocument  PROVE Leaves(n, t)
  <2>1. /\ UNCHANGED <<conflict, server>> /\ pending' = None
        /\ \/ UNCHANGED <<doc, row, draft>> /\ Begin(Call("archive", "sent", doc, 0))
           \/ doc' = None /\ row' = None /\ draft' = None /\ UNCHANGED calls
    BY <1>11 DEF DiscardDocument, Drop
  <2>2. PastCall(n, t, Call("archive", "sent", doc, 0))
    BY <1>1, SentPast
  <2>3. PastCalls(n, t, calls')
    BY <1>1, <2>1, <2>2, BeginPast
  <2> QED
    BY <1>1, <2>1, <2>3 DEF PastDoc, PastText, Leaves
<1> QED
  BY <1>2, <1>4, <1>5, <1>6, <1>7, <1>8, <1>9, <1>10, <1>11 DEF User

LEMMA StoresPast ==
  ASSUME Typed, NEW n, NEW t, PastServer(n, t, server), After(n, t), NEW content \in Contents,
         content <= n, Stores(content)
  PROVE  PastServer(n, t, server')
<1>1. server.hist \in Seq(Contents)
  BY DEF Typed, ServerOK, ServerType
<1>2. server'.hist = Append(server.hist, content) /\ server'.at = clock
  BY DEF Stores
<1>3. \A i \in DOMAIN server'.hist : server'.hist[i] <= n
  BY <1>1, <1>2 DEF PastServer
<1> QED
  BY <1>2, <1>3 DEF PastServer, After

LEMMA CurrentPast ==
  ASSUME Typed, Exists, NEW n, NEW t, PastServer(n, t, server)
  PROVE  PastText(n, t, Current)
<1>1. server.hist \in Seq(Contents) /\ Len(server.hist) \in DOMAIN server.hist
  BY DEF Typed, ServerOK, ServerType, Exists
<1>2. Current.content = server.hist[Len(server.hist)] /\ Current.at = server.at
  BY CurrentTypes DEF Current
<1> QED
  BY <1>1, <1>2 DEF PastServer, PastText

LEMMA AnswerPast ==
  ASSUME Typed, NEW n, NEW t, PastCalls(n, t, calls), NEW k \in CallIds,
         NEW kind, NEW value, Answer(k, kind, value), PastText(n, t, value)
  PROVE  PastCalls(n, t, calls')
<1> DEFINE reply == [kind |-> kind, value |-> value]
           call == [calls[k] EXCEPT !.pc = "answered", !.reply = reply]
<1>1. calls[k] \in CallType /\ PastCall(n, t, calls[k]) /\ CallsOK
  BY DEF Typed, CallsOK, PastCalls
<1>2. call.local = calls[k].local /\ call.reply.value = value
  BY <1>1 DEF CallType
<1>3. Become(k, call)
  BY DEF Answer
<1> HIDE DEF call
<1>4. PastCall(n, t, call)
  BY <1>1, <1>2 DEF PastCall
<1> QED
  BY <1>1, <1>3, <1>4, BecomePast

LEMMA OtherPast ==
  ASSUME Typed, NEW n, NEW t, Past(n, t), After(n, t), Others
  PROVE  Leaves(n, t)
<1>1. UNCHANGED <<doc, row, draft, pending, conflict, calls>>
  BY DEF Others, OtherSaves, OtherArchives, local
<1>2. CASE OtherSaves
  <2>1. count["others"] \in Nat /\ count["others"] < MaxOthers
        /\ count'["others"] = count["others"] + 1
    BY <1>2, CountTypes, SyncAssumption DEF OtherSaves, Bounded, Typed, RestOK
  <2>2. -count'["others"] \in Contents /\ -count'["others"] <= n
    BY <2>1, SyncAssumption DEF Contents, After
  <2>3. PastServer(n, t, server')
    BY <1>2, <2>2, StoresPast DEF OtherSaves, Past
  <2> QED
    BY <1>1, <2>3 DEF Past, Leaves
<1>3. CASE OtherArchives
  <2>1. server'.hist = server.hist /\ server'.at = server.at
    BY <1>3 DEF OtherArchives, Typed, ServerOK, ServerType
  <2> QED
    BY <1>1, <2>1 DEF Past, Leaves, PastServer
<1> QED
  BY <1>2, <1>3 DEF Others

LEMMA ServePast ==
  ASSUME Typed, NEW n, NEW t, Past(n, t), After(n, t), NEW k \in CallIds, Serve(k)
  PROVE  Leaves(n, t)
<1>1. /\ calls[k] \in CallType /\ Placed(calls[k]) /\ PastCall(n, t, calls[k])
      /\ PastCalls(n, t, calls) /\ PastServer(n, t, server)
      /\ PastText(n, t, None)
  BY DEF Typed, CallsOK, Past, PastCalls, PastText
<1>2. UNCHANGED <<doc, row, draft, pending, conflict>>
  BY DEF Serve, ServeSave, ServeCreate, ServeGet, ServeList, ServeArchive, local
<1>3. ASSUME server.live  PROVE PastText(n, t, Current)
  BY <1>1, <1>3, CurrentPast DEF Typed, ServerOK
<1>4. PastCalls(n, t, calls') /\ PastServer(n, t, server')
  <2>1. CASE ServeSave(k)
    <3>1. calls[k].local \in DocType
      BY <1>1, <2>1 DEF ServeSave, Asked, Placed
    <3>2. calls[k].local.cur \in Contents /\ calls[k].local.cur <= n
      BY <1>1, <3>1, NoneAssumption, DocFields DEF PastCall, PastDoc
    <3> DEFINE stored == [rev |-> Revision + 1, content |-> calls[k].local.cur, at |-> clock]
    <3>3. PastText(n, t, stored)
      BY <3>2 DEF PastText, After
    <3>4. \/ Answer(k, "missing", None) /\ UNCHANGED server
          \/ server.live /\ Answer(k, "conflict", Current) /\ UNCHANGED server
          \/ Stores(calls[k].local.cur) /\ Answer(k, "document", stored)
      BY <2>1 DEF ServeSave
    <3> HIDE DEF stored
    <3> QED
      BY <1>1, <1>3, <3>2, <3>3, <3>4, AnswerPast, StoresPast
  <2>2. CASE ServeCreate(k)
    <3> DEFINE content == IF calls[k].op = "publish" THEN calls[k].local.cur
                          ELSE calls[k].local.saved
    <3>1. calls[k].local \in DocType
      BY <1>1, <2>2 DEF ServeCreate, Asked, Placed
    <3>2. content \in Contents /\ content <= n
      BY <1>1, <3>1, NoneAssumption, DocFields DEF PastCall, PastDoc
    <3>3. /\ \E kind : Answer(k, kind, None)
          /\ UNCHANGED server \/ Stores(content)
      BY <2>2 DEF ServeCreate
    <3> QED
      BY <1>1, <3>2, <3>3, AnswerPast, StoresPast
  <2>3. CASE ServeGet(k)
    <3>1. /\ \/ server.live /\ Answer(k, "document", Current)
             \/ Answer(k, "missing", None)
          /\ UNCHANGED server
      BY <2>3 DEF ServeGet
    <3> QED
      BY <1>1, <1>3, <3>1, AnswerPast
  <2>4. CASE ServeList(k)
    <3>1. /\ \/ server.live /\ Answer(k, "list", Current)
             \/ Answer(k, "list", None)
          /\ UNCHANGED server
      BY <2>4 DEF ServeList
    <3> QED
      BY <1>1, <1>3, <3>1, AnswerPast
  <2>5. CASE ServeArchive(k)
    <3>1. Answer(k, "document", None) /\ server'.hist = server.hist /\ server'.at = server.at
      BY <2>5 DEF ServeArchive, Typed, ServerOK, ServerType
    <3> QED
      BY <1>1, <3>1, AnswerPast DEF PastServer
  <2> QED
    BY <2>1, <2>2, <2>3, <2>4, <2>5 DEF Serve
<1> QED
  BY <1>2, <1>4 DEF Past, Leaves

LEMMA SaveAnsweredPast ==
  ASSUME Typed, NEW n, NEW t, Past(n, t), After(n, t), NEW k \in CallIds, SaveAnswered(k)
  PROVE  Leaves(n, t)
<1> DEFINE reply == calls[k].reply
           rev == IF reply.kind = "document" THEN reply.value.rev ELSE 0
<1>1. /\ calls[k] \in CallType /\ Placed(calls[k]) /\ PastCall(n, t, calls[k]) /\ CallsOK
      /\ calls[k].op \in {"save", "force", "publish"} /\ calls[k].pc = "answered"
      /\ UNCHANGED <<doc, draft, pending, server>>
      /\ Tick => Now <= t
  BY DEF SaveAnswered, Answered, Typed, CallsOK, Past, PastCalls, Tick, After
<1>2. calls[k].local \in DocType /\ PastDoc(n, t, calls[k].local)
  BY <1>1 DEF Placed, PastCall
<1>3. CASE reply.kind \in {"document", "created", "existed"}
  <2>1. StoreSave(k, calls[k].local, rev, reply.kind # "existed") /\ conflict' = conflict
    BY <1>3 DEF SaveAnswered
  <2>2. (reply.kind # "existed") \in BOOLEAN
    OBVIOUS
  <2>3. reply.kind = "document" => reply.value \in Snapshot
    BY <1>1 DEF Placed
  <2>4. rev \in Nat
    BY <2>3 DEF Snapshot
  <2>5. Now <= t
    BY <1>1, <2>1 DEF StoreSave
  <2> HIDE DEF rev
  <2>6. PastText(n, t, row') /\ PastCalls(n, t, calls')
    BY <1>2, <2>1, <2>2, <2>4, <2>5, StoreSavePast DEF Past
  <2> QED
    BY <1>1, <2>1, <2>6 DEF Past, Leaves
<1>4. CASE reply.kind \notin {"document", "created", "existed"}
  <2>1. conflict' = (IF reply.kind = "conflict" THEN reply.value ELSE conflict)
        /\ End(k) /\ row' = row
    BY <1>4 DEF SaveAnswered
  <2>2. PastText(n, t, conflict')
    BY <1>1, <2>1 DEF PastCall, Past
  <2> QED
    BY <1>1, <2>1, <2>2, EndPast DEF Past, Leaves
<1> QED
  BY <1>3, <1>4

LEMMA AdoptPast ==
  ASSUME Typed, NEW n, NEW t, Past(n, t), NEW k \in CallIds, Adopt(k)
  PROVE  Leaves(n, t)
<1> DEFINE read == calls[k].local
           got == calls[k].reply.value
           adopted == IF read = None THEN Fetched(got) ELSE Adopted(read, got)
<1>1. /\ calls[k] \in CallType /\ Placed(calls[k]) /\ PastCall(n, t, calls[k])
      /\ calls[k].op = "fetch" /\ calls[k].pc = "answered"
      /\ PastCalls(n, t, calls') /\ server' = server
  BY EndPast DEF Adopt, Answered, Typed, CallsOK, Past, PastCalls
<1>2. read \in DocType \cup {None}
  BY <1>1 DEF CallType
<1>3. CASE calls[k].reply.kind = "missing"
  BY <1>1, <1>3 DEF Adopt, local, Past, Leaves
<1>4. CASE calls[k].reply.kind # "missing"
  <2>1. got \in Snapshot
    BY <1>1, <1>4 DEF Placed
  <2>2. CASE Clean(read)
    <3>1. /\ doc' = adopted /\ UNCHANGED conflict
          /\ row' = [RowOf(adopted, got.at) EXCEPT !.shared = TRUE]
          /\ draft' \in {draft, None} /\ pending' \in {pending, None}
      BY <1>4, <2>2 DEF Adopt, WriteBack
    <3>2. adopted.cur = got.content /\ adopted.saved = got.content /\ adopted.at = got.at
      BY <1>2 DEF Fetched, Adopted, DocType
    <3>3. adopted \in DocType
      BY <1>2, <2>1, AdoptTypes
    <3> HIDE DEF adopted
    <3>4. got.content <= n /\ got.at <= t
      BY <1>1, <2>1, NoneAssumption DEF PastCall, PastText
    <3>5. PastDoc(n, t, doc')
      BY <3>1, <3>2, <3>4 DEF PastDoc
    <3>6. PastText(n, t, row')
      BY <3>1, <3>3, <3>4, <3>5, NoneAssumption, PastRecords
    <3> QED
      BY <1>1, <3>1, <3>5, <3>6 DEF PastText, Past, Leaves
  <2>3. CASE ~Clean(read)
    <3>1. read \in DocType /\ read # None
      BY <1>2, <2>3 DEF Clean
    <3>2. doc' = [read EXCEPT !.saved = got.content, !.rev = got.rev, !.held = TRUE]
          /\ conflict' = got /\ UNCHANGED <<row, draft, pending>>
      BY <1>4, <2>3 DEF Adopt, WriteBack
    <3>3. doc'.cur = read.cur /\ doc'.saved = got.content /\ doc'.at = read.at
      BY <3>1, <3>2 DEF DocType
    <3>4. PastDoc(n, t, doc')
      BY <1>1, <2>1, <3>1, <3>3, NoneAssumption DEF PastCall, PastDoc, PastText
    <3> QED
      BY <1>1, <3>2, <3>4 DEF PastCall, Past, Leaves
  <2> QED
    BY <2>2, <2>3
<1> QED
  BY <1>3, <1>4

LEMMA SyncPast ==
  ASSUME Typed, NEW n, NEW t, Past(n, t), After(n, t), NEW k \in CallIds, SyncFromServer(k)
  PROVE  Leaves(n, t)
<1>1. \/ Become(k, Call("fetch", "sent", doc, 0)) /\ UNCHANGED local
      \/ doc # None /\ SaveInternal(k, doc, doc.rev, FALSE) /\ UNCHANGED <<doc, draft>>
      \/ /\ doc # None
         /\ doc' = [doc EXCEPT !.shared = TRUE]
         /\ row' = [RowOf(doc', doc.at) EXCEPT !.touched = TRUE]
         /\ End(k)
         /\ UNCHANGED <<draft, pending>>
      \/ Become(k, Call("create", "sent", doc, 0)) /\ UNCHANGED local
      \/ End(k) /\ UNCHANGED local
  BY DEF SyncFromServer
<1>2. /\ doc \in DocType \cup {None} /\ {"fetch", "create"} \subseteq Ops /\ 0 \in Nat
      /\ CallsOK /\ UNCHANGED <<conflict, server>> /\ FALSE \in BOOLEAN
      /\ PastDoc(n, t, doc) /\ PastText(n, t, row) /\ PastCalls(n, t, calls)
      /\ Tick => Now <= t
  BY DEF Typed, LocalOK, Ops, SyncFromServer, Past, Tick, After
<1>3. PastCall(n, t, Call("fetch", "sent", doc, 0)) /\ PastCall(n, t, Call("create", "sent", doc, 0))
  BY <1>2, SentPast
<1>4. CASE \E op \in {"fetch", "create"} : Become(k, Call(op, "sent", doc, 0)) /\ UNCHANGED local
  BY <1>2, <1>3, <1>4, BecomePast DEF local, Past, Leaves
<1>5. CASE doc # None /\ SaveInternal(k, doc, doc.rev, FALSE) /\ UNCHANGED <<doc, draft>>
  <2>1. doc \in DocType /\ doc.rev \in Nat
    BY <1>2, <1>5, DocFields
  <2>2. ~online => Now <= t
    BY <1>2, <1>5 DEF SaveInternal, StoreSave
  <2>3. PastText(n, t, row') /\ PastCalls(n, t, calls') /\ PastText(n, t, pending')
    BY <1>2, <1>5, <2>1, <2>2, SaveInternalPast
  <2> QED
    BY <1>2, <1>5, <2>3 DEF Past, Leaves
<1>6. CASE /\ doc # None
           /\ doc' = [doc EXCEPT !.shared = TRUE]
           /\ row' = [RowOf(doc', doc.at) EXCEPT !.touched = TRUE]
           /\ End(k)
           /\ UNCHANGED <<draft, pending>>
  <2>1. doc \in DocType /\ doc' \in DocType
        /\ doc'.cur = doc.cur /\ doc'.saved = doc.saved /\ doc'.at = doc.at
    BY <1>2, <1>6 DEF DocType
  <2>2. PastDoc(n, t, doc') /\ doc.at <= t
    BY <1>2, <1>6, <2>1 DEF PastDoc
  <2>3. PastText(n, t, row')
    BY <1>6, <2>1, <2>2, NoneAssumption, PastRecords
  <2>4. PastCalls(n, t, calls')
    BY <1>2, <1>6, EndPast
  <2> QED
    BY <1>2, <1>6, <2>2, <2>3, <2>4 DEF Past, Leaves
<1>7. CASE End(k) /\ UNCHANGED local
  BY <1>2, <1>7, EndPast DEF local, Past, Leaves
<1> QED
  BY <1>1, <1>4, <1>5, <1>6, <1>7

LEMMA FinishPast ==
  ASSUME Typed, NEW n, NEW t, Past(n, t), NEW k \in CallIds, FinishSave(k) \/ FinishReload(k)
  PROVE  Leaves(n, t)
<1>1. /\ calls[k] \in CallType /\ Placed(calls[k]) /\ PastCall(n, t, calls[k])
      /\ PastCalls(n, t, calls') /\ UNCHANGED <<pending, conflict, server>>
  BY EndPast DEF Typed, CallsOK, Past, PastCalls, FinishSave, FinishReload
<1>2. CASE FinishSave(k)
  <2> DEFINE stored == calls[k].reply.value
             held == calls[k].reply.kind = "document"
  <2>1. calls[k].local \in DocType
    BY <1>1, <1>2 DEF FinishSave, Placed
  <2>2. doc' = [calls[k].local EXCEPT !.saved = stored.content, !.rev = stored.rev,
                  !.dirty = FALSE, !.at = stored.at, !.held = held]
        /\ row' = row /\ draft' = None
    BY <1>2 DEF FinishSave
  <2>3. calls[k].local # None /\ stored # None
    BY <1>1, <1>2, <2>1, NoneAssumption DEF FinishSave, Placed
  <2> HIDE DEF held
  <2>4. doc'.cur = calls[k].local.cur /\ doc'.saved = stored.content /\ doc'.at = stored.at
    BY <2>1, <2>2 DEF DocType
  <2>5. PastDoc(n, t, doc')
    BY <1>1, <2>3, <2>4 DEF PastCall, PastDoc, PastText
  <2> QED
    BY <1>1, <2>2, <2>5 DEF PastText, Past, Leaves
<1>3. CASE FinishReload(k)
  <2>1. row' = [RowOf(calls[k].local, calls[k].local.at) EXCEPT !.shared = FALSE]
        /\ UNCHANGED <<doc, draft>>
    BY <1>3 DEF FinishReload
  <2>2. calls[k].local \in DocType /\ calls[k].local # None /\ PastDoc(n, t, calls[k].local)
    BY <1>1, <1>3, NoneAssumption DEF FinishReload, Placed, PastCall
  <2>3. calls[k].local.at <= t
    BY <2>2 DEF PastDoc
  <2>4. PastText(n, t, row')
    BY <2>1, <2>2, <2>3, PastRecords
  <2> QED
    BY <1>1, <2>1, <2>4 DEF Past, Leaves
<1> QED
  BY <1>2, <1>3

LEMMA FailPast ==
  ASSUME Typed, NEW n, NEW t, Past(n, t), After(n, t), NEW k \in CallIds, RequestFails(k) \/ TimeOut(k)
  PROVE  Leaves(n, t)
<1>1. /\ calls[k] \in CallType /\ Placed(calls[k]) /\ PastCall(n, t, calls[k]) /\ CallsOK
      /\ PastCalls(n, t, calls)
      /\ GiveUp(k) /\ UNCHANGED <<conflict, server>> /\ FALSE \in BOOLEAN
      /\ Tick => Now <= t
  BY DEF RequestFails, TimeOut, Typed, CallsOK, Past, PastCalls, Tick, After
<1>2. CASE calls[k].op \in {"save", "force", "publish"}
  <2>1. calls[k].local \in DocType /\ calls[k].base + 1 \in Nat /\ PastDoc(n, t, calls[k].local)
    BY <1>1, <1>2 DEF Placed, CallType, PastCall
  <2>2. StoreSave(k, calls[k].local, calls[k].base + 1, FALSE) /\ UNCHANGED <<doc, draft, pending>>
    BY <1>1, <1>2 DEF GiveUp
  <2>3. Now <= t
    BY <1>1, <2>2 DEF StoreSave
  <2>4. PastText(n, t, row') /\ PastCalls(n, t, calls')
    BY <1>1, <2>1, <2>2, <2>3, StoreSavePast
  <2> QED
    BY <1>1, <2>2, <2>4 DEF Past, Leaves
<1>3. CASE calls[k].op \notin {"save", "force", "publish"}
  <2>1. /\ End(k) /\ pending' = pending
        /\ (UNCHANGED <<doc, row, draft>> \/ (doc' = None /\ row' = None /\ draft' = None))
    BY <1>1, <1>3 DEF GiveUp, Drop, local
  <2>2. PastCalls(n, t, calls')
    BY <1>1, <2>1, EndPast
  <2> QED
    BY <1>1, <2>1, <2>2 DEF PastDoc, PastText, Past, Leaves
<1> QED
  BY <1>2, <1>3

LEMMA ProceedPast ==
  ASSUME Typed, NEW n, NEW t, Past(n, t), After(n, t), NEW k \in CallIds, Proceed(k) \/ TimeOut(k)
  PROVE  Leaves(n, t)
<1>1. ASSUME CreateAnswered(k) \/ ArchiveAnswered(k)  PROVE Leaves(n, t)
  <2>1. /\ End(k) /\ UNCHANGED <<pending, conflict, server>>
        /\ (UNCHANGED <<doc, row, draft>> \/ (doc' = None /\ row' = None /\ draft' = None))
    BY <1>1 DEF CreateAnswered, ArchiveAnswered, Drop, local
  <2>2. PastCalls(n, t, calls')
    BY <2>1, EndPast DEF Typed, Past
  <2> QED
    BY <2>1, <2>2 DEF PastDoc, PastText, Past, Leaves
<1> QED
  BY <1>1, SaveAnsweredPast, AdoptPast, SyncPast, FinishPast, FailPast DEF Proceed

LEMMA ChangePast ==
  ASSUME Typed, NEW n, NEW t, Past(n, t), NEW e \in events, ApplyServerChange(e)
  PROVE  Leaves(n, t)
<1>1. /\ (UNCHANGED <<doc, row>> \/ (doc' = None /\ row' = None))
      /\ UNCHANGED calls \/ Begin(Call("fetch", "sent", doc, 0))
      /\ UNCHANGED <<draft, pending, conflict, server>>
  BY DEF ApplyServerChange
<1>2. PastCall(n, t, Call("fetch", "sent", doc, 0))
  <2>1. "fetch" \in Ops /\ doc \in DocType \cup {None} /\ 0 \in Nat /\ PastDoc(n, t, doc)
    BY DEF Ops, Typed, LocalOK, Past
  <2> QED
    BY <2>1, SentPast
<1>3. PastCalls(n, t, calls')
  BY <1>1, <1>2, BeginPast DEF Typed, Past
<1> QED
  BY <1>1, <1>3 DEF PastDoc, PastText, Past, Leaves

LEMMA SocketPast ==
  ASSUME Typed, NEW n, NEW t, Past(n, t), Checkpoint \/ Disconnect \/ Connect
  PROVE  Leaves(n, t)
<1>1. /\ UNCHANGED <<doc, row, conflict, server>>
      /\ draft' \in {draft, pending} /\ pending' \in {pending, None}
      /\ UNCHANGED calls \/ Begin(Call("sync", "sent", None, 0))
  BY DEF Checkpoint, Disconnect, Connect, local
<1>2. PastCall(n, t, Call("sync", "sent", None, 0))
  BY DEF Call, NoReply, PastCall, PastDoc, PastText
<1>3. PastCalls(n, t, calls')
  BY <1>1, <1>2, BeginPast DEF Typed, Past
<1> QED
  BY <1>1, <1>3 DEF PastText, Past, Leaves

LEMMA RestartPast ==
  ASSUME NEW n, NEW t, Past(n, t), Restart
  PROVE  Leaves(n, t)
<1>1. PastDoc(n, t, Recovered)
  <2>1. CASE row = None
    BY <2>1 DEF Recovered, PastDoc
  <2>2. CASE row # None
    <3>1. /\ Recovered.saved = row.content
          /\ Recovered.cur = IF DraftWins THEN draft.content ELSE row.content
          /\ Recovered.at = IF DraftWins THEN draft.at ELSE row.at
      BY <2>2 DEF Recovered
    <3>2. DraftWins => draft # None
      BY DEF DraftWins
    <3> QED
      BY <2>2, <3>1, <3>2 DEF Past, PastDoc, PastText
  <2> QED
    BY <2>1, <2>2
<1>2. PastCalls(n, t, calls')
  BY IdlePast DEF Restart, PastCalls
<1> QED
  BY <1>1, <1>2 DEF Restart, PastText, Past, Leaves

LEMMA TimePasses ==
  ASSUME Typed, [Next]_vars
  PROVE  clock <= clock' /\ count["typed"] <= count'["typed"]
<1> DEFINE moved == clock' = clock \/ clock' = Now
           counted == count' = count \/ \E b, max : Count(b, max)
<1>1. \A k, d, rev, held : StoreSave(k, d, rev, held) => moved
  BY DEF StoreSave, Tick
<1>2. ASSUME NEW k, NEW d, NEW base, NEW force, SaveInternal(k, d, base, force)
      PROVE  moved
  BY <1>1, <1>2 DEF SaveInternal
<1>3. ASSUME NEW k, GiveUp(k)
      PROVE  moved
  BY <1>1, <1>3 DEF GiveUp
<1>4. ASSUME User
      PROVE  moved /\ counted
  <2>1. CASE SaveDocument \/ ResolveKeep
    BY <1>2, <2>1 DEF SaveDocument, ResolveKeep
  <2>2. CASE (\E shared \in BOOLEAN : CreateDocument(shared)) \/ \E content : UpdateContent(content)
    BY <2>2 DEF CreateDocument, UpdateContent, Tick
  <2>3. CASE ReleaseModel \/ RenameDocument \/ RevertDocument \/ ResolveReload \/ DiscardDocument
    BY <2>3 DEF ReleaseModel, RenameDocument, RevertDocument, ResolveReload, DiscardDocument, Tick
  <2> QED
    BY <1>4, <2>1, <2>2, <2>3 DEF User
<1>5. ASSUME Others \/ Checkpoint \/ Disconnect \/ Connect \/ Restart
      PROVE  moved /\ counted
  BY <1>5 DEF Others, OtherSaves, OtherArchives, Checkpoint, Disconnect, Connect, Restart
<1>6. ASSUME NEW k \in CallIds, Serve(k) \/ Proceed(k) \/ TimeOut(k)
      PROVE  moved /\ counted
  <2>1. CASE Serve(k)
    BY <2>1 DEF Serve, ServeSave, ServeCreate, ServeGet, ServeList, ServeArchive
  <2>2. CASE SyncFromServer(k)
    <3>1. count' = count /\ (clock' = clock \/ SaveInternal(k, doc, doc.rev, FALSE))
      BY <2>2 DEF SyncFromServer
    <3> QED
      BY <1>2, <3>1
  <2>3. CASE SaveAnswered(k)
    BY <1>1, <2>3 DEF SaveAnswered
  <2>4. CASE RequestFails(k) \/ TimeOut(k)
    BY <1>3, <2>4 DEF RequestFails, TimeOut
  <2>5. CASE CreateAnswered(k) \/ ArchiveAnswered(k) \/ Adopt(k) \/ FinishSave(k) \/ FinishReload(k)
    BY <2>5 DEF CreateAnswered, ArchiveAnswered, Adopt, FinishSave, FinishReload
  <2> QED
    BY <1>6, <2>1, <2>2, <2>3, <2>4, <2>5 DEF Proceed
<1>7. ASSUME NEW e \in events, ApplyServerChange(e)
      PROVE  moved /\ counted
  BY <1>7 DEF ApplyServerChange
<1>8. ASSUME UNCHANGED vars
      PROVE  moved /\ counted
  BY <1>8 DEF vars
<1>9. moved /\ counted
  BY <1>4, <1>5, <1>6, <1>7, <1>8 DEF Next
<1>10. clock \in Nat /\ count["typed"] \in Nat /\ count \in [Bounded -> Nat] /\ "typed" \in Bounded
  BY DEF Typed, RestOK, Bounded
<1>11. \A b, max : Count(b, max) => count["typed"] <= count'["typed"]
  BY <1>10 DEF Count
<1> QED
  BY <1>9, <1>10, <1>11 DEF Now

LEMMA StepPast == Typed /\ AllPast /\ [Next]_vars => AllPast'
<1> SUFFICES ASSUME Typed, AllPast, [Next]_vars PROVE AllPast'
  OBVIOUS
<1> DEFINE n == count'["typed"]
           t == clock'
<1>1. Typed'
  BY StepTypes
<1>2. n \in Nat /\ t \in Nat /\ count["typed"] \in Nat /\ clock \in Nat
  BY <1>1 DEF Typed, RestOK, Bounded
<1>3. clock <= t /\ count["typed"] <= n
  BY TimePasses
<1>4. Past(count["typed"], clock)
  BY DEF AllPast
<1>5. After(n, t)
  BY <1>2, <1>3 DEF After
<1> HIDE DEF n, t
<1>6. Past(n, t)
  BY <1>2, <1>3, <1>4, PastGrows
<1>7. ASSUME Next
      PROVE  Leaves(n, t)
  BY <1>5, <1>6, <1>7, UserPast, OtherPast, ServePast, ProceedPast, ChangePast, SocketPast,
     RestartPast DEF Next
<1>8. ASSUME UNCHANGED vars
      PROVE  Leaves(n, t)
  BY <1>6, <1>8 DEF vars, local, Past, Leaves
<1>9. Leaves(n, t)
  BY <1>7, <1>8
<1> QED
  BY <1>9 DEF n, t, Leaves, AllPast, Past

LEMMA AlwaysPast == Spec => []AllPast
<1>1. Init => AllPast
  BY IdlePast DEF Init, AllPast, Past, PastDoc, PastText, PastCalls, PastServer, Bounded
<1> QED
  BY <1>1, AlwaysTyped, StepPast, PTL DEF Spec

-----------------------------------------------------------------------------
(* What is typed is kept: by the store, and by what a tab loaded again     *)
(* would restore, which is the checkpoint that waits or else the draft.    *)

(* A checkpoint of what is typed, newer than the row and than every row    *)
(* that a method is still to write.                                        *)
Carries(c) ==
  /\ c.content = typed
  /\ row.touched \/ c.at > row.at
  /\ \A k \in CallIds : calls[k].op = "reload" => c.at > calls[k].local.at

Safe ==
  /\ doc # None => row # None
  /\ typed # None =>
       /\ doc # None /\ doc.dirty
       /\ Carries(CheckpointOf(doc))
       /\ pending # None => Carries(pending)
       /\ pending = None => draft # None /\ Carries(draft)

(* A save that has written its row took what was typed with it.            *)
StoredCall(x, c) ==
  c.op = "save" /\ c.pc = "storing"
  => c.reply.value.content = c.local.cur /\ (x # None => x # c.local.cur)
StoredCalls(x, cs) == \A k \in CallIds : StoredCall(x, cs[k])
Stored == StoredCalls(typed, calls)

LEMMA SafeIsEnough == (Undisturbed => Safe) => NothingTypedIsLost
  BY DEF Safe, Carries, CheckpointOf, NothingTypedIsLost

LEMMA SentStored ==
  ASSUME NEW x, NEW op \in Ops, NEW d \in DocType \cup {None}, NEW base \in Nat
  PROVE  StoredCall(x, Call(op, "sent", d, base))
  BY CallTypes DEF StoredCall

LEMMA BecomeStored ==
  ASSUME CallsOK, Stored, NEW k \in CallIds, NEW call, StoredCall(typed', call),
         typed' \in {typed, None}, Become(k, call)
  PROVE  Stored'
<1>1. StoredCalls(typed', calls)
  BY DEF Stored, StoredCalls, StoredCall
<1>2. StoredCalls(typed', calls')
  BY <1>1 DEF StoredCalls, CallsOK, Become
<1> QED
  BY <1>2 DEF Stored, StoredCalls, StoredCall

LEMMA SameStored ==
  ASSUME Stored, calls' = calls, typed' \in {typed, None}
  PROVE  Stored'
  BY DEF Stored, StoredCalls, StoredCall

LEMMA EndStored ==
  ASSUME CallsOK, Stored, NEW k \in CallIds, typed' \in {typed, None}, End(k)
  PROVE  Stored'
<1>1. StoredCall(typed', Idle)
  BY DEF StoredCall, Idle
<1> QED
  BY <1>1, BecomeStored DEF End

LEMMA BeginStored ==
  ASSUME CallsOK, Stored, NEW call, StoredCall(typed', call), typed' \in {typed, None}, Begin(call)
  PROVE  Stored'
  BY SlotIsFree, BecomeStored DEF Begin, Become

LEMMA StoreSaveStored ==
  ASSUME CallsOK, Stored, NEW k \in CallIds, NEW d, NEW rev, NEW held, StoreSave(k, d, rev, held)
  PROVE  Stored'
<1> DEFINE stored == [rev |-> rev, content |-> d.cur, at |-> Now]
           reply == [kind |-> IF held THEN "document" ELSE "none", value |-> stored]
           call == [Call("save", "storing", d, 0) EXCEPT !.reply = reply]
<1>1. typed' = IF typed = d.cur THEN None ELSE typed
  BY DEF StoreSave
<1>2. call.local = d /\ call.reply = reply
  BY DEF Call
<1>3. stored.content = d.cur /\ reply.value = stored
  OBVIOUS
<1> HIDE DEF call, reply, stored
<1>4. StoredCall(typed', call)
  BY <1>1, <1>2, <1>3 DEF StoredCall
<1>5. Become(k, call)
  BY DEF StoreSave, call, reply, stored
<1> QED
  BY <1>1, <1>4, <1>5, BecomeStored

LEMMA SaveInternalStored ==
  ASSUME Typed, Stored, NEW k \in CallIds, NEW d \in DocType, NEW base \in Nat,
         NEW force \in BOOLEAN, SaveInternal(k, d, base, force)
  PROVE  Stored'
<1>1. CASE online
  <2> DEFINE op == IF known \/ base > 0 THEN IF force THEN "force" ELSE "save" ELSE "publish"
  <2>1. op \in Ops
    BY DEF Ops
  <2>2. Become(k, Call(op, "sent", d, base)) /\ typed' = typed
    BY <1>1 DEF SaveInternal
  <2> HIDE DEF op
  <2> QED
    BY <2>1, <2>2, SentStored, BecomeStored DEF Typed
<1>2. CASE ~online
  <2>1. StoreSave(k, d, base + 1, FALSE)
    BY <1>2 DEF SaveInternal
  <2> QED
    BY <2>1, StoreSaveStored DEF Typed
<1>3. online \in BOOLEAN
  BY DEF Typed, RestOK
<1> QED
  BY <1>1, <1>2, <1>3

LEMMA UserStored ==
  ASSUME Typed, AllPast, Stored, User
  PROVE  Stored'
<1>1. /\ CallsOK /\ doc \in DocType \cup {None} /\ 0 \in Nat
      /\ {"create", "archive", "save", "publish", "reload"} \subseteq Ops
  BY DEF Typed, LocalOK, Ops
<1>2. ASSUME NEW shared \in BOOLEAN, CreateDocument(shared)
      PROVE  Stored'
  <2> DEFINE d == [cur |-> 0, saved |-> 0, rev |-> 0, dirty |-> FALSE, shared |-> shared,
                   at |-> Now, held |-> FALSE]
  <2>1. d \in DocType
    BY ZeroIsContent DEF Now, Typed, RestOK, DocType
  <2>2. (Begin(Call("create", "sent", d, 0)) \/ UNCHANGED calls) /\ typed' = typed
    BY <1>2 DEF CreateDocument
  <2> HIDE DEF d
  <2>3. StoredCall(typed', Call("create", "sent", d, 0))
    BY <1>1, <2>1, SentStored
  <2> QED
    BY <1>1, <2>2, <2>3, BeginStored, SameStored
<1>3. ASSUME UpdateContent(count["typed"] + 1)
      PROVE  Stored'
  <2>1. UNCHANGED calls /\ typed' \in {None, count["typed"] + 1}
    BY <1>3 DEF UpdateContent
  <2>2. ASSUME NEW k \in CallIds, calls[k].op = "save"
        PROVE  calls[k].local.cur # count["typed"] + 1
    <3>1. calls[k].local \in DocType /\ PastDoc(count["typed"], clock, calls[k].local)
      BY <2>2 DEF Typed, CallsOK, Placed, AllPast, Past, PastCalls, PastCall
    <3>2. calls[k].local.cur <= count["typed"] /\ calls[k].local.cur \in Int
      BY <3>1, NoneAssumption, DocFields, ContentsAreInts DEF PastDoc
    <3>3. count["typed"] \in Nat
      BY DEF Typed, RestOK, Bounded
    <3> QED
      BY <3>2, <3>3
  <2> QED
    BY <2>1, <2>2 DEF Stored, StoredCalls, StoredCall
<1>4. ASSUME UpdateContent(doc.saved)
      PROVE  Stored'
  BY <1>4, SameStored DEF UpdateContent
<1>5. ASSUME SaveDocument \/ ResolveKeep
      PROVE  Stored'
  <2>1. doc \in DocType /\ Slot \in CallIds
    BY <1>1, <1>5, SlotIsFree DEF SaveDocument, ResolveKeep
  <2>2. \E base \in Nat, force \in BOOLEAN : SaveInternal(Slot, doc, base, force)
    <3>1. doc.rev \in Nat
      BY <2>1, DocFields
    <3>2. ResolveKeep => conflict.rev \in Nat
      BY DEF ResolveKeep, Typed, RestOK, Snapshot
    <3> QED
      BY <1>5, <3>1, <3>2 DEF SaveDocument, ResolveKeep
  <2> QED
    BY <2>1, <2>2, SaveInternalStored
<1>6. ASSUME RenameDocument
      PROVE  Stored'
  <2> DEFINE renamed == [doc EXCEPT !.at = Now]
             op == IF known \/ doc.rev > 0 THEN "save" ELSE "publish"
  <2>1. doc \in DocType /\ renamed \in DocType /\ doc.rev \in Nat /\ op \in Ops
    BY <1>1, <1>6, DocFields DEF RenameDocument, DocType, Now, Typed, RestOK
  <2>2. /\ UNCHANGED calls \/ (MayCall /\ Become(Slot, Call(op, "sent", renamed, doc.rev)))
        /\ typed' = typed
    BY <1>6 DEF RenameDocument
  <2> HIDE DEF renamed, op
  <2>3. StoredCall(typed', Call(op, "sent", renamed, doc.rev))
    BY <2>1, SentStored
  <2> QED
    BY <1>1, <2>2, <2>3, SlotIsFree, BecomeStored, SameStored
<1>7. ASSUME ResolveReload
      PROVE  Stored'
  <2>1. Begin(Call("reload", "storing", doc', 0)) /\ typed' = None
    BY <1>7 DEF ResolveReload
  <2>2. StoredCall(typed', Call("reload", "storing", doc', 0))
    BY DEF StoredCall, Call
  <2> QED
    BY <1>1, <2>1, <2>2, BeginStored
<1>8. ASSUME DiscardDocument
      PROVE  Stored'
  <2>1. /\ Begin(Call("archive", "sent", doc, 0)) \/ UNCHANGED calls
        /\ typed' = None
    BY <1>8 DEF DiscardDocument, Drop
  <2>2. StoredCall(typed', Call("archive", "sent", doc, 0))
    BY <1>1, SentStored
  <2> QED
    BY <1>1, <2>1, <2>2, BeginStored, SameStored
<1>9. ASSUME ReleaseModel \/ RevertDocument
      PROVE  Stored'
  BY <1>9, SameStored DEF ReleaseModel, RevertDocument
<1> QED
  BY <1>2, <1>3, <1>4, <1>5, <1>6, <1>7, <1>8, <1>9 DEF User

LEMMA ServeStored ==
  ASSUME Typed, Stored, NEW k \in CallIds, Serve(k)
  PROVE  Stored'
<1>1. \E kind, value : Answer(k, kind, value)
  BY DEF Serve, ServeSave, ServeCreate, ServeGet, ServeList, ServeArchive
<1>2. PICK kind, value : Answer(k, kind, value)
  BY <1>1
<1> DEFINE call == [calls[k] EXCEPT !.pc = "answered", !.reply = [kind |-> kind, value |-> value]]
<1>3. call.pc = "answered"
  BY DEF Typed, CallsOK, CallType
<1>4. Become(k, call) /\ typed' = typed
  BY <1>2 DEF Answer, Serve, ServeSave, ServeCreate, ServeGet, ServeList, ServeArchive
<1> HIDE DEF call
<1> QED
  BY <1>3, <1>4, BecomeStored DEF StoredCall, Typed

LEMMA ProceedStored ==
  ASSUME Typed, Stored, NEW k \in CallIds, Proceed(k) \/ TimeOut(k)
  PROVE  Stored'
<1>1. CallsOK /\ doc \in DocType \cup {None} /\ {"create", "fetch"} \subseteq Ops /\ 0 \in Nat
      /\ FALSE \in BOOLEAN
  BY DEF Typed, LocalOK, Ops
<1>2. ASSUME SaveAnswered(k)
      PROVE  Stored'
  <2>1. (\E d, rev, held : StoreSave(k, d, rev, held)) \/ (End(k) /\ typed' = typed)
    BY <1>2 DEF SaveAnswered
  <2> QED
    BY <1>1, <2>1, StoreSaveStored, EndStored
<1>3. ASSUME SyncFromServer(k)
      PROVE  Stored'
  <2>1. \/ Become(k, Call("fetch", "sent", doc, 0)) /\ typed' = typed
        \/ doc # None /\ SaveInternal(k, doc, doc.rev, FALSE)
        \/ Become(k, Call("create", "sent", doc, 0)) /\ typed' = typed
        \/ End(k) /\ typed' = typed
    BY <1>3 DEF SyncFromServer
  <2>2. doc # None => doc \in DocType /\ doc.rev \in Nat
    BY <1>1, DocFields
  <2>3. /\ StoredCall(typed', Call("fetch", "sent", doc, 0))
        /\ StoredCall(typed', Call("create", "sent", doc, 0))
    BY <1>1, SentStored
  <2> QED
    BY <1>1, <2>1, <2>2, <2>3, BecomeStored, EndStored, SaveInternalStored
<1>4. ASSUME RequestFails(k) \/ TimeOut(k)
      PROVE  Stored'
  <2>1. GiveUp(k)
    BY <1>4 DEF RequestFails, TimeOut
  <2>2. (\E d, rev, held : StoreSave(k, d, rev, held)) \/ (End(k) /\ typed' \in {typed, None})
    BY <2>1 DEF GiveUp, Drop
  <2> QED
    BY <1>1, <2>2, StoreSaveStored, EndStored
<1>5. ASSUME CreateAnswered(k) \/ ArchiveAnswered(k) \/ Adopt(k) \/ FinishSave(k) \/ FinishReload(k)
      PROVE  Stored'
  <2>1. End(k) /\ typed' \in {typed, None}
    BY <1>5 DEF CreateAnswered, ArchiveAnswered, Adopt, FinishSave, FinishReload, Drop
  <2> QED
    BY <1>1, <2>1, EndStored
<1> QED
  BY <1>2, <1>3, <1>4, <1>5 DEF Proceed

LEMMA StepStored == Typed /\ AllPast /\ Stored /\ [Next]_vars => Stored'
<1> SUFFICES ASSUME Typed, AllPast, Stored, [Next]_vars PROVE Stored'
  OBVIOUS
<1>1. ASSUME NEW e \in events, ApplyServerChange(e)
      PROVE  Stored'
  <2>1. UNCHANGED calls \/ Begin(Call("fetch", "sent", doc, 0))
    BY <1>1 DEF ApplyServerChange
  <2>2. StoredCall(typed', Call("fetch", "sent", doc, 0)) /\ typed' = typed
    BY <1>1 DEF StoredCall, Call, ApplyServerChange
  <2> QED
    BY <2>1, <2>2, BeginStored, SameStored DEF Typed
<1>2. ASSUME Connect
      PROVE  Stored'
  <2>1. Begin(Call("sync", "sent", None, 0)) /\ typed' = typed
    BY <1>2 DEF Connect
  <2>2. StoredCall(typed', Call("sync", "sent", None, 0))
    BY DEF StoredCall, Call
  <2> QED
    BY <2>1, <2>2, BeginStored DEF Typed
<1>3. ASSUME Restart
      PROVE  Stored'
  BY <1>3 DEF Restart, Idle, Stored, StoredCalls, StoredCall
<1>4. ASSUME Others \/ Checkpoint \/ Disconnect \/ UNCHANGED vars
      PROVE  Stored'
  BY <1>4, SameStored DEF Others, OtherSaves, OtherArchives, Checkpoint, Disconnect, vars
<1> QED
  BY <1>1, <1>2, <1>3, <1>4, UserStored, ServeStored, ProceedStored DEF Next

(* No method is to write a row that was not to write one before.           *)
SameReloads == \A k \in CallIds : calls'[k].op = "reload" => calls'[k] = calls[k]

LEMMA BecomeReloads ==
  ASSUME CallsOK, NEW k \in CallIds, NEW call, call.op # "reload", Become(k, call)
  PROVE  SameReloads
  BY DEF CallsOK, Become, SameReloads

LEMMA EndReloads ==
  ASSUME CallsOK, NEW k \in CallIds, End(k)
  PROVE  SameReloads
<1>1. Idle.op # "reload"
  BY DEF Idle
<1> QED
  BY <1>1, BecomeReloads DEF End

LEMMA CallReloads ==
  ASSUME CallsOK, NEW k, NEW op \in Ops \ {"reload"}, NEW pc, NEW d, NEW base,
         \/ k \in CallIds /\ Become(k, Call(op, pc, d, base))
         \/ Begin(Call(op, pc, d, base))
         \/ UNCHANGED calls
  PROVE  SameReloads
<1>1. Call(op, pc, d, base).op # "reload"
  BY DEF Call
<1>2. CASE UNCHANGED calls
  BY <1>2 DEF SameReloads
<1>3. CASE Begin(Call(op, pc, d, base))
  BY <1>1, <1>3, SlotIsFree, BecomeReloads DEF Begin, Become
<1> QED
  BY <1>1, <1>2, <1>3, BecomeReloads

LEMMA StoreSaveReloads ==
  ASSUME CallsOK, NEW k \in CallIds, NEW d, NEW rev, NEW held, StoreSave(k, d, rev, held)
  PROVE  SameReloads
<1> DEFINE call == [Call("save", "storing", d, 0) EXCEPT
                      !.reply = [kind |-> IF held THEN "document" ELSE "none",
                                 value |-> [rev |-> rev, content |-> d.cur, at |-> Now]]]
<1>1. call.op # "reload"
  BY DEF Call
<1>2. Become(k, call)
  BY DEF StoreSave
<1> HIDE DEF call
<1> QED
  BY <1>1, <1>2, BecomeReloads

(* Nothing is typed any more, or nothing of it is touched.                 *)
LEMMA SafeWithNothingTyped ==
  ASSUME typed' = None, doc' # None => row' # None
  PROVE  Safe'
  BY DEF Safe

LEMMA SafeStays ==
  ASSUME Safe, SameReloads, UNCHANGED <<doc, row, draft, pending, typed>>
  PROVE  Safe'
  BY DEF Safe, Carries, CheckpointOf, SameReloads

(* The row of the document as it is.                                       *)
LEMMA StoreSaveSafe ==
  ASSUME Typed, Safe, NEW k \in CallIds, NEW rev \in Nat, NEW held \in BOOLEAN, doc # None,
         StoreSave(k, doc, rev, held)
  PROVE  typed' = None /\ row' # None
<1>1. typed # None => typed = doc.cur
  BY DEF Safe, Carries, CheckpointOf
<1>2. doc \in DocType /\ Now \in Nat
  BY DEF Typed, LocalOK, RestOK, Now
<1>3. row' = [RowOf(doc, Now) EXCEPT !.content = doc.cur, !.rev = rev, !.held = held]
  BY DEF StoreSave
<1>4. row' \in RowType
  BY <1>2, <1>3, RowTypes
<1> QED
  BY <1>1, <1>4, NoneAssumption DEF StoreSave

LEMMA SaveInternalSafe ==
  ASSUME Typed, Safe, Undisturbed', NEW k \in CallIds, NEW base \in Nat, NEW force \in BOOLEAN,
         doc # None, SaveInternal(k, doc, base, force), UNCHANGED <<doc, draft>>
  PROVE  Safe'
<1>1. CASE online
  <2> DEFINE op == IF known \/ base > 0 THEN IF force THEN "force" ELSE "save" ELSE "publish"
  <2>1. op \in Ops \ {"reload"}
    BY DEF Ops
  <2>2. Become(k, Call(op, "sent", doc, base)) /\ UNCHANGED <<row, typed>>
    BY <1>1 DEF SaveInternal
  <2> HIDE DEF op
  <2>3. SameReloads
    BY <2>1, <2>2, CallReloads DEF Typed
  <2>4. pending' = None /\ pending = None
    BY <1>1 DEF SaveInternal, Cancelled, Undisturbed
  <2> QED
    BY <2>2, <2>3, <2>4, SafeStays
<1>2. CASE ~online
  <2>1. StoreSave(k, doc, base + 1, FALSE)
    BY <1>2 DEF SaveInternal
  <2>2. base + 1 \in Nat /\ FALSE \in BOOLEAN
    OBVIOUS
  <2>3. typed' = None /\ row' # None
    BY <2>1, <2>2, StoreSaveSafe
  <2> QED
    BY <2>3, SafeWithNothingTyped
<1>3. online \in BOOLEAN
  BY DEF Typed, RestOK
<1> QED
  BY <1>1, <1>2, <1>3

LEMMA UpdateSafe ==
  ASSUME Typed, AllPast, Safe, NEW content \in Contents, UpdateContent(content)
  PROVE  Safe'
<1>1. doc \in DocType /\ doc # None /\ row \in RowType /\ row # None
  BY DEF UpdateContent, Typed, LocalOK, Safe
<1>2. /\ doc' = [doc EXCEPT !.cur = content, !.dirty = content # doc.saved, !.at = Now]
      /\ pending' = CheckpointOf(doc')
      /\ typed' = IF content = doc.saved THEN None ELSE content
      /\ UNCHANGED <<row, calls>>
  BY DEF UpdateContent
<1>3. doc'.cur = content /\ doc'.at = Now /\ doc'.dirty = (content # doc.saved) /\ doc' \in DocType
  <2>1. Now \in Nat
    BY DEF Now, Typed, RestOK
  <2>2. doc'.cur = content /\ doc'.at = Now /\ doc'.dirty = (content # doc.saved)
    BY <1>1, <1>2 DEF DocType
  <2>3. doc' \in DocType
    BY <1>1, <1>2, <2>1 DEF DocType
  <2> QED
    BY <2>2, <2>3
<1>4. pending'.content = content /\ pending'.at = Now
  BY <1>2, <1>3 DEF CheckpointOf
<1>5. pending' # None /\ doc' # None
  BY <1>2, <1>3, RowTypes, NoneAssumption, 0 \in Nat
<1>6. Now > row.at
  <2>1. row.at <= clock /\ row.at \in Nat /\ clock \in Nat
    BY <1>1 DEF AllPast, Past, PastText, RowType, Typed, RestOK
  <2> QED
    BY <2>1 DEF Now
<1>7. ASSUME NEW k \in CallIds, calls[k].op = "reload"
      PROVE  Now > calls[k].local.at
  <2>1. calls[k].local \in DocType /\ PastDoc(count["typed"], clock, calls[k].local)
    BY <1>7 DEF Typed, CallsOK, Placed, AllPast, Past, PastCalls, PastCall
  <2>2. calls[k].local.at <= clock /\ calls[k].local.at \in Nat /\ clock \in Nat
    BY <2>1, NoneAssumption, DocFields DEF PastDoc, Typed, RestOK
  <2> QED
    BY <2>2 DEF Now
<1>8. CASE content = doc.saved
  BY <1>1, <1>2, <1>8, SafeWithNothingTyped
<1>9. CASE content # doc.saved
  <2>1. typed' = content /\ doc'.dirty
    BY <1>2, <1>3, <1>9
  <2>2. row'.at = row.at /\ row' # None /\ calls' = calls
    BY <1>1, <1>2
  <2>3. \A k \in CallIds : calls'[k].op = "reload" => Now > calls'[k].local.at
    BY <1>7, <2>2
  <2>4. Carries(pending)'
    BY <1>4, <1>6, <2>1, <2>2, <2>3 DEF Carries
  <2>5. Carries(CheckpointOf(doc))'
    BY <1>3, <1>6, <2>1, <2>2, <2>3 DEF Carries, CheckpointOf
  <2> QED
    BY <1>5, <2>1, <2>2, <2>4, <2>5 DEF Safe
<1> QED
  BY <1>8, <1>9

LEMMA RenameSafe ==
  ASSUME Typed, AllPast, Safe, Undisturbed', RenameDocument
  PROVE  Safe'
<1> DEFINE op == IF known \/ doc.rev > 0 THEN "save" ELSE "publish"
<1>1. doc \in DocType /\ doc # None /\ row \in RowType /\ row # None
  BY DEF RenameDocument, Typed, LocalOK, Safe
<1>2. /\ doc' = [doc EXCEPT !.at = Now]
      /\ row' = [row EXCEPT !.at = Now, !.touched = TRUE]
      /\ UNCHANGED <<draft, typed>>
      /\ UNCHANGED calls \/ (MayCall /\ Become(Slot, Call(op, "sent", doc', doc.rev)))
  BY <1>1 DEF RenameDocument
<1>3. doc'.cur = doc.cur /\ doc'.at = Now /\ doc'.dirty = doc.dirty /\ doc' \in DocType
  BY <1>1, <1>2 DEF DocType, Now, Typed, RestOK
<1>4. row'.touched /\ row' \in RowType
  <2>1. Now \in Nat /\ TRUE \in BOOLEAN
    BY DEF Now, Typed, RestOK
  <2>2. row' \in RowType
    BY <1>1, <1>2, <2>1 DEF RowType
  <2>3. row'.touched = TRUE
    BY <1>1, <1>2 DEF RowType
  <2> QED
    BY <2>2, <2>3
<1>5. doc' # None /\ row' # None
  BY <1>3, <1>4, NoneAssumption
<1>6. pending' = pending
  BY DEF RenameDocument, Cancelled, Undisturbed
<1>7. SameReloads
  <2>1. op \in Ops \ {"reload"}
    BY DEF Ops
  <2> HIDE DEF op
  <2> QED
    BY <1>2, <2>1, SlotIsFree, CallReloads DEF Typed
<1>8. ASSUME NEW k \in CallIds, calls[k].op = "reload"
      PROVE  Now > calls[k].local.at
  <2>1. calls[k].local \in DocType /\ PastDoc(count["typed"], clock, calls[k].local)
    BY <1>8 DEF Typed, CallsOK, Placed, AllPast, Past, PastCalls, PastCall
  <2>2. calls[k].local.at <= clock /\ calls[k].local.at \in Nat /\ clock \in Nat
    BY <2>1, NoneAssumption, DocFields DEF PastDoc, Typed, RestOK
  <2> QED
    BY <2>2 DEF Now
<1>9. \A k \in CallIds : calls'[k].op = "reload" => Now > calls'[k].local.at
  BY <1>7, <1>8 DEF SameReloads
<1>10. ASSUME typed # None
       PROVE  Carries(CheckpointOf(doc))'
  BY <1>2, <1>3, <1>4, <1>9, <1>10 DEF Safe, Carries, CheckpointOf
<1>11. ASSUME NEW c, Carries(c)
       PROVE  /\ c.content = typed' /\ row'.touched
              /\ \A k \in CallIds : calls'[k].op = "reload" => c.at > calls'[k].local.at
  BY <1>2, <1>4, <1>7, <1>11 DEF Carries, SameReloads
<1>12. Carries(pending) => Carries(pending)'
  BY <1>6, <1>11 DEF Carries
<1>13. Carries(draft) => Carries(draft)'
  BY <1>2, <1>11 DEF Carries
<1> QED
  BY <1>2, <1>3, <1>5, <1>6, <1>10, <1>12, <1>13 DEF Safe

LEMMA UserSafe ==
  ASSUME Typed, AllPast, Safe, Undisturbed', User
  PROVE  Safe'
<1>1. CallsOK /\ doc \in DocType \cup {None} /\ {"create", "archive"} \subseteq Ops \ {"reload"}
  BY DEF Typed, LocalOK, Ops
<1>2. ASSUME NEW shared \in BOOLEAN, CreateDocument(shared)
      PROVE  Safe'
  <2> DEFINE d == [cur |-> 0, saved |-> 0, rev |-> 0, dirty |-> FALSE, shared |-> shared,
                   at |-> Now, held |-> FALSE]
  <2>1. d \in DocType /\ Now \in Nat
    BY ZeroIsContent DEF Now, Typed, RestOK, DocType
  <2>2. row' = RowOf(d, Now) /\ typed' = typed /\ doc = None
    BY <1>2 DEF CreateDocument
  <2> HIDE DEF d
  <2>3. row' # None
    BY <2>1, <2>2, RowTypes, NoneAssumption
  <2> QED
    BY <2>2, <2>3, SafeWithNothingTyped DEF Safe
<1>3. ASSUME UpdateContent(count["typed"] + 1)
      PROVE  Safe'
  <2>1. count["typed"] \in Nat /\ count["typed"] < MaxTyped
    BY <1>3, CountTypes, SyncAssumption DEF UpdateContent, Bounded, Typed, RestOK
  <2>2. count["typed"] + 1 \in Contents
    BY <2>1, SyncAssumption DEF Contents
  <2> QED
    BY <1>3, <2>2, UpdateSafe
<1>4. ASSUME doc # None, UpdateContent(doc.saved)
      PROVE  Safe'
  <2>1. doc.saved \in Contents
    BY <1>1, <1>4, DocFields
  <2> QED
    BY <1>4, <2>1, UpdateSafe
<1>5. ASSUME ReleaseModel
      PROVE  Safe'
  <2>1. doc # None /\ pending' = None /\ draft' = CheckpointOf(doc) /\ UNCHANGED <<doc, row, calls, typed>>
    BY <1>5 DEF ReleaseModel
  <2>2. draft' # None
    BY <1>1, <2>1, RowTypes, NoneAssumption, 0 \in Nat
  <2> QED
    BY <2>1, <2>2 DEF Safe, Carries, CheckpointOf
<1>6. ASSUME SaveDocument \/ ResolveKeep
      PROVE  Safe'
  <2>1. doc # None /\ doc \in DocType /\ Slot \in CallIds /\ UNCHANGED <<doc, draft>>
    BY <1>1, <1>6, SlotIsFree DEF SaveDocument, ResolveKeep
  <2>2. \E base \in Nat, force \in BOOLEAN : SaveInternal(Slot, doc, base, force)
    <3>1. doc.rev \in Nat
      BY <2>1, DocFields
    <3>2. ResolveKeep => conflict.rev \in Nat
      BY DEF ResolveKeep, Typed, RestOK, Snapshot
    <3> QED
      BY <1>6, <3>1, <3>2 DEF SaveDocument, ResolveKeep
  <2> QED
    BY <2>1, <2>2, SaveInternalSafe
<1>7. ASSUME RevertDocument \/ ResolveReload
      PROVE  Safe'
  BY <1>7, SafeWithNothingTyped DEF RevertDocument, ResolveReload, Safe
<1>8. ASSUME DiscardDocument
      PROVE  Safe'
  BY <1>8, SafeWithNothingTyped DEF DiscardDocument, Drop, Safe
<1> QED
  BY <1>2, <1>3, <1>4, <1>5, <1>6, <1>7, <1>8, RenameSafe DEF User

LEMMA ServeSafe ==
  ASSUME Typed, Safe, NEW k \in CallIds, Serve(k)
  PROVE  Safe'
<1>1. /\ \E kind, value : Answer(k, kind, value)
      /\ calls[k].op # "reload"
      /\ UNCHANGED <<doc, row, draft, pending, typed>>
  BY DEF Serve, ServeSave, ServeCreate, ServeGet, ServeList, ServeArchive, Asked, local
<1>2. PICK kind, value : Answer(k, kind, value)
  BY <1>1
<1> DEFINE call == [calls[k] EXCEPT !.pc = "answered", !.reply = [kind |-> kind, value |-> value]]
<1>3. call.op # "reload" /\ Become(k, call)
  BY <1>1, <1>2 DEF Answer, Typed, CallsOK, CallType
<1> HIDE DEF call
<1>4. SameReloads
  BY <1>3, BecomeReloads DEF Typed
<1> QED
  BY <1>1, <1>4, SafeStays

(* A method that writes back has read the document as it still is.         *)
LEMMA SaveAnsweredSafe ==
  ASSUME Typed, Safe, Undisturbed', NEW k \in CallIds, SaveAnswered(k)
  PROVE  Safe'
<1> DEFINE reply == calls[k].reply
           rev == IF reply.kind = "document" THEN reply.value.rev ELSE 0
<1>1. /\ calls[k] \in CallType /\ Placed(calls[k])
      /\ calls[k].op \in {"save", "force", "publish"} /\ calls[k].pc = "answered"
      /\ UNCHANGED <<doc, draft, pending>>
  BY DEF SaveAnswered, Answered, Typed, CallsOK
<1>2. CASE reply.kind \in {"document", "created", "existed"}
  <2>1. StoreSave(k, calls[k].local, rev, reply.kind # "existed") /\ excused' = excused \cup Raced(k)
    BY <1>2 DEF SaveAnswered
  <2>2. doc = calls[k].local /\ calls[k].local \in DocType
    BY <1>1, <2>1 DEF Raced, Promises, Undisturbed, Placed
  <2>3. reply.kind = "document" => reply.value \in Snapshot
    BY <1>1 DEF Placed
  <2>4. rev \in Nat /\ (reply.kind # "existed") \in BOOLEAN
    BY <2>3 DEF Snapshot
  <2> HIDE DEF rev
  <2>5. doc # None
    BY <2>2, NoneAssumption
  <2>6. typed' = None /\ row' # None
    BY <2>1, <2>2, <2>4, <2>5, StoreSaveSafe
  <2> QED
    BY <2>6, SafeWithNothingTyped
<1>3. CASE reply.kind \notin {"document", "created", "existed"}
  <2>1. End(k) /\ UNCHANGED <<row, typed>>
    BY <1>3 DEF SaveAnswered
  <2> QED
    BY <1>1, <2>1, EndReloads, SafeStays DEF Typed
<1> QED
  BY <1>2, <1>3

LEMMA AdoptSafe ==
  ASSUME Typed, Safe, Undisturbed', NEW k \in CallIds, Adopt(k)
  PROVE  Safe'
<1> DEFINE read == calls[k].local
           got == calls[k].reply.value
           adopted == IF read = None THEN Fetched(got) ELSE Adopted(read, got)
<1>1. /\ calls[k] \in CallType /\ Placed(calls[k])
      /\ calls[k].op = "fetch" /\ calls[k].pc = "answered"
      /\ SameReloads /\ typed' = typed
  BY EndReloads DEF Adopt, Answered, Typed, CallsOK
<1>2. read \in DocType \cup {None}
  BY <1>1 DEF CallType
<1>3. CASE calls[k].reply.kind = "missing"
  BY <1>1, <1>3, SafeStays DEF Adopt, local
<1>4. CASE calls[k].reply.kind # "missing"
  <2>1. got \in Snapshot
    BY <1>1, <1>4 DEF Placed
  <2>2. doc = read
    BY <1>4 DEF Adopt, WriteBack, Raced, Promises, Undisturbed
  <2>3. CASE Clean(read)
    <3>1. row' = [RowOf(adopted, got.at) EXCEPT !.shared = TRUE]
      BY <1>4, <2>3 DEF Adopt
    <3>2. adopted \in DocType /\ got.at \in Nat
      BY <1>2, <2>1, AdoptTypes DEF Snapshot
    <3> HIDE DEF adopted
    <3>3. row' # None
      BY <3>1, <3>2, RowTypes, NoneAssumption
    <3>4. typed = None
      BY <2>2, <2>3 DEF Clean, Safe
    <3> QED
      BY <1>1, <3>3, <3>4, SafeWithNothingTyped
  <2>4. CASE ~Clean(read)
    <3>1. doc \in DocType /\ doc # None
      BY <1>2, <2>2, <2>4 DEF Clean
    <3>2. doc' = [doc EXCEPT !.saved = got.content, !.rev = got.rev, !.held = TRUE]
          /\ UNCHANGED <<row, draft, pending>>
      BY <1>4, <2>2, <2>4 DEF Adopt, WriteBack
    <3>3. doc'.cur = doc.cur /\ doc'.at = doc.at /\ doc'.dirty = doc.dirty
      BY <3>1, <3>2 DEF DocType
    <3>4. doc' \in DocType
      BY <2>1, <3>1, <3>2 DEF DocType, Snapshot
    <3>5. doc' # None
      BY <3>4, NoneAssumption
    <3> QED
      BY <1>1, <3>1, <3>2, <3>3, <3>5 DEF Safe, Carries, CheckpointOf, SameReloads
  <2> QED
    BY <2>3, <2>4
<1> QED
  BY <1>3, <1>4

LEMMA SyncSafe ==
  ASSUME Typed, Safe, Undisturbed', NEW k \in CallIds, SyncFromServer(k)
  PROVE  Safe'
<1>1. \/ Become(k, Call("fetch", "sent", doc, 0)) /\ UNCHANGED <<local, typed>>
      \/ doc # None /\ SaveInternal(k, doc, doc.rev, FALSE) /\ UNCHANGED <<doc, draft>>
      \/ /\ doc # None
         /\ doc' = [doc EXCEPT !.shared = TRUE]
         /\ row' = [RowOf(doc', doc.at) EXCEPT !.touched = TRUE]
         /\ End(k)
         /\ UNCHANGED <<draft, pending, typed>>
      \/ Become(k, Call("create", "sent", doc, 0)) /\ UNCHANGED <<local, typed>>
      \/ End(k) /\ UNCHANGED <<local, typed>>
  BY DEF SyncFromServer
<1>2. /\ doc \in DocType \cup {None} /\ {"fetch", "create"} \subseteq Ops \ {"reload"} /\ 0 \in Nat
      /\ CallsOK /\ FALSE \in BOOLEAN
  BY DEF Typed, LocalOK, Ops
<1>3. CASE \E op \in {"fetch", "create"} : Become(k, Call(op, "sent", doc, 0)) /\ UNCHANGED <<local, typed>>
  BY <1>2, <1>3, CallReloads, SafeStays DEF local
<1>4. CASE doc # None /\ SaveInternal(k, doc, doc.rev, FALSE) /\ UNCHANGED <<doc, draft>>
  <2>1. doc.rev \in Nat
    BY <1>2, <1>4, DocFields
  <2> QED
    BY <1>2, <1>4, <2>1, SaveInternalSafe
<1>5. CASE /\ doc # None
           /\ doc' = [doc EXCEPT !.shared = TRUE]
           /\ row' = [RowOf(doc', doc.at) EXCEPT !.touched = TRUE]
           /\ End(k)
           /\ UNCHANGED <<draft, pending, typed>>
  <2>1. doc \in DocType /\ doc' \in DocType /\ doc.at \in Nat
    BY <1>2, <1>5 DEF DocType
  <2>2. doc'.cur = doc.cur /\ doc'.at = doc.at /\ doc'.dirty = doc.dirty /\ doc' # None
    BY <1>5, <2>1, NoneAssumption DEF DocType
  <2>3. row' \in RowType
    BY <1>5, <2>1, RowTypes
  <2>4. row'.touched = TRUE /\ row' # None
    BY <1>5, <2>3, NoneAssumption DEF RowOf
  <2>5. SameReloads
    BY <1>2, <1>5, EndReloads
  <2> QED
    BY <1>5, <2>2, <2>4, <2>5 DEF Safe, Carries, CheckpointOf, SameReloads
<1>6. CASE End(k) /\ UNCHANGED <<local, typed>>
  BY <1>2, <1>6, EndReloads, SafeStays DEF local
<1> QED
  BY <1>1, <1>3, <1>4, <1>5, <1>6

LEMMA FinishSafe ==
  ASSUME Typed, Stored, Safe, Undisturbed', NEW k \in CallIds, FinishSave(k) \/ FinishReload(k)
  PROVE  Safe'
<1>1. calls[k] \in CallType /\ Placed(calls[k]) /\ StoredCall(typed, calls[k]) /\ SameReloads
  BY EndReloads DEF FinishSave, FinishReload, Typed, CallsOK, Stored, StoredCalls
<1>2. CASE FinishSave(k)
  <2>1. doc = calls[k].local /\ UNCHANGED <<row, typed>>
    BY <1>2 DEF FinishSave, Raced, Promises, Undisturbed
  <2>2. doc \in DocType
    BY <1>1, <1>2, <2>1 DEF FinishSave, Placed
  <2>3. typed # None => typed = doc.cur
    BY DEF Safe, Carries, CheckpointOf
  <2>4. typed = None
    BY <1>1, <1>2, <2>1, <2>3 DEF FinishSave, StoredCall
  <2>5. row # None
    BY <2>2, NoneAssumption DEF Safe
  <2> QED
    BY <2>1, <2>4, <2>5, SafeWithNothingTyped
<1>3. CASE FinishReload(k)
  <2>1. calls[k].local \in DocType /\ calls[k].local.at \in Nat /\ calls[k].op = "reload"
    BY <1>1, <1>3, DocFields DEF FinishReload, Placed
  <2>2. row' = [RowOf(calls[k].local, calls[k].local.at) EXCEPT !.shared = FALSE]
        /\ UNCHANGED <<doc, draft, pending, typed>>
    BY <1>3 DEF FinishReload
  <2>3. row' \in RowType /\ row'.at = calls[k].local.at
    BY <2>1, <2>2, RowTypes DEF RowOf
  <2>4. row' # None
    BY <2>3, NoneAssumption
  <2>5. \A c : Carries(c) => c.at > row'.at
    BY <2>1, <2>3 DEF Carries
  <2> QED
    BY <1>1, <2>2, <2>4, <2>5 DEF Safe, Carries, CheckpointOf, SameReloads
<1> QED
  BY <1>2, <1>3

LEMMA FailSafe ==
  ASSUME Typed, Safe, Undisturbed', NEW k \in CallIds, RequestFails(k) \/ TimeOut(k)
  PROVE  Safe'
<1>1. /\ calls[k] \in CallType /\ Placed(calls[k]) /\ GiveUp(k)
      /\ excused \cup Overtaken(k) \subseteq excused'
  BY DEF RequestFails, TimeOut, Typed, CallsOK
<1>2. CASE calls[k].op \in {"save", "force", "publish"}
  <2>1. StoreSave(k, calls[k].local, calls[k].base + 1, FALSE)
    BY <1>1, <1>2 DEF GiveUp
  <2>2. doc = calls[k].local
    BY <1>1, <1>2 DEF Overtaken, Raced, Promises, Undisturbed
  <2>3. calls[k].local \in DocType /\ calls[k].base + 1 \in Nat /\ FALSE \in BOOLEAN
    BY <1>1, <1>2 DEF Placed, CallType
  <2>4. doc # None
    BY <2>2, <2>3, NoneAssumption
  <2>5. typed' = None /\ row' # None
    BY <2>1, <2>2, <2>3, <2>4, StoreSaveSafe
  <2> QED
    BY <2>5, SafeWithNothingTyped
<1>3. CASE calls[k].op = "archive"
  BY <1>1, <1>3, SafeWithNothingTyped DEF GiveUp, Drop
<1>4. CASE calls[k].op \notin {"save", "force", "publish", "archive"}
  <2>1. End(k) /\ UNCHANGED <<local, typed>>
    BY <1>1, <1>4 DEF GiveUp
  <2> QED
    BY <2>1, EndReloads, SafeStays DEF local, Typed
<1> QED
  BY <1>2, <1>3, <1>4

LEMMA ProceedSafe ==
  ASSUME Typed, Stored, Safe, Undisturbed', NEW k \in CallIds, Proceed(k) \/ TimeOut(k)
  PROVE  Safe'
<1>1. ASSUME CreateAnswered(k)
      PROVE  Safe'
  BY <1>1, EndReloads, SafeStays DEF CreateAnswered, local, Typed
<1>2. ASSUME ArchiveAnswered(k)
      PROVE  Safe'
  BY <1>2, SafeWithNothingTyped DEF ArchiveAnswered, Drop
<1> QED
  BY <1>1, <1>2, SaveAnsweredSafe, AdoptSafe, SyncSafe, FinishSafe, FailSafe DEF Proceed

LEMMA ChangeSafe ==
  ASSUME Typed, Safe, NEW e \in events, ApplyServerChange(e)
  PROVE  Safe'
<1>1. /\ \/ UNCHANGED <<doc, row>>
         \/ doc # None /\ ~doc.dirty /\ doc' = None
      /\ UNCHANGED calls \/ Begin(Call("fetch", "sent", doc, 0))
      /\ UNCHANGED <<draft, pending, typed>>
  BY DEF ApplyServerChange
<1>2. "fetch" \in Ops \ {"reload"}
  BY DEF Ops
<1>3. SameReloads
  BY <1>1, <1>2, CallReloads DEF Typed
<1>4. CASE UNCHANGED <<doc, row>>
  BY <1>1, <1>3, <1>4, SafeStays
<1>5. CASE doc # None /\ ~doc.dirty /\ doc' = None
  BY <1>1, <1>5, SafeWithNothingTyped DEF Safe
<1> QED
  BY <1>1, <1>4, <1>5

LEMMA SocketSafe ==
  ASSUME Typed, Safe, Others \/ Disconnect \/ Connect
  PROVE  Safe'
<1>1. /\ UNCHANGED <<doc, row, draft, pending, typed>>
      /\ UNCHANGED calls \/ Begin(Call("sync", "sent", None, 0))
  BY DEF Others, OtherSaves, OtherArchives, Disconnect, Connect, local
<1>2. "sync" \in Ops \ {"reload"}
  BY DEF Ops
<1> QED
  BY <1>1, <1>2, CallReloads, SafeStays DEF Typed

(* A tab loaded again has the last checkpoint that is newer than the row.  *)
LEMMA RestartSafe ==
  ASSUME Typed, Safe, Undisturbed', Restart
  PROVE  Safe'
<1>1. /\ doc' = Recovered /\ pending' = None /\ UNCHANGED <<row, draft>>
      /\ \A k \in CallIds : calls'[k] = Idle
  BY DEF Restart
<1>2. row = None => doc' = None
  BY <1>1 DEF Recovered
<1>3. CASE row # None /\ DraftWins
  <2>1. typed' = draft.content /\ draft # None /\ draft.at > row.at
    BY <1>3 DEF Restart, DraftWins
  <2>2. doc'.cur = draft.content /\ doc'.at = draft.at /\ doc'.dirty
    BY <1>1, <1>3 DEF Recovered
  <2>3. doc' # None
    BY <1>1, <1>3, RecoveredTypes, NoneAssumption DEF Typed
  <2>4. Carries(draft)' /\ Carries(CheckpointOf(doc))'
    BY <1>1, <2>1, <2>2, IdleTypes DEF Carries, CheckpointOf, Idle
  <2> QED
    BY <1>1, <1>3, <2>1, <2>2, <2>3, <2>4 DEF Safe
<1>4. CASE ~(row # None /\ DraftWins)
  <2>1. CASE pending # None
    BY <1>1, <1>2, <1>4, <2>1, SafeWithNothingTyped DEF Restart
  <2>2. CASE pending = None
    <3>1. typed' = typed
      BY <1>4, <2>2 DEF Restart
    <3>2. ASSUME typed # None
          PROVE  FALSE
      <4>1. row # None /\ draft # None /\ (row.touched \/ draft.at > row.at)
        BY <2>2, <3>2 DEF Safe, Carries
      <4>2. row.touched
        BY <1>4, <4>1 DEF DraftWins
      <4> QED
        BY <1>4, <4>1, <4>2 DEF Restart, Undisturbed
    <3> QED
      BY <1>1, <1>2, <3>1, <3>2, SafeWithNothingTyped
  <2> QED
    BY <2>1, <2>2
<1> QED
  BY <1>3, <1>4

(* An excuse stays.                                                        *)
LEMMA ExcusesStay ==
  ASSUME Typed, [Next]_vars
  PROVE  excused \subseteq excused'
<1>1. excused \subseteq Cancelled
  BY DEF Cancelled
<1>2. \A k, d, base, force : SaveInternal(k, d, base, force) => excused' = Cancelled
  BY DEF SaveInternal
<1>3. ASSUME User
      PROVE  excused \subseteq excused'
  BY <1>1, <1>2, <1>3
     DEF User, CreateDocument, UpdateContent, ReleaseModel, SaveDocument, RenameDocument,
         RevertDocument, ResolveReload, ResolveKeep, DiscardDocument
<1>4. ASSUME Others \/ Checkpoint \/ Disconnect \/ Connect \/ Restart \/ UNCHANGED vars
      PROVE  excused \subseteq excused'
  BY <1>4 DEF Others, OtherSaves, OtherArchives, Checkpoint, Disconnect, Connect, Restart, vars
<1>5. ASSUME NEW k \in CallIds, Serve(k) \/ Proceed(k) \/ TimeOut(k)
      PROVE  excused \subseteq excused'
  <2>1. CASE Serve(k)
    BY <2>1 DEF Serve, ServeSave, ServeCreate, ServeGet, ServeList, ServeArchive
  <2>2. CASE SyncFromServer(k)
    <3>1. excused' = excused \/ SaveInternal(k, doc, doc.rev, FALSE)
      BY <2>2 DEF SyncFromServer
    <3> QED
      BY <1>1, <1>2, <3>1
  <2>3. CASE SaveAnswered(k) \/ CreateAnswered(k) \/ ArchiveAnswered(k)
    BY <2>3 DEF SaveAnswered, CreateAnswered, ArchiveAnswered
  <2>4. CASE RequestFails(k) \/ TimeOut(k)
    BY <2>4 DEF RequestFails, TimeOut
  <2>5. CASE Adopt(k) \/ FinishSave(k) \/ FinishReload(k)
    BY <2>5 DEF Adopt, FinishSave, FinishReload, WriteBack
  <2> QED
    BY <1>5, <2>1, <2>2, <2>3, <2>4, <2>5 DEF Proceed
<1>6. ASSUME NEW e \in events, ApplyServerChange(e)
      PROVE  excused \subseteq excused'
  BY <1>6 DEF ApplyServerChange
<1> QED
  BY <1>3, <1>4, <1>5, <1>6 DEF Next

(* Until one of the four mishaps, what is typed is safe.                   *)
Kept == Undisturbed => Safe

LEMMA StepKept == Typed /\ AllPast /\ Stored /\ Kept /\ [Next]_vars => Kept'
<1> SUFFICES ASSUME Typed, AllPast, Stored, Kept, [Next]_vars, Undisturbed' PROVE Safe'
  BY DEF Kept
<1>1. Safe
  BY ExcusesStay DEF Kept, Undisturbed
<1>2. ASSUME Checkpoint
      PROVE  Safe'
  BY <1>1, <1>2 DEF Checkpoint, Safe, Carries, CheckpointOf
<1>3. ASSUME UNCHANGED vars
      PROVE  Safe'
  BY <1>1, <1>3, SafeStays DEF vars, local, SameReloads
<1> QED
  BY <1>1, <1>2, <1>3, UserSafe, SocketSafe, ServeSafe, ProceedSafe, ChangeSafe, RestartSafe
     DEF Next

LEMMA InitKept == Init => Stored /\ Kept
  BY DEF Init, Idle, Stored, StoredCalls, StoredCall, Kept, Safe

(* What the user typed is in the editor until it is saved or given up,     *)
(* through conflicts, overlapping saves, lost connections and a tab that   *)
(* is loaded again, unless a method wrote back over it, a save cancelled   *)
(* the checkpoint it did not yet replace, or a rename or the repair of the *)
(* shared flag made the row newer than the draft                           *)
(* (apps/web/src/stores/documents.ts; mergeDrafts in                       *)
(* persistence/drafts.ts: the newer of row and draft wins).                *)
THEOREM TypingIsKept == Spec => []NothingTypedIsLost
<1>1. Kept => NothingTypedIsLost
  BY SafeIsEnough DEF Kept
<1> QED
  BY <1>1, InitKept, AlwaysTyped, AlwaysPast, StepStored, StepKept, PTL DEF Spec

-----------------------------------------------------------------------------
(* How the calls of a step follow from those before it: one begins, gets   *)
(* its answer, writes a row, or ends.                                      *)
Sent(k) ==
  \E op \in Ops \ {"idle", "reload"}, d \in DocType \cup {None}, base \in Nat :
    Become(k, Call(op, "sent", d, base))
Replied(k) ==
  \E kind, value : calls[k].op # "idle" /\ calls[k].pc = "sent" /\ Answer(k, kind, value)
Saves(k) ==
  \E d \in DocType, rev \in Nat, held \in BOOLEAN :
    PastDoc(count["typed"], clock, d) /\ StoreSave(k, d, rev, held)
Reloads(k) == doc' \in DocType /\ ~doc'.dirty /\ Become(k, Call("reload", "storing", doc', 0))
CallsMove ==
  \/ UNCHANGED calls
  \/ \A k \in CallIds : calls'[k] = Idle
  \/ \E k \in CallIds : End(k) \/ Sent(k) \/ Replied(k) \/ Saves(k) \/ Reloads(k)

LEMMA BeginSent ==
  ASSUME NEW op \in Ops \ {"idle", "reload"}, NEW d \in DocType \cup {None}, NEW base \in Nat,
         Begin(Call(op, "sent", d, base))
  PROVE  CallsMove
  BY SlotIsFree DEF Begin, Become, Sent, CallsMove

LEMMA SaveInternalMoves ==
  ASSUME Typed, AllPast, NEW k \in CallIds, doc # None, NEW base \in Nat, NEW force \in BOOLEAN,
         SaveInternal(k, doc, base, force)
  PROVE  CallsMove
<1>1. doc \in DocType /\ PastDoc(count["typed"], clock, doc)
  BY DEF Typed, LocalOK, AllPast, Past
<1>2. CASE online
  <2> DEFINE op == IF known \/ base > 0 THEN IF force THEN "force" ELSE "save" ELSE "publish"
  <2>1. op \in Ops \ {"idle", "reload"}
    BY DEF Ops
  <2>2. Become(k, Call(op, "sent", doc, base))
    BY <1>2 DEF SaveInternal
  <2> HIDE DEF op
  <2> QED
    BY <1>1, <2>1, <2>2 DEF Sent, CallsMove
<1>3. CASE ~online
  <2>1. StoreSave(k, doc, base + 1, FALSE)
    BY <1>3 DEF SaveInternal
  <2>2. base + 1 \in Nat /\ FALSE \in BOOLEAN
    OBVIOUS
  <2> QED
    BY <1>1, <2>1, <2>2 DEF Saves, CallsMove
<1>4. online \in BOOLEAN
  BY DEF Typed, RestOK
<1> QED
  BY <1>2, <1>3, <1>4

LEMMA UserMoves ==
  ASSUME Typed, AllPast, User
  PROVE  CallsMove
<1>1. /\ doc \in DocType \cup {None} /\ 0 \in Nat
      /\ {"create", "archive", "save", "publish"} \subseteq Ops \ {"idle", "reload"}
  BY DEF Typed, LocalOK, Ops
<1>2. ASSUME NEW shared \in BOOLEAN, CreateDocument(shared)
      PROVE  CallsMove
  <2> DEFINE d == [cur |-> 0, saved |-> 0, rev |-> 0, dirty |-> FALSE, shared |-> shared,
                   at |-> Now, held |-> FALSE]
  <2>1. d \in DocType
    BY ZeroIsContent DEF Now, Typed, RestOK, DocType
  <2>2. Begin(Call("create", "sent", d, 0)) \/ UNCHANGED calls
    BY <1>2 DEF CreateDocument
  <2> HIDE DEF d
  <2> QED
    BY <1>1, <2>1, <2>2, BeginSent DEF CallsMove
<1>3. ASSUME SaveDocument \/ ResolveKeep
      PROVE  CallsMove
  <2>1. doc \in DocType /\ Slot \in CallIds /\ doc # None
    BY <1>1, <1>3, SlotIsFree DEF SaveDocument, ResolveKeep
  <2>2. \E base \in Nat, force \in BOOLEAN : SaveInternal(Slot, doc, base, force)
    <3>1. doc.rev \in Nat
      BY <2>1, DocFields
    <3>2. ResolveKeep => conflict.rev \in Nat
      BY DEF ResolveKeep, Typed, RestOK, Snapshot
    <3> QED
      BY <1>3, <3>1, <3>2 DEF SaveDocument, ResolveKeep
  <2> QED
    BY <2>1, <2>2, SaveInternalMoves
<1>4. ASSUME RenameDocument
      PROVE  CallsMove
  <2> DEFINE renamed == [doc EXCEPT !.at = Now]
             op == IF known \/ doc.rev > 0 THEN "save" ELSE "publish"
  <2>1. doc \in DocType /\ renamed \in DocType /\ doc.rev \in Nat
    BY <1>1, <1>4, DocFields DEF RenameDocument, DocType, Now, Typed, RestOK
  <2>2. op \in Ops \ {"idle", "reload"}
    BY <1>1
  <2>3. UNCHANGED calls \/ (MayCall /\ Become(Slot, Call(op, "sent", renamed, doc.rev)))
    BY <1>4 DEF RenameDocument
  <2> HIDE DEF renamed, op
  <2> QED
    BY <2>1, <2>2, <2>3, SlotIsFree DEF Sent, CallsMove
<1>5. ASSUME ResolveReload
      PROVE  CallsMove
  <2>1. doc \in DocType /\ conflict \in Snapshot
    BY <1>1, <1>5 DEF ResolveReload, Typed, RestOK
  <2>2. doc' = Adopted(doc, conflict) /\ Begin(Call("reload", "storing", doc', 0))
    BY <1>5 DEF ResolveReload
  <2>3. doc' \in DocType
    BY <2>1, <2>2, AdoptTypes
  <2>4. doc'.dirty = FALSE
    BY <2>1, <2>2 DEF Adopted, DocType
  <2> QED
    BY <2>2, <2>3, <2>4, SlotIsFree DEF Begin, Become, Reloads, CallsMove
<1>6. ASSUME DiscardDocument
      PROVE  CallsMove
  <2>1. UNCHANGED calls \/ Begin(Call("archive", "sent", doc, 0))
    BY <1>6 DEF DiscardDocument
  <2> QED
    BY <1>1, <2>1, BeginSent DEF CallsMove
<1>7. ASSUME \/ doc # None /\ UpdateContent(doc.saved)
             \/ UpdateContent(count["typed"] + 1) \/ ReleaseModel \/ RevertDocument
      PROVE  CallsMove
  BY <1>7 DEF UpdateContent, ReleaseModel, RevertDocument, CallsMove
<1> QED
  BY <1>2, <1>3, <1>4, <1>5, <1>6, <1>7 DEF User

LEMMA ServeMoves ==
  ASSUME Typed, NEW k \in CallIds, Serve(k)
  PROVE  Replied(k)
<1>1. /\ \E kind, value : Answer(k, kind, value)
      /\ calls[k].op # "idle" /\ calls[k].pc = "sent"
  BY DEF Serve, ServeSave, ServeCreate, ServeGet, ServeList, ServeArchive, Asked
<1> QED
  BY <1>1 DEF Replied

LEMMA ProceedMoves ==
  ASSUME Typed, AllPast, NEW k \in CallIds, Proceed(k) \/ TimeOut(k)
  PROVE  CallsMove
<1>1. /\ calls[k] \in CallType /\ Placed(calls[k]) /\ doc \in DocType \cup {None}
      /\ {"create", "fetch"} \subseteq Ops \ {"idle", "reload"} /\ 0 \in Nat /\ FALSE \in BOOLEAN
      /\ PastDoc(count["typed"], clock, calls[k].local)
  BY DEF Typed, LocalOK, CallsOK, Ops, AllPast, Past, PastCalls, PastCall
<1>2. ASSUME SaveAnswered(k)
      PROVE  CallsMove
  <2> DEFINE reply == calls[k].reply
             rev == IF reply.kind = "document" THEN reply.value.rev ELSE 0
  <2>1. StoreSave(k, calls[k].local, rev, reply.kind # "existed") \/ End(k)
    BY <1>2 DEF SaveAnswered
  <2>2. calls[k].local \in DocType
    BY <1>1, <1>2 DEF SaveAnswered, Answered, Placed
  <2>3. reply.kind = "document" => reply.value \in Snapshot
    BY <1>1, <1>2 DEF SaveAnswered, Answered, Placed
  <2>4. rev \in Nat /\ (reply.kind # "existed") \in BOOLEAN
    BY <2>3 DEF Snapshot
  <2> HIDE DEF rev
  <2> QED
    BY <1>1, <2>1, <2>2, <2>4 DEF Saves, CallsMove
<1>3. ASSUME SyncFromServer(k)
      PROVE  CallsMove
  <2>1. \/ Become(k, Call("fetch", "sent", doc, 0))
        \/ doc # None /\ SaveInternal(k, doc, doc.rev, FALSE)
        \/ Become(k, Call("create", "sent", doc, 0))
        \/ End(k)
    BY <1>3 DEF SyncFromServer
  <2>2. doc # None => doc.rev \in Nat
    BY <1>1, DocFields
  <2> QED
    BY <1>1, <2>1, <2>2, SaveInternalMoves DEF Sent, CallsMove
<1>4. ASSUME RequestFails(k) \/ TimeOut(k)
      PROVE  CallsMove
  <2>1. GiveUp(k)
    BY <1>4 DEF RequestFails, TimeOut
  <2>2. CASE calls[k].op \in {"save", "force", "publish"}
    <3>1. StoreSave(k, calls[k].local, calls[k].base + 1, FALSE)
      BY <2>1, <2>2 DEF GiveUp
    <3>2. calls[k].local \in DocType /\ calls[k].base + 1 \in Nat
      BY <1>1, <2>2 DEF Placed, CallType
    <3> QED
      BY <1>1, <3>1, <3>2 DEF Saves, CallsMove
  <2>3. CASE calls[k].op \notin {"save", "force", "publish"}
    BY <2>1, <2>3 DEF GiveUp, CallsMove
  <2> QED
    BY <2>2, <2>3
<1>5. ASSUME CreateAnswered(k) \/ ArchiveAnswered(k) \/ Adopt(k) \/ FinishSave(k) \/ FinishReload(k)
      PROVE  CallsMove
  BY <1>5 DEF CreateAnswered, ArchiveAnswered, Adopt, FinishSave, FinishReload, CallsMove
<1> QED
  BY <1>2, <1>3, <1>4, <1>5 DEF Proceed

LEMMA StepMoves ==
  ASSUME Typed, AllPast, [Next]_vars
  PROVE  CallsMove
<1>1. ASSUME NEW e \in events, ApplyServerChange(e)
      PROVE  CallsMove
  <2>1. UNCHANGED calls \/ Begin(Call("fetch", "sent", doc, 0))
    BY <1>1 DEF ApplyServerChange
  <2>2. "fetch" \in Ops \ {"idle", "reload"} /\ doc \in DocType \cup {None} /\ 0 \in Nat
    BY DEF Ops, Typed, LocalOK
  <2> QED
    BY <2>1, <2>2, BeginSent DEF CallsMove
<1>2. ASSUME Connect
      PROVE  CallsMove
  <2>1. Begin(Call("sync", "sent", None, 0)) /\ "sync" \in Ops \ {"idle", "reload"} /\ 0 \in Nat
    BY <1>2 DEF Connect, Ops
  <2> QED
    BY <2>1, BeginSent
<1>3. ASSUME Others \/ Checkpoint \/ Disconnect \/ Restart \/ UNCHANGED vars
      PROVE  CallsMove
  BY <1>3 DEF Others, OtherSaves, OtherArchives, Checkpoint, Disconnect, Restart, vars, CallsMove
<1> QED
  BY <1>1, <1>2, <1>3, UserMoves, ServeMoves, ProceedMoves DEF Next, CallsMove

-----------------------------------------------------------------------------
(* A document without edits shows what is saved.  What a reload stores has *)
(* none, and a save is later than the document it saves.                   *)
TidyCall(c) ==
  /\ c.op = "reload" => ~c.local.dirty
  /\ c.op = "save" /\ c.pc = "storing" => c.reply.value.at > c.local.at
TidyDoc(d) == d # None /\ ~d.dirty => d.cur = d.saved
Tidy == TidyDoc(doc) /\ \A k \in CallIds : TidyCall(calls[k])

LEMMA CallsTidy ==
  ASSUME Typed, \A k \in CallIds : TidyCall(calls[k]), CallsMove
  PROVE  \A k \in CallIds : TidyCall(calls'[k])
<1>1. TidyCall(Idle)
  BY DEF TidyCall, Idle
<1>2. ASSUME NEW k \in CallIds, NEW call, TidyCall(call), Become(k, call)
      PROVE  \A j \in CallIds : TidyCall(calls'[j])
  BY <1>2 DEF Become, Typed, CallsOK
<1>3. ASSUME NEW k \in CallIds, Sent(k)
      PROVE  \A j \in CallIds : TidyCall(calls'[j])
  <2>1. PICK op \in Ops \ {"idle", "reload"}, d \in DocType \cup {None}, base \in Nat :
          Become(k, Call(op, "sent", d, base))
    BY <1>3 DEF Sent
  <2>2. Call(op, "sent", d, base).op = op /\ Call(op, "sent", d, base).pc = "sent"
    BY CallTypes
  <2>3. TidyCall(Call(op, "sent", d, base))
    BY <2>2 DEF TidyCall
  <2> QED
    BY <1>2, <2>1, <2>3
<1>4. ASSUME NEW k \in CallIds, Replied(k)
      PROVE  \A j \in CallIds : TidyCall(calls'[j])
  <2>1. PICK kind, value : calls[k].pc = "sent" /\ Answer(k, kind, value)
    BY <1>4 DEF Replied
  <2> DEFINE call == [calls[k] EXCEPT !.pc = "answered", !.reply = [kind |-> kind, value |-> value]]
  <2>2. call.op = calls[k].op /\ call.pc = "answered" /\ call.local = calls[k].local
    BY DEF Typed, CallsOK, CallType
  <2>3. Become(k, call)
    BY <2>1 DEF Answer
  <2> HIDE DEF call
  <2>4. TidyCall(call)
    BY <2>2 DEF TidyCall
  <2> QED
    BY <1>2, <2>3, <2>4
<1>5. ASSUME NEW k \in CallIds, Saves(k)
      PROVE  \A j \in CallIds : TidyCall(calls'[j])
  <2>1. PICK d \in DocType, rev \in Nat, held \in BOOLEAN :
          PastDoc(count["typed"], clock, d) /\ StoreSave(k, d, rev, held)
    BY <1>5 DEF Saves
  <2> DEFINE stored == [rev |-> rev, content |-> d.cur, at |-> Now]
             reply == [kind |-> IF held THEN "document" ELSE "none", value |-> stored]
             call == [Call("save", "storing", d, 0) EXCEPT !.reply = reply]
  <2>2. call.op = "save" /\ call.local = d /\ call.reply = reply /\ stored.at = Now /\ reply.value = stored
    BY DEF Call
  <2>3. Become(k, call)
    BY <2>1 DEF StoreSave
  <2>4. d.at <= clock /\ d.at \in Nat /\ clock \in Nat
    BY <2>1, NoneAssumption, DocFields DEF PastDoc, Typed, RestOK
  <2> HIDE DEF call, reply, stored
  <2>5. call.reply.value.at > call.local.at
    BY <2>2, <2>4 DEF Now
  <2>6. TidyCall(call)
    BY <2>2, <2>5 DEF TidyCall
  <2> QED
    BY <1>2, <2>3, <2>6
<1>6. ASSUME NEW k \in CallIds, Reloads(k)
      PROVE  \A j \in CallIds : TidyCall(calls'[j])
  <2> DEFINE call == Call("reload", "storing", doc', 0)
  <2>1. call.op = "reload" /\ call.local = doc' /\ ~doc'.dirty /\ Become(k, call)
    BY <1>6 DEF Reloads, Call
  <2> HIDE DEF call
  <2>2. TidyCall(call)
    BY <2>1 DEF TidyCall
  <2> QED
    BY <1>2, <2>1, <2>2
<1> QED
  BY <1>1, <1>2, <1>3, <1>4, <1>5, <1>6 DEF CallsMove, End

LEMMA DocTidy ==
  ASSUME Typed, Stored, Tidy, [Next]_vars
  PROVE  TidyDoc(doc)'
<1>1. doc \in DocType \cup {None} /\ TidyDoc(doc)
  BY DEF Typed, LocalOK, Tidy
<1>2. ASSUME User
      PROVE  TidyDoc(doc)'
  <2>1. ASSUME NEW shared \in BOOLEAN, CreateDocument(shared)
        PROVE  TidyDoc(doc)'
    BY <2>1 DEF CreateDocument, TidyDoc
  <2>2. ASSUME NEW content, doc # None, UpdateContent(content)
        PROVE  TidyDoc(doc)'
    BY <1>1, <2>2 DEF UpdateContent, TidyDoc, DocType
  <2>3. ASSUME RenameDocument
        PROVE  TidyDoc(doc)'
    BY <1>1, <2>3 DEF RenameDocument, TidyDoc, DocType
  <2>4. ASSUME RevertDocument
        PROVE  TidyDoc(doc)'
    BY <1>1, <2>4 DEF RevertDocument, TidyDoc, DocType
  <2>5. ASSUME ResolveReload
        PROVE  TidyDoc(doc)'
    BY <1>1, <2>5 DEF ResolveReload, Adopted, TidyDoc, DocType
  <2>6. ASSUME ReleaseModel \/ SaveDocument \/ ResolveKeep \/ DiscardDocument
        PROVE  TidyDoc(doc)'
    BY <1>1, <2>6 DEF ReleaseModel, SaveDocument, ResolveKeep, DiscardDocument, Drop, TidyDoc
  <2> QED
    BY <1>2, <2>1, <2>2, <2>3, <2>4, <2>5, <2>6 DEF User, UpdateContent
<1>3. ASSUME NEW k \in CallIds, Adopt(k)
      PROVE  TidyDoc(doc)'
  <2> DEFINE read == calls[k].local
             got == calls[k].reply.value
             adopted == IF read = None THEN Fetched(got) ELSE Adopted(read, got)
  <2>1. read \in DocType \cup {None}
    BY DEF Typed, CallsOK, CallType
  <2>2. CASE calls[k].reply.kind = "missing"
    BY <1>1, <1>3, <2>2 DEF Adopt, local
  <2>3. CASE calls[k].reply.kind # "missing" /\ Clean(read)
    <3>1. doc' = adopted
      BY <1>3, <2>3 DEF Adopt, WriteBack
    <3> QED
      BY <2>1, <3>1 DEF Fetched, Adopted, TidyDoc, DocType
  <2>4. CASE calls[k].reply.kind # "missing" /\ ~Clean(read)
    <3>1. doc' = [read EXCEPT !.saved = got.content, !.rev = got.rev, !.held = TRUE]
      BY <1>3, <2>4 DEF Adopt, WriteBack
    <3>2. read \in DocType /\ read.dirty
      BY <2>1, <2>4 DEF Clean
    <3> QED
      BY <3>1, <3>2 DEF TidyDoc, DocType
  <2> QED
    BY <2>2, <2>3, <2>4
<1>4. ASSUME NEW k \in CallIds, FinishSave(k)
      PROVE  TidyDoc(doc)'
  <2> DEFINE stored == calls[k].reply.value
  <2>1. calls[k].local \in DocType /\ stored.content = calls[k].local.cur
    BY <1>4 DEF FinishSave, Typed, CallsOK, Placed, Stored, StoredCalls, StoredCall
  <2>2. doc'.cur = calls[k].local.cur /\ doc'.saved = stored.content
    BY <1>4, <2>1 DEF FinishSave, DocType
  <2> QED
    BY <2>1, <2>2 DEF TidyDoc
<1>5. ASSUME NEW k \in CallIds, SyncFromServer(k)
      PROVE  TidyDoc(doc)'
  <2>1. doc' = doc \/ (doc # None /\ doc' = [doc EXCEPT !.shared = TRUE])
    BY <1>5 DEF SyncFromServer, local
  <2> QED
    BY <1>1, <2>1 DEF TidyDoc, DocType
<1>6. ASSUME Restart
      PROVE  TidyDoc(doc)'
  <2>1. doc' = Recovered /\ DraftWins \in BOOLEAN
    BY <1>6 DEF Restart, DraftWins
  <2>2. CASE row = None
    BY <2>1, <2>2 DEF Recovered, TidyDoc
  <2>3. CASE row # None
    <3>1. doc'.dirty = DraftWins /\ doc'.saved = row.content
          /\ doc'.cur = IF DraftWins THEN draft.content ELSE row.content
      BY <2>1, <2>3 DEF Recovered
    <3> QED
      BY <3>1 DEF TidyDoc
  <2> QED
    BY <2>2, <2>3
<1>7. ASSUME doc' \in {doc, None}
      PROVE  TidyDoc(doc)'
  BY <1>1, <1>7 DEF TidyDoc
<1>8. ASSUME NEW k \in CallIds, \/ Serve(k) \/ SaveAnswered(k) \/ CreateAnswered(k) \/ ArchiveAnswered(k)
                                \/ FinishReload(k) \/ RequestFails(k) \/ TimeOut(k)
      PROVE  doc' \in {doc, None}
  BY <1>8 DEF Serve, ServeSave, ServeCreate, ServeGet, ServeList, ServeArchive, local, SaveAnswered,
              CreateAnswered, ArchiveAnswered, Drop, FinishReload, RequestFails, TimeOut, GiveUp
<1>9. ASSUME \/ Others \/ Checkpoint \/ Disconnect \/ Connect \/ UNCHANGED vars
             \/ \E e \in events : ApplyServerChange(e)
      PROVE  doc' \in {doc, None}
  BY <1>9 DEF Others, OtherSaves, OtherArchives, Checkpoint, Disconnect, Connect, vars, local,
              ApplyServerChange
<1> QED
  BY <1>2, <1>3, <1>4, <1>5, <1>6, <1>7, <1>8, <1>9 DEF Next, Proceed

LEMMA StepTidy == Typed /\ AllPast /\ Stored /\ Tidy /\ [Next]_vars => Tidy'
  BY StepMoves, CallsTidy, DocTidy DEF Tidy

LEMMA AlwaysTidy == Spec => []Tidy
<1>1. Init => Stored /\ Tidy
  BY InitKept DEF Init, Idle, Tidy, TidyDoc, TidyCall
<1> QED
  BY <1>1, AlwaysTyped, AlwaysPast, StepStored, StepTidy, PTL DEF Spec

-----------------------------------------------------------------------------
(* Nothing that was given up comes back: what a draft restores is typing   *)
(* that is not saved yet, or what is saved somewhere.                      *)

Trusted == Undisturbed /\ "draft" \notin excused
StoringSave(c) == c.op = "save" /\ c.pc = "storing"
Taking == \E k \in CallIds : StoringSave(calls[k])
Leaving == \E k \in CallIds : calls[k].op = "archive"
Recorded(x) == (row # None /\ x = row.content) \/ x \in ToSet(server.hist)

(* No draft is younger than the document; what waits is what is shown.     *)
DraftIsPast == draft # None => doc # None /\ draft.at <= doc.at
PendingIsShown ==
  pending # None =>
    /\ doc # None /\ pending.content = doc.cur /\ pending.at <= doc.at
    /\ \A k \in CallIds : calls[k].op = "archive" => calls[k].local.at < pending.at

(* Edits are typing, unless they are just being saved or given up.         *)
EditsAreTyped == doc # None /\ doc.dirty /\ typed = None => Taking \/ Leaving

(* What the document has for saved is saved, or just being saved.          *)
SavedIsRecorded == doc # None => Recorded(doc.saved) \/ Taking
DraftIsRecorded ==
  row # None /\ DraftWins /\ typed = None /\ pending = None
  => Recorded(draft.content) \/ Taking \/ Leaving

(* What a save has stored is on record when the save ends, if the document *)
(* is then still the one it saved.  Until then it may be that the document *)
(* has moved on: it is later, shared by now, or holds something else.      *)
StillThere(c) ==
  \/ c.local.cur \in ToSet(server.hist)
  \/ doc.at > c.local.at
  \/ doc.shared /\ ~c.local.shared
  \/ /\ doc.cur = c.local.cur
     /\ row # None /\ row.content = c.local.cur
     /\ c.local.shared => doc.shared
  \/ doc.cur # c.local.cur /\ doc.saved # c.local.cur
StoredIsThere ==
  doc # None => \A k \in CallIds : StoringSave(calls[k]) => StillThere(calls[k])

Settled ==
  /\ DraftIsPast /\ PendingIsShown /\ EditsAreTyped
  /\ SavedIsRecorded /\ DraftIsRecorded /\ StoredIsThere

LEMMA SettledIsEnough == (Trusted => Settled) => NothingGivenUpComesBack
<1> SUFFICES ASSUME Trusted, Settled, row # None, DraftWins, typed = None, pending = None,
                    \A k \in CallIds : calls[k].pc # "storing" /\ calls[k].op # "archive"
             PROVE  draft.content \in {row.content} \cup ToSet(server.hist)
  BY DEF NothingGivenUpComesBack, Trusted
<1> QED
  BY DEF Settled, DraftIsRecorded, Recorded, Taking, StoringSave, Leaving

(* Calls of other kinds begin and end.                                     *)
QuietCalls ==
  \A k \in CallIds :
    /\ StoringSave(calls[k]) \/ StoringSave(calls'[k]) => calls'[k] = calls[k]
    /\ calls[k].op = "archive" <=> calls'[k].op = "archive"
    /\ calls'[k].op = "archive" => calls'[k].local = calls[k].local

LEMMA BecomeQuiet ==
  ASSUME CallsOK, NEW k \in CallIds, NEW call, Become(k, call),
         ~StoringSave(calls[k]), ~StoringSave(call),
         calls[k].op = "archive" <=> call.op = "archive",
         call.op = "archive" => call.local = calls[k].local
  PROVE  QuietCalls
  BY DEF CallsOK, Become, QuietCalls

LEMMA EndQuiet ==
  ASSUME CallsOK, NEW k \in CallIds, End(k), ~StoringSave(calls[k]), calls[k].op # "archive"
  PROVE  QuietCalls
<1>1. ~StoringSave(Idle) /\ Idle.op # "archive"
  BY DEF Idle, StoringSave
<1> QED
  BY <1>1, BecomeQuiet DEF End

LEMMA SentQuiet ==
  ASSUME CallsOK, NEW k, NEW op \in Ops \ {"archive"}, NEW d \in DocType \cup {None},
         NEW base \in Nat,
         \/ /\ k \in CallIds /\ Become(k, Call(op, "sent", d, base))
            /\ ~StoringSave(calls[k]) /\ calls[k].op # "archive"
         \/ Begin(Call(op, "sent", d, base))
         \/ UNCHANGED calls
  PROVE  QuietCalls
<1> DEFINE call == Call(op, "sent", d, base)
<1>1. call.op # "archive" /\ ~StoringSave(call)
  BY CallTypes DEF StoringSave
<1>2. CASE UNCHANGED calls
  BY <1>2 DEF QuietCalls
<1>3. CASE Begin(call)
  <2> HIDE DEF call
  <2>1. Slot \in CallIds /\ calls[Slot].op = "idle" /\ Become(Slot, call)
    BY <1>3, SlotIsFree DEF Begin, Become
  <2> QED
    BY <1>1, <2>1, BecomeQuiet DEF StoringSave
<1> HIDE DEF call
<1>4. CASE /\ k \in CallIds /\ Become(k, call)
           /\ ~StoringSave(calls[k]) /\ calls[k].op # "archive"
  BY <1>1, <1>4, BecomeQuiet
<1> QED
  BY <1>2, <1>3, <1>4 DEF call

LEMMA QuietSettled ==
  ASSUME Settled, QuietCalls, ToSet(server.hist) \subseteq ToSet(server'.hist),
         UNCHANGED <<doc, row, draft, pending, typed>>
  PROVE  Settled'
<1>1. Taking => Taking'
  BY DEF Taking, QuietCalls
<1>2. Leaving => Leaving'
  BY DEF Leaving, QuietCalls
<1>3. \A x : Recorded(x) => Recorded(x)'
  BY DEF Recorded
<1>4. DraftIsPast' /\ PendingIsShown'
  BY DEF Settled, DraftIsPast, PendingIsShown, QuietCalls
<1>5. EditsAreTyped' /\ SavedIsRecorded' /\ DraftIsRecorded'
  BY <1>1, <1>2, <1>3 DEF Settled, EditsAreTyped, SavedIsRecorded, DraftIsRecorded, DraftWins
<1>6. StoredIsThere'
  <2> SUFFICES ASSUME doc' # None, NEW k \in CallIds, StoringSave(calls'[k])
               PROVE  StillThere(calls[k])'
    BY DEF StoredIsThere
  <2>1. calls'[k] = calls[k] /\ StillThere(calls[k])
    BY DEF QuietCalls, Settled, StoredIsThere
  <2> QED
    BY <2>1 DEF StillThere
<1> QED
  BY <1>4, <1>5, <1>6 DEF Settled

(* The document is dropped with all there is of it.                        *)
LEMMA DropSettled ==
  ASSUME doc' = None, draft' = None, pending' = None
  PROVE  Settled'
  BY DEF Settled, DraftIsPast, PendingIsShown, EditsAreTyped, SavedIsRecorded, DraftIsRecorded,
         DraftWins, StoredIsThere

(* What is shown and not typed is on record, or just being saved.          *)
LEMMA ShownIsRecorded ==
  ASSUME Tidy, Settled, doc # None, typed = None
  PROVE  Recorded(doc.cur) \/ Taking \/ Leaving
  BY DEF Tidy, TidyDoc, Settled, EditsAreTyped, SavedIsRecorded

(* Nothing that awaits has read a document as late as now.                 *)
LEMMA LocalsArePast ==
  ASSUME Typed, AllPast, NEW k \in CallIds,
         calls[k].op \in {"save", "force", "publish", "create", "archive", "reload"}
  PROVE  calls[k].local \in DocType /\ calls[k].local.at \in Nat /\ calls[k].local.at < Now
<1>1. calls[k].local \in DocType /\ PastDoc(count["typed"], clock, calls[k].local)
  BY DEF Typed, CallsOK, Placed, AllPast, Past, PastCalls, PastCall
<1>2. calls[k].local.at <= clock /\ calls[k].local.at \in Nat /\ clock \in Nat
  BY <1>1, NoneAssumption, DocFields DEF PastDoc, Typed, RestOK
<1> QED
  BY <1>1, <1>2 DEF Now

LEMMA StoreSaveSettled ==
  ASSUME Typed, Settled, NEW k \in CallIds, NEW rev \in Nat, NEW held \in BOOLEAN, doc # None,
         StoreSave(k, doc, rev, held), UNCHANGED <<doc, draft, server>>,
         pending' \in {pending, None}
  PROVE  Settled'
<1> DEFINE stored == [rev |-> rev, content |-> doc.cur, at |-> Now]
           reply == [kind |-> IF held THEN "document" ELSE "none", value |-> stored]
           call == [Call("save", "storing", doc, 0) EXCEPT !.reply = reply]
<1>1. call.op = "save" /\ call.pc = "storing" /\ call.local = doc
  BY DEF Call
<1>2. Become(k, call) /\ row' = [RowOf(doc, Now) EXCEPT !.content = doc.cur, !.rev = rev, !.held = held]
  BY DEF StoreSave
<1> HIDE DEF call
<1>3. calls'[k] = call /\ \A j \in CallIds : j # k => calls'[j] = calls[j]
  BY <1>2 DEF Become, Typed, CallsOK
<1>4. doc \in DocType /\ Now \in Nat
  BY DEF Typed, LocalOK, RestOK, Now
<1>5. row' \in RowType
  BY <1>2, <1>4, RowTypes
<1>6. row' # None /\ row'.content = doc.cur
  BY <1>2, <1>4, <1>5, NoneAssumption DEF RowOf
<1>7. Taking'
  BY <1>1, <1>3 DEF Taking, StoringSave
<1>8. DraftIsPast' /\ PendingIsShown'
  BY <1>1, <1>3 DEF Settled, DraftIsPast, PendingIsShown
<1>9. ASSUME NEW j \in CallIds, StoringSave(calls'[j])
      PROVE  StillThere(calls[j])'
  <2>1. CASE j = k
    BY <1>1, <1>3, <1>6, <2>1 DEF StillThere
  <2>2. CASE j # k
    <3>1. calls'[j] = calls[j] /\ StillThere(calls[j])
      BY <1>3, <1>9, <2>2 DEF Settled, StoredIsThere
    <3> QED
      BY <1>6, <3>1 DEF StillThere
  <2> QED
    BY <2>1, <2>2
<1> QED
  BY <1>7, <1>8, <1>9 DEF Settled, EditsAreTyped, SavedIsRecorded, DraftIsRecorded, StoredIsThere

LEMMA SaveInternalSettled ==
  ASSUME Typed, Settled, Undisturbed', NEW k \in CallIds, NEW base \in Nat, NEW force \in BOOLEAN,
         doc # None, SaveInternal(k, doc, base, force), UNCHANGED <<doc, draft, server>>,
         ~StoringSave(calls[k]), calls[k].op # "archive"
  PROVE  Settled'
<1>1. CASE online
  <2> DEFINE op == IF known \/ base > 0 THEN IF force THEN "force" ELSE "save" ELSE "publish"
  <2>1. op \in Ops \ {"archive"} /\ doc \in DocType \cup {None}
    BY DEF Ops, Typed, LocalOK
  <2>2. Become(k, Call(op, "sent", doc, base)) /\ UNCHANGED <<row, typed>>
    BY <1>1 DEF SaveInternal
  <2> HIDE DEF op
  <2>3. QuietCalls
    BY <2>1, <2>2, SentQuiet DEF Typed
  <2>4. pending' = None /\ pending = None
    BY <1>1 DEF SaveInternal, Cancelled, Undisturbed
  <2> QED
    BY <2>2, <2>3, <2>4, QuietSettled
<1>2. CASE ~online
  <2>1. StoreSave(k, doc, base + 1, FALSE) /\ pending' = None
    BY <1>2 DEF SaveInternal
  <2>2. base + 1 \in Nat /\ FALSE \in BOOLEAN
    OBVIOUS
  <2> QED
    BY <2>1, <2>2, StoreSaveSettled
<1>3. online \in BOOLEAN
  BY DEF Typed, RestOK
<1> QED
  BY <1>1, <1>2, <1>3

LEMMA SlotQuiet == MayCall => Slot \in CallIds /\ ~StoringSave(calls[Slot]) /\ calls[Slot].op # "archive"
  BY SlotIsFree DEF StoringSave

LEMMA CreateSettled ==
  ASSUME Typed, AllPast, Settled, NEW shared \in BOOLEAN, CreateDocument(shared)
  PROVE  Settled'
<1> DEFINE d == [cur |-> 0, saved |-> 0, rev |-> 0, dirty |-> FALSE, shared |-> shared,
                 at |-> Now, held |-> FALSE]
<1>1. d \in DocType /\ Now \in Nat
  BY ZeroIsContent DEF Now, Typed, RestOK, DocType
<1>2. doc = None /\ draft = None /\ doc' = d /\ row' = RowOf(d, Now) /\ UNCHANGED <<draft, pending>>
  BY DEF CreateDocument
<1>3. Begin(Call("create", "sent", d, 0)) \/ UNCHANGED calls
  BY DEF CreateDocument
<1>4. d.cur = 0 /\ d.saved = 0 /\ d.at = Now /\ d.dirty = FALSE
  OBVIOUS
<1> HIDE DEF d
<1>5. QuietCalls
  BY <1>1, <1>3, SentQuiet, {"create"} \subseteq Ops \ {"archive"}, 0 \in Nat DEF Typed, Ops
<1>6. row' # None /\ row'.content = 0
  BY <1>1, <1>2, <1>4, RowTypes, NoneAssumption DEF RowOf
<1>7. pending = None
  BY <1>2 DEF Settled, PendingIsShown
<1>8. ASSUME NEW k \in CallIds, StoringSave(calls'[k])
      PROVE  StillThere(calls[k])'
  <2>1. calls'[k] = calls[k] /\ calls[k].op = "save"
    BY <1>5, <1>8 DEF QuietCalls, StoringSave
  <2>2. calls[k].local.at < Now /\ calls[k].local.at \in Nat
    BY <2>1, LocalsArePast
  <2> QED
    BY <1>1, <1>2, <1>4, <2>1, <2>2 DEF StillThere
<1>9. SavedIsRecorded'
  BY <1>2, <1>4, <1>6 DEF SavedIsRecorded, Recorded
<1> QED
  BY <1>2, <1>4, <1>7, <1>8, <1>9
     DEF Settled, DraftIsPast, PendingIsShown, EditsAreTyped, DraftIsRecorded, DraftWins,
         StoredIsThere

LEMMA UpdateSettled ==
  ASSUME Typed, AllPast, Settled, NEW content \in Contents, UpdateContent(content)
  PROVE  Settled'
<1>1. doc \in DocType /\ doc # None /\ Now \in Nat
  BY DEF UpdateContent, Typed, LocalOK, RestOK, Now
<1>2. /\ doc' = [doc EXCEPT !.cur = content, !.dirty = content # doc.saved, !.at = Now]
      /\ pending' = CheckpointOf(doc')
      /\ typed' = IF content = doc.saved THEN None ELSE content
      /\ UNCHANGED <<row, draft, calls, server>>
  BY DEF UpdateContent
<1>3. /\ doc'.cur = content /\ doc'.at = Now /\ doc'.dirty = (content # doc.saved)
      /\ doc'.saved = doc.saved
  BY <1>1, <1>2 DEF DocType
<1>4. doc' \in DocType
  BY <1>1, <1>2 DEF DocType
<1>5. doc' # None
  BY <1>4, NoneAssumption
<1>6. pending'.content = content /\ pending'.at = Now /\ pending' # None
  BY <1>2, <1>3, <1>4, RowTypes, NoneAssumption, 0 \in Nat DEF CheckpointOf
<1>7. ASSUME draft # None
      PROVE  draft.at <= Now
  BY <1>7 DEF AllPast, Past, PastText, Typed, LocalOK, RestOK, DraftType, Now
<1>8. DraftIsPast'
  BY <1>2, <1>3, <1>5, <1>7 DEF DraftIsPast
<1>9. \A k \in CallIds : calls[k].op = "archive" => calls[k].local.at < Now
  BY LocalsArePast
<1>10. PendingIsShown'
  BY <1>1, <1>2, <1>3, <1>5, <1>6, <1>9 DEF PendingIsShown
<1>11. EditsAreTyped'
  BY <1>2, <1>3, NoneAssumption DEF EditsAreTyped
<1>12. SavedIsRecorded'
  BY <1>1, <1>2, <1>3 DEF Settled, SavedIsRecorded, Recorded, Taking
<1>13. DraftIsRecorded'
  BY <1>6 DEF DraftIsRecorded
<1>14. ASSUME NEW k \in CallIds, StoringSave(calls'[k])
       PROVE  StillThere(calls[k])'
  <2>1. calls'[k] = calls[k] /\ calls[k].op = "save"
    BY <1>2, <1>14 DEF StoringSave
  <2>2. calls[k].local.at < Now /\ calls[k].local.at \in Nat
    BY <2>1, LocalsArePast
  <2> QED
    BY <1>1, <1>3, <2>1, <2>2 DEF StillThere
<1> QED
  BY <1>8, <1>10, <1>11, <1>12, <1>13, <1>14 DEF Settled, StoredIsThere

LEMMA CheckpointSettled ==
  ASSUME Typed, Tidy, Settled, Checkpoint \/ ReleaseModel
  PROVE  Settled'
<1>1. /\ doc # None
      /\ draft'.content = doc.cur /\ draft'.at <= doc.at
      /\ pending' = None
      /\ UNCHANGED <<doc, row, calls, server, typed>>
  <2>1. CASE Checkpoint
    BY <2>1 DEF Checkpoint, Settled, PendingIsShown
  <2>2. CASE ReleaseModel
    <3>1. doc # None /\ draft' = CheckpointOf(doc) /\ pending' = None
          /\ UNCHANGED <<doc, row, calls, server, typed>>
      BY <2>2 DEF ReleaseModel
    <3>2. doc.at \in Nat
      BY <3>1 DEF Typed, LocalOK, DocType
    <3>3. CheckpointOf(doc).content = doc.cur /\ CheckpointOf(doc).at = doc.at
      BY DEF CheckpointOf
    <3> QED
      BY <3>1, <3>2, <3>3
  <2> QED
    BY <2>1, <2>2
<1>2. DraftIsPast' /\ PendingIsShown'
  BY <1>1 DEF DraftIsPast, PendingIsShown
<1>3. DraftIsRecorded'
  BY <1>1, ShownIsRecorded DEF DraftIsRecorded, Recorded, Taking, Leaving
<1>4. EditsAreTyped' /\ SavedIsRecorded' /\ StoredIsThere'
  BY <1>1 DEF Settled, EditsAreTyped, SavedIsRecorded, StoredIsThere, Taking, Leaving, Recorded,
              StillThere
<1> QED
  BY <1>2, <1>3, <1>4 DEF Settled

LEMMA RenameSettled ==
  ASSUME Typed, AllPast, Settled, Undisturbed', RenameDocument
  PROVE  Settled'
<1> DEFINE op == IF known \/ doc.rev > 0 THEN "save" ELSE "publish"
<1>1. doc \in DocType /\ doc # None /\ Now \in Nat /\ doc.at \in Nat /\ doc.at <= Now
      /\ row \in RowType \cup {None}
  BY DEF RenameDocument, Typed, LocalOK, RestOK, Now, DocType, AllPast, Past, PastDoc
<1>2. /\ doc' = [doc EXCEPT !.at = Now]
      /\ row' = IF row = None THEN None ELSE [row EXCEPT !.at = Now, !.touched = TRUE]
      /\ UNCHANGED <<draft, typed, server>>
      /\ UNCHANGED calls \/ (MayCall /\ Become(Slot, Call(op, "sent", doc', doc.rev)))
  BY DEF RenameDocument
<1>3. /\ doc'.cur = doc.cur /\ doc'.saved = doc.saved /\ doc'.at = Now /\ doc'.dirty = doc.dirty
      /\ doc' \in DocType
  BY <1>1, <1>2 DEF DocType
<1>4. doc' # None
  BY <1>3, NoneAssumption
<1>5. pending' = pending
  BY DEF RenameDocument, Cancelled, Undisturbed
<1>6. op \in Ops \ {"archive"} /\ doc.rev \in Nat
  BY <1>1 DEF Ops, DocType
<1> HIDE DEF op
<1>7. QuietCalls
  BY <1>2, <1>3, <1>6, SlotQuiet, SentQuiet DEF Typed
<1>8. Taking => Taking'
  BY <1>7 DEF Taking, QuietCalls
<1>9. Leaving => Leaving'
  BY <1>7 DEF Leaving, QuietCalls
<1>10. row # None => row' # None /\ row'.content = row.content /\ row'.at = Now
  <2> SUFFICES ASSUME row # None
               PROVE  row' # None /\ row'.content = row.content /\ row'.at = Now
    OBVIOUS
  <2>1. row' = [row EXCEPT !.at = Now, !.touched = TRUE] /\ row \in RowType
    BY <1>1, <1>2
  <2>2. row' \in RowType
    BY <1>1, <2>1 DEF RowType
  <2>3. row'.content = row.content /\ row'.at = Now
    BY <2>1 DEF RowType
  <2> QED
    BY <2>2, <2>3, NoneAssumption
<1>11. \A x : Recorded(x) => Recorded(x)'
  BY <1>2, <1>10 DEF Recorded
<1>12. ASSUME draft # None
       PROVE  draft.at <= clock /\ draft.at \in Nat
  BY <1>12 DEF AllPast, Past, PastText, Typed, LocalOK, DraftType
<1>13. clock \in Nat
  BY DEF Typed, RestOK
<1>14. DraftIsPast'
  BY <1>2, <1>3, <1>4, <1>12, <1>13 DEF DraftIsPast, Now
<1>15. PendingIsShown'
  <2>1. pending # None => pending.at \in Nat
    BY DEF Typed, LocalOK, DraftType
  <2> QED
    BY <1>1, <1>3, <1>4, <1>5, <1>7, <2>1 DEF Settled, PendingIsShown, QuietCalls
<1>16. EditsAreTyped'
  BY <1>1, <1>2, <1>3, <1>8, <1>9 DEF Settled, EditsAreTyped
<1>17. SavedIsRecorded'
  BY <1>1, <1>3, <1>8, <1>11 DEF Settled, SavedIsRecorded
<1>18. DraftIsRecorded'
  <2>1. row' # None => row # None
    BY <1>2
  <2> QED
    BY <1>2, <1>10, <1>12, <1>13, <2>1 DEF DraftIsRecorded, DraftWins, Now
<1>19. ASSUME NEW k \in CallIds, StoringSave(calls'[k])
       PROVE  StillThere(calls[k])'
  <2>1. calls'[k] = calls[k] /\ calls[k].op = "save"
    BY <1>7, <1>19 DEF QuietCalls, StoringSave
  <2>2. calls[k].local.at < Now /\ calls[k].local.at \in Nat
    BY <2>1, LocalsArePast
  <2> QED
    BY <1>1, <1>3, <2>1, <2>2 DEF StillThere
<1> QED
  BY <1>14, <1>15, <1>16, <1>17, <1>18, <1>19 DEF Settled, StoredIsThere

LEMMA RevertSettled ==
  ASSUME Typed, Settled, RevertDocument
  PROVE  Settled'
<1>1. doc \in DocType /\ doc # None
  BY DEF RevertDocument, Typed, LocalOK
<1>2. /\ doc' = [doc EXCEPT !.cur = doc.saved, !.dirty = FALSE]
      /\ pending' = None /\ draft' = None
      /\ UNCHANGED <<row, calls, server>>
  BY DEF RevertDocument
<1>3. /\ doc'.cur = doc.saved /\ doc'.saved = doc.saved /\ doc'.at = doc.at /\ doc'.dirty = FALSE
      /\ doc'.shared = doc.shared
  BY <1>1, <1>2 DEF DocType
<1>4. SavedIsRecorded'
  BY <1>1, <1>2, <1>3 DEF Settled, SavedIsRecorded, Recorded, Taking
<1>5. ASSUME NEW k \in CallIds, StoringSave(calls'[k])
      PROVE  StillThere(calls[k])'
  <2>1. calls'[k] = calls[k] /\ StillThere(calls[k])
    BY <1>1, <1>2, <1>5 DEF Settled, StoredIsThere
  <2> QED
    BY <1>2, <1>3, <2>1 DEF StillThere
<1> QED
  BY <1>2, <1>3, <1>4, <1>5 DEF Settled, DraftIsPast, PendingIsShown, EditsAreTyped,
     DraftIsRecorded, DraftWins, StoredIsThere

LEMMA InToSet == \A h, rev, content : In(h, rev, content) => content \in ToSet(h)
  BY DEF In, ToSet

(* The document as the server has had it: what else saves store is there,  *)
(* or else is no longer shown.                                             *)
LEMMA TheirsSettled ==
  ASSUME NEW x, x \in ToSet(server.hist), server' = server,
         doc'.cur = x, doc'.saved = x, doc'.dirty = FALSE, draft' = None, pending' = None
  PROVE  Settled'
<1>1. SavedIsRecorded'
  BY DEF SavedIsRecorded, Recorded
<1>2. StoredIsThere'
  BY DEF StoredIsThere, StillThere
<1> QED
  BY <1>1, <1>2 DEF Settled, DraftIsPast, PendingIsShown, EditsAreTyped, DraftIsRecorded, DraftWins

LEMMA UserSettled ==
  ASSUME Typed, AllPast, Honest, Tidy, Settled, Trusted', User
  PROVE  Settled'
<1>1. doc \in DocType \cup {None} /\ Undisturbed' /\ 0 \in Nat
  BY DEF Typed, LocalOK, Trusted
<1>2. ASSUME UpdateContent(count["typed"] + 1)
      PROVE  Settled'
  <2>1. count["typed"] \in Nat /\ count["typed"] < MaxTyped
    BY <1>2, CountTypes, SyncAssumption DEF UpdateContent, Bounded, Typed, RestOK
  <2>2. count["typed"] + 1 \in Contents
    BY <2>1, SyncAssumption DEF Contents
  <2> QED
    BY <1>2, <2>2, UpdateSettled
<1>3. ASSUME doc # None, UpdateContent(doc.saved)
      PROVE  Settled'
  <2>1. doc.saved \in Contents
    BY <1>1, <1>3, DocFields
  <2> QED
    BY <1>3, <2>1, UpdateSettled
<1>4. ASSUME SaveDocument \/ ResolveKeep
      PROVE  Settled'
  <2>1. doc # None /\ doc \in DocType /\ MayCall /\ UNCHANGED <<doc, draft, server>>
    BY <1>1, <1>4 DEF SaveDocument, ResolveKeep
  <2>2. \E base \in Nat, force \in BOOLEAN : SaveInternal(Slot, doc, base, force)
    <3>1. doc.rev \in Nat
      BY <2>1, DocFields
    <3>2. ResolveKeep => conflict.rev \in Nat
      BY DEF ResolveKeep, Typed, RestOK, Snapshot
    <3> QED
      BY <1>4, <3>1, <3>2 DEF SaveDocument, ResolveKeep
  <2> QED
    BY <1>1, <2>1, <2>2, SlotQuiet, SaveInternalSettled
<1>5. ASSUME ResolveReload
      PROVE  Settled'
  <2>1. doc \in DocType /\ doc' = Adopted(doc, conflict) /\ draft' = None /\ pending' = None
        /\ server' = server /\ conflict # None
    BY <1>1, <1>5 DEF ResolveReload
  <2>2. doc'.cur = conflict.content /\ doc'.saved = conflict.content /\ doc'.dirty = FALSE
    BY <2>1 DEF Adopted, DocType
  <2>3. conflict.content \in ToSet(server.hist)
    BY <2>1, InToSet DEF Honest, HonestBanner
  <2> QED
    BY <2>1, <2>2, <2>3, TheirsSettled
<1>6. ASSUME DiscardDocument
      PROVE  Settled'
  <2>1. CASE Drop
    BY <1>6, <2>1, DropSettled DEF DiscardDocument, Drop
  <2>2. CASE ~Drop
    <3>1. /\ Begin(Call("archive", "sent", doc, 0))
          /\ typed' = None /\ pending' = None /\ UNCHANGED <<doc, row, draft, server>>
      BY <1>6, <2>2 DEF DiscardDocument
    <3> DEFINE call == Call("archive", "sent", doc, 0)
    <3>2. call.op = "archive" /\ ~StoringSave(call)
      BY DEF Call, StoringSave
    <3>3. Slot \in CallIds /\ Become(Slot, call) /\ ~StoringSave(calls[Slot])
      BY <3>1, SlotQuiet DEF Begin, Become
    <3> HIDE DEF call
    <3>4. calls'[Slot] = call /\ \A j \in CallIds : j # Slot => calls'[j] = calls[j]
      BY <3>3 DEF Become, Typed, CallsOK
    <3>5. Leaving'
      BY <3>2, <3>3, <3>4 DEF Leaving
    <3>6. \A j \in CallIds : StoringSave(calls[j]) \/ StoringSave(calls'[j]) => calls'[j] = calls[j]
      BY <3>2, <3>3, <3>4
    <3>7. Taking => Taking'
      BY <3>6 DEF Taking
    <3>8. StoredIsThere'
      BY <3>1, <3>6 DEF Settled, StoredIsThere, StillThere
    <3>9. SavedIsRecorded'
      BY <3>1, <3>7 DEF Settled, SavedIsRecorded, Recorded
    <3> QED
      BY <3>1, <3>5, <3>8, <3>9 DEF Settled, DraftIsPast, PendingIsShown, EditsAreTyped,
         DraftIsRecorded
  <2> QED
    BY <2>1, <2>2
<1> QED
  BY <1>1, <1>2, <1>3, <1>4, <1>5, <1>6, CreateSettled, CheckpointSettled, RenameSettled,
     RevertSettled DEF User
-----------------------------------------------------------------------------
(* What others and the server do only adds to the history.                 *)
LEMMA HistoryMoves ==
  ASSUME Typed, Others \/ \E k \in CallIds : Serve(k)
  PROVE  \/ server'.hist = server.hist
         \/ \E content \in Contents : Stores(content)
<1>1. ASSUME OtherSaves
      PROVE  \E content \in Contents : Stores(content)
  <2>1. count["others"] \in Nat /\ count["others"] < MaxOthers
        /\ count'["others"] = count["others"] + 1
    BY <1>1, CountTypes, SyncAssumption DEF OtherSaves, Bounded, Typed, RestOK
  <2>2. -count'["others"] \in Contents
    BY <2>1, SyncAssumption DEF Contents
  <2> QED
    BY <1>1, <2>2 DEF OtherSaves
<1>2. ASSUME NEW k \in CallIds, ServeSave(k) \/ ServeCreate(k)
      PROVE  UNCHANGED server \/ \E content \in Contents : Stores(content)
  <2>1. calls[k].local \in DocType
    BY <1>2 DEF ServeSave, ServeCreate, Asked, Typed, CallsOK, Placed
  <2>2. calls[k].local.cur \in Contents /\ calls[k].local.saved \in Contents
    BY <2>1, DocFields
  <2> QED
    BY <1>2, <2>2 DEF ServeSave, ServeCreate
<1>3. ASSUME NEW k \in CallIds, ServeGet(k) \/ ServeList(k)
      PROVE  UNCHANGED server
  BY <1>3 DEF ServeGet, ServeList
<1>4. ASSUME OtherArchives \/ \E k \in CallIds : ServeArchive(k)
      PROVE  server'.hist = server.hist
  BY <1>4 DEF OtherArchives, ServeArchive, Typed, ServerOK, ServerType
<1> QED
  BY <1>1, <1>2, <1>3, <1>4 DEF Others, Serve

LEMMA HistoryIsKept ==
  ASSUME Typed, Others \/ \E k \in CallIds : Serve(k)
  PROVE  ToSet(server.hist) \subseteq ToSet(server'.hist)
<1>1. CASE server'.hist = server.hist
  BY <1>1
<1>2. ASSUME NEW content \in Contents, Stores(content)
      PROVE  ToSet(server.hist) \subseteq ToSet(server'.hist)
  <2>1. server'.hist = Append(server.hist, content) /\ server.hist \in Seq(Contents)
    BY <1>2, StoreTypes DEF Typed, ServerOK, ServerType
  <2>2. \A i \in DOMAIN server.hist : i \in DOMAIN server'.hist /\ server'.hist[i] = server.hist[i]
    BY <2>1
  <2> QED
    BY <2>2 DEF ToSet
<1> QED
  BY <1>1, <1>2, HistoryMoves

LEMMA ServeSettled ==
  ASSUME Typed, Settled, NEW k \in CallIds, Serve(k)
  PROVE  Settled'
<1>1. /\ Replied(k)
      /\ UNCHANGED <<doc, row, draft, pending, typed>>
  BY ServeMoves DEF Serve, ServeSave, ServeCreate, ServeGet, ServeList, ServeArchive, local
<1>2. PICK kind, value : calls[k].pc = "sent" /\ Answer(k, kind, value)
  BY <1>1 DEF Replied
<1> DEFINE call == [calls[k] EXCEPT !.pc = "answered", !.reply = [kind |-> kind, value |-> value]]
<1>3. /\ call.op = calls[k].op /\ call.pc = "answered" /\ call.local = calls[k].local
      /\ Become(k, call)
  BY <1>2 DEF Answer, Typed, CallsOK, CallType
<1> HIDE DEF call
<1>4. QuietCalls
  BY <1>2, <1>3, BecomeQuiet DEF StoringSave, Typed
<1>5. ToSet(server.hist) \subseteq ToSet(server'.hist)
  BY HistoryIsKept
<1> QED
  BY <1>1, <1>4, <1>5, QuietSettled

LEMMA SocketSettled ==
  ASSUME Typed, Settled, Others \/ Disconnect \/ Connect \/ UNCHANGED vars
  PROVE  Settled'
<1>1. /\ UNCHANGED <<doc, row, draft, pending, typed>>
      /\ UNCHANGED calls \/ Begin(Call("sync", "sent", None, 0))
      /\ Others \/ UNCHANGED server
  BY DEF Others, OtherSaves, OtherArchives, Disconnect, Connect, local, vars
<1>2. "sync" \in Ops \ {"archive"} /\ 0 \in Nat
  BY DEF Ops
<1>3. QuietCalls
  BY <1>1, <1>2, SentQuiet DEF Typed
<1>4. ToSet(server.hist) \subseteq ToSet(server'.hist)
  BY <1>1, HistoryIsKept
<1> QED
  BY <1>1, <1>3, <1>4, QuietSettled

LEMMA FinishSaveSettled ==
  ASSUME Typed, Stored, Tidy, Settled, Undisturbed', NEW k \in CallIds, FinishSave(k)
  PROVE  Settled'
<1> DEFINE stored == calls[k].reply.value
<1>1. /\ StoringSave(calls[k]) /\ calls[k].local \in DocType /\ stored \in Snapshot
      /\ stored.content = calls[k].local.cur /\ stored.at > calls[k].local.at
  BY DEF FinishSave, StoringSave, Typed, CallsOK, Placed, Stored, StoredCalls, StoredCall, Tidy,
         TidyCall
<1>2. doc = calls[k].local /\ doc # None
  BY <1>1, NoneAssumption DEF FinishSave, Raced, Promises, Undisturbed
<1>3. /\ doc' = [doc EXCEPT !.saved = stored.content, !.rev = stored.rev, !.dirty = FALSE,
                            !.at = stored.at, !.held = calls[k].reply.kind = "document"]
      /\ draft' = None
      /\ UNCHANGED <<row, pending, typed, server>>
  BY <1>2 DEF FinishSave
<1>4. /\ doc'.cur = doc.cur /\ doc'.saved = doc.cur /\ doc'.dirty = FALSE /\ doc'.shared = doc.shared
      /\ doc'.at > doc.at /\ doc'.at \in Nat /\ doc.at \in Nat
  BY <1>1, <1>2, <1>3 DEF DocType, Snapshot
<1>5. calls'[k] = Idle /\ \A j \in CallIds : j # k => calls'[j] = calls[j]
  BY DEF FinishSave, End, Become, Typed, CallsOK
<1>6. Idle.op = "idle" /\ ~StoringSave(Idle)
  BY DEF Idle, StoringSave
<1>7. doc' # None
  <2>1. stored.rev \in Nat /\ stored.content \in Contents /\ stored.at \in Nat
    BY <1>1 DEF Snapshot
  <2>2. doc' \in DocType
    BY <1>1, <1>2, <1>3, <2>1 DEF DocType
  <2> QED
    BY <2>2, NoneAssumption
<1>8. PendingIsShown'
  <2>1. pending # None => pending.at \in Nat
    BY DEF Typed, LocalOK, DraftType
  <2>2. \A j \in CallIds : calls'[j].op = "archive" => calls'[j] = calls[j]
    BY <1>5, <1>6
  <2>3. PendingIsShown
    BY DEF Settled
  <2> QED
    BY <1>3, <1>4, <1>7, <2>1, <2>2, <2>3 DEF PendingIsShown
<1>9. SavedIsRecorded'
  <2>1. StillThere(calls[k])
    BY <1>1, <1>2 DEF Settled, StoredIsThere
  <2>2. Recorded(doc.cur)
    BY <1>2, <1>4, <2>1 DEF StillThere, Recorded
  <2> QED
    BY <1>3, <1>4, <2>2 DEF SavedIsRecorded, Recorded
<1>10. ASSUME NEW j \in CallIds, StoringSave(calls'[j])
       PROVE  StillThere(calls[j])'
  <2>1. calls'[j] = calls[j] /\ StillThere(calls[j])
    BY <1>2, <1>5, <1>6, <1>10 DEF Settled, StoredIsThere
  <2>2. calls[j].local \in DocType
    BY <1>10, <2>1 DEF StoringSave, Typed, CallsOK, Placed
  <2>3. calls[j].local.at \in Nat
    BY <2>2, DocFields
  <2>4. doc.at > calls[j].local.at => doc'.at > calls[j].local.at
    BY <1>4, <2>3
  <2> QED
    BY <1>3, <1>4, <2>1, <2>4 DEF StillThere
<1> QED
  BY <1>3, <1>4, <1>8, <1>9, <1>10
     DEF Settled, DraftIsPast, EditsAreTyped, DraftIsRecorded, DraftWins, StoredIsThere

LEMMA FinishReloadSettled ==
  ASSUME Typed, Tidy, Settled, Trusted', NEW k \in CallIds, FinishReload(k)
  PROVE  Settled'
<1>1. /\ calls[k].op = "reload" /\ calls[k].local \in DocType /\ doc = calls[k].local
      /\ ~doc.dirty
  BY DEF FinishReload, Typed, CallsOK, Placed, Trusted, Tidy, TidyCall
<1>2. /\ row' = [RowOf(doc, doc.at) EXCEPT !.shared = FALSE]
      /\ UNCHANGED <<doc, draft, pending, typed, server>>
  BY <1>1 DEF FinishReload
<1>3. doc # None /\ doc.at \in Nat /\ row' \in RowType
  BY <1>1, <1>2, DocFields, RowTypes, NoneAssumption
<1>4. row' # None /\ row'.content = doc.saved /\ row'.at = doc.at
  BY <1>2, <1>3, NoneAssumption DEF RowOf
<1>5. doc.cur = doc.saved
  BY <1>1, <1>3 DEF Tidy, TidyDoc
<1>6. QuietCalls
  BY <1>1, EndQuiet DEF FinishReload, StoringSave, Typed
<1>7. DraftIsPast' /\ PendingIsShown' /\ EditsAreTyped'
  BY <1>2, <1>6 DEF Settled, DraftIsPast, PendingIsShown, EditsAreTyped, QuietCalls, Taking, Leaving
<1>8. DraftIsRecorded'
  <2>1. draft # None => draft.at <= doc.at /\ draft.at \in Nat
    BY DEF Settled, DraftIsPast, Typed, LocalOK, DraftType
  <2> QED
    BY <1>2, <1>3, <1>4, <2>1 DEF DraftIsRecorded, DraftWins
<1>9. ASSUME NEW j \in CallIds, StoringSave(calls'[j])
      PROVE  StillThere(calls[j])'
  <2>1. calls'[j] = calls[j] /\ StillThere(calls[j])
    BY <1>3, <1>6, <1>9 DEF Settled, StoredIsThere, QuietCalls
  <2> QED
    BY <1>2, <1>4, <1>5, <2>1 DEF StillThere
<1>10. SavedIsRecorded'
  BY <1>2, <1>4 DEF SavedIsRecorded, Recorded
<1> QED
  BY <1>7, <1>8, <1>9, <1>10 DEF Settled, StoredIsThere

LEMMA AdoptSettled ==
  ASSUME Typed, Honest, Settled, Undisturbed', NEW k \in CallIds, Adopt(k)
  PROVE  Settled'
<1> DEFINE read == calls[k].local
           got == calls[k].reply.value
           adopted == IF read = None THEN Fetched(got) ELSE Adopted(read, got)
<1>1. /\ calls[k] \in CallType /\ Placed(calls[k]) /\ HonestCall(server.hist, calls[k])
      /\ calls[k].op = "fetch" /\ calls[k].pc = "answered" /\ End(k)
      /\ typed' = typed /\ server' = server
  BY DEF Adopt, Answered, Typed, CallsOK, Honest, HonestCalls
<1>2. QuietCalls
  BY <1>1, EndQuiet DEF StoringSave, Typed
<1>3. read \in DocType \cup {None}
  BY <1>1 DEF CallType
<1>4. CASE calls[k].reply.kind = "missing"
  <2>1. UNCHANGED <<doc, row, draft, pending>>
    BY <1>4 DEF Adopt, local
  <2> QED
    BY <1>1, <1>2, <2>1, QuietSettled
<1>5. CASE calls[k].reply.kind # "missing"
  <2>1. calls[k].reply.kind = "document" /\ got \in Snapshot
    BY <1>1, <1>5 DEF Placed
  <2>2. got.content \in ToSet(server.hist)
    BY <1>1, <2>1, InToSet DEF HonestCall
  <2>3. doc = read
    BY <1>5 DEF Adopt, WriteBack, Raced, Promises, Undisturbed
  <2>4. CASE Clean(read)
    <3>1. doc' = adopted
      BY <1>5, <2>4 DEF Adopt, WriteBack
    <3>2. doc'.cur = got.content /\ doc'.saved = got.content /\ doc'.dirty = FALSE
      BY <1>3, <3>1 DEF Fetched, Adopted, DocType
    <3>3. draft' = None /\ pending' = None
      <4>1. read # None => draft' = None /\ pending' = None
        BY <1>5, <2>4 DEF Adopt
      <4>2. read = None => UNCHANGED <<draft, pending>>
        BY <1>5, <2>4 DEF Adopt
      <4>3. read = None => draft = None /\ pending = None
        BY <2>3 DEF Settled, DraftIsPast, PendingIsShown
      <4> QED
        BY <4>1, <4>2, <4>3
    <3> QED
      BY <1>1, <2>2, <3>2, <3>3, TheirsSettled
  <2>5. CASE ~Clean(read)
    <3>1. doc \in DocType /\ doc # None
      BY <1>3, <2>3, <2>5 DEF Clean
    <3>2. doc' = [doc EXCEPT !.saved = got.content, !.rev = got.rev, !.held = TRUE]
          /\ UNCHANGED <<row, draft, pending>>
      BY <1>5, <2>3, <2>5 DEF Adopt, WriteBack
    <3>3. /\ doc'.cur = doc.cur /\ doc'.at = doc.at /\ doc'.dirty = doc.dirty
          /\ doc'.shared = doc.shared /\ doc'.saved = got.content
      BY <3>1, <3>2 DEF DocType
    <3>4. doc' \in DocType
      BY <2>1, <3>1, <3>2 DEF DocType, Snapshot
    <3>5. doc' # None
      BY <3>4, NoneAssumption
    <3>6. DraftIsPast' /\ PendingIsShown'
      BY <1>2, <3>2, <3>3, <3>5 DEF Settled, DraftIsPast, PendingIsShown, QuietCalls
    <3>7. (Taking => Taking') /\ (Leaving => Leaving')
      BY <1>2 DEF QuietCalls, Taking, Leaving
    <3>8. EditsAreTyped'
      BY <1>1, <3>1, <3>3, <3>7 DEF Settled, EditsAreTyped
    <3>9. DraftIsRecorded'
      BY <1>1, <3>2, <3>7 DEF Settled, DraftIsRecorded, DraftWins, Recorded
    <3>10. SavedIsRecorded'
      BY <1>1, <2>2, <3>3 DEF SavedIsRecorded, Recorded
    <3>11. ASSUME NEW j \in CallIds, StoringSave(calls'[j])
           PROVE  StillThere(calls[j])'
      <4>1. calls'[j] = calls[j] /\ StillThere(calls[j])
        BY <1>2, <3>1, <3>11 DEF Settled, StoredIsThere, QuietCalls
      <4> QED
        BY <1>1, <2>2, <3>2, <3>3, <4>1 DEF StillThere
    <3> QED
      BY <3>6, <3>8, <3>9, <3>10, <3>11 DEF Settled, StoredIsThere
  <2> QED
    BY <2>4, <2>5
<1> QED
  BY <1>4, <1>5

LEMMA SaveAnsweredSettled ==
  ASSUME Typed, Settled, Undisturbed', NEW k \in CallIds, SaveAnswered(k)
  PROVE  Settled'
<1> DEFINE reply == calls[k].reply
           rev == IF reply.kind = "document" THEN reply.value.rev ELSE 0
<1>1. /\ calls[k] \in CallType /\ Placed(calls[k])
      /\ calls[k].op \in {"save", "force", "publish"} /\ calls[k].pc = "answered"
      /\ UNCHANGED <<doc, draft, pending, server>>
  BY DEF SaveAnswered, Answered, Typed, CallsOK
<1>2. CASE reply.kind \in {"document", "created", "existed"}
  <2>1. StoreSave(k, calls[k].local, rev, reply.kind # "existed") /\ excused' = excused \cup Raced(k)
    BY <1>2 DEF SaveAnswered
  <2>2. doc = calls[k].local /\ calls[k].local \in DocType
    BY <1>1, <2>1 DEF Raced, Promises, Undisturbed, Placed
  <2>3. reply.kind = "document" => reply.value \in Snapshot
    BY <1>1 DEF Placed
  <2>4. rev \in Nat /\ (reply.kind # "existed") \in BOOLEAN
    BY <2>3 DEF Snapshot
  <2> HIDE DEF rev
  <2>5. doc # None
    BY <2>2, NoneAssumption
  <2> QED
    BY <1>1, <2>1, <2>2, <2>4, <2>5, StoreSaveSettled
<1>3. CASE reply.kind \notin {"document", "created", "existed"}
  <2>1. End(k) /\ UNCHANGED <<row, typed>>
    BY <1>3 DEF SaveAnswered
  <2>2. QuietCalls
    BY <1>1, <2>1, EndQuiet DEF StoringSave, Typed
  <2> QED
    BY <1>1, <2>1, <2>2, QuietSettled
<1> QED
  BY <1>2, <1>3

(* The checkpoint that waits is younger than a document that is to go.     *)
LEMMA LeavingSettled ==
  ASSUME Settled, NEW k \in CallIds, calls[k].op = "archive", calls[k] \in CallType,
         Placed(calls[k]), doc = calls[k].local, pending \in DraftType \cup {None},
         doc' = None, draft' = None, pending' = pending
  PROVE  Settled'
<1>1. ASSUME pending # None
      PROVE  FALSE
  <2>1. pending.at <= doc.at /\ doc.at < pending.at
    BY <1>1 DEF Settled, PendingIsShown
  <2>2. doc.at \in Nat /\ pending.at \in Nat
    BY <1>1 DEF Placed, DocType, DraftType
  <2> QED
    BY <2>1, <2>2
<1> QED
  BY <1>1, DropSettled

LEMMA FailSettled ==
  ASSUME Typed, Settled, Undisturbed', NEW k \in CallIds, RequestFails(k) \/ TimeOut(k)
  PROVE  Settled'
<1>1. /\ calls[k] \in CallType /\ Placed(calls[k]) /\ GiveUp(k) /\ server' = server
      /\ excused \cup Overtaken(k) \subseteq excused'
      /\ calls[k].pc # "storing"
  BY DEF RequestFails, TimeOut, Typed, CallsOK, OnSocket
<1>2. CASE calls[k].op \in {"save", "force", "publish"}
  <2>1. StoreSave(k, calls[k].local, calls[k].base + 1, FALSE) /\ UNCHANGED <<doc, draft, pending>>
    BY <1>1, <1>2 DEF GiveUp
  <2>2. doc = calls[k].local
    BY <1>1, <1>2 DEF Overtaken, Raced, Promises, Undisturbed
  <2>3. calls[k].local \in DocType /\ calls[k].base + 1 \in Nat /\ FALSE \in BOOLEAN
    BY <1>1, <1>2 DEF Placed, CallType
  <2>4. doc # None
    BY <2>2, <2>3, NoneAssumption
  <2> QED
    BY <1>1, <2>1, <2>2, <2>3, <2>4, StoreSaveSettled
<1>3. CASE calls[k].op = "archive"
  <2>1. doc' = None /\ draft' = None /\ pending' = pending
    BY <1>1, <1>3 DEF GiveUp, Drop
  <2>2. doc = calls[k].local
    BY <1>1, <1>3 DEF Overtaken, Raced, Promises, Undisturbed
  <2>3. pending \in DraftType \cup {None}
    BY DEF Typed, LocalOK
  <2> QED
    BY <1>1, <1>3, <2>1, <2>2, <2>3, LeavingSettled
<1>4. CASE calls[k].op \notin {"save", "force", "publish", "archive"}
  <2>1. End(k) /\ UNCHANGED <<local, typed>>
    BY <1>1, <1>4 DEF GiveUp
  <2>2. QuietCalls
    BY <1>1, <1>4, <2>1, EndQuiet DEF StoringSave, Typed
  <2> QED
    BY <1>1, <2>1, <2>2, QuietSettled DEF local
<1> QED
  BY <1>2, <1>3, <1>4

LEMMA SyncSettled ==
  ASSUME Typed, Settled, Undisturbed', NEW k \in CallIds, SyncFromServer(k)
  PROVE  Settled'
<1>1. \/ Become(k, Call("fetch", "sent", doc, 0)) /\ UNCHANGED <<local, typed>>
      \/ doc # None /\ SaveInternal(k, doc, doc.rev, FALSE) /\ UNCHANGED <<doc, draft>>
      \/ /\ doc # None /\ ~doc.shared
         /\ doc' = [doc EXCEPT !.shared = TRUE]
         /\ row' = [RowOf(doc', doc.at) EXCEPT !.touched = TRUE]
         /\ End(k)
         /\ UNCHANGED <<draft, pending, typed>>
      \/ Become(k, Call("create", "sent", doc, 0)) /\ UNCHANGED <<local, typed>>
      \/ End(k) /\ UNCHANGED <<local, typed>>
  BY DEF SyncFromServer
<1>2. /\ doc \in DocType \cup {None} /\ {"fetch", "create"} \subseteq Ops \ {"archive"} /\ 0 \in Nat
      /\ CallsOK /\ FALSE \in BOOLEAN
      /\ ~StoringSave(calls[k]) /\ calls[k].op # "archive" /\ server' = server
  BY DEF Typed, LocalOK, Ops, SyncFromServer, Answered, StoringSave
<1>3. CASE \E op \in {"fetch", "create"} : Become(k, Call(op, "sent", doc, 0)) /\ UNCHANGED <<local, typed>>
  <2>1. QuietCalls
    BY <1>2, <1>3, SentQuiet
  <2> QED
    BY <1>2, <1>3, <2>1, QuietSettled DEF local
<1>4. CASE doc # None /\ SaveInternal(k, doc, doc.rev, FALSE) /\ UNCHANGED <<doc, draft>>
  <2>1. doc.rev \in Nat
    BY <1>2, <1>4, DocFields
  <2> QED
    BY <1>2, <1>4, <2>1, SaveInternalSettled
<1>5. CASE /\ doc # None /\ ~doc.shared
           /\ doc' = [doc EXCEPT !.shared = TRUE]
           /\ row' = [RowOf(doc', doc.at) EXCEPT !.touched = TRUE]
           /\ End(k)
           /\ UNCHANGED <<draft, pending, typed>>
  <2>1. doc \in DocType /\ doc' \in DocType /\ doc.at \in Nat
    BY <1>2, <1>5 DEF DocType
  <2>2. /\ doc'.cur = doc.cur /\ doc'.at = doc.at /\ doc'.dirty = doc.dirty /\ doc' # None
        /\ doc'.saved = doc.saved /\ doc'.shared = TRUE
    BY <1>5, <2>1, NoneAssumption DEF DocType
  <2>3. row' \in RowType
    BY <1>5, <2>1, RowTypes
  <2>4. row' # None /\ row'.content = doc.saved /\ row'.at = doc.at
    BY <1>5, <2>2, <2>3, NoneAssumption DEF RowOf
  <2>5. QuietCalls
    BY <1>2, <1>5, EndQuiet
  <2>6. (Taking => Taking') /\ (Leaving => Leaving')
    BY <2>5 DEF QuietCalls, Taking, Leaving
  <2>7. DraftIsPast' /\ PendingIsShown'
    BY <1>5, <2>2, <2>5 DEF Settled, DraftIsPast, PendingIsShown, QuietCalls
  <2>8. EditsAreTyped'
    BY <1>5, <2>2, <2>6 DEF Settled, EditsAreTyped
  <2>9. SavedIsRecorded'
    BY <2>2, <2>4 DEF SavedIsRecorded, Recorded
  <2>10. DraftIsRecorded'
    <3>1. draft # None => draft.at <= doc.at /\ draft.at \in Nat
      BY DEF Settled, DraftIsPast, Typed, LocalOK, DraftType
    <3> QED
      BY <1>5, <2>1, <2>4, <3>1 DEF DraftIsRecorded, DraftWins
  <2>11. ASSUME NEW j \in CallIds, StoringSave(calls'[j])
         PROVE  StillThere(calls[j])'
    <3>1. calls'[j] = calls[j] /\ StillThere(calls[j])
      BY <1>5, <2>5, <2>11 DEF Settled, StoredIsThere, QuietCalls
    <3> QED
      BY <1>2, <1>5, <2>2, <3>1 DEF StillThere
  <2> QED
    BY <2>7, <2>8, <2>9, <2>10, <2>11 DEF Settled, StoredIsThere
<1>6. CASE End(k) /\ UNCHANGED <<local, typed>>
  <2>1. QuietCalls
    BY <1>2, <1>6, EndQuiet
  <2> QED
    BY <1>2, <1>6, <2>1, QuietSettled DEF local
<1> QED
  BY <1>1, <1>3, <1>4, <1>5, <1>6

LEMMA ProceedSettled ==
  ASSUME Typed, Honest, Stored, Tidy, Settled, Trusted', NEW k \in CallIds, Proceed(k) \/ TimeOut(k)
  PROVE  Settled'
<1>1. Undisturbed'
  BY DEF Trusted
<1>2. ASSUME CreateAnswered(k)
      PROVE  Settled'
  <2>1. calls[k].op = "create" /\ End(k) /\ UNCHANGED <<local, typed, server>>
    BY <1>2 DEF CreateAnswered, Answered
  <2>2. QuietCalls
    BY <2>1, EndQuiet DEF StoringSave, Typed
  <2> QED
    BY <2>1, <2>2, QuietSettled DEF local
<1>3. ASSUME ArchiveAnswered(k)
      PROVE  Settled'
  <2>1. calls[k].op = "archive" /\ doc' = None /\ draft' = None /\ pending' = pending
    BY <1>3 DEF ArchiveAnswered, Answered, Drop
  <2>2. doc = calls[k].local
    BY <1>1, <1>3 DEF ArchiveAnswered, Raced, Promises, Undisturbed
  <2>3. pending \in DraftType \cup {None} /\ calls[k] \in CallType /\ Placed(calls[k])
    BY DEF Typed, LocalOK, CallsOK
  <2> QED
    BY <2>1, <2>2, <2>3, LeavingSettled
<1> QED
  BY <1>1, <1>2, <1>3, SaveAnsweredSettled, AdoptSettled, SyncSettled, FinishSaveSettled,
     FinishReloadSettled, FailSettled DEF Proceed

LEMMA ChangeSettled ==
  ASSUME Typed, Settled, Trusted', NEW e \in events, ApplyServerChange(e)
  PROVE  Settled'
<1>1. \/ UNCHANGED <<doc, row>>
      \/ doc' = None /\ draft = None /\ pending = None
  BY DEF ApplyServerChange, Trusted
<1>2. /\ UNCHANGED calls \/ Begin(Call("fetch", "sent", doc, 0))
      /\ UNCHANGED <<draft, pending, typed, server>>
  BY DEF ApplyServerChange
<1>3. "fetch" \in Ops \ {"archive"} /\ doc \in DocType \cup {None} /\ 0 \in Nat
  BY DEF Ops, Typed, LocalOK
<1>4. QuietCalls
  BY <1>2, <1>3, SentQuiet DEF Typed
<1> QED
  BY <1>1, <1>2, <1>4, QuietSettled, DropSettled

LEMMA RestartSettled ==
  ASSUME Typed, Safe, Settled, Restart
  PROVE  Settled'
<1>1. /\ doc' = Recovered /\ pending' = None /\ UNCHANGED <<row, draft, server>>
      /\ \A k \in CallIds : calls'[k] = Idle
  BY DEF Restart
<1>2. DraftWins \in BOOLEAN /\ ~StoringSave(Idle)
  BY DEF DraftWins, StoringSave, Idle
<1>3. row = None => doc' = None
  BY <1>1 DEF Recovered
<1>4. row # None => /\ doc'.saved = row.content /\ doc'.dirty = DraftWins
                    /\ doc'.at = IF DraftWins THEN draft.at ELSE row.at
  BY <1>1 DEF Recovered
<1>5. row # None => doc' # None
  BY <1>1, RecoveredTypes, NoneAssumption DEF Typed
<1>6. row # None /\ DraftWins => typed' # None
  <2>1. row # None /\ DraftWins => typed' = draft.content /\ draft \in DraftType
    BY DEF Restart, DraftWins, Typed, LocalOK
  <2> QED
    BY <2>1, NoneAssumption DEF DraftType
<1>7. DraftIsPast'
  <2>1. draft # None => row # None
    BY DEF Safe, Settled, DraftIsPast
  <2>2. draft # None => draft.at \in Nat
    BY DEF Typed, LocalOK, DraftType
  <2>3. row # None => row.at \in Nat
    BY DEF Typed, LocalOK, RowType
  <2> QED
    BY <1>1, <1>4, <1>5, <2>1, <2>2, <2>3 DEF DraftIsPast, DraftWins
<1>8. EditsAreTyped'
  BY <1>3, <1>4, <1>6 DEF EditsAreTyped
<1>9. SavedIsRecorded'
  BY <1>1, <1>3, <1>4 DEF SavedIsRecorded, Recorded
<1>10. DraftIsRecorded'
  BY <1>1, <1>6 DEF DraftIsRecorded, DraftWins
<1>11. StoredIsThere'
  BY <1>1, <1>2 DEF StoredIsThere
<1> QED
  BY <1>1, <1>7, <1>8, <1>9, <1>10, <1>11 DEF Settled, PendingIsShown

(* Until a mishap, a reload over a later save, or an archived document     *)
(* whose draft stays, everything is settled.                               *)
GoneForGood == Trusted => Settled

LEMMA StepSettled ==
  Typed /\ AllPast /\ Honest /\ Stored /\ Kept /\ Tidy /\ GoneForGood /\ [Next]_vars => GoneForGood'
<1> SUFFICES ASSUME Typed, AllPast, Honest, Stored, Kept, Tidy, GoneForGood, [Next]_vars, Trusted'
             PROVE  Settled'
  BY DEF GoneForGood
<1>1. Settled /\ Safe /\ Undisturbed'
  BY ExcusesStay DEF GoneForGood, Trusted, Kept, Undisturbed
<1> QED
  BY <1>1, UserSettled, SocketSettled, ServeSettled, ProceedSettled, ChangeSettled, RestartSettled,
     CheckpointSettled DEF Next

LEMMA InitSettled == Init => Stored /\ Kept /\ Tidy /\ GoneForGood
<1> SUFFICES ASSUME Init PROVE Tidy /\ Settled
  BY InitKept DEF GoneForGood
<1>1. Tidy
  BY DEF Init, Idle, Tidy, TidyDoc, TidyCall
<1> QED
  BY <1>1 DEF Init, Settled, DraftIsPast, PendingIsShown, EditsAreTyped, SavedIsRecorded,
         DraftIsRecorded, StoredIsThere

(* A tab loaded again brings back nothing that was saved over or given up: *)
(* once no save, reload or archive is under way, a draft that would win    *)
(* over its row is typing not yet saved, or holds what the row or some     *)
(* revision of the server holds                                            *)
(* (apps/web/src/stores/documents.ts: saveInternal deletes the draft after *)
(* the row is written; mergeDrafts in persistence/drafts.ts).              *)
THEOREM GivenUpStaysAway == Spec => []NothingGivenUpComesBack
<1>1. GoneForGood => NothingGivenUpComesBack
  BY SettledIsEnough DEF GoneForGood
<1> QED
  BY <1>1, InitSettled, AlwaysTyped, AlwaysPast, AlwaysHonest, AlwaysTidy, StepStored, StepKept,
     StepSettled, PTL DEF Spec

-----------------------------------------------------------------------------
(* What is said of the server is true when it is read: its history only    *)
(* grows, and what is archived stays so.                                   *)

Archived(s) == s.hist # <<>> /\ ~s.live
Grows(s, t) ==
  /\ Len(s.hist) <= Len(t.hist)
  /\ s.hist # <<>> => t.hist # <<>>
  /\ Archived(s) => Archived(t)

(* A fetch is for what is newer than the document it has read, and gets it. *)
TrueEvent(s, e) == e.rev < Len(s.hist) /\ (e.archived => Archived(s))
TrueCall(s, c) ==
  /\ c.op = "fetch" /\ c.local # None =>
       /\ c.local.rev + 1 < Len(s.hist)
       /\ c.pc = "answered" /\ c.reply.kind = "document" => c.local.rev < c.reply.value.rev
  /\ c.op = "sync" /\ c.pc = "answered" /\ c.reply.value # None
     => c.reply.value.rev < Len(s.hist)
  /\ c.op \in {"publish", "create"} /\ c.pc = "answered"
     => c.reply.kind \in {"created", "existed", "missing"}
  /\ c.pc = "answered" /\ c.reply.kind \in {"created", "existed", "document"} => s.hist # <<>>
  /\ c.op = "archive" => s.hist # <<>>
  /\ c.op = "archive" /\ c.pc = "answered" => ~s.live

Informed ==
  /\ known => Exists
  /\ \A e \in events : TrueEvent(server, e)
  /\ \A k \in CallIds : TrueCall(server, calls[k])

LEMMA TruthGrows ==
  ASSUME NEW s \in ServerType, NEW t \in ServerType, Grows(s, t)
  PROVE  /\ \A e \in Events : TrueEvent(s, e) => TrueEvent(t, e)
         /\ \A c \in CallType : TrueCall(s, c) => TrueCall(t, c)
<1>1. Len(s.hist) \in Nat /\ Len(t.hist) \in Nat
  BY DEF ServerType
<1>2. ASSUME NEW e \in Events, TrueEvent(s, e)
      PROVE  TrueEvent(t, e)
  <2>1. e.rev \in Nat
    BY DEF Events
  <2> QED
    BY <1>1, <1>2, <2>1 DEF TrueEvent, Grows
<1>3. ASSUME NEW c \in CallType, TrueCall(s, c)
      PROVE  TrueCall(t, c)
  <2>1. c.local # None => c.local.rev \in Nat
    BY DEF CallType, DocType
  <2>2. c.reply.value # None => c.reply.value.rev \in Nat
    BY DEF CallType, ReplyType, Snapshot
  <2>3. c.op = "archive" /\ c.pc = "answered" => ~t.live
    BY <1>3 DEF TrueCall, Grows, Archived
  <2>4. c.op = "fetch" /\ c.local # None => c.local.rev + 1 < Len(t.hist)
    BY <1>1, <1>3, <2>1 DEF TrueCall, Grows
  <2>5. c.op = "sync" /\ c.pc = "answered" /\ c.reply.value # None
        => c.reply.value.rev < Len(t.hist)
    BY <1>1, <1>3, <2>2 DEF TrueCall, Grows
  <2> QED
    BY <1>3, <2>3, <2>4, <2>5 DEF TrueCall, Grows
<1> QED
  BY <1>2, <1>3

LEMMA StoresGrow ==
  ASSUME Typed, ~Archived(server), NEW content \in Contents, Stores(content)
  PROVE  Grows(server, server') /\ server'.hist # <<>> /\ server'.live
         /\ Len(server'.hist) = Len(server.hist) + 1
<1>1. server.hist \in Seq(Contents) /\ server'.hist = Append(server.hist, content)
      /\ Len(server'.hist) = Len(server.hist) + 1
  BY StoreTypes DEF Typed, ServerOK, ServerType
<1>2. server'.hist # <<>>
  BY <1>1
<1> QED
  BY <1>1, <1>2 DEF Grows, Stores

LEMMA ServerGrows ==
  ASSUME Typed, [Next]_vars
  PROVE  server \in ServerType /\ server' \in ServerType /\ Grows(server, server')
<1>1. server \in ServerType /\ server' \in ServerType /\ (server.live => server.hist # <<>>)
  BY StepTypes DEF Typed, ServerOK, Exists
<1>2. Len(server.hist) \in Nat
  BY <1>1 DEF ServerType
<1>3. server'.hist = server.hist /\ (server'.live => server.live) => Grows(server, server')
  BY <1>2 DEF Grows, Archived
<1>4. ASSUME Others \/ \E k \in CallIds : Serve(k)
      PROVE  Grows(server, server')
  <2>1. CASE server'.hist = server.hist
    <3>1. CASE server' = server
      BY <1>3, <3>1
    <3>2. CASE server' = [server EXCEPT !.live = FALSE]
      BY <1>1, <1>3, <2>1, <3>2 DEF ServerType
    <3>3. CASE \E content : Stores(content)
      <4>1. server'.hist # server.hist
        BY <1>1, <3>3 DEF Stores, ServerType
      <4> QED
        BY <2>1, <4>1
    <3>4. \/ server' = server
          \/ server' = [server EXCEPT !.live = FALSE]
          \/ \E content : Stores(content)
      BY <1>4 DEF Others, OtherSaves, OtherArchives, Serve, ServeSave, ServeCreate, ServeGet,
                  ServeList, ServeArchive
    <3> QED
      BY <3>1, <3>2, <3>3, <3>4
  <2>2. CASE server'.hist # server.hist
    <3>1. ~Archived(server)
      BY <1>1, <1>4, <2>2
         DEF Others, OtherSaves, OtherArchives, Serve, ServeSave, ServeCreate, ServeGet, ServeList,
             ServeArchive, Archived, Exists, ServerType
    <3>2. \E content \in Contents : Stores(content)
      BY <1>4, <2>2, HistoryMoves
    <3> QED
      BY <3>1, <3>2, StoresGrow
  <2> QED
    BY <2>1, <2>2
<1>5. ASSUME User \/ Checkpoint \/ Disconnect \/ Connect \/ Restart \/ UNCHANGED vars
      PROVE  server' = server
  BY <1>5 DEF User, CreateDocument, UpdateContent, ReleaseModel, SaveDocument, RenameDocument,
              RevertDocument, ResolveReload, ResolveKeep, DiscardDocument, Checkpoint, Disconnect,
              Connect, Restart, vars
<1>6. ASSUME NEW k \in CallIds, Proceed(k) \/ TimeOut(k)
      PROVE  server' = server
  BY <1>6 DEF Proceed, SaveAnswered, CreateAnswered, ArchiveAnswered, Adopt, SyncFromServer,
              FinishSave, FinishReload, RequestFails, TimeOut
<1>7. ASSUME NEW e \in events, ApplyServerChange(e)
      PROVE  server' = server
  BY <1>7 DEF ApplyServerChange
<1>8. Grows(server, server')
  BY <1>3, <1>4, <1>5, <1>6, <1>7 DEF Next
<1> QED
  BY <1>1, <1>8
TrueCalls(s, cs) == \A k \in CallIds : TrueCall(s, cs[k])

LEMMA BecomeTrue ==
  ASSUME CallsOK, NEW s, TrueCalls(s, calls), NEW k \in CallIds, NEW call, TrueCall(s, call),
         Become(k, call)
  PROVE  TrueCalls(s, calls')
  BY DEF CallsOK, Become, TrueCalls

LEMMA IdleTrue == \A s : TrueCall(s, Idle)
  BY DEF Idle, TrueCall

LEMMA SentTrue ==
  ASSUME NEW s, NEW op \in Ops, NEW d \in DocType \cup {None}, NEW base \in Nat,
         op = "fetch" /\ d # None => d.rev + 1 < Len(s.hist),
         op = "archive" => s.hist # <<>>
  PROVE  TrueCall(s, Call(op, "sent", d, base))
<1> DEFINE call == Call(op, "sent", d, base)
<1>1. call.op = op /\ call.pc = "sent" /\ call.local = d
  BY DEF Call
<1> HIDE DEF call
<1>2. TrueCall(s, call)
  BY <1>1 DEF TrueCall
<1> QED
  BY <1>2 DEF call

LEMMA EndTrue ==
  ASSUME CallsOK, NEW s, TrueCalls(s, calls), NEW k \in CallIds, End(k)
  PROVE  TrueCalls(s, calls')
  BY IdleTrue, BecomeTrue DEF End

LEMMA BeginTrue ==
  ASSUME CallsOK, NEW s, TrueCalls(s, calls), NEW call, TrueCall(s, call), Begin(call)
  PROVE  TrueCalls(s, calls')
  BY SlotIsFree, BecomeTrue DEF Begin, Become

LEMMA StoreSaveTrue ==
  ASSUME CallsOK, NEW s, TrueCalls(s, calls), NEW k \in CallIds, NEW d, NEW rev, NEW held,
         StoreSave(k, d, rev, held)
  PROVE  TrueCalls(s, calls')
<1> DEFINE call == [Call("save", "storing", d, 0) EXCEPT
                      !.reply = [kind |-> IF held THEN "document" ELSE "none",
                                 value |-> [rev |-> rev, content |-> d.cur, at |-> Now]]]
<1>1. call.op = "save" /\ call.pc = "storing" /\ Become(k, call)
  BY DEF Call, StoreSave
<1> HIDE DEF call
<1>2. TrueCall(s, call)
  BY <1>1 DEF TrueCall
<1> QED
  BY <1>1, <1>2, BecomeTrue

LEMMA SaveInternalTrue ==
  ASSUME Typed, NEW s, TrueCalls(s, calls), NEW k \in CallIds, NEW d \in DocType, NEW base \in Nat,
         NEW force \in BOOLEAN, SaveInternal(k, d, base, force)
  PROVE  TrueCalls(s, calls')
<1>1. CASE online
  <2> DEFINE op == IF known \/ base > 0 THEN IF force THEN "force" ELSE "save" ELSE "publish"
  <2>1. op \in Ops \ {"fetch", "archive"} /\ Become(k, Call(op, "sent", d, base))
    BY <1>1 DEF SaveInternal, Ops
  <2> HIDE DEF op
  <2>2. TrueCall(s, Call(op, "sent", d, base))
    BY <2>1, SentTrue
  <2> QED
    BY <2>1, <2>2, BecomeTrue DEF Typed
<1>2. CASE ~online
  BY <1>2, StoreSaveTrue DEF SaveInternal, Typed
<1>3. online \in BOOLEAN
  BY DEF Typed, RestOK
<1> QED
  BY <1>1, <1>2, <1>3

LEMMA UserInformed ==
  ASSUME Typed, Informed, User
  PROVE  known' = known /\ events' = events /\ TrueCalls(server, calls')
<1>1. /\ doc \in DocType \cup {None} /\ 0 \in Nat /\ CallsOK /\ TrueCalls(server, calls)
      /\ {"create", "archive", "save", "publish"} \subseteq Ops
  BY DEF Typed, LocalOK, Ops, Informed, TrueCalls
<1>2. known' = known /\ events' = events
  BY DEF User, CreateDocument, UpdateContent, ReleaseModel, SaveDocument, RenameDocument,
         RevertDocument, ResolveReload, ResolveKeep, DiscardDocument
<1>3. ASSUME NEW shared \in BOOLEAN, CreateDocument(shared)
      PROVE  TrueCalls(server, calls')
  <2> DEFINE d == [cur |-> 0, saved |-> 0, rev |-> 0, dirty |-> FALSE, shared |-> shared,
                   at |-> Now, held |-> FALSE]
  <2>1. d \in DocType
    BY ZeroIsContent DEF Now, Typed, RestOK, DocType
  <2>2. Begin(Call("create", "sent", d, 0)) \/ UNCHANGED calls
    BY <1>3 DEF CreateDocument
  <2> HIDE DEF d
  <2>3. TrueCall(server, Call("create", "sent", d, 0))
    BY <1>1, <2>1, SentTrue
  <2> QED
    BY <1>1, <2>2, <2>3, BeginTrue
<1>4. ASSUME SaveDocument \/ ResolveKeep
      PROVE  TrueCalls(server, calls')
  <2>1. doc \in DocType /\ Slot \in CallIds
    BY <1>1, <1>4, SlotIsFree DEF SaveDocument, ResolveKeep
  <2>2. \E base \in Nat, force \in BOOLEAN : SaveInternal(Slot, doc, base, force)
    <3>1. doc.rev \in Nat
      BY <2>1, DocFields
    <3>2. ResolveKeep => conflict.rev \in Nat
      BY DEF ResolveKeep, Typed, RestOK, Snapshot
    <3> QED
      BY <1>4, <3>1, <3>2 DEF SaveDocument, ResolveKeep
  <2> QED
    BY <1>1, <2>1, <2>2, SaveInternalTrue
<1>5. ASSUME RenameDocument
      PROVE  TrueCalls(server, calls')
  <2> DEFINE renamed == [doc EXCEPT !.at = Now]
             op == IF known \/ doc.rev > 0 THEN "save" ELSE "publish"
  <2>1. doc \in DocType /\ renamed \in DocType /\ doc.rev \in Nat
    BY <1>1, <1>5, DocFields DEF RenameDocument, DocType, Now, Typed, RestOK
  <2>2. op \in Ops \ {"fetch", "archive"}
    BY <1>1
  <2>3. UNCHANGED calls \/ (MayCall /\ Become(Slot, Call(op, "sent", renamed, doc.rev)))
    BY <1>5 DEF RenameDocument
  <2> HIDE DEF renamed, op
  <2>4. TrueCall(server, Call(op, "sent", renamed, doc.rev))
    BY <2>1, <2>2, SentTrue
  <2> QED
    BY <1>1, <2>3, <2>4, SlotIsFree, BecomeTrue
<1>6. ASSUME ResolveReload
      PROVE  TrueCalls(server, calls')
  <2> DEFINE call == Call("reload", "storing", doc', 0)
  <2>1. call.op = "reload" /\ call.pc = "storing" /\ Begin(call)
    BY <1>6 DEF ResolveReload, Call
  <2> HIDE DEF call
  <2>2. TrueCall(server, call)
    BY <2>1 DEF TrueCall
  <2> QED
    BY <1>1, <2>1, <2>2, BeginTrue
<1>7. ASSUME DiscardDocument
      PROVE  TrueCalls(server, calls')
  <2>1. UNCHANGED calls \/ (known /\ Begin(Call("archive", "sent", doc, 0)))
    BY <1>7 DEF DiscardDocument
  <2>2. known => TrueCall(server, Call("archive", "sent", doc, 0))
    BY <1>1, SentTrue DEF Informed, Exists
  <2> QED
    BY <1>1, <2>1, <2>2, BeginTrue
<1>8. ASSUME \/ doc # None /\ UpdateContent(doc.saved)
             \/ UpdateContent(count["typed"] + 1) \/ ReleaseModel \/ RevertDocument
      PROVE  calls' = calls
  BY <1>8 DEF UpdateContent, ReleaseModel, RevertDocument
<1> QED
  BY <1>1, <1>2, <1>3, <1>4, <1>5, <1>6, <1>7, <1>8 DEF User

LEMMA AnswerTrue ==
  ASSUME Typed, NEW s, TrueCalls(s, calls), NEW k \in CallIds, NEW kind, NEW value,
         calls[k].pc = "sent", Answer(k, kind, value),
         calls[k].op = "fetch" /\ calls[k].local # None /\ kind = "document"
         => calls[k].local.rev < value.rev,
         calls[k].op = "sync" /\ value # None => value.rev < Len(s.hist),
         calls[k].op \in {"publish", "create"} => kind \in {"created", "existed", "missing"},
         kind \in {"created", "existed", "document"} => s.hist # <<>>,
         calls[k].op = "archive" => ~s.live
  PROVE  TrueCalls(s, calls')
<1> DEFINE reply == [kind |-> kind, value |-> value]
           call == [calls[k] EXCEPT !.pc = "answered", !.reply = reply]
<1>1. calls[k] \in CallType /\ CallsOK /\ TrueCall(s, calls[k])
  BY DEF Typed, CallsOK, TrueCalls
<1>2. call.op = calls[k].op /\ call.pc = "answered" /\ call.local = calls[k].local
      /\ call.reply.kind = kind /\ call.reply.value = value
  BY <1>1 DEF CallType
<1>3. Become(k, call)
  BY DEF Answer
<1> HIDE DEF call
<1>4. TrueCall(s, call)
  BY <1>1, <1>2 DEF TrueCall
<1> QED
  BY <1>1, <1>3, <1>4, BecomeTrue

LEMMA ServeInformed ==
  ASSUME Typed, TrueCalls(server', calls), NEW k \in CallIds, Serve(k), server' \in ServerType,
         Grows(server, server'), TrueCalls(server, calls)
  PROVE  known' = known /\ events' = events /\ TrueCalls(server', calls')
<1>1. /\ calls[k] \in CallType /\ Placed(calls[k]) /\ calls[k].pc = "sent"
      /\ known' = known /\ events' = events
  BY DEF Serve, ServeSave, ServeCreate, ServeGet, ServeList, ServeArchive, Asked, Typed, CallsOK
<1>2. server.live => /\ Exists /\ Current \in Snapshot /\ Current.rev = Revision /\ Revision \in Nat
                     /\ server'.hist # <<>>
  BY CurrentTypes DEF Typed, ServerOK, Grows, Exists
<1>3. Len(server.hist) \in Nat /\ TrueCall(server, calls[k])
  BY DEF Typed, ServerOK, ServerType, TrueCalls
<1>4. CASE ServeSave(k)
  <2>1. calls[k].op \in {"save", "force"}
    BY <1>4 DEF ServeSave, Asked
  <2>2. \E kind, value : Answer(k, kind, value) /\ (kind = "document" => server.live)
                         /\ kind \notin {"created", "existed"}
    BY <1>4 DEF ServeSave
  <2> QED
    BY <1>1, <1>2, <2>1, <2>2, AnswerTrue
<1>5. CASE ServeCreate(k)
  <2>1. calls[k].op \in {"publish", "create"} /\ calls[k].local \in DocType
    BY <1>1, <1>5 DEF ServeCreate, Asked, Placed
  <2> DEFINE content == IF calls[k].op = "publish" THEN calls[k].local.cur ELSE calls[k].local.saved
  <2>2. CASE ~Exists
    <3>1. content \in Contents
      BY <2>1, DocFields
    <3>2. Stores(content) /\ Answer(k, "created", None)
      BY <1>5, <2>2 DEF ServeCreate
    <3> HIDE DEF content
    <3>3. server'.hist # <<>>
      BY <2>2, <3>1, <3>2, StoresGrow DEF Archived, Exists
    <3> QED
      BY <1>1, <2>1, <3>2, <3>3, AnswerTrue
  <2>3. CASE Exists
    <3>1. (Answer(k, "existed", None) \/ Answer(k, "missing", None)) /\ server'.hist # <<>>
      BY <1>5, <2>3 DEF ServeCreate, Grows, Exists
    <3> QED
      BY <1>1, <2>1, <3>1, AnswerTrue
  <2> QED
    BY <2>2, <2>3
<1>6. CASE ServeGet(k)
  <2>1. calls[k].op = "fetch" /\ UNCHANGED server
    BY <1>6 DEF ServeGet, Asked
  <2>2. CASE server.live
    <3>1. Answer(k, "document", Current)
      BY <1>6, <2>2 DEF ServeGet
    <3>2. calls[k].local # None => calls[k].local.rev < Current.rev
      <4>1. calls[k].local # None => calls[k].local.rev \in Nat
        BY <1>1 DEF CallType, DocType
      <4> QED
        BY <1>2, <1>3, <2>1, <2>2, <4>1 DEF TrueCall, Revision
    <3> QED
      BY <1>1, <1>2, <2>1, <2>2, <3>1, <3>2, AnswerTrue
  <2>3. CASE ~server.live
    <3>1. Answer(k, "missing", None)
      BY <1>6, <2>3 DEF ServeGet
    <3> QED
      BY <1>1, <2>1, <3>1, AnswerTrue
  <2> QED
    BY <2>2, <2>3
<1>7. CASE ServeList(k)
  <2>1. calls[k].op = "sync" /\ UNCHANGED server
    BY <1>7 DEF ServeList, Asked
  <2>2. \E value : Answer(k, "list", value) /\ (value # None => server.live /\ value = Current)
    BY <1>7 DEF ServeList
  <2>3. server.live => Current.rev < Len(server.hist)
    BY <1>2, <1>3 DEF Revision
  <2> QED
    BY <1>1, <2>1, <2>2, <2>3, AnswerTrue
<1>8. CASE ServeArchive(k)
  <2>1. calls[k].op = "archive" /\ Answer(k, "document", None) /\ server' = [server EXCEPT !.live = FALSE]
    BY <1>8 DEF ServeArchive, Asked
  <2>2. ~server'.live /\ server'.hist # <<>>
    BY <1>3, <2>1 DEF Typed, ServerOK, ServerType, TrueCall
  <2> QED
    BY <1>1, <2>1, <2>2, AnswerTrue
<1> QED
  BY <1>1, <1>4, <1>5, <1>6, <1>7, <1>8 DEF Serve

LEMMA ProceedInformed ==
  ASSUME Typed, Informed, NEW k \in CallIds, Proceed(k) \/ TimeOut(k)
  PROVE  (known' => Exists) /\ events' = events /\ TrueCalls(server, calls')
<1>1. /\ calls[k] \in CallType /\ Placed(calls[k]) /\ TrueCall(server, calls[k])
      /\ doc \in DocType \cup {None} /\ 0 \in Nat /\ CallsOK /\ TrueCalls(server, calls)
      /\ {"create", "fetch"} \subseteq Ops /\ (known => Exists) /\ FALSE \in BOOLEAN
  BY DEF Typed, LocalOK, CallsOK, Ops, Informed, TrueCalls
<1>2. events' = events
  BY DEF Proceed, SaveAnswered, CreateAnswered, ArchiveAnswered, Adopt, SyncFromServer,
         FinishSave, FinishReload, RequestFails, TimeOut
<1>3. ASSUME SaveAnswered(k)
      PROVE  (known' => Exists) /\ TrueCalls(server, calls')
  <2>1. (\E d, rev, held : StoreSave(k, d, rev, held)) \/ End(k)
    BY <1>3 DEF SaveAnswered
  <2>2. known' => Exists
    BY <1>1, <1>3 DEF SaveAnswered, Answered, TrueCall, Exists
  <2> QED
    BY <1>1, <2>1, <2>2, StoreSaveTrue, EndTrue
<1>4. ASSUME CreateAnswered(k)
      PROVE  (known' => Exists) /\ TrueCalls(server, calls')
  <2>1. known' => Exists
    BY <1>1, <1>4 DEF CreateAnswered, Answered, TrueCall, Exists
  <2> QED
    BY <1>1, <1>4, <2>1, EndTrue DEF CreateAnswered
<1>5. ASSUME SyncFromServer(k)
      PROVE  (known' => Exists) /\ TrueCalls(server, calls')
  <2> DEFINE list == calls[k].reply.value
  <2>1. calls[k].op = "sync" /\ calls[k].pc = "answered" /\ known' = (list # None)
    BY <1>5 DEF SyncFromServer, Answered
  <2>2. Len(server.hist) \in Nat /\ (list # None => list.rev \in Nat /\ list.rev < Len(server.hist))
    BY <1>1, <2>1 DEF Typed, ServerOK, ServerType, TrueCall, CallType, ReplyType, Snapshot
  <2>3. known' => Exists
    <3>1. server.hist = <<>> => Len(server.hist) = 0
      OBVIOUS
    <3>2. list # None => Exists
      BY <2>2, <3>1 DEF Exists
    <3> QED
      BY <2>1, <3>2
  <2>4. \/ /\ list # None /\ (doc = None \/ Behind(list.rev))
           /\ Become(k, Call("fetch", "sent", doc, 0))
        \/ doc # None /\ SaveInternal(k, doc, doc.rev, FALSE)
        \/ Become(k, Call("create", "sent", doc, 0))
        \/ End(k)
    BY <1>5 DEF SyncFromServer
  <2>5. doc # None => doc \in DocType /\ doc.rev \in Nat
    BY <1>1, DocFields
  <2>6. list # None /\ (doc = None \/ Behind(list.rev)) => TrueCall(server, Call("fetch", "sent", doc, 0))
    <3>1. list # None /\ Behind(list.rev) /\ doc # None => doc.rev + 1 < Len(server.hist)
      BY <2>2, <2>5 DEF Behind
    <3> QED
      BY <1>1, <3>1, SentTrue
  <2>7. TrueCall(server, Call("create", "sent", doc, 0))
    BY <1>1, SentTrue
  <2> QED
    BY <1>1, <2>3, <2>4, <2>5, <2>6, <2>7, SaveInternalTrue, EndTrue, BecomeTrue
<1>6. ASSUME RequestFails(k) \/ TimeOut(k)
      PROVE  (known' => Exists) /\ TrueCalls(server, calls')
  <2>1. GiveUp(k)
    BY <1>6 DEF RequestFails, TimeOut
  <2>2. (\E d, rev, held : StoreSave(k, d, rev, held)) \/ End(k)
    BY <2>1 DEF GiveUp
  <2>3. known' => known
    BY <2>1 DEF GiveUp
  <2> QED
    BY <1>1, <2>2, <2>3, StoreSaveTrue, EndTrue
<1>7. ASSUME ArchiveAnswered(k) \/ Adopt(k) \/ FinishSave(k) \/ FinishReload(k)
      PROVE  (known' => Exists) /\ TrueCalls(server, calls')
  <2>1. End(k) /\ (known' => known)
    BY <1>7 DEF ArchiveAnswered, Adopt, FinishSave, FinishReload
  <2> QED
    BY <1>1, <2>1, EndTrue
<1> QED
  BY <1>2, <1>3, <1>4, <1>5, <1>6, <1>7 DEF Proceed

LEMMA StepInformed == Typed /\ Informed /\ [Next]_vars => Informed'
<1> SUFFICES ASSUME Typed, Informed, [Next]_vars PROVE Informed'
  OBVIOUS
<1>1. /\ server' \in ServerType /\ Grows(server, server') /\ Len(server.hist) \in Nat
      /\ (Exists => Exists') /\ TrueCalls(server, calls) /\ TrueCalls(server', calls)
      /\ \A e \in events : TrueEvent(server', e)
  BY ServerGrows, TruthGrows DEF Typed, CallsOK, RestOK, Informed, TrueCalls, Grows, Exists, ServerType
<1>2. ASSUME known' => Exists, \A e \in events' : TrueEvent(server', e), TrueCalls(server', calls')
      PROVE  Informed'
  BY <1>1, <1>2 DEF Informed, TrueCalls
<1>3. (known => Exists) /\ CallsOK
  BY DEF Informed, Typed
<1>4. ASSUME User
      PROVE  Informed'
  <2>1. server' = server
    BY <1>4 DEF User, CreateDocument, UpdateContent, ReleaseModel, SaveDocument, RenameDocument,
                RevertDocument, ResolveReload, ResolveKeep, DiscardDocument
  <2> QED
    BY <1>1, <1>2, <1>3, <1>4, <2>1, UserInformed
<1>5. ASSUME Others
      PROVE  Informed'
  <2>1. Len(server'.hist) \in Nat \ {0}
    <3>1. Exists'
      <4>1. CASE OtherArchives
        BY <1>1, <4>1 DEF OtherArchives, Typed, ServerOK
      <4>2. CASE OtherSaves
        <5>1. \E content : server' = [hist |-> Append(server.hist, content), live |-> TRUE, at |-> clock]
          BY <4>2 DEF OtherSaves, Stores
        <5> QED
          BY <1>1, <5>1, StepTypes DEF Typed, ServerOK, Exists
      <4> QED
        BY <1>5, <4>1, <4>2 DEF Others
    <3> QED
      BY <1>1, <3>1 DEF Exists, ServerType
  <2>2. \/ Announce(FALSE)
        \/ Announce(TRUE) /\ server'.live = FALSE
    BY <1>5 DEF Others, OtherSaves, OtherArchives, Typed, ServerOK, ServerType
  <2>3. /\ TrueEvent(server', [rev |-> Len(server'.hist) - 1, archived |-> FALSE])
        /\ server'.live = FALSE => TrueEvent(server', [rev |-> Len(server'.hist) - 1, archived |-> TRUE])
    BY <2>1 DEF TrueEvent, Archived
  <2>4. \A e \in events' : TrueEvent(server', e)
    BY <1>1, <2>2, <2>3 DEF Announce
  <2>5. known' = known /\ calls' = calls
    BY <1>5 DEF Others, OtherSaves, OtherArchives
  <2> QED
    BY <1>1, <1>2, <1>3, <2>4, <2>5
<1>6. ASSUME NEW k \in CallIds, Serve(k)
      PROVE  Informed'
  <2>1. known' = known /\ events' = events /\ TrueCalls(server', calls')
    BY <1>1, <1>6, ServeInformed
  <2> QED
    BY <1>1, <1>2, <1>3, <2>1
<1>7. ASSUME NEW k \in CallIds, Proceed(k) \/ TimeOut(k)
      PROVE  Informed'
  <2>1. server' = server
    BY <1>7 DEF Proceed, SaveAnswered, CreateAnswered, ArchiveAnswered, Adopt, SyncFromServer,
                FinishSave, FinishReload, RequestFails, TimeOut
  <2> QED
    BY <1>1, <1>2, <1>7, <2>1, ProceedInformed
<1>8. ASSUME NEW e \in events, ApplyServerChange(e)
      PROVE  Informed'
  <2>1. TrueEvent(server, e) /\ e.rev \in Nat /\ events' \subseteq events /\ server' = server
    BY <1>8 DEF ApplyServerChange, Informed, Typed, RestOK, Events
  <2>2. Exists
    BY <1>1, <2>1 DEF TrueEvent, Exists, Typed, ServerOK, ServerType
  <2>3. UNCHANGED calls \/ ((doc = None \/ Behind(e.rev)) /\ Begin(Call("fetch", "sent", doc, 0)))
    BY <1>8 DEF ApplyServerChange
  <2>4. "fetch" \in Ops /\ doc \in DocType \cup {None} /\ 0 \in Nat
    BY DEF Ops, Typed, LocalOK
  <2>5. doc # None => doc.rev \in Nat
    BY <2>4, DocFields
  <2>6. doc = None \/ Behind(e.rev) => TrueCall(server, Call("fetch", "sent", doc, 0))
    BY <1>1, <2>1, <2>4, <2>5, SentTrue DEF TrueEvent, Behind
  <2>7. TrueCalls(server, calls')
    BY <1>1, <1>3, <2>3, <2>6, BeginTrue
  <2> QED
    BY <1>1, <1>2, <2>1, <2>2, <2>7
<1>9. ASSUME Connect
      PROVE  Informed'
  <2>1. Begin(Call("sync", "sent", None, 0)) /\ UNCHANGED <<known, events, server>>
    BY <1>9 DEF Connect
  <2>2. TrueCall(server, Call("sync", "sent", None, 0))
    BY SentTrue, 0 \in Nat, "sync" \in Ops DEF Ops
  <2> QED
    BY <1>1, <1>2, <1>3, <2>1, <2>2, BeginTrue
<1>10. ASSUME Checkpoint \/ Disconnect \/ UNCHANGED vars
       PROVE  Informed'
  <2>1. UNCHANGED <<known, calls, server>> /\ events' \subseteq events
    BY <1>10 DEF Checkpoint, Disconnect, vars
  <2> QED
    BY <1>1, <1>2, <1>3, <2>1
<1>11. ASSUME Restart
       PROVE  Informed'
  <2>1. known' = FALSE /\ events' = {} /\ \A k \in CallIds : calls'[k] = Idle
    BY <1>11 DEF Restart
  <2> QED
    BY <1>2, <2>1, IdleTrue DEF TrueCalls
<1> QED
  BY <1>4, <1>5, <1>6, <1>7, <1>8, <1>9, <1>10, <1>11 DEF Next

LEMMA AlwaysInformed == Spec => []Informed
<1>1. Init => Informed
  BY IdleTrue DEF Init, Informed
<1> QED
  BY <1>1, AlwaysTyped, StepInformed, PTL DEF Spec

-----------------------------------------------------------------------------
(* A connected tab that is behind the server will hear of it: a change, a  *)
(* fetch, a list or the answer to a save of its own is on the way, and     *)
(* nothing else that is under way can take it back.                        *)

(* Brings the last revision, r, to the tab.                                *)
Brings(r, c) ==
  \/ c.op \in {"fetch", "sync"} /\ c.pc = "sent"
  \/ /\ c.pc # "sent" /\ c.reply.value # None /\ c.reply.value.rev = r
     /\ \/ c.op = "sync"
        \/ c.op \in {"fetch", "save", "force"} /\ c.reply.kind = "document"

(* Would put an older one in the place of the document d.                  *)
Stale(r, d, rev) == rev < r /\ (d # None => rev >= d.rev)
StaleCall(r, d, c) ==
  \/ /\ c.op \in {"fetch", "save", "force"} /\ c.pc # "sent"
     /\ c.reply.kind \in {"document", "conflict"}
     /\ Stale(r, d, c.reply.value.rev)
  \/ c.op = "publish" /\ c.pc = "answered" /\ c.reply.kind = "created" /\ Stale(r, d, 0)

AbreastOf(r, d, b, es, cs) ==
  \/ \E e \in es : ~e.archived /\ e.rev = r
  \/ \E k \in CallIds : Brings(r, cs[k])
  \/ d = None /\ \A k \in CallIds : cs[k].op = "fetch" /\ cs[k].local = None => ~StaleCall(r, d, cs[k])
  \/ d # None /\ d.held /\ d.rev = r
  \/ /\ d # None /\ ~d.held
     /\ b # None => ~Stale(r, d, b.rev)
     /\ \A k \in CallIds : ~StaleCall(r, d, cs[k])
Abreast == AbreastOf(Revision, doc, conflict, events, calls)

Connected == online /\ server.live /\ "sync" \notin excused
InSync == Connected => Abreast

LEMMA InSyncIsEnough == Typed /\ Honest /\ Tidy /\ InSync => QuietMeansInSync
<1> SUFFICES ASSUME Typed, Honest, Tidy, InSync, Quiet, "sync" \notin excused,
                    doc # None, doc.shared, doc.held, ~doc.dirty, server.live
             PROVE  doc.rev = Revision /\ doc.cur = Last(server.hist)
  BY DEF QuietMeansInSync
<1>1. Abreast /\ events = {} /\ \A k \in CallIds : calls[k].op = "idle"
  BY DEF InSync, Connected, Quiet, Idle
<1>2. doc.rev = Revision
  BY <1>1 DEF Abreast, AbreastOf, Brings
<1>3. Len(server.hist) \in Nat /\ doc.cur = doc.saved /\ In(server.hist, doc.rev, doc.saved)
  BY DEF Typed, ServerOK, ServerType, Tidy, TidyDoc, Honest, HonestDoc
<1>4. doc.rev + 1 = Len(server.hist)
  BY <1>2, <1>3 DEF Revision
<1> QED
  BY <1>2, <1>3, <1>4 DEF In, Last

(* A call moves on without taking back what it brings, or getting stale.   *)
Calm(r, d, c, next) ==
  /\ Brings(r, c) => Brings(r, next)
  /\ StaleCall(r, d, next) => StaleCall(r, d, c) /\ (next.op = "fetch" => next = c)

LEMMA AbreastStays ==
  ASSUME NEW r, NEW d, NEW e, NEW b, NEW a, NEW es, NEW fs, NEW cs, NEW ds,
         AbreastOf(r, d, b, es, cs),
         \/ d = None /\ e = None
         \/ d # None /\ e # None /\ e.held = d.held /\ e.rev = d.rev,
         a \in {b, None},
         \A x \in es : ~x.archived /\ x.rev = r => x \in fs,
         \A k \in CallIds : Calm(r, d, cs[k], ds[k])
  PROVE  AbreastOf(r, e, a, fs, ds)
<1>1. CASE \E x \in es : ~x.archived /\ x.rev = r
  BY <1>1 DEF AbreastOf
<1>2. CASE \E k \in CallIds : Brings(r, cs[k])
  BY <1>2 DEF AbreastOf, Calm
<1>3. CASE d = None /\ \A k \in CallIds : cs[k].op = "fetch" /\ cs[k].local = None => ~StaleCall(r, d, cs[k])
  BY <1>3 DEF AbreastOf, Calm
<1>4. CASE d # None /\ d.held /\ d.rev = r
  BY <1>4 DEF AbreastOf
<1>5. CASE /\ d # None /\ ~d.held
           /\ b # None => ~Stale(r, d, b.rev)
           /\ \A k \in CallIds : ~StaleCall(r, d, cs[k])
  <2>1. \A rev : Stale(r, e, rev) <=> Stale(r, d, rev)
    BY <1>5 DEF Stale
  <2>2. \A k \in CallIds : ~StaleCall(r, e, ds[k])
    BY <1>5, <2>1 DEF StaleCall, Calm
  <2> QED
    BY <1>5, <2>1, <2>2 DEF AbreastOf
<1> QED
  BY <1>1, <1>2, <1>3, <1>4, <1>5 DEF AbreastOf

(* Nothing is stale for a document that is not behind, so it keeps its tab *)
(* abreast; and a server that has just got the document is never ahead.    *)
LEMMA RevisionsIn ==
  ASSUME NEW h \in Seq(Contents), NEW rev \in Nat, NEW content, In(h, rev, content)
  PROVE  rev <= Len(h) - 1
  BY DEF In

LEMMA AheadAbreast ==
  ASSUME NEW h \in Seq(Contents), NEW d \in DocType, HonestDoc(h, d), d.rev >= Len(h) - 1,
         NEW b \in Snapshot \cup {None}, NEW es, NEW cs \in [CallIds -> CallType],
         \A k \in CallIds : Placed(cs[k])
  PROVE  AbreastOf(Len(h) - 1, d, b, es, cs)
<1> DEFINE r == Len(h) - 1
<1>1. d # None /\ d.rev \in Nat /\ d.held \in BOOLEAN /\ r \in Int
  BY NoneAssumption, DocFields
<1>2. d.held => d.rev <= r
  BY <1>1, RevisionsIn DEF HonestDoc
<1>3. d.rev >= r
  OBVIOUS
<1> HIDE DEF r
<1>4. \A rev \in Nat : ~Stale(r, d, rev)
  BY <1>1, <1>3 DEF Stale
<1>5. \A k \in CallIds : ~StaleCall(r, d, cs[k])
  <2> SUFFICES ASSUME NEW k \in CallIds PROVE ~StaleCall(r, d, cs[k])
    OBVIOUS
  <2>1. cs[k] \in CallType /\ Placed(cs[k])
    OBVIOUS
  <2>2. /\ cs[k].op \in {"fetch", "save", "force"} /\ cs[k].pc # "sent"
        /\ cs[k].reply.kind \in {"document", "conflict"}
        => cs[k].reply.value \in Snapshot
    BY <2>1 DEF Placed, CallType
  <2> QED
    BY <1>4, <2>2, 0 \in Nat DEF StaleCall, Snapshot
<1>6. b # None => ~Stale(r, d, b.rev)
  BY <1>4 DEF Snapshot
<1>7. d.held => d.rev = r
  BY <1>1, <1>2, <1>3
<1>8. AbreastOf(r, d, b, es, cs)
  BY <1>1, <1>5, <1>6, <1>7 DEF AbreastOf
<1> QED
  BY <1>8 DEF r

LEMMA FirstAbreast ==
  ASSUME NEW h \in Seq(Contents), Len(h) = 1, NEW d \in DocType \cup {None}, HonestDoc(h, d),
         NEW b \in Snapshot \cup {None}, NEW es, NEW cs \in [CallIds -> CallType],
         \A k \in CallIds : Placed(cs[k])
  PROVE  AbreastOf(0, d, b, es, cs)
<1>1. CASE d # None
  <2>1. d \in DocType /\ d.rev \in Nat
    BY <1>1, DocFields
  <2>2. d.rev >= Len(h) - 1 /\ Len(h) - 1 = 0
    BY <2>1
  <2> QED
    BY <2>1, <2>2, AheadAbreast
<1>2. CASE d = None
  <2>1. ASSUME NEW k \in CallIds, cs[k].op = "fetch"
        PROVE  ~StaleCall(0, d, cs[k])
    <3>1. cs[k] \in CallType /\ Placed(cs[k])
      OBVIOUS
    <3>2. cs[k].pc # "sent" => cs[k].pc = "answered" /\ cs[k].reply.kind \in {"document", "missing"}
      BY <2>1, <3>1 DEF CallType, Placed
    <3>3. cs[k].pc = "answered" /\ cs[k].reply.kind = "document" => cs[k].reply.value.rev \in Nat
      BY <2>1, <3>1 DEF Placed, Snapshot
    <3> QED
      BY <2>1, <3>2, <3>3 DEF StaleCall, Stale
  <2> QED
    BY <1>2, <2>1 DEF AbreastOf
<1> QED
  BY <1>1, <1>2

LEMMA RevisionIs ==
  ASSUME Typed
  PROVE  /\ server.hist \in Seq(Contents) /\ Len(server.hist) \in Nat
         /\ Revision = Len(server.hist) - 1 /\ Revision \in Int
  BY DEF Typed, ServerOK, ServerType, Revision

(* Calls that begin and end.                                               *)
LEMMA BecomeCalm ==
  ASSUME CallsOK, NEW r, NEW d, NEW k \in CallIds, NEW call, Calm(r, d, calls[k], call),
         Become(k, call)
  PROVE  \A j \in CallIds : Calm(r, d, calls[j], calls'[j])
<1>1. \A c : Calm(r, d, c, c)
  BY DEF Calm
<1>2. calls'[k] = call /\ \A j \in CallIds : j # k => calls'[j] = calls[j]
  BY DEF Become, CallsOK
<1> QED
  BY <1>1, <1>2

LEMMA EndCalm ==
  ASSUME CallsOK, NEW r, NEW d, NEW k \in CallIds, ~Brings(r, calls[k]), End(k)
  PROVE  \A j \in CallIds : Calm(r, d, calls[j], calls'[j])
<1>1. ~StaleCall(r, d, Idle)
  BY DEF StaleCall, Idle
<1> QED
  BY <1>1, BecomeCalm DEF End, Calm

LEMMA SentCalm ==
  ASSUME NEW r, NEW d, NEW op, NEW read, NEW base
  PROVE  /\ ~StaleCall(r, d, Call(op, "sent", read, base))
         /\ op \in {"fetch", "sync"} => Brings(r, Call(op, "sent", read, base))
<1> DEFINE call == Call(op, "sent", read, base)
<1>1. call.op = op /\ call.pc = "sent"
  BY DEF Call
<1> HIDE DEF call
<1>2. ~StaleCall(r, d, call) /\ (op \in {"fetch", "sync"} => Brings(r, call))
  BY <1>1 DEF StaleCall, Brings
<1> QED
  BY <1>2 DEF call

LEMMA BeginCalm ==
  ASSUME CallsOK, NEW r, NEW d, NEW call, ~StaleCall(r, d, call), Begin(call)
  PROVE  \A j \in CallIds : Calm(r, d, calls[j], calls'[j])
<1>1. Slot \in CallIds /\ calls[Slot].op = "idle" /\ Become(Slot, call)
  BY SlotIsFree DEF Begin, Become
<1>2. ~Brings(r, calls[Slot])
  BY <1>1 DEF Brings
<1> QED
  BY <1>1, <1>2, BecomeCalm DEF Calm

LEMMA CalmAbreast ==
  ASSUME Abreast, \/ doc = None /\ doc' = None
                  \/ doc # None /\ doc' # None /\ doc'.held = doc.held /\ doc'.rev = doc.rev,
         conflict' \in {conflict, None}, server'.hist = server.hist, events \subseteq events',
         \A k \in CallIds : Calm(Revision, doc, calls[k], calls'[k])
  PROVE  Abreast'
<1>1. Revision' = Revision
  BY DEF Revision
<1>2. \A x \in events : ~x.archived /\ x.rev = Revision => x \in events'
  OBVIOUS
<1>3. AbreastOf(Revision, doc', conflict', events', calls')
  BY <1>2, AbreastStays DEF Abreast
<1> QED
  BY <1>1, <1>3 DEF Abreast

LEMMA SameCalm == ASSUME NEW r, NEW d, calls' = calls
                  PROVE  \A k \in CallIds : Calm(r, d, calls[k], calls'[k])
  BY DEF Calm
LEMMA UpdateAbreast ==
  ASSUME Typed, Abreast, NEW content \in Contents, UpdateContent(content)
  PROVE  Abreast'
<1>1. doc \in DocType /\ doc # None /\ Now \in Nat
  BY DEF UpdateContent, Typed, LocalOK, RestOK, Now
<1>2. /\ doc' = [doc EXCEPT !.cur = content, !.dirty = content # doc.saved, !.at = Now]
      /\ UNCHANGED <<conflict, events, calls, server>>
  BY DEF UpdateContent
<1>3. doc' \in DocType /\ doc'.held = doc.held /\ doc'.rev = doc.rev
  BY <1>1, <1>2 DEF DocType
<1>4. doc' # None
  BY <1>3, NoneAssumption
<1> QED
  BY <1>1, <1>2, <1>3, <1>4, SameCalm, CalmAbreast

(* A banner that is answered has a revision no older than the document, or *)
(* is a mishap.                                                            *)
LEMMA ReloadAbreast ==
  ASSUME Typed, Typed', Honest, Honest', Abreast, "sync" \notin excused', ResolveReload
  PROVE  Abreast'
<1>1. /\ doc \in DocType /\ doc # None /\ conflict # None /\ conflict \in Snapshot
      /\ doc.rev \in Nat /\ conflict.rev \in Nat
      /\ server' = server /\ Revision' = Revision /\ Revision \in Int
  BY DocFields, RevisionIs DEF ResolveReload, Typed, LocalOK, RestOK, Snapshot, Revision
<1>2. doc' = Adopted(doc, conflict) /\ events' = events /\ Begin(Call("reload", "storing", doc', 0))
  BY DEF ResolveReload
<1>3. doc' \in DocType /\ doc'.rev = conflict.rev /\ doc'.held = TRUE
  BY <1>1, <1>2, AdoptTypes DEF Adopted, DocType
<1>4. doc' # None
  BY <1>3, NoneAssumption
<1>5. conflict.rev >= doc.rev
  BY <1>1 DEF ResolveReload
<1>6. conflict.rev <= Revision
  BY <1>1, RevisionIs, RevisionsIn DEF Honest, HonestBanner
<1> DEFINE call == Call("reload", "storing", doc', 0)
<1>7. call.op = "reload" /\ Begin(call)
  BY <1>2 DEF Call
<1> HIDE DEF call
<1>8. \A j \in CallIds : Calm(Revision, doc, calls[j], calls'[j])
  BY <1>7, BeginCalm DEF StaleCall, Typed
<1>9. CASE (\E e \in events : ~e.archived /\ e.rev = Revision) \/ \E k \in CallIds : Brings(Revision, calls[k])
  <2>1. (\E e \in events' : ~e.archived /\ e.rev = Revision') \/ \E k \in CallIds : Brings(Revision', calls'[k])
    BY <1>1, <1>2, <1>8, <1>9 DEF Calm
  <2> QED
    BY <2>1 DEF Abreast, AbreastOf
<1>10. CASE (doc.held /\ doc.rev = Revision) \/ ~Stale(Revision, doc, conflict.rev)
  <2>1. conflict.rev = Revision
    BY <1>1, <1>5, <1>6, <1>10 DEF Stale
  <2> QED
    BY <1>1, <1>3, <1>4, <2>1 DEF Abreast, AbreastOf
<1> QED
  BY <1>1, <1>9, <1>10 DEF Abreast, AbreastOf

LEMMA DiscardAbreast ==
  ASSUME Typed, Abreast, "sync" \notin excused', DiscardDocument
  PROVE  Abreast'
<1>1. UNCHANGED <<conflict, events, server>> /\ Revision' = Revision /\ CallsOK /\ doc # None
  BY DEF DiscardDocument, Revision, Typed
<1>2. CASE UNCHANGED doc
  <2>1. UNCHANGED calls \/ Begin(Call("archive", "sent", doc, 0))
    BY DEF DiscardDocument
  <2>2. \A j \in CallIds : Calm(Revision, doc, calls[j], calls'[j])
    BY <1>1, <2>1, SameCalm, SentCalm, BeginCalm
  <2> QED
    BY <1>1, <1>2, <2>2, CalmAbreast
<1>3. CASE doc' # doc
  <2>1. /\ doc' = None /\ calls' = calls
        /\ ~\E k \in CallIds : calls[k].op = "fetch" /\ calls[k].local = None
    BY <1>3 DEF DiscardDocument, Drop
  <2> QED
    BY <1>1, <2>1 DEF Abreast, AbreastOf
<1> QED
  BY <1>2, <1>3

LEMMA SaveInternalAbreast ==
  ASSUME Typed, Abreast, online, NEW k \in CallIds, ~Brings(Revision, calls[k]), doc # None,
         NEW base, NEW force, SaveInternal(k, doc, base, force), UNCHANGED <<doc, events, server>>,
         conflict' \in {conflict, None}
  PROVE  Abreast'
<1> DEFINE op == IF known \/ base > 0 THEN IF force THEN "force" ELSE "save" ELSE "publish"
           call == Call(op, "sent", doc, base)
<1>1. Become(k, call)
  BY DEF SaveInternal
<1>2. ~StaleCall(Revision, doc, call)
  BY SentCalm
<1> HIDE DEF call
<1>3. \A j \in CallIds : Calm(Revision, doc, calls[j], calls'[j])
  BY <1>1, <1>2, BecomeCalm DEF Calm, Typed
<1> QED
  BY <1>3, CalmAbreast

LEMMA UserAbreast ==
  ASSUME Typed, Typed', Honest, Honest', Abreast, online, server.live, "sync" \notin excused', User
  PROVE  Abreast'
<1>1. doc \in DocType \cup {None} /\ CallsOK /\ Exists
  BY DEF Typed, LocalOK, ServerOK
<1>2. ASSUME UpdateContent(count["typed"] + 1)
      PROVE  Abreast'
  <2>1. count["typed"] \in Nat /\ count["typed"] < MaxTyped
    BY <1>2, CountTypes, SyncAssumption DEF UpdateContent, Bounded, Typed, RestOK
  <2>2. count["typed"] + 1 \in Contents
    BY <2>1, SyncAssumption DEF Contents
  <2> QED
    BY <1>2, <2>2, UpdateAbreast
<1>3. ASSUME doc # None, UpdateContent(doc.saved)
      PROVE  Abreast'
  <2>1. doc.saved \in Contents
    BY <1>1, <1>3, DocFields
  <2> QED
    BY <1>3, <2>1, UpdateAbreast
<1>4. ASSUME SaveDocument \/ ResolveKeep
      PROVE  Abreast'
  <2>1. /\ doc # None /\ MayCall /\ UNCHANGED <<doc, events, server>> /\ conflict' \in {conflict, None}
        /\ \E base, force : SaveInternal(Slot, doc, base, force)
    BY <1>4 DEF SaveDocument, ResolveKeep
  <2>2. Slot \in CallIds /\ ~Brings(Revision, calls[Slot])
    BY <2>1, SlotIsFree DEF Brings
  <2> QED
    BY <2>1, <2>2, SaveInternalAbreast
<1>5. ASSUME RenameDocument
      PROVE  Abreast'
  <2> DEFINE op == IF known \/ doc.rev > 0 THEN "save" ELSE "publish"
             call == Call(op, "sent", [doc EXCEPT !.at = Now], doc.rev)
  <2>1. /\ doc \in DocType /\ doc # None /\ doc' = [doc EXCEPT !.at = Now] /\ Now \in Nat
        /\ UNCHANGED <<conflict, events, server>>
        /\ UNCHANGED calls \/ (MayCall /\ Become(Slot, call))
    BY <1>1, <1>5 DEF RenameDocument, Typed, RestOK, Now
  <2>2. doc' \in DocType /\ doc'.held = doc.held /\ doc'.rev = doc.rev
    BY <2>1 DEF DocType
  <2>3. doc' # None
    BY <2>2, NoneAssumption
  <2>4. ~StaleCall(Revision, doc, call)
    BY SentCalm
  <2> HIDE DEF call
  <2>5. \A j \in CallIds : Calm(Revision, doc, calls[j], calls'[j])
    BY <1>1, <2>1, <2>4, SameCalm, BeginCalm DEF Begin, Become
  <2> QED
    BY <2>1, <2>2, <2>3, <2>5, CalmAbreast
<1>6. ASSUME RevertDocument
      PROVE  Abreast'
  <2>1. /\ doc \in DocType /\ doc # None /\ doc' = [doc EXCEPT !.cur = doc.saved, !.dirty = FALSE]
        /\ UNCHANGED <<conflict, events, server, calls>>
    BY <1>1, <1>6 DEF RevertDocument
  <2>2. doc' \in DocType /\ doc'.held = doc.held /\ doc'.rev = doc.rev
    BY <2>1 DEF DocType
  <2>3. doc' # None
    BY <2>2, NoneAssumption
  <2> QED
    BY <2>1, <2>2, <2>3, SameCalm, CalmAbreast
<1>7. ASSUME ReleaseModel
      PROVE  Abreast'
  BY <1>7, SameCalm, CalmAbreast DEF ReleaseModel
<1>8. ASSUME NEW shared \in BOOLEAN, CreateDocument(shared)
      PROVE  Abreast'
  BY <1>1, <1>8 DEF CreateDocument
<1> QED
  BY <1>2, <1>3, <1>4, <1>5, <1>6, <1>7, <1>8, ReloadAbreast, DiscardAbreast DEF User

(* What others and the server do is announced, or is the answer to come.   *)
LEMMA OthersAbreast ==
  ASSUME Typed, online, server'.live, OtherSaves \/ OtherArchives
  PROVE  Abreast'
<1>1. OtherSaves
  BY DEF OtherArchives, Typed, ServerOK, ServerType
<1> DEFINE e == [rev |-> Len(server'.hist) - 1, archived |-> FALSE]
<1>2. e \in events' /\ ~e.archived /\ e.rev = Revision'
  BY <1>1 DEF OtherSaves, Announce, Revision
<1> HIDE DEF e
<1> QED
  BY <1>2 DEF Abreast, AbreastOf

LEMMA AnswerCalm ==
  ASSUME Typed, NEW k \in CallIds, NEW kind, NEW value, calls[k].pc = "sent", Answer(k, kind, value),
         NEW r, NEW d,
         calls[k].op \in {"fetch", "sync"} => value # None /\ value.rev = r,
         calls[k].op = "fetch" => kind = "document" /\ ~Stale(r, d, value.rev),
         calls[k].op \in {"save", "force"} /\ kind \in {"document", "conflict"}
         => ~Stale(r, d, value.rev),
         calls[k].op = "publish" => kind # "created"
  PROVE  \A j \in CallIds : Calm(r, d, calls[j], calls'[j])
<1> DEFINE reply == [kind |-> kind, value |-> value]
           call == [calls[k] EXCEPT !.pc = "answered", !.reply = reply]
<1>1. calls[k] \in CallType
  BY DEF Typed, CallsOK
<1>2. call.op = calls[k].op /\ call.pc = "answered"
      /\ call.reply.kind = kind /\ call.reply.value = value
  BY <1>1 DEF CallType
<1>3. Become(k, call)
  BY DEF Answer
<1> HIDE DEF call
<1>4. ~StaleCall(r, d, call)
  BY <1>2 DEF StaleCall
<1>5. Brings(r, calls[k]) => Brings(r, call)
  BY <1>2 DEF Brings
<1> QED
  BY <1>3, <1>4, <1>5, BecomeCalm DEF Calm, Typed

LEMMA ServeAbreast ==
  ASSUME Typed, Typed', Honest', server.live => Abreast, server'.live, NEW k \in CallIds, Serve(k)
  PROVE  Abreast'
<1>1. /\ calls[k] \in CallType /\ calls[k].pc = "sent" /\ CallsOK
      /\ UNCHANGED <<doc, conflict, events>>
  BY DEF Serve, ServeSave, ServeCreate, ServeGet, ServeList, ServeArchive, Asked, Typed, CallsOK,
         local
<1>2. server.live => /\ Current \in Snapshot /\ Current # None /\ Current.rev = Revision
                     /\ Revision \in Nat /\ \A d : ~Stale(Revision, d, Current.rev)
  BY CurrentTypes, NoneAssumption DEF Typed, ServerOK, Stale
<1>3. CASE ServeSave(k)
  <2>1. calls[k].op \in {"save", "force"} /\ server.live
    BY <1>3 DEF ServeSave, Asked
  <2>2. CASE Answer(k, "conflict", Current) /\ UNCHANGED server
    <3>1. \A j \in CallIds : Calm(Revision, doc, calls[j], calls'[j])
      BY <1>1, <1>2, <2>1, <2>2, AnswerCalm
    <3> QED
      BY <1>1, <2>1, <2>2, <3>1, CalmAbreast
  <2>3. CASE /\ Stores(calls[k].local.cur)
             /\ Answer(k, "document", [rev |-> Revision + 1, content |-> calls[k].local.cur, at |-> clock])
    <3> DEFINE stored == [rev |-> Revision + 1, content |-> calls[k].local.cur, at |-> clock]
               reply == [kind |-> "document", value |-> stored]
               call == [calls[k] EXCEPT !.pc = "answered", !.reply = reply]
    <3>1. calls[k].local.cur \in Contents
      <4>1. calls[k].local \in DocType
        BY <2>1 DEF Typed, CallsOK, Placed
      <4> QED
        BY <4>1, DocFields
    <3>2. Revision' = Revision + 1
      BY <2>3, <3>1, StoreTypes, RevisionIs DEF Revision
    <3>3. stored \in Snapshot
      BY <1>2, <2>1, <3>1 DEF Snapshot, Typed, RestOK
    <3>4. call.op = calls[k].op /\ call.pc = "answered" /\ call.reply.kind = "document"
          /\ call.reply.value = stored /\ stored.rev = Revision + 1
      BY <1>1 DEF CallType
    <3>5. calls'[k] = call
      BY <1>1, <2>3 DEF Answer, Become, CallsOK
    <3>6. stored # None
      BY <3>3, NoneAssumption
    <3> HIDE DEF call, stored, reply
    <3>7. Brings(Revision', calls'[k])
      BY <2>1, <3>2, <3>4, <3>5, <3>6 DEF Brings
    <3> QED
      BY <3>7 DEF Abreast, AbreastOf
  <2> QED
    BY <1>3, <2>1, <2>2, <2>3 DEF ServeSave
<1>4. CASE ServeCreate(k)
  <2>1. calls[k].op \in {"publish", "create"} /\ calls[k].local \in DocType
    BY <1>4 DEF ServeCreate, Asked, Typed, CallsOK, Placed
  <2>2. CASE Exists
    <3>1. Answer(k, "existed", None) /\ UNCHANGED server
      BY <1>4, <2>2 DEF ServeCreate
    <3>2. \A j \in CallIds : Calm(Revision, doc, calls[j], calls'[j])
      <4>1. calls[k].op \notin {"fetch", "sync", "save", "force"}
        BY <2>1
      <4>2. \A value : /\ calls[k].op \in {"fetch", "sync"} => value # None /\ value.rev = Revision
                       /\ calls[k].op = "fetch" => FALSE
                       /\ calls[k].op \in {"save", "force"} => ~Stale(Revision, doc, value.rev)
        BY <4>1
      <4>3. "existed" # "created"
        OBVIOUS
      <4> QED
        BY <1>1, <3>1, <4>2, <4>3, AnswerCalm
    <3> QED
      BY <1>1, <3>1, <3>2, CalmAbreast
  <2>3. CASE ~Exists
    <3> DEFINE content == IF calls[k].op = "publish" THEN calls[k].local.cur ELSE calls[k].local.saved
    <3>1. content \in Contents /\ Stores(content) /\ Len(server.hist) = 0
      BY <1>4, <2>1, <2>3, DocFields DEF ServeCreate, Exists
    <3> HIDE DEF content
    <3>2. Len(server'.hist) = 1 /\ Revision' = 0
      BY <3>1, StoreTypes DEF Revision
    <3>3. AbreastOf(0, doc', conflict', events', calls')
      BY <3>2, FirstAbreast DEF Typed, LocalOK, CallsOK, ServerOK, ServerType, RestOK, Honest
    <3> QED
      BY <3>2, <3>3 DEF Abreast
  <2> QED
    BY <2>2, <2>3
<1>5. CASE ServeGet(k) \/ ServeList(k)
  <2>1. /\ server.live /\ UNCHANGED server
        /\ \/ calls[k].op = "fetch" /\ Answer(k, "document", Current)
           \/ calls[k].op = "sync" /\ Answer(k, "list", Current)
    BY <1>5 DEF ServeGet, ServeList, Asked
  <2>2. \A j \in CallIds : Calm(Revision, doc, calls[j], calls'[j])
    BY <1>1, <1>2, <2>1, AnswerCalm
  <2> QED
    BY <1>1, <2>1, <2>2, CalmAbreast
<1>6. CASE ServeArchive(k)
  BY <1>6 DEF ServeArchive, Typed, ServerOK, ServerType
<1> QED
  BY <1>3, <1>4, <1>5, <1>6 DEF Serve
(* What the tab does with the answers.                                     *)
LEMMA EndAbreast ==
  ASSUME Typed, Abreast, NEW k \in CallIds, End(k), ~Brings(Revision, calls[k]),
         UNCHANGED <<doc, conflict, events, server>>
  PROVE  Abreast'
  BY EndCalm, CalmAbreast DEF Typed

LEMMA NewBanner ==
  ASSUME NEW r, NEW d, NEW b, NEW a, NEW es, NEW cs, AbreastOf(r, d, b, es, cs),
         (\A k \in CallIds : ~StaleCall(r, d, cs[k])) => (a # None => ~Stale(r, d, a.rev))
  PROVE  AbreastOf(r, d, a, es, cs)
  BY DEF AbreastOf

LEMMA SaveAnsweredAbreast ==
  ASSUME Typed, Honest, Informed, Abreast, NEW k \in CallIds, SaveAnswered(k)
  PROVE  Abreast'
<1> DEFINE reply == calls[k].reply
           rev == IF reply.kind = "document" THEN reply.value.rev ELSE 0
           held == reply.kind # "existed"
<1>1. /\ calls[k] \in CallType /\ Placed(calls[k]) /\ CallsOK
      /\ calls[k].op \in {"save", "force", "publish"} /\ calls[k].pc = "answered"
      /\ HonestCall(server.hist, calls[k]) /\ TrueCall(server, calls[k])
      /\ UNCHANGED <<doc, events, server>>
  BY DEF SaveAnswered, Answered, Typed, CallsOK, Honest, HonestCalls, Informed
<1>2. CASE reply.kind \in {"document", "created", "existed"}
  <2> DEFINE stored == [rev |-> rev, content |-> calls[k].local.cur, at |-> Now]
             answer == [kind |-> IF held THEN "document" ELSE "none", value |-> stored]
             call == [Call("save", "storing", calls[k].local, 0) EXCEPT !.reply = answer]
  <2>1. Become(k, call) /\ conflict' = conflict
    BY <1>2 DEF SaveAnswered, StoreSave
  <2>2. /\ call.op = "save" /\ call.pc = "storing" /\ call.reply.value.rev = rev
        /\ call.reply.kind = IF held THEN "document" ELSE "none"
    BY DEF Call
  <2>3. rev \in Nat
    BY <1>1 DEF Placed, Snapshot
  <2>4. call.reply.value # None
    <3>1. calls[k].local.cur \in Contents /\ Now \in Nat
      BY <1>1, DocFields DEF Placed, Now, Typed, RestOK
    <3>2. stored \in Snapshot
      BY <2>3, <3>1 DEF Snapshot
    <3>3. call.reply.value = stored
      BY DEF Call
    <3> QED
      BY <3>2, <3>3, NoneAssumption
  <2> HIDE DEF call
  <2>5. Brings(Revision, calls[k]) => Brings(Revision, call)
    BY <1>1, <2>2, <2>4 DEF Brings
  <2>6. StaleCall(Revision, doc, call) => StaleCall(Revision, doc, calls[k])
    <3>1. StaleCall(Revision, doc, call) => held /\ Stale(Revision, doc, rev)
      BY <2>2 DEF StaleCall
    <3>2. held /\ reply.kind = "document" => calls[k].op \in {"save", "force"}
      BY <1>1 DEF TrueCall
    <3>3. held /\ reply.kind # "document" => calls[k].op = "publish" /\ reply.kind = "created" /\ rev = 0
      BY <1>1, <1>2 DEF HonestCall
    <3> QED
      BY <1>1, <3>1, <3>2, <3>3 DEF StaleCall
  <2>7. Calm(Revision, doc, calls[k], call)
    BY <2>2, <2>5, <2>6 DEF Calm
  <2> QED
    BY <1>1, <2>1, <2>7, BecomeCalm, CalmAbreast
<1>3. CASE reply.kind \notin {"document", "created", "existed"}
  <2>1. End(k) /\ conflict' = IF reply.kind = "conflict" THEN reply.value ELSE conflict
    BY <1>3 DEF SaveAnswered
  <2>2. ~Brings(Revision, calls[k])
    BY <1>1, <1>3 DEF Brings
  <2>3. reply.kind = "conflict" => calls[k].op \in {"save", "force"}
    BY <1>1 DEF TrueCall
  <2>4. AbreastOf(Revision, doc, conflict', events, calls)
    <3>1. reply.kind = "conflict" /\ ~StaleCall(Revision, doc, calls[k]) => ~Stale(Revision, doc, reply.value.rev)
      BY <1>1, <2>3 DEF StaleCall
    <3>2. CASE reply.kind # "conflict"
      BY <2>1, <3>2 DEF Abreast
    <3>3. CASE reply.kind = "conflict"
      <4>1. conflict' = reply.value
        BY <2>1, <3>3
      <4> QED
        BY <3>1, <3>3, <4>1, NewBanner DEF Abreast
    <3> QED
      BY <3>2, <3>3
  <2>5. \A j \in CallIds : Calm(Revision, doc, calls[j], calls'[j])
    BY <1>1, <2>1, <2>2, EndCalm
  <2>6. AbreastOf(Revision, doc, conflict', events, calls')
    BY <2>4, <2>5, AbreastStays
  <2>7. Revision' = Revision
    BY <1>1 DEF Revision
  <2> QED
    BY <1>1, <2>6, <2>7 DEF Abreast
<1> QED
  BY <1>2, <1>3

(* What comes apart from a call stays when the call ends.                  *)
LEMMA OthersBring ==
  ASSUME Typed, NEW k \in CallIds, NEW call, Become(k, call), UNCHANGED <<events, server>>,
         \/ \E e \in events : ~e.archived /\ e.rev = Revision
         \/ \E j \in CallIds : j # k /\ Brings(Revision, calls[j])
  PROVE  Abreast'
<1>1. Revision' = Revision /\ \A j \in CallIds : j # k => calls'[j] = calls[j]
  BY DEF Become, Revision, Typed, CallsOK
<1> QED
  BY <1>1 DEF Abreast, AbreastOf

LEMMA AdoptAbreast ==
  ASSUME Typed, Typed', Honest, Informed, Abreast, "sync" \notin excused', NEW k \in CallIds, Adopt(k)
  PROVE  Abreast'
<1> DEFINE read == calls[k].local
           got == calls[k].reply.value
           adopted == IF read = None THEN Fetched(got) ELSE Adopted(read, got)
<1>1. /\ calls[k] \in CallType /\ Placed(calls[k]) /\ CallsOK
      /\ calls[k].op = "fetch" /\ calls[k].pc = "answered" /\ End(k)
      /\ HonestCall(server.hist, calls[k]) /\ TrueCall(server, calls[k])
      /\ UNCHANGED <<events, server>> /\ Revision' = Revision
      /\ read \in DocType \cup {None}
  BY DEF Adopt, Answered, Typed, CallsOK, CallType, Honest, HonestCalls, Informed, Revision
<1>2. CASE calls[k].reply.kind = "missing"
  <2>1. UNCHANGED <<doc, conflict>> /\ ~Brings(Revision, calls[k])
    BY <1>1, <1>2 DEF Adopt, local, Brings
  <2> QED
    BY <1>1, <2>1, EndAbreast
<1>3. CASE calls[k].reply.kind # "missing"
  <2>1. /\ calls[k].reply.kind = "document" /\ got \in Snapshot /\ got.rev \in Nat
        /\ got.rev <= Revision /\ Revision \in Int /\ Revision = Len(server.hist) - 1
        /\ Len(server.hist) \in Nat
    <3>1. calls[k].reply.kind = "document" /\ got \in Snapshot
      BY <1>1, <1>3 DEF Placed
    <3>2. got.rev \in Nat /\ In(server.hist, got.rev, got.content)
      BY <1>1, <3>1 DEF Snapshot, HonestCall
    <3> QED
      BY <3>1, <3>2, RevisionIs, RevisionsIn
  <2>2. doc = read
    BY <1>3 DEF Adopt, WriteBack, Raced, Promises
  <2>3. doc'.rev = got.rev /\ doc'.held = TRUE /\ doc' # None
    <3>1. CASE Clean(read)
      <4>1. doc' = adopted
        BY <1>3, <3>1 DEF Adopt, WriteBack
      <4>2. doc' \in DocType
        BY <1>1, <2>1, <4>1, AdoptTypes
      <4> QED
        BY <1>1, <4>1, <4>2, NoneAssumption DEF Fetched, Adopted, DocType
    <3>2. CASE ~Clean(read)
      <4>1. doc' = [read EXCEPT !.saved = got.content, !.rev = got.rev, !.held = TRUE]
        BY <1>3, <3>2 DEF Adopt, WriteBack
      <4>2. read \in DocType
        BY <1>1, <3>2 DEF Clean
      <4>3. doc' \in DocType
        BY <2>1, <4>1, <4>2 DEF DocType, Snapshot
      <4> QED
        BY <4>1, <4>2, <4>3, NoneAssumption DEF DocType
    <3> QED
      BY <3>1, <3>2
  <2>4. CASE \/ \E e \in events : ~e.archived /\ e.rev = Revision
             \/ \E j \in CallIds : j # k /\ Brings(Revision, calls[j])
    BY <1>1, <2>4, OthersBring DEF End
  <2>5. ASSUME got.rev = Revision
        PROVE  Abreast'
    BY <1>1, <2>3, <2>5 DEF Abreast, AbreastOf
  <2>6. Brings(Revision, calls[k]) => got.rev = Revision
    BY <1>1 DEF Brings
  <2>7. StaleCall(Revision, doc, calls[k]) <=> Stale(Revision, doc, got.rev)
    BY <1>1, <2>1 DEF StaleCall
  <2>8. CASE doc = None /\ ~StaleCall(Revision, doc, calls[k])
    <3>1. got.rev = Revision
      BY <2>1, <2>7, <2>8 DEF Stale
    <3> QED
      BY <2>5, <3>1
  <2>9. CASE doc # None /\ (doc.rev = Revision \/ ~StaleCall(Revision, doc, calls[k]))
    <3>1. /\ doc.rev \in Nat /\ doc.rev + 1 < Len(server.hist) /\ doc.rev < got.rev
      BY <1>1, <2>1, <2>2, <2>9, DocFields DEF TrueCall
    <3>2. got.rev = Revision
      BY <2>1, <2>7, <2>9, <3>1 DEF Stale
    <3> QED
      BY <2>5, <3>2
  <2> QED
    BY <1>1, <2>2, <2>4, <2>5, <2>6, <2>8, <2>9 DEF Abreast, AbreastOf
<1> QED
  BY <1>2, <1>3

LEMMA StaleBefore ==
  ASSUME NEW r, NEW d \in DocType, NEW e \in DocType, e.rev >= d.rev
  PROVE  /\ \A rev \in Nat : Stale(r, e, rev) => Stale(r, d, rev)
         /\ \A c \in CallType : Placed(c) /\ StaleCall(r, e, c) => StaleCall(r, d, c)
<1>1. \A rev \in Nat : Stale(r, e, rev) => Stale(r, d, rev)
  BY DocFields, NoneAssumption DEF Stale
<1>2. ASSUME NEW c \in CallType, Placed(c), StaleCall(r, e, c)
      PROVE  StaleCall(r, d, c)
  <2>1. /\ c.op \in {"fetch", "save", "force"} /\ c.pc # "sent"
        /\ c.reply.kind \in {"document", "conflict"}
        => c.reply.value.rev \in Nat
    BY <1>2 DEF Placed, CallType, Snapshot
  <2> QED
    BY <1>1, <1>2, <2>1, 0 \in Nat DEF StaleCall
<1> QED
  BY <1>1, <1>2

LEMMA FinishSaveAbreast ==
  ASSUME Typed, Typed', Honest, Honest', Abreast, "sync" \notin excused', NEW k \in CallIds,
         FinishSave(k)
  PROVE  Abreast'
<1> DEFINE stored == calls[k].reply.value
           asked == calls[k].reply.kind = "document"
<1>1. /\ calls[k] \in CallType /\ Placed(calls[k]) /\ calls[k].op = "save" /\ calls[k].pc = "storing"
      /\ End(k) /\ UNCHANGED <<conflict, events, server>> /\ Revision' = Revision
      /\ server.hist \in Seq(Contents) /\ Revision = Len(server.hist) - 1 /\ Revision \in Int
  BY RevisionIs DEF FinishSave, Typed, CallsOK, Revision
<1>2. /\ doc = calls[k].local /\ doc \in DocType /\ doc # None /\ doc.rev \in Nat
      /\ stored \in Snapshot /\ stored.rev \in Nat
  <2>1. doc = calls[k].local
    BY DEF FinishSave, Raced, Promises
  <2>2. calls[k].local \in DocType /\ stored \in Snapshot
    BY <1>1 DEF Placed
  <2> QED
    BY <2>1, <2>2, DocFields, NoneAssumption DEF Snapshot
<1>3. doc' = [doc EXCEPT !.saved = stored.content, !.rev = stored.rev, !.dirty = FALSE,
                         !.at = stored.at, !.held = asked]
  BY <1>2 DEF FinishSave
<1>4. doc' \in DocType /\ doc'.rev = stored.rev /\ doc'.held = asked /\ doc' # None
  <2>1. stored.content \in Contents /\ stored.at \in Nat /\ asked \in BOOLEAN
    BY <1>2 DEF Snapshot
  <2>2. doc' \in DocType
    BY <1>2, <1>3, <2>1 DEF DocType
  <2> QED
    BY <1>2, <1>3, <2>2, NoneAssumption DEF DocType
<1>5. stored.rev < doc.rev => asked /\ stored.rev = Revision
  BY <1>2 DEF FinishSave, Outdated
<1>6. ASSUME stored.rev >= Revision
      PROVE  Abreast'
  <2>1. AbreastOf(Revision, doc', conflict', events', calls')
    BY <1>1, <1>4, <1>6, AheadAbreast DEF Typed, CallsOK, RestOK, Honest
  <2> QED
    BY <1>1, <2>1 DEF Abreast
<1>7. CASE \/ \E e \in events : ~e.archived /\ e.rev = Revision
           \/ \E j \in CallIds : j # k /\ Brings(Revision, calls[j])
  BY <1>1, <1>7, OthersBring DEF End
<1>8. CASE Brings(Revision, calls[k]) \/ doc.rev = Revision
  <2>1. Brings(Revision, calls[k]) => stored.rev = Revision
    BY <1>1 DEF Brings
  <2>2. stored.rev >= Revision
    BY <1>1, <1>2, <1>5, <1>8, <2>1
  <2> QED
    BY <1>6, <2>2
<1>9. CASE /\ ~doc.held
           /\ conflict # None => ~Stale(Revision, doc, conflict.rev)
           /\ \A j \in CallIds : ~StaleCall(Revision, doc, calls[j])
  <2>1. CASE asked
    <3>1. ~Stale(Revision, doc, stored.rev)
      BY <1>1, <1>9, <2>1 DEF StaleCall
    <3>2. stored.rev >= Revision
      BY <1>1, <1>2, <1>5, <3>1 DEF Stale
    <3> QED
      BY <1>6, <3>2
  <2>2. CASE ~asked
    <3>1. stored.rev >= doc.rev
      BY <1>2, <1>5, <2>2
    <3>2. \A j \in CallIds : ~StaleCall(Revision, doc', calls'[j])
      <4>1. \A j \in CallIds : calls'[j] \in {calls[j], Idle}
        BY <1>1 DEF End, Become, Typed, CallsOK
      <4>2. ~StaleCall(Revision, doc', Idle)
        BY DEF StaleCall, Idle
      <4>3. \A j \in CallIds : ~StaleCall(Revision, doc', calls[j])
        <5> SUFFICES ASSUME NEW j \in CallIds, StaleCall(Revision, doc', calls[j]) PROVE FALSE
          OBVIOUS
        <5>1. calls[j] \in CallType /\ Placed(calls[j]) /\ doc'.rev >= doc.rev
          BY <1>4, <3>1 DEF Typed, CallsOK
        <5>2. StaleCall(Revision, doc, calls[j])
          BY <1>2, <1>4, <5>1, StaleBefore
        <5> QED
          BY <1>9, <5>2
      <4> QED
        BY <4>1, <4>2, <4>3
    <3>3. conflict # None => ~Stale(Revision, doc', conflict.rev)
      <4>1. conflict # None => conflict.rev \in Nat
        BY DEF Typed, RestOK, Snapshot
      <4>2. doc'.rev >= doc.rev
        BY <1>4, <3>1
      <4> QED
        BY <1>2, <1>4, <1>9, <4>1, <4>2, StaleBefore
    <3> QED
      BY <1>1, <1>4, <2>2, <3>2, <3>3 DEF Abreast, AbreastOf
  <2> QED
    BY <2>1, <2>2
<1> QED
  BY <1>2, <1>7, <1>8, <1>9 DEF Abreast, AbreastOf

LEMMA SyncAbreast ==
  ASSUME Typed, Typed', Honest, Honest', Informed, Abreast, NEW k \in CallIds, SyncFromServer(k)
  PROVE  Abreast'
<1> DEFINE list == calls[k].reply.value
<1>1. /\ calls[k].op = "sync" /\ calls[k].pc = "answered" /\ online /\ CallsOK
      /\ UNCHANGED <<conflict, events, server>> /\ Revision' = Revision
      /\ server.hist \in Seq(Contents) /\ Revision = Len(server.hist) - 1 /\ Revision \in Int
      /\ doc \in DocType \cup {None}
  BY RevisionIs DEF SyncFromServer, Answered, Typed, LocalOK, Revision
<1>2. Brings(Revision, calls[k]) <=> list # None /\ list.rev = Revision
  BY <1>1 DEF Brings
<1>3. doc # None => doc.rev \in Nat
  BY <1>1, DocFields
<1>4. ASSUME doc' \in DocType, doc'.rev >= Revision
      PROVE  Abreast'
  <2>1. AbreastOf(Revision, doc', conflict', events', calls')
    BY <1>1, <1>4, AheadAbreast DEF Typed, CallsOK, RestOK, Honest
  <2> QED
    BY <1>1, <2>1 DEF Abreast
<1>5. CASE Become(k, Call("fetch", "sent", doc, 0)) /\ UNCHANGED local
  <2>1. Calm(Revision, doc, calls[k], Call("fetch", "sent", doc, 0))
    BY SentCalm DEF Calm
  <2>2. \A j \in CallIds : Calm(Revision, doc, calls[j], calls'[j])
    BY <1>1, <1>5, <2>1, BecomeCalm
  <2> QED
    BY <1>1, <1>5, <2>2, CalmAbreast DEF local
<1>6. CASE /\ list # None /\ doc # None /\ doc.rev > list.rev
           /\ SaveInternal(k, doc, doc.rev, FALSE) /\ UNCHANGED doc
  <2>1. CASE Brings(Revision, calls[k])
    BY <1>1, <1>2, <1>3, <1>4, <1>6, <2>1
  <2>2. CASE ~Brings(Revision, calls[k])
    BY <1>1, <1>6, <2>2, SaveInternalAbreast
  <2> QED
    BY <2>1, <2>2
<1>7. CASE /\ list # None /\ doc # None /\ doc.rev = list.rev
           /\ doc' = [doc EXCEPT !.shared = TRUE]
           /\ End(k)
  <2>1. doc' \in DocType /\ doc'.rev = doc.rev /\ doc'.held = doc.held
    BY <1>1, <1>7 DEF DocType
  <2>2. doc' # None
    BY <2>1, NoneAssumption
  <2>3. CASE Brings(Revision, calls[k])
    BY <1>1, <1>2, <1>3, <1>4, <1>7, <2>1, <2>3
  <2>4. CASE ~Brings(Revision, calls[k])
    <3>1. \A j \in CallIds : Calm(Revision, doc, calls[j], calls'[j])
      BY <1>1, <1>7, <2>4, EndCalm
    <3> QED
      BY <1>1, <1>7, <2>1, <2>2, <3>1, CalmAbreast
  <2> QED
    BY <2>3, <2>4
<1>8. CASE list = None /\ Become(k, Call("create", "sent", doc, 0)) /\ UNCHANGED local
  <2>1. Calm(Revision, doc, calls[k], Call("create", "sent", doc, 0))
    BY <1>2, <1>8, SentCalm DEF Calm
  <2>2. \A j \in CallIds : Calm(Revision, doc, calls[j], calls'[j])
    BY <1>1, <1>8, <2>1, BecomeCalm
  <2> QED
    BY <1>1, <1>8, <2>2, CalmAbreast DEF local
<1>9. CASE ~(list # None /\ (doc = None \/ Behind(list.rev))) /\ End(k) /\ UNCHANGED local
  <2>1. doc' = doc
    BY <1>9 DEF local
  <2>2. CASE Brings(Revision, calls[k])
    <3>1. doc # None /\ doc.rev >= Revision
      BY <1>1, <1>2, <1>3, <1>9, <2>2 DEF Behind
    <3> QED
      BY <1>1, <1>4, <2>1, <3>1
  <2>3. CASE ~Brings(Revision, calls[k])
    BY <1>1, <1>9, <2>1, <2>3, EndAbreast
  <2> QED
    BY <2>2, <2>3
<1>10. \/ Become(k, Call("fetch", "sent", doc, 0)) /\ UNCHANGED local
       \/ /\ list # None /\ doc # None /\ doc.rev > list.rev
          /\ SaveInternal(k, doc, doc.rev, FALSE) /\ UNCHANGED doc
       \/ /\ list # None /\ doc # None /\ doc.rev = list.rev
          /\ doc' = [doc EXCEPT !.shared = TRUE]
          /\ End(k)
       \/ list = None /\ Become(k, Call("create", "sent", doc, 0)) /\ UNCHANGED local
       \/ ~(list # None /\ (doc = None \/ Behind(list.rev))) /\ End(k) /\ UNCHANGED local
  BY DEF SyncFromServer
<1> QED
  BY <1>5, <1>6, <1>7, <1>8, <1>9, <1>10

LEMMA ProceedAbreast ==
  ASSUME Typed, Typed', Honest, Honest', Informed, Abreast, online, server.live,
         "sync" \notin excused', NEW k \in CallIds, Proceed(k)
  PROVE  Abreast'
<1>1. ASSUME CreateAnswered(k) \/ FinishReload(k)
      PROVE  Abreast'
  <2>1. calls[k].op \in {"create", "reload"} /\ End(k) /\ UNCHANGED <<doc, conflict, events, server>>
    BY <1>1 DEF CreateAnswered, FinishReload, Answered, local
  <2>2. ~Brings(Revision, calls[k])
    BY <2>1 DEF Brings
  <2> QED
    BY <2>1, <2>2, EndAbreast
<1>2. ~ArchiveAnswered(k)
  BY DEF ArchiveAnswered, Answered, Informed, TrueCall
<1>3. ~RequestFails(k)
  BY DEF RequestFails
<1> QED
  BY <1>1, <1>2, <1>3, SaveAnsweredAbreast, AdoptAbreast, FinishSaveAbreast, SyncAbreast DEF Proceed

(* A change is fetched, or is not news.                                    *)
LEMMA ChangeAbreast ==
  ASSUME Typed, Typed', Honest, Honest', Informed, Abreast, server.live, "sync" \notin excused',
         NEW e \in events, ApplyServerChange(e)
  PROVE  Abreast'
<1>1. /\ doc \in DocType \cup {None} /\ CallsOK /\ e.rev \in Nat
      /\ UNCHANGED <<conflict, server>> /\ Revision' = Revision /\ events' = events \ {e}
      /\ server.hist \in Seq(Contents) /\ Revision = Len(server.hist) - 1 /\ Revision \in Int
  BY RevisionIs DEF ApplyServerChange, Typed, LocalOK, RestOK, Events, Revision
<1>2. ~e.archived
  BY DEF Informed, TrueEvent, Archived
<1>3. /\ UNCHANGED doc
      /\ doc # None /\ Behind(e.rev) => doc.shared
      /\ IF doc = None \/ (doc.shared /\ Behind(e.rev))
         THEN Begin(Call("fetch", "sent", doc, 0)) ELSE UNCHANGED calls
  BY <1>2 DEF ApplyServerChange
<1>4. CASE doc = None \/ Behind(e.rev)
  <2>1. Begin(Call("fetch", "sent", doc, 0))
    BY <1>3, <1>4
  <2>2. Brings(Revision', Call("fetch", "sent", doc, 0))
    BY SentCalm
  <2>3. Slot \in CallIds /\ calls'[Slot] = Call("fetch", "sent", doc, 0)
    BY <1>1, <2>1, SlotIsFree DEF Begin, CallsOK
  <2> QED
    BY <2>2, <2>3 DEF Abreast, AbreastOf
<1>5. CASE doc # None /\ ~Behind(e.rev)
  <2>1. UNCHANGED calls /\ doc.rev \in Nat /\ doc.rev >= e.rev /\ doc \in DocType
    BY <1>1, <1>3, <1>5, DocFields DEF Behind
  <2>2. CASE e.rev = Revision
    <3>1. /\ HonestDoc(server.hist, doc) /\ doc.rev >= Len(server.hist) - 1
          /\ conflict \in Snapshot \cup {None} /\ calls \in [CallIds -> CallType]
          /\ \A k \in CallIds : Placed(calls[k])
      BY <1>1, <2>1, <2>2 DEF Typed, CallsOK, LocalOK, RestOK, Honest
    <3>2. AbreastOf(Revision, doc, conflict, events', calls)
      BY <1>1, <2>1, <3>1, AheadAbreast
    <3> QED
      BY <1>1, <1>3, <2>1, <3>2 DEF Abreast
  <2>3. CASE e.rev # Revision
    <3>1. \A x \in events : ~x.archived /\ x.rev = Revision => x \in events'
      BY <1>1, <2>3
    <3>2. \A k \in CallIds : Calm(Revision, doc, calls[k], calls[k])
      BY DEF Calm
    <3>3. AbreastOf(Revision, doc, conflict, events', calls)
      BY <1>5, <3>1, <3>2, AbreastStays DEF Abreast
    <3> QED
      BY <1>1, <1>3, <2>1, <3>3 DEF Abreast
  <2> QED
    BY <2>2, <2>3
<1> QED
  BY <1>4, <1>5

LEMMA StepInSync == Typed /\ Honest /\ Informed /\ InSync /\ [Next]_vars => InSync'
<1> SUFFICES ASSUME Typed, Honest, Informed, InSync, [Next]_vars, Connected' PROVE Abreast'
  BY DEF InSync
<1>1. Typed' /\ Honest' /\ "sync" \notin excused /\ online' /\ server'.live /\ "sync" \notin excused'
  BY StepTypes, StepHonest, ExcusesStay DEF Connected
<1>2. online /\ server.live => Abreast
  BY <1>1 DEF InSync, Connected
<1>3. ASSUME Connect
      PROVE  Abreast'
  <2>1. Begin(Call("sync", "sent", None, 0))
    BY <1>3 DEF Connect
  <2>2. Slot \in CallIds /\ calls'[Slot] = Call("sync", "sent", None, 0)
    BY <2>1, SlotIsFree DEF Begin, Typed, CallsOK
  <2>3. Brings(Revision', Call("sync", "sent", None, 0))
    BY SentCalm
  <2> QED
    BY <2>2, <2>3 DEF Abreast, AbreastOf
<1>4. ASSUME User
      PROVE  Abreast'
  <2>1. online' = online /\ server' = server
    BY <1>4 DEF User, CreateDocument, UpdateContent, ReleaseModel, SaveDocument, RenameDocument,
                RevertDocument, ResolveReload, ResolveKeep, DiscardDocument
  <2> QED
    BY <1>1, <1>2, <1>4, <2>1, UserAbreast
<1>5. ASSUME Others
      PROVE  Abreast'
  <2>1. online' = online
    BY <1>5 DEF Others, OtherSaves, OtherArchives
  <2> QED
    BY <1>1, <1>5, <2>1, OthersAbreast DEF Others
<1>6. ASSUME NEW k \in CallIds, Serve(k)
      PROVE  Abreast'
  <2>1. online' = online
    BY <1>6 DEF Serve, ServeSave, ServeCreate, ServeGet, ServeList, ServeArchive
  <2> QED
    BY <1>1, <1>2, <1>6, <2>1, ServeAbreast
<1>7. ASSUME NEW k \in CallIds, Proceed(k)
      PROVE  Abreast'
  <2>1. online' = online /\ server' = server
    BY <1>7 DEF Proceed, SaveAnswered, CreateAnswered, ArchiveAnswered, Adopt, SyncFromServer,
                FinishSave, FinishReload, RequestFails
  <2> QED
    BY <1>1, <1>2, <1>7, <2>1, ProceedAbreast
<1>8. ASSUME NEW e \in events, ApplyServerChange(e)
      PROVE  Abreast'
  <2>1. online' = online /\ server' = server
    BY <1>8 DEF ApplyServerChange
  <2> QED
    BY <1>1, <1>2, <1>8, <2>1, ChangeAbreast
<1>9. ASSUME Checkpoint \/ UNCHANGED vars
      PROVE  Abreast'
  <2>1. UNCHANGED <<doc, conflict, events, calls, server, online>>
    BY <1>9 DEF Checkpoint, vars, local
  <2> QED
    BY <1>1, <1>2, <2>1 DEF Abreast, Revision
<1>10. ~Disconnect /\ ~Restart /\ \A k \in CallIds : ~TimeOut(k)
  BY <1>1 DEF Disconnect, Restart, TimeOut
<1> QED
  BY <1>3, <1>4, <1>5, <1>6, <1>7, <1>8, <1>9, <1>10 DEF Next

(* When nothing is on its way, a connected tab without edits of its own    *)
(* shows what the server has, through overlapping saves, changes, lost     *)
(* connections and restarts, unless one of the mishaps listed with         *)
(* QuietMeansInSync happened                                               *)
(* (apps/web/src/stores/documents.ts: applyServerChange, syncFromServer,   *)
(* fetchServerDocument and saveInternal).                                  *)
THEOREM QuietTabsAreInSync == Spec => []QuietMeansInSync
<1>1. Init => InSync
  BY DEF Init, InSync, Connected
<1> QED
  BY <1>1, InSyncIsEnough, AlwaysTyped, AlwaysHonest, AlwaysTidy, AlwaysInformed, StepInSync, PTL
     DEF Spec
=============================================================================
