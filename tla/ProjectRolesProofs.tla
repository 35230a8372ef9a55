------------------------- MODULE ProjectRolesProofs -------------------------
(***************************************************************************)
(* What holds of members, roles and open sockets for any number of users,  *)
(* roles of a project's own, handlers at once, requests and sockets.       *)
(***************************************************************************)
EXTENDS ProjectRoles, FiniteSetTheorems, WellFoundedInduction, TLAPS

-----------------------------------------------------------------------------
(* Calls.                                                                  *)

(* What a call is asked with and what it knows fits where it awaits; the   *)
(* sockets a refresh is to tell are open.                                  *)
Placed(k) ==
  /\ calls[k].op \in {"set-role", "remove", "add"} => calls[k].user \in Users
  /\ calls[k].op \in {"set-role", "update", "delete"} => calls[k].role \in Roles
  /\ calls[k].op = "add" => calls[k].role \in {"editor", "viewer"}
  /\ calls[k].op = "create" => calls[k].role \in Custom
  /\ At(k, "delete", "write") => calls[k].role \notin Builtins
  /\ calls[k].pc \in {"written", "refresh", "apply"} => calls[k].op \in {"set-role", "update"}
  /\ calls[k].todo \subseteq open
  /\ calls[k].who \in open \cup {None}

Typed == TypeOK /\ \A k \in CallIds : Placed(k)

(* The built-in roles stay, and whoever has a role has one there is.       *)
Kept == Builtins \subseteq roles /\ NobodyHoldsAMissingRole

(* A call that has run alone so far is the only one there is.              *)
Alone ==
  \A k, j \in CallIds :
    calls[k].op # "idle" /\ calls[k].alone /\ j # k => calls[j].op = "idle"

(* What a call that runs alone found is still so.                          *)
Checked(k) ==
  calls[k].alone =>
    /\ At(k, "set-role", "confirm") /\ calls[k].found =>
         \E u \in Members \ {calls[k].user} : Holds(u)
    /\ At(k, "set-role", "write") =>
         \/ \E u \in Members \ {calls[k].user} : Holds(u)
         \/ calls[k].user \in Members /\ calls[k].role \in keyed
    /\ At(k, "remove", "write") =>
         calls[k].user \notin owners \/ \E u \in owners : u # calls[k].user

Vouched == IsFiniteSet(owners) /\ \A k \in CallIds : Checked(k)

(* Of the sockets that are not excused, each carries what its member holds *)
(* or is still to be told by the refresh of the one call there is.         *)
Pending(k, u) ==
  /\ calls[k].alone
  /\ \/ calls[k].pc = "written"
     \/ calls[k].pc \in {"refresh", "apply"} /\ u \in calls[k].todo

OfMembers == \A u \in open \cup opening : u \notin excused => u \in Members
OpeningMissed == Active # {} => opening \subseteq excused
CrowdMissed == \A k \in Active : ~calls[k].alone => open \subseteq excused
UpToDate ==
  \A u \in (open \cup opening) \ excused : Fresh(u) \/ \E k \in Active : Pending(k, u)
Telling(k) ==
  calls[k].pc = "apply" /\ calls[k].who \notin excused \cup {None} =>
    calls[k].has = Holds(calls[k].who)

Followed ==
  OfMembers /\ OpeningMissed /\ CrowdMissed /\ UpToDate /\ \A k \in CallIds : Telling(k)

IInv == Typed /\ Kept /\ Alone /\ Vouched /\ Followed

-----------------------------------------------------------------------------
(* The effect of a step on the calls.                                      *)

Same(call, other) ==
  /\ call.op = other.op /\ call.user = other.user /\ call.role = other.role
  /\ call.alone = other.alone

(* Waiting at another query, whatever was found.                           *)
LEMMA Gone ==
  ASSUME calls \in [CallIds -> CallType], NEW k \in CallIds,
         NEW pc \in {"read", "check", "confirm", "write", "written"}, Goto(k, pc)
  PROVE  /\ calls' \in [CallIds -> CallType]
         /\ Same(calls'[k], calls[k]) /\ calls'[k].pc = pc
         /\ calls'[k].found = calls[k].found
         /\ calls'[k].todo = calls[k].todo /\ calls'[k].who = calls[k].who
         /\ \A j \in CallIds : j # k => calls'[j] = calls[j]
<1>1. calls[k] \in CallType
  OBVIOUS
<1>2. [calls[k] EXCEPT !.pc = pc] \in CallType
  BY <1>1 DEF CallType
<1> QED
  BY <1>1, <1>2 DEF Goto, Becomes, Same, CallType

LEMMA Learnt ==
  ASSUME calls \in [CallIds -> CallType], NEW k \in CallIds, NEW found \in BOOLEAN,
         NEW pc \in {"read", "check", "confirm", "write", "written"}, Found(k, pc, found)
  PROVE  /\ calls' \in [CallIds -> CallType]
         /\ Same(calls'[k], calls[k]) /\ calls'[k].pc = pc
         /\ calls'[k].found = found
         /\ calls'[k].todo = calls[k].todo /\ calls'[k].who = calls[k].who
         /\ \A j \in CallIds : j # k => calls'[j] = calls[j]
<1>1. calls[k] \in CallType
  OBVIOUS
<1>2. [calls[k] EXCEPT !.pc = pc, !.found = found] \in CallType
  BY <1>1 DEF CallType
<1> QED
  BY <1>1, <1>2 DEF Found, Becomes, Same, CallType

(* A call that returns is idle.                                            *)
LEMMA Returned ==
  ASSUME calls \in [CallIds -> CallType], NEW k \in CallIds, Return(k)
  PROVE  /\ calls' \in [CallIds -> CallType]
         /\ calls'[k].op = "idle" /\ calls'[k].pc = "read" /\ calls'[k].todo = {}
         /\ calls'[k].who = None
         /\ \A j \in CallIds : j # k => calls'[j] = calls[j]
<1>1. /\ Idle \in CallType /\ Idle.op = "idle" /\ Idle.pc = "read" /\ Idle.todo = {}
      /\ Idle.who = None
  BY DEF Idle, Request, CallType, Ops
<1> QED
  BY <1>1 DEF Return, Becomes

(* A set of numbers of calls that is not empty has a least one.            *)
LEMMA LeastCall ==
  ASSUME NEW S \in SUBSET CallIds, S # {}
  PROVE  \E k \in S : \A i \in S : k <= i
<1>1. S \subseteq Nat
  BY RolesAssumption DEF CallIds
<1> DEFINE less == {ss \in Nat \X Nat : ss[1] < ss[2]}
<1>2. IsWellFoundedOn(less, Nat)
  BY NatLessThanWellFounded DEF OpToRel
<1>3. PICK k \in S : \A i \in S : ~(<<i, k>> \in less)
  BY <1>1, <1>2, WFMin
<1>4. \A i \in S : ~(i < k)
  BY <1>1, <1>3
<1> QED
  BY <1>1, <1>4

(* What is asked names members, roles and rights as the protocol has them. *)
LEMMA Asked ==
  ASSUME TypeOK, NEW r \in Requests
  PROVE  /\ r.op \in Ops \ {"idle"} /\ r.keys \in BOOLEAN
         /\ r.user \in Users \cup {None} /\ r.role \in Roles \cup {None}
         /\ r.op \in {"set-role", "remove", "add"} => r.user \in Users
         /\ r.op \in {"set-role", "update", "delete"} => r.role \in Roles
         /\ r.op = "add" => r.role \in {"editor", "viewer"}
         /\ r.op = "create" => r.role \in Custom
<1>1. CASE r \in [op : {"set-role"}, user : Users, role : roles, keys : {FALSE}]
  BY <1>1 DEF TypeOK, Ops
<1>2. CASE r \in [op : {"remove"}, user : Users, role : {None}, keys : {FALSE}]
  BY <1>2 DEF TypeOK, Ops
<1>3. CASE r \in [op : {"add"}, user : Users, role : {"editor", "viewer"}, keys : {FALSE}]
  BY <1>3 DEF TypeOK, Ops, Roles, Builtins
<1>4. CASE r \in [op : {"create"}, user : {None}, role : Custom \ roles, keys : BOOLEAN]
  BY <1>4 DEF TypeOK, Ops, Roles
<1>5. CASE r \in [op : {"update"}, user : {None}, role : roles, keys : BOOLEAN]
  BY <1>5 DEF TypeOK, Ops
<1>6. CASE r \in [op : {"delete"}, user : {None}, role : roles, keys : {FALSE}]
  BY <1>6 DEF TypeOK, Ops
<1> QED
  BY <1>1, <1>2, <1>3, <1>4, <1>5, <1>6 DEF Requests

(* A request takes a call that was idle; no call is alone any more, unless *)
(* it is the only one.                                                     *)
Starts(k, r) ==
  /\ calls[k].op = "idle"
  /\ calls'[k].op = r.op /\ calls'[k].pc = "read" /\ calls'[k].user = r.user
  /\ calls'[k].role = r.role /\ calls'[k].found = r.keys
  /\ calls'[k].todo = {} /\ calls'[k].who = None
  /\ calls'[k].alone = (Active = {})
  /\ \A j \in CallIds : j # k =>
       /\ calls'[j].op = calls[j].op /\ calls'[j].pc = calls[j].pc
       /\ calls'[j].user = calls[j].user /\ calls'[j].role = calls[j].role
       /\ calls'[j].todo = calls[j].todo /\ calls'[j].who = calls[j].who
       /\ calls'[j].has = calls[j].has /\ ~calls'[j].alone

LEMMA Begun ==
  ASSUME TypeOK, NEW r \in Requests, Begin(Request(r.op, r.user, r.role, r.keys))
  PROVE  /\ calls' \in [CallIds -> CallType]
         /\ \E k \in CallIds : Starts(k, r)
         /\ UNCHANGED <<db, sockets, opens>>
         /\ requests' = requests + 1
         /\ excused' = excused \cup (IF Active = {} THEN opening ELSE opening \cup open)
<1> DEFINE request == Request(r.op, r.user, r.role, r.keys)
           least(j) == j \in CallIds \ Active /\ \A i \in CallIds \ Active : j <= i
           k == CHOOSE j \in CallIds \ Active : \A i \in CallIds \ Active : j <= i
<1>1. calls \in [CallIds -> CallType] /\ request \in CallType
  BY Asked DEF TypeOK, Request, CallType
<1>2. Active # CallIds
  BY DEF Begin
<1>3. k \in CallIds \ Active
  <2>1. CallIds \ Active # {}
    BY <1>2 DEF Active
  <2>2. \E j \in CallIds \ Active : \A i \in CallIds \ Active : j <= i
    BY <2>1, LeastCall
  <2> QED
    BY <2>2
<1>4. /\ calls' = [j \in CallIds |->
            IF j = k THEN [request EXCEPT !.alone = (Active = {})]
            ELSE [calls[j] EXCEPT !.alone = FALSE]]
      /\ excused' = excused \cup (IF Active = {} THEN opening ELSE opening \cup open)
  BY DEF Begin
<1>5. /\ [request EXCEPT !.alone = (Active = {})] \in CallType
      /\ \A j \in CallIds : [calls[j] EXCEPT !.alone = FALSE] \in CallType
  BY <1>1 DEF CallType
<1> HIDE DEF k, request
<1>6. calls' \in [CallIds -> CallType]
  BY <1>4, <1>5
<1>7. calls'[k] = [request EXCEPT !.alone = (Active = {})]
  BY <1>3, <1>4
<1>8. \A j \in CallIds : j # k => calls'[j] = [calls[j] EXCEPT !.alone = FALSE]
  BY <1>4
<1>9. calls[k].op = "idle"
  BY <1>3 DEF Active
<1>10. /\ calls'[k].op = r.op /\ calls'[k].pc = "read" /\ calls'[k].user = r.user
       /\ calls'[k].role = r.role /\ calls'[k].found = r.keys
       /\ calls'[k].todo = {} /\ calls'[k].who = None
       /\ calls'[k].alone = (Active = {})
  BY <1>7 DEF request, Request
<1>11. ASSUME NEW j \in CallIds, j # k
       PROVE  /\ calls'[j].op = calls[j].op /\ calls'[j].pc = calls[j].pc
              /\ calls'[j].user = calls[j].user /\ calls'[j].role = calls[j].role
              /\ calls'[j].todo = calls[j].todo /\ calls'[j].who = calls[j].who
              /\ calls'[j].has = calls[j].has /\ ~calls'[j].alone
  BY <1>1, <1>8, <1>11 DEF CallType
<1>12. Starts(k, r)
  BY <1>9, <1>10, <1>11 DEF Starts
<1> QED
  BY <1>3, <1>4, <1>6, <1>12 DEF Begin

(* The steps of a refresh.                                                 *)
LEMMA Listed ==
  ASSUME TypeOK, NEW k \in CallIds, Snapshot(k)
  PROVE  /\ calls' \in [CallIds -> CallType]
         /\ Same(calls'[k], calls[k]) /\ calls'[k].pc = "refresh"
         /\ calls'[k].todo = open /\ calls'[k].who = calls[k].who
         /\ \A j \in CallIds : j # k => calls'[j] = calls[j]
<1>1. calls[k] \in CallType /\ open \subseteq Users /\ calls \in [CallIds -> CallType]
  BY DEF TypeOK
<1>2. [calls[k] EXCEPT !.pc = "refresh", !.todo = open] \in CallType
  BY <1>1 DEF CallType
<1>3. calls' = [calls EXCEPT ![k] = [calls[k] EXCEPT !.pc = "refresh", !.todo = open]]
  BY DEF Snapshot, Becomes
<1> QED
  BY <1>1, <1>2, <1>3 DEF Same, CallType

LEMMA Resolved ==
  ASSUME TypeOK, NEW k \in CallIds, NEW u \in Users, Resolve(k, u)
  PROVE  /\ calls' \in [CallIds -> CallType]
         /\ Same(calls'[k], calls[k])
         /\ u \in Members => /\ calls'[k].pc = "apply" /\ calls'[k].who = u
                             /\ calls'[k].has = Holds(u) /\ calls'[k].todo = calls[k].todo
         /\ u \notin Members => /\ calls'[k].pc = "refresh" /\ calls'[k].who = calls[k].who
                                /\ calls'[k].todo = calls[k].todo \ {u}
         /\ \A j \in CallIds : j # k => calls'[j] = calls[j]
<1>1. calls[k] \in CallType /\ calls \in [CallIds -> CallType]
  BY DEF TypeOK
<1>2. CASE u \in Members
  <2>1. Holds(u) \in BOOLEAN
    BY DEF Holds
  <2>2. [calls[k] EXCEPT !.pc = "apply", !.who = u, !.has = Holds(u)] \in CallType
    BY <1>1, <2>1 DEF CallType
  <2>3. calls' = [calls EXCEPT ![k] =
                    [calls[k] EXCEPT !.pc = "apply", !.who = u, !.has = Holds(u)]]
    BY <1>2 DEF Resolve, Becomes
  <2> QED
    BY <1>1, <1>2, <2>2, <2>3 DEF Same, CallType
<1>3. CASE u \notin Members
  <2>2. [calls[k] EXCEPT !.todo = @ \ {u}] \in CallType
    BY <1>1 DEF CallType
  <2>3. calls' = [calls EXCEPT ![k] = [calls[k] EXCEPT !.todo = @ \ {u}]]
    BY <1>3 DEF Resolve, Becomes
  <2>4. calls[k].pc = "refresh"
    BY DEF Resolve
  <2> QED
    BY <1>1, <1>3, <2>2, <2>3, <2>4 DEF Same, CallType
<1> QED
  BY <1>2, <1>3

LEMMA Told ==
  ASSUME TypeOK, NEW k \in CallIds, Apply(k)
  PROVE  /\ calls' \in [CallIds -> CallType]
         /\ Same(calls'[k], calls[k]) /\ calls'[k].pc = "refresh"
         /\ calls'[k].todo = calls[k].todo \ {calls[k].who} /\ calls'[k].who = None
         /\ \A j \in CallIds : j # k => calls'[j] = calls[j]
<1>1. calls[k] \in CallType /\ calls \in [CallIds -> CallType]
  BY DEF TypeOK
<1> DEFINE told == [calls[k] EXCEPT !.pc = "refresh", !.todo = @ \ {calls[k].who},
                                    !.who = None, !.has = FALSE]
<1>2. told \in CallType
  BY <1>1 DEF CallType
<1>3. calls' = [calls EXCEPT ![k] = told]
  BY DEF Apply, Becomes
<1>4. /\ told.op = calls[k].op /\ told.user = calls[k].user /\ told.role = calls[k].role
      /\ told.alone = calls[k].alone /\ told.pc = "refresh"
      /\ told.todo = calls[k].todo \ {calls[k].who} /\ told.who = None
  BY <1>1 DEF CallType
<1> HIDE DEF told
<1> QED
  BY <1>1, <1>2, <1>3, <1>4 DEF Same

(* A socket that closes is struck off every refresh.                       *)
LEMMA Struck ==
  ASSUME TypeOK, NEW u \in Users, CloseSocket(u)
  PROVE  /\ calls' \in [CallIds -> CallType]
         /\ \A k \in CallIds :
              /\ Same(calls'[k], calls[k]) /\ calls'[k].pc = calls[k].pc
              /\ calls'[k].found = calls[k].found /\ calls'[k].has = calls[k].has
              /\ calls'[k].todo = calls[k].todo \ {u}
              /\ calls'[k].who = (IF calls[k].who = u THEN None ELSE calls[k].who)
<1> DEFINE struck(k) == [calls[k] EXCEPT !.todo = @ \ {u}, !.who = IF @ = u THEN None ELSE @]
<1>1. calls \in [CallIds -> CallType]
  BY DEF TypeOK
<1>2. calls' = [k \in CallIds |-> struck(k)]
  BY DEF CloseSocket
<1>3. ASSUME NEW k \in CallIds
      PROVE  /\ struck(k) \in CallType
             /\ Same(struck(k), calls[k]) /\ struck(k).pc = calls[k].pc
             /\ struck(k).found = calls[k].found /\ struck(k).has = calls[k].has
             /\ struck(k).todo = calls[k].todo \ {u}
             /\ struck(k).who = (IF calls[k].who = u THEN None ELSE calls[k].who)
  BY <1>1, <1>3 DEF CallType, Same
<1> HIDE DEF struck
<1> QED
  BY <1>2, <1>3

(* Only the call that steps can lose its place.                            *)
LEMMA Stay ==
  ASSUME Typed, NEW k \in CallIds, \A j \in CallIds : j # k => calls'[j] = calls[j],
         open' = open, Placed(k)'
  PROVE  \A j \in CallIds : Placed(j)'
<1>1. ASSUME NEW j \in CallIds, j # k
      PROVE  Placed(j)'
  BY <1>1 DEF Typed, Placed, At
<1> QED
  BY <1>1

(* A step that only waits at another query, or returns.                    *)
Waits(k) ==
  \/ ReadRole(k) \/ CheckMembers(k) \/ CheckRole(k) \/ ReadExisting(k) \/ ReadTarget(k)
  \/ CountOwners(k) \/ ReadUpdated(k) \/ ReadDeleted(k) \/ Refreshed(k)

LEMMA WaitsTyped ==
  ASSUME Typed, NEW k \in CallIds, Waits(k)
  PROVE  Typed'
<1>1. calls \in [CallIds -> CallType] /\ Placed(k)
  BY DEF Typed, TypeOK
<1>2. UNCHANGED <<db, sockets, excused, counts>>
  BY DEF Waits, ReadRole, CheckMembers, CheckRole, ReadExisting, ReadTarget, CountOwners,
         ReadUpdated, ReadDeleted, Refreshed
<1>3. ASSUME calls' \in [CallIds -> CallType], Placed(k)',
             \A j \in CallIds : j # k => calls'[j] = calls[j]
      PROVE  Typed'
  BY <1>2, <1>3, Stay DEF Typed, TypeOK, db, sockets, counts, Members
<1>4. ASSUME Return(k)
      PROVE  Typed'
  <2>1. Placed(k)'
    BY <1>4, <1>1, Returned DEF Placed, At
  <2> QED
    BY <1>1, <1>3, <1>4, <2>1, Returned
<1>5. ASSUME NEW pc \in {"check", "confirm", "write"}, Goto(k, pc),
             calls[k].op = "delete" => calls[k].role \notin Builtins
      PROVE  Typed'
  <2>1. Placed(k)'
    BY <1>5, <1>1, <1>2, Gone DEF Placed, At, Same, sockets
  <2> QED
    BY <1>1, <1>3, <1>5, <2>1, Gone
<1>6. CASE ReadRole(k)
  BY <1>4, <1>5, <1>6 DEF ReadRole, At
<1>7. CASE CheckMembers(k)
  <2>1. PICK found \in BOOLEAN : Found(k, "confirm", found)
    BY <1>7 DEF CheckMembers
  <2>2. calls[k].op = "set-role"
    BY <1>7 DEF CheckMembers, At
  <2>3. Placed(k)'
    BY <1>1, <1>2, <2>1, <2>2, Learnt DEF Placed, At, Same, sockets
  <2> QED
    BY <1>1, <1>3, <2>1, <2>3, Learnt
<1>8. CASE CheckRole(k)
  BY <1>4, <1>5, <1>8 DEF CheckRole, At
<1>9. CASE ReadExisting(k)
  BY <1>4, <1>5, <1>9 DEF ReadExisting, At
<1>10. CASE ReadTarget(k)
  <2>1. Return(k) \/ Goto(k, "check") \/ Goto(k, "write")
    BY <1>10 DEF ReadTarget
  <2> QED
    BY <1>4, <1>5, <1>10, <2>1 DEF ReadTarget, At
<1>11. CASE CountOwners(k)
  BY <1>4, <1>5, <1>11 DEF CountOwners, At
<1>12. CASE ReadUpdated(k)
  BY <1>4, <1>5, <1>12 DEF ReadUpdated, At
<1>13. CASE ReadDeleted(k)
  <2>1. Return(k) \/ (Goto(k, "write") /\ calls[k].role \notin Builtins)
    BY <1>13 DEF ReadDeleted
  <2> QED
    BY <1>4, <1>5, <2>1
<1>14. CASE Refreshed(k)
  BY <1>4, <1>14 DEF Refreshed
<1> QED
  BY <1>6, <1>7, <1>8, <1>9, <1>10, <1>11, <1>12, <1>13, <1>14 DEF Waits

(* A step that changes what the database holds.                            *)
Writes(k) ==
  \/ SetRole(k) \/ AddMember(k) \/ RemoveMember(k) \/ CreateRole(k) \/ UpdateRole(k)
  \/ DeleteRole(k)

LEMMA WritesTyped ==
  ASSUME Typed, NEW k \in CallIds, Writes(k)
  PROVE  Typed'
<1>1. calls \in [CallIds -> CallType] /\ Placed(k)
  BY DEF Typed, TypeOK
<1>2. /\ UNCHANGED <<sockets, counts>>
      /\ \/ Return(k)
         \/ Goto(k, "written") /\ calls[k].op \in {"set-role", "update"}
  BY DEF Writes, SetRole, AddMember, RemoveMember, CreateRole, UpdateRole, DeleteRole, At
<1>3. /\ calls' \in [CallIds -> CallType]
      /\ \A j \in CallIds : Placed(j)'
  <2>1. CASE Return(k)
    <3>1. Placed(k)'
      BY <2>1, <1>1, Returned DEF Placed, At
    <3> QED
      BY <1>1, <1>2, <2>1, <3>1, Returned, Stay DEF sockets
  <2>2. CASE Goto(k, "written") /\ calls[k].op \in {"set-role", "update"}
    <3>1. Placed(k)'
      BY <1>1, <1>2, <2>2, Gone DEF Placed, At, Same, sockets
    <3> QED
      BY <1>1, <1>2, <2>2, <3>1, Gone, Stay DEF sockets
  <2> QED
    BY <1>2, <2>1, <2>2
<1>4. ASSUME roles' \subseteq Roles, keyed' \subseteq roles',
             roleOf' \in [Users -> Roles \cup {None}], owners' \subseteq Members',
             excused' \subseteq Users
      PROVE  Typed'
  BY <1>2, <1>3, <1>4 DEF Typed, TypeOK, sockets, counts
<1>5. None \notin Roles /\ "editor" \in Roles /\ "viewer" \in Roles
  BY RolesAssumption DEF Roles, Builtins
<1>6. CASE SetRole(k)
  <2>1. /\ calls[k].user \in Users /\ calls[k].role \in Roles
        /\ UNCHANGED <<roles, keyed, excused>>
    BY <1>1, <1>6 DEF SetRole, Placed, At
  <2>2. CASE UNCHANGED <<roleOf, owners>>
    BY <1>4, <2>1, <2>2 DEF Typed, TypeOK, Members
  <2>3. CASE /\ roleOf' = [roleOf EXCEPT ![calls[k].user] = calls[k].role]
             /\ owners' \subseteq owners \cup {calls[k].user}
    BY <1>4, <1>5, <2>1, <2>3 DEF Typed, TypeOK, Members
  <2> QED
    BY <1>6, <2>2, <2>3 DEF SetRole
<1>7. CASE AddMember(k)
  <2>1. calls[k].user \in Users /\ calls[k].role \in {"editor", "viewer"}
    BY <1>1, <1>7 DEF AddMember, Placed, At
  <2> QED
    BY <1>4, <1>5, <1>7, <2>1 DEF AddMember, Typed, TypeOK, Members
<1>8. CASE RemoveMember(k)
  <2>1. calls[k].user \in Users
    BY <1>1, <1>8 DEF RemoveMember, Placed, At
  <2> QED
    BY <1>4, <1>8, <2>1 DEF RemoveMember, Typed, TypeOK, Members
<1>9. CASE CreateRole(k)
  <2>1. calls[k].role \in Roles
    BY <1>1, <1>9 DEF CreateRole, Placed, At, Roles
  <2> QED
    BY <1>4, <1>9, <2>1 DEF CreateRole, Typed, TypeOK, Members
<1>10. CASE UpdateRole(k)
  BY <1>4, <1>10 DEF UpdateRole, Typed, TypeOK, Members
<1>11. CASE DeleteRole(k)
  BY <1>4, <1>11 DEF DeleteRole, Typed, TypeOK, Members
<1> QED
  BY <1>6, <1>7, <1>8, <1>9, <1>10, <1>11 DEF Writes

(* A step of a refresh.                                                    *)
Tells(k) == Snapshot(k) \/ (\E u \in Users : Resolve(k, u)) \/ Apply(k)

LEMMA TellsTyped ==
  ASSUME Typed, NEW k \in CallIds, Tells(k)
  PROVE  Typed'
<1>1. TypeOK /\ calls \in [CallIds -> CallType] /\ Placed(k)
  BY DEF Typed, TypeOK
<1>2. UNCHANGED <<db, opening, open, excused, counts>>
  BY DEF Tells, Snapshot, Resolve, Apply, sockets
<1>3. ASSUME calls' \in [CallIds -> CallType], Placed(k)', granted' \subseteq opening \cup open,
             \A j \in CallIds : j # k => calls'[j] = calls[j]
      PROVE  Typed'
  BY <1>2, <1>3, Stay DEF Typed, TypeOK, db, counts, Members
<1>4. CASE Snapshot(k)
  <2>1. Placed(k)'
    BY <1>1, <1>2, <1>4, Listed DEF Placed, At, Same, Snapshot
  <2> QED
    BY <1>1, <1>3, <1>4, <2>1, Listed DEF Snapshot, sockets, Typed, TypeOK
<1>5. ASSUME NEW u \in Users, Resolve(k, u)
      PROVE  Typed'
  <2>1. Placed(k)'
    BY <1>1, <1>2, <1>5, Resolved DEF Placed, At, Same, Resolve
  <2> QED
    BY <1>1, <1>3, <1>5, <2>1, Resolved DEF Resolve, sockets, Typed, TypeOK
<1>6. CASE Apply(k)
  <2>1. Placed(k)'
    BY <1>1, <1>2, <1>6, Told DEF Placed, At, Same, Apply
  <2>2. granted' \subseteq opening \cup open
    BY <1>1, <1>6 DEF Apply, Placed, TypeOK
  <2> QED
    BY <1>1, <1>3, <1>6, <2>1, <2>2, Told
<1> QED
  BY <1>4, <1>5, <1>6 DEF Tells

(* A handler waits, writes or tells the sockets.                           *)
LEMMA Proceeds ==
  ASSUME NEW k \in CallIds, Proceed(k)
  PROVE  Waits(k) \/ Writes(k) \/ Tells(k)
  BY DEF Proceed, Waits, Writes, Tells

LEMMA SocketTyped ==
  ASSUME Typed, NEW u \in Users, OpenSocket(u) \/ AddSocket(u) \/ CloseSocket(u)
  PROVE  Typed'
<1>1. CASE OpenSocket(u) \/ AddSocket(u)
  <2>1. TypeOK'
    <3>1. CASE OpenSocket(u)
      <4>1. /\ UNCHANGED <<db, open, calls, requests>> /\ opens' = opens + 1
            /\ opening' = opening \cup {u} /\ u \notin open
            /\ granted' \subseteq granted \cup {u} /\ excused' \subseteq excused \cup {u}
        BY <3>1 DEF OpenSocket
      <4> QED
        BY <4>1 DEF Typed, TypeOK, db, Members
    <3>2. CASE AddSocket(u)
      BY <3>2 DEF AddSocket, Typed, TypeOK, db, counts, Members
    <3> QED
      BY <1>1, <3>1, <3>2
  <2>2. ASSUME NEW k \in CallIds
        PROVE  Placed(k)'
    BY <1>1, <2>2 DEF OpenSocket, AddSocket, Typed, Placed, At
  <2> QED
    BY <2>1, <2>2 DEF Typed
<1>2. CASE CloseSocket(u)
  <2>1. TypeOK'
    BY <1>2, Struck DEF CloseSocket, Typed, TypeOK, db, counts, Members
  <2>2. ASSUME NEW k \in CallIds
        PROVE  Placed(k)'
    <3>1. /\ Same(calls'[k], calls[k]) /\ calls'[k].pc = calls[k].pc
          /\ calls'[k].todo = calls[k].todo \ {u}
          /\ calls'[k].who = (IF calls[k].who = u THEN None ELSE calls[k].who)
      BY <1>2, <2>2, Struck DEF Typed
    <3>2. open' = open \ {u} /\ Placed(k)
      BY <1>2 DEF CloseSocket, Typed
    <3> QED
      BY <3>1, <3>2 DEF Placed, At, Same
  <2> QED
    BY <2>1, <2>2 DEF Typed
<1> QED
  BY <1>1, <1>2

LEMMA AskTyped ==
  ASSUME Typed, NEW r \in Requests, Begin(Request(r.op, r.user, r.role, r.keys))
  PROVE  Typed'
<1>1. /\ TypeOK /\ calls' \in [CallIds -> CallType] /\ UNCHANGED <<db, sockets, opens>>
      /\ requests' = requests + 1
      /\ excused' = excused \cup (IF Active = {} THEN opening ELSE opening \cup open)
  BY Begun DEF Typed
<1>2. TypeOK'
  <2>1. excused' \subseteq Users
    BY <1>1 DEF TypeOK
  <2>2. UNCHANGED <<roles, keyed, roleOf, owners, opening, open, granted, opens>>
    BY <1>1 DEF db, sockets
  <2> QED
    BY <1>1, <2>1, <2>2 DEF TypeOK, Members
<1>3. PICK k \in CallIds : Starts(k, r)
  BY Begun DEF Typed
<1>4. Placed(k)'
  BY <1>1, <1>3, Asked DEF Starts, Placed, At
<1>5. ASSUME NEW j \in CallIds, j # k
      PROVE  Placed(j)'
  BY <1>1, <1>3, <1>5 DEF Starts, Typed, Placed, At, sockets
<1> QED
  BY <1>2, <1>4, <1>5 DEF Typed

(* Types are kept by every step.                                           *)
LEMMA TypedStep == Typed /\ [Next]_vars => Typed'
<1> SUFFICES ASSUME Typed, [Next]_vars
             PROVE  Typed'
  OBVIOUS
<1>1. CASE Ask
  BY <1>1, AskTyped DEF Ask
<1>2. ASSUME NEW k \in CallIds, Proceed(k)
      PROVE  Typed'
  BY <1>2, Proceeds, WaitsTyped, WritesTyped, TellsTyped
<1>3. ASSUME NEW u \in Users, OpenSocket(u) \/ AddSocket(u) \/ CloseSocket(u)
      PROVE  Typed'
  BY <1>3, SocketTyped
<1>4. CASE UNCHANGED vars
  BY <1>4 DEF vars, db, sockets, counts, Typed, TypeOK, Placed, At, Members
<1> QED
  BY <1>1, <1>2, <1>3, <1>4 DEF Next

LEMMA TypedInit == Init => Typed
<1> SUFFICES ASSUME Init
             PROVE  Typed
  OBVIOUS
<1>1. /\ Idle \in CallType /\ Idle.op = "idle" /\ Idle.pc = "read" /\ Idle.todo = {}
      /\ Idle.who = None
  BY DEF Idle, Request, CallType, Ops
<1>2. TypeOK
  BY <1>1, RolesAssumption DEF Init, TypeOK, Members, Roles, Builtins
<1>3. ASSUME NEW k \in CallIds
      PROVE  Placed(k)
  BY <1>1, <1>3 DEF Init, Placed, At
<1> QED
  BY <1>2, <1>3 DEF Typed

-----------------------------------------------------------------------------
(* Roles there are.                                                        *)

LEMMA KeptStep == Typed /\ Kept /\ [Next]_vars => Kept'
<1> SUFFICES ASSUME Typed, Kept, [Next]_vars
             PROVE  Kept'
  OBVIOUS
<1>1. ASSUME UNCHANGED <<roles, roleOf>>
      PROVE  Kept'
  BY <1>1 DEF Kept, NobodyHoldsAMissingRole, Members
<1>2. ASSUME NEW k \in CallIds, Proceed(k)
      PROVE  Kept'
  <2>1. Placed(k) /\ roleOf \in [Users -> Roles \cup {None}]
    BY DEF Typed, TypeOK
  <2>2. CASE Waits(k) \/ Tells(k)
    BY <1>1, <2>2 DEF Waits, ReadRole, CheckMembers, CheckRole, ReadExisting, ReadTarget,
       CountOwners, ReadUpdated, ReadDeleted, Refreshed, Tells, Snapshot, Resolve, Apply, db
  <2>3. CASE SetRole(k)
    BY <2>1, <2>3 DEF SetRole, Kept, NobodyHoldsAMissingRole, Members
  <2>4. CASE AddMember(k)
    <3>1. calls[k].role \in roles
      BY <2>1, <2>4 DEF AddMember, Placed, At, Kept, Builtins
    <3> QED
      BY <2>1, <2>4, <3>1 DEF AddMember, Kept, NobodyHoldsAMissingRole, Members
  <2>5. CASE RemoveMember(k)
    BY <2>1, <2>5 DEF RemoveMember, Kept, NobodyHoldsAMissingRole, Members
  <2>6. CASE CreateRole(k)
    BY <2>6 DEF CreateRole, Kept, NobodyHoldsAMissingRole, Members
  <2>7. CASE UpdateRole(k)
    BY <1>1, <2>7 DEF UpdateRole
  <2>8. CASE DeleteRole(k)
    <3>1. calls[k].role \notin Builtins
      BY <2>1, <2>8 DEF DeleteRole, Placed
    <3>2. CASE Held(calls[k].role)
      BY <1>1, <2>8, <3>2 DEF DeleteRole
    <3>3. CASE ~Held(calls[k].role)
      BY <2>8, <3>1, <3>3 DEF DeleteRole, Held, Kept, NobodyHoldsAMissingRole, Members
    <3> QED
      BY <3>2, <3>3
  <2> QED
    BY <1>2, <2>2, <2>3, <2>4, <2>5, <2>6, <2>7, <2>8, Proceeds DEF Writes
<1>3. CASE Ask
  BY <1>1, <1>3 DEF Ask, Begin, db
<1>4. ASSUME NEW u \in Users, OpenSocket(u) \/ AddSocket(u) \/ CloseSocket(u)
      PROVE  Kept'
  BY <1>1, <1>4 DEF OpenSocket, AddSocket, CloseSocket, db
<1>5. CASE UNCHANGED vars
  BY <1>1, <1>5 DEF vars, db
<1> QED
  BY <1>2, <1>3, <1>4, <1>5 DEF Next

-----------------------------------------------------------------------------
(* Calls that run alone.                                                   *)

(* A step of a handler keeps its call what it is, or ends it.              *)
Steps(k) ==
  /\ calls' \in [CallIds -> CallType]
  /\ Same(calls'[k], calls[k]) \/ (calls'[k].op = "idle" /\ calls'[k].pc = "read")
  /\ \A j \in CallIds : j # k => calls'[j] = calls[j]

LEMMA OneSteps ==
  ASSUME Typed, NEW k \in CallIds, Proceed(k)
  PROVE  Steps(k)
<1>1. TypeOK /\ calls \in [CallIds -> CallType]
  BY DEF Typed, TypeOK
<1>2. ASSUME NEW pc \in {"read", "check", "confirm", "write", "written"}, Goto(k, pc)
      PROVE  Steps(k)
  BY <1>1, <1>2, Gone DEF Steps
<1>3. ASSUME NEW pc \in {"read", "check", "confirm", "write", "written"},
             NEW found \in BOOLEAN, Found(k, pc, found)
      PROVE  Steps(k)
  BY <1>1, <1>3, Learnt DEF Steps
<1>4. ASSUME Return(k)
      PROVE  Steps(k)
  BY <1>1, <1>4, Returned DEF Steps
<1>5. CASE Tells(k)
  BY <1>1, <1>5, Listed, Resolved, Told DEF Tells, Steps
<1>6. CASE Writes(k)
  BY <1>2, <1>4, <1>6 DEF Writes, SetRole, AddMember, RemoveMember, CreateRole, UpdateRole,
     DeleteRole
<1>7. CASE CheckMembers(k)
  <2>1. (\E u \in Members \ {calls[k].user} : Holds(u)) \in BOOLEAN
    OBVIOUS
  <2> QED
    BY <1>3, <1>7, <2>1 DEF CheckMembers
<1>8. CASE Waits(k) /\ ~CheckMembers(k)
  BY <1>2, <1>4, <1>8 DEF Waits, ReadRole, CheckRole, ReadExisting, ReadTarget, CountOwners,
     ReadUpdated, ReadDeleted, Refreshed
<1> QED
  BY <1>5, <1>6, <1>7, <1>8, Proceeds

LEMMA Busy ==
  ASSUME Typed, NEW k \in CallIds, Proceed(k)
  PROVE  calls[k].op # "idle"
<1>1. Placed(k)
  BY DEF Typed
<1>2. CASE Waits(k)
  BY <1>1, <1>2 DEF Waits, ReadRole, CheckMembers, CheckRole, ReadExisting, ReadTarget,
     CountOwners, ReadUpdated, ReadDeleted, Refreshed, At, Placed
<1>3. CASE Writes(k)
  BY <1>3 DEF Writes, SetRole, AddMember, RemoveMember, CreateRole, UpdateRole, DeleteRole, At
<1>4. CASE Tells(k)
  BY <1>1, <1>4 DEF Tells, Snapshot, Resolve, Apply, Placed
<1> QED
  BY <1>2, <1>3, <1>4, Proceeds

LEMMA AloneStep == Typed /\ Alone /\ [Next]_vars => Alone'
<1> SUFFICES ASSUME Typed, Alone, [Next]_vars
             PROVE  Alone'
  OBVIOUS
<1>1. ASSUME NEW k \in CallIds, Proceed(k)
      PROVE  Alone'
  <2>1. Steps(k) /\ calls[k].op # "idle"
    BY <1>1, OneSteps, Busy
  <2> QED
    BY <2>1 DEF Alone, Steps, Same
<1>2. CASE Ask
  <2>1. PICK r \in Requests : Begin(Request(r.op, r.user, r.role, r.keys))
    BY <1>2 DEF Ask
  <2>2. PICK k \in CallIds : Starts(k, r)
    BY <2>1, Begun DEF Typed
  <2>3. Active = {} => \A j \in CallIds : calls[j].op = "idle"
    BY DEF Active
  <2>4. ASSUME NEW i \in CallIds, NEW j \in CallIds, calls'[i].alone, j # i
        PROVE  calls'[j].op = "idle"
    <3>1. i = k
      BY <2>2, <2>4 DEF Starts
    <3>2. calls[j].op = "idle"
      <4>1. calls'[k].alone = (Active = {})
        BY <2>2 DEF Starts
      <4>2. Active = {}
        BY <2>4, <3>1, <4>1
      <4> QED
        BY <2>3, <4>2
    <3> QED
      BY <2>2, <2>4, <3>1, <3>2 DEF Starts
  <2> QED
    BY <2>4 DEF Alone
<1>3. ASSUME NEW u \in Users, OpenSocket(u) \/ AddSocket(u) \/ CloseSocket(u)
      PROVE  Alone'
  <2>1. CASE OpenSocket(u) \/ AddSocket(u)
    BY <2>1 DEF OpenSocket, AddSocket, Alone
  <2>2. CASE CloseSocket(u)
    BY <2>2, Struck DEF Typed, Same, Alone
  <2> QED
    BY <1>3, <2>1, <2>2
<1>4. CASE UNCHANGED vars
  BY <1>4 DEF vars, Alone
<1> QED
  BY <1>1, <1>2, <1>3, <1>4 DEF Next

-----------------------------------------------------------------------------
(* What a call that runs alone has found.                                  *)

(* No other call is alone while one steps, so only that one is looked at.  *)
LEMMA OnlyOne ==
  ASSUME Typed, Alone, NEW k \in CallIds, Proceed(k), IsFiniteSet(owners'),
         ASSUME calls[k].alone PROVE Checked(k)'
  PROVE  Vouched'
<1>1. Steps(k) /\ calls[k].op # "idle"
  BY OneSteps, Busy
<1>2. ASSUME NEW j \in CallIds, j # k
      PROVE  Checked(j)'
  <2>1. calls'[j] = calls[j]
    BY <1>1, <1>2 DEF Steps
  <2>2. calls[j].op = "idle" \/ ~calls[j].alone
    BY <1>1, <1>2 DEF Alone
  <2> QED
    BY <2>1, <2>2 DEF Checked, At
<1>3. Checked(k)'
  <2>1. CASE calls[k].alone
    BY <2>1
  <2>2. CASE ~calls[k].alone
    BY <1>1, <2>2 DEF Steps, Same, Checked, At
  <2> QED
    BY <2>1, <2>2
<1> QED
  BY <1>2, <1>3 DEF Vouched

LEMMA VouchedStep == Typed /\ Kept /\ Alone /\ Vouched /\ [Next]_vars => Vouched'
<1> SUFFICES ASSUME Typed, Kept, Alone, Vouched, [Next]_vars
             PROVE  Vouched'
  OBVIOUS
<1>1. ASSUME NEW k \in CallIds, Proceed(k)
      PROVE  Vouched'
  <2>1. /\ calls \in [CallIds -> CallType] /\ Placed(k) /\ TypeOK /\ Checked(k)
        /\ IsFiniteSet(owners)
    BY DEF Typed, TypeOK, Vouched
  <2>2. ASSUME Return(k)
        PROVE  Checked(k)'
    BY <2>1, <2>2, Returned DEF Checked, At
  <2>3. CASE Tells(k)
    <3>1. calls'[k].pc \in {"refresh", "apply"} /\ UNCHANGED db
      BY <2>1, <2>3, Listed, Resolved, Told DEF Tells, Snapshot, Resolve, Apply
    <3> QED
      BY <1>1, <2>1, <3>1, OnlyOne DEF Checked, At, db
  <2>4. CASE Writes(k)
    <3>1. IsFiniteSet(owners')
      <4>1. \/ owners' \subseteq owners
            \/ owners' = owners \cup {calls[k].user}
        BY <2>4 DEF Writes, SetRole, AddMember, RemoveMember, CreateRole, UpdateRole, DeleteRole
      <4> QED
        BY <2>1, <4>1, FS_Subset, FS_AddElement
    <3>2. Return(k) \/ Goto(k, "written")
      BY <2>4 DEF Writes, SetRole, AddMember, RemoveMember, CreateRole, UpdateRole, DeleteRole
    <3>3. Checked(k)'
      BY <2>1, <2>2, <3>2, Gone DEF Checked, At
    <3> QED
      BY <1>1, <3>1, <3>3, OnlyOne
  <2>5. CASE Waits(k)
    <3>1. UNCHANGED <<roles, keyed, roleOf, owners>>
      BY <2>5 DEF Waits, ReadRole, CheckMembers, CheckRole, ReadExisting, ReadTarget,
         CountOwners, ReadUpdated, ReadDeleted, Refreshed, db
    <3>2. Members' = Members /\ \A u \in Users : Holds(u)' = Holds(u)
      BY <3>1 DEF Members, Holds
    <3>3. ASSUME Checked(k)'
          PROVE  Vouched'
      BY <1>1, <2>1, <3>1, <3>3, OnlyOne
    <3>4. ASSUME NEW pc \in {"check", "confirm", "write"}, Goto(k, pc),
                 calls[k].op \notin {"set-role", "remove"} \/ pc = "check"
          PROVE  Vouched'
      <4>1. calls'[k].op = calls[k].op /\ calls'[k].pc = pc
        BY <2>1, <3>4, Gone DEF Same
      <4>2. Checked(k)'
        BY <3>4, <4>1 DEF Checked, At
      <4> QED
        BY <3>3, <4>2
    <3>5. ASSUME Return(k)
          PROVE  Vouched'
      BY <2>2, <3>3, <3>5
    <3>6. CASE ReadRole(k)
      BY <3>4, <3>5, <3>6 DEF ReadRole
    <3>7. CASE CheckMembers(k)
      <4> DEFINE others == \E u \in Members \ {calls[k].user} : Holds(u)
      <4>1. Found(k, "confirm", others) /\ others \in BOOLEAN
        BY <3>7 DEF CheckMembers
      <4>2. calls'[k].found = others /\ Same(calls'[k], calls[k]) /\ calls'[k].pc = "confirm"
        BY <2>1, <4>1, Learnt
      <4>3. Checked(k)'
        BY <3>2, <4>2 DEF Checked, At, Same, Members
      <4> QED
        BY <3>3, <4>3
    <3>8. CASE CheckRole(k)
      <4>1. CASE Return(k)
        BY <3>5, <4>1
      <4>2. CASE /\ Goto(k, "write")
                 /\ calls[k].found \/ (calls[k].user \in Members /\ calls[k].role \in keyed)
        <5>1. Same(calls'[k], calls[k]) /\ calls'[k].pc = "write"
          BY <2>1, <4>2, Gone
        <5>2. At(k, "set-role", "confirm")
          BY <3>8 DEF CheckRole
        <5>3. calls[k].alone =>
                \/ \E u \in Members \ {calls[k].user} : Holds(u)
                \/ calls[k].user \in Members /\ calls[k].role \in keyed
          BY <2>1, <4>2, <5>2 DEF Checked
        <5>4. Checked(k)'
          BY <3>1, <3>2, <5>1, <5>2, <5>3 DEF Checked, At, Same, Members
        <5> QED
          BY <3>3, <5>4
      <4> QED
        BY <3>8, <4>1, <4>2 DEF CheckRole
    <3>9. CASE ReadExisting(k)
      BY <3>4, <3>5, <3>9 DEF ReadExisting, At
    <3>10. CASE ReadTarget(k)
      <4>1. CASE calls[k].user \in Members /\ calls[k].user \notin owners
        <5>1. Goto(k, "write")
          BY <3>10, <4>1 DEF ReadTarget
        <5>2. Same(calls'[k], calls[k]) /\ calls'[k].pc = "write" /\ calls[k].op = "remove"
          BY <2>1, <3>10, <5>1, Gone DEF ReadTarget, At
        <5>3. Checked(k)'
          BY <3>1, <4>1, <5>2 DEF Checked, At, Same
        <5> QED
          BY <3>3, <5>3
      <4>2. CASE calls[k].user \notin Members \/ calls[k].user \in owners
        <5>1. Return(k) \/ Goto(k, "check")
          BY <3>10, <4>2 DEF ReadTarget
        <5> QED
          BY <3>4, <3>5, <5>1
      <4> QED
        BY <4>1, <4>2
    <3>11. CASE CountOwners(k)
      <4>1. CASE Cardinality(owners) <= 1
        BY <3>5, <3>11, <4>1 DEF CountOwners
      <4>2. CASE ~(Cardinality(owners) <= 1)
        <5>1. Same(calls'[k], calls[k]) /\ calls'[k].pc = "write" /\ calls[k].op = "remove"
          BY <2>1, <3>11, <4>2, Gone DEF CountOwners, At
        <5>2. ~(owners \subseteq {calls[k].user})
          <6>1. IsFiniteSet({calls[k].user}) /\ Cardinality({calls[k].user}) = 1
            BY FS_Singleton
          <6>2. ASSUME owners \subseteq {calls[k].user}
                PROVE  FALSE
            BY <4>2, <6>1, <6>2, FS_Subset
          <6> QED
            BY <6>2
        <5>3. Checked(k)'
          BY <3>1, <5>1, <5>2 DEF Checked, At, Same
        <5> QED
          BY <3>3, <5>3
      <4> QED
        BY <4>1, <4>2
    <3>12. CASE ReadUpdated(k)
      BY <3>4, <3>5, <3>12 DEF ReadUpdated, At
    <3>13. CASE ReadDeleted(k)
      BY <3>4, <3>5, <3>13 DEF ReadDeleted, At
    <3>14. CASE Refreshed(k)
      BY <3>5, <3>14 DEF Refreshed
    <3> QED
      BY <2>5, <3>6, <3>7, <3>8, <3>9, <3>10, <3>11, <3>12, <3>13, <3>14 DEF Waits
  <2> QED
    BY <1>1, <2>3, <2>4, <2>5, Proceeds
<1>2. CASE Ask
  <2>1. PICK r \in Requests : Begin(Request(r.op, r.user, r.role, r.keys))
    BY <1>2 DEF Ask
  <2>2. PICK k \in CallIds : Starts(k, r)
    BY <2>1, Begun DEF Typed
  <2>3. ASSUME NEW j \in CallIds
        PROVE  Checked(j)'
    <3>1. CASE j = k
      BY <2>2, <3>1 DEF Starts, Checked, At
    <3>2. CASE j # k
      BY <2>2, <3>2 DEF Starts, Checked
    <3> QED
      BY <3>1, <3>2
  <2>4. owners' = owners
    BY <2>1 DEF Begin, db
  <2> QED
    BY <2>3, <2>4 DEF Vouched
<1>3. ASSUME NEW u \in Users, OpenSocket(u) \/ AddSocket(u) \/ CloseSocket(u)
      PROVE  Vouched'
  <2>1. UNCHANGED <<roles, keyed, roleOf, owners>>
    BY <1>3 DEF OpenSocket, AddSocket, CloseSocket, db
  <2>2. ASSUME NEW k \in CallIds
        PROVE  /\ Same(calls'[k], calls[k]) /\ calls'[k].pc = calls[k].pc
               /\ calls'[k].found = calls[k].found
    <3>1. CASE OpenSocket(u) \/ AddSocket(u)
      BY <3>1 DEF OpenSocket, AddSocket, Same
    <3>2. CASE CloseSocket(u)
      BY <2>2, <3>2, Struck DEF Typed
    <3> QED
      BY <1>3, <3>1, <3>2
  <2>3. ASSUME NEW k \in CallIds
        PROVE  Checked(k)'
    <3>1. Checked(k)
      BY DEF Vouched
    <3> QED
      BY <2>1, <2>2, <3>1 DEF Checked, At, Same, Members, Holds
  <2> QED
    BY <2>1, <2>3 DEF Vouched
<1>4. CASE UNCHANGED vars
  BY <1>4 DEF vars, db, Vouched, Checked, At, Members, Holds
<1> QED
  BY <1>1, <1>2, <1>3, <1>4 DEF Next

-----------------------------------------------------------------------------
(* What open sockets carry.                                                *)

(* While handlers overlap, every socket there is is excused.               *)
LEMMA Crowded ==
  ASSUME Typed, Alone, Followed, NEW k \in CallIds, calls[k].op # "idle",
         ~calls[k].alone \/ \E j \in CallIds : j # k /\ calls[j].op # "idle"
  PROVE  open \cup opening \subseteq excused
<1>1. ~calls[k].alone
  BY DEF Alone
<1>2. k \in Active
  BY DEF Active
<1> QED
  BY <1>1, <1>2 DEF Followed, OpeningMissed, CrowdMissed

(* Only a call that is under way is in the middle of a refresh.            *)
LEMMA Refreshing ==
  ASSUME Typed, NEW k \in CallIds, calls[k].pc \in {"written", "refresh", "apply"}
  PROVE  k \in Active
  BY DEF Typed, Placed, Active

(* When every socket is excused, nothing is asked of any.                  *)
LEMMA AllExcused ==
  ASSUME Typed', open' \cup opening' \subseteq excused'
  PROVE  Followed'
<1>1. ASSUME NEW k \in CallIds
      PROVE  Telling(k)'
  BY DEF Typed, Placed, Telling
<1> QED
  BY <1>1 DEF Followed, OfMembers, OpeningMissed, CrowdMissed, UpToDate

(* A handler does not open or close sockets, and excuses no fewer.         *)
LEMMA SocketsStay ==
  ASSUME NEW k \in CallIds, Proceed(k)
  PROVE  open' = open /\ opening' = opening /\ excused \subseteq excused'
<1>1. CASE Waits(k)
  BY <1>1 DEF Waits, ReadRole, CheckMembers, CheckRole, ReadExisting, ReadTarget,
     CountOwners, ReadUpdated, ReadDeleted, Refreshed, sockets
<1>2. CASE Writes(k)
  BY <1>2 DEF Writes, SetRole, AddMember, RemoveMember, CreateRole, UpdateRole, DeleteRole,
     sockets
<1>3. CASE Tells(k)
  BY <1>3 DEF Tells, Snapshot, Resolve, Apply, sockets
<1> QED
  BY <1>1, <1>2, <1>3, Proceeds

(* A handler step alone: what is left to show is said of its own call.     *)
LEMMA LonelyStep ==
  ASSUME Typed, Typed', Alone, Followed, NEW k \in CallIds, Proceed(k), calls[k].alone,
         OfMembers',
         \A u \in (open \cup opening) \ excused' : Fresh(u)' \/ Pending(k, u)',
         Telling(k)'
  PROVE  Followed'
<1>1. /\ Steps(k) /\ k \in Active /\ open' = open /\ opening' = opening
      /\ excused \subseteq excused'
  BY OneSteps, Busy, SocketsStay DEF Active
<1>2. \A j \in CallIds : j # k => calls'[j].op = "idle"
  BY <1>1 DEF Alone, Active, Steps
<1>3. \A j \in CallIds : calls'[j].pc \in {"written", "refresh", "apply"} =>
        j = k /\ calls'[k].op # "idle"
  BY <1>2 DEF Typed, Placed
<1>4. OpeningMissed'
  BY <1>1 DEF Followed, OpeningMissed
<1>5. CrowdMissed'
  BY <1>1, <1>2 DEF Active, Steps, Same, CrowdMissed
<1>6. UpToDate'
  <2>1. ASSUME NEW u, Pending(k, u)'
        PROVE  k \in Active'
    BY <1>3, <2>1 DEF Pending, Active
  <2> QED
    BY <1>1, <2>1 DEF UpToDate
<1>7. \A j \in CallIds : Telling(j)'
  BY <1>3 DEF Telling
<1> QED
  BY <1>4, <1>5, <1>6, <1>7 DEF Followed

LEMMA LoneStep ==
  ASSUME Typed, Typed', Kept, Alone, Followed, NEW k \in CallIds, Proceed(k), calls[k].alone
  PROVE  Followed'
<1>1. /\ TypeOK /\ calls \in [CallIds -> CallType] /\ Placed(k) /\ Telling(k)
      /\ roleOf \in [Users -> Roles \cup {None}] /\ open \subseteq Users
      /\ open' = open /\ opening' = opening /\ excused \subseteq excused'
  BY SocketsStay DEF Typed, TypeOK, Followed
<1>2. k \in Active /\ \A j \in CallIds : j # k => calls[j].op = "idle"
  BY Busy DEF Active, Alone
<1>3. ASSUME NEW u \in (open \cup opening) \ excused
      PROVE  u \in open /\ u \in Members /\ (Fresh(u) \/ Pending(k, u))
  BY <1>2, <1>3 DEF Followed, OfMembers, OpeningMissed, UpToDate, Active
<1> DEFINE Watched == (open \cup opening) \ excused'
<1>4. ASSUME \A u \in Watched : u \in Members' /\ (Fresh(u)' \/ Pending(k, u)'), Telling(k)'
      PROVE  Followed'
  BY <1>1, <1>4, LonelyStep DEF OfMembers
<1>5. CASE Waits(k)
  <2>1. UNCHANGED <<db, sockets, excused, counts>>
    BY <1>5 DEF Waits, ReadRole, CheckMembers, CheckRole, ReadExisting, ReadTarget,
       CountOwners, ReadUpdated, ReadDeleted, Refreshed
  <2>2. calls'[k].pc \in {"read", "check", "confirm", "write"}
    <3>1. CASE Return(k)
      BY <1>1, <3>1, Returned
    <3>2. ASSUME NEW pc \in {"check", "confirm", "write"}, Goto(k, pc)
          PROVE  calls'[k].pc = pc
      BY <1>1, <3>2, Gone
    <3>3. CASE CheckMembers(k)
      <4>1. (\E u \in Members \ {calls[k].user} : Holds(u)) \in BOOLEAN
        OBVIOUS
      <4> QED
        BY <1>1, <3>3, <4>1, Learnt DEF CheckMembers
    <3> QED
      BY <1>5, <3>1, <3>2, <3>3 DEF Waits, ReadRole, CheckRole, ReadExisting, ReadTarget,
         CountOwners, ReadUpdated, ReadDeleted, Refreshed
  <2>3. \A u : ~Pending(k, u)
    BY <1>5 DEF Waits, ReadRole, CheckMembers, CheckRole, ReadExisting, ReadTarget,
       CountOwners, ReadUpdated, ReadDeleted, Refreshed, At, Pending
  <2>4. \A u \in Watched : u \in Members' /\ Fresh(u)'
    BY <1>3, <2>1, <2>3 DEF db, sockets, Members, Fresh, Holds
  <2>5. Telling(k)'
    BY <2>2 DEF Telling
  <2> QED
    BY <1>4, <2>4, <2>5
<1>6. CASE Writes(k)
  <2>1. /\ UNCHANGED <<sockets, counts>> /\ calls[k].pc \in {"read", "write"}
        /\ Return(k) \/ Goto(k, "written")
    BY <1>6 DEF Writes, SetRole, AddMember, RemoveMember, CreateRole, UpdateRole, DeleteRole, At
  <2>2. calls'[k].pc \in {"read", "written"} /\ Telling(k)'
    BY <1>1, <2>1, Returned, Gone DEF Telling
  <2>3. \A u : ~Pending(k, u)
    BY <2>1 DEF Pending
  <2>4. ASSUME Goto(k, "written")
        PROVE  \A u : Pending(k, u)'
    BY <1>1, <2>4, Gone DEF Pending, Same
  <2>5. ASSUME \A u \in Watched : u \in Members' /\ Holds(u)' = Holds(u)
        PROVE  Followed'
    <3>1. \A u \in Watched : Fresh(u)'
      BY <1>1, <1>3, <2>1, <2>3, <2>5 DEF Fresh, sockets
    <3> QED
      BY <1>4, <2>2, <2>5, <3>1
  <2>6. CASE SetRole(k)
    <3>1. CASE UNCHANGED <<roleOf, owners>>
      BY <1>1, <1>3, <2>5, <2>6, <3>1 DEF SetRole, Members, Holds
    <3>2. CASE /\ roleOf' = [roleOf EXCEPT ![calls[k].user] = calls[k].role]
               /\ Goto(k, "written")
      <4>1. calls[k].role # None
        BY <1>1, <2>6, RolesAssumption DEF SetRole, At, Placed
      <4>2. \A u \in Watched : u \in Members'
        BY <1>1, <1>3, <3>2, <4>1 DEF Members
      <4> QED
        BY <1>4, <2>2, <2>4, <3>2, <4>2
    <3> QED
      BY <2>6, <3>1, <3>2 DEF SetRole
  <2>7. CASE AddMember(k)
    <3>1. /\ \A u \in Users : u \in Members => roleOf'[u] = roleOf[u]
          /\ keyed' = keyed
      BY <1>1, <2>7 DEF AddMember, Members
    <3> QED
      BY <1>1, <1>3, <2>5, <3>1 DEF Members, Holds
  <2>8. CASE RemoveMember(k)
    <3>1. /\ roleOf' = [roleOf EXCEPT ![calls[k].user] = None] /\ keyed' = keyed
          /\ excused' = excused \cup ({calls[k].user} \cap (open \cup opening))
      BY <2>8 DEF RemoveMember
    <3>2. \A u \in Watched : u # calls[k].user
      BY <3>1
    <3> QED
      BY <1>1, <1>3, <2>5, <3>1, <3>2 DEF Members, Holds
  <2>9. CASE CreateRole(k)
    <3>1. roleOf' = roleOf /\ keyed' \subseteq keyed \cup {calls[k].role}
      BY <2>9 DEF CreateRole
    <3>2. keyed \subseteq keyed' /\ (calls[k].role \in roles => keyed' = keyed)
      BY <2>9 DEF CreateRole
    <3>3. \A u \in Members : roleOf[u] \in roles
      BY DEF Kept, NobodyHoldsAMissingRole
    <3>4. \A u \in Members : Holds(u)' = Holds(u)
      BY <3>1, <3>2, <3>3 DEF Holds
    <3> QED
      BY <1>1, <1>3, <2>5, <3>1, <3>4 DEF Members
  <2>10. CASE UpdateRole(k)
    <3>1. UNCHANGED roleOf /\ Goto(k, "written")
      BY <2>10 DEF UpdateRole
    <3>2. \A u \in Watched : u \in Members'
      BY <1>1, <1>3, <3>1 DEF Members
    <3> QED
      BY <1>4, <2>2, <2>4, <3>1, <3>2
  <2>11. CASE DeleteRole(k)
    <3>1. UNCHANGED roleOf
      BY <2>11 DEF DeleteRole
    <3>2. \A u \in Users : Holds(u)' = Holds(u)
      BY <2>11 DEF DeleteRole, Held, Holds
    <3> QED
      BY <1>1, <1>3, <2>5, <3>1, <3>2 DEF Members
  <2> QED
    BY <1>6, <2>6, <2>7, <2>8, <2>9, <2>10, <2>11 DEF Writes
<1>7. CASE Tells(k)
  <2>1. UNCHANGED <<roles, keyed, roleOf, owners, excused>>
    BY <1>7 DEF Tells, Snapshot, Resolve, Apply, db
  <2>2. Members' = Members /\ \A u : Holds(u)' = Holds(u)
    BY <2>1 DEF Members, Holds
  <2>3. CASE Snapshot(k)
    <3>1. calls'[k].pc = "refresh" /\ calls'[k].todo = open /\ calls'[k].alone
      BY <1>1, <2>3, Listed DEF Same
    <3> QED
      BY <1>1, <1>3, <1>4, <2>1, <2>2, <3>1 DEF Pending, Telling
  <2>4. ASSUME NEW v \in Users, Resolve(k, v)
        PROVE  Followed'
    <3>1. calls[k].pc = "refresh" /\ v \in calls[k].todo /\ granted' = granted
      BY <2>4 DEF Resolve, sockets
    <3>2. CASE v \in Members
      <4>1. /\ calls'[k].pc = "apply" /\ calls'[k].who = v /\ calls'[k].has = Holds(v)
            /\ calls'[k].todo = calls[k].todo /\ calls'[k].alone
        BY <1>1, <2>4, <3>2, Resolved DEF Same
      <4>2. Telling(k)'
        BY <2>2, <4>1 DEF Telling
      <4> QED
        BY <1>1, <1>3, <1>4, <2>1, <2>2, <3>1, <4>1, <4>2 DEF Pending, Fresh
    <3>3. CASE v \notin Members
      <4>1. /\ calls'[k].pc = "refresh" /\ calls'[k].todo = calls[k].todo \ {v}
            /\ calls'[k].alone
        BY <1>1, <2>4, <3>3, Resolved DEF Same
      <4>2. Telling(k)'
        BY <4>1 DEF Telling
      <4> QED
        BY <1>1, <1>3, <1>4, <2>1, <2>2, <3>1, <3>3, <4>1, <4>2 DEF Pending, Fresh
    <3> QED
      BY <3>2, <3>3
  <2>5. CASE Apply(k)
    <3> DEFINE w == calls[k].who
    <3>1. /\ calls[k].pc = "apply"
          /\ granted' = IF calls[k].has THEN granted \cup ({w} \ {None}) ELSE granted \ {w}
      BY <2>5 DEF Apply
    <3>2. /\ calls'[k].pc = "refresh" /\ calls'[k].todo = calls[k].todo \ {w}
          /\ calls'[k].alone
      BY <1>1, <2>5, Told DEF Same
    <3>3. Telling(k)'
      BY <3>2 DEF Telling
    <3>4. ASSUME NEW u \in Watched
          PROVE  Fresh(u)' \/ Pending(k, u)'
      <4>0. u \in open /\ u # None /\ u \notin excused /\ (Fresh(u) \/ Pending(k, u))
        BY <1>1, <1>3, <2>1, <3>4, RolesAssumption
      <4>1. CASE u = w
        <5>1. calls[k].has = Holds(u)
          BY <1>1, <3>1, <4>0, <4>1 DEF Telling
        <5> QED
          BY <2>2, <3>1, <4>0, <4>1, <5>1 DEF Fresh
      <4>2. CASE u # w
        <5>1. u \in granted' <=> u \in granted
          BY <3>1, <4>2
        <5> QED
          BY <2>2, <3>1, <3>2, <4>0, <4>2, <5>1 DEF Fresh, Pending
      <4> QED
        BY <4>1, <4>2
    <3> QED
      BY <1>1, <1>3, <1>4, <2>1, <2>2, <3>3, <3>4
  <2> QED
    BY <1>7, <2>3, <2>4, <2>5 DEF Tells
<1> QED
  BY <1>5, <1>6, <1>7, Proceeds

(* A request, after which only sockets somebody told before are asked of.  *)
LEMMA AskFollowed ==
  ASSUME Typed, Typed', Alone, Followed,
         NEW r \in Requests, Begin(Request(r.op, r.user, r.role, r.keys))
  PROVE  Followed'
<1>1. PICK k \in CallIds : Starts(k, r)
  BY Begun DEF Typed
<1>2. /\ UNCHANGED <<roles, keyed, roleOf, owners, opening, open, granted>>
      /\ excused' = excused \cup (IF Active = {} THEN opening ELSE opening \cup open)
  BY DEF Begin, db, sockets
<1>3. CASE Active # {}
  <2>1. open' \cup opening' \subseteq excused'
    BY <1>2, <1>3
  <2> QED
    BY <2>1, AllExcused
<1>4. CASE Active = {}
  <2>1. excused' = excused \cup opening
    BY <1>2, <1>4
  <2>2. OfMembers' /\ OpeningMissed'
    BY <1>2, <2>1 DEF Followed, OfMembers, OpeningMissed, Members
  <2>3. \A j \in CallIds : j # k => calls'[j].op = "idle" /\ calls'[j].pc = calls[j].pc
    BY <1>1, <1>4 DEF Starts, Active
  <2>4. calls'[k].alone /\ calls'[k].pc = "read"
    <3>1. calls'[k].alone = (Active = {}) /\ calls'[k].pc = "read"
      BY <1>1 DEF Starts
    <3> QED
      BY <1>4, <3>1
  <2>5. CrowdMissed'
    BY <2>3, <2>4 DEF CrowdMissed, Active
  <2>6. UpToDate'
    <3>1. \A u \in (open \cup opening) \ excused : Fresh(u)
      BY <1>4 DEF Followed, UpToDate
    <3> QED
      BY <1>2, <2>1, <3>1 DEF UpToDate, Fresh, Holds
  <2>7. \A j \in CallIds : Telling(j)'
    <3>1. \A j \in CallIds : calls[j].pc # "apply"
      BY <1>4, Refreshing
    <3> QED
      BY <2>3, <2>4, <3>1 DEF Telling
  <2> QED
    BY <2>2, <2>5, <2>6, <2>7 DEF Followed
<1> QED
  BY <1>3, <1>4

(* A socket that opens while nothing runs carries what its member holds.   *)
LEMMA OpenFollowed ==
  ASSUME Typed, Followed, NEW u \in Users, OpenSocket(u)
  PROVE  Followed'
<1>1. /\ u \in Members /\ u \notin open \cup opening
      /\ UNCHANGED <<roles, keyed, roleOf, owners, open, calls>>
      /\ opening' = opening \cup {u}
      /\ granted' = IF Holds(u) THEN granted \cup {u} ELSE granted
      /\ excused' = IF Active = {} THEN excused ELSE excused \cup {u}
  BY DEF OpenSocket, db
<1>2. Active' = Active /\ Members' = Members /\ (\A v : Holds(v)' = Holds(v))
      /\ \A k \in CallIds : \A v : Pending(k, v)' <=> Pending(k, v)
  BY <1>1 DEF Active, Members, Holds, Pending
<1>3. u \notin granted
  BY <1>1 DEF Typed, TypeOK
<1>4. OfMembers' /\ OpeningMissed' /\ CrowdMissed'
  BY <1>1, <1>2 DEF Followed, OfMembers, OpeningMissed, CrowdMissed
<1>5. UpToDate'
  <2>1. ASSUME NEW v \in (open' \cup opening') \ excused'
        PROVE  Fresh(v)' \/ \E k \in Active : Pending(k, v)
    <3>1. CASE v = u
      BY <1>1, <1>2, <1>3, <3>1 DEF Fresh
    <3>2. CASE v # u
      <4>1. v \in (open \cup opening) \ excused
        BY <1>1, <2>1, <3>2
      <4>2. v \in granted' <=> v \in granted
        BY <1>1, <3>2
      <4> QED
        BY <1>2, <4>1, <4>2 DEF Followed, UpToDate, Fresh
    <3> QED
      BY <3>1, <3>2
  <2> QED
    BY <1>2, <2>1 DEF UpToDate, Active
<1>6. ASSUME NEW k \in CallIds
      PROVE  Telling(k)'
  BY <1>1, <1>2, <1>6 DEF Followed, Telling
<1> QED
  BY <1>4, <1>5, <1>6 DEF Followed

LEMMA AddFollowed ==
  ASSUME Typed, Followed, NEW u \in Users, AddSocket(u)
  PROVE  Followed'
<1>1. /\ u \in opening /\ UNCHANGED <<roles, keyed, roleOf, owners, granted, calls, excused>>
      /\ opening' = opening \ {u} /\ open' = open \cup {u}
  BY DEF AddSocket, db
<1>2. Active' = Active /\ Members' = Members /\ (\A v : Holds(v)' = Holds(v))
      /\ \A k \in CallIds : \A v : Pending(k, v)' <=> Pending(k, v)
  BY <1>1 DEF Active, Members, Holds, Pending
<1>3. OfMembers' /\ OpeningMissed'
  BY <1>1, <1>2 DEF Followed, OfMembers, OpeningMissed
<1>4. CrowdMissed'
  BY <1>1, <1>2 DEF Followed, CrowdMissed, OpeningMissed
<1>5. UpToDate'
  BY <1>1, <1>2 DEF Followed, UpToDate, Fresh, Active
<1>6. ASSUME NEW k \in CallIds
      PROVE  Telling(k)'
  BY <1>1, <1>2, <1>6 DEF Followed, Telling
<1> QED
  BY <1>3, <1>4, <1>5, <1>6 DEF Followed

LEMMA CloseFollowed ==
  ASSUME Typed, Followed, NEW u \in Users, CloseSocket(u)
  PROVE  Followed'
<1>1. /\ u \in open /\ u \notin opening
      /\ UNCHANGED <<roles, keyed, roleOf, owners, opening>>
      /\ open' = open \ {u} /\ granted' = granted \ {u} /\ excused' = excused \ {u}
  BY DEF CloseSocket, db, Typed, TypeOK
<1>2. \A k \in CallIds :
        /\ Same(calls'[k], calls[k]) /\ calls'[k].pc = calls[k].pc
        /\ calls'[k].has = calls[k].has
        /\ calls'[k].todo = calls[k].todo \ {u}
        /\ calls'[k].who = (IF calls[k].who = u THEN None ELSE calls[k].who)
  BY Struck DEF Typed
<1>3. Active' = Active /\ Members' = Members /\ (\A v : Holds(v)' = Holds(v))
      /\ \A k \in CallIds : \A v : v # u => (Pending(k, v)' <=> Pending(k, v))
  BY <1>1, <1>2 DEF Active, Members, Holds, Pending, Same
<1>4. OfMembers' /\ OpeningMissed' /\ CrowdMissed'
  BY <1>1, <1>2, <1>3 DEF Followed, OfMembers, OpeningMissed, CrowdMissed, Same, Active
<1>5. UpToDate'
  <2>1. ASSUME NEW v \in (open' \cup opening') \ excused'
        PROVE  Fresh(v)' \/ \E k \in Active' : Pending(k, v)'
    <3>1. v # u /\ v \in (open \cup opening) \ excused
      BY <1>1, <2>1
    <3>2. Fresh(v) \/ \E k \in Active : Pending(k, v)
      BY <3>1 DEF Followed, UpToDate
    <3> QED
      BY <1>1, <1>3, <3>1, <3>2 DEF Fresh, Active
  <2> QED
    BY <2>1 DEF UpToDate
<1>6. ASSUME NEW k \in CallIds
      PROVE  Telling(k)'
  BY <1>1, <1>2, <1>3, <1>6 DEF Followed, Telling
<1> QED
  BY <1>4, <1>5, <1>6 DEF Followed

LEMMA FollowedStep == Typed /\ Typed' /\ Kept /\ Alone /\ Followed /\ [Next]_vars => Followed'
<1> SUFFICES ASSUME Typed, Typed', Kept, Alone, Followed, [Next]_vars
             PROVE  Followed'
  OBVIOUS
<1>1. CASE Ask
  BY <1>1, AskFollowed DEF Ask
<1>2. ASSUME NEW k \in CallIds, Proceed(k)
      PROVE  Followed'
  <2>1. CASE calls[k].alone
    BY <1>2, <2>1, LoneStep
  <2>2. CASE ~calls[k].alone
    <3>1. open \cup opening \subseteq excused
      BY <1>2, <2>2, Busy, Crowded
    <3>2. open' \cup opening' \subseteq excused'
      BY <1>2, <3>1, SocketsStay
    <3> QED
      BY <3>2, AllExcused
  <2> QED
    BY <2>1, <2>2
<1>3. ASSUME NEW u \in Users, OpenSocket(u) \/ AddSocket(u) \/ CloseSocket(u)
      PROVE  Followed'
  BY <1>3, OpenFollowed, AddFollowed, CloseFollowed
<1>4. CASE UNCHANGED vars
  BY <1>4 DEF vars, db, sockets, Followed, OfMembers, OpeningMissed, CrowdMissed, UpToDate,
     Telling, Members, Active, Fresh, Holds, Pending
<1> QED
  BY <1>1, <1>2, <1>3, <1>4 DEF Next

-----------------------------------------------------------------------------
(* The theorems.                                                           *)

LEMMA Initially == Init => IInv
<1> SUFFICES ASSUME Init
             PROVE  IInv
  OBVIOUS
<1>1. Idle.op = "idle" /\ Idle.pc = "read"
  BY DEF Idle, Request
<1>2. \A k \in CallIds : calls[k].op = "idle" /\ calls[k].pc = "read"
  BY <1>1 DEF Init
<1>3. Kept
  <2>1. roles = Builtins /\ "owner" \in Builtins
    BY DEF Init, Builtins
  <2>2. \A u \in Users : roleOf[u] = "owner" \/ roleOf[u] = None
    BY DEF Init
  <2> QED
    BY <2>1, <2>2 DEF Kept, NobodyHoldsAMissingRole, Members
<1>4. Alone
  BY <1>2 DEF Alone
<1>5. Vouched
  <2>1. IsFiniteSet(owners)
    BY FS_Singleton DEF Init
  <2> QED
    BY <1>2, <2>1 DEF Vouched, Checked, At
<1>6. Followed
  <2>1. open = {Founder} /\ opening = {} /\ granted = {Founder}
    BY DEF Init
  <2>2. Founder \in Members /\ Holds(Founder)
    BY RolesAssumption DEF Init, Members, Holds, Roles, Builtins
  <2> QED
    BY <1>2, <2>1, <2>2 DEF Followed, OfMembers, OpeningMissed, CrowdMissed, UpToDate, Telling,
       Active, Fresh
<1> QED
  BY TypedInit, <1>3, <1>4, <1>5, <1>6 DEF IInv

LEMMA Inductive == IInv /\ [Next]_vars => IInv'
  BY TypedStep, KeptStep, AloneStep, VouchedStep, FollowedStep DEF IInv

LEMMA Invariant == Spec => []IInv
  BY Initially, Inductive, PTL DEF Spec

(* Members, roles, sockets and calls have their types.                     *)
THEOREM TypeCorrect == Spec => []TypeOK
<1>1. IInv => TypeOK
  BY DEF IInv, Typed
<1> QED
  BY <1>1, Invariant, PTL

(* role.delete never takes a role somebody has, whoever is given it while  *)
(* the handler waits.                                                      *)
THEOREM RolesStay == Spec => []NobodyHoldsAMissingRole
<1>1. IInv => NobodyHoldsAMissingRole
  BY DEF IInv, Kept
<1> QED
  BY <1>1, Invariant, PTL

(* A change of a role or of who has it reaches every open socket by the    *)
(* time its handler ends, except where handlers overlap, a socket opens    *)
(* beside one, or a member was removed.                                    *)
THEOREM ChangesReachSockets == Spec => []PermissionsAreFresh
<1>1. IInv => PermissionsAreFresh
  BY DEF IInv, Followed, UpToDate, PermissionsAreFresh
<1> QED
  BY <1>1, Invariant, PTL

(* A member.set-role that runs alone leaves somebody members.manage.       *)
THEOREM KeysStayWithSomebody == Spec => LoneSetRoleKeepsTheKeys
<1>1. ASSUME IInv, NEW k \in CallIds, SetRole(k), calls[k].alone
      PROVE  \E u \in Users : roleOf'[u] \in keyed'
  <2>1. /\ roleOf \in [Users -> Roles \cup {None}] /\ calls[k].user \in Users
        /\ keyed' = keyed /\ keyed \subseteq roles
    BY <1>1 DEF IInv, Typed, TypeOK, Placed, SetRole, At
  <2>2. \/ \E u \in Members \ {calls[k].user} : Holds(u)
        \/ calls[k].user \in Members /\ calls[k].role \in keyed
    BY <1>1 DEF IInv, Vouched, Checked, SetRole
  <2>3. CASE UNCHANGED roleOf /\ ~(calls[k].user \in Members /\ calls[k].role \in keyed)
    BY <2>1, <2>2, <2>3 DEF Members, Holds
  <2>4. CASE roleOf' = [roleOf EXCEPT ![calls[k].user] = calls[k].role]
    BY <2>1, <2>2, <2>4 DEF Members, Holds
  <2> QED
    BY <1>1, <2>1, <2>3, <2>4 DEF SetRole
<1>2. IInv => [\A k \in CallIds : SetRole(k) /\ calls[k].alone
                 => \E u \in Users : roleOf'[u] \in keyed']_vars
  BY <1>1
<1> QED
  BY <1>2, Invariant, PTL DEF LoneSetRoleKeepsTheKeys

(* A removal that runs alone leaves the project an owner by rank.          *)
THEOREM RemovalLeavesAnOwner == Spec => LoneRemovalLeavesAnOwner
<1>1. ASSUME IInv, NEW k \in CallIds, RemoveMember(k), calls[k].alone, owners # {}
      PROVE  owners' # {}
  <2>1. calls[k].user \notin owners \/ \E u \in owners : u # calls[k].user
    BY <1>1 DEF IInv, Vouched, Checked, RemoveMember
  <2> QED
    BY <1>1, <2>1 DEF RemoveMember
<1>2. IInv => [\A k \in CallIds : RemoveMember(k) /\ calls[k].alone /\ owners # {}
                 => owners' # {}]_vars
  BY <1>1
<1> QED
  BY <1>2, Invariant, PTL DEF LoneRemovalLeavesAnOwner
=============================================================================
