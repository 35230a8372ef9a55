---------------------------- MODULE ProjectRoles ----------------------------
(***************************************************************************)
(* Who may do what in one project: its roles, its members, the rank each   *)
(* member still has from before there were roles, and the capabilities     *)
(* every open socket carries (apps/server/src/permissions.ts,              *)
(* workspaces/members.ts and the role and member handlers of               *)
(* ws/dispatch.ts).                                                        *)
(*                                                                         *)
(* Of the capabilities one matters here, members.manage: it admits to      *)
(* every handler below and is what somebody has to keep.  A handler is a   *)
(* call that awaits between its queries; a query is one step.              *)
(***************************************************************************)
EXTENDS Integers, FiniteSets

CONSTANTS
  Users,        \* accounts
  Founder,      \* the account that created the project
  Custom,       \* ids of roles the project may add
  None,         \* no role, no user
  MaxCalls,     \* bound: handlers awaiting at once
  MaxRequests,  \* bound: requests sent
  MaxOpens      \* bound: sockets opened after the first

Builtins == {"owner", "editor", "viewer"}
Roles == Builtins \cup Custom

ASSUME RolesAssumption ==
  /\ Founder \in Users
  /\ None \notin Users \cup Roles
  /\ Custom \cap Builtins = {}
  /\ MaxCalls \in Nat \ {0} /\ MaxRequests \in Nat /\ MaxOpens \in Nat

VARIABLES
  roles,     \* the roles there are
  keyed,     \* the roles with members.manage
  roleOf,    \* workspace_members.role_id; None for no member
  owners,    \* the members whose legacy rank is owner
  opening,   \* sockets whose upgrade has looked up the membership
  open,      \* sockets in the hub, one per user
  granted,   \* sockets that carry members.manage
  calls,     \* the handlers that await
  excused,   \* history: sockets a refresh is known to miss
  requests,  \* how many requests were sent
  opens      \* how many sockets were opened

db == <<roles, keyed, roleOf, owners>>
sockets == <<opening, open, granted>>
counts == <<requests, opens>>
vars == <<db, sockets, calls, excused, counts>>

-----------------------------------------------------------------------------

CallIds == 1..MaxCalls
Ops == {"idle", "set-role", "remove", "add", "create", "update", "delete"}

(* found is what the last query told the handler; todo and who are         *)
(* refreshPermissions' loop, has what it is about to put on who's socket.  *)
(* alone is a history field: no other handler has run since this began.    *)
CallType == [op : Ops,
             pc : {"read", "check", "confirm", "write", "written", "refresh", "apply"},
             user : Users \cup {None}, role : Roles \cup {None},
             found : BOOLEAN, todo : SUBSET Users, who : Users \cup {None},
             has : BOOLEAN, alone : BOOLEAN]

Request(op, user, role, keys) ==
  [op |-> op, pc |-> "read", user |-> user, role |-> role, found |-> keys,
   todo |-> {}, who |-> None, has |-> FALSE, alone |-> TRUE]
Idle == Request("idle", None, None, FALSE)

Members == {u \in Users : roleOf[u] # None}
Holds(u) == roleOf[u] \in keyed
Active == {k \in CallIds : calls[k].op # "idle"}

TypeOK ==
  /\ roles \subseteq Roles
  /\ keyed \subseteq roles
  /\ roleOf \in [Users -> Roles \cup {None}]
  /\ owners \subseteq Members
  /\ opening \subseteq Users
  /\ open \subseteq Users \ opening
  /\ granted \subseteq opening \cup open
  /\ calls \in [CallIds -> CallType]
  /\ excused \subseteq Users
  /\ requests \in Nat
  /\ opens \in Nat

(* createWorkspace(): the three roles and the creator in the one that can  *)
(* do everything, looking at the project.                                  *)
Init ==
  /\ roles = Builtins
  /\ keyed = {"owner"}
  /\ roleOf = [u \in Users |-> IF u = Founder THEN "owner" ELSE None]
  /\ owners = {Founder}
  /\ opening = {}
  /\ open = {Founder}
  /\ granted = {Founder}
  /\ calls = [k \in CallIds |-> Idle]
  /\ excused = {}
  /\ requests = 0
  /\ opens = 0

-----------------------------------------------------------------------------
(* requireCapability(), then the handler's first query is on its way.  Two *)
(* handlers at once may refresh the sockets in either order, and a socket  *)
(* that is opening may miss what is about to happen.                       *)
Begin(request) ==
  /\ open \cap granted # {}
  /\ requests < MaxRequests
  /\ requests' = requests + 1
  /\ LET others == Active
         k == CHOOSE j \in CallIds \ others : \A i \in CallIds \ others : j <= i
     IN /\ others # CallIds
        /\ calls' = [j \in CallIds |->
             IF j = k THEN [request EXCEPT !.alone = (others = {})]
             ELSE [calls[j] EXCEPT !.alone = FALSE]]
        /\ excused' = excused \cup (IF others = {} THEN opening ELSE opening \cup open)
  /\ UNCHANGED <<db, sockets, opens>>

Requests ==
  [op : {"set-role"}, user : Users, role : roles, keys : {FALSE}]
  \cup [op : {"remove"}, user : Users, role : {None}, keys : {FALSE}]
  \cup [op : {"add"}, user : Users, role : {"editor", "viewer"}, keys : {FALSE}]
  \cup [op : {"create"}, user : {None}, role : Custom \ roles, keys : BOOLEAN]
  \cup [op : {"update"}, user : {None}, role : roles, keys : BOOLEAN]
  \cup [op : {"delete"}, user : {None}, role : roles, keys : {FALSE}]
Ask == \E r \in Requests : Begin(Request(r.op, r.user, r.role, r.keys))

At(k, op, pc) == calls[k].op = op /\ calls[k].pc = pc
Becomes(k, call) == calls' = [calls EXCEPT ![k] = call]
Goto(k, pc) == Becomes(k, [calls[k] EXCEPT !.pc = pc])
Found(k, pc, found) == Becomes(k, [calls[k] EXCEPT !.pc = pc, !.found = found])
Return(k) == Becomes(k, Idle)

-----------------------------------------------------------------------------
(* member.set-role                                                         *)

ReadRole(k) ==
  /\ At(k, "set-role", "read")
  /\ IF calls[k].role \in roles THEN Goto(k, "check") ELSE Return(k)
  /\ UNCHANGED <<db, sockets, excused, counts>>

(* Mutant: the member's present role counts for the time after the move.   *)
CheckMembersAsTheyAre(k) ==
  /\ At(k, "set-role", "check")
  /\ Found(k, "confirm", \E u \in Members : Holds(u))
  /\ UNCHANGED <<db, sockets, excused, counts>>

(* wouldStrandProject(): who else can manage members ...                   *)
CheckMembers(k) ==
  /\ At(k, "set-role", "check")
  /\ Found(k, "confirm", \E u \in Members \ {calls[k].user} : Holds(u))
  /\ UNCHANGED <<db, sockets, excused, counts>>

(* ... or could the member, in the new role?                               *)
CheckRole(k) ==
  /\ At(k, "set-role", "confirm")
  /\ IF calls[k].found \/ (calls[k].user \in Members /\ calls[k].role \in keyed)
     THEN Goto(k, "write")
     ELSE Return(k)
  /\ UNCHANGED <<db, sockets, excused, counts>>

(* The rank follows: a role the project made counts as editor.  A role     *)
(* that is gone by now breaks the foreign key and the call fails.          *)
SetRole(k) ==
  LET u == calls[k].user
      role == calls[k].role
  IN
  /\ At(k, "set-role", "write")
  /\ IF u \in Members /\ role \notin roles
     THEN Return(k) /\ UNCHANGED <<roleOf, owners>>
     ELSE /\ IF u \in Members
             THEN /\ roleOf' = [roleOf EXCEPT ![u] = role]
                  /\ owners' = IF role = "owner" THEN owners \cup {u} ELSE owners \ {u}
             ELSE UNCHANGED <<roleOf, owners>>
          /\ Goto(k, "written")
  /\ UNCHANGED <<roles, keyed, sockets, excused, counts>>

-----------------------------------------------------------------------------
(* workspace.member.add and workspace.member.remove                        *)

ReadExisting(k) ==
  /\ At(k, "add", "read")
  /\ IF calls[k].user \in Members THEN Return(k) ELSE Goto(k, "write")
  /\ UNCHANGED <<db, sockets, excused, counts>>

(* The primary key refuses a second row for the same member.               *)
AddMember(k) ==
  /\ At(k, "add", "write")
  /\ roleOf' = IF calls[k].user \in Members THEN roleOf
               ELSE [roleOf EXCEPT ![calls[k].user] = calls[k].role]
  /\ Return(k)
  /\ UNCHANGED <<roles, keyed, owners, sockets, excused, counts>>

ReadTarget(k) ==
  /\ At(k, "remove", "read")
  /\ CASE calls[k].user \notin Members -> Return(k)
       [] calls[k].user \in owners -> Goto(k, "check")
       [] OTHER -> Goto(k, "write")
  /\ UNCHANGED <<db, sockets, excused, counts>>

(* Mutant: off by one.                                                     *)
CountNoOwners(k) ==
  /\ At(k, "remove", "check")
  /\ IF Cardinality(owners) < 1 THEN Return(k) ELSE Goto(k, "write")
  /\ UNCHANGED <<db, sockets, excused, counts>>

CountOwners(k) ==
  /\ At(k, "remove", "check")
  /\ IF Cardinality(owners) <= 1 THEN Return(k) ELSE Goto(k, "write")
  /\ UNCHANGED <<db, sockets, excused, counts>>

(* Nothing tells the sockets.                                              *)
RemoveMember(k) ==
  /\ At(k, "remove", "write")
  /\ roleOf' = [roleOf EXCEPT ![calls[k].user] = None]
  /\ owners' = owners \ {calls[k].user}
  /\ excused' = excused \cup ({calls[k].user} \cap (open \cup opening))
  /\ Return(k)
  /\ UNCHANGED <<roles, keyed, sockets, counts>>

-----------------------------------------------------------------------------
(* role.upsert and role.delete                                             *)

CreateRole(k) ==
  /\ At(k, "create", "read")
  /\ roles' = roles \cup {calls[k].role}
  /\ keyed' = IF calls[k].found /\ calls[k].role \notin roles
              THEN keyed \cup {calls[k].role} ELSE keyed
  /\ Return(k)
  /\ UNCHANGED <<roleOf, owners, sockets, excused, counts>>

ReadUpdated(k) ==
  /\ At(k, "update", "read")
  /\ IF calls[k].role \in roles THEN Goto(k, "write") ELSE Return(k)
  /\ UNCHANGED <<db, sockets, excused, counts>>

(* Mutant: the sockets are not told.                                       *)
UpdateRoleOnly(k) ==
  /\ At(k, "update", "write")
  /\ keyed' = IF calls[k].found THEN keyed \cup ({calls[k].role} \cap roles)
              ELSE keyed \ {calls[k].role}
  /\ Return(k)
  /\ UNCHANGED <<roles, roleOf, owners, sockets, excused, counts>>

(* Nobody asks who would be left to manage members.                        *)
UpdateRole(k) ==
  /\ At(k, "update", "write")
  /\ keyed' = IF calls[k].found THEN keyed \cup ({calls[k].role} \cap roles)
              ELSE keyed \ {calls[k].role}
  /\ Goto(k, "written")
  /\ UNCHANGED <<roles, roleOf, owners, sockets, excused, counts>>

Held(role) == \E u \in Users : roleOf[u] = role

ReadDeleted(k) ==
  LET role == calls[k].role
  IN
  /\ At(k, "delete", "read")
  /\ IF role \in roles \ Builtins /\ ~Held(role) THEN Goto(k, "write") ELSE Return(k)
  /\ UNCHANGED <<db, sockets, excused, counts>>

(* Somebody may hold the role by now; then the foreign key refuses.        *)
DeleteRole(k) ==
  /\ At(k, "delete", "write")
  /\ IF Held(calls[k].role) THEN UNCHANGED <<roles, keyed>>
     ELSE roles' = roles \ {calls[k].role} /\ keyed' = keyed \ {calls[k].role}
  /\ Return(k)
  /\ UNCHANGED <<roleOf, owners, sockets, excused, counts>>

-----------------------------------------------------------------------------
(* refreshPermissions(): the sockets there are now, one query for each.    *)

Snapshot(k) ==
  /\ calls[k].op \in {"set-role", "update"} /\ calls[k].pc = "written"
  /\ Becomes(k, [calls[k] EXCEPT !.pc = "refresh", !.todo = open])
  /\ UNCHANGED <<db, sockets, excused, counts>>

(* Mutant: somebody who is no member ends the loop.                        *)
ResolveOrStop(k, u) ==
  /\ calls[k].pc = "refresh"
  /\ u \in calls[k].todo
  /\ IF u \in Members
     THEN Becomes(k, [calls[k] EXCEPT !.pc = "apply", !.who = u, !.has = Holds(u)])
     ELSE Return(k)
  /\ UNCHANGED <<db, sockets, excused, counts>>

(* membershipFor(): somebody who is no member any more is skipped.         *)
Resolve(k, u) ==
  /\ calls[k].pc = "refresh"
  /\ u \in calls[k].todo
  /\ IF u \in Members
     THEN Becomes(k, [calls[k] EXCEPT !.pc = "apply", !.who = u, !.has = Holds(u)])
     ELSE Becomes(k, [calls[k] EXCEPT !.todo = @ \ {u}])
  /\ UNCHANGED <<db, sockets, excused, counts>>

Apply(k) ==
  LET u == calls[k].who
  IN
  /\ calls[k].pc = "apply"
  /\ granted' = IF calls[k].has THEN granted \cup ({u} \ {None}) ELSE granted \ {u}
  /\ Becomes(k, [calls[k] EXCEPT !.pc = "refresh", !.todo = @ \ {u}, !.who = None,
                                 !.has = FALSE])
  /\ UNCHANGED <<db, opening, open, excused, counts>>

Refreshed(k) ==
  /\ calls[k].pc = "refresh"
  /\ calls[k].todo = {}
  /\ Return(k)
  /\ UNCHANGED <<db, sockets, excused, counts>>

-----------------------------------------------------------------------------
(* Sockets                                                                 *)

(* The upgrade looks up the membership and the user, then the hub is told. *)
OpenSocket(u) ==
  /\ u \in Members \ (open \cup opening)
  /\ opens < MaxOpens
  /\ opens' = opens + 1
  /\ opening' = opening \cup {u}
  /\ granted' = IF Holds(u) THEN granted \cup {u} ELSE granted
  /\ excused' = IF Active = {} THEN excused ELSE excused \cup {u}
  /\ UNCHANGED <<db, open, calls, requests>>

AddSocket(u) ==
  /\ u \in opening
  /\ opening' = opening \ {u}
  /\ open' = open \cup {u}
  /\ UNCHANGED <<db, granted, calls, excused, counts>>

(* A refresh that has this socket on its list updates one nobody uses.     *)
CloseSocket(u) ==
  /\ u \in open
  /\ open' = open \ {u}
  /\ granted' = granted \ {u}
  /\ calls' = [k \in CallIds |->
       [calls[k] EXCEPT !.todo = @ \ {u}, !.who = IF @ = u THEN None ELSE @]]
  /\ excused' = excused \ {u}
  /\ UNCHANGED <<db, opening, counts>>

-----------------------------------------------------------------------------

Proceed(k) ==
  \/ ReadRole(k) \/ CheckMembers(k) \/ CheckRole(k) \/ SetRole(k)
  \/ ReadExisting(k) \/ AddMember(k)
  \/ ReadTarget(k) \/ CountOwners(k) \/ RemoveMember(k)
  \/ CreateRole(k) \/ ReadUpdated(k) \/ UpdateRole(k)
  \/ ReadDeleted(k) \/ DeleteRole(k)
  \/ Snapshot(k) \/ (\E u \in Users : Resolve(k, u)) \/ Apply(k) \/ Refreshed(k)

Next ==
  \/ Ask
  \/ \E k \in CallIds : Proceed(k)
  \/ \E u \in Users : OpenSocket(u) \/ AddSocket(u) \/ CloseSocket(u)

Spec == Init /\ [][Next]_vars

(* Queries are answered: while handlers await, one of them goes on.        *)
FairSpec == Spec /\ WF_vars(\E k \in CallIds : Proceed(k))

-----------------------------------------------------------------------------

(* No member is left with a role that is gone, also when the role is       *)
(* deleted while it is being given to somebody.                            *)
NobodyHoldsAMissingRole == \A u \in Members : roleOf[u] \in roles

(* "Somebody has to keep the keys": a member.set-role that runs alone      *)
(* never moves the last member who can manage members.                     *)
LoneSetRoleKeepsTheKeys ==
  [][\A k \in CallIds : SetRole(k) /\ calls[k].alone
       => \E u \in Users : roleOf'[u] \in keyed']_vars

(* "Cannot remove the last workspace owner": a removal that runs alone     *)
(* takes no project its last owner by rank.                                *)
LoneRemovalLeavesAnOwner ==
  [][\A k \in CallIds : RemoveMember(k) /\ calls[k].alone /\ owners # {}
       => owners' # {}]_vars

(* "A change takes effect now, not on reconnect": when no handler runs, an *)
(* open socket carries what its member holds.  Void for a socket that was  *)
(* opening or open during two handlers at once, that opened during one, or *)
(* whose member was removed.                                               *)
Fresh(u) == u \in granted <=> Holds(u)
PermissionsAreFresh ==
  Active = {} => \A u \in open \ excused : Fresh(u)

(* ... and a capability that was taken away is on its way off the socket.  *)
Outdated(u) == u \in (open \cap granted) \ excused /\ ~Holds(u)
RevocationArrives == \A u \in Users : []<>~Outdated(u)

(* "Somebody must keep members.manage."                                    *)
SomebodyKeepsTheKeys == \E u \in Users : Holds(u)
=============================================================================
