---------------------------- MODULE ScimDirectory ----------------------------
(***************************************************************************)
(* ScimService of webbpulse.identity.scim over a product's hooks: a        *)
(* tenant's directory client creates, replaces, patches and deletes users  *)
(* and one group's members, several requests at a time.  A user stored     *)
(* inactive is blocked by a hook called afterwards; members change by      *)
(* difference.                                                             *)
(***************************************************************************)
EXTENDS Naturals, Sequences, SequencesExt

CONSTANTS ScimUsers, UserNames, ScimRequests,
          PatchBodies    \* member patches clients send: sequences of [op, ids]

ASSUME BodiesNameUsers == \A ops \in PatchBodies : ops \in Seq([op : {"add", "remove"}, ids : SUBSET ScimUsers])

VARIABLES people,      \* the hooks' users: [there, name, active]
          blocked,     \* users whose deactivation stands: sessions ended, sign-in refused
          inGroup,     \* the group's members
          scimRequest, \* what each request is doing
          disturbed,   \* history: users whose change met another, or died before its hook
          owed,        \* history: members no request that knew of them has removed since they were added
          intended     \* history: what a patch nobody met must leave

scimVars == <<people, blocked, inGroup, scimRequest, disturbed, owed, intended>>

Nobody == [there |-> FALSE, name |-> "", active |-> FALSE]
Quiet == [at |-> "idle"]
NowAt(p, what) == scimRequest' = [scimRequest EXCEPT ![p] = what]
AtStep(p, at) == scimRequest[p].at = at
UserSteps == {"check name", "store user", "deactivate", "reactivate"}
GroupSteps == {"remove members", "add members"}
OnUser(p, u) == scimRequest[p].at \in UserSteps /\ scimRequest[p].user = u
OnGroup(p) == scimRequest[p].at \in GroupSteps
NoIntent == [clear |-> FALSE, members |-> {}]

ScimInit ==
  /\ people = [u \in ScimUsers |-> Nobody]
  /\ blocked = {}
  /\ inGroup = {}
  /\ scimRequest = [p \in ScimRequests |-> Quiet]
  /\ disturbed = {}
  /\ owed = {}
  /\ intended = NoIntent

\* _ensure_unique: the directory is listed by userName.
EnsureUnique(name, own) == \A u \in ScimUsers \ own : people[u].there => people[u].name # name

\* create_user: the name is looked up, then the hook stores the row, or refuses
\* a duplicate of its own accord.
CreateScimUser(p, name, active) ==
  /\ AtStep(p, "idle")
  /\ EnsureUnique(name, {})
  /\ NowAt(p, [at |-> "create user", name |-> name, active |-> active])
  /\ UNCHANGED <<people, blocked, inGroup, disturbed, owed, intended>>

StoreNewUser(p) ==
  LET r == scimRequest[p]
  IN /\ AtStep(p, "create user")
     /\ \/ \E u \in ScimUsers :
             /\ ~people[u].there /\ u \notin disturbed /\ \A q \in ScimRequests : ~OnUser(q, u)
             /\ people' = [people EXCEPT ![u] = [there |-> TRUE, name |-> r.name, active |-> r.active]]
             /\ NowAt(p, IF r.active THEN Quiet ELSE [at |-> "deactivate", user |-> u])
        \/ NowAt(p, Quiet) /\ UNCHANGED people
     /\ intended' = NoIntent
     /\ UNCHANGED <<blocked, inGroup, disturbed, owed>>

\* replace_user and patch_user: the row is read, and If-Match compared with it...
ReadScimUser(p, u, name, active) ==
  /\ AtStep(p, "idle")
  /\ people[u].there
  /\ NowAt(p, [at |-> IF name # people[u].name THEN "check name" ELSE "store user",
               user |-> u, before |-> people[u], after |-> [there |-> TRUE, name |-> name, active |-> active]])
  /\ disturbed' = IF \E q \in ScimRequests : OnUser(q, u) THEN disturbed \cup {u} ELSE disturbed
  /\ UNCHANGED <<people, blocked, inGroup, owed, intended>>

\* ...a new name is looked up...
CheckName(p) ==
  LET r == scimRequest[p]
  IN /\ AtStep(p, "check name")
     /\ NowAt(p, IF EnsureUnique(r.after.name, {r.user}) THEN [r EXCEPT !.at = "store user"] ELSE Quiet)
     /\ UNCHANGED <<people, blocked, inGroup, disturbed, owed, intended>>

SideEffect(before, after) ==
  CASE before.active /\ ~after.active -> "deactivate"
    [] ~before.active /\ after.active -> "reactivate"
    [] OTHER -> "idle"

\* ..._store_user writes what the body gives, and compares it with what was read.
StoreScimUser(p) ==
  LET r == scimRequest[p]
  IN /\ AtStep(p, "store user")
     /\ IF people[r.user].there
        THEN /\ people' = [people EXCEPT ![r.user] = r.after]
             /\ NowAt(p, [at |-> SideEffect(r.before, r.after), user |-> r.user])
        ELSE NowAt(p, Quiet) /\ UNCHANGED people
     /\ UNCHANGED <<blocked, inGroup, disturbed, owed, intended>>

RunHook(p) ==
  /\ \/ AtStep(p, "deactivate") /\ blocked' = blocked \cup {scimRequest[p].user}
     \/ AtStep(p, "reactivate") /\ blocked' = blocked \ {scimRequest[p].user}
  /\ NowAt(p, Quiet)
  /\ UNCHANGED <<people, inGroup, disturbed, owed, intended>>

\* The hook removes the row and its memberships.
DeleteScimUser(u) ==
  /\ people[u].there
  /\ people' = [people EXCEPT ![u] = Nobody]
  /\ inGroup' = inGroup \ {u}
  /\ owed' = owed \ {u}
  /\ disturbed' = disturbed \cup {u}
  /\ intended' = NoIntent
  /\ UNCHANGED <<blocked, scimRequest>>

Named(ops, op) == UNION {o.ids : o \in {o \in ToSet(ops) : o.op = op}}

\* apply_patch: operations in order, over the members as read.  A member is who
\* was one and is never removed, or is added and not removed afterwards.
ApplyPatch(members, ops) ==
  (members \ Named(ops, "remove"))
    \cup UNION {ops[i].ids \ UNION {ops[j].ids : j \in {j \in i..Len(ops) : ops[j].op = "remove"}} :
               i \in {i \in 1..Len(ops) : ops[i].op = "add"}}

\* member_changes: all the ids added and all the ids removed; an id in both is
\* only removed.
MemberChanges(ops) == [remove |-> Named(ops, "remove"), add |-> Named(ops, "add") \ Named(ops, "remove")]

\* A body that adds an id it removed earlier means something else in order.
Unambiguous(ops) ==
  \A i, j \in 1..Len(ops) : i < j /\ ops[i].op = "remove" /\ ops[j].op = "add" => ops[i].ids \cap ops[j].ids = {}

Begins(p, changes, saw, result, clear) ==
  /\ NowAt(p, [at |-> "remove members", remove |-> changes.remove, add |-> changes.add, saw |-> saw])
  /\ intended' = IF clear /\ \A q \in ScimRequests : ~OnGroup(q) THEN [clear |-> TRUE, members |-> result] ELSE NoIntent

\* patch_group: adds and removals alone go straight to the member hooks.
PatchMembers(p, ops) ==
  /\ AtStep(p, "idle")
  /\ Begins(p, MemberChanges(ops), ScimUsers, ApplyPatch(inGroup, ops) \cap {u \in ScimUsers : people[u].there}, Unambiguous(ops))
  /\ UNCHANGED <<people, blocked, inGroup, disturbed, owed>>

\* Variant: the group is made what the body says.
DifferenceOf(seen, wanted) == [remove |-> ScimUsers \ wanted, add |-> wanted]

\* _store_group: the difference between what was read and what is wanted.
Difference(seen, wanted) == [remove |-> seen \ wanted, add |-> wanted \ seen]

\* replace_group, and any other patch: the members are read first.
ReplaceGroup(p, wanted) ==
  /\ AtStep(p, "idle")
  /\ Begins(p, Difference(inGroup, wanted), inGroup, wanted \cap {u \in ScimUsers : people[u].there}, TRUE)
  /\ UNCHANGED <<people, blocked, inGroup, disturbed, owed>>

RemoveMembers(p) ==
  LET r == scimRequest[p]
  IN /\ AtStep(p, "remove members")
     /\ inGroup' = inGroup \ r.remove
     /\ owed' = owed \ (r.remove \cap r.saw)
     /\ NowAt(p, [r EXCEPT !.at = "add members"])
     /\ UNCHANGED <<people, blocked, disturbed, intended>>

\* The hook ignores members it already has and refuses ids it does not know.
AddMembers(p) ==
  LET r == scimRequest[p] added == {u \in r.add : people[u].there}
  IN /\ AtStep(p, "add members")
     /\ inGroup' = inGroup \cup added
     /\ owed' = owed \cup added
     /\ NowAt(p, Quiet)
     /\ UNCHANGED <<people, blocked, disturbed, intended>>

ScimDies(p) ==
  /\ ~AtStep(p, "idle")
  /\ disturbed' = disturbed \cup {u \in ScimUsers : OnUser(p, u)}
  /\ intended' = IF OnGroup(p) THEN NoIntent ELSE intended
  /\ NowAt(p, Quiet)
  /\ UNCHANGED <<people, blocked, inGroup, owed>>

ScimNext ==
  \/ \E p \in ScimRequests :
       \/ \E n \in UserNames, a \in BOOLEAN : CreateScimUser(p, n, a) \/ \E u \in ScimUsers : ReadScimUser(p, u, n, a)
       \/ \E ops \in PatchBodies : PatchMembers(p, ops)
       \/ \E wanted \in SUBSET ScimUsers : ReplaceGroup(p, wanted)
       \/ StoreNewUser(p) \/ CheckName(p) \/ StoreScimUser(p) \/ RunHook(p)
       \/ RemoveMembers(p) \/ AddMembers(p) \/ ScimDies(p)
  \/ \E u \in ScimUsers : DeleteScimUser(u)

ScimSpec == ScimInit /\ [][ScimNext]_scimVars

-------------------------------------------------------------------------------
\* deactivate_user's contract (scim/service.py 148): once its requests have run
\* to the end and never met, a user is blocked exactly while it is stored
\* inactive.
BlockedWhileInactive ==
  \A u \in ScimUsers \ disturbed :
    people[u].there /\ (\A p \in ScimRequests : ~OnUser(p, u)) => (u \in blocked <=> ~people[u].active)

\* _store_group and patch_group (scim/service.py 423, 460): a member added while
\* a replacement was under way, and so unseen by it, stays; and a patch nobody
\* met leaves what its operations leave in order, the direct path included.
MembersAreKept ==
  /\ owed \subseteq inGroup
  /\ intended.clear /\ (\A p \in ScimRequests : ~OnGroup(p)) => inGroup = intended.members

\* What the directory was told is what the product was left with.
DirectoryIsFollowed == BlockedWhileInactive /\ MembersAreKept
===============================================================================
