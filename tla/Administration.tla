---------------------------- MODULE Administration ----------------------------
(***************************************************************************)
(* Administrators' requests on users and roles                             *)
(* (backend/app/application/services/{user,role}.py).  Each request is     *)
(* authorised once, reads, checks and writes in one READ COMMITTED         *)
(* transaction, and commits when its handler has returned                  *)
(* (backend/app/infrastructure/database.py).                               *)
(*                                                                         *)
(* A request sees what is committed at each of its reads; its own writes   *)
(* show at its commit, and the rows it wrote are locked until then.        *)
(***************************************************************************)
CONSTANTS Users,        \* e-mail addresses: one user row each, once created
          Admins,       \* the users there are at first, all of them active admins
          Roles,        \* role rows
          AdminRole,    \* the role called "admin", a system role
          Permissions,  \* permission codes
          Manage,       \* the codes an administrator needs, taken as one
          NoRole,       \* no change of role
          Requests,     \* administrators' requests
          Requested     \* bound of the model: the operations they ask for

Operations == {"create_user", "update_user", "delete_role", "update_role"}

ASSUME AdministrationAssumption ==
    /\ Admins \subseteq Users
    /\ Users # {}
    /\ AdminRole \in Roles
    /\ Manage \in Permissions
    /\ Permissions # {Manage}
    /\ NoRole \notin Roles
    /\ Requested \subseteq Operations

VARIABLES user,     \* user[u]: the committed row of u
          deleted,  \* the roles whose row is soft-deleted
          grants,   \* grants[ro]: the committed permissions of ro
          req       \* req[r]: request r

vars == <<user, deleted, grants, req>>

UserRow == [exists : BOOLEAN, role : Roles, active : BOOLEAN]

Progress == {"new", "authorised", "loaded", "found", "replacing", "checked", "ended"}

Request == [pc        : Progress,
            op        : Operations,
            user      : Users,                      \* the user it is about
            role      : Roles \union {NoRole},      \* the role it is about
            active    : {"keep", "on", "off"},      \* what it makes of is_active
            want      : SUBSET Permissions,         \* the permissions it asks for
            loaded    : UserRow,                    \* the user's row as it was read
            locks     : SUBSET Users,               \* the user's row, once it is locked
            seen      : SUBSET Permissions,         \* mappings its DELETE has still to take
            gone      : SUBSET Permissions,         \* mappings it has deleted
            put       : SUBSET Permissions,         \* mappings it has inserted
            added     : SUBSET Permissions,         \* mappings others committed meanwhile
            disturbed : BOOLEAN]                    \* others committed meanwhile

TypeOK ==
    /\ user \in [Users -> UserRow]
    /\ deleted \subseteq Roles \ {AdminRole}
    /\ grants \in [Roles -> SUBSET Permissions]
    /\ req \in [Requests -> Request]

ActiveAdmins == {u \in Users : user[u].exists /\ user[u].active /\ user[u].role = AdminRole}

UsersOf(ro) == {u \in Users : user[u].exists /\ user[u].role = ro}

-----------------------------------------------------------------------------

Init ==
    /\ user = [u \in Users |-> [exists |-> u \in Admins, role |-> AdminRole, active |-> TRUE]]
    /\ deleted = {}
    /\ grants = [ro \in Roles |-> IF ro = AdminRole THEN Permissions ELSE Permissions \ {Manage}]
    /\ req \in [Requests -> [pc : {"new"}, op : {"update_role"}, user : {CHOOSE u \in Users : TRUE},
                             role : {NoRole}, active : {"keep"}, want : {{}},
                             loaded : {[exists |-> FALSE, role |-> AdminRole, active |-> FALSE]},
                             locks : {{}}, seen : {{}}, gone : {{}}, put : {{}}, added : {{}},
                             disturbed : {FALSE}]]

At(r, op, pc) == req[r].op = op /\ req[r].pc = pc

Goto(r, pc) == req' = [req EXCEPT ![r].pc = pc]

\* Variant: a failed request leaves its transaction open.
EndUnfinished(r) == Goto(r, "ended")

\* An answered request, whose transaction is over and whose locks are released.
Ended(q) == [q EXCEPT !.pc = "ended", !.locks = {}, !.seen = {}, !.gone = {}, !.put = {},
                      !.added = {}]

End(r) == req' = [req EXCEPT ![r] = Ended(@)]

Free(row) == \A q \in Requests : row \notin req[q].locks

\* get_current_user and require_permission: the caller's account and permissions
\* are read here and not again.
Authorise(r) ==
    /\ req[r].pc = "new"
    /\ \E c \in Users : user[c].exists /\ user[c].active /\ Manage \in grants[user[c].role]
    /\ \E op \in Requested, u \in Users, ro \in Roles \union {NoRole},
          active \in {"keep", "on", "off"}, want \in SUBSET Permissions :
         /\ ro = NoRole => op = "update_user"
         /\ active # "keep" => op = "update_user"
         /\ want # {} <=> op = "update_role"
         /\ op \in {"delete_role", "update_role"} => u = req[r].user
         /\ req' = [req EXCEPT ![r].pc = "authorised", ![r].op = op, ![r].user = u,
                               ![r].role = ro, ![r].active = active, ![r].want = want]
    /\ UNCHANGED <<user, deleted, grants>>

-----------------------------------------------------------------------------
(* create_user and update_user *)

LoadUser(r) ==
    /\ At(r, "update_user", "authorised")
    /\ IF user[req[r].user].exists
         THEN req' = [req EXCEPT ![r].pc = "loaded", ![r].loaded = user[req[r].user]]
         ELSE End(r)
    /\ UNCHANGED <<user, deleted, grants>>

FindRole(r) ==
    /\ At(r, "update_user", "loaded") \/ At(r, "create_user", "authorised")
    /\ IF req[r].role \in deleted THEN End(r) ELSE Goto(r, "found")
    /\ UNCHANGED <<user, deleted, grants>>

ChangesRole(r) == req[r].role \notin {NoRole, req[r].loaded.role}

RoleAfter(r) == IF req[r].role = NoRole THEN req[r].loaded.role ELSE req[r].role

ChangesActive(r) == req[r].active = (IF req[r].loaded.active THEN "off" ELSE "on")

\* The UPDATE, or INSERT, waits for another transaction that wrote the row.
LockUser(r) ==
    /\ \/ At(r, "update_user", "found") /\ ChangesRole(r)
       \/ At(r, "update_user", "checked") /\ ChangesActive(r)
       \/ At(r, "create_user", "found")
    /\ req[r].user \notin req[r].locks
    /\ Free(req[r].user)
    /\ req' = [req EXCEPT ![r].locks = {req[r].user}]
    /\ UNCHANGED <<user, deleted, grants>>

\* Variant: the user to be deactivated is counted too.
LeavesAnyAdmin(r) == ActiveAdmins # {}

\* Another active admin remains.
LeavesAdmin(r) == ActiveAdmins \ {req[r].user} # {}

\* _check_not_last_admin, on a deactivation of a user whose role, as it will be,
\* is "admin".  Its first query flushes a change of the role.
CheckAdmin(r) ==
    /\ At(r, "update_user", "found")
    /\ ChangesRole(r) => req[r].user \in req[r].locks
    /\ IF req[r].active = "off" /\ RoleAfter(r) = AdminRole /\ ~LeavesAdmin(r)
         THEN End(r)
         ELSE Goto(r, "checked")
    /\ UNCHANGED <<user, deleted, grants>>

\* email_exists and the unique index: the address is taken.
InsertUser(r) ==
    /\ At(r, "create_user", "found")
    /\ req[r].user \in req[r].locks
    /\ IF user[req[r].user].exists THEN End(r) ELSE Goto(r, "checked")
    /\ UNCHANGED <<user, deleted, grants>>

\* Both replace the mappings of one role.
SameRole(q, r) ==
    req[q].op = "update_role" /\ req[r].op = "update_role" /\ req[q].role = req[r].role

\* A request that commits disturbs those that have begun to read.  A DELETE that
\* waited for a mapping finds it gone, and what was inserted is not among the rows
\* that it found.
Disturbed(q, r) ==
    IF SameRole(q, r)
      THEN [req[q] EXCEPT !.disturbed = TRUE, !.seen = @ \ req[r].gone,
                          !.added = @ \union req[r].put]
      ELSE [req[q] EXCEPT !.disturbed = TRUE]

Commit(r) ==
    req' = [q \in Requests |->
              IF q = r THEN Ended(req[r])
              ELSE IF req[q].pc \in {"new", "ended"} THEN req[q]
              ELSE Disturbed(q, r)]

\* Variant: the UPDATE writes every field of the request.
UpdatedBlindly(r) ==
    [user[req[r].user] EXCEPT !.role = req[r].role, !.active = req[r].active = "on"]

\* The UPDATE writes the columns that differ from the row as it was read.
Updated(r) ==
    [user[req[r].user] EXCEPT
       !.role = IF ChangesRole(r) THEN req[r].role ELSE @,
       !.active = IF ChangesActive(r) THEN req[r].active = "on" ELSE @]

CommitUser(r) ==
    /\ At(r, "update_user", "checked") \/ At(r, "create_user", "checked")
    /\ ChangesRole(r) \/ ChangesActive(r) => req[r].user \in req[r].locks
    /\ user' = [user EXCEPT ![req[r].user] =
                  IF req[r].op = "update_user" THEN Updated(r)
                  ELSE [exists |-> TRUE, role |-> req[r].role, active |-> TRUE]]
    /\ Commit(r)
    /\ UNCHANGED <<deleted, grants>>

-----------------------------------------------------------------------------
(* delete_role and update_role *)

\* Only a custom role may be deleted.
LoadRole(r) ==
    /\ At(r, "delete_role", "authorised") \/ At(r, "update_role", "authorised")
    /\ IF req[r].role \in deleted \/ (req[r].op = "delete_role" /\ req[r].role = AdminRole)
         THEN End(r)
         ELSE Goto(r, "loaded")
    /\ UNCHANGED <<user, deleted, grants>>

\* Variant: users who may log in are counted, not all that have the role.
HasActiveUsers(ro) == \E u \in UsersOf(ro) : user[u].active

HasUsers(ro) == UsersOf(ro) # {}

CountUsers(r) ==
    /\ At(r, "delete_role", "loaded")
    /\ IF HasUsers(req[r].role) THEN End(r) ELSE Goto(r, "checked")
    /\ UNCHANGED <<user, deleted, grants>>

CommitDelete(r) ==
    /\ At(r, "delete_role", "checked")
    /\ deleted' = deleted \union {req[r].role}
    /\ Commit(r)
    /\ UNCHANGED <<user, grants>>

\* The mappings that another request has deleted or inserted and not committed.
Held(r) == UNION {req[q].gone \union req[q].put : q \in {q \in Requests \ {r} : SameRole(q, r)}}

\* The DELETE finds the mappings that are committed when it starts.
FindGrants(r) ==
    /\ At(r, "update_role", "loaded")
    /\ req' = [req EXCEPT ![r].pc = "replacing", ![r].seen = grants[req[r].role],
                          ![r].added = {}]
    /\ UNCHANGED <<user, deleted, grants>>

\* Variant: a mapping that another request has deleted is passed over.
DeleteGrantSkipping(r) ==
    /\ At(r, "update_role", "replacing")
    /\ \E p \in req[r].seen :
         req' = [req EXCEPT ![r].seen = @ \ {p},
                            ![r].gone = IF p \in Held(r) THEN @ ELSE @ \union {p}]
    /\ UNCHANGED <<user, deleted, grants>>

\* It takes them one by one, in an order that nothing prescribes, and waits for
\* one that another request has deleted: if that request fails it goes on with the
\* row, if it commits the row is gone (Disturbed).
DeleteGrant(r) ==
    /\ At(r, "update_role", "replacing")
    /\ \E p \in req[r].seen \ Held(r) :
         req' = [req EXCEPT ![r].seen = @ \ {p}, ![r].gone = @ \union {p}]
    /\ UNCHANGED <<user, deleted, grants>>

\* The mappings that stay when r commits.
Remaining(r) == grants[req[r].role] \ req[r].gone

\* The INSERTs follow; each waits for a request that has deleted or inserted the
\* same mapping.  One that is there by then is a duplicate key.
InsertGrant(r) ==
    /\ At(r, "update_role", "replacing")
    /\ req[r].seen = {}
    /\ \E p \in (req[r].want \ req[r].put) \ Held(r) :
         IF p \in Remaining(r)
           THEN End(r)
           ELSE req' = [req EXCEPT ![r].put = @ \union {p},
                                   ![r].pc = IF req[r].want \subseteq req[r].put \union {p}
                                               THEN "checked" ELSE @]
    /\ UNCHANGED <<user, deleted, grants>>

\* Variant: the new mappings are left to a transaction that never commits.
CommitDeletedGrants(r) ==
    /\ At(r, "update_role", "checked")
    /\ grants' = [grants EXCEPT ![req[r].role] = Remaining(r)]
    /\ Commit(r)
    /\ UNCHANGED <<user, deleted>>

CommitGrants(r) ==
    /\ At(r, "update_role", "checked")
    /\ grants' = [grants EXCEPT ![req[r].role] = Remaining(r) \union req[r].put]
    /\ Commit(r)
    /\ UNCHANGED <<user, deleted>>

-----------------------------------------------------------------------------

Step(r) ==
    \/ LoadUser(r) \/ FindRole(r) \/ LockUser(r) \/ CheckAdmin(r)
    \/ InsertUser(r) \/ CommitUser(r)
    \/ LoadRole(r) \/ CountUsers(r) \/ CommitDelete(r)
    \/ FindGrants(r) \/ DeleteGrant(r) \/ InsertGrant(r) \/ CommitGrants(r)

\* A statement fails or the client is gone: the transaction is rolled back.
Fail(r) ==
    /\ req[r].pc \notin {"new", "ended"}
    /\ End(r)
    /\ UNCHANGED <<user, deleted, grants>>

\* The next row that q works on may be one that r holds.
WaitsFor(q, r) ==
    /\ q # r
    /\ SameRole(q, r)
    /\ req[q].pc = "replacing"
    /\ LET next == IF req[q].seen # {} THEN req[q].seen ELSE req[q].want \ req[q].put
       IN  next \intersect (req[r].gone \union req[r].put) # {}

\* PostgreSQL finds requests that wait for one another and fails one of them.
\* Only replacements wait while they hold what others wait for.
BreakDeadlock(r) ==
    /\ \E ring \in SUBSET Requests :
         /\ r \in ring
         /\ \A q \in ring : \E p \in ring : WaitsFor(q, p)
    /\ End(r)
    /\ UNCHANGED <<user, deleted, grants>>

Next == \E r \in Requests : Authorise(r) \/ Step(r) \/ Fail(r) \/ BreakDeadlock(r)

Spec == Init /\ [][Next]_vars

\* The event loop drives every request; only locks keep one waiting, and the
\* database looks for deadlocks among those that wait.
Fairness == \A r \in Requests : WF_vars(Step(r)) /\ WF_vars(BreakDeadlock(r))

FairSpec == Spec /\ Fairness

-----------------------------------------------------------------------------
(* Properties *)

Ends(r) == req[r].pc = "checked" /\ req'[r].pc = "ended"

\* A deactivation that no other request disturbs leaves an active admin: the
\* check covers the user's role, account and deletion as they are at the commit
\* (user.py:101-105, 164-191).
AdminKept ==
    [][\A r \in Requests :
         /\ Ends(r)
         /\ req[r].op = "update_user"
         /\ req[r].role = NoRole
         /\ ~req[r].disturbed
         /\ ActiveAdmins # {}
         => ActiveAdmins' # {}]_vars

\* A request that no other disturbs leaves no user with a deleted role, neither
\* by deleting the role nor by assigning it (role.py:188-195, user.py:45-48,
\* 91-96).
RolesOfUsersExist ==
    [][\A r \in Requests :
         /\ Ends(r)
         /\ ~req[r].disturbed
         /\ \A ro \in deleted : UsersOf(ro) = {}
         => \A ro \in deleted' : UsersOf(ro)' = {}]_vars

\* Once a replacement has committed, its role has all the permissions it asked
\* for, and any other was granted by a replacement that committed after its DELETE
\* had begun.  What the role could do before it is revoked, whoever deletes, waits
\* and fails meanwhile (role.py:153-157, repositories/role.py:111-118).
GrantsReplaced ==
    [][\A r \in Requests :
         LET ro == req[r].role
         IN  /\ Ends(r)
             /\ req[r].op = "update_role"
             => \/ UNCHANGED grants
                \/ /\ req[r].want \subseteq grants'[ro]
                   /\ grants'[ro] \subseteq req[r].want \union req[r].added]_vars

\* No role is ever without permissions, in whatever order replacements delete,
\* wait, fail on a duplicate and commit (role.py:153-157).
RolesKeepGrants == \A ro \in Roles : grants[ro] # {}

\* Every request ends: what it waits for is released by every request that
\* commits or fails (database.py:45-54).
RequestsEnd == \A r \in Requests : req[r].pc # "new" ~> req[r].pc = "ended"

-----------------------------------------------------------------------------
(* What the repository says of administration and the code does not do *)

\* backend/IMPLEMENTATION_PLAN.md:197: "cannot deactivate last admin".  Nobody is
\* given another role here, which update_user allows for the last admin too.
NoRoleChanges == \A r \in Requests : req[r].op = "update_user" => req[r].role = NoRole

LastAdminStaysActive == [][NoRoleChanges /\ ActiveAdmins # {} => ActiveAdmins' # {}]_vars

==============================================================================
