------------------------ MODULE Administration_proofs ------------------------
(***************************************************************************)
(* Proofs about Administration, for any users, roles, permissions and any  *)
(* number of concurrent requests.                                          *)
(***************************************************************************)
EXTENDS Administration, TLAPS

-----------------------------------------------------------------------------
(* The inductive invariant *)

\* What a request asks for fits its operation.
AskedInv ==
    \A r \in Requests : req[r].pc # "new" =>
        /\ req[r].op # "update_user" => req[r].role \in Roles
        /\ req[r].op = "update_role" => req[r].want # {}
        /\ req[r].op = "delete_role" /\ req[r].pc \in {"loaded", "checked"} =>
             req[r].role # AdminRole

GrantsInv == \A ro \in Roles : grants[ro] # {}

\* What request r has read and checked.
ReadOf(r) ==
    /\ req[r].op = "update_user" /\ req[r].pc \in {"loaded", "found", "checked"} =>
         req[r].loaded = user[req[r].user]
    /\ req[r].op \in {"create_user", "update_user"} /\ req[r].pc \in {"found", "checked"} =>
         req[r].role \notin deleted
    /\ /\ req[r].op = "update_user"
       /\ req[r].pc = "checked"
       /\ req[r].role = NoRole
       /\ req[r].active = "off"
       /\ user[req[r].user].role = AdminRole
       => LeavesAdmin(r)
    /\ req[r].op = "delete_role" /\ req[r].pc = "checked" => UsersOf(req[r].role) = {}

\* It is still so, unless another request has committed since.
ReadInv == \A r \in Requests : ~req[r].disturbed => ReadOf(r)

\* A replacement under way knows every mapping of its role: it has still to delete
\* it, has deleted it, or saw it committed by another meanwhile.
Replacement(q) ==
    IF q.op = "update_role" /\ q.pc \in {"replacing", "checked"}
      THEN /\ grants[q.role] \subseteq q.seen \union q.gone \union q.added
           /\ q.put \subseteq q.want
           /\ q.pc = "checked" => q.seen = {} /\ q.want \subseteq q.put
      ELSE q.put = {}

ReplaceInv == \A r \in Requests : Replacement(req[r])

AdminInv == TypeOK /\ AskedInv /\ GrantsInv /\ ReadInv /\ ReplaceInv

\* Every user is an admin or none, every request is new, every role has grants.
LEMMA InitAdminInv == Init => AdminInv
<1> SUFFICES ASSUME Init
             PROVE  AdminInv
  OBVIOUS
<1> USE AdministrationAssumption
<1>1. (CHOOSE u \in Users : TRUE) \in Users
  OBVIOUS
<1>2. req \in [Requests -> Request]
  <2> DEFINE First == [pc : {"new"}, op : {"update_role"}, user : {CHOOSE u \in Users : TRUE},
                       role : {NoRole}, active : {"keep"}, want : {{}},
                       loaded : {[exists |-> FALSE, role |-> AdminRole, active |-> FALSE]},
                       locks : {{}}, seen : {{}}, gone : {{}}, put : {{}}, added : {{}},
                       disturbed : {FALSE}]
  <2>1. req \in [Requests -> First]
    BY DEF Init
  <2>2. [exists |-> FALSE, role |-> AdminRole, active |-> FALSE] \in UserRow
    BY DEF UserRow
  <2>3. First \subseteq Request
    BY <1>1, <2>2 DEF Request, Progress, Operations
  <2> HIDE DEF First
  <2>4. QED
    BY <2>1, <2>3
<1>3. \A r \in Requests : req[r].pc = "new" /\ req[r].op = "update_role"
  BY DEF Init
<1>4. TypeOK
  BY <1>2 DEF Init, TypeOK, UserRow
<1>5. AskedInv /\ ReadInv
  BY <1>3 DEF AskedInv, ReadInv, ReadOf
<1>6. GrantsInv
  BY DEF Init, GrantsInv
<1>7. ReplaceInv
  <2>1. \A r \in Requests : req[r].pc = "new" /\ req[r].put \in {{}}
    BY DEF Init
  <2>2. QED
    BY <2>1 DEF ReplaceInv, Replacement
<1>8. QED
  BY <1>4, <1>5, <1>6, <1>7 DEF AdminInv

\* A step of request r that commits nothing keeps what every other request has
\* read: only r's own record has to be looked at.
LEMMA ReadingStep ==
    ASSUME AdminInv, NEW r \in Requests, UNCHANGED <<user, deleted, grants>>,
           NEW rec \in Request, req' = [req EXCEPT ![r] = rec],
           rec.op # "update_user" => rec.role \in Roles,
           rec.op = "update_role" => rec.want # {},
           rec.op = "delete_role" /\ rec.pc \in {"loaded", "checked"} => rec.role # AdminRole,
           Replacement(rec),
           ~rec.disturbed => ReadOf(r)'
    PROVE  AdminInv'
<1> USE DEF AdminInv
<1>1. req'[r] = rec /\ \A q \in Requests : q # r => req'[q] = req[q]
  BY DEF TypeOK
<1>2. TypeOK'
  BY DEF TypeOK
<1>3. AskedInv'
  BY <1>1 DEF AskedInv
<1>4. GrantsInv'
  BY DEF GrantsInv
<1>5. ASSUME NEW q \in Requests, q # r, ~req'[q].disturbed
      PROVE  ReadOf(q)'
  <2>1. ReadOf(q)
    BY <1>1, <1>5 DEF ReadInv
  <2>2. QED
    BY <1>1, <1>5, <2>1 DEF ReadOf, LeavesAdmin, ActiveAdmins, UsersOf
<1>6. ReadInv'
  BY <1>1, <1>5 DEF ReadInv
<1>7. ReplaceInv'
  BY <1>1 DEF ReplaceInv, Replacement
<1>8. QED
  BY <1>2, <1>3, <1>4, <1>6, <1>7

\* An answered request has nothing left to keep.
LEMMA EndAdminInv ==
    ASSUME AdminInv, NEW r \in Requests, req[r].pc # "new", End(r),
           UNCHANGED <<user, deleted, grants>>
    PROVE  AdminInv'
<1> DEFINE rec == Ended(req[r])
<1>1. req[r] \in Request
  BY DEF AdminInv, TypeOK
<1>2. rec \in Request /\ rec.pc = "ended" /\ rec.put = {}
      /\ rec.op = req[r].op /\ rec.role = req[r].role /\ rec.want = req[r].want
  BY <1>1 DEF Ended, Request, Progress
<1>3. req' = [req EXCEPT ![r] = rec]
  BY <1>1 DEF End
<1>4. req'[r].pc = "ended"
  BY <1>2, <1>3 DEF AdminInv, TypeOK
<1>5. ReadOf(r)'
  BY <1>4 DEF ReadOf
<1>6. /\ rec.op # "update_user" => rec.role \in Roles
      /\ rec.op = "update_role" => rec.want # {}
  BY <1>2 DEF AdminInv, AskedInv
<1>7. Replacement(rec)
  BY <1>2 DEF Replacement
<1> HIDE DEF rec
<1>8. QED
  BY <1>2, <1>3, <1>5, <1>6, <1>7, ReadingStep

\* Authorisation admits a request that fits its operation.
LEMMA AuthoriseAdminInv ==
    ASSUME AdminInv, NEW r \in Requests, Authorise(r)
    PROVE  AdminInv'
<1> USE AdministrationAssumption
<1>1. PICK op \in Requested, u \in Users, ro \in Roles \union {NoRole},
           active \in {"keep", "on", "off"}, want \in SUBSET Permissions :
         /\ ro = NoRole => op = "update_user"
         /\ active # "keep" => op = "update_user"
         /\ want # {} <=> op = "update_role"
         /\ op \in {"delete_role", "update_role"} => u = req[r].user
         /\ req' = [req EXCEPT ![r].pc = "authorised", ![r].op = op, ![r].user = u,
                               ![r].role = ro, ![r].active = active, ![r].want = want]
  BY Zenon DEF Authorise
<1> DEFINE rec == [req[r] EXCEPT !.pc = "authorised", !.op = op, !.user = u,
                                 !.role = ro, !.active = active, !.want = want]
<1>2. req[r] \in Request
  BY DEF AdminInv, TypeOK
<1>3. rec \in Request /\ rec.pc = "authorised" /\ rec.op = op /\ rec.role = ro /\ rec.want = want
      /\ rec.put = req[r].put
  BY <1>2 DEF Request, Progress
<1>4. req' = [req EXCEPT ![r] = rec]
  BY <1>1, <1>2
<1>5. req'[r].pc = "authorised"
  BY <1>3, <1>4 DEF AdminInv, TypeOK
<1>6. ReadOf(r)'
  BY <1>5 DEF ReadOf
<1>7. /\ rec.op # "update_user" => rec.role \in Roles
      /\ rec.op = "update_role" => rec.want # {}
      /\ rec.pc \notin {"loaded", "checked"}
  BY <1>1, <1>3
<1>8. UNCHANGED <<user, deleted, grants>>
  BY DEF Authorise
<1>9. Replacement(rec)
  <2>1. req[r].pc = "new" /\ Replacement(req[r])
    BY DEF Authorise, AdminInv, ReplaceInv
  <2>2. QED
    BY <1>3, <2>1 DEF Replacement
<1> HIDE DEF rec
<1>10. QED
  BY <1>3, <1>4, <1>6, <1>7, <1>8, <1>9, ReadingStep

\* A request that goes on to a program counter where what it has read since is so.
LEMMA GotoAdminInv ==
    ASSUME AdminInv, NEW r \in Requests, NEW pc \in Progress, Goto(r, pc),
           req[r].pc # "new", UNCHANGED <<user, deleted, grants>>,
           req[r].op = "delete_role" /\ pc \in {"loaded", "checked"} => req[r].role # AdminRole,
           req[r].op = "update_role" => {req[r].pc, pc} \intersect {"replacing", "checked"} = {},
           ~req[r].disturbed => ReadOf(r)'
    PROVE  AdminInv'
<1> DEFINE rec == [req[r] EXCEPT !.pc = pc]
<1>1. req[r] \in Request
  BY DEF AdminInv, TypeOK
<1>2. rec \in Request /\ rec.pc = pc /\ rec.op = req[r].op /\ rec.role = req[r].role
      /\ rec.want = req[r].want /\ rec.disturbed = req[r].disturbed /\ rec.put = req[r].put
  BY <1>1 DEF Request
<1>3. req' = [req EXCEPT ![r] = rec]
  BY <1>1 DEF Goto
<1>4. /\ rec.op # "update_user" => rec.role \in Roles
      /\ rec.op = "update_role" => rec.want # {}
      /\ rec.op = "delete_role" /\ rec.pc \in {"loaded", "checked"} => rec.role # AdminRole
      /\ ~rec.disturbed => ReadOf(r)'
  BY <1>2 DEF AdminInv, AskedInv
<1>5. Replacement(rec)
  <2>1. Replacement(req[r])
    BY DEF AdminInv, ReplaceInv
  <2>2. QED
    BY <1>2, <2>1 DEF Replacement
<1> HIDE DEF rec
<1>6. QED
  BY <1>2, <1>3, <1>4, <1>5, ReadingStep

\* What a request that went on to pc has in its record.
LEMMA GotoFields ==
    ASSUME TypeOK, NEW r \in Requests, NEW pc \in Progress, Goto(r, pc)
    PROVE  /\ req'[r].pc = pc
           /\ req'[r].op = req[r].op
           /\ req'[r].user = req[r].user
           /\ req'[r].role = req[r].role
           /\ req'[r].active = req[r].active
           /\ req'[r].loaded = req[r].loaded
<1>1. req[r] \in Request
  BY DEF TypeOK
<1>2. req'[r] = [req[r] EXCEPT !.pc = pc]
  BY DEF Goto, TypeOK
<1>3. QED
  BY <1>1, <1>2 DEF Request

\* Every step of request r that reads, checks or waits keeps the invariant.
LEMMA UserReads ==
    ASSUME AdminInv, NEW r \in Requests,
           LoadUser(r) \/ FindRole(r) \/ LockUser(r) \/ CheckAdmin(r) \/ InsertUser(r)
    PROVE  AdminInv'
<1> USE AdministrationAssumption
<1>0. req[r] \in Request /\ TypeOK /\ UNCHANGED <<user, deleted, grants>>
  BY DEF AdminInv, TypeOK, LoadUser, FindRole, LockUser, CheckAdmin, InsertUser
<1>1. CASE LoadUser(r)
  <2>1. CASE End(r)
    BY <1>0, <1>1, <2>1, EndAdminInv DEF LoadUser, At
  <2>2. CASE req' = [req EXCEPT ![r].pc = "loaded", ![r].loaded = user[req[r].user]]
    <3> DEFINE rec == [req[r] EXCEPT !.pc = "loaded", !.loaded = user[req[r].user]]
    <3>1. req[r].op = "update_user" /\ user[req[r].user] \in UserRow
      BY <1>0, <1>1 DEF LoadUser, At, TypeOK, Request
    <3>2. rec \in Request /\ rec.pc = "loaded" /\ rec.op = "update_user"
          /\ rec.user = req[r].user /\ rec.loaded = user[rec.user] /\ rec.put = req[r].put
      BY <1>0, <3>1 DEF Request, Progress
    <3>3. req' = [req EXCEPT ![r] = rec]
      BY <1>0, <2>2
    <3>4. req'[r] = rec
      BY <1>0, <3>3 DEF TypeOK
    <3> HIDE DEF rec
    <3>5. ReadOf(r)'
      BY <1>0, <3>2, <3>4 DEF ReadOf
    <3>6. Replacement(rec)
      BY <3>1, <3>2 DEF AdminInv, ReplaceInv, Replacement
    <3>7. QED
      BY <1>0, <3>2, <3>3, <3>5, <3>6, ReadingStep
  <2>3. QED
    BY <1>1, <2>1, <2>2 DEF LoadUser
<1>2. CASE FindRole(r)
  <2>1. CASE End(r)
    BY <1>0, <1>2, <2>1, EndAdminInv DEF FindRole, At
  <2>2. CASE Goto(r, "found") /\ req[r].role \notin deleted
    <3>1. "found" \in Progress /\ req[r].op \in {"update_user", "create_user"}
          /\ req[r].pc \in {"loaded", "authorised"}
          /\ (req[r].op = "update_user" => req[r].pc = "loaded")
      BY <1>2 DEF FindRole, At, Progress
    <3>2. ASSUME ~req[r].disturbed
          PROVE  ReadOf(r)'
      <4>1. ReadOf(r)
        BY <3>2 DEF AdminInv, ReadInv
      <4>2. req'[r].pc = "found" /\ req'[r].op = req[r].op /\ req'[r].user = req[r].user
            /\ req'[r].role = req[r].role /\ req'[r].loaded = req[r].loaded
        BY <1>0, <2>2, <3>1, GotoFields
      <4>3. QED
        BY <1>0, <2>2, <3>1, <4>1, <4>2 DEF ReadOf
    <3>3. QED
      BY <1>0, <2>2, <3>1, <3>2, GotoAdminInv
  <2>3. QED
    BY <1>2, <2>1, <2>2 DEF FindRole
<1>3. CASE LockUser(r)
  <2> DEFINE rec == [req[r] EXCEPT !.locks = {req[r].user}]
  <2>1. rec \in Request /\ rec.pc = req[r].pc /\ rec.op = req[r].op
        /\ rec.user = req[r].user /\ rec.role = req[r].role /\ rec.want = req[r].want
        /\ rec.active = req[r].active /\ rec.loaded = req[r].loaded
        /\ rec.disturbed = req[r].disturbed /\ rec.put = req[r].put
    BY <1>0 DEF Request
  <2>2. req' = [req EXCEPT ![r] = rec] /\ req[r].pc # "new" /\ req[r].op # "update_role"
    BY <1>0, <1>3 DEF LockUser, At
  <2>3. req'[r] = rec
    BY <1>0, <2>2 DEF TypeOK
  <2> HIDE DEF rec
  <2>4. ASSUME ~rec.disturbed
        PROVE  ReadOf(r)'
    <3>1. ReadOf(r)
      BY <2>1, <2>4 DEF AdminInv, ReadInv
    <3>2. QED
      BY <1>0, <2>1, <2>3, <3>1 DEF ReadOf, LeavesAdmin, ActiveAdmins, UsersOf
  <2>5. /\ rec.op # "update_user" => rec.role \in Roles
        /\ rec.op = "update_role" => rec.want # {}
        /\ rec.op = "delete_role" /\ rec.pc \in {"loaded", "checked"} => rec.role # AdminRole
    BY <2>1, <2>2 DEF AdminInv, AskedInv
  <2>6. Replacement(rec)
    BY <2>1, <2>2 DEF AdminInv, ReplaceInv, Replacement
  <2>7. QED
    BY <1>0, <2>1, <2>2, <2>4, <2>5, <2>6, ReadingStep
<1>4. CASE CheckAdmin(r)
  <2>1. CASE End(r)
    BY <1>0, <1>4, <2>1, EndAdminInv DEF CheckAdmin, At
  <2>2. CASE /\ Goto(r, "checked")
             /\ req[r].active = "off" /\ RoleAfter(r) = AdminRole => LeavesAdmin(r)
    <3>1. "checked" \in Progress /\ req[r].op = "update_user" /\ req[r].pc = "found"
      BY <1>4 DEF CheckAdmin, At, Progress
    <3>2. ASSUME ~req[r].disturbed
          PROVE  ReadOf(r)'
      <4>1. ReadOf(r)
        BY <3>2 DEF AdminInv, ReadInv
      <4>2. req'[r].pc = "checked" /\ req'[r].op = req[r].op /\ req'[r].user = req[r].user
            /\ req'[r].role = req[r].role /\ req'[r].active = req[r].active
            /\ req'[r].loaded = req[r].loaded
        BY <1>0, <2>2, <3>1, GotoFields
      <4>3. LeavesAdmin(r)' = LeavesAdmin(r)
        BY <1>0, <4>2 DEF LeavesAdmin, ActiveAdmins
      <4>4. req[r].role = NoRole /\ user[req[r].user].role = AdminRole => RoleAfter(r) = AdminRole
        BY <3>1, <4>1 DEF ReadOf, RoleAfter
      <4>5. QED
        BY <1>0, <2>2, <3>1, <4>1, <4>2, <4>3, <4>4 DEF ReadOf
    <3>3. QED
      BY <1>0, <2>2, <3>1, <3>2, GotoAdminInv
  <2>3. QED
    BY <1>4, <2>1, <2>2 DEF CheckAdmin
<1>5. CASE InsertUser(r)
  <2>1. CASE End(r)
    BY <1>0, <1>5, <2>1, EndAdminInv DEF InsertUser, At
  <2>2. CASE Goto(r, "checked")
    <3>1. "checked" \in Progress /\ req[r].op = "create_user" /\ req[r].pc = "found"
      BY <1>5 DEF InsertUser, At, Progress
    <3>2. ASSUME ~req[r].disturbed
          PROVE  ReadOf(r)'
      <4>1. ReadOf(r)
        BY <3>2 DEF AdminInv, ReadInv
      <4>2. req'[r].pc = "checked" /\ req'[r].op = req[r].op /\ req'[r].role = req[r].role
        BY <1>0, <2>2, <3>1, GotoFields
      <4>3. QED
        BY <1>0, <3>1, <4>1, <4>2 DEF ReadOf
    <3>3. QED
      BY <1>0, <2>2, <3>1, <3>2, GotoAdminInv
  <2>3. QED
    BY <1>5, <2>1, <2>2 DEF InsertUser
<1>6. QED
  BY <1>1, <1>2, <1>3, <1>4, <1>5

\* A step of a replacement, between its DELETE and its last INSERT.
LEMMA ReplacingStep ==
    ASSUME AdminInv, NEW r \in Requests, UNCHANGED <<user, deleted, grants>>,
           req[r].op = "update_role", req[r].pc # "new",
           NEW rec \in Request, req' = [req EXCEPT ![r] = rec],
           rec.op = "update_role", rec.role = req[r].role, rec.want = req[r].want,
           Replacement(rec)
    PROVE  AdminInv'
<1>1. req'[r] = rec
  BY DEF AdminInv, TypeOK
<1>2. ReadOf(r)'
  BY <1>1 DEF ReadOf
<1>3. rec.role \in Roles /\ rec.want # {}
  BY DEF AdminInv, AskedInv
<1>4. QED
  BY <1>2, <1>3, ReadingStep

\* The same for the operations on roles.
LEMMA RoleReads ==
    ASSUME AdminInv, NEW r \in Requests,
           LoadRole(r) \/ CountUsers(r) \/ FindGrants(r) \/ DeleteGrant(r) \/ InsertGrant(r)
    PROVE  AdminInv'
<1> USE AdministrationAssumption
<1>0. req[r] \in Request /\ TypeOK /\ UNCHANGED <<user, deleted, grants>>
  BY DEF AdminInv, TypeOK, LoadRole, CountUsers, FindGrants, DeleteGrant, InsertGrant
<1>1. CASE LoadRole(r)
  <2>1. CASE End(r)
    BY <1>0, <1>1, <2>1, EndAdminInv DEF LoadRole, At
  <2>2. CASE Goto(r, "loaded") /\ (req[r].op = "delete_role" => req[r].role # AdminRole)
    <3>1. "loaded" \in Progress /\ req[r].op \in {"delete_role", "update_role"}
          /\ req[r].pc = "authorised"
      BY <1>1 DEF LoadRole, At, Progress
    <3>2. req'[r].pc = "loaded" /\ req'[r].op = req[r].op
      BY <1>0, <2>2, <3>1, GotoFields
    <3>3. ReadOf(r)'
      BY <3>1, <3>2 DEF ReadOf
    <3>4. QED
      BY <1>0, <2>2, <3>1, <3>3, GotoAdminInv
  <2>3. QED
    BY <1>1, <2>1, <2>2 DEF LoadRole
<1>2. CASE CountUsers(r)
  <2>1. CASE End(r)
    BY <1>0, <1>2, <2>1, EndAdminInv DEF CountUsers, At
  <2>2. CASE Goto(r, "checked") /\ UsersOf(req[r].role) = {}
    <3>1. "checked" \in Progress /\ req[r].op = "delete_role" /\ req[r].pc = "loaded"
      BY <1>2 DEF CountUsers, At, Progress
    <3>2. req'[r].pc = "checked" /\ req'[r].op = req[r].op /\ req'[r].role = req[r].role
      BY <1>0, <2>2, <3>1, GotoFields
    <3>3. ReadOf(r)'
      BY <1>0, <2>2, <3>1, <3>2 DEF ReadOf, UsersOf
    <3>4. req[r].role # AdminRole
      BY <3>1 DEF AdminInv, AskedInv
    <3>5. QED
      BY <1>0, <2>2, <3>1, <3>3, <3>4, GotoAdminInv
  <2>3. QED
    BY <1>2, <2>1, <2>2 DEF CountUsers, HasUsers
<1>3. CASE FindGrants(r)
  <2>1. req[r].op = "update_role" /\ req[r].pc = "loaded" /\ req[r].role \in Roles
    BY <1>3 DEF FindGrants, At, AdminInv, AskedInv
  <2>2. grants[req[r].role] \in SUBSET Permissions /\ req[r].put = {}
    BY <1>0, <2>1 DEF TypeOK, AdminInv, ReplaceInv, Replacement
  <2> DEFINE rec == [req[r] EXCEPT !.pc = "replacing", !.seen = grants[req[r].role], !.added = {}]
  <2>3. rec \in Request /\ rec.pc = "replacing" /\ rec.op = "update_role"
        /\ rec.role = req[r].role /\ rec.want = req[r].want
        /\ rec.seen = grants[rec.role] /\ rec.put = {}
    BY <1>0, <2>1, <2>2 DEF Request, Progress
  <2>4. req' = [req EXCEPT ![r] = rec]
    BY <1>0, <1>3 DEF FindGrants
  <2> HIDE DEF rec
  <2>5. QED
    BY <2>1, <2>3, <2>4, <1>0, ReplacingStep DEF Replacement
<1>4. CASE DeleteGrant(r)
  <2>1. req[r].op = "update_role" /\ req[r].pc = "replacing"
    BY <1>4 DEF DeleteGrant, At
  <2>2. PICK p \in req[r].seen :
          req' = [req EXCEPT ![r].seen = @ \ {p}, ![r].gone = @ \union {p}]
    BY <1>4 DEF DeleteGrant
  <2> DEFINE rec == [req[r] EXCEPT !.seen = @ \ {p}, !.gone = @ \union {p}]
  <2>3. rec \in Request /\ rec.pc = "replacing" /\ rec.op = "update_role"
        /\ rec.role = req[r].role /\ rec.want = req[r].want /\ rec.put = req[r].put
        /\ rec.seen = req[r].seen \ {p} /\ rec.gone = req[r].gone \union {p}
        /\ rec.added = req[r].added
    BY <1>0, <2>1, <2>2 DEF Request
  <2>4. req' = [req EXCEPT ![r] = rec]
    BY <1>0, <2>2
  <2> HIDE DEF rec
  <2>5. Replacement(rec)
    BY <2>1, <2>3 DEF AdminInv, ReplaceInv, Replacement
  <2>6. QED
    BY <2>1, <2>3, <2>4, <2>5, <1>0, ReplacingStep
<1>5. CASE InsertGrant(r)
  <2>1. req[r].op = "update_role" /\ req[r].pc = "replacing" /\ req[r].seen = {}
    BY <1>5 DEF InsertGrant, At
  <2>2. CASE End(r)
    BY <1>0, <2>1, <2>2, EndAdminInv
  <2>3. CASE ~End(r)
    <3>1. PICK p \in req[r].want :
            req' = [req EXCEPT ![r].put = @ \union {p},
                               ![r].pc = IF req[r].want \subseteq req[r].put \union {p}
                                           THEN "checked" ELSE @]
      BY <1>5, <2>3 DEF InsertGrant
    <3> DEFINE rec == [req[r] EXCEPT !.put = @ \union {p},
                                     !.pc = IF req[r].want \subseteq req[r].put \union {p}
                                              THEN "checked" ELSE @]
    <3>2. rec \in Request /\ rec.op = "update_role"
          /\ rec.role = req[r].role /\ rec.want = req[r].want /\ rec.seen = {}
          /\ rec.put = req[r].put \union {p} /\ rec.gone = req[r].gone
          /\ rec.added = req[r].added
          /\ rec.pc = IF rec.want \subseteq rec.put THEN "checked" ELSE "replacing"
      BY <1>0, <2>1, <3>1 DEF Request, Progress
    <3>3. req' = [req EXCEPT ![r] = rec]
      BY <1>0, <3>1
    <3> HIDE DEF rec
    <3>4. Replacement(rec)
      BY <2>1, <3>2 DEF AdminInv, ReplaceInv, Replacement
    <3>5. QED
      BY <2>1, <3>2, <3>3, <3>4, <1>0, ReplacingStep
  <2>4. QED
    BY <2>2, <2>3
<1>6. QED
  BY <1>1, <1>2, <1>3, <1>4, <1>5

\* A commit ends its request and disturbs every other that has begun, so that
\* nothing is claimed any more of what they have read.
LEMMA CommitAdminInv ==
    ASSUME AdminInv, NEW r \in Requests, req[r].pc # "new", Commit(r),
           user' \in [Users -> UserRow],
           deleted' \subseteq Roles \ {AdminRole},
           grants' \in [Roles -> SUBSET Permissions],
           \A ro \in Roles : grants'[ro] # {},
           \/ req[r].op # "update_role" /\ grants' = grants
           \/ /\ req[r].op = "update_role"
              /\ grants' = [grants EXCEPT ![req[r].role] = Remaining(r) \union req[r].put]
    PROVE  AdminInv'
<1>1. ASSUME NEW q \in Requests
      PROVE  /\ req'[q] \in Request
             /\ req'[q].op = req[q].op /\ req'[q].role = req[q].role
             /\ req'[q].want = req[q].want
             /\ req'[q].pc \in {req[q].pc, "ended"} /\ (req[q].pc = "new" => req'[q].pc = "new")
             /\ req'[q].pc \notin {"new", "ended"} => req'[q].disturbed
             /\ req'[q].put = {} \/ (req'[q].pc = req[q].pc /\ req'[q].put = req[q].put)
             /\ req'[q].pc # "ended" => req'[q].put = req[q].put
             /\ \/ req'[q].pc \in {"new", "ended"}
                \/ SameRole(q, r) /\ req'[q].gone = req[q].gone
                   /\ req'[q].seen = req[q].seen \ req[r].gone
                   /\ req'[q].added = req[q].added \union req[r].put
                \/ ~SameRole(q, r) /\ req'[q].gone = req[q].gone
                   /\ req'[q].seen = req[q].seen /\ req'[q].added = req[q].added
  <2>1. req[q] \in Request /\ req[r] \in Request
    BY DEF AdminInv, TypeOK
  <2>2. CASE q = r
    <3>1. req'[q] = Ended(req[r])
      BY <2>2 DEF Commit
    <3>2. QED
      BY <2>1, <2>2, <3>1 DEF Ended, Request, Progress
  <2>3. CASE q # r /\ req[q].pc \in {"new", "ended"}
    <3>1. req'[q] = req[q]
      BY <2>3 DEF Commit
    <3>2. QED
      BY <2>1, <2>3, <3>1
  <2>4. CASE q # r /\ req[q].pc \notin {"new", "ended"}
    <3>1. req'[q] = Disturbed(q, r)
      BY <2>4 DEF Commit
    <3>2. CASE SameRole(q, r)
      <4>1. req'[q] = [req[q] EXCEPT !.disturbed = TRUE, !.seen = @ \ req[r].gone,
                                     !.added = @ \union req[r].put]
        BY <3>1, <3>2 DEF Disturbed
      <4>2. req[q].seen \ req[r].gone \in SUBSET Permissions
            /\ req[q].added \union req[r].put \in SUBSET Permissions
        BY <2>1 DEF Request
      <4>3. /\ req'[q] \in Request
            /\ req'[q].pc = req[q].pc /\ req'[q].op = req[q].op /\ req'[q].role = req[q].role
            /\ req'[q].want = req[q].want /\ req'[q].put = req[q].put
            /\ req'[q].gone = req[q].gone /\ req'[q].disturbed
            /\ req'[q].seen = req[q].seen \ req[r].gone
            /\ req'[q].added = req[q].added \union req[r].put
        BY <2>1, <4>1, <4>2 DEF Request
      <4>4. QED
        BY <2>4, <3>2, <4>3
    <3>3. CASE ~SameRole(q, r)
      <4>1. req'[q] = [req[q] EXCEPT !.disturbed = TRUE]
        BY <3>1, <3>3 DEF Disturbed
      <4>2. QED
        BY <2>1, <2>4, <3>3, <4>1 DEF Request
    <3>4. QED
      BY <3>2, <3>3
  <2>5. QED
    BY <2>2, <2>3, <2>4
<1>2. TypeOK'
  <2>1. req' \in [Requests -> Request]
    BY <1>1 DEF Commit
  <2>2. QED
    BY <2>1 DEF TypeOK
<1>3. AskedInv'
  BY <1>1 DEF AdminInv, AskedInv
<1>4. GrantsInv'
  BY DEF GrantsInv
<1>5. ReadInv'
  <2>1. ASSUME NEW q \in Requests, ~req'[q].disturbed
        PROVE  ReadOf(q)'
    BY <1>1, <2>1 DEF ReadOf
  <2>2. QED
    BY <2>1 DEF ReadInv
<1>6. ReplaceInv'
  <2> SUFFICES ASSUME NEW q \in Requests
               PROVE  Replacement(req[q])'
    BY DEF ReplaceInv
  <2>1. Replacement(req[q])
    BY DEF AdminInv, ReplaceInv
  <2>2. CASE ~(req'[q].op = "update_role" /\ req'[q].pc \in {"replacing", "checked"})
    <3>1. req'[q].put = {}
      BY <1>1, <2>1, <2>2 DEF Replacement
    <3>2. QED
      BY <2>2, <3>1 DEF Replacement
  <2>3. CASE req'[q].op = "update_role" /\ req'[q].pc \in {"replacing", "checked"}
    <3>1. /\ req[q].op = "update_role" /\ req[q].pc = req'[q].pc /\ req[q].role \in Roles
          /\ req'[q].put = req[q].put /\ req'[q].gone = req[q].gone
          /\ req'[q].role = req[q].role /\ req'[q].want = req[q].want
      BY <1>1, <2>3 DEF AdminInv, AskedInv
    <3>2. /\ req[q].put \subseteq req[q].want
          /\ req[q].pc = "checked" => req[q].seen = {} /\ req[q].want \subseteq req[q].put
          /\ grants[req[q].role] \subseteq req[q].seen \union req[q].gone \union req[q].added
      BY <2>1, <2>3, <3>1 DEF Replacement
    <3>3. req'[q].seen \subseteq req[q].seen
      BY <1>1, <2>3
    <3>4. grants'[req[q].role] \subseteq req'[q].seen \union req'[q].gone \union req'[q].added
      <4>1. CASE SameRole(q, r)
        <5>1. grants'[req[q].role] = (grants[req[q].role] \ req[r].gone) \union req[r].put
          BY <3>1, <4>1 DEF SameRole, Remaining, AdminInv, TypeOK
        <5>2. QED
          BY <1>1, <2>3, <3>1, <3>2, <4>1, <5>1
      <4>2. CASE ~SameRole(q, r)
        <5>1. grants'[req[q].role] = grants[req[q].role]
          BY <3>1, <4>2 DEF SameRole, AdminInv, TypeOK
        <5>2. QED
          BY <1>1, <2>3, <3>1, <3>2, <4>2, <5>1
      <4>3. QED
        BY <4>1, <4>2
    <3>5. QED
      BY <2>3, <3>1, <3>2, <3>3, <3>4 DEF Replacement
  <2>4. QED
    BY <2>2, <2>3
<1>7. QED
  BY <1>2, <1>3, <1>4, <1>5, <1>6 DEF AdminInv

\* What is committed is well formed, and a role's new permissions are not empty.
LEMMA Commits ==
    ASSUME AdminInv, NEW r \in Requests,
           CommitUser(r) \/ CommitDelete(r) \/ CommitGrants(r)
    PROVE  AdminInv'
<1> USE AdministrationAssumption
<1>1. TypeOK /\ req[r] \in Request
  BY DEF AdminInv, TypeOK
<1>2. req[r].pc # "new" /\ Commit(r)
  BY DEF CommitUser, CommitDelete, CommitGrants, At
<1>3. CASE CommitUser(r)
  <2>1. req[r].user \in Users /\ user[req[r].user] \in UserRow
        /\ (req[r].op = "create_user" => req[r].role \in Roles)
    BY <1>1, <1>2 DEF TypeOK, Request, AdminInv, AskedInv
  <2>2. Updated(r) \in UserRow
    BY <1>1, <2>1 DEF Updated, ChangesRole, UserRow, Request
  <2>3. req[r].op = "create_user" =>
          [exists |-> TRUE, role |-> req[r].role, active |-> TRUE] \in UserRow
    BY <2>1 DEF UserRow
  <2>4. user' \in [Users -> UserRow]
    BY <1>1, <1>3, <2>2, <2>3 DEF CommitUser, At, TypeOK
  <2>5. deleted' = deleted /\ grants' = grants
    BY <1>3 DEF CommitUser
  <2>6. req[r].op # "update_role"
    BY <1>3 DEF CommitUser, At
  <2>7. QED
    BY <1>1, <1>2, <2>4, <2>5, <2>6, CommitAdminInv DEF AdminInv, TypeOK, GrantsInv
<1>4. CASE CommitDelete(r)
  <2>1. req[r].role \in Roles \ {AdminRole}
    BY <1>4 DEF CommitDelete, At, AdminInv, AskedInv
  <2>2. user' = user /\ grants' = grants /\ deleted' = deleted \union {req[r].role}
        /\ req[r].op # "update_role"
    BY <1>4 DEF CommitDelete, At
  <2>3. QED
    BY <1>1, <1>2, <2>1, <2>2, CommitAdminInv DEF AdminInv, TypeOK, GrantsInv
<1>5. CASE CommitGrants(r)
  <2>1. /\ req[r].op = "update_role" /\ req[r].role \in Roles /\ req[r].want # {}
        /\ req[r].put = req[r].want /\ req[r].want \subseteq Permissions
    BY <1>1, <1>5 DEF CommitGrants, At, AdminInv, AskedInv, Request, ReplaceInv, Replacement
  <2>2. user' = user /\ deleted' = deleted
        /\ grants' = [grants EXCEPT ![req[r].role] = Remaining(r) \union req[r].put]
    BY <1>5 DEF CommitGrants
  <2>3. Remaining(r) \subseteq Permissions
    BY <1>1, <2>1 DEF Remaining, TypeOK
  <2>4. grants' \in [Roles -> SUBSET Permissions] /\ \A ro \in Roles : grants'[ro] # {}
    BY <1>1, <2>1, <2>2, <2>3 DEF AdminInv, TypeOK, GrantsInv
  <2>5. QED
    BY <1>1, <1>2, <2>1, <2>2, <2>4, CommitAdminInv DEF AdminInv, TypeOK
<1>6. QED
  BY <1>3, <1>4, <1>5

\* Every step keeps the invariant.
LEMMA NextAdminInv == AdminInv /\ [Next]_vars => AdminInv'
<1> SUFFICES ASSUME AdminInv, [Next]_vars
             PROVE  AdminInv'
  OBVIOUS
<1>1. CASE UNCHANGED vars
  BY <1>1 DEF vars, AdminInv, TypeOK, AskedInv, GrantsInv, ReadInv, ReadOf, LeavesAdmin,
              ActiveAdmins, UsersOf, ReplaceInv, Replacement
<1>2. ASSUME NEW r \in Requests, Authorise(r)
      PROVE  AdminInv'
  BY <1>2, AuthoriseAdminInv
<1>3. ASSUME NEW r \in Requests, Step(r)
      PROVE  AdminInv'
  BY <1>3, UserReads, RoleReads, Commits DEF Step
<1>4. ASSUME NEW r \in Requests, Fail(r) \/ BreakDeadlock(r)
      PROVE  AdminInv'
  <2>1. req[r].pc # "new" /\ End(r) /\ UNCHANGED <<user, deleted, grants>>
    BY <1>4 DEF Fail, BreakDeadlock, WaitsFor
  <2>2. QED
    BY <2>1, EndAdminInv
<1>5. QED
  BY <1>1, <1>2, <1>3, <1>4 DEF Next

\* The invariant holds in every reachable state.
LEMMA AdminInvHolds == Spec => []AdminInv
<1>1. QED
  BY InitAdminInv, NextAdminInv, PTL DEF Spec

-----------------------------------------------------------------------------
(* The results *)

\* Users, roles, permissions and requests keep their shape, and the admin role
\* is never deleted (services/role.py: a system role is refused).
THEOREM AdministrationTypes == Spec => []TypeOK
<1>1. AdminInv => TypeOK
  BY DEF AdminInv
<1>2. QED
  BY <1>1, AdminInvHolds, PTL

\* No role is ever without permissions, however many requests replace them at
\* once and in whatever order they delete, wait, fail and commit.
THEOREM RolesAreNeverEmpty == Spec => []RolesKeepGrants
<1>1. AdminInv => RolesKeepGrants
  BY DEF AdminInv, GrantsInv, RolesKeepGrants
<1>2. QED
  BY <1>1, AdminInvHolds, PTL

\* A request ends by its own step only: it commits, or it leaves the data alone.
LEMMA HowRequestsEnd ==
    ASSUME TypeOK, NEW r \in Requests, Ends(r), [Next]_vars
    PROVE  \/ CommitUser(r) \/ CommitDelete(r) \/ CommitGrants(r)
           \/ UNCHANGED <<user, deleted, grants>>
<1> USE AdministrationAssumption
<1>1. CASE UNCHANGED vars
  BY <1>1 DEF vars
<1>2. ASSUME NEW q \in Requests, Authorise(q)
      PROVE  UNCHANGED <<user, deleted, grants>>
  BY <1>2 DEF Authorise
<1>3. ASSUME NEW q \in Requests, Fail(q) \/ BreakDeadlock(q)
      PROVE  UNCHANGED <<user, deleted, grants>>
  BY <1>3 DEF Fail, BreakDeadlock
<1>4. ASSUME NEW q \in Requests, Step(q)
      PROVE  \/ CommitUser(r) \/ CommitDelete(r) \/ CommitGrants(r)
             \/ UNCHANGED <<user, deleted, grants>>
  <2>1. CASE q = r
    BY <1>4, <2>1 DEF Step, LoadUser, FindRole, LockUser, CheckAdmin, InsertUser, LoadRole,
                      CountUsers, FindGrants, DeleteGrant, InsertGrant
  <2>2. CASE q # r /\ Commit(q)
    <3>1. req[r].pc = "checked" /\ req'[r].pc = "ended" /\ req[r] \in Request
      BY DEF Ends, TypeOK
    <3>2. req'[r] = Disturbed(r, q)
      BY <2>2, <3>1 DEF Commit
    <3>3. req'[r].pc = "checked"
      BY <3>1, <3>2 DEF Disturbed, Request
    <3>4. QED
      BY <3>1, <3>3
  <2>3. CASE q # r /\ ~Commit(q)
    BY <1>4, <2>3 DEF Step, LoadUser, FindRole, LockUser, CheckAdmin, InsertUser, LoadRole,
                      CountUsers, FindGrants, DeleteGrant, InsertGrant, CommitUser,
                      CommitDelete, CommitGrants
  <2>4. QED
    BY <2>1, <2>2, <2>3
<1>5. QED
  BY <1>1, <1>2, <1>3, <1>4 DEF Next

\* A deactivation that no other request disturbed leaves an active admin.
THEOREM DeactivationKeepsAdmin == Spec => AdminKept
<1> USE AdministrationAssumption
<1>1. ASSUME AdminInv, [Next]_vars, NEW r \in Requests, Ends(r),
             req[r].op = "update_user", req[r].role = NoRole, ~req[r].disturbed,
             ActiveAdmins # {}
      PROVE  ActiveAdmins' # {}
  <2>1. TypeOK /\ req[r].pc = "checked" /\ req[r] \in Request
    BY <1>1 DEF AdminInv, TypeOK, Ends
  <2>2. CASE UNCHANGED <<user, deleted, grants>>
    BY <1>1, <2>2 DEF ActiveAdmins
  <2>3. CASE CommitUser(r)
    <3> DEFINE u == req[r].user
    <3>1. u \in Users /\ user[u] \in UserRow
      BY <2>1 DEF TypeOK, Request
    <3>2. ReadOf(r)
      BY <1>1 DEF AdminInv, ReadInv
    <3>3. user' = [user EXCEPT ![u] = Updated(r)]
      BY <1>1, <2>3 DEF CommitUser
    <3>4. ~ChangesRole(r) /\ req[r].loaded = user[u]
      BY <1>1, <2>1, <3>2 DEF ChangesRole, ReadOf
    <3>5. Updated(r) = [user[u] EXCEPT !.active = IF ChangesActive(r) THEN req[r].active = "on" ELSE @]
      BY <3>1, <3>4 DEF Updated, UserRow
    <3>6. CASE req[r].active = "off" /\ user[u].role = AdminRole
      <4>1. PICK w \in ActiveAdmins : w # u
        BY <1>1, <2>1, <3>2, <3>6 DEF ReadOf, LeavesAdmin
      <4>2. user'[w] = user[w]
        BY <3>3, <4>1, <2>1 DEF TypeOK, ActiveAdmins
      <4>3. w \in ActiveAdmins'
        BY <4>1, <4>2 DEF ActiveAdmins
      <4>4. QED
        BY <4>3
    <3>7. CASE ~(req[r].active = "off" /\ user[u].role = AdminRole)
      <4>1. PICK w \in ActiveAdmins : TRUE
        BY <1>1
      <4>2. user'[w].exists /\ user'[w].role = AdminRole /\ user'[w].active
        <5>1. CASE w # u
          BY <2>1, <3>3, <4>1, <5>1 DEF TypeOK, ActiveAdmins
        <5>2. CASE w = u
          <6>1. req[r].active # "off" /\ user[u].active /\ user[u].exists /\ user[u].role = AdminRole
            BY <3>7, <4>1, <5>2 DEF ActiveAdmins
          <6>2. ~ChangesActive(r)
            BY <3>4, <6>1 DEF ChangesActive
          <6>3. user'[u] = Updated(r) /\ Updated(r) = user[u]
            BY <2>1, <3>1, <3>3, <3>5, <6>2 DEF TypeOK, UserRow
          <6>4. QED
            BY <5>2, <6>1, <6>3
        <5>3. QED
          BY <5>1, <5>2
      <4>3. w \in ActiveAdmins'
        BY <4>1, <4>2 DEF ActiveAdmins
      <4>4. QED
        BY <4>3
    <3>8. QED
      BY <3>6, <3>7
  <2>4. ~CommitDelete(r) /\ ~CommitGrants(r)
    BY <1>1 DEF CommitDelete, CommitGrants, At
  <2>5. QED
    BY <1>1, <2>1, <2>2, <2>3, <2>4, HowRequestsEnd
<1>2. AdminInv /\ [Next]_vars =>
        [\A r \in Requests :
           /\ Ends(r)
           /\ req[r].op = "update_user"
           /\ req[r].role = NoRole
           /\ ~req[r].disturbed
           /\ ActiveAdmins # {}
           => ActiveAdmins' # {}]_vars
  BY <1>1
<1>3. QED
  BY <1>2, AdminInvHolds, PTL DEF Spec, AdminKept

\* A request that no other disturbed leaves no user with a deleted role.
THEOREM UndisturbedRolesExist == Spec => RolesOfUsersExist
<1> USE AdministrationAssumption
<1>1. ASSUME AdminInv, [Next]_vars, NEW r \in Requests, Ends(r), ~req[r].disturbed,
             \A ro \in deleted : UsersOf(ro) = {}, NEW ro \in deleted'
      PROVE  UsersOf(ro)' = {}
  <2>1. TypeOK /\ req[r].pc = "checked" /\ req[r] \in Request /\ ReadOf(r)
    BY <1>1 DEF AdminInv, TypeOK, Ends, ReadInv
  <2>2. CASE UNCHANGED <<user, deleted, grants>> \/ CommitGrants(r)
    <3>1. UNCHANGED <<user, deleted>>
      BY <2>2 DEF CommitGrants
    <3>2. QED
      BY <1>1, <3>1 DEF UsersOf
  <2>3. CASE CommitDelete(r)
    <3>1. user' = user /\ deleted' = deleted \union {req[r].role} /\ UsersOf(req[r].role) = {}
      BY <2>1, <2>3 DEF CommitDelete, At, ReadOf
    <3>2. QED
      BY <1>1, <3>1 DEF UsersOf
  <2>4. CASE CommitUser(r)
    <3> DEFINE u == req[r].user
    <3>1. u \in Users /\ user[u] \in UserRow /\ user \in [Users -> UserRow]
      BY <2>1 DEF TypeOK, Request
    <3>2. deleted' = deleted /\ req[r].op \in {"create_user", "update_user"}
      BY <2>4 DEF CommitUser, At
    <3>3. req[r].role \notin deleted
      BY <2>1, <3>2 DEF ReadOf
    <3>4. \A w \in Users : w # u => user'[w] = user[w]
      BY <2>4, <3>1 DEF CommitUser
    <3>5. \/ user'[u].role = req[r].role
          \/ user'[u].role = user[u].role /\ user'[u].exists = user[u].exists
      <4>1. CASE req[r].op = "update_user"
        <5>1. user'[u] = Updated(r)
          BY <2>4, <3>1, <4>1 DEF CommitUser
        <5>2. QED
          BY <3>1, <5>1 DEF Updated, UserRow
      <4>2. CASE req[r].op = "create_user"
        BY <2>4, <3>1, <4>2 DEF CommitUser
      <4>3. QED
        BY <3>2, <4>1, <4>2
    <3>6. ASSUME NEW w \in Users, user'[w].exists, user'[w].role = ro
          PROVE  FALSE
      <4>1. user[w].exists /\ user[w].role = ro
        BY <1>1, <3>2, <3>3, <3>4, <3>5, <3>6
      <4>2. QED
        BY <1>1, <3>2, <4>1 DEF UsersOf
    <3>7. QED
      BY <3>6 DEF UsersOf
  <2>5. QED
    BY <1>1, <2>1, <2>2, <2>3, <2>4, HowRequestsEnd
<1>2. AdminInv /\ [Next]_vars =>
        [\A r \in Requests :
           /\ Ends(r)
           /\ ~req[r].disturbed
           /\ \A ro \in deleted : UsersOf(ro) = {}
           => \A ro \in deleted' : UsersOf(ro)' = {}]_vars
  BY <1>1
<1>3. QED
  BY <1>2, AdminInvHolds, PTL DEF Spec, RolesOfUsersExist

-----------------------------------------------------------------------------
(* Permissions are replaced as a whole *)

\* A replacement that commits leaves its role with all it asked for and with
\* nothing that was there when its DELETE began: each of those mappings it deleted
\* itself, or a replacement that it waited for had deleted (role.py:153-157,
\* repositories/role.py:111-118).
THEOREM ReplacementsAreWhole == Spec => GrantsReplaced
<1>1. ASSUME AdminInv, [Next]_vars, NEW r \in Requests, Ends(r), req[r].op = "update_role"
      PROVE  \/ UNCHANGED grants
             \/ /\ req[r].want \subseteq grants'[req[r].role]
                /\ grants'[req[r].role] \subseteq req[r].want \union req[r].added
  <2>1. TypeOK /\ req[r].pc = "checked" /\ req[r].role \in Roles
    BY <1>1 DEF AdminInv, AskedInv, Ends
  <2>2. CASE CommitGrants(r)
    <3>1. /\ grants[req[r].role] \subseteq req[r].gone \union req[r].added
          /\ req[r].put = req[r].want
      BY <1>1, <2>1 DEF AdminInv, ReplaceInv, Replacement
    <3>2. grants'[req[r].role] = Remaining(r) \union req[r].put
      BY <2>1, <2>2 DEF CommitGrants, TypeOK
    <3>3. QED
      BY <3>1, <3>2 DEF Remaining
  <2>3. CASE ~CommitGrants(r)
    BY <1>1, <2>1, <2>3, HowRequestsEnd DEF CommitUser, CommitDelete
  <2>4. QED
    BY <2>2, <2>3
<1>2. AdminInv /\ [Next]_vars =>
        [\A r \in Requests :
           LET ro == req[r].role
           IN  /\ Ends(r)
               /\ req[r].op = "update_role"
               => \/ UNCHANGED grants
                  \/ /\ req[r].want \subseteq grants'[ro]
                     /\ grants'[ro] \subseteq req[r].want \union req[r].added]_vars
  BY <1>1
<1>3. QED
  BY <1>2, AdminInvHolds, PTL DEF Spec, GrantsReplaced

==============================================================================
