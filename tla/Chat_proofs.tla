----------------------------- MODULE Chat_proofs -----------------------------
(***************************************************************************)
(* Proofs about Chat, for any users, any limit and any number of requests, *)
(* and about ChatScreen, for any number of fetches as well.  Those about   *)
(* Chat do not use what ChatScreen assumes of its constants.               *)
(***************************************************************************)
EXTENDS ChatScreen, TLAPS

-----------------------------------------------------------------------------
(* The inductive invariant *)

\* Requests begin in the order of their numbers, and name sessions that were
\* opened before.
BeginInv ==
    /\ \A q, r \in Requests : q < r /\ req[r].pc # "new" => req[q].pc # "new"
    /\ \A r \in Requests : req[r].asked # NoSession =>
         /\ req[r].pc # "new"
         /\ req[r].asked < r
         /\ req[req[r].asked].pc # "new"

\* What is stored and counted.
StoredInv ==
    \A s \in Requests :
       /\ count[s] \subseteq messages[s]
       /\ \A r \in messages[s] : req[r].pc = "ended" /\ SessionOf(r) = s

\* Two requests for a session that were open at the same time know of each other,
\* the later also after it is stored.
OverlapInv ==
    \A p, r \in Requests :
       /\ p # r
       /\ p \in Open
       /\ r \in Open \/ (p < r /\ r \in messages[SessionOf(r)])
       /\ SessionOf(p) = SessionOf(r)
       => p \in req[r].overlaps

Writing == {"loaded", "counted", "written"}

\* What request r may rely on when it is stored: the session is its user's, its
\* count lacks only requests beside it, and so does its history.
OwnInv(r) ==
    /\ req[r].pc \in Writing /\ req[r].asked # NoSession =>
         req[r].asked \in sessions /\ Owner(req[r].asked) = req[r].user
    /\ req[r].pc \in {"counted", "written"} =>
         /\ r \in req[r].counted
         /\ req[r].counted \subseteq messages[SessionOf(r)] \union {r}
         /\ messages[SessionOf(r)] \subseteq req[r].counted \union req[r].overlaps
    /\ req[r].pc \in Writing \/ r \in messages[SessionOf(r)] =>
         \A p \in messages[SessionOf(r)] : p < r /\ p \notin req[r].overlaps => p \in req[r].seen

ChatInv ==
    /\ TypeOK
    /\ BeginInv
    /\ StoredInv
    /\ SessionsArePrivate
    /\ NoEmptySession
    /\ CountMissesOverlapping
    /\ OverlapInv
    /\ \A r \in Requests : OwnInv(r)

\* No request has begun, and nothing is stored.
LEMMA InitChatInv == Init => ChatInv
<1> SUFFICES ASSUME Init
             PROVE  ChatInv
  OBVIOUS
<1>1. (CHOOSE u \in Users : TRUE) \in Users
  BY ChatAssumption
<1>2. TypeOK
  BY <1>1 DEF Init, TypeOK, Request, Progress
<1>3. \A r \in Requests : req[r].pc = "new" /\ req[r].asked = NoSession
  BY DEF Init
<1>4. \A s \in Requests : messages[s] = {} /\ count[s] = {}
  BY DEF Init
<1>5. sessions = {} /\ Open = {}
  BY <1>3 DEF Init, Open
<1>6. \A r \in Requests : SessionOf(r) = r
  BY <1>3 DEF SessionOf
<1>7. \A r \in Requests : OwnInv(r)
  BY <1>3, <1>4, <1>6 DEF OwnInv, Writing
<1>8. QED
  BY <1>2, <1>3, <1>4, <1>5, <1>7
  DEF ChatInv, BeginInv, StoredInv, SessionsArePrivate, NoEmptySession, CountMissesOverlapping, OverlapInv

\* A session's number is a request's.
LEMMA SessionType ==
    ASSUME TypeOK, NEW r \in Requests
    PROVE  /\ SessionOf(r) \in Requests
           /\ req[r].asked \in Requests => SessionOf(r) = req[r].asked
<1>1. req[r].asked \in Requests \union {NoSession} /\ NoSession \notin Requests
  BY DEF TypeOK, Request, Requests, NoSession
<1>2. QED
  BY <1>1 DEF SessionOf

-----------------------------------------------------------------------------
(* The steps *)

\* A step of request r that neither begins nor ends it, nor stores anything: only
\* what r relies on has to be looked at.
LEMMA OwnStep ==
    ASSUME ChatInv, NEW r \in Requests, NEW rec \in Request,
           req' = [req EXCEPT ![r] = rec],
           UNCHANGED <<sessions, messages, count>>,
           counter' \in [Users -> Nat], expires' \subseteq Users,
           rec.user = req[r].user, rec.asked = req[r].asked, rec.overlaps = req[r].overlaps,
           req[r].pc # "new", rec.pc # "new",
           req[r].pc \in Over <=> rec.pc \in Over,
           req[r].pc = "ended" => rec.pc = "ended",
           OwnInv(r)'
    PROVE  ChatInv'
<1>1. req \in [Requests -> Request] /\ req' \in [Requests -> Request]
  BY DEF ChatInv, TypeOK
<1>2. \A q \in Requests :
        /\ req'[q].user = req[q].user /\ req'[q].asked = req[q].asked
        /\ req'[q].overlaps = req[q].overlaps
        /\ req'[q].pc = "new" <=> req[q].pc = "new"
        /\ req'[q].pc \in Over <=> req[q].pc \in Over
        /\ req[q].pc = "ended" => req'[q].pc = "ended"
        /\ q # r => req'[q] = req[q]
  BY <1>1
<1>3. TypeOK'
  BY <1>1 DEF ChatInv, TypeOK
<1>4. Open' = Open
  BY <1>2 DEF Open
<1>5. \A q \in Requests : SessionOf(q)' = SessionOf(q)
  BY <1>2 DEF SessionOf
<1>6. BeginInv'
  <2>1. \A q \in Requests : req[q].asked # NoSession => req[q].asked \in Requests
    BY DEF ChatInv, TypeOK, Request
  <2>2. QED
    BY <1>2, <2>1 DEF ChatInv, BeginInv
<1>7. StoredInv'
  <2>1. \A s \in Requests : messages[s] \subseteq Requests
    BY DEF ChatInv, TypeOK
  <2>2. QED
    BY <1>2, <1>5, <2>1 DEF ChatInv, StoredInv
<1>8. SessionsArePrivate' /\ NoEmptySession'
  BY <1>2 DEF ChatInv, TypeOK, SessionsArePrivate, NoEmptySession, Owner
<1>9. CountMissesOverlapping'
  BY <1>2 DEF ChatInv, TypeOK, CountMissesOverlapping
<1>10. OverlapInv'
  BY <1>2, <1>4, <1>5 DEF ChatInv, OverlapInv
<1>11. ASSUME NEW q \in Requests \ {r}
       PROVE  OwnInv(q)'
  <2>1. OwnInv(q) /\ req'[q] = req[q] /\ SessionOf(q)' = SessionOf(q)
    BY <1>2, <1>5 DEF ChatInv
  <2>2. req[q].asked # NoSession => Owner(req[q].asked)' = Owner(req[q].asked)
    BY <1>2 DEF ChatInv, TypeOK, Request, Owner
  <2>3. QED
    BY <2>1, <2>2 DEF OwnInv
<1>12. QED
  BY <1>3, <1>6, <1>7, <1>8, <1>9, <1>10, <1>11 DEF ChatInv

\* A request that is rolled back is nowhere stored.
LEMMA DropKeeps ==
    ASSUME ChatInv, NEW r \in Open, NEW pc \in Over, NEW answer \in {"ok", "failed"},
           Drop(r, pc, answer),
           UNCHANGED <<counter, sessions, messages, count>>, expires' \subseteq Users
    PROVE  ChatInv'
<1>1. r \in Requests /\ req[r].pc \notin Over \union {"new"}
  BY DEF Open
<1>2. req \in [Requests -> Request]
  BY DEF ChatInv, TypeOK
<1>3. /\ req'[r].pc = pc /\ req'[r].user = req[r].user /\ req'[r].asked = req[r].asked
      /\ req'[r] \in Request
  <2> DEFINE rec == [req[r] EXCEPT !.pc = pc, !.answer = answer, !.number = 0, !.seen = {},
                                   !.counted = {}, !.overlaps = {}]
  <2>1. req'[r] = rec
    BY <1>1 DEF Drop
  <2>2. req[r] \in Request /\ pc \in Progress /\ answer \in {"none", "ok", "failed"}
    BY <1>1, <1>2 DEF Over, Progress
  <2>3. /\ rec.pc = pc /\ rec.user = req[r].user /\ rec.asked = req[r].asked
        /\ rec \in Request
    BY <2>2 DEF Request
  <2>4. QED
    BY <2>1, <2>3
<1>4. \A q \in Requests \ {r} :
        /\ req'[q].pc = req[q].pc /\ req'[q].user = req[q].user /\ req'[q].asked = req[q].asked
        /\ req'[q].seen = req[q].seen /\ req'[q].counted = req[q].counted
        /\ req'[q].overlaps = req[q].overlaps \ {r}
        /\ req'[q] \in Request
  BY <1>1, <1>2 DEF Drop, Request
<1>5. \A s \in Requests : messages[s] \subseteq Requests \ {r} /\ count[s] \subseteq messages[s]
  BY <1>1 DEF ChatInv, TypeOK, StoredInv, Over
<1>6. TypeOK'
  <2>1. req' \in [Requests -> Request]
    BY <1>3, <1>4 DEF Drop
  <2>2. QED
    BY <2>1 DEF ChatInv, TypeOK
<1>7. Open' = Open \ {r}
  BY <1>1, <1>3, <1>4 DEF Open
<1>8. \A q \in Requests : SessionOf(q)' = SessionOf(q)
  BY <1>3, <1>4 DEF SessionOf
<1>9. BeginInv'
  <2>1. \A q \in Requests : req'[q].asked = req[q].asked /\ (req'[q].pc = "new" <=> req[q].pc = "new")
    BY <1>1, <1>3, <1>4 DEF Over
  <2>2. \A q \in Requests : req[q].asked # NoSession => req[q].asked \in Requests
    BY <1>2 DEF Request
  <2>3. QED
    BY <2>1, <2>2 DEF ChatInv, BeginInv
<1>10. StoredInv'
  BY <1>4, <1>5, <1>8 DEF ChatInv, StoredInv
<1>11. SessionsArePrivate' /\ NoEmptySession'
  BY <1>3, <1>4, <1>5 DEF ChatInv, TypeOK, SessionsArePrivate, NoEmptySession, Owner
<1>12. CountMissesOverlapping'
  <2>1. SUFFICES ASSUME NEW s \in sessions, NEW p \in messages[s] \ count[s]
                 PROVE  \E o \in count[s] : p \in req'[o].overlaps
    BY DEF CountMissesOverlapping
  <2>2. s \in Requests
    BY DEF ChatInv, TypeOK
  <2>3. PICK o \in count[s] : p \in req[o].overlaps
    BY <2>1 DEF ChatInv, CountMissesOverlapping
  <2>4. o \in Requests \ {r} /\ p # r
    BY <1>5, <2>2, <2>3
  <2>5. QED
    BY <1>4, <2>3, <2>4
<1>13. OverlapInv'
  BY <1>4, <1>5, <1>7, <1>8, SessionType DEF ChatInv, OverlapInv
<1>14. ASSUME NEW q \in Requests
       PROVE  OwnInv(q)'
  <2>1. CASE q = r
    BY <1>1, <1>3, <1>5, <1>8, <2>1, SessionType DEF ChatInv, OwnInv, Writing, Over
  <2>2. CASE q # r
    <3>1. OwnInv(q) /\ SessionOf(q)' = SessionOf(q) /\ SessionOf(q) \in Requests
      BY <1>8, SessionType DEF ChatInv
    <3>2. req[q].asked # NoSession => Owner(req[q].asked)' = Owner(req[q].asked)
      BY <1>2, <1>3, <1>4 DEF Request, Owner
    <3>3. messages[SessionOf(q)] \subseteq Requests \ {r}
      BY <1>5, <3>1
    <3>4. QED
      BY <1>4, <2>2, <3>1, <3>2, <3>3 DEF OwnInv
  <2>3. QED
    BY <2>1, <2>2
<1>15. QED
  BY <1>6, <1>9, <1>10, <1>11, <1>12, <1>13, <1>14 DEF ChatInv

\* A request that begins learns of the open requests for its session, and they of
\* it; no request that has begun belongs to the session it may open.
LEMMA BeginKeeps ==
    ASSUME ChatInv, NEW r \in Requests, NEW u \in Users, NEW s \in Known \union {NoSession},
           Begin(r, u, s)
    PROVE  ChatInv'
<1> DEFINE beside == {q \in Open : SessionOf(q) = s}
<1> DEFINE rec == [req[r] EXCEPT !.pc = "begun", !.user = u, !.asked = s, !.overlaps = beside]
<1>1. /\ req \in [Requests -> Request]
      /\ req[r].pc = "new"
      /\ r \notin beside /\ r \notin Open /\ beside \subseteq Requests
      /\ NoSession \notin Requests
  <2>1. req \in [Requests -> Request] /\ req[r].pc = "new"
    BY DEF Begin, ChatInv, TypeOK
  <2>2. r \notin Open /\ beside \subseteq Open /\ Open \subseteq Requests
    BY <2>1 DEF Open
  <2>3. NoSession \notin Requests
    BY DEF Requests, NoSession
  <2>4. QED
    BY <2>1, <2>2, <2>3
<1>2. req'[r] = rec
  BY <1>1 DEF Begin
<1>3. s # NoSession => s \in Requests /\ s # r /\ s < r /\ req[s].pc # "new"
  <2> SUFFICES ASSUME s # NoSession
               PROVE  s \in Requests /\ s # r /\ s < r /\ req[s].pc # "new"
    OBVIOUS
  <2>1. s \in Requests /\ req[s].pc # "new" /\ s # r
    BY <1>1 DEF Known
  <2>2. ~(r < s)
    BY <1>1, <2>1 DEF ChatInv, BeginInv
  <2>3. QED
    BY <2>1, <2>2 DEF Requests
<1>4. /\ rec.pc = "begun" /\ rec.user = u /\ rec.asked = s /\ rec.overlaps = beside
      /\ rec \in Request
  <2>1. req[r] \in Request /\ s \in Requests \union {NoSession} /\ beside \subseteq Requests
    BY <1>1, <1>3
  <2>2. QED
    BY <2>1 DEF Request, Progress
<1>5. \A q \in Requests \ {r} :
        /\ req'[q].pc = req[q].pc /\ req'[q].user = req[q].user /\ req'[q].asked = req[q].asked
        /\ req'[q].seen = req[q].seen /\ req'[q].counted = req[q].counted
        /\ req'[q].overlaps = IF q \in beside THEN req[q].overlaps \union {r} ELSE req[q].overlaps
        /\ req'[q] \in Request
  <2>1. SUFFICES ASSUME NEW q \in Requests \ {r}
                 PROVE  /\ req'[q].pc = req[q].pc /\ req'[q].user = req[q].user
                        /\ req'[q].asked = req[q].asked /\ req'[q].seen = req[q].seen
                        /\ req'[q].counted = req[q].counted
                        /\ req'[q].overlaps = IF q \in beside THEN req[q].overlaps \union {r}
                                                              ELSE req[q].overlaps
                        /\ req'[q] \in Request
    OBVIOUS
  <2>2. req[q] \in Request
    BY <1>1
  <2>3. CASE q \in beside
    <3>1. req'[q] = [req[q] EXCEPT !.overlaps = @ \union {r}]
      BY <2>1, <2>3, <1>1 DEF Begin
    <3>2. QED
      BY <2>2, <2>3, <3>1 DEF Request
  <2>4. CASE q \notin beside
    <3>1. req'[q] = req[q]
      BY <2>1, <2>4, <1>1 DEF Begin
    <3>2. QED
      BY <2>2, <2>4, <3>1
  <2>5. QED
    BY <2>3, <2>4
<1> HIDE DEF rec, beside
<1>6. /\ req[r].asked = NoSession
      /\ \A q \in Requests : req[q].asked # r
  BY <1>1 DEF ChatInv, BeginInv
<1>7. \A q \in Requests \ {r} : SessionOf(q)' = SessionOf(q) /\ SessionOf(q) # r
  BY <1>5, <1>6 DEF SessionOf
<1>8. SessionOf(r)' = IF s = NoSession THEN r ELSE s
  BY <1>2, <1>4 DEF SessionOf
<1>9. Open' = Open \union {r}
  BY <1>2, <1>4, <1>5 DEF Open, Over
<1>10. \A t \in Requests : messages[t] \subseteq Requests \ {r} /\ count[t] \subseteq messages[t]
  BY <1>1 DEF ChatInv, TypeOK, StoredInv
<1>11. UNCHANGED <<counter, expires, sessions, messages, count>>
  BY DEF Begin
<1>12. TypeOK'
  <2>1. req' \in [Requests -> Request]
    BY <1>2, <1>4, <1>5 DEF Begin
  <2>2. QED
    BY <1>11, <2>1 DEF ChatInv, TypeOK
<1>13. BeginInv'
  <2>1. \A q \in Requests : q < r => req[q].pc # "new"
    <3>1. \A q \in Requests : q < r => q \in 1..(r - 1)
      BY ChatAssumption DEF Requests
    <3>2. QED
      BY <3>1 DEF Begin
  <2>2. \A q \in Requests : req'[q].pc # "new" <=> (q = r \/ req[q].pc # "new")
    BY <1>2, <1>4, <1>5
  <2>3. \A q \in Requests : req[q].asked # NoSession => req[q].asked \in Requests
    BY <1>1 DEF Request
  <2>4. \A q, p \in Requests : q < p /\ req'[p].pc # "new" => req'[q].pc # "new"
    BY <2>1, <2>2 DEF ChatInv, BeginInv
  <2>5. ASSUME NEW q \in Requests, req'[q].asked # NoSession
        PROVE  /\ req'[q].pc # "new"
               /\ req'[q].asked < q
               /\ req'[req'[q].asked].pc # "new"
    <3>1. CASE q = r
      BY <1>2, <1>3, <1>4, <2>2, <2>5, <3>1
    <3>2. CASE q # r
      BY <1>5, <2>2, <2>3, <2>5, <3>2 DEF ChatInv, BeginInv
    <3>3. QED
      BY <3>1, <3>2
  <2>6. QED
    BY <2>4, <2>5 DEF BeginInv
<1>14. StoredInv'
  BY <1>5, <1>7, <1>10, <1>11 DEF ChatInv, StoredInv
<1>15. SessionsArePrivate'
  <2>1. \A t \in Requests : messages[t] # {} => t # r
    BY <1>7, <1>10 DEF ChatInv, StoredInv
  <2>2. SUFFICES ASSUME NEW t \in Requests, NEW p \in messages[t]
                 PROVE  req'[p].user = req'[t].user
    BY <1>11 DEF SessionsArePrivate, Owner
  <2>3. p \in Requests \ {r} /\ t # r
    BY <1>10, <2>1
  <2>4. QED
    BY <1>5, <2>3 DEF ChatInv, SessionsArePrivate, Owner
<1>16. NoEmptySession'
  BY <1>11 DEF ChatInv, NoEmptySession
<1>17. CountMissesOverlapping'
  <2>1. SUFFICES ASSUME NEW t \in sessions, NEW p \in messages[t] \ count[t]
                 PROVE  \E o \in count[t] : p \in req'[o].overlaps
    BY <1>11 DEF CountMissesOverlapping
  <2>2. t \in Requests
    BY DEF ChatInv, TypeOK
  <2>3. PICK o \in count[t] : p \in req[o].overlaps
    BY <2>1 DEF ChatInv, CountMissesOverlapping
  <2>4. o \in Requests \ {r}
    BY <1>10, <2>2, <2>3
  <2>5. QED
    BY <1>5, <2>3, <2>4
<1>18. OverlapInv'
  <2>1. SUFFICES ASSUME NEW p \in Requests, NEW q \in Requests,
                        p # q, p \in Open',
                        q \in Open' \/ (p < q /\ q \in messages[SessionOf(q)']),
                        SessionOf(p)' = SessionOf(q)'
                 PROVE  p \in req'[q].overlaps
    BY <1>11 DEF OverlapInv
  <2>2. CASE p = r
    <3>1. q # r /\ SessionOf(q)' = SessionOf(q) /\ SessionOf(q) \in Requests
      BY <1>7, <2>1, <2>2, SessionType DEF ChatInv
    <3>2. s # NoSession /\ SessionOf(q) = s
      BY <1>7, <1>8, <2>1, <2>2, <3>1
    <3>3. q \in Open
      <4>1. ~(r < q /\ q \in messages[SessionOf(q)])
        BY <1>1, <3>1 DEF ChatInv, BeginInv, StoredInv
      <4>2. QED
        BY <1>9, <2>1, <2>2, <3>1, <4>1
    <3>4. QED
      BY <1>5, <2>2, <3>1, <3>2, <3>3 DEF beside
  <2>3. CASE q = r
    <3>1. p \in Open /\ SessionOf(p)' = SessionOf(p) /\ SessionOf(p) # r
      BY <1>7, <1>9, <2>1, <2>3
    <3>2. SessionOf(p) = s
      BY <1>8, <2>1, <2>3, <3>1
    <3>3. QED
      BY <1>2, <1>4, <2>3, <3>1, <3>2 DEF beside
  <2>4. CASE p # r /\ q # r
    <3>1. p \in Open /\ (q \in Open \/ (p < q /\ q \in messages[SessionOf(q)]))
      BY <1>7, <1>9, <2>1, <2>4
    <3>2. p \in req[q].overlaps
      BY <1>7, <2>1, <2>4, <3>1 DEF ChatInv, OverlapInv
    <3>3. QED
      BY <1>5, <2>4, <3>2
  <2>5. QED
    BY <2>2, <2>3, <2>4
<1>19. ASSUME NEW q \in Requests
       PROVE  OwnInv(q)'
  <2>1. CASE q = r
    <3>1. \A t \in Requests : r \notin messages[t]
      BY <1>10
    <3>2. SessionOf(r)' \in Requests
      BY <1>3, <1>8
    <3>3. QED
      BY <1>2, <1>4, <1>11, <2>1, <3>1, <3>2 DEF OwnInv, Writing
  <2>2. CASE q # r
    <3>1. OwnInv(q) /\ SessionOf(q)' = SessionOf(q)
      BY <1>7, <2>2 DEF ChatInv
    <3>2. req[q].asked # NoSession => Owner(req[q].asked)' = Owner(req[q].asked)
      <4>1. req'[q].asked = req[q].asked /\ req[q].asked # r /\ req[q] \in Request
        BY <1>1, <1>5, <1>6, <2>2
      <4>2. req[q].asked # NoSession => req[q].asked \in Requests \ {r}
        BY <4>1 DEF Request
      <4>3. QED
        BY <1>5, <4>1, <4>2 DEF Owner
    <3>3. req[q].overlaps \subseteq req'[q].overlaps
      BY <1>5, <2>2
    <3>4. QED
      BY <1>5, <1>11, <2>2, <3>1, <3>2, <3>3 DEF OwnInv
  <2>3. QED
    BY <2>1, <2>2
<1>20. QED
  BY <1>12, <1>13, <1>14, <1>15, <1>16, <1>17, <1>18, <1>19 DEF ChatInv

\* A request that is stored has in its count, or beside it, all its session holds.
LEMMA CommitKeeps ==
    ASSUME ChatInv, NEW r \in Requests, Commit(r)
    PROVE  ChatInv'
<1> DEFINE s == SessionOf(r)
<1> DEFINE rec == [req[r] EXCEPT !.pc = "ended", !.counted = {}]
<1>1. /\ req \in [Requests -> Request] /\ req[r].pc = "written" /\ r \in Open
      /\ s \in Requests
      /\ sessions \subseteq Requests
      /\ messages \in [Requests -> SUBSET Requests] /\ count \in [Requests -> SUBSET Requests]
  BY SessionType DEF Commit, ChatInv, TypeOK, Open, Over
<1>2. /\ req'[r] = rec
      /\ \A q \in Requests \ {r} : req'[q] = req[q]
  BY <1>1 DEF Commit
<1>3. /\ rec.pc = "ended" /\ rec.user = req[r].user /\ rec.asked = req[r].asked
      /\ rec.seen = req[r].seen /\ rec.overlaps = req[r].overlaps
      /\ rec \in Request
  <2>1. req[r] \in Request
    BY <1>1
  <2>2. QED
    BY <2>1 DEF Request, Progress
<1>4. /\ messages'[s] = messages[s] \union {r} /\ count'[s] = req[r].counted
      /\ \A t \in Requests \ {s} : messages'[t] = messages[t] /\ count'[t] = count[t]
      /\ sessions' = sessions \union {s}
  BY <1>1 DEF Commit, StoredCount
<1>5. /\ r \in req[r].counted
      /\ req[r].counted \subseteq messages[s] \union {r}
      /\ messages[s] \subseteq req[r].counted \union req[r].overlaps
      /\ req[r].asked # NoSession => s \in sessions /\ Owner(s) = req[r].user
      /\ req[r].asked = NoSession => s = r
  BY <1>1 DEF ChatInv, OwnInv, Writing, SessionOf
<1> HIDE DEF rec
<1>6. \A q \in Requests :
        /\ req'[q].user = req[q].user /\ req'[q].asked = req[q].asked
        /\ req'[q].seen = req[q].seen /\ req'[q].overlaps = req[q].overlaps
        /\ req'[q].pc = "new" <=> req[q].pc = "new"
  BY <1>1, <1>2, <1>3
<1>7. \A q \in Requests : SessionOf(q)' = SessionOf(q) /\ SessionOf(q) \in Requests
  BY <1>6, SessionType DEF ChatInv, SessionOf
<1>8. Open' = Open \ {r}
  BY <1>2, <1>3 DEF Open, Over
<1>9. TypeOK'
  <2>1. req' \in [Requests -> Request]
    BY <1>1, <1>2, <1>3 DEF Commit
  <2>2. messages' \in [Requests -> SUBSET Requests]
    BY <1>1 DEF Commit
  <2>3. count' \in [Requests -> SUBSET Requests]
    <3>1. req[r].counted \subseteq Requests
      BY <1>1, <1>5
    <3>2. QED
      BY <1>1, <3>1 DEF Commit, StoredCount
  <2>4. QED
    BY <1>1, <1>4, <2>1, <2>2, <2>3 DEF ChatInv, TypeOK, Commit
<1>10. BeginInv'
  <2>1. \A q \in Requests : req[q].asked # NoSession => req[q].asked \in Requests
    BY <1>1 DEF Request
  <2>2. QED
    BY <1>6, <2>1 DEF ChatInv, BeginInv
<1>11. StoredInv'
  <2>1. SUFFICES ASSUME NEW t \in Requests
                 PROVE  /\ count'[t] \subseteq messages'[t]
                        /\ \A q \in messages'[t] : req'[q].pc = "ended" /\ SessionOf(q)' = t
    BY DEF StoredInv
  <2>2. /\ count[t] \subseteq messages[t] /\ messages[t] \subseteq Requests
        /\ \A q \in messages[t] : q # r /\ req[q].pc = "ended" /\ SessionOf(q) = t
    BY <1>1 DEF ChatInv, StoredInv
  <2>3. \A q \in messages[t] : req'[q].pc = "ended" /\ SessionOf(q)' = t
    BY <1>2, <1>7, <2>2
  <2>4. CASE t = s
    BY <1>2, <1>3, <1>4, <1>5, <1>7, <2>3, <2>4
  <2>5. CASE t # s
    BY <1>4, <2>2, <2>3, <2>5
  <2>6. QED
    BY <2>4, <2>5
<1>12. SessionsArePrivate'
  <2>1. SUFFICES ASSUME NEW t \in Requests, NEW q \in messages'[t]
                 PROVE  req'[q].user = req'[t].user
    BY DEF SessionsArePrivate, Owner
  <2>2. CASE q \in messages[t]
    BY <1>1, <1>6, <2>2 DEF ChatInv, SessionsArePrivate, Owner
  <2>3. CASE q \notin messages[t]
    <3>1. t = s /\ q = r
      BY <1>4, <2>1, <2>3
    <3>2. QED
      BY <1>1, <1>5, <1>6, <3>1 DEF Owner
  <2>4. QED
    BY <2>2, <2>3
<1>13. NoEmptySession'
  <2>1. SUFFICES ASSUME NEW t \in sessions'
                 PROVE  t \in messages'[t]
    BY DEF NoEmptySession
  <2>2. t \in sessions => t \in messages[t] /\ t \in Requests
    BY <1>1 DEF ChatInv, NoEmptySession
  <2>3. QED
    BY <1>4, <1>5, <2>1, <2>2
<1>14. CountMissesOverlapping'
  <2>1. SUFFICES ASSUME NEW t \in sessions', NEW p \in messages'[t] \ count'[t]
                 PROVE  \E o \in count'[t] : p \in req'[o].overlaps
    BY DEF CountMissesOverlapping
  <2>2. CASE t = s
    <3>1. p \in req[r].overlaps
      BY <1>4, <1>5, <2>1, <2>2
    <3>2. QED
      BY <1>4, <1>5, <1>6, <2>2, <3>1
  <2>3. CASE t # s
    <3>1. t \in sessions /\ t \in Requests /\ p \in messages[t] \ count[t] /\ count'[t] = count[t]
      BY <1>1, <1>4, <2>1, <2>3
    <3>2. PICK o \in count[t] : p \in req[o].overlaps
      BY <3>1 DEF ChatInv, CountMissesOverlapping
    <3>3. o \in Requests
      BY <1>1, <3>1
    <3>4. QED
      BY <1>6, <3>1, <3>2, <3>3
  <2>4. QED
    BY <2>2, <2>3
<1>15. OverlapInv'
  <2>1. SUFFICES ASSUME NEW p \in Requests, NEW q \in Requests,
                        p # q, p \in Open',
                        q \in Open' \/ (p < q /\ q \in messages'[SessionOf(q)']),
                        SessionOf(p)' = SessionOf(q)'
                 PROVE  p \in req'[q].overlaps
    BY DEF OverlapInv
  <2>2. p \in Open /\ SessionOf(p) = SessionOf(q)
    BY <1>7, <1>8, <2>1
  <2>3. q \in Open \/ (p < q /\ q \in messages[SessionOf(q)])
    <3>1. q = r => q \in Open
      BY <1>1
    <3>2. q # r /\ q \in messages'[SessionOf(q)] => q \in messages[SessionOf(q)]
      BY <1>4, <1>7
    <3>3. QED
      BY <1>7, <1>8, <2>1, <3>1, <3>2
  <2>4. p \in req[q].overlaps
    BY <2>1, <2>2, <2>3 DEF ChatInv, OverlapInv
  <2>5. QED
    BY <1>6, <2>4
<1>16. ASSUME NEW q \in Requests
       PROVE  OwnInv(q)'
  <2>1. OwnInv(q) /\ SessionOf(q)' = SessionOf(q) /\ SessionOf(q) \in Requests
    BY <1>7 DEF ChatInv
  <2>2. CASE q = r
    <3>1. \A p \in messages[s] : p < r /\ p \notin req[r].overlaps => p \in req[r].seen
      BY <1>1 DEF ChatInv, OwnInv, Writing
    <3>2. \A p \in messages'[s] : p < r /\ p \notin req'[r].overlaps => p \in req'[r].seen
      BY <1>4, <1>6, <3>1 DEF Requests
    <3>3. req'[r].pc \notin Writing /\ req'[r].pc \notin {"counted", "written"}
      BY <1>2, <1>3 DEF Writing
    <3>4. QED
      BY <2>1, <2>2, <3>2, <3>3 DEF OwnInv
  <2>3. CASE q # r
    <3>1. req'[q] = req[q]
      BY <1>2, <2>3
    <3>2. req[q].asked # NoSession => Owner(req[q].asked)' = Owner(req[q].asked)
      BY <1>1, <1>6 DEF Request, Owner
    <3>3. /\ messages[SessionOf(q)] \subseteq messages'[SessionOf(q)]
          /\ messages'[SessionOf(q)] \subseteq messages[SessionOf(q)] \union {r}
          /\ r \in messages'[SessionOf(q)] => SessionOf(q) = s
          /\ q \in messages'[SessionOf(q)] => q \in messages[SessionOf(q)]
      <4>1. r \notin messages[SessionOf(q)]
        BY <1>1, <2>1 DEF ChatInv, StoredInv
      <4>2. QED
        BY <1>4, <2>1, <2>3, <4>1
    <3>4. /\ req[q].pc \in Writing \/ (r < q /\ q \in messages[SessionOf(q)])
          /\ SessionOf(q) = s
          => r \in req[q].overlaps
      <4>1. req[q].pc \in Writing => q \in Open
        BY DEF Open, Writing, Over
      <4>2. QED
        BY <1>1, <2>3, <4>1 DEF ChatInv, OverlapInv
    <3>5. req[q].pc \in Writing /\ req[q].asked # NoSession =>
            req[q].asked \in sessions' /\ Owner(req[q].asked)' = req'[q].user
      BY <1>4, <2>1, <3>1, <3>2 DEF OwnInv
    <3>6. req[q].pc \in {"counted", "written"} =>
            /\ q \in req[q].counted
            /\ req[q].counted \subseteq messages'[SessionOf(q)] \union {q}
            /\ messages'[SessionOf(q)] \subseteq req[q].counted \union req[q].overlaps
      BY <2>1, <3>3, <3>4 DEF OwnInv, Writing
    <3>7. req[q].pc \in Writing \/ q \in messages'[SessionOf(q)] =>
            \A p \in messages'[SessionOf(q)] :
               p < q /\ p \notin req[q].overlaps => p \in req[q].seen
      BY <2>1, <3>3, <3>4 DEF OwnInv
    <3>8. QED
      BY <2>1, <3>1, <3>5, <3>6, <3>7 DEF OwnInv
  <2>4. QED
    BY <2>2, <2>3
<1>17. QED
  BY <1>9, <1>10, <1>11, <1>12, <1>13, <1>14, <1>15, <1>16 DEF ChatInv

\* Requests that are under way or refused, one action each.
LEMMA StepKeeps ==
    ASSUME ChatInv, NEW r \in Requests, Step(r)
    PROVE  ChatInv'
<1>1. /\ req \in [Requests -> Request] /\ req[r] \in Request
      /\ counter \in [Users -> Nat] /\ expires \subseteq Users /\ req[r].user \in Users
      /\ messages \in [Requests -> SUBSET Requests]
      /\ SessionOf(r) \in Requests
      /\ OwnInv(r)
  BY SessionType DEF ChatInv, TypeOK, Request
<1>2. \A t \in Requests : r \in messages[t] => req[r].pc = "ended"
  BY DEF ChatInv, StoredInv
\* A request that has not resolved its session relies on nothing.
<1>3. ASSUME NEW rec \in Request, req' = [req EXCEPT ![r] = rec],
             rec.user = req[r].user, rec.asked = req[r].asked,
             rec.pc \notin Writing, req[r].pc # "ended", UNCHANGED messages
      PROVE  OwnInv(r)'
  <2>1. req'[r] = rec
    BY <1>1, <1>3
  <2>2. SessionOf(r)' = SessionOf(r)
    BY <1>3, <2>1 DEF SessionOf
  <2>3. QED
    BY <1>1, <1>2, <1>3, <2>1, <2>2 DEF OwnInv, Writing
<1>4. CASE Increment(r)
  <2> DEFINE rec == [req[r] EXCEPT !.pc = "numbered", !.number = counter[req[r].user] + 1]
  <2>1. /\ rec \in Request /\ rec.pc = "numbered" /\ rec.user = req[r].user
        /\ rec.asked = req[r].asked /\ rec.overlaps = req[r].overlaps
    <3>1. counter[req[r].user] + 1 \in Nat /\ req[r] \in Request
      BY <1>1
    <3>2. QED
      BY <3>1 DEF Request, Progress
  <2>2. /\ req' = [req EXCEPT ![r] = rec] /\ req[r].pc = "begun"
        /\ UNCHANGED <<sessions, messages, count>>
    BY <1>1, <1>4 DEF Increment
  <2>3. counter' \in [Users -> Nat] /\ expires' \subseteq Users
    BY <1>1, <1>4 DEF Increment
  <2> HIDE DEF rec
  <2>4. OwnInv(r)'
    BY <1>3, <2>1, <2>2 DEF Writing
  <2>5. QED
    BY <2>1, <2>2, <2>3, <2>4, OwnStep DEF Over
<1>5. CASE SetExpiry(r) \/ CheckLimit(r)
  <2>1. /\ req[r].pc = "numbered"
        /\ UNCHANGED <<counter, sessions, messages, count>>
        /\ Refuse(r) \/ Admit(r)
    BY <1>5 DEF SetExpiry, CheckLimit
  <2>2. expires' \subseteq Users
    BY <1>1, <1>5 DEF SetExpiry, CheckLimit
  <2>3. CASE Refuse(r)
    BY <2>1, <2>2, <2>3, DropKeeps DEF Refuse, Open, Over
  <2>4. CASE Admit(r)
    <3> DEFINE rec == [req[r] EXCEPT !.pc = "admitted", !.number = 0]
    <3>1. /\ rec \in Request /\ rec.pc = "admitted" /\ rec.user = req[r].user
          /\ rec.asked = req[r].asked /\ rec.overlaps = req[r].overlaps
      BY <1>1 DEF Request, Progress
    <3>2. req' = [req EXCEPT ![r] = rec]
      BY <1>1, <2>4 DEF Admit
    <3> HIDE DEF rec
    <3>3. OwnInv(r)'
      BY <1>3, <2>1, <3>1, <3>2 DEF Writing
    <3>4. QED
      BY <1>1, <2>1, <2>2, <3>1, <3>2, <3>3, OwnStep DEF Over
  <2>5. QED
    BY <2>1, <2>3, <2>4
<1>6. CASE Resolve(r)
  <2>1. req[r].pc = "admitted" /\ UNCHANGED <<counter, expires, sessions, messages, count>>
    BY <1>6 DEF Resolve
  <2>2. CASE req[r].asked = NoSession
    <3> DEFINE rec == [req[r] EXCEPT !.pc = "loaded"]
    <3>1. /\ rec \in Request /\ rec.pc = "loaded" /\ rec.user = req[r].user
          /\ rec.asked = req[r].asked /\ rec.overlaps = req[r].overlaps
      BY <1>1 DEF Request, Progress
    <3>2. req' = [req EXCEPT ![r] = rec]
      BY <1>1, <1>6, <2>2 DEF Resolve, Goto
    <3> HIDE DEF rec
    \* Nobody else may have stored an exchange in a session that is not opened.
    <3>3. \A p \in messages[r] : ~(p < r)
      <4>1. SUFFICES ASSUME NEW p \in messages[r], p < r
                     PROVE  FALSE
        OBVIOUS
      <4>2. p \in Requests /\ SessionOf(p) = r
        BY <1>1 DEF ChatInv, StoredInv
      <4>3. req[p].asked = r /\ req[p].asked # NoSession
        BY <4>1, <4>2 DEF SessionOf, Requests, NoSession
      <4>4. r < p
        BY <4>2, <4>3 DEF ChatInv, BeginInv
      <4>5. QED
        BY <4>1, <4>2, <4>4 DEF Requests
    <3>4. req'[r] = rec /\ SessionOf(r)' = r
      BY <1>1, <2>2, <3>1, <3>2 DEF SessionOf
    <3>5. OwnInv(r)'
      BY <2>1, <2>2, <3>1, <3>3, <3>4 DEF OwnInv
    <3>6. QED
      BY <1>1, <2>1, <3>1, <3>2, <3>5, OwnStep DEF Over
  <2>3. CASE req[r].asked # NoSession /\ MayContinue(r)
    <3> DEFINE rec == [req[r] EXCEPT !.pc = "loaded", !.seen = messages[req[r].asked]]
    <3>1. SessionOf(r) = req[r].asked /\ req[r].asked \in Requests
      BY <1>1, <2>3 DEF SessionOf
    <3>2. /\ rec \in Request /\ rec.pc = "loaded" /\ rec.user = req[r].user
          /\ rec.asked = req[r].asked /\ rec.overlaps = req[r].overlaps
          /\ rec.seen = messages[req[r].asked]
      <4>1. messages[req[r].asked] \subseteq Requests
        BY <1>1, <3>1
      <4>2. QED
        BY <1>1, <4>1 DEF Request, Progress
    <3>3. req' = [req EXCEPT ![r] = rec]
      BY <1>1, <1>6, <2>3 DEF Resolve, History
    <3> HIDE DEF rec
    <3>4. req'[r] = rec /\ SessionOf(r)' = SessionOf(r)
      BY <1>1, <3>2, <3>3 DEF SessionOf
    <3>5. Owner(req[r].asked)' = Owner(req[r].asked)
      <4>1. \A q \in Requests : req'[q].user = req[q].user
        BY <1>1, <3>2, <3>3
      <4>2. req'[r].asked = req[r].asked
        BY <3>2, <3>4
      <4>3. QED
        BY <3>1, <4>1, <4>2 DEF Owner
    <3>6. OwnInv(r)'
      BY <2>1, <2>3, <3>1, <3>2, <3>4, <3>5 DEF OwnInv, MayContinue
    <3>7. QED
      BY <1>1, <2>1, <3>2, <3>3, <3>6, OwnStep DEF Over
  <2>4. CASE req[r].asked # NoSession /\ ~MayContinue(r)
    BY <1>1, <1>6, <2>1, <2>4, DropKeeps DEF Resolve, Refuse, Open, Over
  <2>5. QED
    BY <2>2, <2>3, <2>4
<1>7. CASE StoreAndCount(r)
  <2> DEFINE rec == [req[r] EXCEPT !.pc = "counted", !.counted = Counts(r)]
  <2>1. /\ rec \in Request /\ rec.pc = "counted" /\ rec.user = req[r].user
        /\ rec.asked = req[r].asked /\ rec.overlaps = req[r].overlaps
        /\ rec.seen = req[r].seen /\ rec.counted = messages[SessionOf(r)] \union {r}
    BY <1>1 DEF Request, Progress, Counts
  <2>2. /\ req' = [req EXCEPT ![r] = rec] /\ req[r].pc = "loaded"
        /\ UNCHANGED <<counter, expires, sessions, messages, count>>
    BY <1>1, <1>7 DEF StoreAndCount
  <2> HIDE DEF rec
  <2>3. req'[r] = rec /\ SessionOf(r)' = SessionOf(r)
    BY <1>1, <2>1, <2>2 DEF SessionOf
  <2>4. req[r].asked # NoSession => Owner(req[r].asked)' = Owner(req[r].asked)
    BY <1>1, <2>1, <2>2 DEF Owner, Request
  <2>5. OwnInv(r)'
    BY <1>1, <2>1, <2>2, <2>3, <2>4 DEF OwnInv, Writing
  <2>6. QED
    BY <1>1, <2>1, <2>2, <2>5, OwnStep DEF Over
<1>8. CASE WriteCount(r)
  <2> DEFINE rec == [req[r] EXCEPT !.pc = "written"]
  <2>1. /\ rec \in Request /\ rec.pc = "written" /\ rec.user = req[r].user
        /\ rec.asked = req[r].asked /\ rec.overlaps = req[r].overlaps
        /\ rec.seen = req[r].seen /\ rec.counted = req[r].counted
    BY <1>1 DEF Request, Progress
  <2>2. /\ req' = [req EXCEPT ![r] = rec] /\ req[r].pc = "counted"
        /\ UNCHANGED <<counter, expires, sessions, messages, count>>
    BY <1>1, <1>8 DEF WriteCount, Goto
  <2> HIDE DEF rec
  <2>3. req'[r] = rec /\ SessionOf(r)' = SessionOf(r)
    BY <1>1, <2>1, <2>2 DEF SessionOf
  <2>4. req[r].asked # NoSession => Owner(req[r].asked)' = Owner(req[r].asked)
    BY <1>1, <2>1, <2>2 DEF Owner, Request
  <2>5. OwnInv(r)'
    BY <1>1, <2>1, <2>2, <2>3, <2>4 DEF OwnInv, Writing
  <2>6. QED
    BY <1>1, <2>1, <2>2, <2>5, OwnStep DEF Over
<1>9. CASE Commit(r)
  BY <1>9, CommitKeeps
<1>10. CASE Answer(r)
  <2> DEFINE rec == [req[r] EXCEPT !.answer = "ok"]
  <2>1. /\ rec \in Request /\ rec.pc = req[r].pc /\ rec.user = req[r].user
        /\ rec.asked = req[r].asked /\ rec.overlaps = req[r].overlaps
        /\ rec.seen = req[r].seen /\ rec.counted = req[r].counted
    BY <1>1 DEF Request, Progress
  <2>2. /\ req' = [req EXCEPT ![r] = rec] /\ req[r].pc \in {"written", "ended"}
        /\ UNCHANGED <<counter, expires, sessions, messages, count>>
    BY <1>1, <1>10 DEF Answer
  <2> HIDE DEF rec
  <2>3. req'[r] = rec /\ SessionOf(r)' = SessionOf(r)
    BY <1>1, <2>1, <2>2 DEF SessionOf
  <2>4. req[r].asked # NoSession => Owner(req[r].asked)' = Owner(req[r].asked)
    BY <1>1, <2>1, <2>2 DEF Owner, Request
  <2>5. OwnInv(r)'
    BY <1>1, <2>1, <2>2, <2>3, <2>4 DEF OwnInv, Writing
  <2>6. QED
    BY <1>1, <2>1, <2>2, <2>5, OwnStep DEF Over
<1>11. QED
  BY <1>4, <1>5, <1>6, <1>7, <1>8, <1>9, <1>10 DEF Step

\* Every step keeps the invariant.
LEMMA NextChatInv == ChatInv /\ [Next]_chatVars => ChatInv'
<1> SUFFICES ASSUME ChatInv, [Next]_chatVars
             PROVE  ChatInv'
  OBVIOUS
<1>1. ASSUME NEW r \in Requests, Step(r)
      PROVE  ChatInv'
  BY <1>1, StepKeeps
<1>2. ASSUME NEW r \in Requests, LoseExpiry(r)
      PROVE  ChatInv'
  <2>1. r \in Open /\ expires' \subseteq Users
    BY <1>2 DEF LoseExpiry, Open, Over, ChatInv, TypeOK
  <2>2. QED
    BY <1>2, <2>1, DropKeeps DEF LoseExpiry, Over
<1>3. ASSUME NEW r \in Requests, Fail(r)
      PROVE  ChatInv'
  <2>1. expires' \subseteq Users
    BY <1>3 DEF Fail, ChatInv, TypeOK
  <2>2. QED
    BY <1>3, <2>1, DropKeeps DEF Fail, Over
<1>4. ASSUME NEW u \in Users, WindowExpires(u)
      PROVE  ChatInv'
  <2>1. TypeOK'
    BY <1>4 DEF WindowExpires, ChatInv, TypeOK
  <2>2. UNCHANGED <<sessions, messages, count, req>>
    BY <1>4 DEF WindowExpires
  <2>3. /\ UNCHANGED Open
        /\ \A q \in Requests : UNCHANGED SessionOf(q)
        /\ \A q \in Requests : UNCHANGED Owner(q)
    BY <2>2 DEF Open, SessionOf, Owner
  <2>4. \A q \in Requests : UNCHANGED OwnInv(q)
    BY <2>2 DEF OwnInv, Owner, SessionOf
  <2>5. UNCHANGED <<BeginInv, StoredInv, SessionsArePrivate, NoEmptySession>>
    BY <2>2 DEF BeginInv, StoredInv, SessionsArePrivate, NoEmptySession, Owner, SessionOf
  <2>6. UNCHANGED <<CountMissesOverlapping, OverlapInv>>
    BY <2>2 DEF CountMissesOverlapping, OverlapInv, Open, SessionOf
  <2>7. QED
    BY <2>1, <2>4, <2>5, <2>6 DEF ChatInv
<1>5. ASSUME NEW r \in Requests, Arrive(r)
      PROVE  ChatInv'
  BY <1>5, BeginKeeps DEF Arrive
<1>6. CASE UNCHANGED chatVars
  <2>1. UNCHANGED <<counter, expires, sessions, messages, count, req>>
    BY <1>6 DEF chatVars
  <2>2. \A q \in Requests : UNCHANGED OwnInv(q)
    BY <2>1 DEF OwnInv, Owner, SessionOf
  <2>3. UNCHANGED <<TypeOK, BeginInv, StoredInv, SessionsArePrivate, NoEmptySession>>
    BY <2>1 DEF TypeOK, BeginInv, StoredInv, SessionsArePrivate, NoEmptySession, Owner, SessionOf
  <2>4. UNCHANGED <<CountMissesOverlapping, OverlapInv>>
    BY <2>1 DEF CountMissesOverlapping, OverlapInv, Open, SessionOf
  <2>5. QED
    BY <2>2, <2>3, <2>4 DEF ChatInv
<1>7. QED
  BY <1>1, <1>2, <1>3, <1>4, <1>5, <1>6 DEF Next, ServerNext

\* Every state the program reaches satisfies the invariant.
LEMMA ChatInvariant == Spec => []ChatInv
<1>1. Init => ChatInv
  BY InitChatInv
<1>2. ChatInv /\ [Next]_chatVars => ChatInv'
  BY NextChatInv
<1>3. QED
  BY <1>1, <1>2, PTL DEF Spec

-----------------------------------------------------------------------------

\* Every variable keeps its type.
THEOREM ChatTypes == Spec => []TypeOK
<1>1. ChatInv => TypeOK
  BY DEF ChatInv
<1>2. QED
  BY <1>1, ChatInvariant, PTL

\* No exchange is ever stored in another user's session.
THEOREM PrivateSessions == Spec => []SessionsArePrivate
<1>1. ChatInv => SessionsArePrivate
  BY DEF ChatInv
<1>2. QED
  BY <1>1, ChatInvariant, PTL

\* A session is stored with its first exchange or not at all, whatever fails.
THEOREM SessionsHaveExchanges == Spec => []NoEmptySession
<1>1. ChatInv => NoEmptySession
  BY DEF ChatInv
<1>2. QED
  BY <1>1, ChatInvariant, PTL

\* Of two exchanges of a session that did not overlap, the later was composed
\* with the earlier in its history.
THEOREM HistoryIsOrdered == Spec => []HistoryInOrder
<1>1. ChatInv => HistoryInOrder
  <2> SUFFICES ASSUME ChatInv, NEW s \in Requests, NEW p \in messages[s], NEW r \in messages[s],
                      p < r, p \notin req[r].overlaps
               PROVE  p \in req[r].seen
    BY DEF HistoryInOrder
  <2>1. r \in Requests /\ SessionOf(r) = s
    BY DEF ChatInv, TypeOK, StoredInv
  <2>2. OwnInv(r)
    BY <2>1 DEF ChatInv
  <2>3. QED
    BY <2>1, <2>2 DEF OwnInv
<1>2. QED
  BY <1>1, ChatInvariant, PTL

\* What a session's message_count lacks was being stored while it was counted.
THEOREM CountsMissOnlyOverlapping == Spec => []CountMissesOverlapping
<1>1. ChatInv => CountMissesOverlapping
  BY DEF ChatInv
<1>2. QED
  BY <1>1, ChatInvariant, PTL

\* A request beside which no other ran leaves the count right.
THEOREM LoneRequestRepairs == Spec => LoneRequestRepairsCount
<1> DEFINE Repairs == \A s \in Requests : \A r \in messages'[s] \ messages[s] :
                         req[r].overlaps = {} => count'[s] = messages'[s]
<1>1. ASSUME ChatInv, [Next]_chatVars, UNCHANGED messages
      PROVE  Repairs
  BY <1>1
<1>2. ASSUME ChatInv, NEW r \in Requests, Commit(r)
      PROVE  Repairs
  <2> SUFFICES ASSUME NEW s \in Requests, NEW q \in messages'[s] \ messages[s],
                      req[q].overlaps = {}
               PROVE  count'[s] = messages'[s]
    OBVIOUS
  <2>1. /\ req[r].pc = "written" /\ SessionOf(r) \in Requests
        /\ messages \in [Requests -> SUBSET Requests] /\ count \in [Requests -> SUBSET Requests]
    BY <1>2, SessionType DEF Commit, ChatInv, TypeOK
  <2>2. s = SessionOf(r) /\ q = r /\ messages'[s] = messages[s] \union {r}
        /\ count'[s] = req[r].counted
    BY <1>2, <2>1 DEF Commit, StoredCount
  <2>3. /\ r \in req[r].counted
        /\ req[r].counted \subseteq messages[s] \union {r}
        /\ messages[s] \subseteq req[r].counted \union req[r].overlaps
    BY <1>2, <2>1, <2>2 DEF ChatInv, OwnInv
  <2>4. QED
    BY <2>2, <2>3
<1>3. ASSUME [Next]_chatVars
      PROVE  UNCHANGED messages \/ \E r \in Requests : Commit(r)
  BY <1>3 DEF Next, ServerNext, Step, Increment, SetExpiry, LoseExpiry, CheckLimit, Resolve,
              StoreAndCount, WriteCount, Answer, Fail, WindowExpires, Arrive, Begin, chatVars
<1>4. ChatInv /\ [Next]_chatVars => Repairs
  BY <1>1, <1>2, <1>3
<1>5. ChatInv /\ [Next]_chatVars => [Repairs]_chatVars
  BY <1>4
<1>6. QED
  BY <1>5, ChatInvariant, PTL DEF Spec, LoneRequestRepairsCount

-----------------------------------------------------------------------------
(* The screen *)

\* A session that a request names was opened by a request that named none.
AskedKnown == \A r \in Requests : req[r].asked # NoSession => req[r].asked \in Known

\* What a fetch has read is of the session it asked for.
FetchInv(f) ==
    \/ fetch[f] = Idle
    \/ /\ fetch[f].session \in Known
       /\ \A r \in fetch[f].seen : req[r].pc # "new" /\ SessionOf(r) = fetch[f].session

\* At most one answer is due: while there is one the input is disabled, and a
\* message under way is for the session on the screen.
OneAnswerDue ==
    /\ Waiting = {} \/ Fetching = {}
    /\ \A p, q \in Waiting : p = q
    /\ \A f, g \in Fetching : f = g
    /\ Quiet \/ screen.loading
    /\ \A r \in Waiting : req[r].asked = screen.session

ScreenInv ==
    /\ ChatInv
    /\ AskedKnown
    /\ ScreenTypeOK
    /\ screen.session \in Known \union {NoSession}
    /\ \A r \in screen.view : req[r].pc # "new"
    /\ \A f \in Fetches : FetchInv(f)
    /\ ~mixed => OneAnswerDue
    /\ ScreenShowsOneSession

\* The server changes neither whose a request is nor the session it names.
LEMMA ServerKeeps ==
    ASSUME TypeOK, ServerNext, NEW q \in Requests
    PROVE  /\ req'[q].user = req[q].user /\ req'[q].asked = req[q].asked
           /\ req'[q].pc = "new" <=> req[q].pc = "new"
<1> DEFINE Same == /\ req'[q].user = req[q].user /\ req'[q].asked = req[q].asked
                   /\ req'[q].pc = "new" <=> req[q].pc = "new"
<1>1. req \in [Requests -> Request] /\ req[q] \in Request
  BY DEF TypeOK
<1>2. ASSUME NEW r \in Requests, req[r].pc # "new", NEW pc, pc # "new", NEW answer, Drop(r, pc, answer)
      PROVE  Same
  BY <1>1, <1>2 DEF Drop, Request
<1>3. ASSUME NEW r \in Requests, Increment(r) \/ StoreAndCount(r) \/ WriteCount(r) \/ Answer(r)
      PROVE  Same
  BY <1>1, <1>3 DEF Increment, StoreAndCount, WriteCount, Goto, Answer, Request
<1>4. ASSUME NEW r \in Requests, Commit(r)
      PROVE  Same
  BY <1>1, <1>4 DEF Commit, Request
<1>5. ASSUME NEW r \in Requests, SetExpiry(r) \/ CheckLimit(r)
      PROVE  Same
  <2>1. req[r].pc = "numbered" /\ (Admit(r) \/ Drop(r, "ended", "failed"))
    BY <1>5 DEF SetExpiry, CheckLimit, Refuse
  <2>2. CASE Admit(r)
    BY <1>1, <2>1, <2>2 DEF Admit, Request
  <2>3. QED
    BY <1>2, <2>1, <2>2
<1>6. ASSUME NEW r \in Requests, Resolve(r)
      PROVE  Same
  <2>1. /\ req[r].pc = "admitted"
        /\ \/ req' = [req EXCEPT ![r].pc = "loaded"]
           \/ req' = [req EXCEPT ![r].pc = "loaded", ![r].seen = History(req[r].asked)]
           \/ Drop(r, "ended", "failed")
    BY <1>6 DEF Resolve, Goto, Refuse
  <2>2. CASE req' = [req EXCEPT ![r].pc = "loaded"]
    BY <1>1, <2>1, <2>2 DEF Request
  <2>3. CASE req' = [req EXCEPT ![r].pc = "loaded", ![r].seen = History(req[r].asked)]
    BY <1>1, <2>1, <2>3 DEF Request
  <2>4. QED
    BY <1>2, <2>1, <2>2, <2>3
<1>7. ASSUME NEW r \in Requests, LoseExpiry(r) \/ Fail(r)
      PROVE  Same
  <2>1. CASE LoseExpiry(r)
    BY <1>2, <2>1 DEF LoseExpiry
  <2>2. CASE Fail(r)
    BY <1>2, <2>2 DEF Fail, Open
  <2>3. QED
    BY <1>7, <2>1, <2>2
<1>8. ASSUME NEW u \in Users, WindowExpires(u)
      PROVE  Same
  BY <1>8 DEF WindowExpires
<1>9. QED
  BY <1>3, <1>4, <1>5, <1>6, <1>7, <1>8 DEF ServerNext, Step

\* A request that begins is its user's, for the session it names; the others
\* stay as they are.
LEMMA BeginSets ==
    ASSUME TypeOK, NEW r \in Requests, NEW u \in Users, NEW s \in Requests \union {NoSession},
           Begin(r, u, s)
    PROVE  /\ req[r].pc = "new" /\ req'[r].pc = "begun"
           /\ req'[r].user = u /\ req'[r].asked = s
           /\ \A q \in Requests \ {r} : /\ req'[q].user = req[q].user
                                        /\ req'[q].asked = req[q].asked
                                        /\ req'[q].pc = req[q].pc
<1> DEFINE beside == {q \in Open : SessionOf(q) = s}
<1>1. req \in [Requests -> Request] /\ req[r].pc = "new" /\ r \notin beside
  BY DEF Begin, TypeOK, Open
<1> DEFINE rec == [req[r] EXCEPT !.pc = "begun", !.user = u, !.asked = s, !.overlaps = beside]
<1>2. req'[r] = rec
  BY <1>1 DEF Begin
<1>3. req'[r].pc = "begun" /\ req'[r].user = u /\ req'[r].asked = s
  <2>1. req[r] \in Request
    BY <1>1
  <2>2. rec.pc = "begun" /\ rec.user = u /\ rec.asked = s
    BY <2>1 DEF Request
  <2>3. QED
    BY <1>2, <2>2
<1>4. ASSUME NEW q \in Requests \ {r}
      PROVE  req'[q].user = req[q].user /\ req'[q].asked = req[q].asked /\ req'[q].pc = req[q].pc
  <2>1. CASE q \in beside
    <3>1. req'[q] = [req[q] EXCEPT !.overlaps = @ \union {r}]
      BY <1>1, <1>4, <2>1 DEF Begin
    <3>2. QED
      BY <1>1, <3>1 DEF Request
  <2>2. CASE q \notin beside
    BY <1>1, <1>4, <2>2 DEF Begin
  <2>3. QED
    BY <2>1, <2>2
<1>5. QED
  BY <1>1, <1>3, <1>4

\* Committed sessions were opened by requests that named none.
LEMMA StoredKnown == ASSUME ChatInv PROVE sessions \subseteq Known
<1>1. SUFFICES ASSUME NEW s \in sessions
               PROVE  s \in Known
  OBVIOUS
<1>2. s \in Requests /\ SessionOf(s) = s /\ req[s].pc = "ended"
  BY DEF ChatInv, TypeOK, NoEmptySession, StoredInv
<1>3. req[s].asked # NoSession => req[s].asked < s
  BY <1>2 DEF ChatInv, BeginInv
<1>4. req[s].asked = NoSession
  BY <1>2, <1>3 DEF SessionOf, Requests
<1>5. QED
  BY <1>2, <1>4 DEF Known

\* The session of a request under way was opened by a request that named none.
LEMMA SessionKnown ==
    ASSUME ChatInv, AskedKnown, NEW r \in Requests, req[r].pc # "new"
    PROVE  SessionOf(r) \in Known
BY DEF AskedKnown, SessionOf, Known

\* Requests that have begun keep their session, and sessions stay known.
Stays == \A q \in Requests : req[q].pc # "new" =>
            req'[q].pc # "new" /\ req'[q].user = req[q].user /\ req'[q].asked = req[q].asked

\* What the screen and the fetches hold of sessions and requests stays true.
LEMMA KnownStays ==
    ASSUME Stays
    PROVE  /\ Known \subseteq Known'
           /\ \A q \in Requests : req[q].pc # "new" => SessionOf(q)' = SessionOf(q)
BY DEF Stays, Known, SessionOf

\* A step of the server, or none, leaves requests and sessions as the screen
\* knows them.
LEMMA ServerStays ==
    ASSUME ScreenInv, ServerNext \/ UNCHANGED chatVars
    PROVE  /\ ChatInv' /\ AskedKnown'
           /\ Known' = Known /\ Stays
           /\ \A q \in Requests : req'[q].user = req[q].user /\ req'[q].asked = req[q].asked
           /\ \A q \in Requests : req'[q].pc = "new" <=> req[q].pc = "new"
<1>1. ChatInv'
  BY NextChatInv DEF ScreenInv, Next
<1>2. ASSUME NEW q \in Requests
      PROVE  /\ req'[q].user = req[q].user /\ req'[q].asked = req[q].asked
             /\ req'[q].pc = "new" <=> req[q].pc = "new"
  <2>1. CASE ServerNext
    BY <2>1, ServerKeeps DEF ScreenInv, ChatInv
  <2>2. CASE UNCHANGED chatVars
    BY <2>2 DEF chatVars
  <2>3. QED
    BY <2>1, <2>2
<1>3. Known' = Known
  BY <1>2 DEF Known
<1>4. AskedKnown'
  BY <1>2, <1>3 DEF ScreenInv, AskedKnown
<1>5. QED
  BY <1>1, <1>2, <1>3, <1>4 DEF Stays

\* What does not concern an answer that is due: every step keeps it that leaves
\* screen and fetches holding requests that have begun and sessions that are known.
LEMMA ScreenRest ==
    ASSUME ScreenInv, ChatInv', AskedKnown', Stays,
           screen' \in Screen, received' \subseteq Requests, mixed' \in BOOLEAN,
           fetch' \in [Fetches -> Fetch],
           \A f \in Fetches : fetch'[f] = fetch[f] \/ FetchInv(f)',
           screen'.session \in Known' \union {NoSession},
           screen'.view = screen.view \/ \A r \in screen'.view : req'[r].pc # "new",
           ~mixed' => OneAnswerDue', ScreenShowsOneSession'
    PROVE  ScreenInv'
<1>1. Known \subseteq Known' /\ \A q \in Requests : req[q].pc # "new" => SessionOf(q)' = SessionOf(q)
  BY KnownStays
<1>2. ScreenTypeOK'
  BY DEF ScreenTypeOK, ChatInv
<1>3. \A r \in screen'.view : req'[r].pc # "new"
  BY DEF ScreenInv, ScreenTypeOK, Screen, Stays
<1>4. ASSUME NEW f \in Fetches
      PROVE  FetchInv(f)'
  <2>1. fetch[f].seen \subseteq Requests
    BY DEF ScreenInv, ScreenTypeOK, Fetch
  <2>2. CASE fetch'[f] = fetch[f]
    BY <1>1, <2>1, <2>2 DEF ScreenInv, FetchInv, Stays
  <2>3. QED
    BY <2>2
<1>5. QED
  BY <1>2, <1>3, <1>4 DEF ScreenInv

\* The answers on the screen stay of its session while neither changes.
LEMMA ShownStays ==
    ASSUME ScreenInv, Stays, screen'.view = screen.view, screen'.session = screen.session,
           ~mixed' => ~mixed
    PROVE  ScreenShowsOneSession'
<1>1. SUFFICES ASSUME ~mixed', NEW r \in screen'.view
               PROVE  SessionOf(r)' = screen'.session
  BY DEF ScreenShowsOneSession
<1>2. r \in Requests /\ req[r].pc # "new" /\ SessionOf(r) = screen.session
  BY <1>1 DEF ScreenInv, ScreenTypeOK, Screen, ScreenShowsOneSession
<1>3. QED
  BY <1>2, KnownStays

\* The screen opens empty, with nothing under way.
LEMMA InitScreenInv == ScreenInit => ScreenInv
<1> SUFFICES ASSUME ScreenInit
             PROVE  ScreenInv
  OBVIOUS
<1>1. ChatInv /\ TypeOK
  BY InitChatInv DEF ScreenInit, ChatInv
<1>2. \A r \in Requests : req[r].pc = "new" /\ req[r].asked = NoSession
  BY DEF ScreenInit, Init
<1>3. ScreenTypeOK
  BY <1>1 DEF ScreenInit, ScreenTypeOK, initialState, Screen, Idle, Fetch
<1>4. Waiting = {} /\ Fetching = {}
  BY <1>2 DEF ScreenInit, Waiting, Fetching, Idle
<1>5. QED
  BY <1>1, <1>2, <1>3, <1>4
  DEF ScreenInv, ScreenInit, initialState, Idle, AskedKnown, FetchInv, OneAnswerDue, Quiet,
      ScreenShowsOneSession

\* The server's steps, and those that change nothing.
LEMMA ServerKeepsScreen ==
    ASSUME ScreenInv, ServerNext \/ UNCHANGED chatVars, UNCHANGED screenVars
    PROVE  ScreenInv'
<1>1. /\ ChatInv' /\ AskedKnown'
      /\ Known' = Known /\ Stays
      /\ \A q \in Requests : req'[q].user = req[q].user /\ req'[q].asked = req[q].asked
      /\ \A q \in Requests : req'[q].pc = "new" <=> req[q].pc = "new"
  BY ServerStays
<1>2. UNCHANGED <<screen, received, fetch, mixed>>
  BY DEF screenVars
<1>3. Waiting' = Waiting /\ Fetching' = Fetching
  BY <1>1, <1>2 DEF Waiting, Fetching
<1>4. ~mixed' => OneAnswerDue'
  BY <1>1, <1>2, <1>3 DEF ScreenInv, OneAnswerDue, Quiet, Waiting
<1>5. QED
  BY <1>1, <1>2, <1>4, ScreenRest, ShownStays DEF ScreenInv, ScreenTypeOK

\* A message is sent for the session on the screen; it is the only one under way
\* unless the user has not waited.
LEMMA SubmitKeeps ==
    ASSUME ScreenInv, Submit, mixed' \in BOOLEAN, ~mixed' => ~mixed /\ Quiet
    PROVE  ScreenInv'
<1>1. PICK r \in Requests : Begin(r, Me, screen.session)
  BY DEF Submit
<1>2. /\ ChatInv /\ TypeOK /\ Me \in Users /\ Known \subseteq Requests
      /\ screen.session \in Known \union {NoSession}
  BY ScreenAssumption DEF ScreenInv, ChatInv, Known
<1>3. /\ req[r].pc = "new" /\ req'[r].pc = "begun"
      /\ req'[r].user = Me /\ req'[r].asked = screen.session
      /\ \A q \in Requests \ {r} : /\ req'[q].user = req[q].user
                                   /\ req'[q].asked = req[q].asked
                                   /\ req'[q].pc = req[q].pc
  BY <1>1, <1>2, BeginSets
<1>4. ChatInv' /\ Stays
  BY <1>1, <1>2, <1>3, BeginKeeps DEF Stays
<1>5. Known \subseteq Known'
  BY <1>4, KnownStays
<1>6. AskedKnown'
  BY <1>2, <1>3, <1>5 DEF ScreenInv, AskedKnown
<1>7. /\ screen' = [screen EXCEPT !.asked = TRUE, !.loading = TRUE, !.error = FALSE]
      /\ received' = received /\ fetch' = fetch
  BY DEF Submit
<1>8. /\ screen' \in Screen /\ screen'.session = screen.session
      /\ screen'.view = screen.view /\ screen'.loading
  BY <1>7 DEF ScreenInv, ScreenTypeOK, Screen
<1>9. ASSUME ~mixed'
      PROVE  OneAnswerDue'
  <2>1. Waiting = {} /\ Fetching = {}
    BY <1>9 DEF Quiet
  <2>2. Waiting' \subseteq {r} /\ Fetching' = {}
    BY <1>3, <1>7, <2>1 DEF Waiting, Fetching
  <2>3. QED
    BY <1>3, <1>8, <2>2 DEF OneAnswerDue
<1>10. ScreenShowsOneSession'
  BY <1>4, <1>8, ShownStays
<1>11. QED
  BY <1>2, <1>4, <1>5, <1>6, <1>7, <1>8, <1>9, <1>10, ScreenRest DEF ScreenInv, ScreenTypeOK

\* What the browser does without the server's taking part.
LEMMA BrowserStays ==
    ASSUME ScreenInv, UNCHANGED chatVars
    PROVE  /\ ChatInv' /\ AskedKnown' /\ Stays
           /\ req' = req /\ messages' = messages
           /\ Known' = Known
           /\ \A q \in Requests : SessionOf(q)' = SessionOf(q)
<1>1. req' = req /\ messages' = messages
  BY DEF chatVars
<1>2. QED
  BY <1>1, ServerStays DEF SessionOf

\* An answer is the one the screen was waiting for, unless the user has not
\* waited: it is of the session shown, or opens one on an empty screen.
LEMMA ReceiveKeeps ==
    ASSUME ScreenInv, NEW r \in Requests, Receive(r) \/ LoseAnswer(r)
    PROVE  ScreenInv'
<1>1. /\ r \in Waiting /\ received' = received \union {r}
      /\ UNCHANGED chatVars /\ fetch' = fetch /\ mixed' = mixed
      /\ Answered(r) \/ Rejected
  BY DEF Receive, LoseAnswer
<1>2. /\ ChatInv' /\ AskedKnown' /\ Stays
      /\ req' = req /\ Known' = Known
      /\ \A q \in Requests : SessionOf(q)' = SessionOf(q)
  BY <1>1, BrowserStays
<1>3. /\ ChatInv /\ TypeOK /\ Known \subseteq Requests /\ screen \in Screen
      /\ req[r].pc # "new" /\ req[r].user = Me
  BY <1>1 DEF ScreenInv, ScreenTypeOK, ChatInv, Known, Waiting
<1>4. SessionOf(r) \in Known
  BY <1>3, SessionKnown DEF ScreenInv
<1>5. /\ screen' \in Screen /\ ~screen'.loading
      /\ \/ screen'.session = SessionOf(r) /\ screen'.view = screen.view \union {r}
         \/ screen'.session = screen.session /\ screen'.view = screen.view
  <2>1. CASE Answered(r)
    BY <1>3, <1>4, <2>1 DEF Answered, Screen
  <2>2. CASE Rejected
    BY <1>3, <2>2 DEF Rejected, Screen
  <2>3. QED
    BY <1>1, <2>1, <2>2
<1>6. Waiting' = Waiting \ {r} /\ Fetching' = Fetching
  BY <1>1, <1>2 DEF Waiting, Fetching
<1>7. ASSUME ~mixed'
      PROVE  OneAnswerDue'
  <2>1. OneAnswerDue
    BY <1>1, <1>7 DEF ScreenInv
  <2>2. Waiting' = {} /\ Fetching' = {}
    BY <1>1, <1>6, <2>1 DEF OneAnswerDue
  <2>3. QED
    BY <2>2 DEF OneAnswerDue, Quiet
<1>8. ScreenShowsOneSession'
  <2>1. CASE screen'.session = screen.session /\ screen'.view = screen.view
    BY <1>1, <1>2, <2>1, ShownStays
  <2>2. CASE screen'.session = SessionOf(r) /\ screen'.view = screen.view \union {r}
    <3>1. SUFFICES ASSUME ~mixed, NEW q \in screen.view
                   PROVE  SessionOf(q) = SessionOf(r)
      BY <1>1, <1>2, <1>3, <2>2 DEF ScreenShowsOneSession, Screen
    <3>2. q \in Requests /\ req[q].pc # "new" /\ SessionOf(q) = screen.session
      BY <1>3, <3>1 DEF ScreenInv, Screen, ScreenShowsOneSession
    <3>3. req[r].asked = screen.session
      BY <1>1, <3>1 DEF ScreenInv, OneAnswerDue
    <3>4. screen.session \in Requests
      BY <1>3, <3>2, SessionType
    <3>5. QED
      BY <1>3, <3>2, <3>3, <3>4, SessionType
  <2>3. QED
    BY <1>5, <2>1, <2>2
<1>9. screen'.session \in Known' \union {NoSession}
  BY <1>2, <1>4, <1>5 DEF ScreenInv
<1>10. \A q \in screen'.view : req'[q].pc # "new"
  BY <1>2, <1>3, <1>5 DEF ScreenInv
<1>11. QED
  BY <1>1, <1>2, <1>5, <1>7, <1>8, <1>9, <1>10, ScreenRest DEF ScreenInv, ScreenTypeOK

\* A new conversation shows nothing, whatever is under way.
LEMMA NewSessionKeeps ==
    ASSUME ScreenInv, NewSession
    PROVE  ScreenInv'
<1>1. /\ screen' = initialState /\ mixed' = ~Quiet
      /\ UNCHANGED chatVars /\ received' = received /\ fetch' = fetch
  BY DEF NewSession
<1>2. ChatInv' /\ AskedKnown' /\ Stays /\ req' = req
  BY <1>1, BrowserStays
<1>3. Waiting' = Waiting /\ Fetching' = Fetching
  BY <1>1, <1>2 DEF Waiting, Fetching
<1>4. ~mixed' => OneAnswerDue'
  BY <1>1, <1>3 DEF OneAnswerDue, Quiet
<1>5. /\ screen' \in Screen /\ screen'.session = NoSession /\ screen'.view = {}
      /\ mixed' \in BOOLEAN
  BY <1>1 DEF initialState, Screen
<1>6. QED
  BY <1>1, <1>2, <1>4, <1>5, ScreenRest DEF ScreenInv, ScreenTypeOK, ScreenShowsOneSession

\* A session is selected, read, and shown, or is not shown.
LEMMA FetchKeeps ==
    ASSUME ScreenInv, NEW f \in Fetches,
           Select(f) \/ ReadSession(f) \/ LoadSession(f) \/ SelectFails(f)
    PROVE  ScreenInv'
<1>1. /\ UNCHANGED chatVars /\ received' = received
      /\ mixed \in BOOLEAN /\ mixed' \in BOOLEAN
  BY DEF Select, ReadSession, LoadSession, SelectFails, ScreenInv, ScreenTypeOK
<1>2. /\ ChatInv' /\ AskedKnown' /\ Stays
      /\ req' = req /\ messages' = messages /\ Known' = Known
      /\ \A q \in Requests : SessionOf(q)' = SessionOf(q)
  BY <1>1, BrowserStays
<1>3. /\ ChatInv /\ screen \in Screen /\ received \subseteq Requests
      /\ fetch \in [Fetches -> Fetch] /\ fetch[f] \in Fetch
      /\ Known \subseteq Requests
      /\ FetchInv(f)
  BY DEF ScreenInv, ScreenTypeOK, Known
<1>4. Waiting' = Waiting
  BY <1>1, <1>2 DEF Waiting
<1>5. CASE Select(f)
  <2>1. PICK s \in sessions :
          fetch' = [fetch EXCEPT ![f] = [pc |-> "sent", session |-> s, seen |-> {}]]
    BY <1>5 DEF Select
  <2>2. s \in Known /\ s \in Requests
    BY <1>3, StoredKnown
  <2>3. /\ fetch'[f] = [pc |-> "sent", session |-> s, seen |-> {}]
        /\ fetch' \in [Fetches -> Fetch]
        /\ \A g \in Fetches \ {f} : fetch'[g] = fetch[g]
    BY <1>3, <2>1, <2>2 DEF Fetch
  <2>4. FetchInv(f)'
    BY <1>2, <2>2, <2>3 DEF FetchInv
  <2>5. /\ screen' = [screen EXCEPT !.loading = TRUE]
        /\ mixed' = (mixed \/ ~Quiet)
    BY <1>5 DEF Select
  <2>6. /\ screen' \in Screen /\ screen'.session = screen.session
        /\ screen'.view = screen.view /\ screen'.loading
    BY <1>3, <2>5 DEF Screen
  <2>7. ASSUME ~mixed'
        PROVE  OneAnswerDue'
    <3>1. Waiting = {} /\ Fetching = {}
      BY <2>5, <2>7 DEF Quiet
    <3>2. Waiting' = {} /\ Fetching' \subseteq {f}
      BY <1>4, <2>3, <3>1 DEF Fetching
    <3>3. QED
      BY <2>6, <3>2 DEF OneAnswerDue
  <2>8. ScreenShowsOneSession'
    BY <1>1, <1>2, <2>5, <2>6, ShownStays
  <2>9. QED
    BY <1>1, <1>2, <1>3, <2>3, <2>4, <2>6, <2>7, <2>8, ScreenRest DEF ScreenInv
<1>6. CASE ReadSession(f)
  <2>1. /\ fetch[f].pc = "sent"
        /\ fetch' = [fetch EXCEPT ![f].pc = "read", ![f].seen = messages[fetch[f].session]]
        /\ screen' = screen /\ mixed' = mixed
    BY <1>6 DEF ReadSession
  <2> DEFINE s == fetch[f].session
  <2>2. s \in Known
    BY <1>3, <2>1 DEF FetchInv, Idle
  <2>3. /\ messages[s] \subseteq Requests
        /\ \A r \in messages[s] : req[r].pc # "new" /\ SessionOf(r) = s
    BY <1>3, <2>2 DEF ChatInv, TypeOK, StoredInv
  <2>4. /\ fetch'[f].pc = "read" /\ fetch'[f].session = s /\ fetch'[f].seen = messages[s]
        /\ fetch' \in [Fetches -> Fetch]
        /\ \A g \in Fetches \ {f} : fetch'[g] = fetch[g]
    BY <1>3, <2>1, <2>2, <2>3 DEF Fetch
  <2>5. FetchInv(f)'
    BY <1>2, <1>3, <2>2, <2>3, <2>4 DEF FetchInv
  <2>6. Fetching' = Fetching
    BY <1>3, <2>1, <2>4 DEF Fetching
  <2>7. ~mixed' => OneAnswerDue'
    BY <1>2, <1>4, <2>1, <2>6 DEF ScreenInv, OneAnswerDue, Quiet
  <2>8. ScreenShowsOneSession'
    BY <1>2, <2>1, ShownStays
  <2>9. QED
    BY <1>1, <1>2, <1>3, <2>1, <2>4, <2>5, <2>7, <2>8, ScreenRest DEF ScreenInv
<1>7. ASSUME LoadSession(f) \/ SelectFails(f)
      PROVE  /\ fetch' \in [Fetches -> Fetch]
             /\ \A g \in Fetches : fetch'[g] = fetch[g] \/ FetchInv(g)'
             /\ Fetching' = Fetching \ {f} /\ f \in Fetching
  <2>1. fetch' = [fetch EXCEPT ![f] = Idle] /\ fetch[f].pc # "idle"
    BY <1>7 DEF LoadSession, SelectFails
  <2>2. fetch'[f] = Idle /\ \A g \in Fetches \ {f} : fetch'[g] = fetch[g]
    BY <1>3, <2>1
  <2>3. fetch' \in [Fetches -> Fetch]
    BY <1>3, <2>1 DEF Idle, Fetch
  <2>4. QED
    BY <2>1, <2>2, <2>3 DEF FetchInv, Fetching, Idle
<1>8. CASE LoadSession(f)
  <2>1. /\ fetch[f].pc = "read"
        /\ screen' = [screen EXCEPT !.session = fetch[f].session, !.view = fetch[f].seen,
                                    !.asked = TRUE, !.loading = FALSE, !.error = FALSE]
        /\ mixed' = (mixed /\ (Waiting # {} \/ Fetching # {f}))
    BY <1>8 DEF LoadSession
  <2>2. /\ fetch[f].session \in Known /\ fetch[f].seen \subseteq Requests
        /\ \A r \in fetch[f].seen : req[r].pc # "new" /\ SessionOf(r) = fetch[f].session
    BY <1>3, <2>1 DEF FetchInv, Idle, Fetch
  <2>3. /\ screen' \in Screen /\ screen'.session = fetch[f].session
        /\ screen'.view = fetch[f].seen /\ ~screen'.loading
    BY <1>3, <2>1, <2>2 DEF Screen
  <2>4. ASSUME ~mixed'
        PROVE  OneAnswerDue'
    <3>1. Waiting = {} /\ Fetching = {f}
      BY <1>7, <1>8, <2>1, <2>4 DEF ScreenInv, OneAnswerDue
    <3>2. Waiting' = {} /\ Fetching' = {}
      BY <1>4, <1>7, <1>8, <3>1
    <3>3. QED
      BY <3>2 DEF OneAnswerDue, Quiet
  <2>5. ScreenShowsOneSession'
    BY <1>2, <2>2, <2>3 DEF ScreenShowsOneSession
  <2>6. QED
    BY <1>1, <1>2, <1>3, <1>7, <1>8, <2>2, <2>3, <2>4, <2>5, ScreenRest
<1>9. CASE SelectFails(f)
  <2>1. /\ screen' = [screen EXCEPT !.error = TRUE, !.loading = FALSE] /\ mixed' = mixed
    BY <1>9 DEF SelectFails
  <2>2. /\ screen' \in Screen /\ screen'.session = screen.session
        /\ screen'.view = screen.view
    BY <1>3, <2>1 DEF Screen
  <2>3. ASSUME ~mixed'
        PROVE  OneAnswerDue'
    <3>1. Waiting = {} /\ Fetching = {f}
      BY <1>7, <1>9, <2>1, <2>3 DEF ScreenInv, OneAnswerDue
    <3>2. Waiting' = {} /\ Fetching' = {}
      BY <1>4, <1>7, <1>9, <3>1
    <3>3. QED
      BY <3>2 DEF OneAnswerDue, Quiet
  <2>4. ScreenShowsOneSession'
    BY <1>2, <2>1, <2>2, ShownStays
  <2>5. QED
    BY <1>1, <1>2, <1>3, <1>7, <1>9, <2>1, <2>2, <2>3, <2>4, ScreenRest DEF ScreenInv
<1>10. QED
  BY <1>5, <1>6, <1>8, <1>9

\* Every step of the screen keeps the invariant.
LEMMA NextScreenInv == ScreenInv /\ [ScreenNext]_vars => ScreenInv'
<1> SUFFICES ASSUME ScreenInv, [ScreenNext]_vars
             PROVE  ScreenInv'
  OBVIOUS
<1>1. mixed \in BOOLEAN
  BY DEF ScreenInv, ScreenTypeOK
<1>2. CASE ServerNext /\ UNCHANGED screenVars
  BY <1>2, ServerKeepsScreen
<1>3. CASE Send
  <2>1. Submit /\ mixed' = mixed /\ ~screen.loading
    BY <1>3 DEF Send
  <2>2. ~mixed' => Quiet
    BY <2>1 DEF ScreenInv, OneAnswerDue
  <2>3. QED
    BY <1>1, <2>1, <2>2, SubmitKeeps
<1>4. CASE Retry
  <2>1. Submit /\ mixed' = (mixed \/ ~Quiet)
    BY <1>4 DEF Retry
  <2>2. mixed' \in BOOLEAN /\ (~mixed' => ~mixed /\ Quiet)
    BY <1>1, <2>1
  <2>3. QED
    BY <2>1, <2>2, SubmitKeeps
<1>5. CASE NewSession
  BY <1>5, NewSessionKeeps
<1>6. CASE \E r \in Requests : Receive(r) \/ LoseAnswer(r)
  BY <1>6, ReceiveKeeps
<1>7. CASE \E f \in Fetches : Select(f) \/ ReadSession(f) \/ LoadSession(f) \/ SelectFails(f)
  BY <1>7, FetchKeeps
<1>8. CASE UNCHANGED vars
  <2>1. UNCHANGED chatVars /\ UNCHANGED screenVars
    BY <1>8 DEF vars
  <2>2. QED
    BY <2>1, ServerKeepsScreen
<1>9. QED
  BY <1>2, <1>3, <1>4, <1>5, <1>6, <1>7, <1>8 DEF ScreenNext

\* Every state the screen reaches satisfies the invariant.
LEMMA ScreenInvariant == ScreenSpec => []ScreenInv
<1>1. ScreenInit => ScreenInv
  BY InitScreenInv
<1>2. ScreenInv /\ [ScreenNext]_vars => ScreenInv'
  BY NextScreenInv
<1>3. QED
  BY <1>1, <1>2, PTL DEF ScreenSpec

\* Every variable of the screen and of the server under it keeps its type.
THEOREM ScreenTypes == ScreenSpec => []ScreenTypeOK
<1>1. ScreenInv => ScreenTypeOK
  BY DEF ScreenInv
<1>2. QED
  BY <1>1, ScreenInvariant, PTL

\* As long as the user waits for what is under way, every answer on the screen
\* is of the session on the screen (chatReducer's REPLACE, handleSend's sessionId).
THEOREM OneSessionShown == ScreenSpec => []ScreenShowsOneSession
<1>1. ScreenInv => ScreenShowsOneSession
  BY DEF ScreenInv
<1>2. QED
  BY <1>1, ScreenInvariant, PTL

\* The screen is a client as Chat has them: it continues sessions it knows of and
\* nothing else, so that whatever holds of the endpoint holds of the endpoint
\* under this screen.
THEOREM ScreenIsAClient == ScreenSpec => Spec
<1>1. ScreenInit => Init
  BY DEF ScreenInit
<1>2. ASSUME ScreenInv, [ScreenNext]_vars
      PROVE  [Next]_chatVars
  <2>1. CASE ServerNext
    BY <2>1 DEF Next
  <2>2. CASE Submit
    <3>1. PICK r \in Requests : Begin(r, Me, screen.session)
      BY <2>2 DEF Submit
    <3>2. Arrive(r)
      BY <3>1, <1>2, ScreenAssumption DEF Arrive, ScreenInv
    <3>3. QED
      BY <3>2 DEF Next
  <2>3. CASE UNCHANGED chatVars
    BY <2>3
  <2>4. QED
    BY <1>2, <2>1, <2>2, <2>3
    DEF ScreenNext, Send, Retry, NewSession, Receive, LoseAnswer, Select, ReadSession, LoadSession, SelectFails, vars
<1>3. QED
  BY <1>1, <1>2, ScreenInvariant, PTL DEF ScreenSpec, ScreenFairness, Spec
===============================================================================
