--------------------------- MODULE Catalogue_proofs ---------------------------
(***************************************************************************)
(* Proofs about Catalogue, for any names, any number of requests and any   *)
(* number of rows.                                                         *)
(***************************************************************************)
EXTENDS Catalogue, TLAPS

-----------------------------------------------------------------------------
(* The inductive invariant *)

\* The request enters a name in the index.
Naming(rec) == rec.op = "create" \/ (rec.op = "update" /\ rec.name # rec.copy.name)

Underway == {"read", "checked", "written"}

\* A row is created where there is none, updated and deleted where there is one.
PlaceInv(rec) ==
    /\ rec.op = "create" /\ rec.pc \in Underway =>
         rec.copy = [state |-> "live", name |-> rec.name] /\ row[rec.target].state = "none"
    /\ rec.op # "create" /\ rec.pc \in Underway => row[rec.target].state # "none"

\* A name was looked for before it is entered.
LookedInv(rec) ==
    rec.pc = "checked" /\ Naming(rec) /\ ~rec.late =>
       \A r \in Rows \ {rec.target} : row[r].state = "live" => row[r].name # rec.name

\* A name that is entered and not committed is the name of no other row.
EnteredInv(rec) ==
    rec.pc = "written" /\ Naming(rec) =>
       \A r \in Rows \ {rec.target} : row[r].state # "none" => row[r].name # rec.name

RecordInv(rec) == PlaceInv(rec) /\ LookedInv(rec) /\ EnteredInv(rec)

\* Two requests create different rows and enter different names.
PairInv(rec, other) ==
    /\ rec.op = "create" /\ rec.pc \in Underway /\ other.op = "create" /\ other.pc \in Underway =>
         rec.target # other.target
    /\ rec.pc = "written" /\ Naming(rec) /\ other.pc = "written" /\ Naming(other) =>
         rec.name # other.name

CatalogueInv ==
    /\ TypeOK
    /\ NamesAreUnique
    /\ \A q \in Requests : RecordInv(req[q])
    /\ \A p, q \in Requests : p # q => PairInv(req[p], req[q])

\* Rows are filled from the first, with different names; no request has begun.
LEMMA InitCatalogueInv == Init => CatalogueInv
<1> SUFFICES ASSUME Init
             PROVE  CatalogueInv
  OBVIOUS
<1> PICK n \in Names : req = [q \in Requests |->
          [pc |-> "idle", op |-> "update", target |-> 1, copy |-> [state |-> "none", name |-> n],
           name |-> n, late |-> FALSE]]
  BY DEF Init
<1>1. TypeOK
  BY CatalogueAssumption DEF Init, TypeOK, Request, Row, Rows
<1>2. \A r, s \in Rows : r # s => r < s \/ s < r
  BY CatalogueAssumption DEF Rows
<1>3. NamesAreUnique
  BY <1>2 DEF Init, NamesAreUnique
<1>4. \A q \in Requests : req[q].pc = "idle"
  OBVIOUS
<1>5. QED
  BY <1>1, <1>3, <1>4
  DEF CatalogueInv, RecordInv, PlaceInv, LookedInv, EnteredInv, PairInv, Underway

\* A step of request q that commits nothing: only its own record has to be looked at.
LEMMA RequestStep ==
    ASSUME CatalogueInv, UNCHANGED row, NEW q \in Requests, NEW rec \in Request,
           req' = [req EXCEPT ![q] = rec],
           RecordInv(rec),
           \A p \in Requests \ {q} : PairInv(req[p], rec)
    PROVE  CatalogueInv'
<1>1. req'[q] = rec /\ \A p \in Requests \ {q} : req'[p] = req[p]
  BY DEF CatalogueInv, TypeOK
<1>2. TypeOK' /\ NamesAreUnique'
  BY DEF CatalogueInv, TypeOK, NamesAreUnique
<1>3. ASSUME NEW p \in Requests
      PROVE  RecordInv(req[p])'
  <2>1. RecordInv(req'[p])
    BY <1>1 DEF CatalogueInv
  <2>2. QED
    BY <2>1 DEF RecordInv, PlaceInv, LookedInv, EnteredInv, Naming
<1>4. ASSUME NEW p \in Requests, NEW o \in Requests, p # o
      PROVE  PairInv(req[p], req[o])'
  <2>1. PairInv(req[p], req[o]) /\ PairInv(req[o], req[p])
    BY <1>4 DEF CatalogueInv
  <2>2. PairInv(req'[p], req'[o])
    BY <1>1, <1>4, <2>1 DEF PairInv
  <2>3. QED
    BY <2>2 DEF PairInv, Naming
<1>5. QED
  BY <1>2, <1>3, <1>4 DEF CatalogueInv

-----------------------------------------------------------------------------
(* The steps *)

LEMMA CreateKeeps ==
    ASSUME CatalogueInv, NEW q \in Requests, NEW n \in Names, Create(q, n)
    PROVE  CatalogueInv'
<1> PICK r \in Rows : /\ Fresh(r)
                      /\ req' = [req EXCEPT ![q] =
                           [pc |-> IF Refused(n) THEN "conflict" ELSE "checked", op |-> "create",
                            target |-> r, copy |-> [state |-> "live", name |-> n],
                            name |-> n, late |-> FALSE]]
  BY DEF Create
<1> DEFINE rec == [pc |-> IF Refused(n) THEN "conflict" ELSE "checked", op |-> "create",
                   target |-> r, copy |-> [state |-> "live", name |-> n],
                   name |-> n, late |-> FALSE]
<1>1. rec \in Request
  BY DEF Request, Row
<1>2. RecordInv(rec)
  BY DEF RecordInv, PlaceInv, LookedInv, EnteredInv, Fresh, Refused, Live, Having, Underway
<1>3. \A p \in Requests \ {q} : PairInv(req[p], rec)
  BY DEF PairInv, Fresh, Underway
<1>4. UNCHANGED row
  BY DEF Create
<1>5. QED
  BY <1>1, <1>2, <1>3, <1>4, RequestStep

LEMMA ReadKeeps ==
    ASSUME CatalogueInv, NEW q \in Requests, NEW op \in {"update", "delete"}, NEW r \in Rows,
           Read(q, op, r)
    PROVE  CatalogueInv'
<1> DEFINE rec == [pc |-> IF row[r].state = "live" THEN "read" ELSE "missing", op |-> op,
                   target |-> r, copy |-> row[r], name |-> row[r].name, late |-> FALSE]
<1>1. row[r] \in Row /\ row[r].name \in Names
  BY DEF CatalogueInv, TypeOK, Row
<1>2. rec \in Request
  BY <1>1 DEF Request
<1>3. RecordInv(rec)
  BY DEF RecordInv, PlaceInv, LookedInv, EnteredInv, Read, Underway
<1>4. \A p \in Requests \ {q} : PairInv(req[p], rec)
  BY DEF PairInv
<1>5. UNCHANGED row /\ req' = [req EXCEPT ![q] = rec]
  BY DEF Read
<1>6. QED
  BY <1>2, <1>3, <1>4, <1>5, RequestStep

LEMMA UpdateKeeps ==
    ASSUME CatalogueInv, NEW q \in Requests, NEW n \in Names, Update(q, n)
    PROVE  CatalogueInv'
<1> DEFINE rec == [req[q] EXCEPT !.pc = IF n # req[q].copy.name /\ Refused(n) THEN "conflict" ELSE "checked",
                                 !.name = n]
<1>1. req[q] \in Request /\ RecordInv(req[q])
  BY DEF CatalogueInv, TypeOK
<1>2. rec \in Request
  BY <1>1 DEF Request
<1>3. UNCHANGED row /\ req' = [req EXCEPT ![q] = rec]
  BY DEF Update
<1>4. RecordInv(rec)
  BY <1>1 DEF RecordInv, PlaceInv, LookedInv, EnteredInv, Naming, Update, Underway,
              Refused, Live, Having, Request
<1>5. \A p \in Requests \ {q} : PairInv(req[p], rec)
  BY <1>1 DEF PairInv, Update, Request
<1>6. QED
  BY <1>2, <1>3, <1>4, <1>5, RequestStep

\* A request that answers, or whose deletion is to be written, enters no name.
LEMMA PcKeeps ==
    ASSUME CatalogueInv, NEW q \in Requests, UNCHANGED row,
           NEW pc \in {"checked", "done", "error"},
           pc = "checked" => req[q].op = "delete" /\ req[q].pc = "read",
           req' = [req EXCEPT ![q].pc = pc]
    PROVE  CatalogueInv'
<1> DEFINE rec == [req[q] EXCEPT !.pc = pc]
<1>1. req[q] \in Request /\ RecordInv(req[q])
  BY DEF CatalogueInv, TypeOK
<1>2. rec \in Request
  BY <1>1 DEF Request
<1>3. RecordInv(rec)
  BY <1>1 DEF RecordInv, PlaceInv, LookedInv, EnteredInv, Naming, Underway, Request
<1>4. \A p \in Requests \ {q} : PairInv(req[p], rec)
  BY <1>1 DEF PairInv, Request, Underway
<1>5. QED
  BY <1>2, <1>3, <1>4, RequestStep

LEMMA WriteKeeps ==
    ASSUME CatalogueInv, NEW q \in Requests, Write(q)
    PROVE  CatalogueInv'
<1> DEFINE rec == [req[q] EXCEPT !.pc = "written"]
<1>1. req[q] \in Request /\ RecordInv(req[q])
  BY DEF CatalogueInv, TypeOK
<1>2. rec \in Request
  BY <1>1 DEF Request
<1>3. NamesIt(q) <=> Naming(rec)
  BY <1>1 DEF NamesIt, Renames, Naming, Request
<1>4. RecordInv(rec)
  BY <1>1, <1>3 DEF RecordInv, PlaceInv, LookedInv, EnteredInv, Underway, Request,
                    Write, Taken, Having
<1>5. ASSUME NEW p \in Requests \ {q}
      PROVE  PairInv(req[p], rec)
  <2>1. PairInv(req[p], req[q])
    BY DEF CatalogueInv
  <2>2. req[p].pc = "written" /\ Naming(rec) => req[p].name # rec.name
    BY <1>1, <1>3 DEF Write, MayWrite, Writing, Request
  <2>3. QED
    BY <1>1, <2>1, <2>2 DEF PairInv, Underway, Request, Write
<1>6. UNCHANGED row /\ req' = [req EXCEPT ![q] = rec]
  BY DEF Write
<1>7. QED
  BY <1>2, <1>4, <1>5, <1>6, RequestStep

-----------------------------------------------------------------------------
(* The commit *)

\* What a commit writes: the row exists, and has the name entered or the one it had.
LEMMA WrittenRow ==
    ASSUME CatalogueInv, NEW q \in Requests, req[q].pc = "written"
    PROVE  /\ req[q].target \in Rows
           /\ Written(q) \in Row
           /\ Written(q).state # "none"
           /\ Naming(req[q]) => Written(q).name = req[q].name
           /\ ~Naming(req[q]) => Written(q).name = row[req[q].target].name
           /\ req[q].op # "create" => row[req[q].target].state # "none"
           /\ req[q].op # "create" /\ Written(q).state = "live" => row[req[q].target].state = "live"
           /\ req[q].op = "create" => row[req[q].target].state = "none"
<1>1. req[q] \in Request /\ RecordInv(req[q]) /\ row[req[q].target] \in Row
  BY DEF CatalogueInv, TypeOK, Request
<1>2. NamesIt(q) <=> Naming(req[q])
  BY DEF NamesIt, Renames, Naming
<1>3. CASE req[q].op = "create"
  <2>1. Written(q) = req[q].copy /\ Naming(req[q])
    BY <1>3 DEF Written, Renames, Naming
  <2>2. req[q].copy = [state |-> "live", name |-> req[q].name] /\ row[req[q].target].state = "none"
    BY <1>1, <1>3 DEF RecordInv, PlaceInv, Underway
  <2>3. QED
    BY <1>1, <1>3, <2>1, <2>2 DEF Request
<1>4. CASE req[q].op = "delete"
  <2>1. Written(q) = [row[req[q].target] EXCEPT !.state = "deleted"] /\ ~Naming(req[q])
    BY <1>4 DEF Written, Renames, Naming
  <2>2. row[req[q].target].state # "none"
    BY <1>1, <1>4 DEF RecordInv, PlaceInv, Underway
  <2>3. QED
    BY <1>1, <1>4, <2>1, <2>2 DEF Request, Row
<1>5. CASE req[q].op = "update" /\ Renames(q)
  BY <1>1, <1>2, <1>5 DEF Written, RecordInv, PlaceInv, Underway, Naming, Renames, Request, Row
<1>6. CASE req[q].op = "update" /\ ~Renames(q)
  BY <1>1, <1>2, <1>6 DEF Written, RecordInv, PlaceInv, Underway, Naming, Renames, Request, Row
<1>7. QED
  BY <1>1, <1>3, <1>4, <1>5, <1>6 DEF Request

LEMMA CommitKeeps ==
    ASSUME CatalogueInv, NEW q \in Requests, Commit(q)
    PROVE  CatalogueInv'
<1> DEFINE t == req[q].target
<1>1. req[q].pc = "written" /\ row \in [Rows -> Row] /\ req \in [Requests -> Request]
  BY DEF Commit, Writing, CatalogueInv, TypeOK
<1>2. /\ t \in Rows /\ Written(q) \in Row /\ Written(q).state # "none"
      /\ Naming(req[q]) => Written(q).name = req[q].name
      /\ ~Naming(req[q]) => Written(q).name = row[t].name
      /\ req[q].op # "create" => row[t].state # "none"
      /\ req[q].op # "create" /\ Written(q).state = "live" => row[t].state = "live"
      /\ req[q].op = "create" => row[t].state = "none"
  BY <1>1, WrittenRow
<1>3. row'[t] = Written(q) /\ \A r \in Rows \ {t} : row'[r] = row[r]
  BY <1>1, <1>2 DEF Commit
<1>4. RecordInv(req[q])
  BY DEF CatalogueInv
<1>5. \A p \in Requests \ {q} :
        req'[p] = [req[p] EXCEPT !.late = @ \/ (req[p].pc = "checked" /\ NamesIt(q) /\ req[q].name = req[p].name)]
  BY <1>1 DEF Commit
<1>6. req'[q] = [req[q] EXCEPT !.pc = "done"]
  BY <1>1 DEF Commit
<1>7. ASSUME NEW p \in Requests \ {q}
      PROVE  /\ req'[p].pc = req[p].pc /\ req'[p].op = req[p].op /\ req'[p].target = req[p].target
             /\ req'[p].copy = req[p].copy /\ req'[p].name = req[p].name
             /\ ~req'[p].late => ~req[p].late
             /\ ~req'[p].late /\ req[p].pc = "checked" /\ Naming(req[q]) => req[q].name # req[p].name
             /\ req'[p] \in Request
  <2>1. req[p] \in Request /\ (NamesIt(q) <=> Naming(req[q]))
    BY <1>1 DEF NamesIt, Renames, Naming
  <2>2. /\ req'[p].pc = req[p].pc /\ req'[p].op = req[p].op /\ req'[p].target = req[p].target
        /\ req'[p].copy = req[p].copy /\ req'[p].name = req[p].name
    BY <1>5, <2>1 DEF Request
  <2>3. req'[p].late = (req[p].late \/ (req[p].pc = "checked" /\ NamesIt(q) /\ req[q].name = req[p].name))
    BY <1>5, <2>1 DEF Request
  <2>4. req'[p] \in Request
    BY <1>5, <2>1, <2>3 DEF Request
  <2>5. QED
    BY <2>1, <2>2, <2>3, <2>4
<1>8. TypeOK'
  <2>1. row' \in [Rows -> Row]
    BY <1>1, <1>2 DEF Commit
  <2>2. req'[q] \in Request
    BY <1>1, <1>6 DEF Request
  <2>3. DOMAIN req' = Requests /\ req' = [p \in Requests |-> req'[p]]
    BY DEF Commit
  <2>4. QED
    BY <1>7, <2>1, <2>2, <2>3 DEF TypeOK
<1>9. NamesAreUnique'
  <2>1. ASSUME NEW r \in Rows \ {t}, row[r].state # "none"
        PROVE  row[r].name # Written(q).name
    <3>1. CASE Naming(req[q])
      BY <1>1, <1>2, <1>4, <2>1, <3>1 DEF RecordInv, EnteredInv
    <3>2. CASE ~Naming(req[q])
      BY <1>2, <2>1, <3>2 DEF CatalogueInv, NamesAreUnique, Naming
    <3>3. QED
      BY <3>1, <3>2
  <2>2. QED
    BY <1>2, <1>3, <2>1 DEF CatalogueInv, NamesAreUnique
<1>10. ASSUME NEW p \in Requests
       PROVE  RecordInv(req[p])'
  <2>1. CASE p = q
    BY <1>6, <1>1, <2>1 DEF RecordInv, PlaceInv, LookedInv, EnteredInv, Underway, Request
  <2>2. CASE p # q
    <3>1. RecordInv(req[p]) /\ PairInv(req[p], req[q]) /\ Naming(req[p])' = Naming(req[p])
      BY <1>7, <2>2 DEF CatalogueInv, Naming
    <3>2. PlaceInv(req[p])'
      BY <1>1, <1>2, <1>3, <1>7, <2>2, <3>1 DEF RecordInv, PlaceInv, PairInv, Underway, Request
    <3>3. LookedInv(req[p])'
      <4>1. SUFFICES ASSUME req[p].pc = "checked", Naming(req[p]), ~req'[p].late,
                            NEW r \in Rows \ {req[p].target}, row'[r].state = "live"
                     PROVE  row'[r].name # req[p].name
        BY <1>7, <2>2, <3>1 DEF LookedInv
      <4>2. CASE r = t /\ Naming(req[q])
        BY <1>2, <1>3, <1>7, <2>2, <4>1, <4>2
      <4>3. CASE r = t /\ ~Naming(req[q])
        BY <1>2, <1>3, <1>7, <2>2, <3>1, <4>1, <4>3 DEF RecordInv, LookedInv, Naming
      <4>4. CASE r # t
        BY <1>3, <1>7, <2>2, <3>1, <4>1, <4>4 DEF RecordInv, LookedInv
      <4>5. QED
        BY <4>2, <4>3, <4>4
    <3>4. EnteredInv(req[p])'
      <4>1. SUFFICES ASSUME req[p].pc = "written", Naming(req[p]),
                            NEW r \in Rows \ {req[p].target}, row'[r].state # "none"
                     PROVE  row'[r].name # req[p].name
        BY <1>7, <2>2, <3>1 DEF EnteredInv
      <4>2. CASE r = t /\ Naming(req[q])
        BY <1>1, <1>2, <1>3, <3>1, <4>1, <4>2 DEF PairInv
      <4>3. CASE r = t /\ ~Naming(req[q])
        BY <1>2, <1>3, <3>1, <4>1, <4>3 DEF RecordInv, EnteredInv, Naming
      <4>4. CASE r # t
        BY <1>3, <3>1, <4>1, <4>4 DEF RecordInv, EnteredInv
      <4>5. QED
        BY <4>2, <4>3, <4>4
    <3>5. QED
      BY <3>2, <3>3, <3>4 DEF RecordInv
  <2>3. QED
    BY <2>1, <2>2
<1>11. ASSUME NEW p \in Requests, NEW o \in Requests, p # o
       PROVE  PairInv(req[p], req[o])'
  <2>1. PairInv(req[p], req[o])
    BY <1>11 DEF CatalogueInv
  <2>2. CASE p = q \/ o = q
    BY <1>1, <1>6, <2>2 DEF PairInv, Underway, Request
  <2>3. CASE p # q /\ o # q
    BY <1>7, <2>1, <2>3 DEF PairInv, Naming
  <2>4. QED
    BY <2>2, <2>3
<1>12. QED
  BY <1>8, <1>9, <1>10, <1>11 DEF CatalogueInv

LEMMA CatalogueInvInductive == CatalogueInv /\ [Next]_vars => CatalogueInv'
<1> SUFFICES ASSUME CatalogueInv, [Next]_vars
             PROVE  CatalogueInv'
  OBVIOUS
<1>1. ASSUME NEW q \in Requests, NEW n \in Names, Create(q, n)
      PROVE  CatalogueInv'
  BY <1>1, CreateKeeps
<1>2. ASSUME NEW q \in Requests, NEW n \in Names, Update(q, n)
      PROVE  CatalogueInv'
  BY <1>2, UpdateKeeps
<1>3. ASSUME NEW q \in Requests, NEW r \in Rows, NEW op \in {"update", "delete"}, Read(q, op, r)
      PROVE  CatalogueInv'
  BY <1>3, ReadKeeps
<1>4. ASSUME NEW q \in Requests, ReadAgain(q)
      PROVE  CatalogueInv'
  <2>1. CASE row[req[q].target].state = "live"
    BY <1>4, <2>1, PcKeeps DEF ReadAgain
  <2>2. CASE row[req[q].target].state # "live"
    BY <1>4, <2>2, PcKeeps DEF ReadAgain
  <2>3. QED
    BY <2>1, <2>2
<1>5. ASSUME NEW q \in Requests, Write(q)
      PROVE  CatalogueInv'
  BY <1>5, WriteKeeps
<1>6. ASSUME NEW q \in Requests, Collide(q)
      PROVE  CatalogueInv'
  BY <1>6, PcKeeps DEF Collide
<1>7. ASSUME NEW q \in Requests, Commit(q)
      PROVE  CatalogueInv'
  BY <1>7, CommitKeeps
<1>8. ASSUME NEW q \in Requests, Fail(q)
      PROVE  CatalogueInv'
  BY <1>8, PcKeeps DEF Fail
<1>9. CASE UNCHANGED vars
  BY <1>9 DEF vars, CatalogueInv, TypeOK, NamesAreUnique, RecordInv, PlaceInv, LookedInv,
              EnteredInv, PairInv, Naming
<1>10. QED
  BY <1>1, <1>2, <1>3, <1>4, <1>5, <1>6, <1>7, <1>8, <1>9 DEF Next

LEMMA CatalogueInvHolds == Spec => []CatalogueInv
<1>1. QED
  BY InitCatalogueInv, CatalogueInvInductive, PTL DEF Spec

-----------------------------------------------------------------------------
(* The theorems *)

\* Every reachable state of the rows and the requests on them is well typed.
THEOREM CatalogueTypes == Spec => []TypeOK
<1>1. CatalogueInv => TypeOK
  BY DEF CatalogueInv
<1>2. QED
  BY <1>1, CatalogueInvHolds, PTL

\* For any number of concurrent requests, no two rows have the same name.
THEOREM UniqueNames == Spec => []NamesAreUnique
<1>1. CatalogueInv => NamesAreUnique
  BY DEF CatalogueInv
<1>2. QED
  BY <1>1, CatalogueInvHolds, PTL

\* The index refuses a name only because of a deleted row, or of one that got it
\* after the service had looked for it.
THEOREM CollisionsExplained == Spec => CollisionsHaveCause
<1>1. ASSUME CatalogueInv, NEW q \in Requests, Collide(q)
      PROVE  req[q].late \/ \E r \in Having(req[q].name) : row[r].state = "deleted"
  <2>1. PICK r \in Having(req[q].name) \ {req[q].target} : TRUE
    BY <1>1 DEF Collide, Taken
  <2>2. r \in Rows /\ row[r].state \in {"live", "deleted"} /\ row[r].name = req[q].name
    BY <1>1, <2>1 DEF Having, CatalogueInv, TypeOK, Row
  <2>3. Naming(req[q]) /\ req[q].pc = "checked" /\ LookedInv(req[q])
    BY <1>1 DEF Collide, Taken, NamesIt, Renames, Naming, CatalogueInv, RecordInv
  <2>4. QED
    BY <2>1, <2>2, <2>3 DEF LookedInv
<1>2. CatalogueInv /\ [Next]_vars =>
        [\A q \in Requests :
           Collide(q) => req[q].late \/ \E r \in Having(req[q].name) : row[r].state = "deleted"]_vars
  BY <1>1
<1>3. QED
  BY <1>2, CatalogueInvHolds, PTL DEF Spec, CollisionsHaveCause

\* No edit, however late, brings a deleted row back.
THEOREM DeletionIsFinal == Spec => DeletedStaysDeleted
<1>1. ASSUME CatalogueInv, [Next]_vars, NEW r \in Rows, row[r].state = "deleted"
      PROVE  row'[r].state = "deleted"
  <2>1. CASE UNCHANGED row
    BY <1>1, <2>1
  <2>2. ASSUME NEW q \in Requests, Commit(q)
        PROVE  row'[r].state = "deleted"
    <3>1. req[q].pc = "written" /\ row \in [Rows -> Row] /\ row' = [row EXCEPT ![req[q].target] = Written(q)]
      BY <1>1, <2>2 DEF Commit, Writing, CatalogueInv, TypeOK
    <3>2. Written(q) \in Row /\ Written(q).state # "none"
          /\ (req[q].op # "create" /\ Written(q).state = "live" => row[req[q].target].state = "live")
          /\ (req[q].op = "create" => row[req[q].target].state = "none")
      BY <1>1, <3>1, WrittenRow
    <3>3. QED
      BY <1>1, <3>1, <3>2 DEF Row
  <2>3. QED
    BY <1>1, <2>1, <2>2
    DEF Next, Create, Update, Read, ReadAgain, Write, Collide, Fail, vars
<1>2. CatalogueInv /\ [Next]_vars =>
        [\A r \in Rows : row[r].state = "deleted" => row'[r].state = "deleted"]_vars
  BY <1>1
<1>3. QED
  BY <1>2, CatalogueInvHolds, PTL DEF Spec, DeletedStaysDeleted
===============================================================================
