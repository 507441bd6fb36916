---------------------------- MODULE Listing_proofs ----------------------------
(***************************************************************************)
(* Proofs about Listing, for any rows, any size of page and any number of  *)
(* requests under way at a time.                                           *)
(***************************************************************************)
EXTENDS Listing, FiniteSetTheorems, TLAPS

-----------------------------------------------------------------------------
(* Facts about pages *)

\* A set of rows that is not empty has a first and a last.
LEMMA Extremes ==
    ASSUME NEW T \in SUBSET Rows, T # {}
    PROVE  /\ \E m \in T : \A r \in T : m <= r
           /\ \E m \in T : \A r \in T : r <= m
<1> DEFINE less == {ss \in Nat \X Nat : ss[1] < ss[2]}
<1>1. IsWellFoundedOn(less, Nat)
  BY NatLessThanWellFounded DEF OpToRel
<1>2. T \subseteq Nat /\ MaxRows \in Nat
  BY ListingAssumption DEF Rows
<1>3. \E m \in T : \A r \in T : m <= r
  <2>1. PICK m \in T : \A r \in T : ~ (<<r, m>> \in less)
    BY <1>1, <1>2, WFMin
  <2>2. \A r \in T : ~(r < m)
    BY <1>2, <2>1
  <2>3. QED
    BY <1>2, <2>2
<1>4. \E m \in T : \A r \in T : r <= m
  <2> DEFINE U == {MaxRows - r : r \in T}
  <2>1. U \subseteq Nat /\ U # {}
    BY <1>2 DEF Rows
  <2>2. PICK u \in U : \A v \in U : ~ (<<v, u>> \in less)
    BY <1>1, <2>1, WFMin
  <2>3. PICK m \in T : u = MaxRows - m
    BY <2>2
  <2>4. ASSUME NEW r \in T
        PROVE  r <= m
    <3>1. MaxRows - r \in U /\ MaxRows - r \in Nat /\ u \in Nat
      BY <2>1, <2>2
    <3>2. ~(MaxRows - r < u)
      BY <2>2, <3>1
    <3>3. QED
      BY <1>2, <2>3, <3>2
  <2>5. QED
    BY <2>4
<1>5. QED
  BY <1>3, <1>4

\* The rows of T that are shown before r.
Above(T, r) == {q \in T : q > r}

\* A page is the first rows, no more than Limit, and its last row is the cursor:
\* what is not on the page is below it.
LEMMA PageFacts ==
    ASSUME NEW T \in SUBSET Rows
    PROVE  /\ Page(T) \subseteq T
           /\ Cardinality(Page(T)) <= Limit
           /\ Page(T) # T =>
                /\ Last(T) \in Page(T)
                /\ \A p \in Page(T) : Last(T) <= p
                /\ \A r \in T \ Page(T) : r < Last(T)
<1>1. IsFiniteSet(T) /\ T \subseteq Nat /\ Limit \in Nat \ {0}
  <2>1. IsFiniteSet(1..MaxRows)
    BY ListingAssumption, FS_Interval
  <2>2. IsFiniteSet(T)
    BY <2>1, FS_Subset DEF Rows
  <2>3. QED
    BY <2>2, ListingAssumption DEF Rows
<1>2. \A r : IsFiniteSet(Above(T, r)) /\ Cardinality(Above(T, r)) \in Nat
  BY <1>1, FS_Subset, FS_CardinalityType DEF Above
<1>3. Page(T) = {r \in T : Cardinality(Above(T, r)) < Limit}
  BY DEF Page, Above
<1>4. Page(T) \subseteq T /\ IsFiniteSet(Page(T))
  BY <1>1, <1>3, FS_Subset
<1>5. T # {} => Page(T) # {}
  <2> SUFFICES ASSUME T # {}
               PROVE  Page(T) # {}
    OBVIOUS
  <2>1. PICK m \in T : \A r \in T : r <= m
    BY Extremes
  <2>2. Above(T, m) = {}
    <3> SUFFICES ASSUME NEW q \in T
                 PROVE  ~(q > m)
      BY DEF Above
    <3>1. q \in Nat /\ m \in Nat /\ q <= m
      BY <1>1, <2>1
    <3>2. QED
      BY <3>1
  <2>3. Cardinality(Above(T, m)) = 0
    BY <2>2, FS_EmptySet
  <2>4. QED
    BY <1>1, <1>3, <2>1, <2>3
<1>6. Page(T) # {} => /\ Last(T) \in Page(T)
                      /\ \A p \in Page(T) : Last(T) <= p
  BY <1>4, Extremes DEF Last
<1>7. Cardinality(Page(T)) <= Limit
  <2>1. CASE Page(T) = {}
    BY <1>1, <2>1, FS_EmptySet
  <2>2. CASE Page(T) # {}
    <3> DEFINE m == Last(T)
               others == Page(T) \ {m}
    <3>1. m \in Page(T) /\ \A p \in Page(T) : m <= p
      BY <1>6, <2>2
    <3> HIDE DEF m
    <3>2. others \subseteq Above(T, m)
      <4> SUFFICES ASSUME NEW q \in others
                   PROVE  q \in T /\ q > m
        BY DEF Above
      <4>1. q \in T /\ q \in Nat /\ m \in Nat /\ m <= q /\ q # m
        BY <1>1, <1>4, <3>1
      <4>2. QED
        BY <4>1
    <3>3. Cardinality(others) <= Cardinality(Above(T, m)) /\ Cardinality(Above(T, m)) < Limit
      BY <1>2, <1>3, <3>1, <3>2, FS_Subset
    <3>4. Cardinality(others) = Cardinality(Page(T)) - 1
      BY <1>4, <3>1, FS_RemoveElement
    <3>5. Cardinality(others) \in Nat /\ Cardinality(Page(T)) \in Nat
      BY <1>2, <1>4, <3>2, FS_Subset, FS_CardinalityType
    <3>6. QED
      BY <1>1, <1>2, <3>3, <3>4, <3>5
  <2>3. QED
    BY <2>1, <2>2
<1>8. ASSUME NEW p \in Page(T), NEW r \in T \ Page(T)
      PROVE  r < p
  <2>1. p \in T /\ p \in Nat /\ r \in Nat /\ p # r
    BY <1>1, <1>4
  <2>2. Cardinality(Above(T, p)) < Limit /\ ~(Cardinality(Above(T, r)) < Limit)
    BY <1>3
  <2>3. p < r => Above(T, r) \subseteq Above(T, p)
    <3> SUFFICES ASSUME p < r, NEW q \in T, q > r
                 PROVE  q > p
      BY DEF Above
    <3>1. q \in Nat
      BY <1>1
    <3>2. QED
      BY <2>1, <3>1
  <2>4. p < r => Cardinality(Above(T, r)) <= Cardinality(Above(T, p))
    BY <1>2, <2>3, FS_Subset
  <2>5. QED
    BY <1>1, <1>2, <2>1, <2>2, <2>4
<1>9. QED
  BY <1>4, <1>5, <1>6, <1>7, <1>8

-----------------------------------------------------------------------------
(* The inductive invariant *)

\* The last refresh, while it is under way.
Fresh(s) == req[s].pc # "idle" /\ req[s].refresh /\ ~req[s].old

\* A request for the next page of what is shown.
Further(s) == req[s].pc # "idle" /\ ~req[s].refresh /\ ~req[s].old

\* It starts from nothing: only an answer that was asked for before it can be shown.
Refreshes ==
    \A s \in Slots : Fresh(s) =>
       /\ \A t \in Slots : Fresh(t) => t = s
       /\ late \/ list.data = <<>>
       /\ req[s].cursor = NoCursor
       /\ req[s].pc = "sent" => steady = {}
       /\ req[s].search = list.search \/ astray

\* It goes on where the list ends.
Continues ==
    \A s \in Slots : Further(s) =>
       /\ list.data # <<>> /\ list.hasNext
       /\ req[s].cursor = list.cursor
       /\ req[s].search = list.search

\* The rows that were there all the while are on the page that was answered or after it.
Ahead(s) ==
    \A r \in steady : r < req[s].cursor =>
       r \in req[s].page \/ (req[s].next # NoCursor /\ r < req[s].next)

\* What an answer holds: a page below the cursor, and the way on.
Answered ==
    \A s \in Slots : req[s].pc = "answered" =>
       /\ \A p \in req[s].page : p < req[s].cursor
       /\ req[s].next # NoCursor =>
            /\ req[s].next \in req[s].page
            /\ \A p \in req[s].page : req[s].next <= p
       /\ Fresh(s) => Ahead(s) /\ walk = req[s].search
       /\ Further(s) /\ ~late /\ ~astray => Ahead(s)

\* Every page is below those before it, and the cursor of the list is below them all.
Descends ==
    ~late => /\ \A j \in DOMAIN list.data : \A i \in 1..(j - 1) :
                   \A p \in list.data[i], r \in list.data[j] : r < p
             /\ list.hasNext => \A p \in Shown : list.cursor <= p

\* The rows that were there all the while are shown or still ahead.
Covered ==
    (~late /\ ~astray /\ \A s \in Slots : ~(req[s].pc = "answered" /\ Fresh(s))) =>
       \A r \in steady : r \in Shown \/ (list.hasNext /\ r < list.cursor)

WalkInv ==
    /\ steady \subseteq Found(row, walk)
    /\ Refreshes
    /\ Continues
    /\ Answered
    /\ Descends
    /\ Covered
    /\ ShowsLatestSearch

ListingInv == TypeOK /\ WalkInv

\* What is shown is rows.
LEMMA ShownRows == TypeOK => Shown \subseteq Rows
  BY DEF TypeOK, List, Shown

\* Nothing is shown, and the first refresh is under way.
LEMMA InitListingInv == Init => ListingInv
<1> SUFFICES ASSUME Init
             PROVE  ListingInv
  OBVIOUS
<1>1. NoCursor \in 1..NoCursor
  BY ListingAssumption DEF NoCursor
<1>2. PICK s \in Slots : req = [q \in Slots |-> IF q = s THEN Sent(TRUE, "all", NoCursor) ELSE Idle]
  BY DEF Init
<1>3. \A t \in Slots : /\ req[t] \in {Sent(TRUE, "all", NoCursor), Idle}
                       /\ t # s => req[t] = Idle
  BY <1>2
<1>4. /\ Idle \in Request /\ Idle.pc = "idle" /\ Idle.page = {}
      /\ Sent(TRUE, "all", NoCursor) \in Request
      /\ Sent(TRUE, "all", NoCursor).pc = "sent" /\ Sent(TRUE, "all", NoCursor).refresh
      /\ Sent(TRUE, "all", NoCursor).page = {} /\ Sent(TRUE, "all", NoCursor).cursor = NoCursor
      /\ Sent(TRUE, "all", NoCursor).search = "all"
  BY <1>1 DEF Sent, Idle, Request, Searches
<1>5. TypeOK
  <2>1. req \in [Slots -> Request] /\ \A t \in Slots : req[t].page = {}
    BY <1>2, <1>3, <1>4
  <2>2. Cardinality({}) <= Limit
    BY FS_EmptySet, ListingAssumption
  <2>3. list \in List
    BY <1>1 DEF Init, List, Searches
  <2>4. QED
    BY <2>1, <2>2, <2>3 DEF Init, TypeOK, Searches
<1>6. /\ list.data = <<>> /\ ~list.hasNext /\ list.search = "all" /\ walk = "all"
      /\ steady = {} /\ Shown = {}
  BY DEF Init, Shown
<1>7. Refreshes /\ Continues /\ Answered
  BY <1>3, <1>4, <1>6 DEF Refreshes, Continues, Answered, Fresh, Further
<1>8. Descends /\ Covered /\ ShowsLatestSearch
  BY <1>6 DEF Descends, Covered, ShowsLatestSearch
<1>9. QED
  BY <1>5, <1>6, <1>7, <1>8 DEF ListingInv, WalkInv

-----------------------------------------------------------------------------
(* The steps *)

\* Other transactions take rows from those that were there all the while, or none,
\* and a form is the list's affair only when it is answered.
LEMMA RowsChange ==
    ASSUME WalkInv, UNCHANGED <<list, req, walk, late, astray>>, steady' \subseteq steady,
           steady' \subseteq Found(row', walk)
    PROVE  WalkInv'
<1>1. UNCHANGED Shown
  BY DEF Shown
<1>2. \A s : /\ UNCHANGED <<Fresh(s), Further(s)>>
             /\ Ahead(s) => Ahead(s)'
  BY DEF Fresh, Further, Ahead
<1>3. Refreshes' /\ Continues' /\ Descends' /\ Covered'
  BY <1>1, <1>2 DEF WalkInv, Refreshes, Continues, Descends, Covered
<1>4. Answered'
  BY <1>2 DEF WalkInv, Answered
<1>5. QED
  BY <1>3, <1>4 DEF WalkInv, ShowsLatestSearch

\* What an answer holds is a page.
LEMMA AnswerFacts ==
    ASSUME TypeOK, NEW s \in Slots, Answer(s)
    PROVE  LET T == Seek(Found(row, req[s].search), req[s].cursor)
           IN  /\ T \in SUBSET Rows
               /\ \A r : r \in T <=> r \in Found(row, req[s].search) /\ r < req[s].cursor
               /\ req'[s] \in Request /\ req'[s].pc = "answered"
               /\ req'[s].refresh = req[s].refresh /\ req'[s].old = req[s].old
               /\ req'[s].search = req[s].search /\ req'[s].cursor = req[s].cursor
               /\ req'[s].page \subseteq T /\ Cardinality(req'[s].page) <= Limit
               /\ req'[s].next # NoCursor =>
                    req'[s].next \in req'[s].page /\ \A p \in req'[s].page : req'[s].next <= p
               /\ \A r \in T : r \in req'[s].page \/ (req'[s].next # NoCursor /\ r < req'[s].next)
               /\ \A t \in Slots \ {s} : req'[t] = req[t]
               /\ req' \in [Slots -> Request]
<1> DEFINE T == Seek(Found(row, req[s].search), req[s].cursor)
           next == IF Page(T) # T THEN Last(T) ELSE NoCursor
           rec == [req[s] EXCEPT !.pc = "answered", !.page = Page(T), !.next = next]
<1>1. /\ req \in [Slots -> Request] /\ req[s] \in Request
      /\ req' = [req EXCEPT ![s] = rec]
  BY DEF TypeOK, Answer
<1>2. /\ T \in SUBSET Rows
      /\ \A r : r \in T <=> r \in Found(row, req[s].search) /\ r < req[s].cursor
  BY DEF Seek, Found
<1>3. /\ Page(T) \subseteq T /\ Cardinality(Page(T)) <= Limit
      /\ next # NoCursor => next \in Page(T) /\ \A p \in Page(T) : next <= p
      /\ \A r \in T : r \in Page(T) \/ (next # NoCursor /\ r < next)
      /\ next \in 1..NoCursor
  <2>1. \A r \in Rows : r # NoCursor /\ r \in 1..NoCursor
    BY ListingAssumption DEF Rows, NoCursor
  <2>2. NoCursor \in 1..NoCursor
    BY ListingAssumption DEF NoCursor
  <2>3. QED
    BY <1>2, <2>1, <2>2, PageFacts
<1> HIDE DEF next
<1>4. /\ rec.pc = "answered" /\ rec.page = Page(T) /\ rec.next = next
      /\ rec.refresh = req[s].refresh /\ rec.old = req[s].old
      /\ rec.search = req[s].search /\ rec.cursor = req[s].cursor
      /\ rec \in Request
  <2> HIDE DEF T
  <2>1. Page(T) \subseteq Rows
    BY <1>2, <1>3
  <2>2. QED
    BY <1>1, <1>3, <2>1 DEF Request
<1> HIDE DEF rec
<1>5. /\ req'[s] = rec /\ \A t \in Slots \ {s} : req'[t] = req[t]
      /\ req' \in [Slots -> Request]
  BY <1>1, <1>4
<1>6. QED
  BY <1>2, <1>3, <1>4, <1>5

LEMMA AnswerTypes ==
    ASSUME TypeOK, NEW s \in Slots, Answer(s)
    PROVE  TypeOK'
<1>1. /\ req' \in [Slots -> Request]
      /\ \A t \in Slots : Cardinality(req'[t].page) <= Limit
  BY AnswerFacts DEF TypeOK
<1>2. steady' \subseteq Rows /\ walk' \in Searches
  <2> DEFINE T == Seek(Found(row, req[s].search), req[s].cursor)
  <2>1. T \subseteq Rows /\ req[s].search \in Searches
    BY AnswerFacts DEF TypeOK, Request
  <2>2. steady' \in {steady, T} /\ walk' \in {walk, req[s].search}
    BY DEF Answer
  <2> HIDE DEF T
  <2>3. QED
    BY <2>1, <2>2 DEF TypeOK
<1>3. QED
  BY <1>1, <1>2 DEF TypeOK, Answer

\* A page is read.
LEMMA AnswerKeeps ==
    ASSUME TypeOK, WalkInv, NEW s \in Slots, Answer(s)
    PROVE  WalkInv'
<1> DEFINE T == Seek(Found(row, req[s].search), req[s].cursor)
<1>1. /\ T \in SUBSET Rows
      /\ \A r : r \in T <=> r \in Found(row, req[s].search) /\ r < req[s].cursor
      /\ req'[s].pc = "answered"
      /\ req'[s].refresh = req[s].refresh /\ req'[s].old = req[s].old
      /\ req'[s].search = req[s].search /\ req'[s].cursor = req[s].cursor
      /\ req'[s].page \subseteq T
      /\ req'[s].next # NoCursor =>
           req'[s].next \in req'[s].page /\ \A p \in req'[s].page : req'[s].next <= p
      /\ \A r \in T : r \in req'[s].page \/ (req'[s].next # NoCursor /\ r < req'[s].next)
      /\ \A t \in Slots \ {s} : req'[t] = req[t]
  BY AnswerFacts
<1>2. /\ req[s].pc = "sent" /\ UNCHANGED <<row, list, forms, late, astray>>
      /\ IF req[s].refresh /\ ~req[s].old THEN steady' = T /\ walk' = req[s].search
                                          ELSE UNCHANGED <<steady, walk>>
  BY DEF Answer
<1> HIDE DEF T
<1>3. \A t \in Slots : /\ Fresh(t)' = Fresh(t) /\ Further(t)' = Further(t)
                       /\ req'[t].search = req[t].search /\ req'[t].cursor = req[t].cursor
  BY <1>1, <1>2 DEF Fresh, Further
<1>4. UNCHANGED Shown
  BY <1>2 DEF Shown
<1>5. steady' \subseteq Found(row', walk')
  BY <1>1, <1>2 DEF WalkInv
<1>6. Refreshes'
  <2>1. \A t \in Slots : Fresh(t) /\ t # s => ~Fresh(s)
    BY DEF WalkInv, Refreshes
  <2>2. \A t \in Slots : Fresh(t) /\ req'[t].pc = "sent" => steady' = {}
    BY <1>1, <1>2, <2>1 DEF WalkInv, Refreshes, Fresh
  <2>3. QED
    BY <1>2, <1>3, <2>2 DEF WalkInv, Refreshes
<1>7. Continues'
  BY <1>2, <1>3 DEF WalkInv, Continues
<1>8. Descends'
  BY <1>2, <1>4 DEF WalkInv, Descends
\* The next page of a list that shows the search asked for.
<1>9. CASE Fresh(s)
  <2>1. steady' = T /\ walk' = req[s].search
    BY <1>2, <1>9 DEF Fresh
  <2>2. \A t \in Slots \ {s} : ~Fresh(t)
    BY <1>9 DEF WalkInv, Refreshes
  <2>3. late \/ list.data = <<>>
    BY <1>9 DEF WalkInv, Refreshes
  <2>4. \A t \in Slots : Further(t) => late
    BY <2>3 DEF WalkInv, Continues
  <2>5. Ahead(s)'
    BY <1>1, <2>1 DEF Ahead
  <2>6. Answered'
    BY <1>1, <1>2, <1>3, <2>1, <2>2, <2>4, <2>5 DEF WalkInv, Answered
  <2>7. Covered'
    BY <1>1, <1>3, <1>9 DEF Covered
  <2>8. ShowsLatestSearch'
    BY <1>2, <2>3 DEF ShowsLatestSearch
  <2>9. QED
    BY <1>5, <1>6, <1>7, <1>8, <2>6, <2>7, <2>8 DEF WalkInv
<1>10. CASE ~Fresh(s)
  <2>1. UNCHANGED <<steady, walk>>
    BY <1>2, <1>10 DEF Fresh
  <2>2. ASSUME Further(s), ~late, ~astray
        PROVE  Ahead(s)'
    <3>1. walk = req[s].search
      BY <2>2 DEF WalkInv, Continues, ShowsLatestSearch
    <3>2. \A r \in steady : r < req[s].cursor => r \in T
      BY <1>1, <3>1 DEF WalkInv
    <3>3. QED
      BY <1>1, <2>1, <3>2 DEF Ahead
  <2>3. \A t \in Slots \ {s} : Ahead(t)' = Ahead(t)
    BY <1>1, <2>1 DEF Ahead
  <2>4. Answered'
    <3>1. ASSUME NEW t \in Slots \ {s}, req'[t].pc = "answered"
          PROVE  /\ \A p \in req'[t].page : p < req'[t].cursor
                 /\ req'[t].next # NoCursor =>
                      /\ req'[t].next \in req'[t].page
                      /\ \A p \in req'[t].page : req'[t].next <= p
                 /\ Fresh(t)' => Ahead(t)' /\ walk' = req'[t].search
                 /\ Further(t)' /\ ~late' /\ ~astray' => Ahead(t)'
      BY <1>1, <1>2, <1>3, <2>1, <2>3, <3>1 DEF WalkInv, Answered
    <3>2. \A p \in req'[s].page : p < req'[s].cursor
      BY <1>1
    <3>3. QED
      BY <1>1, <1>2, <1>3, <1>10, <2>2, <3>1, <3>2 DEF Answered
  <2>5. Covered'
    <3>1. \A t \in Slots : req[t].pc = "answered" /\ Fresh(t) =>
                             req'[t].pc = "answered" /\ Fresh(t)'
      BY <1>1, <1>3, <1>10
    <3>2. QED
      BY <1>2, <1>4, <2>1, <3>1 DEF WalkInv, Covered
  <2>6. ShowsLatestSearch'
    BY <1>2, <2>1 DEF WalkInv, ShowsLatestSearch
  <2>7. QED
    BY <1>5, <1>6, <1>7, <1>8, <2>4, <2>5, <2>6 DEF WalkInv
<1>11. QED
  BY <1>9, <1>10

\* A page is below the rows that are shown when it goes on where the list ends.
LEMMA PageIsBelow ==
    ASSUME TypeOK, WalkInv, ~late, NEW s \in Slots, req[s].pc = "answered", Further(s)
    PROVE  \A p \in Shown, r \in req[s].page : r < p
<1>1. /\ list.hasNext /\ req[s].cursor = list.cursor
      /\ \A r \in req[s].page : r < req[s].cursor
      /\ \A p \in Shown : list.cursor <= p
  BY DEF WalkInv, Continues, Answered, Descends
<1>2. Shown \subseteq Nat /\ req[s].page \subseteq Nat /\ list.cursor \in Nat
  BY ShownRows DEF TypeOK, Request, List, Rows
<1>3. SUFFICES ASSUME NEW p \in Shown, NEW r \in req[s].page
               PROVE  r < p
  OBVIOUS
<1>4. r < list.cursor /\ list.cursor <= p /\ r \in Nat /\ p \in Nat
  BY <1>1, <1>2
<1>5. QED
  BY <1>2, <1>4

\* The answer is shown.
LEMMA ShowKeeps ==
    ASSUME TypeOK, WalkInv, NEW s \in Slots, Show(s)
    PROVE  WalkInv'
<1>1. /\ req \in [Slots -> Request] /\ req[s] \in Request /\ req[s].pc = "answered"
      /\ list \in List
      /\ UNCHANGED <<row, walk, steady, astray>>
      /\ late' = (req[s].old \/ (late /\ ~req[s].refresh))
  BY DEF TypeOK, Show
<1>2. /\ list'.data = IF req[s].refresh THEN <<req[s].page>> ELSE Append(list.data, req[s].page)
      /\ list'.hasNext = (req[s].next # NoCursor) /\ list'.cursor = req[s].next
      /\ list'.search = list.search
  BY <1>1 DEF Show, List
<1>3. /\ req'[s] = Idle
      /\ \A t \in Slots \ {s} :
            req'[t] = [req[t] EXCEPT !.old = @ \/ (req[t].pc # "idle" /\ ~req[t].refresh)]
  BY DEF Show
<1>4. ASSUME NEW t \in Slots \ {s}
      PROVE  /\ req'[t].pc = req[t].pc /\ req'[t].refresh = req[t].refresh
             /\ req'[t].search = req[t].search /\ req'[t].cursor = req[t].cursor
             /\ req'[t].page = req[t].page /\ req'[t].next = req[t].next
             /\ req'[t].old = (req[t].old \/ (req[t].pc # "idle" /\ ~req[t].refresh))
  <2>1. req[t] \in Request
    BY <1>1
  <2>2. QED
    BY <1>3, <2>1 DEF Request
<1>5. /\ ~Fresh(s)' /\ \A t \in Slots : ~Further(t)' /\ (Fresh(t)' => Fresh(t) /\ t # s)
      /\ req'[s].pc # "answered"
      /\ \A t \in Slots \ {s} : Fresh(t) => Fresh(t)'
  <2>1. req'[s].pc = "idle"
    BY <1>3 DEF Idle
  <2>2. ~Fresh(s)' /\ ~Further(s)'
    BY <2>1 DEF Fresh, Further
  <2>3. \A t \in Slots \ {s} : ~Further(t)' /\ Fresh(t)' = Fresh(t)
    BY <1>4 DEF Fresh, Further
  <2>4. QED
    BY <2>1, <2>2, <2>3
<1>6. /\ \A p \in req[s].page : p < req[s].cursor
      /\ req[s].next # NoCursor =>
           /\ req[s].next \in req[s].page
           /\ \A p \in req[s].page : req[s].next <= p
      /\ Fresh(s) => Ahead(s) /\ walk = req[s].search
      /\ Further(s) /\ ~late /\ ~astray => Ahead(s)
  BY <1>1 DEF WalkInv, Answered
<1>7. /\ req[s].page \subseteq Nat /\ req[s].page \subseteq Rows /\ Shown \subseteq Nat
      /\ steady \subseteq Rows /\ req[s].cursor \in Nat /\ req[s].next \in Nat
      /\ \A r \in Rows : r < NoCursor
  BY <1>1, ShownRows, ListingAssumption DEF TypeOK, Request, Rows, NoCursor
<1>8. Refreshes'
  <2>1. ASSUME NEW t \in Slots, Fresh(t)'
        PROVE  late'
    <3>1. Fresh(t) /\ t # s /\ ~Fresh(s)
      BY <1>5, <2>1 DEF WalkInv, Refreshes
    <3>2. late \/ list.data = <<>>
      BY <3>1 DEF WalkInv, Refreshes
    <3>3. req[s].old \/ Further(s)
      BY <1>1, <3>1 DEF Fresh, Further
    <3>4. Further(s) => list.data # <<>> /\ ~req[s].refresh
      BY DEF WalkInv, Continues, Further
    <3>5. QED
      BY <1>1, <3>2, <3>3, <3>4
  <2>2. QED
    BY <1>1, <1>2, <1>4, <1>5, <2>1 DEF WalkInv, Refreshes
<1>9. Continues'
  BY <1>5 DEF Continues
<1>10. Answered'
  <2>1. \A t \in Slots \ {s} : Ahead(t)' = Ahead(t)
    BY <1>1, <1>4 DEF Ahead
  <2>2. QED
    BY <1>1, <1>4, <1>5, <2>1 DEF WalkInv, Answered
\* Of what is shown late nothing is said.
<1>11. SUFFICES ASSUME ~late'
                PROVE  Descends' /\ Covered' /\ ShowsLatestSearch'
  BY <1>1, <1>8, <1>9, <1>10 DEF WalkInv, Descends, Covered, ShowsLatestSearch
<1>12. ~req[s].old
  BY <1>1, <1>11
<1>13. CASE req[s].refresh
  <2>1. Fresh(s) /\ req[s].cursor = NoCursor /\ (req[s].search = list.search \/ astray)
    BY <1>1, <1>12, <1>13 DEF WalkInv, Refreshes, Fresh
  <2>2. list'.data = <<req[s].page>> /\ DOMAIN list'.data = {1} /\ list'.data[1] = req[s].page
    BY <1>2, <1>13
  <2>3. Shown' = req[s].page
    BY <2>2 DEF Shown
  <2>4. Descends'
    <3>1. list'.hasNext => \A p \in Shown' : list'.cursor <= p
      BY <1>2, <1>6, <2>3
    <3>2. \A j \in DOMAIN list'.data : \A i \in 1..(j - 1) :
            \A p \in list'.data[i], r \in list'.data[j] : r < p
      BY <2>2
    <3>3. QED
      BY <3>1, <3>2 DEF Descends
  <2>5. Covered'
    <3>1. \A r \in steady : r \in req[s].page \/ (req[s].next # NoCursor /\ r < req[s].next)
      BY <1>6, <1>7, <2>1 DEF Ahead
    <3>2. QED
      BY <1>1, <1>2, <2>3, <3>1 DEF Covered
  <2>6. ShowsLatestSearch'
    BY <1>1, <1>2, <1>6, <2>1 DEF ShowsLatestSearch
  <2>7. QED
    BY <2>4, <2>5, <2>6
<1>14. CASE ~req[s].refresh
  <2> DEFINE n == Len(list.data)
  <2>1. Further(s) /\ ~late
    BY <1>1, <1>11, <1>12, <1>14 DEF Further
  <2>2. list.data # <<>> /\ list.hasNext /\ req[s].cursor = list.cursor
    BY <2>1 DEF WalkInv, Continues
  <2>3. /\ n \in Nat /\ DOMAIN list.data = 1..n /\ DOMAIN list'.data = 1..(n + 1)
        /\ \A i \in 1..n : list'.data[i] = list.data[i]
        /\ list'.data[n + 1] = req[s].page
    <3>1. list.data \in Seq(SUBSET Rows) /\ req[s].page \in SUBSET Rows
      BY <1>1, <1>7 DEF List
    <3>2. QED
      BY <1>2, <1>14, <3>1
  <2> HIDE DEF n
  <2>4. Shown' = Shown \union req[s].page
    BY <2>3 DEF Shown
  <2>5. \A p \in Shown, r \in req[s].page : r < p
    BY <1>1, <2>1, PageIsBelow
  <2>6. list'.hasNext => \A p \in Shown' : list'.cursor <= p
    <3>1. ASSUME req[s].next # NoCursor, NEW p \in Shown
          PROVE  req[s].next <= p
      <4>1. req[s].next < p /\ req[s].next \in Nat /\ p \in Nat
        BY <1>6, <1>7, <2>5, <3>1
      <4>2. QED
        BY <4>1
    <3>2. QED
      BY <1>2, <1>6, <2>4, <3>1
  <2>7. ASSUME NEW j \in 1..(n + 1), NEW i \in 1..(j - 1),
               NEW p \in list'.data[i], NEW r \in list'.data[j]
        PROVE  r < p
    <3>1. i \in 1..n /\ list'.data[i] = list.data[i]
      BY <2>3
    <3>2. CASE j \in 1..n
      <4>1. list'.data[j] = list.data[j] /\ j \in DOMAIN list.data
        BY <2>3, <3>2
      <4>2. QED
        BY <2>1, <2>7, <3>1, <4>1 DEF WalkInv, Descends
    <3>3. CASE j = n + 1
      <4>1. p \in Shown /\ r \in req[s].page
        BY <2>3, <2>7, <3>1, <3>3 DEF Shown
      <4>2. QED
        BY <2>5, <4>1
    <3>4. QED
      BY <2>3, <3>2, <3>3
  <2>8. Descends'
    BY <2>3, <2>6, <2>7 DEF Descends
  <2>9. Covered'
    <3>1. SUFFICES ASSUME ~astray, NEW r \in steady
                   PROVE  r \in Shown' \/ (list'.hasNext /\ r < list'.cursor)
      BY <1>1 DEF Covered
    <3>2. \A t \in Slots : ~Fresh(t)
      BY <2>1, <2>2 DEF WalkInv, Refreshes
    <3>3. r \in Shown \/ r < req[s].cursor
      BY <2>1, <2>2, <3>1, <3>2 DEF WalkInv, Covered
    <3>4. r < req[s].cursor => r \in req[s].page \/ (req[s].next # NoCursor /\ r < req[s].next)
      BY <1>6, <2>1, <3>1 DEF Ahead
    <3>5. QED
      BY <1>2, <2>4, <3>3, <3>4
  <2>10. ShowsLatestSearch'
    BY <1>1, <1>2, <2>1, <2>2 DEF WalkInv, ShowsLatestSearch
  <2>11. QED
    BY <2>8, <2>9, <2>10
<1>15. QED
  BY <1>13, <1>14

\* A request fails: what is shown stays.
LEMMA FailKeeps ==
    ASSUME TypeOK, WalkInv, NEW s \in Slots, Fail(s)
    PROVE  WalkInv'
<1>1. /\ req \in [Slots -> Request] /\ req[s].pc # "idle" /\ list \in List
      /\ req' = [req EXCEPT ![s] = Idle]
      /\ list'.data = list.data /\ list'.hasNext = list.hasNext
      /\ list'.cursor = list.cursor /\ list'.search = list.search
      /\ steady' = IF Fresh(s) THEN {} ELSE steady
      /\ UNCHANGED <<row, walk, late, astray>>
  BY DEF TypeOK, Fail, List, Fresh
<1>2. /\ req'[s] = Idle /\ \A t \in Slots \ {s} : req'[t] = req[t]
      /\ Idle.pc = "idle"
  BY <1>1 DEF Idle
<1>3. /\ ~Fresh(s)' /\ ~Further(s)' /\ req'[s].pc # "answered"
      /\ \A t \in Slots \ {s} : Fresh(t)' = Fresh(t) /\ Further(t)' = Further(t)
  BY <1>2 DEF Fresh, Further
<1>4. UNCHANGED Shown
  BY <1>1 DEF Shown
<1>5. \A t \in Slots \ {s} : Ahead(t) => Ahead(t)'
  BY <1>1, <1>2 DEF Ahead
<1>6. Refreshes'
  BY <1>1, <1>2, <1>3 DEF WalkInv, Refreshes
<1>7. Continues'
  BY <1>1, <1>2, <1>3 DEF WalkInv, Continues
<1>8. Answered'
  BY <1>1, <1>2, <1>3, <1>5 DEF WalkInv, Answered
<1>9. Descends'
  BY <1>1, <1>4 DEF WalkInv, Descends
<1>10. Covered'
  <2>1. CASE Fresh(s)
    BY <1>1, <2>1 DEF Covered
  <2>2. CASE ~Fresh(s)
    BY <1>1, <1>2, <1>3, <1>4, <2>2 DEF WalkInv, Covered
  <2>3. QED
    BY <2>1, <2>2
<1>11. QED
  BY <1>1, <1>6, <1>7, <1>8, <1>9, <1>10 DEF WalkInv, ShowsLatestSearch

\* The next page is asked for.
LEMMA LoadMoreKeeps ==
    ASSUME TypeOK, WalkInv, NEW s \in Slots, LoadMore(s)
    PROVE  WalkInv'
<1> DEFINE rec == Sent(FALSE, list.search, list.cursor)
<1>1. /\ req \in [Slots -> Request] /\ list \in List /\ list.hasNext /\ Shown # {}
      /\ req' = [req EXCEPT ![s] = rec] /\ list' = [list EXCEPT !.loading = TRUE]
      /\ UNCHANGED <<row, walk, steady, late, astray>> /\ req[s].pc = "idle"
  BY DEF TypeOK, LoadMore, history
<1>2. /\ rec.pc = "sent" /\ rec.refresh = FALSE /\ rec.search = list.search
      /\ rec.cursor = list.cursor
  BY DEF Sent, Idle
<1> HIDE DEF rec
<1>3. /\ list'.data = list.data /\ list'.hasNext = list.hasNext
      /\ list'.cursor = list.cursor /\ list'.search = list.search
  BY <1>1 DEF List
<1>4. req'[s] = rec /\ \A t \in Slots \ {s} : req'[t] = req[t]
  BY <1>1
<1>5. UNCHANGED Shown /\ list.data # <<>>
  BY <1>1, <1>3 DEF Shown
<1>6. /\ ~Fresh(s)' /\ ~Fresh(s) /\ req'[s].pc # "answered"
      /\ \A t \in Slots \ {s} : Fresh(t)' = Fresh(t) /\ Further(t)' = Further(t) /\ Ahead(t)' = Ahead(t)
  BY <1>1, <1>2, <1>4 DEF Fresh, Further, Ahead
<1>7. Refreshes'
  BY <1>1, <1>3, <1>4, <1>6 DEF WalkInv, Refreshes
<1>8. Continues'
  BY <1>1, <1>2, <1>3, <1>4, <1>5, <1>6 DEF WalkInv, Continues
<1>9. Answered'
  BY <1>1, <1>4, <1>6 DEF WalkInv, Answered
<1>10. Descends' /\ ShowsLatestSearch'
  BY <1>1, <1>3, <1>5 DEF WalkInv, Descends, ShowsLatestSearch
<1>11. Covered'
  BY <1>1, <1>3, <1>4, <1>5, <1>6 DEF WalkInv, Covered
<1>12. QED
  BY <1>1, <1>7, <1>8, <1>9, <1>10, <1>11 DEF WalkInv

\* The list is started again, whatever is under way: from now on it is old.
LEMMA RefreshKeeps ==
    ASSUME TypeOK, WalkInv, NEW s \in Slots, NEW search \in Searches, Refresh(s, search),
           list' \in List, list'.data = <<>>, search = list'.search \/ astray'
    PROVE  WalkInv'
<1> DEFINE rec == Sent(TRUE, search, NoCursor)
<1>1. /\ req \in [Slots -> Request] /\ req'[s] = rec
      /\ \A t \in Slots \ {s} : req'[t] = [req[t] EXCEPT !.old = (req[t].pc # "idle")]
      /\ steady' = {} /\ late' = FALSE /\ UNCHANGED <<row, walk>>
  BY DEF TypeOK, Refresh
<1>2. rec.pc = "sent" /\ rec.refresh = TRUE /\ rec.search = search /\ rec.cursor = NoCursor
  BY DEF Sent, Idle
<1> HIDE DEF rec
<1>3. ASSUME NEW t \in Slots \ {s}
      PROVE  /\ req'[t].pc = req[t].pc /\ req'[t].refresh = req[t].refresh
             /\ req'[t].cursor = req[t].cursor
             /\ req'[t].page = req[t].page /\ req'[t].next = req[t].next
             /\ req'[t].old = (req[t].pc # "idle")
  <2>1. req[t] \in Request
    BY <1>1
  <2>2. QED
    BY <1>1, <2>1 DEF Request
<1>4. \A t \in Slots : /\ Fresh(t)' => t = s
                       /\ ~Further(t)'
                       /\ req'[t].pc = "answered" => t # s /\ ~Fresh(t)'
  BY <1>1, <1>2, <1>3 DEF Fresh, Further
<1>5. Shown' = {}
  BY DEF Shown
<1>6. Refreshes' /\ Continues'
  BY <1>1, <1>2, <1>4 DEF Refreshes, Continues
<1>7. Answered'
  BY <1>3, <1>4 DEF WalkInv, Answered
<1>8. Descends' /\ Covered' /\ ShowsLatestSearch'
  BY <1>1, <1>5 DEF Descends, Covered, ShowsLatestSearch
<1>9. QED
  BY <1>1, <1>6, <1>7, <1>8 DEF WalkInv

\* A refresh of either kind: of a new search, or of the form's.
LEMMA RefreshTypes ==
    ASSUME TypeOK, NEW s \in Slots, NEW search \in Searches,
           ChangeSearch(s, search) \/ Created(s, search)
    PROVE  /\ TypeOK' /\ Refresh(s, search)
           /\ list'.data = <<>> /\ (search = list'.search \/ astray')
<1>1. /\ req \in [Slots -> Request] /\ list \in List /\ NoCursor \in 1..NoCursor
      /\ \A t \in Slots : Cardinality(req[t].page) <= Limit
  BY ListingAssumption DEF TypeOK, NoCursor
<1>2. Refresh(s, search)
  BY DEF ChangeSearch, Created
<1>3. <<>> \in Seq(SUBSET Rows)
  OBVIOUS
<1>4. /\ Refreshing \in List /\ Refreshing.data = <<>> /\ Refreshing.search = list.search
      /\ [Refreshing EXCEPT !.search = search] \in List
      /\ [Refreshing EXCEPT !.search = search].data = <<>>
      /\ [Refreshing EXCEPT !.search = search].search = search
  BY <1>1, <1>3 DEF Refreshing, List
<1>5. list' \in List /\ list'.data = <<>> /\ (search = list'.search \/ astray')
  BY <1>4 DEF ChangeSearch, Created
<1>6. Sent(TRUE, search, NoCursor) \in Request /\ Sent(TRUE, search, NoCursor).page = {}
  BY <1>1 DEF Sent, Idle, Request, Searches
<1>7. req' = [q \in Slots |-> IF q = s THEN Sent(TRUE, search, NoCursor)
                              ELSE [req[q] EXCEPT !.old = (req[q].pc # "idle")]]
  BY <1>2 DEF Refresh
<1>8. ASSUME NEW t \in Slots
      PROVE  req'[t] \in Request /\ Cardinality(req'[t].page) <= Limit
  <2>1. req[t] \in Request /\ Cardinality(req[t].page) <= Limit
    BY <1>1
  <2>2. /\ [req[t] EXCEPT !.old = (req[t].pc # "idle")] \in Request
        /\ [req[t] EXCEPT !.old = (req[t].pc # "idle")].page = req[t].page
    BY <2>1 DEF Request
  <2>3. Cardinality({}) <= Limit
    BY FS_EmptySet, ListingAssumption
  <2>4. QED
    BY <1>6, <1>7, <2>1, <2>2, <2>3
<1>9. req' \in [Slots -> Request]
  BY <1>7, <1>8
<1>10. forms' \subseteq Searches /\ astray' \in BOOLEAN
  BY DEF ChangeSearch, Created, TypeOK
<1>11. QED
  BY <1>2, <1>5, <1>8, <1>9, <1>10 DEF Refresh, TypeOK

\* Every step keeps the types.
LEMMA NextTypes == TypeOK /\ [Next]_vars => TypeOK'
<1> SUFFICES ASSUME TypeOK, [Next]_vars
             PROVE  TypeOK'
  OBVIOUS
<1>1. /\ req \in [Slots -> Request] /\ list \in List /\ NoCursor \in 1..NoCursor
      /\ \A s \in Slots : Cardinality(req[s].page) <= Limit
      /\ row \in [Rows -> {"absent", "named", "unnamed"}]
  BY ListingAssumption DEF TypeOK, NoCursor
<1>2. Idle \in Request /\ Cardinality(Idle.page) <= Limit
  BY <1>1, FS_EmptySet, ListingAssumption DEF Idle, Request, Searches
\* One request becomes another.
<1>3. ASSUME NEW s \in Slots, NEW rec \in Request, Cardinality(rec.page) <= Limit,
             req' = [req EXCEPT ![s] = rec]
      PROVE  req' \in [Slots -> Request] /\ \A t \in Slots : Cardinality(req'[t].page) <= Limit
  BY <1>1, <1>3
<1>4. ASSUME NEW r \in Rows, Insert(r) \/ SoftDelete(r) \/ Rename(r)
      PROVE  TypeOK'
  BY <1>1, <1>4 DEF Insert, SoftDelete, Rename, TypeOK, history
<1>5. ASSUME NEW s \in Slots, Answer(s)
      PROVE  TypeOK'
  BY <1>5, AnswerTypes
<1>6. ASSUME NEW s \in Slots, LoadMore(s)
      PROVE  TypeOK'
  <2>1. list.search \in Searches /\ list.cursor \in 1..NoCursor /\ list' \in List
    BY <1>1, <1>6 DEF LoadMore, List
  <2>2. /\ Sent(FALSE, list.search, list.cursor) \in Request
        /\ Cardinality(Sent(FALSE, list.search, list.cursor).page) <= Limit
    BY <1>2, <2>1 DEF Sent, Idle, Request
  <2>3. req' = [req EXCEPT ![s] = Sent(FALSE, list.search, list.cursor)]
    BY <1>6 DEF LoadMore
  <2>4. req' \in [Slots -> Request] /\ \A t \in Slots : Cardinality(req'[t].page) <= Limit
    BY <1>3, <2>2, <2>3
  <2>5. QED
    BY <1>6, <2>1, <2>4 DEF LoadMore, TypeOK, history
<1>7. ASSUME NEW s \in Slots, Show(s)
      PROVE  TypeOK'
  <2>1. req[s].page \in SUBSET Rows /\ req[s].next \in 1..NoCursor
        /\ req[s].refresh \in BOOLEAN /\ req[s].old \in BOOLEAN
    BY <1>1 DEF Request
  <2>2. /\ list.data \in Seq(SUBSET Rows)
        /\ <<req[s].page>> \in Seq(SUBSET Rows)
    BY <1>1, <2>1 DEF List
  <2>3. Append(list.data, req[s].page) \in Seq(SUBSET Rows)
    BY <2>1, <2>2
  <2>4. list' \in List
    BY <1>1, <1>7, <2>1, <2>2, <2>3 DEF Show, List
  <2>5. ASSUME NEW t \in Slots
        PROVE  /\ [req[t] EXCEPT !.old = @ \/ (req[t].pc # "idle" /\ ~req[t].refresh)] \in Request
               /\ [req[t] EXCEPT !.old = @ \/ (req[t].pc # "idle" /\ ~req[t].refresh)].page = req[t].page
    <3>1. req[t] \in Request
      BY <1>1
    <3>2. QED
      BY <3>1 DEF Request
  <2>6. req' \in [Slots -> Request] /\ \A t \in Slots : Cardinality(req'[t].page) <= Limit
    BY <1>1, <1>2, <1>7, <2>5 DEF Show
  <2>7. late' \in BOOLEAN
    BY <1>7, <2>1 DEF Show, TypeOK
  <2>8. QED
    BY <1>7, <2>4, <2>6, <2>7 DEF Show, TypeOK
<1>8. ASSUME NEW s \in Slots, Fail(s)
      PROVE  TypeOK'
  <2>1. list' \in List
    BY <1>1, <1>8 DEF Fail, List
  <2>2. req' \in [Slots -> Request] /\ \A t \in Slots : Cardinality(req'[t].page) <= Limit
    BY <1>2, <1>3, <1>8 DEF Fail
  <2>3. QED
    BY <1>8, <2>1, <2>2 DEF Fail, TypeOK
<1>9. ASSUME NEW s \in Slots, NEW search \in Searches, ChangeSearch(s, search) \/ Created(s, search)
      PROVE  TypeOK'
  BY <1>9, RefreshTypes
<1>10. CASE Submit
  BY <1>1, <1>10 DEF Submit, TypeOK, List, history
<1>11. ASSUME NEW search \in Searches, NotCreated(search)
       PROVE  TypeOK'
  BY <1>11 DEF NotCreated, TypeOK, history
<1>12. CASE UNCHANGED vars
  BY <1>12 DEF vars, TypeOK
<1>13. QED
  BY <1>4, <1>5, <1>6, <1>7, <1>8, <1>9, <1>10, <1>11, <1>12 DEF Next

\* Every step keeps the invariant.
LEMMA NextListingInv == ListingInv /\ [Next]_vars => ListingInv'
<1> SUFFICES ASSUME ListingInv, [Next]_vars
             PROVE  ListingInv'
  OBVIOUS
<1>1. TypeOK /\ WalkInv /\ TypeOK' /\ steady \subseteq Found(row, walk)
  BY NextTypes DEF ListingInv, WalkInv
<1>2. SUFFICES WalkInv'
  BY <1>1 DEF ListingInv
<1>3. ASSUME NEW r \in Rows, Insert(r)
      PROVE  WalkInv'
  <2>1. /\ UNCHANGED <<list, req, steady, walk, late, astray>> /\ row[r] = "absent"
        /\ \A q \in Rows \ {r} : row'[q] = row[q]
    BY <1>1, <1>3 DEF Insert, TypeOK, history
  <2>2. steady' \subseteq Found(row', walk)
    BY <1>1, <2>1 DEF Found
  <2>3. QED
    BY <1>1, <2>1, <2>2, RowsChange
<1>4. ASSUME NEW r \in Rows, SoftDelete(r)
      PROVE  WalkInv'
  <2>1. /\ steady' = steady \ {r} /\ UNCHANGED <<list, req, walk, late, astray>>
        /\ \A q \in Rows \ {r} : row'[q] = row[q]
    BY <1>1, <1>4 DEF SoftDelete, TypeOK
  <2>2. steady' \subseteq Found(row', walk)
    BY <1>1, <2>1 DEF Found
  <2>3. QED
    BY <1>1, <2>1, <2>2, RowsChange
<1>5. ASSUME NEW r \in Rows, Rename(r)
      PROVE  WalkInv'
  BY <1>1, <1>5, RowsChange DEF Rename
<1>6. ASSUME NEW s \in Slots, Answer(s)
      PROVE  WalkInv'
  BY <1>1, <1>6, AnswerKeeps
<1>7. ASSUME NEW s \in Slots, LoadMore(s)
      PROVE  WalkInv'
  BY <1>1, <1>7, LoadMoreKeeps
<1>8. ASSUME NEW s \in Slots, Show(s)
      PROVE  WalkInv'
  BY <1>1, <1>8, ShowKeeps
<1>9. ASSUME NEW s \in Slots, Fail(s)
      PROVE  WalkInv'
  BY <1>1, <1>9, FailKeeps
<1>10. ASSUME NEW s \in Slots, NEW search \in Searches, ChangeSearch(s, search) \/ Created(s, search)
       PROVE  WalkInv'
  <2>1. /\ Refresh(s, search) /\ list'.data = <<>> /\ (search = list'.search \/ astray')
        /\ list' \in List
    BY <1>1, <1>10, RefreshTypes DEF TypeOK
  <2>2. QED
    BY <1>1, <2>1, RefreshKeeps
<1>11. CASE Submit
  <2>1. UNCHANGED <<row, list, req, walk, steady, late, astray>>
    BY <1>11 DEF Submit, history
  <2>2. QED
    BY <1>1, <2>1, RowsChange
<1>12. ASSUME NEW search \in Searches, NotCreated(search)
       PROVE  WalkInv'
  <2>1. UNCHANGED <<row, list, req, walk, steady, late, astray>>
    BY <1>12 DEF NotCreated, history
  <2>2. QED
    BY <1>1, <2>1, RowsChange
<1>13. CASE UNCHANGED vars
  BY <1>1, <1>13, RowsChange DEF vars
<1>14. QED
  BY <1>3, <1>4, <1>5, <1>6, <1>7, <1>8, <1>9, <1>10, <1>11, <1>12, <1>13 DEF Next

\* Every state the list reaches satisfies the invariant.
LEMMA ListingInvariant == Spec => []ListingInv
<1>1. Init => ListingInv
  BY InitListingInv
<1>2. ListingInv /\ [Next]_vars => ListingInv'
  BY NextListingInv
<1>3. QED
  BY <1>1, <1>2, PTL DEF Spec

-----------------------------------------------------------------------------

\* Every variable keeps its type, and no page has more rows than the limit.
THEOREM ListingTypes == Spec => []TypeOK
<1>1. ListingInv => TypeOK
  BY DEF ListingInv
<1>2. QED
  BY <1>1, ListingInvariant, PTL

\* No row is shown twice and none out of order, whatever changes between two pages
\* and however the list's requests overlap, until an answer is shown that was asked
\* for before the list changed (use-pagination.ts does not tell such an answer).
THEOREM DescendingPages == Spec => []PagesDescend
<1>1. ListingInv => PagesDescend
  BY DEF ListingInv, WalkInv, Descends, PagesDescend
<1>2. QED
  BY <1>1, ListingInvariant, PTL

\* No row is skipped that was there from the first page to the last, again until
\* such an answer is shown or a form's refresh reads another search.
THEOREM CompleteWalks == Spec => []WalkIsComplete
<1>1. ListingInv => WalkIsComplete
  BY DEF ListingInv, WalkInv, WalkIsComplete, Covered, Quiet
<1>2. QED
  BY <1>1, ListingInvariant, PTL

\* The rows shown are those of the search in the box: nothing but an answer asked
\* for before the list changed, or the onSuccess of a form that was submitted under
\* another search, can bring in those of another.
THEOREM LatestSearchShown == Spec => []ShowsLatestSearch
<1>1. ListingInv => ShowsLatestSearch
  BY DEF ListingInv, WalkInv
<1>2. QED
  BY <1>1, ListingInvariant, PTL
===============================================================================
