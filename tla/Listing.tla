-------------------------------- MODULE Listing --------------------------------
(***************************************************************************)
(* Lists that are shown page by page: keyset pagination in the database    *)
(* (backend/app/infrastructure/repositories/{base,event}.py) and the list  *)
(* that shows its pages (frontend/src/hooks/use-pagination.ts, with the    *)
(* search of features/customers/customer-list.tsx).                        *)
(*                                                                         *)
(* A row is its place in the order of (created_at, id), or (occurred_at,   *)
(* id) for events; the order shown is descending.  created_at is when the  *)
(* inserting transaction began, and occurred_at is anything, so that a new *)
(* row can appear anywhere in the order while a list is being shown.       *)
(***************************************************************************)
EXTENDS Integers, Sequences, FiniteSets

CONSTANTS MaxRows,  \* bound: places in the order
          Limit,    \* rows of a page
          Slots     \* bound: requests of the list under way at a time

ASSUME ListingAssumption ==
    /\ MaxRows \in Nat
    /\ Limit \in Nat \ {0}

Rows == 1..MaxRows

\* No cursor: every row is before it.
NoCursor == MaxRows + 1

Searches == {"all", "named"}

VARIABLES row,    \* row[r]: no live row, or one whose name is searched for or not
          list,   \* the state of the list
          req,    \* req[s]: a request of the list
          forms,  \* the searches under which forms were submitted that are not answered
          walk,   \* the search whose rows are shown
          steady, \* rows that were there for that search ever since its first page
          late,   \* an answer is shown that was asked for before the list changed
          astray  \* the last refresh was that of a form submitted under another search

vars == <<row, list, req, forms, walk, steady, late, astray>>

\* What the properties say of the list's history.
history == <<walk, steady, late, astray>>

List == [data    : Seq(SUBSET Rows),   \* the pages shown
         hasNext : BOOLEAN,
         cursor  : 1..NoCursor,        \* nextCursor
         loading : BOOLEAN,            \* isLoading
         search  : Searches]           \* debouncedSearch

Request == [pc      : {"idle", "sent", "answered"},
            refresh : BOOLEAN,
            old     : BOOLEAN,         \* the list has changed since it was sent
            search  : Searches,
            cursor  : 1..NoCursor,
            page    : SUBSET Rows,     \* the answer: data
            next    : 1..NoCursor]     \* pagination.next_cursor: NoCursor unless has_next

TypeOK ==
    /\ row \in [Rows -> {"absent", "named", "unnamed"}]
    /\ list \in List
    /\ req \in [Slots -> Request]
    /\ forms \subseteq Searches
    /\ walk \in Searches
    /\ steady \subseteq Rows
    /\ late \in BOOLEAN
    /\ astray \in BOOLEAN
    /\ \A s \in Slots : Cardinality(req[s].page) <= Limit

\* The soft-delete filter and the search.
Found(rows, search) ==
    {r \in Rows : rows[r] \in IF search = "all" THEN {"named", "unnamed"} ELSE {"named"}}

Idle == [pc |-> "idle", refresh |-> FALSE, old |-> FALSE, search |-> "all", cursor |-> NoCursor,
         page |-> {}, next |-> NoCursor]

Sent(refresh, search, cursor) ==
    [Idle EXCEPT !.pc = "sent", !.refresh = refresh, !.search = search, !.cursor = cursor]

\* customer-list.tsx refreshes the list when it is mounted.
Init ==
    /\ row \in [Rows -> {"absent", "named", "unnamed"}]
    /\ list = [data |-> <<>>, hasNext |-> FALSE, cursor |-> NoCursor, loading |-> TRUE, search |-> "all"]
    /\ \E s \in Slots : req = [q \in Slots |-> IF q = s THEN Sent(TRUE, "all", NoCursor) ELSE Idle]
    /\ forms = {}
    /\ walk = "all"
    /\ steady = {}
    /\ late = FALSE
    /\ astray = FALSE

Quiet == \A s \in Slots : req[s].pc = "idle"

-----------------------------------------------------------------------------
(* _paginate and _paginate_by_occurred_at *)

\* Variant: the seek takes the cursor's row again.
SeekFrom(T, cursor) == {r \in T : r <= cursor}

\* WHERE (created_at, id) < (cursor_ts, cursor_id).
Seek(T, cursor) == {r \in T : r < cursor}

\* Variant: the row fetched to see whether there are more is not cut off.
PageAndOne(T) == {r \in T : Cardinality({q \in T : q > r}) <= Limit}

\* ORDER BY ... DESC LIMIT: at most Limit rows, from the first.
Page(T) == {r \in T : Cardinality({q \in T : q > r}) < Limit}

\* Variant: the cursor is taken from the row fetched to see whether there are more.
LastFetched(T) == CHOOSE r \in PageAndOne(T) : \A q \in PageAndOne(T) : r <= q

\* The last row of the page.
Last(T) == CHOOSE r \in Page(T) : \A q \in Page(T) : r <= q

\* The request is read; its first page begins a walk through the list.
Answer(s) ==
    LET T == Seek(Found(row, req[s].search), req[s].cursor)
        more == Page(T) # T
    IN  /\ req[s].pc = "sent"
        /\ req' = [req EXCEPT ![s].pc = "answered", ![s].page = Page(T),
                              ![s].next = IF more THEN Last(T) ELSE NoCursor]
        /\ IF req[s].refresh /\ ~req[s].old
             THEN steady' = T /\ walk' = req[s].search
             ELSE UNCHANGED <<steady, walk>>
        /\ UNCHANGED <<row, list, forms, late, astray>>

-----------------------------------------------------------------------------
(* Other transactions, as they commit *)

Insert(r) ==
    /\ row[r] = "absent"
    /\ \E name \in {"named", "unnamed"} : row' = [row EXCEPT ![r] = name]
    /\ UNCHANGED <<list, req, forms, history>>

\* Another row may take its place later.
SoftDelete(r) ==
    /\ row[r] \in {"named", "unnamed"}
    /\ row' = [row EXCEPT ![r] = "absent"]
    /\ steady' = steady \ {r}
    /\ UNCHANGED <<list, req, forms, walk, late, astray>>

\* A customer's company_name is changed.
Rename(r) ==
    /\ row[r] \in {"named", "unnamed"}
    /\ row' = [row EXCEPT ![r] = IF @ = "named" THEN "unnamed" ELSE "named"]
    /\ steady' = steady \intersect Found(row', walk)
    /\ UNCHANGED <<list, req, forms, walk, late, astray>>

-----------------------------------------------------------------------------
(* usePagination *)

\* refresh, up to its await: the pages shown and those under way are of the past.
Refresh(s, search) ==
    /\ req[s].pc = "idle"
    /\ req' = [q \in Slots |-> IF q = s THEN Sent(TRUE, search, NoCursor)
                              ELSE [req[q] EXCEPT !.old = (req[q].pc # "idle")]]
    /\ steady' = {}
    /\ late' = FALSE
    /\ UNCHANGED <<row, walk>>

Refreshing == [list EXCEPT !.data = <<>>, !.cursor = NoCursor, !.loading = TRUE]

\* Variant: refresh still holds the search it was made for (use-pagination.ts:51).
StaleRefresh(s, search) ==
    /\ search # list.search
    /\ Refresh(s, list.search)
    /\ list' = [Refreshing EXCEPT !.search = search]
    /\ astray' = FALSE
    /\ UNCHANGED forms

\* The effect of customer-list.tsx on debouncedSearch.
ChangeSearch(s, search) ==
    /\ search # list.search
    /\ Refresh(s, search)
    /\ list' = [Refreshing EXCEPT !.search = search]
    /\ astray' = FALSE
    /\ UNCHANGED forms

\* customer-form.tsx is submitted.  It holds the onSuccess it was given, whose
\* refresh holds the search of then; nothing keeps the user from closing the form
\* and searching for something else.
Submit ==
    /\ forms' = forms \union {list.search}
    /\ UNCHANGED <<row, list, req, history>>

\* The customer was created: onSuccess.
Created(s, search) ==
    /\ search \in forms
    /\ Refresh(s, search)
    /\ list' = Refreshing
    /\ forms' = forms \ {search}
    /\ astray' = (search # list.search)

NotCreated(search) ==
    /\ search \in forms
    /\ forms' = forms \ {search}
    /\ UNCHANGED <<row, list, req, history>>

Shown == UNION {list.data[i] : i \in DOMAIN list.data}

\* loadMore, up to its await; "Load More" is there below rows with a next page.
LoadMore(s) ==
    /\ Shown # {}
    /\ ~list.loading
    /\ list.hasNext
    /\ req[s].pc = "idle"
    /\ req' = [req EXCEPT ![s] = Sent(FALSE, list.search, list.cursor)]
    /\ list' = [list EXCEPT !.loading = TRUE]
    /\ UNCHANGED <<row, forms, history>>

\* refresh and loadMore, after their await.
Show(s) ==
    /\ req[s].pc = "answered"
    /\ list' = [list EXCEPT !.data = IF req[s].refresh THEN <<req[s].page>> ELSE Append(@, req[s].page),
                            !.hasNext = req[s].next # NoCursor, !.cursor = req[s].next, !.loading = FALSE]
    /\ req' = [q \in Slots |-> IF q = s THEN Idle
                              ELSE [req[q] EXCEPT !.old = @ \/ (req[q].pc # "idle" /\ ~req[q].refresh)]]
    /\ late' = (req[s].old \/ (late /\ ~req[s].refresh))
    /\ UNCHANGED <<row, forms, walk, steady, astray>>

\* The request fails: what is shown stays, with its hasNext.  Without its first
\* page a list looks as if there were nothing to show.
Fail(s) ==
    /\ req[s].pc # "idle"
    /\ list' = [list EXCEPT !.loading = FALSE]
    /\ req' = [req EXCEPT ![s] = Idle]
    /\ steady' = IF req[s].refresh /\ ~req[s].old THEN {} ELSE steady
    /\ UNCHANGED <<row, forms, walk, late, astray>>

-----------------------------------------------------------------------------

Next ==
    \/ \E r \in Rows : Insert(r) \/ SoftDelete(r) \/ Rename(r)
    \/ \E s \in Slots : Answer(s) \/ LoadMore(s) \/ Show(s) \/ Fail(s)
    \/ \E s \in Slots, search \in Searches : ChangeSearch(s, search) \/ Created(s, search)
    \/ Submit
    \/ \E search \in Searches : NotCreated(search)

Spec == Init /\ [][Next]_vars

-----------------------------------------------------------------------------

\* Every page lies below the pages before it, whatever was inserted, deleted or
\* renamed between them and however requests overlapped, until an answer is shown
\* that was asked for before the list changed: no row is shown twice, none out of order.
PagesDescend ==
    ~late => \A j \in DOMAIN list.data : \A i \in 1..(j - 1) :
                \A p \in list.data[i], r \in list.data[j] : r < p

\* When the list says that there is no more, every row that was there for its
\* search since its first page was read is shown.
WalkIsComplete ==
    (~late /\ ~astray /\ Quiet /\ ~list.hasNext) => steady \subseteq Shown

\* What is shown was found by the search in the search box.  It takes one of two
\* things to be otherwise: an answer that comes after that of a later refresh, or
\* a form that was submitted under another search.
ShowsLatestSearch ==
    (~late /\ ~astray /\ list.data # <<>>) => walk = list.search
=============================================================================
