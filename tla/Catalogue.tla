------------------------------- MODULE Catalogue -------------------------------
(***************************************************************************)
(* Rows that have a unique name and are deleted softly: sources, metric    *)
(* definitions, roles and, by their e-mail address, users                  *)
(* (backend/app/application/services/{source,metric,role,user}.py on       *)
(* backend/app/infrastructure/repositories/base.py).  Customers are        *)
(* updated and deleted in the same way.                                    *)
(*                                                                         *)
(* A service looks for the name among the rows that are not deleted; the   *)
(* index covers all.  Requests run concurrently, each in a transaction     *)
(* that is READ COMMITTED: a statement sees what is committed when it      *)
(* begins.  Only sources are renamed.  A deadlock, which PostgreSQL breaks *)
(* and Fail stands for, needs four requests that rename.                   *)
(***************************************************************************)
EXTENDS Integers

CONSTANTS Names,     \* names, or e-mail addresses
          Requests,  \* bound: requests
          MaxRows    \* bound: rows, deleted ones too

ASSUME CatalogueAssumption == MaxRows \in Nat \ {0}

Rows == 1..MaxRows

VARIABLES row,  \* row[r]: the committed row
          req   \* req[q]: a request and its transaction

vars == <<row, req>>

Row == [state : {"none", "live", "deleted"}, name : Names]

\* pc: where the request is; its last values are the answers 2xx, 409, 404, 500.
Request == [pc    : {"idle", "read", "checked", "written", "done", "conflict", "missing", "error"},
            op    : {"create", "update", "delete"},
            target : Rows,
            copy  : Row,        \* the row as it was read, or as it is created
            name  : Names,      \* the name the row is to have
            late  : BOOLEAN]    \* another got the name after this one had looked for it

TypeOK ==
    /\ row \in [Rows -> Row]
    /\ req \in [Requests -> Request]

Init ==
    /\ row \in [Rows -> Row]
    /\ \A r, s \in Rows : r < s /\ row[s].state # "none" =>
          row[r].state # "none" /\ row[r].name # row[s].name
    /\ \E n \in Names : req = [q \in Requests |->
          [pc |-> "idle", op |-> "update", target |-> 1, copy |-> [state |-> "none", name |-> n],
           name |-> n, late |-> FALSE]]

Having(n) == {r \in Rows : row[r].state # "none" /\ row[r].name = n}

Live(n) == {r \in Having(n) : row[r].state = "live"}

\* A row of this transaction that is not committed.
Writing(q) == req[q].pc = "written"

-----------------------------------------------------------------------------
(* The services, up to their flush *)

\* Variant: the name is not looked for.
RefusedNever(n) == FALSE

\* get_by_name, name_exists, email_exists.
Refused(n) == Live(n) # {}

\* A row nobody has.
Fresh(r) == row[r].state = "none" /\ \A q \in Requests : req[q].pc \in {"idle", "missing"} \/ req[q].target # r

\* create_source, create_metric_definition, create_role, create_user.
Create(q, n) ==
    \E r \in Rows :
       /\ req[q].pc = "idle"
       /\ Fresh(r)
       /\ \A s \in 1..(r - 1) : ~Fresh(s)
       /\ req' = [req EXCEPT ![q] = [pc |-> IF Refused(n) THEN "conflict" ELSE "checked", op |-> "create",
                                     target |-> r, copy |-> [state |-> "live", name |-> n],
                                     name |-> n, late |-> FALSE]]
       /\ UNCHANGED row

\* get_by_id: the row an update or a deletion is of.
Read(q, op, r) ==
    /\ req[q].pc = "idle"
    /\ row[r].state # "none"
    /\ req' = [req EXCEPT ![q] = [pc |-> IF row[r].state = "live" THEN "read" ELSE "missing", op |-> op,
                                  target |-> r, copy |-> row[r], name |-> row[r].name, late |-> FALSE]]
    /\ UNCHANGED row

\* update_source with a new name, and the updates that leave the name alone.
Update(q, n) ==
    /\ req[q].pc = "read"
    /\ req[q].op = "update"
    /\ req' = [req EXCEPT ![q].pc = IF n # req[q].copy.name /\ Refused(n) THEN "conflict" ELSE "checked",
                          ![q].name = n]
    /\ UNCHANGED row

\* soft_delete reads the row again, and returns if it has been deleted since.
ReadAgain(q) ==
    /\ req[q].pc = "read"
    /\ req[q].op = "delete"
    /\ req' = [req EXCEPT ![q].pc = IF row[req[q].target].state = "live" THEN "checked" ELSE "done"]
    /\ UNCHANGED row

-----------------------------------------------------------------------------
(* The flush and the commit *)

Renames(q) == req[q].op = "update" /\ req[q].name # req[q].copy.name

NamesIt(q) == req[q].op = "create" \/ Renames(q)

\* The statement waits for a transaction that wrote the same row, and, where it
\* enters a name in the index, for one that wrote a row with that name, before or
\* after.
MayWrite(q) ==
    \A p \in Requests \ {q} : Writing(p) =>
       /\ req[p].target # req[q].target
       /\ NamesIt(q) => req[q].name \notin {req[p].name, row[req[p].target].name}

\* Variant: the column is not unique.
TakenNever(q) == FALSE

\* unique=True: the index knows the rows that are deleted, too.
Taken(q) == NamesIt(q) /\ Having(req[q].name) \ {req[q].target} # {}

Write(q) ==
    /\ req[q].pc = "checked"
    /\ MayWrite(q)
    /\ ~Taken(q)
    /\ req' = [req EXCEPT ![q].pc = "written"]
    /\ UNCHANGED row

\* The index refuses the name: IntegrityError, which no handler expects.
Collide(q) ==
    /\ req[q].pc = "checked"
    /\ MayWrite(q)
    /\ Taken(q)
    /\ req' = [req EXCEPT ![q].pc = "error"]
    /\ UNCHANGED row

\* Variant: an UPDATE writes every column of the row as it was read.
WholeRow(q) ==
    CASE req[q].op = "delete" -> [req[q].copy EXCEPT !.state = "deleted"]
      [] OTHER                -> [req[q].copy EXCEPT !.name = req[q].name]

\* An UPDATE writes the columns that the request changed.
Written(q) ==
    CASE req[q].op = "create" -> req[q].copy
      [] req[q].op = "delete" -> [row[req[q].target] EXCEPT !.state = "deleted"]
      [] Renames(q)           -> [row[req[q].target] EXCEPT !.name = req[q].name]
      [] OTHER                -> row[req[q].target]

\* get_session, after the handler.
Commit(q) ==
    /\ Writing(q)
    /\ row' = [row EXCEPT ![req[q].target] = Written(q)]
    /\ req' = [p \in Requests |->
         IF p = q THEN [req[q] EXCEPT !.pc = "done"]
         ELSE [req[p] EXCEPT !.late = @ \/ (req[p].pc = "checked" /\ NamesIt(q) /\ req[q].name = req[p].name)]]

\* Anything else fails, and the session rolls back.
Fail(q) ==
    /\ req[q].pc \in {"read", "checked", "written"}
    /\ req' = [req EXCEPT ![q].pc = "error"]
    /\ UNCHANGED row

Next ==
    \E q \in Requests :
       \/ \E n \in Names : Create(q, n) \/ Update(q, n)
       \/ \E r \in Rows, op \in {"update", "delete"} : Read(q, op, r)
       \/ ReadAgain(q) \/ Write(q) \/ Collide(q) \/ Commit(q) \/ Fail(q)

Spec == Init /\ [][Next]_vars

-----------------------------------------------------------------------------

\* Whatever overlaps, no two rows have the same name: get_by_name never finds two,
\* where scalar_one_or_none would raise.
NamesAreUnique ==
    \A r, s \in Rows : r # s /\ row[r].state # "none" /\ row[s].state # "none" => row[r].name # row[s].name

\* A name that is taken is refused with 409.  The index refuses it, with 500, only
\* when the row that has it was deleted, or got it after this request had looked.
CollisionsHaveCause ==
    [][\A q \in Requests :
         Collide(q) => req[q].late \/ \E r \in Having(req[q].name) : row[r].state = "deleted"]_vars

\* A row that was deleted stays deleted, also when an update read it before and is
\* written after: an administrator's deletion is not undone by a colleague's edit.
DeletedStaysDeleted ==
    [][\A r \in Rows : row[r].state = "deleted" => row'[r].state = "deleted"]_vars
=============================================================================
