----------------------------- MODULE SourceTokens -----------------------------
(***************************************************************************)
(* The token of one data source: POST /hooks/ingest validates it against   *)
(* Redis first and the sources table on a miss                             *)
(* (backend/app/application/services/ingestion.py), while administrators   *)
(* activate, deactivate or delete the source and invalidate the cached     *)
(* entry (backend/app/application/services/source.py).                     *)
(*                                                                         *)
(* Every await of the code is a point where the requests interleave.  Time *)
(* passes in units; Redis expires the entry TTL units after it was set.    *)
(***************************************************************************)
EXTENDS Integers

CONSTANTS Ingests,   \* slots for concurrent ingestion requests of the source
          Admins,    \* slots for concurrent administrators' requests
          TTL,       \* lifetime of a cache entry (300 s in the code)
          MaxStall,  \* no ingestion request lasts longer
          MaxTime    \* bound of the model: the clock stops there

ASSUME TokenAssumption ==
    /\ TTL \in Nat
    /\ MaxStall \in Nat
    /\ MaxTime \in Nat

VARIABLES now,        \* the time
          row,        \* the committed row of the source
          cache,      \* the Redis entry of its token hash
          ingest,     \* ingest[r]: an ingestion request
          admin,      \* admin[a]: an administrator's request
          changedAt,  \* when the row last became usable or unusable
          overlapped  \* whether the entry was set during or across a change

vars == <<now, row, cache, ingest, admin, changedAt, overlapped>>

Row == [active : BOOLEAN, deleted : BOOLEAN]

Miss == [present |-> FALSE, active |-> FALSE, expires |-> 0]

CacheEntry == [present : BOOLEAN, active : BOOLEAN, expires : Nat]

Ended == {"accepted", "rejected", "failed"}

Pending == {"lookup", "query", "fill", "decide"}

IngestState == [pc : Ended \union Pending, since : Nat, active : BOOLEAN, late : BOOLEAN]

Idle == [pc |-> "idle", want |-> "active", changes |-> FALSE]

AdminState == [pc : {"idle", "read", "invalidated"},
               want : {"active", "inactive", "deleted"},
               changes : BOOLEAN]

TypeOK ==
    /\ now \in Nat
    /\ row \in Row
    /\ cache \in CacheEntry
    /\ ingest \in [Ingests -> IngestState]
    /\ admin \in [Admins -> AdminState]
    /\ changedAt \in Nat
    /\ overlapped \in BOOLEAN

\* What the table says of the token.
Usable == row.active /\ ~row.deleted

Init ==
    /\ now = 0
    /\ row = [active |-> TRUE, deleted |-> FALSE]
    /\ cache = Miss
    /\ ingest = [r \in Ingests |->
                   [pc |-> "failed", since |-> 0, active |-> FALSE, late |-> FALSE]]
    /\ admin = [a \in Admins |-> Idle]
    /\ changedAt = 0
    /\ overlapped = FALSE

\* A request is answered, or dropped by its client or a proxy, in time.
Tick ==
    /\ now < MaxTime
    /\ \A r \in Ingests : ingest[r].pc \in Pending => now < ingest[r].since + MaxStall
    /\ now' = now + 1
    /\ UNCHANGED <<row, cache, ingest, admin, changedAt, overlapped>>

-----------------------------------------------------------------------------
(* validate_and_publish *)

Live == cache.present /\ now < cache.expires

\* A request that is over keeps its outcome only.
End(r, outcome) ==
    ingest' = [ingest EXCEPT ![r] =
                 [pc |-> outcome, since |-> 0, active |-> FALSE,
                  late |-> ingest[r].late /\ outcome = "accepted"]]

StartIngest(r) ==
    /\ ingest[r].pc \in Ended
    /\ ingest' = [ingest EXCEPT ![r] =
                    [pc |-> "lookup", since |-> now, active |-> FALSE, late |-> ~Usable]]
    /\ UNCHANGED <<now, row, cache, admin, changedAt, overlapped>>

CacheHit(r) ==
    /\ ingest[r].pc = "lookup"
    /\ Live
    /\ ingest' = [ingest EXCEPT ![r].pc = "decide", ![r].active = cache.active]
    /\ UNCHANGED <<now, row, cache, admin, changedAt, overlapped>>

CacheMiss(r) ==
    /\ ingest[r].pc = "lookup"
    /\ ~Live
    /\ ingest' = [ingest EXCEPT ![r].pc = "query"]
    /\ UNCHANGED <<now, row, cache, admin, changedAt, overlapped>>

\* A deleted source is not found, and that is not cached.
QueryRow(r) ==
    /\ ingest[r].pc = "query"
    /\ IF row.deleted
         THEN End(r, "rejected")
         ELSE ingest' = [ingest EXCEPT ![r].pc = "fill", ![r].active = row.active]
    /\ UNCHANGED <<now, row, cache, admin, changedAt, overlapped>>

\* Variant: the entry is set without a lifetime.
FillCacheForever(r) ==
    /\ ingest[r].pc = "fill"
    /\ cache' = [present |-> TRUE, active |-> ingest[r].active, expires |-> MaxTime + 1]
    /\ overlapped' = (\/ ingest[r].active # Usable
                      \/ \E a \in Admins : admin[a].pc = "invalidated")
    /\ ingest' = [ingest EXCEPT ![r].pc = "decide"]
    /\ UNCHANGED <<now, row, admin, changedAt>>

\* Variant: a lifetime counted from the start of the clock.
FillCacheRemaining(r) ==
    /\ ingest[r].pc = "fill"
    /\ cache' = [present |-> TRUE, active |-> ingest[r].active, expires |-> TTL - now]
    /\ overlapped' = (\/ ingest[r].active # Usable
                      \/ \E a \in Admins : admin[a].pc = "invalidated")
    /\ ingest' = [ingest EXCEPT ![r].pc = "decide"]
    /\ UNCHANGED <<now, row, admin, changedAt>>

\* Whatever the query saw is cached, an inactive source as well.
FillCache(r) ==
    /\ ingest[r].pc = "fill"
    /\ cache' = [present |-> TRUE, active |-> ingest[r].active, expires |-> now + TTL]
    /\ overlapped' = (\/ ingest[r].active # Usable
                      \/ \E a \in Admins : admin[a].pc = "invalidated")
    /\ ingest' = [ingest EXCEPT ![r].pc = "decide"]
    /\ UNCHANGED <<now, row, admin, changedAt>>

\* An active source's event is published, any other is answered with 401.
Decide(r) ==
    /\ ingest[r].pc = "decide"
    /\ End(r, IF ingest[r].active THEN "accepted" ELSE "rejected")
    /\ UNCHANGED <<now, row, cache, admin, changedAt, overlapped>>

\* Redis, the database or the broker fails, or the client gives up.
FailIngest(r) ==
    /\ ingest[r].pc \in Pending
    /\ End(r, "failed")
    /\ UNCHANGED <<now, row, cache, admin, changedAt, overlapped>>

-----------------------------------------------------------------------------
(* update_source and delete_source *)

ReadSource(a) ==
    /\ admin[a].pc = "idle"
    /\ ~row.deleted
    /\ \E want \in {"active", "inactive", "deleted"} :
         admin' = [admin EXCEPT ![a] =
                     [pc |-> "read", want |-> want,
                      changes |-> want = "deleted" \/ row.active # (want = "active")]]
    /\ UNCHANGED <<now, row, cache, ingest, changedAt, overlapped>>

\* Variant: only a deletion invalidates.
InvalidateDeleted(a) ==
    /\ admin[a].pc = "read"
    /\ admin' = [admin EXCEPT ![a].pc = "invalidated"]
    /\ cache' = IF admin[a].want = "deleted" THEN Miss ELSE cache
    /\ overlapped' = (overlapped /\ admin[a].want # "deleted")
    /\ UNCHANGED <<now, row, ingest, changedAt>>

\* The cache is invalidated while the change is not committed, not even flushed.
Invalidate(a) ==
    /\ admin[a].pc = "read"
    /\ admin' = [admin EXCEPT ![a].pc = "invalidated"]
    /\ cache' = IF admin[a].changes THEN Miss ELSE cache
    /\ overlapped' = (overlapped /\ ~admin[a].changes)
    /\ UNCHANGED <<now, row, ingest, changedAt>>

\* The UPDATE names the columns that changed since the row was read.
Written(a) ==
    IF ~admin[a].changes THEN row
    ELSE IF admin[a].want = "deleted" THEN [row EXCEPT !.deleted = TRUE]
    ELSE [row EXCEPT !.active = (admin[a].want = "active")]

CommitSource(a) ==
    /\ admin[a].pc = "invalidated"
    /\ admin' = [admin EXCEPT ![a] = Idle]
    /\ row' = Written(a)
    /\ changedAt' = IF Usable' # Usable THEN now ELSE changedAt
    /\ ingest' = [r \in Ingests |-> [ingest[r] EXCEPT !.late = @ /\ ~Usable']]
    /\ UNCHANGED <<now, cache, overlapped>>

\* The request fails and its transaction is rolled back.
FailAdmin(a) ==
    /\ admin[a].pc # "idle"
    /\ admin' = [admin EXCEPT ![a] = Idle]
    /\ UNCHANGED <<now, row, cache, ingest, changedAt, overlapped>>

-----------------------------------------------------------------------------

Next ==
    \/ Tick
    \/ \E r \in Ingests :
         \/ StartIngest(r)
         \/ CacheHit(r)
         \/ CacheMiss(r)
         \/ QueryRow(r)
         \/ FillCache(r)
         \/ Decide(r)
         \/ FailIngest(r)
    \/ \E a \in Admins :
         ReadSource(a) \/ Invalidate(a) \/ CommitSource(a) \/ FailAdmin(a)

Spec == Init /\ [][Next]_vars

-----------------------------------------------------------------------------
(* Properties *)

\* How long a decision may disagree with the table: an entry read before a
\* change and set after it lives for TTL, and both requests may stall.
StaleWindow == TTL + 2 * MaxStall

\* A request is decided against the committed row at most StaleWindow after the
\* row changed: neither a revoked token nor a reactivated one is treated wrongly
\* for longer (ingestion.py:52-80: the entry expires and is never refreshed by a
\* hit).
DecidedInTime ==
    [][\A r \in Ingests :
         /\ ingest[r].pc = "decide"
         /\ ingest'[r].pc = (IF Usable THEN "rejected" ELSE "accepted")
         => now <= changedAt + StaleWindow]_vars

\* The cache contradicts the table only if some request filled it between an
\* invalidation and its commit, or filled it with what it had read before a
\* change: the invalidation covers every other order of the steps
\* (source.py:151-157, 184-188).
ContradictionNeedsOverlap ==
    /\ Live
    /\ cache.active # Usable
    /\ \A a \in Admins : admin[a].pc # "invalidated"
    => overlapped

-----------------------------------------------------------------------------
(* What the repository says of revocation and the code does not do *)

\* ARCHITECTURE.md:778: "To disconnect: set is_active = false on the source row
\* (and invalidate the Redis cache key). All future requests are rejected
\* immediately".
RejectedImmediately ==
    \A r \in Ingests : ingest[r].pc = "accepted" => ~ingest[r].late

===============================================================================
