------------------------- MODULE SourceTokens_proofs -------------------------
(***************************************************************************)
(* Proofs about SourceTokens, for any number of requests and any lifetimes *)
(* and stalls.                                                             *)
(***************************************************************************)
EXTENDS SourceTokens, TLAPS

-----------------------------------------------------------------------------
(* The inductive invariant *)

\* No request outlasts its stall, and no change lies in the future.
ClockInv ==
    /\ changedAt <= now
    /\ \A r \in Ingests : ingest[r].pc \in Pending =>
         /\ ingest[r].since <= now
         /\ now <= ingest[r].since + MaxStall

\* An entry lives for TTL; one that contradicts the table was read before the
\* last change, by a request that set it at most MaxStall later.
CacheInv ==
    cache.present =>
        /\ cache.expires <= now + TTL
        /\ cache.active # Usable => cache.expires <= changedAt + MaxStall + TTL

\* So does what a request carries: from the table if it missed, from the entry
\* if it hit.
CarriedInv ==
    \A r \in Ingests : ingest[r].active # Usable =>
        /\ ingest[r].pc = "fill" => ingest[r].since <= changedAt
        /\ ingest[r].pc = "decide" => ingest[r].since <= changedAt + MaxStall + TTL

TokenInv == TypeOK /\ ClockInv /\ CacheInv /\ CarriedInv

\* All requests are over, the source is active and nothing is cached.
LEMMA InitTokenInv == Init => TokenInv
<1> SUFFICES ASSUME Init
             PROVE  TokenInv
  OBVIOUS
<1>1. TypeOK
  BY DEF Init, TypeOK, Row, Miss, CacheEntry, IngestState, AdminState, Ended, Idle
<1>2. \A r \in Ingests : ingest[r].pc = "failed"
  BY DEF Init
<1>3. ClockInv
  BY <1>2 DEF Init, ClockInv, Pending
<1>4. CacheInv /\ CarriedInv
  BY <1>2 DEF Init, CacheInv, CarriedInv, Miss
<1>5. QED
  BY <1>1, <1>3, <1>4 DEF TokenInv

\* Time passes only while every pending request has time left.
LEMMA TickTokenInv ==
    ASSUME TokenInv, Tick
    PROVE  TokenInv'
<1> USE TokenAssumption DEF TokenInv
<1>1. TypeOK'
  BY DEF Tick, TypeOK
<1>2. ClockInv'
  BY DEF Tick, TypeOK, ClockInv, IngestState
<1>3. CacheInv'
  BY DEF Tick, TypeOK, CacheInv, CacheEntry, Usable
<1>4. CarriedInv'
  BY DEF Tick, CarriedInv, Usable
<1>5. QED
  BY <1>1, <1>2, <1>3, <1>4

\* A request that ends, or that moves on without reading anything, adds nothing.
LEMMA EndTokenInv ==
    ASSUME TokenInv, NEW r \in Ingests, NEW outcome \in Ended, End(r, outcome),
           UNCHANGED <<now, row, cache, admin, changedAt, overlapped>>
    PROVE  TokenInv'
<1> USE TokenAssumption DEF TokenInv
<1>1. TypeOK'
  BY DEF End, TypeOK, IngestState, Ended
<1>2. \A s \in Ingests : s # r => ingest'[s] = ingest[s]
  BY DEF End, TypeOK
<1>3. ingest'[r].pc = outcome
  BY DEF End, TypeOK
<1>4. ClockInv'
  BY <1>2, <1>3 DEF ClockInv, Ended, Pending
<1>5. CacheInv'
  BY DEF CacheInv, Usable
<1>6. CarriedInv'
  BY <1>2, <1>3 DEF CarriedInv, Usable, Ended
<1>7. QED
  BY <1>1, <1>4, <1>5, <1>6

\* The steps of an ingestion request.
LEMMA IngestTokenInv ==
    ASSUME TokenInv, NEW r \in Ingests,
           \/ StartIngest(r)
           \/ CacheHit(r)
           \/ CacheMiss(r)
           \/ QueryRow(r)
           \/ FillCache(r)
           \/ Decide(r)
           \/ FailIngest(r)
    PROVE  TokenInv'
<1> USE TokenAssumption DEF TokenInv
<1>1. CASE StartIngest(r)
  <2>1. ingest' = [ingest EXCEPT ![r] =
                     [pc |-> "lookup", since |-> now, active |-> FALSE, late |-> ~Usable]]
    BY <1>1 DEF StartIngest
  <2>2. Usable \in BOOLEAN
    BY DEF Usable, TypeOK, Row
  <2>3. TypeOK'
    BY <1>1, <2>1, <2>2 DEF StartIngest, TypeOK, IngestState, Pending
  <2>4. ClockInv'
    BY <1>1, <2>1 DEF StartIngest, TypeOK, ClockInv, IngestState
  <2>5. CacheInv'
    BY <1>1 DEF StartIngest, CacheInv, Usable
  <2>6. ingest'[r].pc = "lookup" /\ \A s \in Ingests : s # r => ingest'[s] = ingest[s]
    BY <2>1 DEF TypeOK
  <2>7. CarriedInv'
    BY <1>1, <2>6 DEF StartIngest, CarriedInv, Usable
  <2>8. QED
    BY <2>3, <2>4, <2>5, <2>7
<1>2. CASE CacheHit(r)
  <2>1. TypeOK'
    BY <1>2 DEF CacheHit, TypeOK, IngestState, CacheEntry, Pending
  <2>2. ClockInv'
    BY <1>2 DEF CacheHit, TypeOK, ClockInv, IngestState, Pending
  <2>3. CacheInv'
    BY <1>2 DEF CacheHit, CacheInv, Usable
  <2>4. /\ ingest'[r].pc = "decide"
        /\ ingest'[r].active = cache.active
        /\ ingest'[r].since = ingest[r].since
        /\ \A s \in Ingests : s # r => ingest'[s] = ingest[s]
    BY <1>2 DEF CacheHit, TypeOK, IngestState
  <2>5. cache.active # Usable => ingest[r].since <= changedAt + MaxStall + TTL
    BY <1>2 DEF CacheHit, Live, TypeOK, ClockInv, CacheInv, IngestState, CacheEntry, Pending
  <2>6. CarriedInv'
    BY <1>2, <2>4, <2>5 DEF CacheHit, CarriedInv, Usable
  <2>7. QED
    BY <2>1, <2>2, <2>3, <2>6
<1>3. CASE CacheMiss(r)
  <2>1. TypeOK'
    BY <1>3 DEF CacheMiss, TypeOK, IngestState, Pending
  <2>2. ClockInv'
    BY <1>3 DEF CacheMiss, TypeOK, ClockInv, IngestState, Pending
  <2>3. CacheInv' /\ CarriedInv'
    BY <1>3 DEF CacheMiss, TypeOK, CacheInv, CarriedInv, Usable, IngestState
  <2>4. QED
    BY <2>1, <2>2, <2>3
<1>4. CASE QueryRow(r)
  <2>1. CASE row.deleted
    BY <1>4, <2>1, EndTokenInv DEF QueryRow, Ended
  <2>2. CASE ~row.deleted
    <3>1. ingest' = [ingest EXCEPT ![r].pc = "fill", ![r].active = row.active]
      BY <1>4, <2>2 DEF QueryRow
    <3>2. TypeOK'
      BY <1>4, <3>1 DEF QueryRow, TypeOK, IngestState, Row, Pending
    <3>3. ClockInv'
      BY <1>4, <3>1 DEF QueryRow, TypeOK, ClockInv, IngestState, Pending
    <3>4. CacheInv'
      BY <1>4 DEF QueryRow, CacheInv, Usable
    <3>5. row.active = Usable
      BY <2>2 DEF Usable, TypeOK, Row
    <3>6. CarriedInv'
      BY <1>4, <3>1, <3>5 DEF QueryRow, TypeOK, CarriedInv, Usable, IngestState
    <3>7. QED
      BY <3>2, <3>3, <3>4, <3>6
  <2>3. QED
    BY <2>1, <2>2
<1>5. CASE FillCache(r)
  <2>1. ingest[r].active # Usable => now <= changedAt + MaxStall
    BY <1>5 DEF FillCache, TypeOK, ClockInv, CarriedInv, IngestState, Pending
  <2>2. cache' = [present |-> TRUE, active |-> ingest[r].active, expires |-> now + TTL]
    BY <1>5 DEF FillCache
  <2>3. overlapped' \in BOOLEAN
    BY <1>5 DEF FillCache
  <2>4. TypeOK'
    BY <1>5, <2>2, <2>3 DEF FillCache, TypeOK, IngestState, CacheEntry, Pending
  <2>5. ClockInv'
    BY <1>5 DEF FillCache, TypeOK, ClockInv, IngestState, Pending
  <2>6. CacheInv'
    BY <1>5, <2>1, <2>2 DEF FillCache, TypeOK, CacheInv, Usable
  <2>7. /\ ingest'[r].pc = "decide"
        /\ ingest'[r].active = ingest[r].active
        /\ ingest'[r].since = ingest[r].since
        /\ \A s \in Ingests : s # r => ingest'[s] = ingest[s]
    BY <1>5 DEF FillCache, TypeOK, IngestState
  <2>8. ingest[r].active # Usable => ingest[r].since <= changedAt + MaxStall + TTL
    BY <1>5 DEF FillCache, TypeOK, CarriedInv, IngestState
  <2>9. CarriedInv'
    BY <1>5, <2>7, <2>8 DEF FillCache, CarriedInv, Usable
  <2>10. QED
    BY <2>4, <2>5, <2>6, <2>9
<1>6. CASE Decide(r)
  BY <1>6, EndTokenInv DEF Decide, Ended
<1>7. CASE FailIngest(r)
  BY <1>7, EndTokenInv DEF FailIngest, Ended
<1>8. QED
  BY <1>1, <1>2, <1>3, <1>4, <1>5, <1>6, <1>7

\* The steps of an administrator's request.
LEMMA AdminTokenInv ==
    ASSUME TokenInv, NEW a \in Admins,
           ReadSource(a) \/ Invalidate(a) \/ CommitSource(a) \/ FailAdmin(a)
    PROVE  TokenInv'
<1> USE TokenAssumption DEF TokenInv
<1>1. CASE ReadSource(a)
  <2>1. PICK want \in {"active", "inactive", "deleted"} :
          admin' = [admin EXCEPT ![a] =
                      [pc |-> "read", want |-> want,
                       changes |-> want = "deleted" \/ row.active # (want = "active")]]
    BY <1>1 DEF ReadSource
  <2>2. TypeOK'
    BY <1>1, <2>1 DEF ReadSource, TypeOK, AdminState
  <2>3. QED
    BY <1>1, <2>2 DEF ReadSource, ClockInv, CacheInv, CarriedInv, Usable
<1>2. CASE Invalidate(a)
  <2>1. cache' \in CacheEntry /\ (cache' = cache \/ ~cache'.present)
    BY <1>2 DEF Invalidate, TypeOK, Miss, CacheEntry
  <2>2. TypeOK'
    BY <1>2, <2>1 DEF Invalidate, TypeOK, AdminState
  <2>3. QED
    BY <1>2, <2>1, <2>2 DEF Invalidate, ClockInv, CacheInv, CarriedInv, Usable
<1>3. CASE CommitSource(a)
  <2>1. Written(a) \in Row
    BY DEF Written, TypeOK, Row, AdminState
  <2>2. changedAt' = IF Usable' # Usable THEN now ELSE changedAt
    BY <1>3 DEF CommitSource
  <2>3. \A r \in Ingests : /\ ingest'[r].pc = ingest[r].pc
                           /\ ingest'[r].since = ingest[r].since
                           /\ ingest'[r].active = ingest[r].active
                           /\ ingest'[r] \in IngestState
    BY <1>3 DEF CommitSource, TypeOK, IngestState
  <2>4. TypeOK'
    BY <1>3, <2>1, <2>2, <2>3 DEF CommitSource, TypeOK, AdminState, Idle
  <2>5. ClockInv'
    BY <1>3, <2>2, <2>3 DEF CommitSource, TypeOK, ClockInv
  <2>6. CASE Usable' = Usable
    BY <1>3, <2>2, <2>3, <2>4, <2>5, <2>6 DEF CommitSource, CacheInv, CarriedInv
  <2>7. CASE Usable' # Usable
    <3>1. CacheInv'
      BY <1>3, <2>2, <2>7 DEF CommitSource, CacheInv, TypeOK, CacheEntry
    <3>2. \A r \in Ingests : ingest[r].pc \in {"fill", "decide"} => ingest[r].since <= now
      BY DEF ClockInv, Pending
    <3>3. CarriedInv'
      BY <1>3, <2>2, <2>3, <2>7, <3>2 DEF CarriedInv, TypeOK, IngestState
    <3>4. QED
      BY <2>4, <2>5, <3>1, <3>3
  <2>8. QED
    BY <2>6, <2>7
<1>4. CASE FailAdmin(a)
  <2>1. TypeOK'
    BY <1>4 DEF FailAdmin, TypeOK, AdminState, Idle
  <2>2. QED
    BY <1>4, <2>1 DEF FailAdmin, ClockInv, CacheInv, CarriedInv, Usable
<1>5. QED
  BY <1>1, <1>2, <1>3, <1>4

\* The invariant is inductive.
LEMMA NextTokenInv == TokenInv /\ [Next]_vars => TokenInv'
<1>1. ASSUME TokenInv, Next
      PROVE  TokenInv'
  BY <1>1, TickTokenInv, IngestTokenInv, AdminTokenInv DEF Next
<1>2. ASSUME TokenInv, UNCHANGED vars
      PROVE  TokenInv'
  BY <1>2 DEF vars, TokenInv, TypeOK, ClockInv, CacheInv, CarriedInv, Usable
<1>3. QED
  BY <1>1, <1>2

\* Type correctness of the token cache.
THEOREM TokenTypes == Spec => []TypeOK
<1>1. TokenInv => TypeOK
  BY DEF TokenInv
<1>2. QED
  BY <1>1, InitTokenInv, NextTokenInv, PTL DEF Spec

\* A request that is decided against the committed row is decided at most
\* StaleWindow after the row changed (ingestion.py:52-80).
LEMMA DecisionInTime ==
    ASSUME TokenInv, [Next]_vars, NEW r \in Ingests,
           ingest[r].pc = "decide",
           ingest'[r].pc = (IF Usable THEN "rejected" ELSE "accepted")
    PROVE  now <= changedAt + StaleWindow
<1> USE TokenAssumption DEF TokenInv
<1>1. CASE ingest[r].active # Usable
  BY <1>1 DEF TypeOK, ClockInv, CarriedInv, IngestState, Pending, StaleWindow
<1>2. CASE ingest[r].active = Usable
  <2>1. ingest'[r].pc # ingest[r].pc /\ ingest'[r].pc \in {"accepted", "rejected"}
    OBVIOUS
  <2>2. \A a \in Admins : ~(ReadSource(a) \/ Invalidate(a) \/ CommitSource(a) \/ FailAdmin(a))
    BY <2>1 DEF ReadSource, Invalidate, CommitSource, FailAdmin, TypeOK, IngestState
  <2>3. ~Tick /\ ~UNCHANGED vars
    BY <2>1 DEF Tick, vars
  <2>4. \A s \in Ingests : s # r =>
          ~(StartIngest(s) \/ CacheHit(s) \/ CacheMiss(s) \/ QueryRow(s) \/ FillCache(s)
            \/ Decide(s) \/ FailIngest(s))
    BY <2>1 DEF StartIngest, CacheHit, CacheMiss, QueryRow, FillCache, Decide, FailIngest,
                End, TypeOK, IngestState
  <2>5. Decide(r) \/ FailIngest(r)
    BY <2>2, <2>3, <2>4 DEF Next, StartIngest, CacheHit, CacheMiss, QueryRow, FillCache, Ended
  <2>6. ~FailIngest(r)
    BY <2>1 DEF FailIngest, End, TypeOK
  <2>7. Decide(r)
    BY <2>5, <2>6
  <2>8. ingest'[r].pc = IF ingest[r].active THEN "accepted" ELSE "rejected"
    BY <2>7 DEF Decide, End, TypeOK
  <2>9. QED
    BY <1>2, <2>8 DEF Usable, TypeOK, Row, IngestState
<1>3. QED
  BY <1>1, <1>2

\* Neither a revoked token nor a reactivated one is treated wrongly for longer
\* than the lifetime of a cache entry and the stalls of two requests.
THEOREM RevocationInTime == Spec => DecidedInTime
<1>1. TokenInv /\ [Next]_vars =>
        [\A r \in Ingests :
           /\ ingest[r].pc = "decide"
           /\ ingest'[r].pc = (IF Usable THEN "rejected" ELSE "accepted")
           => now <= changedAt + StaleWindow]_vars
  BY DecisionInTime
<1>2. QED
  BY <1>1, InitTokenInv, NextTokenInv, PTL DEF Spec, DecidedInTime

-----------------------------------------------------------------------------
(* What the invalidation covers *)

\* An entry that no change overlapped says what the table says, and no change
\* is on its way to the table: the invalidation would have removed it.
CoverInv ==
    cache.present /\ ~overlapped =>
        /\ cache.active = Usable
        /\ \A a \in Admins : admin[a].pc = "invalidated" => ~admin[a].changes

\* Each step of an administrator keeps it.
LEMMA AdminCoverInv ==
    ASSUME TypeOK, CoverInv, NEW a \in Admins,
           ReadSource(a) \/ Invalidate(a) \/ CommitSource(a) \/ FailAdmin(a)
    PROVE  CoverInv'
<1>1. ASSUME NEW b \in Admins, b # a
      PROVE  admin'[b] = admin[b]
  BY <1>1 DEF ReadSource, Invalidate, CommitSource, FailAdmin, TypeOK
<1>2. CASE ReadSource(a) \/ FailAdmin(a)
  <2>1. admin'[a].pc # "invalidated"
    BY <1>2 DEF ReadSource, FailAdmin, TypeOK, Idle
  <2>2. QED
    BY <1>1, <1>2, <2>1 DEF ReadSource, FailAdmin, CoverInv, Usable
<1>3. CASE Invalidate(a)
  <2>1. CASE admin[a].changes
    BY <1>3, <2>1 DEF Invalidate, CoverInv, Miss
  <2>2. CASE ~admin[a].changes
    <3>1. ~admin'[a].changes
      BY <1>3, <2>2 DEF Invalidate, TypeOK, AdminState
    <3>2. cache' = cache /\ overlapped' = overlapped
      BY <1>3, <2>2 DEF Invalidate, TypeOK
    <3>3. QED
      BY <1>1, <1>3, <3>1, <3>2 DEF Invalidate, CoverInv, Usable
  <2>3. QED
    BY <2>1, <2>2
<1>4. CASE CommitSource(a)
  <2>1. admin'[a].pc = "idle"
    BY <1>4 DEF CommitSource, TypeOK, Idle
  <2>2. SUFFICES ASSUME cache.present, ~overlapped
                 PROVE  CoverInv'
    BY <1>4 DEF CommitSource, CoverInv
  <2>3. row' = row
    BY <1>4, <2>2 DEF CommitSource, CoverInv, Written
  <2>4. QED
    BY <1>1, <1>4, <2>1, <2>3 DEF CommitSource, CoverInv, Usable
<1>5. QED
  BY <1>2, <1>3, <1>4

\* The invariant is inductive, with the type invariant.
LEMMA NextCoverInv == TypeOK /\ CoverInv /\ [Next]_vars => CoverInv'
<1>1. ASSUME TypeOK, CoverInv, Tick \/ UNCHANGED vars
      PROVE  CoverInv'
  BY <1>1 DEF Tick, vars, CoverInv, Usable
<1>2. ASSUME TypeOK, CoverInv, NEW r \in Ingests, FillCache(r)
      PROVE  CoverInv'
  BY <1>2 DEF FillCache, CoverInv, Usable
<1>3. ASSUME TypeOK, CoverInv, NEW r \in Ingests,
             \/ StartIngest(r)
             \/ CacheHit(r)
             \/ CacheMiss(r)
             \/ QueryRow(r)
             \/ Decide(r)
             \/ FailIngest(r)
      PROVE  CoverInv'
  BY <1>3 DEF StartIngest, CacheHit, CacheMiss, QueryRow, Decide, FailIngest, CoverInv, Usable
<1>4. QED
  BY <1>1, <1>2, <1>3, AdminCoverInv DEF Next

\* The cache contradicts the table only after a fill that overlapped a change,
\* whatever the number of requests and administrators (source.py:151-157,
\* 184-188).
THEOREM InvalidationCovers == Spec => []ContradictionNeedsOverlap
<1>1. Init => CoverInv
  BY DEF Init, CoverInv, Miss
<1>2. CoverInv => ContradictionNeedsOverlap
  BY DEF CoverInv, ContradictionNeedsOverlap, Live
<1>3. Spec => []TypeOK
  BY TokenTypes
<1>4. QED
  BY <1>1, <1>2, <1>3, NextCoverInv, PTL DEF Spec

==============================================================================
