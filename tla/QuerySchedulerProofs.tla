------------------------ MODULE QuerySchedulerProofs ------------------------
(****************************************************************************)
(* What the scheduler keeps, for every number of queries, sessions, slots   *)
(* and limits.                                                              *)
(*                                                                          *)
(* IInv is inductive: the pool is well formed, whatever left its queue is   *)
(* in the hands of the consumer or of one task, and a slot is held by each  *)
(* of those.  CacheInv says that cached sessions are distinct objects, and  *)
(* WakerInv that behind a consumer that waits there is always a task.  When *)
(* no adapter resets sessions, the invariants KeptInv and LockedInv hold    *)
(* too: a session that a query holds stays cached under its key, and every  *)
(* query that the scan has passed has a session without slots.  From them   *)
(* follows that the scheduler implements ConversationQueues.                *)
(****************************************************************************)
EXTENDS QueryScheduler, QueryPoolProofs

-----------------------------------------------------------------------------
(* The inductive invariant *)

Selecting == consumer.at \in {"slot", "undo", "undone"}

\* A query out of the queue is in somebody's hands, and one whose holder is
\* about to forget it has left the cache.
PoolInv ==
    /\ WellFormed(pool)
    /\ refused = {}
    /\ Queued(pool) = {q \in pool.cached : stage[q] = "none"}
    /\ \A q \in Queries : stage[q] = "removed" => q \notin pool.cached
    /\ consumer.at = "undone" => consumer.sel \notin pool.cached

\* A query holds a session slot exactly while the consumer or a task has it.
HandsInv ==
    /\ \A q \in Queries : sess[q] = NoSession <=> stage[q] = "none"
    /\ \A q \in Queries : stage[q] = "selected" <=> Selecting /\ consumer.sel = q
    /\ Selecting => consumer.sel \in Queries
    /\ consumer.at = "scan" => consumer.pos # 0

IInv == TypeOK /\ PoolInv /\ HandsInv /\ SlotsConserved

USE SchedulerAssumption

\* Steps that leave the pool and the stages of the queries alone.
Quiet ==
    /\ UNCHANGED <<pool, refused, stage>>
    /\ consumer'.at = "undone" => consumer' = consumer

\* What a step does to the pool and to the stages of queries.
LEMMA PoolSteps ==
    ASSUME TypeOK, [Next]_vars
    PROVE  \/ Quiet \/ SpawnTask \/ UndoRemove \/ UndoRelease
           \/ \E q \in Queries :
                 \/ AddQuery(q) \/ ClaimAsSteering(q) \/ ClaimAfterReset(q)
                 \/ SelectQuery(q) \/ SelectInNewSession(q)
                 \/ PipelineEnds(q) \/ TaskAborts(q) \/ RemoveEnded(q) \/ ReleaseSlots(q)
<1>1. UNCHANGED vars => Quiet
  BY DEF vars, Quiet
<1>2. BeginScan \/ EndScan \/ SpawnFails \/ Retry => Quiet
  BY DEF TypeOK, Quiet, BeginScan, EndScan, SpawnFails, Retry, At
<1>3. \A q \in Queries : SkipQuery(q) \/ SkipAfterReset(q) \/ SessionCacheFull(q) => Quiet
  BY DEF TypeOK, Quiet, SkipQuery, SkipAfterReset, ResetInOffer, SessionCacheFull, Scanning, At
<1>4. \A q \in Queries : StageGetsSession(q) => Quiet
  BY DEF Quiet, StageGetsSession
<1>5. \A k \in SessionKeys : DropIdleSession(k) \/ ResetSession(k) => Quiet
  BY DEF Quiet, DropIdleSession, ResetSession
<1> QED BY <1>1, <1>2, <1>3, <1>4, <1>5 DEF Next, Consumer, Task

\* Every step keeps the pool well formed and its queries accounted for.
LEMMA PoolStep ==
    ASSUME IInv, [Next]_vars
    PROVE  PoolInv'
<1> USE DEF IInv
<1>1. CASE Quiet
  BY <1>1 DEF Quiet, PoolInv, WellFormed, CachedOf, Queued
<1>2. CASE SpawnTask
  BY <1>2 DEF PoolInv, SpawnTask, TypeOK, HandsInv, Selecting, At
<1>3. CASE UndoRemove
  <2>1. consumer.sel \in Queries
    BY <1>3 DEF UndoRemove, HandsInv, Selecting
  <2>2. /\ WellFormed(pool') /\ pool'.cached = pool.cached \ {consumer.sel}
        /\ Queued(pool') = Queued(pool) \ {consumer.sel}
    BY <1>3, <2>1, RemoveProperties DEF UndoRemove, PoolInv
  <2> QED BY <1>3, <2>1, <2>2 DEF PoolInv, UndoRemove, TypeOK
<1>4. CASE UndoRelease
  BY <1>4 DEF PoolInv, UndoRelease, TypeOK, HandsInv, Selecting, At
<1>5. ASSUME NEW q \in Queries, AddQuery(q)
      PROVE  PoolInv'
  <2> DEFINE r == Supersede(Insert(Admit(pool, Ws(q)), q), Scope(q))
  <2>1. /\ WellFormed(pool) /\ q \in Queries \ pool.cached /\ Admits(pool, Ws(q))
        /\ stage[q] = "none"
    BY <1>5 DEF AddQuery, PoolInv
  <2>2. /\ WellFormed(r) /\ q \in r.cached /\ r.cached \subseteq pool.cached \cup {q}
        /\ Queued(r) = (Queued(pool) \cap r.cached) \cup {q}
        /\ \A c \in r.scopes : c.ws = Ws(q) => c = Scope(q)
        /\ Excess(r, Scope(q)) <= Cardinality(Stale(r))
    BY <2>1, AddedProperties
  <2>3. \E V \in Evictable(r, Scope(q)) : pool' = Count(Forget(r, V), Scope(q))
    BY <1>5, <2>2 DEF AddQuery
  <2>4. refused' = refused \ {q} /\ consumer' = Woken /\ UNCHANGED stage
    BY <1>5, <2>2 DEF AddQuery
  <2> HIDE DEF r
  <2>5. WellFormed(pool') /\ pool'.cached = r.cached /\ Queued(pool') = Queued(r)
    BY <2>2, <2>3, CountProperties
  <2>6. Queued(pool') = {x \in pool'.cached : stage[x] = "none"}
    BY <2>1, <2>2, <2>5 DEF PoolInv
  <2>7. \A x \in Queries : stage[x] = "removed" => x \notin pool'.cached
    BY <2>1, <2>2, <2>5 DEF PoolInv
  <2>8. consumer.at = "undone" => consumer.sel \notin pool'.cached
    BY <2>1, <2>2, <2>5 DEF PoolInv, HandsInv, Selecting
  <2> QED BY <2>4, <2>5, <2>6, <2>7, <2>8 DEF PoolInv, Woken, At
<1>6. ASSUME NEW q \in Queries, \/ ClaimAsSteering(q) \/ ClaimAfterReset(q)
                              \/ PipelineEnds(q) \/ RemoveEnded(q)
      PROVE  PoolInv'
  <2>1. /\ WellFormed(pool') /\ pool'.cached = pool.cached \ {q}
        /\ Queued(pool') = Queued(pool) \ {q}
    BY <1>6, RemoveProperties DEF ClaimAsSteering, ClaimAfterReset, PipelineEnds, RemoveEnded,
                                  PoolInv
  <2>2. UNCHANGED refused
    BY <1>6 DEF ClaimAsSteering, ClaimAfterReset, ResetInOffer, PipelineEnds, RemoveEnded
  <2>3. CASE ClaimAsSteering(q) \/ ClaimAfterReset(q)
    BY <2>1, <2>2, <2>3 DEF PoolInv, ClaimAsSteering, ClaimAfterReset, ResetInOffer, At
  <2>4. CASE PipelineEnds(q)
    BY <2>1, <2>2, <2>4 DEF PoolInv, PipelineEnds, TypeOK
  <2>5. CASE RemoveEnded(q)
    BY <2>1, <2>2, <2>5 DEF PoolInv, RemoveEnded, TypeOK
  <2> QED BY <1>6, <2>3, <2>4, <2>5
<1>7. ASSUME NEW q \in Queries, SelectQuery(q) \/ SelectInNewSession(q)
      PROVE  PoolInv'
  <2>1. /\ Scanning(q) /\ pool' = MarkRunning(pool, q)
        /\ stage' = [stage EXCEPT ![q] = "selected"] /\ UNCHANGED refused
        /\ consumer' = [At("slot") EXCEPT !.sel = q]
    BY <1>7 DEF SelectQuery, SelectInNewSession, Select
  <2>2. /\ WellFormed(pool') /\ pool'.cached = pool.cached
        /\ Queued(pool') = Queued(pool) \ {q}
    BY <2>1, MarkRunningProperties DEF PoolInv
  <2> QED BY <2>1, <2>2 DEF PoolInv, TypeOK, At
<1>8. ASSUME NEW q \in Queries, TaskAborts(q)
      PROVE  PoolInv'
  BY <1>8 DEF PoolInv, TaskAborts, TypeOK
<1>9. ASSUME NEW q \in Queries, ReleaseSlots(q)
      PROVE  PoolInv'
  BY <1>9 DEF PoolInv, ReleaseSlots, TypeOK, Woken, At
<1> QED BY <1>1, <1>2, <1>3, <1>4, <1>5, <1>6, <1>7, <1>8, <1>9, PoolSteps

\* Every step keeps each session slot in the hands of the query that took it.
LEMMA HandsStep ==
    ASSUME IInv, [Next]_vars
    PROVE  HandsInv'
<1> USE DEF IInv
<1>1. CASE UNCHANGED <<sess, stage, consumer>>
  BY <1>1 DEF HandsInv, Selecting
<1>2. CASE BeginScan \/ EndScan \/ SpawnFails \/ Retry
  BY <1>2 DEF HandsInv, Selecting, TypeOK, BeginScan, EndScan, SpawnFails, Retry, At
<1>3. ASSUME NEW q \in Queries, \/ SkipQuery(q) \/ ClaimAsSteering(q) \/ SessionCacheFull(q)
                              \/ SkipAfterReset(q) \/ ClaimAfterReset(q)
      PROVE  HandsInv'
  <2>1. /\ UNCHANGED <<sess, stage>> /\ consumer.at = "scan"
        /\ \/ consumer' = [consumer EXCEPT !.pos = @ + 1]
           \/ consumer' = At("idle")
           \/ consumer' = At("sleep")
    BY <1>3 DEF SkipQuery, ClaimAsSteering, SessionCacheFull, SkipAfterReset, ClaimAfterReset,
                ResetInOffer, Scanning
  <2> QED BY <2>1 DEF HandsInv, Selecting, TypeOK, At
<1>4. CASE UndoRemove
  BY <1>4 DEF HandsInv, Selecting, TypeOK, UndoRemove
<1>5. CASE SpawnTask
  BY <1>5 DEF HandsInv, Selecting, TypeOK, SpawnTask, At
<1>6. CASE UndoRelease
  BY <1>6 DEF HandsInv, Selecting, TypeOK, UndoRelease, At
<1>7. ASSUME NEW q \in Queries, AddQuery(q)
      PROVE  HandsInv'
  BY <1>7 DEF HandsInv, Selecting, TypeOK, AddQuery, Woken, At
<1>8. ASSUME NEW q \in Queries, SelectQuery(q)
      PROVE  HandsInv'
  BY <1>8 DEF HandsInv, Selecting, TypeOK, SelectQuery, Select, Scanning, At
<1>9. ASSUME NEW q \in Queries, SelectInNewSession(q)
      PROVE  HandsInv'
  <2>1. FreshSession \in SessionObjs
    BY <1>9 DEF SelectInNewSession, Create, FreshSession
  <2> QED BY <1>9, <2>1 DEF HandsInv, Selecting, TypeOK, SelectInNewSession, Select, Scanning, At
<1>10. ASSUME NEW q \in Queries, PipelineEnds(q) \/ TaskAborts(q) \/ RemoveEnded(q)
       PROVE  HandsInv'
  BY <1>10 DEF HandsInv, Selecting, TypeOK, PipelineEnds, TaskAborts, RemoveEnded
<1>11. ASSUME NEW q \in Queries, ReleaseSlots(q)
       PROVE  HandsInv'
  BY <1>11 DEF HandsInv, Selecting, TypeOK, ReleaseSlots, Woken, At
<1>12. ASSUME NEW q \in Queries, StageGetsSession(q)
       PROVE  HandsInv'
  BY <1>1, <1>12 DEF StageGetsSession
<1>13. ASSUME NEW k \in SessionKeys, DropIdleSession(k) \/ ResetSession(k)
       PROVE  HandsInv'
  BY <1>1, <1>13 DEF DropIdleSession, ResetSession
<1>14. CASE UNCHANGED vars
  BY <1>1, <1>14 DEF vars
<1> QED BY <1>2, <1>3, <1>4, <1>5, <1>6, <1>7, <1>8, <1>9, <1>10, <1>11, <1>12, <1>13, <1>14
        DEF Next, Consumer, Task

-----------------------------------------------------------------------------
(* Slots *)

\* Sets of queries are finite.
LEMMA QuerySets ==
    ASSUME NEW A \in SUBSET Queries
    PROVE  IsFiniteSet(A) /\ Cardinality(A) \in Nat
BY PoolAssumption, FS_Subset, FS_CardinalityType

\* A query that had no session slot takes one of o.
LEMMA TakeSlot ==
    ASSUME TypeOK, SlotsConserved, NEW q \in Queries, NEW o \in SessionObjs,
           sess[q] = NoSession,
           sess' = [sess EXCEPT ![q] = o],
           value' = [value EXCEPT ![o] = value[o] - 1]
    PROVE  \A x \in SessionObjs : value'[x] + Cardinality(Holders(x)') = SessionSlots
<1> SUFFICES ASSUME NEW x \in SessionObjs
             PROVE  value'[x] + Cardinality(Holders(x)') = SessionSlots
  OBVIOUS
<1>1. value[x] + Cardinality(Holders(x)) = SessionSlots /\ value[x] \in Nat
  BY DEF SlotsConserved, TypeOK
<1>2. IsFiniteSet(Holders(x)) /\ Cardinality(Holders(x)) \in Nat
  BY QuerySets DEF Holders
<1>3. CASE x = o
  <2>1. Holders(x)' = Holders(x) \cup {q} /\ q \notin Holders(x)
    BY <1>3 DEF Holders, TypeOK
  <2>2. Cardinality(Holders(x)') = Cardinality(Holders(x)) + 1
    BY <1>2, <2>1, FS_AddElement
  <2>3. value'[x] = value[x] - 1
    BY <1>3 DEF TypeOK
  <2> QED BY <1>1, <1>2, <2>2, <2>3
<1>4. CASE x # o
  <2>1. Holders(x)' = Holders(x)
    BY <1>4 DEF Holders, TypeOK
  <2>2. value'[x] = value[x]
    BY <1>4 DEF TypeOK
  <2> QED BY <1>1, <2>1, <2>2
<1> QED BY <1>3, <1>4

\* A query gives its session slot back.
LEMMA ReturnSlot ==
    ASSUME TypeOK, SlotsConserved, NEW q \in Queries,
           sess[q] # NoSession,
           sess' = [sess EXCEPT ![q] = NoSession],
           value' = [value EXCEPT ![sess[q]] = @ + 1]
    PROVE  \A x \in SessionObjs : value'[x] + Cardinality(Holders(x)') = SessionSlots
<1> SUFFICES ASSUME NEW x \in SessionObjs
             PROVE  value'[x] + Cardinality(Holders(x)') = SessionSlots
  OBVIOUS
<1>1. value[x] + Cardinality(Holders(x)) = SessionSlots /\ value[x] \in Nat
  BY DEF SlotsConserved, TypeOK
<1>2. IsFiniteSet(Holders(x)) /\ Cardinality(Holders(x)) \in Nat
  BY QuerySets DEF Holders
<1>3. CASE x = sess[q]
  <2>1. Holders(x)' = Holders(x) \ {q} /\ q \in Holders(x)
    BY <1>3 DEF Holders, TypeOK
  <2>2. Cardinality(Holders(x)') = Cardinality(Holders(x)) - 1
    BY <1>2, <2>1, FS_RemoveElement
  <2>3. value'[x] = value[x] + 1
    BY <1>3 DEF TypeOK
  <2> QED BY <1>1, <1>2, <2>2, <2>3
<1>4. CASE x # sess[q]
  <2>1. Holders(x)' = Holders(x)
    BY <1>4 DEF Holders, TypeOK
  <2>2. value'[x] = value[x]
    BY <1>4 DEF TypeOK
  <2> QED BY <1>1, <2>1, <2>2
<1> QED BY <1>3, <1>4

\* A session object nothing refers to has all its slots.
LEMMA FreshProperties ==
    ASSUME TypeOK, SlotsConserved, SessionObjs \ Live # {}
    PROVE  /\ FreshSession \in SessionObjs \ Live
           /\ value[FreshSession] = SessionSlots
<1>1. FreshSession \in SessionObjs \ Live
  BY DEF FreshSession
<1>2. Holders(FreshSession) = {}
  BY <1>1 DEF Holders, Live
<1>3. value[FreshSession] + 0 = SessionSlots /\ value[FreshSession] \in Nat
  BY <1>1, <1>2, FS_EmptySet DEF SlotsConserved, TypeOK
<1> QED BY <1>1, <1>3

\* Selecting q takes a slot of a session that has one.
LEMMA SelectProperties ==
    ASSUME IInv, NEW q \in Queries, SelectQuery(q) \/ SelectInNewSession(q)
    PROVE  /\ q \in Queued(pool) /\ stage[q] = "none" /\ sess[q] = NoSession
           /\ index' \in [SessionKeys -> SessionObjs \cup {NoSession}]
           /\ \E o \in SessionObjs :
                 /\ Select(q, o, value[o])
                 /\ value[o] > 0
                 /\ index'[KeyOf[q]] = o
<1> USE DEF IInv
<1>1. KeyOf[q] \in SessionKeys
  BY PoolAssumption
<1>2. Scanning(q)
  BY DEF SelectQuery, SelectInNewSession
<1>3. q \in Queued(pool)
  <2>1. pool.queries \in Seq(Queries) /\ consumer.pos \in Nat
    BY DEF TypeOK, Pools
  <2>2. DOMAIN pool.queries = 1..Len(pool.queries) /\ q \in Queries
    BY <2>1, LenProperties
  <2>3. consumer.pos # 0
    BY <1>2 DEF HandsInv, Scanning
  <2> QED BY <1>2, <2>1, <2>2, <2>3, LenProperties DEF Scanning, Queued, Range
<1>4. stage[q] = "none" /\ sess[q] = NoSession
  BY <1>3 DEF PoolInv, HandsInv
<1>5. CASE SelectQuery(q)
  BY <1>1, <1>3, <1>4, <1>5 DEF SelectQuery, TypeOK
<1>6. CASE SelectInNewSession(q)
  <2>1. PICK gone \in Prunings(KeyOf[q]) : Create(KeyOf[q], gone)
    BY <1>6 DEF SelectInNewSession
  <2>2. FreshSession \in SessionObjs \ Live /\ value[FreshSession] = SessionSlots
    BY <2>1, FreshProperties DEF Create
  <2>3. /\ index' \in [SessionKeys -> SessionObjs \cup {NoSession}]
        /\ index'[KeyOf[q]] = FreshSession
    <3> HIDE DEF FreshSession
    <3>1. Pruned(gone) \in [SessionKeys -> SessionObjs \cup {NoSession}]
      BY DEF Pruned, TypeOK
    <3>2. index' = [Pruned(gone) EXCEPT ![KeyOf[q]] = FreshSession]
      BY <2>1 DEF Create
    <3> QED BY <1>1, <2>2, <3>1, <3>2
  <2>4. Select(q, FreshSession, value[FreshSession]) /\ value[FreshSession] > 0
    BY <1>6, <2>2 DEF SelectInNewSession
  <2> QED BY <1>3, <1>4, <2>2, <2>3, <2>4
<1> QED BY <1>5, <1>6

\* What getting a session that was reset does to the cache and the semaphores.
LEMMA MissingProperties ==
    ASSUME TypeOK, SlotsConserved, NEW k \in SessionKeys, GetMissingSession(k)
    PROVE  /\ index' \in [SessionKeys -> SessionObjs \cup {NoSession}]
           /\ UNCHANGED value
<1>2. PICK gone \in Prunings(k) :
         \/ /\ Create(k, gone)
            /\ value' = [value EXCEPT ![FreshSession] = SessionSlots]
         \/ /\ NoRoom(k, gone)
            /\ UNCHANGED value
  BY DEF GetMissingSession
<1>3. Pruned(gone) \in [SessionKeys -> SessionObjs \cup {NoSession}]
  BY DEF Pruned, TypeOK
<1>4. CASE NoRoom(k, gone) /\ UNCHANGED value
  BY <1>3, <1>4 DEF NoRoom
<1>5. CASE /\ Create(k, gone)
           /\ value' = [value EXCEPT ![FreshSession] = SessionSlots]
  <2>1. FreshSession \in SessionObjs /\ value[FreshSession] = SessionSlots
    BY <1>5, FreshProperties DEF Create
  <2>2. index' = [Pruned(gone) EXCEPT ![k] = FreshSession]
    BY <1>5 DEF Create
  <2> HIDE DEF FreshSession
  <2>3. index' \in [SessionKeys -> SessionObjs \cup {NoSession}]
    BY <1>3, <2>1, <2>2
  <2>4. value' = value
    BY <1>5, <2>1 DEF TypeOK
  <2> QED BY <2>3, <2>4
<1> QED BY <1>2, <1>4, <1>5

\* Every step takes a slot for a query or gives back the one it held.
LEMMA SlotsStep ==
    ASSUME IInv, [Next]_vars
    PROVE  SlotsConserved'
<1> USE DEF IInv
<1>1. CASE UNCHANGED <<slots, stage, value, sess>>
  BY <1>1 DEF SlotsConserved, InTask, Holders
<1>2. CASE \/ BeginScan \/ EndScan \/ SpawnFails \/ UndoRemove \/ Retry
           \/ UNCHANGED vars
           \/ \E k \in SessionKeys : DropIdleSession(k) \/ ResetSession(k)
           \/ \E q \in Queries : \/ AddQuery(q) \/ SkipQuery(q)
                                 \/ ClaimAsSteering(q) \/ SessionCacheFull(q)
  <2>1. UNCHANGED <<slots, stage, value, sess>>
    BY <1>2 DEF BeginScan, EndScan, SpawnFails, UndoRemove, Retry, vars, DropIdleSession,
                ResetSession, AddQuery, SkipQuery, ClaimAsSteering, SessionCacheFull
  <2> QED BY <1>1, <2>1
<1>3. ASSUME NEW q \in Queries, StageGetsSession(q) \/ SkipAfterReset(q) \/ ClaimAfterReset(q)
      PROVE  SlotsConserved'
  <2>1. UNCHANGED value
    BY <1>3, MissingProperties, PoolAssumption
       DEF StageGetsSession, SkipAfterReset, ClaimAfterReset, ResetInOffer
  <2>2. UNCHANGED <<slots, stage, sess>>
    BY <1>3 DEF StageGetsSession, SkipAfterReset, ClaimAfterReset, ResetInOffer
  <2> QED BY <1>1, <2>1, <2>2
<1>4. ASSUME NEW q \in Queries, PipelineEnds(q) \/ TaskAborts(q) \/ RemoveEnded(q)
      PROVE  SlotsConserved'
  <2>1. UNCHANGED <<slots, value, sess>>
    BY <1>4 DEF PipelineEnds, TaskAborts, RemoveEnded
  <2>2. InTask' = InTask
    BY <1>4 DEF PipelineEnds, TaskAborts, RemoveEnded, InTask, TypeOK
  <2> QED BY <2>1, <2>2 DEF SlotsConserved, Holders
<1>5. CASE SpawnTask
  <2> DEFINE q == consumer.sel
  <2>1. q \in Queries /\ stage[q] = "selected"
    BY <1>5 DEF SpawnTask, HandsInv, Selecting
  <2>2. UNCHANGED <<value, sess>> /\ slots' = slots - 1 /\ slots \in Nat
    BY <1>5 DEF SpawnTask, TypeOK
  <2>3. InTask' = InTask \cup {q} /\ q \notin InTask
    BY <1>5, <2>1 DEF SpawnTask, InTask, TypeOK
  <2>4. Cardinality(InTask') = Cardinality(InTask) + 1 /\ Cardinality(InTask) \in Nat
    <3>1. IsFiniteSet(InTask) /\ Cardinality(InTask) \in Nat
      BY QuerySets DEF InTask
    <3> QED BY <2>3, <3>1, FS_AddElement
  <2> QED BY <2>2, <2>4 DEF SlotsConserved, Holders
<1>6. ASSUME NEW q \in Queries, SelectQuery(q) \/ SelectInNewSession(q)
      PROVE  SlotsConserved'
  <2>1. PICK o \in SessionObjs : Select(q, o, value[o])
    BY <1>6, SelectProperties
  <2>2. stage[q] = "none" /\ sess[q] = NoSession
    BY <1>6, SelectProperties
  <2>3. \A x \in SessionObjs : value'[x] + Cardinality(Holders(x)') = SessionSlots
    BY <2>1, <2>2, TakeSlot DEF Select
  <2>4. InTask' = InTask /\ UNCHANGED slots
    BY <2>1, <2>2 DEF Select, InTask, TypeOK
  <2> QED BY <2>3, <2>4 DEF SlotsConserved
<1>7. CASE UndoRelease
  <2> DEFINE q == consumer.sel
  <2>1. q \in Queries /\ stage[q] = "selected" /\ sess[q] # NoSession
    BY <1>7 DEF UndoRelease, HandsInv, Selecting
  <2>2. \A x \in SessionObjs : value'[x] + Cardinality(Holders(x)') = SessionSlots
    BY <1>7, <2>1, ReturnSlot DEF UndoRelease
  <2>3. InTask' = InTask /\ UNCHANGED slots
    BY <1>7, <2>1 DEF UndoRelease, InTask, TypeOK
  <2> QED BY <2>2, <2>3 DEF SlotsConserved
<1>8. ASSUME NEW q \in Queries, ReleaseSlots(q)
      PROVE  SlotsConserved'
  <2>1. stage[q] = "removed" /\ sess[q] # NoSession
    BY <1>8 DEF ReleaseSlots, HandsInv
  <2>2. \A x \in SessionObjs : value'[x] + Cardinality(Holders(x)') = SessionSlots
    BY <1>8, <2>1, ReturnSlot DEF ReleaseSlots
  <2>3. slots' = slots + 1 /\ slots \in Nat
    BY <1>8 DEF ReleaseSlots, TypeOK
  <2>4. InTask' = InTask \ {q} /\ q \in InTask
    BY <1>8, <2>1 DEF ReleaseSlots, InTask, TypeOK
  <2>5. Cardinality(InTask') = Cardinality(InTask) - 1 /\ Cardinality(InTask) \in Nat
    <3>1. IsFiniteSet(InTask) /\ Cardinality(InTask) \in Nat
      BY QuerySets DEF InTask
    <3> QED BY <2>4, <3>1, FS_RemoveElement
  <2> QED BY <2>2, <2>3, <2>5 DEF SlotsConserved
<1> QED BY <1>2, <1>3, <1>4, <1>5, <1>6, <1>7, <1>8 DEF Next, Consumer, Task

\* Every step keeps the types.
LEMMA TypeStep ==
    ASSUME IInv, [Next]_vars
    PROVE  TypeOK'
<1> USE DEF IInv
<1>1. pool' \in Pools /\ refused' \subseteq Queries
  BY PoolStep DEF PoolInv, WellFormed
<1>2. CASE UNCHANGED vars
  BY <1>1, <1>2 DEF TypeOK, vars
<1>3. CASE BeginScan \/ EndScan \/ SpawnFails \/ UndoRemove \/ Retry
  BY <1>1, <1>3 DEF TypeOK, BeginScan, EndScan, SpawnFails, UndoRemove, Retry, At, Places
<1>4. ASSUME NEW q \in Queries, AddQuery(q) \/ SkipQuery(q) \/ ClaimAsSteering(q)
      PROVE  TypeOK'
  BY <1>1, <1>4 DEF TypeOK, AddQuery, SkipQuery, ClaimAsSteering, Woken, At, Places
<1>5. ASSUME NEW q \in Queries, SessionCacheFull(q)
      PROVE  TypeOK'
  <2>1. index' \in [SessionKeys -> SessionObjs \cup {NoSession}]
    BY <1>5 DEF SessionCacheFull, NoRoom, Pruned, TypeOK
  <2> QED BY <1>1, <1>5, <2>1 DEF TypeOK, SessionCacheFull, At, Places
<1>6. ASSUME NEW q \in Queries, SelectQuery(q) \/ SelectInNewSession(q)
      PROVE  TypeOK'
  <2>1. /\ index' \in [SessionKeys -> SessionObjs \cup {NoSession}]
        /\ \E o \in SessionObjs : Select(q, o, value[o]) /\ value[o] > 0
    BY <1>6, SelectProperties
  <2>2. PICK o \in SessionObjs : Select(q, o, value[o]) /\ value[o] > 0
    BY <2>1
  <2>3. value[o] - 1 \in Nat
    BY <2>2 DEF TypeOK
  <2> QED BY <1>1, <2>1, <2>2, <2>3 DEF TypeOK, Select, At, Places, Stages
<1>7. CASE SpawnTask
  <2>1. slots' \in Nat
    BY <1>7 DEF SpawnTask, TypeOK
  <2>2. stage' \in [Queries -> Stages]
    BY <1>7 DEF SpawnTask, TypeOK, Stages
  <2>3. consumer' = At("idle") /\ UNCHANGED <<index, value, sess>>
    BY <1>7 DEF SpawnTask
  <2> QED BY <1>1, <2>1, <2>2, <2>3 DEF TypeOK, At, Places
<1>8. CASE UndoRelease
  <2>1. sess[consumer.sel] \in SessionObjs
    BY <1>8 DEF UndoRelease, HandsInv, Selecting, TypeOK
  <2>2. value' \in [SessionObjs -> Nat]
    BY <1>8, <2>1 DEF UndoRelease, TypeOK
  <2> QED BY <1>1, <1>8, <2>2 DEF TypeOK, UndoRelease, At, Places, Stages
<1>9. ASSUME NEW q \in Queries, PipelineEnds(q) \/ TaskAborts(q) \/ RemoveEnded(q)
      PROVE  TypeOK'
  BY <1>1, <1>9 DEF TypeOK, PipelineEnds, TaskAborts, RemoveEnded, Stages
<1>10. ASSUME NEW q \in Queries, ReleaseSlots(q)
       PROVE  TypeOK'
  <2>1. sess[q] \in SessionObjs
    BY <1>10 DEF ReleaseSlots, HandsInv, TypeOK
  <2>2. value' \in [SessionObjs -> Nat]
    BY <1>10, <2>1 DEF ReleaseSlots, TypeOK
  <2> QED BY <1>1, <1>10, <2>2 DEF TypeOK, ReleaseSlots, Woken, At, Places, Stages
<1>11. ASSUME NEW q \in Queries, StageGetsSession(q) \/ SkipAfterReset(q) \/ ClaimAfterReset(q)
       PROVE  TypeOK'
  <2>1. index' \in [SessionKeys -> SessionObjs \cup {NoSession}] /\ UNCHANGED value
    BY <1>11, MissingProperties, PoolAssumption
       DEF StageGetsSession, SkipAfterReset, ClaimAfterReset, ResetInOffer
  <2>2. UNCHANGED <<sess, stage, slots>>
    BY <1>11 DEF StageGetsSession, SkipAfterReset, ClaimAfterReset, ResetInOffer
  <2>3. consumer' \in [at : Places, pos : Nat, sel : Queries \cup {NoQuery}]
    BY <1>11 DEF StageGetsSession, SkipAfterReset, ClaimAfterReset, At, Places, TypeOK
  <2> QED BY <1>1, <2>1, <2>2, <2>3 DEF TypeOK
<1>12. ASSUME NEW k \in SessionKeys, DropIdleSession(k) \/ ResetSession(k)
       PROVE  TypeOK'
  BY <1>12 DEF TypeOK, DropIdleSession, ResetSession
<1> QED BY <1>2, <1>3, <1>4, <1>5, <1>6, <1>7, <1>8, <1>9, <1>10, <1>11, <1>12
        DEF Next, Consumer, Task

\* The scheduler starts with an empty pool and all its slots.
LEMMA InitIInv == Init => IInv
<1> SUFFICES ASSUME Init PROVE IInv
  OBVIOUS
<1> USE DEF Init
<1>1. WellFormed(pool) /\ pool \in Pools
  BY EmptyPoolWellFormed DEF WellFormed
<1>2. pool.cached = {} /\ Queued(pool) = {}
  BY DEF EmptyPool, Queued, Range
<1>3. PoolInv
  BY <1>1, <1>2 DEF PoolInv, At
<1>4. HandsInv
  BY DEF HandsInv, Selecting, At
<1>5. SlotsConserved
  <2>1. InTask = {} /\ \A o \in SessionObjs : Holders(o) = {}
    BY DEF InTask, Holders
  <2> QED BY <2>1, FS_EmptySet DEF SlotsConserved
<1>6. TypeOK
  BY <1>1 DEF TypeOK, Stages, Places, At
<1> QED BY <1>3, <1>4, <1>5, <1>6 DEF IInv

\* IInv is an inductive invariant.
LEMMA Inductive == Spec => []IInv
<1>1. IInv /\ [Next]_vars => IInv'
  BY TypeStep, PoolStep, HandsStep, SlotsStep DEF IInv
<1> QED BY InitIInv, <1>1, PTL DEF Spec

-----------------------------------------------------------------------------
(* Theorems *)

\* The state of the scheduler keeps its type: every semaphore value is a natural
\* number and every index of the pool refers to known queries.
THEOREM TypeCorrect == Spec => []TypeOK
<1>1. IInv => TypeOK
  BY DEF IInv
<1> QED BY Inductive, <1>1, PTL

\* The pool's indexes agree with each other and with the stages of the queries.
THEOREM IndexesAgree == Spec => []PoolIndexesAgree
<1>1. IInv => PoolIndexesAgree
  BY DEF IInv, PoolInv, WellFormed, PoolIndexesAgree, CachedOf
<1> QED BY Inductive, <1>1, PTL

\* Queued and running queries stay within max_queries and within
\* max_queries_per_workspace, for every size of pool.
THEOREM CapsHold == Spec => []AdmissionCaps
<1>1. IInv => AdmissionCaps
  BY DEF IInv, PoolInv, WellFormed, AdmissionCaps
<1> QED BY Inductive, <1>1, PTL

\* add_query never raises after it has queued the query: its counters find room,
\* as each busy workspace has a cached query and there are at most max_queries.
THEOREM NeverPhantom == Spec => []NoPhantomQuery
<1>1. IInv => NoPhantomQuery
  BY DEF IInv, PoolInv, WellFormed, NoPhantomQuery
<1> QED BY Inductive, <1>1, PTL

\* Global and session slots are neither lost nor released twice.
THEOREM SlotsAreConserved == Spec => []SlotsConserved
<1>1. IInv => SlotsConserved
  BY DEF IInv
<1> QED BY Inductive, <1>1, PTL

-----------------------------------------------------------------------------
(* Who wakes the consumer *)

\* A session object belongs to one key: no two keys share it, and the queries
\* that hold a slot of a cached object are queries of its key.
CacheInv ==
    /\ \A k, l \in SessionKeys : index[k] = index[l] /\ index[k] # NoSession => k = l
    /\ \A k \in SessionKeys, p \in Queries :
          sess[p] = index[k] /\ index[k] # NoSession => KeyOf[p] = k

HasTask(k) == \E p \in InTask : KeyOf[p] = k

\* The queries a scan has passed, and those a sleeping consumer left in the
\* queue, have a task of their session.
WakerInv ==
    /\ consumer.at = "scan" =>
          \A i \in 1..Len(pool.queries) : i < consumer.pos => HasTask(KeyOf[pool.queries[i]])
    /\ consumer.at = "waiting" => \A q \in Queued(pool) : HasTask(KeyOf[q])

\* Changes of the cache that drop sessions and may create one for k.
LEMMA CacheChange ==
    ASSUME TypeOK, CacheInv, UNCHANGED sess,
           \A k \in SessionKeys : index'[k] = index[k] \/ index'[k] = NoSession
    PROVE  CacheInv'
BY DEF CacheInv, TypeOK

\* A session that is created is in no entry of the cache and held by no query.
LEMMA CacheCreate ==
    ASSUME TypeOK, CacheInv, NEW k \in SessionKeys, NEW gone, Create(k, gone)
    PROVE  /\ \A l \in SessionKeys : l # k => index'[l] = index[l] \/ index'[l] = NoSession
           /\ index'[k] = FreshSession
           /\ FreshSession # NoSession
           /\ \A l \in SessionKeys : index[l] # FreshSession
           /\ \A p \in Queries : sess[p] # FreshSession
<1>1. FreshSession \in SessionObjs \ Live
  BY DEF Create, FreshSession
<1>2. index' = [Pruned(gone) EXCEPT ![k] = FreshSession]
  BY DEF Create
<1> HIDE DEF FreshSession
<1> QED BY <1>1, <1>2 DEF Pruned, Live

\* Every step keeps the cached sessions distinct.
LEMMA CacheStep ==
    ASSUME IInv, CacheInv, [Next]_vars
    PROVE  CacheInv'
<1> USE DEF IInv
<1>1. CASE UNCHANGED <<index, sess>>
  BY <1>1 DEF CacheInv
<1>2. CASE \/ BeginScan \/ EndScan \/ SpawnTask \/ SpawnFails \/ UndoRemove \/ Retry
           \/ UNCHANGED vars
           \/ \E q \in Queries : \/ AddQuery(q) \/ SkipQuery(q) \/ ClaimAsSteering(q)
                                 \/ PipelineEnds(q) \/ TaskAborts(q) \/ RemoveEnded(q)
  <2>1. UNCHANGED <<index, sess>>
    BY <1>2 DEF BeginScan, EndScan, SpawnTask, SpawnFails, UndoRemove, Retry, vars, AddQuery,
                SkipQuery, ClaimAsSteering, PipelineEnds, TaskAborts, RemoveEnded
  <2> QED BY <1>1, <2>1
<1>3. ASSUME NEW k \in SessionKeys, DropIdleSession(k) \/ ResetSession(k)
      PROVE  CacheInv'
  <2>1. UNCHANGED sess /\ index' = [index EXCEPT ![k] = NoSession]
    BY <1>3 DEF DropIdleSession, ResetSession
  <2> QED BY <2>1, CacheChange DEF TypeOK
<1>4. ASSUME NEW q \in Queries, SessionCacheFull(q)
      PROVE  CacheInv'
  <2>1. UNCHANGED sess /\ \E gone : index' = Pruned(gone)
    BY <1>4 DEF SessionCacheFull, NoRoom
  <2> QED BY <2>1, CacheChange DEF Pruned
<1>5. ASSUME NEW q \in Queries, StageGetsSession(q) \/ SkipAfterReset(q) \/ ClaimAfterReset(q)
      PROVE  CacheInv'
  <2>1. UNCHANGED sess /\ KeyOf[q] \in SessionKeys /\ GetMissingSession(KeyOf[q])
    BY <1>5, PoolAssumption DEF StageGetsSession, SkipAfterReset, ClaimAfterReset, ResetInOffer
  <2>2. PICK gone : Create(KeyOf[q], gone) \/ NoRoom(KeyOf[q], gone)
    BY <2>1 DEF GetMissingSession
  <2>3. CASE NoRoom(KeyOf[q], gone)
    BY <2>1, <2>3, CacheChange DEF NoRoom, Pruned
  <2>4. CASE Create(KeyOf[q], gone)
    <3> DEFINE k == KeyOf[q]
    <3>1. /\ \A l \in SessionKeys : l # k => index'[l] = index[l] \/ index'[l] = NoSession
          /\ index'[k] = FreshSession /\ FreshSession # NoSession
          /\ \A l \in SessionKeys : index[l] # FreshSession
          /\ \A p \in Queries : sess[p] # FreshSession
      BY <2>1, <2>4, CacheCreate
    <3> HIDE DEF k, FreshSession
    <3> QED BY <2>1, <3>1 DEF CacheInv
  <2> QED BY <2>2, <2>3, <2>4
<1>6. ASSUME NEW q \in Queries, SelectQuery(q)
      PROVE  CacheInv'
  <2>1. /\ KeyOf[q] \in SessionKeys /\ index[KeyOf[q]] # NoSession /\ UNCHANGED index
        /\ sess' = [sess EXCEPT ![q] = index[KeyOf[q]]]
    BY <1>6, PoolAssumption DEF SelectQuery, Select
  <2> QED BY <2>1 DEF CacheInv, TypeOK
<1>7. ASSUME NEW q \in Queries, SelectInNewSession(q)
      PROVE  CacheInv'
  <2> DEFINE k == KeyOf[q]
  <2>1. k \in SessionKeys /\ \E gone : Create(k, gone)
    BY <1>7, PoolAssumption DEF SelectInNewSession
  <2>2. sess' = [sess EXCEPT ![q] = FreshSession]
    BY <1>7 DEF SelectInNewSession, Select
  <2>3. /\ \A l \in SessionKeys : l # k => index'[l] = index[l] \/ index'[l] = NoSession
        /\ index'[k] = FreshSession /\ FreshSession # NoSession
        /\ \A l \in SessionKeys : index[l] # FreshSession
        /\ \A p \in Queries : sess[p] # FreshSession
    BY <2>1, CacheCreate
  <2> HIDE DEF FreshSession
  <2>4. /\ sess'[q] = FreshSession
        /\ \A p \in Queries : p # q => sess'[p] = sess[p]
    BY <2>2 DEF TypeOK
  <2>5. \A l, m \in SessionKeys : index'[l] = index'[m] /\ index'[l] # NoSession => l = m
    BY <2>3 DEF CacheInv
  <2>6. ASSUME NEW l \in SessionKeys, NEW p \in Queries,
               sess'[p] = index'[l], index'[l] # NoSession
        PROVE  KeyOf[p] = l
    <3>1. CASE p = q
      BY <2>3, <2>4, <2>6, <3>1
    <3>2. CASE p # q
      BY <2>3, <2>4, <2>6, <3>2 DEF CacheInv
    <3> QED BY <3>1, <3>2
  <2> QED BY <2>5, <2>6 DEF CacheInv
<1>8. CASE UndoRelease
  <2>1. UNCHANGED index /\ sess' = [sess EXCEPT ![consumer.sel] = NoSession]
    BY <1>8 DEF UndoRelease
  <2> QED BY <2>1 DEF CacheInv, TypeOK
<1>9. ASSUME NEW q \in Queries, ReleaseSlots(q)
      PROVE  CacheInv'
  <2>1. UNCHANGED index /\ sess' = [sess EXCEPT ![q] = NoSession]
    BY <1>9 DEF ReleaseSlots
  <2> QED BY <2>1 DEF CacheInv, TypeOK
<1> QED BY <1>2, <1>3, <1>4, <1>5, <1>6, <1>7, <1>8, <1>9 DEF Next, Consumer, Task

\* Positions of the queue while the consumer scans it.
LEMMA ScanPositions ==
    ASSUME IInv
    PROVE  /\ Len(pool.queries) \in Nat /\ consumer.pos \in Nat
           /\ \A i \in 1..Len(pool.queries) : pool.queries[i] \in Queued(pool)
           /\ \A q \in Queued(pool) : \E i \in 1..Len(pool.queries) : q = pool.queries[i]
           /\ Queued(pool) \subseteq Queries
<1>1. pool.queries \in Seq(Queries) /\ pool.cached \subseteq Queries /\ consumer.pos \in Nat
  BY DEF IInv, TypeOK, Pools
<1>2. Len(pool.queries) \in Nat /\ DOMAIN pool.queries = 1..Len(pool.queries)
  BY <1>1, LenProperties
<1>3. Queued(pool) \subseteq Queries
  BY <1>1 DEF IInv, PoolInv, WellFormed
<1> QED BY <1>1, <1>2, <1>3 DEF Queued, Range

\* A session without a slot has a task, unless its holder is being selected.
LEMMA LockedHasTask ==
    ASSUME IInv, CacheInv, consumer.at = "scan", NEW k \in SessionKeys, SessionLocked(k)
    PROVE  HasTask(k)
<1> DEFINE o == index[k]
<1>1. o \in SessionObjs /\ value[o] = 0
  BY DEF SessionLocked, IInv, TypeOK
<1>2. Cardinality(Holders(o)) = SessionSlots
  <2>1. value[o] + Cardinality(Holders(o)) = SessionSlots
    BY <1>1 DEF IInv, SlotsConserved
  <2>2. Cardinality(Holders(o)) \in Nat
    BY QuerySets DEF Holders
  <2> QED BY <1>1, <2>1, <2>2
<1>3. Holders(o) # {}
  BY <1>2, FS_EmptySet
<1>4. PICK p \in Queries : sess[p] = o
  BY <1>3 DEF Holders
<1>5. KeyOf[p] = k
  BY <1>4 DEF CacheInv, SessionLocked
<1>6. stage[p] # "none" /\ stage[p] # "selected"
  BY <1>1, <1>4 DEF IInv, HandsInv, Selecting
<1>7. p \in InTask
  BY <1>4, <1>6 DEF InTask, IInv, TypeOK, Stages
<1> QED BY <1>5, <1>7 DEF HasTask

\* A scan that goes on, and a wait that goes on, only lose queries and keep tasks.
LEMMA WakerKept ==
    ASSUME WakerInv, InTask \subseteq InTask',
           \/ consumer'.at = "scan" /\ consumer' = consumer /\ pool' = pool
           \/ /\ consumer'.at = "waiting" /\ consumer' = consumer
              /\ Queued(pool)' \subseteq Queued(pool)
           \/ consumer'.at \notin {"scan", "waiting"}
    PROVE  WakerInv'
<1>1. \A k : HasTask(k) => HasTask(k)'
  BY DEF HasTask
<1>2. CASE consumer'.at = "scan" /\ consumer' = consumer /\ pool' = pool
  BY <1>1, <1>2 DEF WakerInv
<1>3. CASE /\ consumer'.at = "waiting" /\ consumer' = consumer
           /\ Queued(pool)' \subseteq Queued(pool)
  BY <1>1, <1>3 DEF WakerInv
<1>4. CASE consumer'.at \notin {"scan", "waiting"}
  BY <1>4 DEF WakerInv
<1> QED BY <1>2, <1>3, <1>4

\* A released task wakes the consumer, and so does a new query.
LEMMA WakerStep ==
    ASSUME IInv, CacheInv, WakerInv, [Next]_vars
    PROVE  WakerInv'
<1> USE DEF IInv
<1>0. /\ consumer.at \in Places
      /\ consumer \in [at : Places, pos : Nat, sel : Queries \cup {NoQuery}]
  BY DEF TypeOK
<1>1. CASE UNCHANGED <<pool, stage, consumer>>
  BY <1>1 DEF WakerInv, HasTask, InTask, Queued
<1>2. CASE UNCHANGED vars
  BY <1>1, <1>2 DEF vars
<1>3. ASSUME NEW k \in SessionKeys, DropIdleSession(k) \/ ResetSession(k)
      PROVE  WakerInv'
  BY <1>1, <1>3 DEF DropIdleSession, ResetSession
<1>4. ASSUME NEW q \in Queries, StageGetsSession(q)
      PROVE  WakerInv'
  BY <1>1, <1>4 DEF StageGetsSession
<1>5. CASE BeginScan
  <2>1. consumer'.pos = 1 /\ consumer'.at = "scan" /\ UNCHANGED <<pool, stage>>
    BY <1>5 DEF BeginScan, At
  <2>2. \A i \in 1..Len(pool.queries) : ~(i < 1)
    BY ScanPositions
  <2> QED BY <2>1, <2>2 DEF WakerInv
<1>6. CASE EndScan
  <2>1. /\ consumer'.at = "waiting" /\ UNCHANGED <<pool, stage>>
        /\ consumer.at = "scan" /\ consumer.pos > Len(pool.queries)
    BY <1>6 DEF EndScan, At
  <2>2. \A q \in Queued(pool) : HasTask(KeyOf[q])
    BY <2>1, ScanPositions DEF WakerInv
  <2> QED BY <2>1, <2>2 DEF WakerInv, HasTask, InTask, Queued
<1>7. CASE SpawnFails \/ Retry \/ SpawnTask \/ UndoRemove \/ UndoRelease
  <2>1. consumer'.at \notin {"scan", "waiting"}
    BY <1>0, <1>7 DEF SpawnFails, Retry, SpawnTask, UndoRemove, UndoRelease, At
  <2> QED BY <2>1 DEF WakerInv
<1>8. ASSUME NEW q \in Queries, SkipQuery(q) \/ SkipAfterReset(q)
      PROVE  WakerInv'
  <2>1. /\ Scanning(q) /\ UNCHANGED <<pool, stage>> /\ HasTask(KeyOf[q])
        /\ consumer'.at = "scan" /\ consumer'.pos = consumer.pos + 1
    <3>1. HasTask(KeyOf[q])
      <4>1. CASE SkipQuery(q)
        BY <4>1, LockedHasTask, PoolAssumption DEF SkipQuery, Scanning
      <4>2. CASE SkipAfterReset(q)
        BY <4>2 DEF SkipAfterReset, ResetInOffer, HasTask
      <4> QED BY <1>8, <4>1, <4>2
    <3> QED BY <1>0, <1>8, <3>1 DEF SkipQuery, SkipAfterReset, ResetInOffer, Scanning
  <2>2. ASSUME NEW i \in 1..Len(pool.queries), i < consumer.pos + 1
        PROVE  HasTask(KeyOf[pool.queries[i]])
    <3>1. CASE i < consumer.pos
      BY <2>1, <3>1 DEF WakerInv, Scanning
    <3>2. CASE i = consumer.pos
      BY <2>1, <3>2 DEF Scanning
    <3> QED BY <2>2, <3>1, <3>2, ScanPositions
  <2> QED BY <2>1, <2>2 DEF WakerInv, HasTask, InTask
<1>9. ASSUME NEW q \in Queries, \/ ClaimAsSteering(q) \/ ClaimAfterReset(q) \/ SelectQuery(q)
                              \/ SelectInNewSession(q) \/ SessionCacheFull(q)
      PROVE  WakerInv'
  <2>1. consumer'.at \notin {"scan", "waiting"}
    BY <1>9 DEF ClaimAsSteering, ClaimAfterReset, SelectQuery, SelectInNewSession, Select, SessionCacheFull, At
  <2> QED BY <2>1 DEF WakerInv
<1>10. ASSUME NEW q \in Queries, AddQuery(q) \/ ReleaseSlots(q)
       PROVE  WakerInv'
  <2>1. refused' = {}
    BY PoolStep DEF PoolInv
  <2>2. consumer' = Woken /\ LockFree
    BY <1>10, <2>1 DEF AddQuery, ReleaseSlots
  <2>3. consumer'.at \notin {"scan", "waiting"}
    BY <2>2 DEF Woken, LockFree, At
  <2> QED BY <2>3 DEF WakerInv
<1>11. ASSUME NEW q \in Queries, PipelineEnds(q) \/ RemoveEnded(q)
       PROVE  WakerInv'
  <2>1. Queued(pool') = Queued(pool) \ {q}
    BY <1>11, RemoveProperties DEF PipelineEnds, RemoveEnded, PoolInv
  <2>2. InTask \subseteq InTask' /\ consumer' = consumer /\ consumer.at # "scan"
    BY <1>11 DEF PipelineEnds, RemoveEnded, InTask, TypeOK, LockFree
  <2> QED BY <2>1, <2>2, WakerKept DEF Queued
<1>12. ASSUME NEW q \in Queries, TaskAborts(q)
       PROVE  WakerInv'
  <2>1. InTask \subseteq InTask' /\ consumer' = consumer /\ pool' = pool
    BY <1>12 DEF TaskAborts, InTask, TypeOK
  <2> QED BY <2>1, WakerKept
<1> QED BY <1>2, <1>3, <1>4, <1>5, <1>6, <1>7, <1>8, <1>9, <1>10, <1>11, <1>12
        DEF Next, Consumer, Task

\* When the consumer goes to sleep, a task of the session of each queued query runs.
LEMMA InductiveWaker == Spec => [](IInv /\ CacheInv /\ WakerInv)
<1>1. Init => CacheInv /\ WakerInv
  BY DEF Init, CacheInv, WakerInv, At
<1>2. IInv /\ CacheInv /\ WakerInv /\ [Next]_vars => CacheInv' /\ WakerInv'
  BY CacheStep, WakerStep
<1> QED BY <1>1, <1>2, Inductive, PTL DEF Spec

\* With resets or without, a sleeping consumer has somebody to wake it: every
\* queued query has a task of its session, which notifies when it ends.
THEOREM WakerAlwaysExists == Spec => []WakerExists
<1>1. WakerInv => WakerExists
  BY DEF WakerInv, WakerExists, HasTask
<1> QED BY InductiveWaker, <1>1, PTL

-----------------------------------------------------------------------------
(* Without resets *)

\* The session of a query that holds a slot stays cached: it is not idle.
KeptInv ==
    \A p \in Queries : sess[p] # NoSession => index[KeyOf[p]] = sess[p]

\* The queries a scan has passed, and those a sleeping consumer left in the
\* queue, wait for sessions without a slot.
LockedInv ==
    /\ consumer.at = "scan" =>
          \A i \in 1..Len(pool.queries) :
             i < consumer.pos => SessionLocked(KeyOf[pool.queries[i]])
    /\ consumer.at = "waiting" => \A q \in Queued(pool) : SessionLocked(KeyOf[q])

NoResetInv == IInv /\ CacheInv /\ KeptInv /\ LockedInv

\* An idle session has no holder.
LEMMA IdleUnheld ==
    ASSUME IInv, NEW k \in IdleKeys, NEW p \in Queries
    PROVE  sess[p] # index[k] /\ ~SessionLocked(k)
<1> DEFINE o == index[k]
<1>1. o \in SessionObjs /\ value[o] = SessionSlots
  BY DEF IdleKeys, Cached, IInv, TypeOK
<1>2. value[o] + Cardinality(Holders(o)) = SessionSlots /\ Cardinality(Holders(o)) \in Nat
      /\ IsFiniteSet(Holders(o))
  BY <1>1, QuerySets DEF IInv, SlotsConserved, Holders
<1>3. Holders(o) = {}
  <2>1. Cardinality(Holders(o)) = 0
    BY <1>1, <1>2
  <2> QED BY <1>2, <2>1, FS_EmptySet
<1> QED BY <1>1, <1>3 DEF Holders, SessionLocked

\* What a step without a reset does to the cache when it selects nothing.
LEMMA CacheStable ==
    ASSUME ~AllowReset, IInv, [Next]_vars
    PROVE  \/ \E q \in Queries : SelectQuery(q) \/ SelectInNewSession(q)
           \/ UndoRelease
           \/ \E q \in Queries : ReleaseSlots(q)
           \/ /\ UNCHANGED <<sess, value>>
              /\ \A k \in SessionKeys \ IdleKeys : index[k] # NoSession => index'[k] = index[k]
<1> DEFINE Stable == /\ UNCHANGED <<sess, value>>
                     /\ \A k \in SessionKeys \ IdleKeys :
                           index[k] # NoSession => index'[k] = index[k]
<1>1. CASE \/ BeginScan \/ EndScan \/ SpawnTask \/ SpawnFails \/ UndoRemove \/ Retry
           \/ UNCHANGED vars
           \/ \E q \in Queries : \/ AddQuery(q) \/ SkipQuery(q) \/ ClaimAsSteering(q)
                                 \/ PipelineEnds(q) \/ TaskAborts(q) \/ RemoveEnded(q)
  <2>1. UNCHANGED <<index, sess, value>>
    BY <1>1 DEF BeginScan, EndScan, SpawnTask, SpawnFails, UndoRemove, Retry, vars, AddQuery,
                SkipQuery, ClaimAsSteering, PipelineEnds, TaskAborts, RemoveEnded
  <2> QED BY <2>1
<1>2. ASSUME NEW k \in SessionKeys, DropIdleSession(k) \/ ResetSession(k)
      PROVE  Stable
  BY <1>2 DEF DropIdleSession, ResetSession, IInv, TypeOK
<1>3. ASSUME NEW k \in SessionKeys, NEW gone \in Prunings(k), NoRoom(k, gone)
      PROVE  \A l \in SessionKeys \ IdleKeys : index[l] # NoSession => index'[l] = index[l]
  BY <1>3 DEF NoRoom, Pruned, Prunings
<1>4. ASSUME NEW q \in Queries, SessionCacheFull(q)
      PROVE  Stable
  BY <1>3, <1>4, PoolAssumption DEF SessionCacheFull
<1>5. ASSUME NEW q \in Queries, StageGetsSession(q)
      PROVE  Stable
  <2>1. KeyOf[q] \in SessionKeys /\ index[KeyOf[q]] = NoSession
    BY <1>5, PoolAssumption DEF StageGetsSession, GetMissingSession
  <2>2. UNCHANGED <<sess, value>>
    BY <1>5, <2>1, MissingProperties DEF StageGetsSession, IInv
  <2>3. PICK gone \in Prunings(KeyOf[q]) : Create(KeyOf[q], gone) \/ NoRoom(KeyOf[q], gone)
    BY <1>5 DEF StageGetsSession, GetMissingSession
  <2>4. CASE Create(KeyOf[q], gone)
    <3>1. index' = [Pruned(gone) EXCEPT ![KeyOf[q]] = FreshSession]
      BY <2>4 DEF Create
    <3> HIDE DEF FreshSession
    <3>2. \A l \in SessionKeys \ IdleKeys : index[l] # NoSession => index'[l] = index[l]
      BY <2>1, <2>3, <3>1 DEF Pruned, Prunings
    <3> QED BY <2>2, <3>2
  <2> QED BY <1>3, <2>1, <2>2, <2>3, <2>4
<1>6. ~\E q \in Queries : SkipAfterReset(q) \/ ClaimAfterReset(q)
  BY DEF SkipAfterReset, ClaimAfterReset, ResetInOffer
<1> QED BY <1>1, <1>2, <1>4, <1>5, <1>6 DEF Next, Consumer, Task

\* Without resets a session that a query holds is not replaced in the cache.
LEMMA KeptStep ==
    ASSUME ~AllowReset, IInv, CacheInv, KeptInv, [Next]_vars
    PROVE  KeptInv'
<1> USE DEF IInv
<1>1. ASSUME UNCHANGED sess,
             \A k \in SessionKeys \ IdleKeys : index[k] # NoSession => index'[k] = index[k]
      PROVE  KeptInv'
  <2> SUFFICES ASSUME NEW p \in Queries, sess[p] # NoSession
               PROVE  index'[KeyOf[p]] = sess[p]
    BY <1>1 DEF KeptInv
  <2>1. KeyOf[p] \in SessionKeys /\ index[KeyOf[p]] = sess[p]
    BY PoolAssumption DEF KeptInv
  <2>2. KeyOf[p] \notin IdleKeys
    BY <2>1, IdleUnheld
  <2> QED BY <1>1, <2>1, <2>2
<1>2. ASSUME NEW q \in Queries, SelectQuery(q)
      PROVE  KeptInv'
  BY <1>2 DEF SelectQuery, Select, KeptInv, TypeOK
<1>3. ASSUME NEW q \in Queries, SelectInNewSession(q)
      PROVE  KeptInv'
  <2> DEFINE k == KeyOf[q]
  <2>1. k \in SessionKeys /\ index[k] = NoSession
    BY <1>3, PoolAssumption DEF SelectInNewSession
  <2>2. PICK gone \in Prunings(k) : Create(k, gone)
    BY <1>3 DEF SelectInNewSession
  <2>3. /\ index' = [Pruned(gone) EXCEPT ![k] = FreshSession]
        /\ sess' = [sess EXCEPT ![q] = FreshSession]
    BY <1>3, <2>2 DEF SelectInNewSession, Select, Create
  <2> HIDE DEF FreshSession
  <2>4. index'[k] = FreshSession /\ sess'[q] = FreshSession
    BY <2>1, <2>3 DEF Pruned, TypeOK
  <2> SUFFICES ASSUME NEW p \in Queries, p # q, sess'[p] # NoSession
               PROVE  index'[KeyOf[p]] = sess'[p]
    BY <2>4 DEF KeptInv
  <2>5. sess'[p] = sess[p]
    BY <2>3 DEF TypeOK
  <2>6. index[KeyOf[p]] = sess[p] /\ KeyOf[p] # k /\ KeyOf[p] \in SessionKeys
    BY <2>1, <2>5, PoolAssumption DEF KeptInv
  <2>7. KeyOf[p] \notin gone
    BY <2>2, <2>6, IdleUnheld DEF Prunings
  <2> QED BY <2>3, <2>5, <2>6, <2>7 DEF Pruned
<1>4. CASE UndoRelease
  <2>1. UNCHANGED index /\ sess' = [sess EXCEPT ![consumer.sel] = NoSession]
    BY <1>4 DEF UndoRelease
  <2> QED BY <2>1 DEF KeptInv, TypeOK
<1>5. ASSUME NEW q \in Queries, ReleaseSlots(q)
      PROVE  KeptInv'
  <2>1. UNCHANGED index /\ sess' = [sess EXCEPT ![q] = NoSession]
    BY <1>5 DEF ReleaseSlots
  <2> QED BY <2>1 DEF KeptInv, TypeOK
<1> QED BY <1>1, <1>2, <1>3, <1>4, <1>5, CacheStable

\* Only a release unlocks a session, and it wakes the consumer.
LEMMA LockedStep ==
    ASSUME ~AllowReset, IInv, LockedInv, [Next]_vars
    PROVE  LockedInv'
<1> USE DEF IInv
<1>0. /\ consumer.at \in Places
      /\ consumer \in [at : Places, pos : Nat, sel : Queries \cup {NoQuery}]
  BY DEF TypeOK
<1>1. CASE consumer'.at \notin {"scan", "waiting"}
  BY <1>1 DEF LockedInv
<1>2. ASSUME NEW q \in Queries, SelectQuery(q) \/ SelectInNewSession(q)
      PROVE  LockedInv'
  <2>1. consumer'.at \notin {"scan", "waiting"}
    BY <1>2 DEF SelectQuery, SelectInNewSession, Select, At
  <2> QED BY <1>1, <2>1
<1>3. CASE UndoRelease
  BY <1>1, <1>3 DEF UndoRelease, At
<1>4. ASSUME NEW q \in Queries, AddQuery(q) \/ ReleaseSlots(q)
      PROVE  LockedInv'
  <2>1. refused' = {}
    BY PoolStep DEF PoolInv
  <2>2. consumer' = Woken /\ LockFree
    BY <1>4, <2>1 DEF AddQuery, ReleaseSlots
  <2>3. consumer'.at \notin {"scan", "waiting"}
    BY <2>2 DEF Woken, LockFree, At
  <2> QED BY <1>1, <2>3
<1>5. ASSUME UNCHANGED <<sess, value>>,
             \A k \in SessionKeys \ IdleKeys : index[k] # NoSession => index'[k] = index[k],
             ~\E q \in Queries : AddQuery(q) \/ ReleaseSlots(q)
                               \/ SelectQuery(q) \/ SelectInNewSession(q),
             ~UndoRelease
      PROVE  LockedInv'
  <2>1. \A k \in SessionKeys : SessionLocked(k) => SessionLocked(k)'
    BY <1>5 DEF SessionLocked, IdleKeys
  <2>2. \A q \in Queued(pool) : KeyOf[q] \in SessionKeys
    BY ScanPositions, PoolAssumption
  <2>3. CASE consumer' = consumer /\ pool' = pool
    BY <2>1, <2>2, <2>3, ScanPositions DEF LockedInv, Queued
  <2>4. CASE consumer' = consumer /\ LockFree /\ Queued(pool)' \subseteq Queued(pool)
    BY <2>1, <2>2, <2>4 DEF LockedInv, LockFree
  <2>5. CASE BeginScan
    <3>1. consumer'.pos = 1 /\ consumer'.at = "scan" /\ UNCHANGED pool
      BY <2>5 DEF BeginScan, At
    <3>2. \A i \in 1..Len(pool.queries) : ~(i < 1)
      BY ScanPositions
    <3> QED BY <3>1, <3>2 DEF LockedInv
  <2>6. CASE EndScan
    <3>1. /\ consumer'.at = "waiting" /\ UNCHANGED pool
          /\ consumer.at = "scan" /\ consumer.pos > Len(pool.queries)
      BY <2>6 DEF EndScan, At
    <3>2. \A q \in Queued(pool) : SessionLocked(KeyOf[q])
      BY <3>1, ScanPositions DEF LockedInv
    <3> QED BY <2>1, <2>2, <3>1, <3>2 DEF LockedInv, Queued
  <2>7. ASSUME NEW q \in Queries, SkipQuery(q)
        PROVE  LockedInv'
    <3>1. /\ Scanning(q) /\ UNCHANGED pool /\ SessionLocked(KeyOf[q])
          /\ consumer'.at = "scan" /\ consumer'.pos = consumer.pos + 1
      BY <1>0, <2>7 DEF SkipQuery, Scanning
    <3>2. ASSUME NEW i \in 1..Len(pool.queries), i < consumer.pos + 1
          PROVE  SessionLocked(KeyOf[pool.queries[i]])
      <4>1. CASE i < consumer.pos
        BY <3>1, <4>1 DEF LockedInv, Scanning
      <4>2. CASE i = consumer.pos
        BY <3>1, <4>2 DEF Scanning
      <4> QED BY <3>2, <4>1, <4>2, ScanPositions
    <3>3. \A i \in 1..Len(pool.queries) : KeyOf[pool.queries[i]] \in SessionKeys
      BY <2>2, ScanPositions
    <3> QED BY <2>1, <3>1, <3>2, <3>3 DEF LockedInv
  <2>8. CASE SpawnFails \/ Retry \/ SpawnTask \/ UndoRemove
    <3>1. consumer'.at \notin {"scan", "waiting"}
      BY <1>0, <2>8 DEF SpawnFails, Retry, SpawnTask, UndoRemove, At
    <3> QED BY <1>1, <3>1
  <2>9. ASSUME NEW q \in Queries, ClaimAsSteering(q) \/ SessionCacheFull(q)
        PROVE  LockedInv'
    <3>1. consumer'.at \notin {"scan", "waiting"}
      BY <2>9 DEF ClaimAsSteering, SessionCacheFull, At
    <3> QED BY <1>1, <3>1
  <2>10. ASSUME NEW q \in Queries, PipelineEnds(q) \/ RemoveEnded(q)
         PROVE  LockedInv'
    <3>1. Queued(pool') = Queued(pool) \ {q}
      BY <2>10, RemoveProperties DEF PipelineEnds, RemoveEnded, PoolInv
    <3>2. consumer' = consumer /\ LockFree
      BY <2>10 DEF PipelineEnds, RemoveEnded
    <3> QED BY <2>4, <3>1, <3>2 DEF Queued
  <2>11. ASSUME NEW q \in Queries, TaskAborts(q) \/ StageGetsSession(q)
         PROVE  LockedInv'
    BY <2>3, <2>11 DEF TaskAborts, StageGetsSession
  <2>12. ASSUME NEW k \in SessionKeys, DropIdleSession(k) \/ ResetSession(k)
         PROVE  LockedInv'
    BY <2>3, <2>12 DEF DropIdleSession, ResetSession
  <2>13. CASE UNCHANGED vars
    BY <2>3, <2>13 DEF vars
  <2>14. ~\E q \in Queries : SkipAfterReset(q) \/ ClaimAfterReset(q)
    BY DEF SkipAfterReset, ClaimAfterReset, ResetInOffer
  <2> QED BY <1>5, <2>5, <2>6, <2>7, <2>8, <2>9, <2>10, <2>11, <2>12, <2>13, <2>14
          DEF Next, Consumer, Task
<1> QED BY <1>2, <1>3, <1>4, <1>5, CacheStable

\* Without resets the whole of NoResetInv is inductive.
LEMMA InductiveNoReset ==
    ASSUME ~AllowReset
    PROVE  Spec => []NoResetInv
<1>1. Init => CacheInv /\ KeptInv /\ LockedInv
  BY DEF Init, CacheInv, KeptInv, LockedInv, At
<1>2. NoResetInv /\ [Next]_vars => CacheInv' /\ KeptInv' /\ LockedInv'
  BY CacheStep, KeptStep, LockedStep DEF NoResetInv
<1> QED BY <1>1, <1>2, Inductive, PTL DEF Spec, NoResetInv

\* Where conversations are not reset, queries of one session never run on more
\* slots than concurrency.session, although idle sessions are evicted and made
\* again: a session with a started query is not idle.
THEOREM SessionsBounded ==
    ASSUME ~AllowReset
    PROVE  Spec => []SessionConcurrency
<1>1. NoResetInv => SessionConcurrency
  <2> SUFFICES ASSUME NoResetInv, NEW k \in SessionKeys
               PROVE  Cardinality(Started(k)) <= SessionSlots
    BY DEF SessionConcurrency
  <2> USE DEF NoResetInv, IInv
  <2>1. CASE Started(k) = {}
    BY <2>1, FS_EmptySet
  <2>2. CASE Started(k) # {}
    <3> DEFINE o == index[k]
    <3>1. \A p \in Started(k) : sess[p] = o /\ o # NoSession
      BY DEF Started, HandsInv, KeptInv
    <3>2. Started(k) \subseteq Holders(o) /\ o \in SessionObjs
      BY <2>2, <3>1 DEF Started, Holders, TypeOK
    <3>3. IsFiniteSet(Holders(o)) /\ Cardinality(Holders(o)) \in Nat
      BY QuerySets DEF Holders
    <3>4. Cardinality(Started(k)) <= Cardinality(Holders(o)) /\ Cardinality(Started(k)) \in Nat
      BY <3>2, <3>3, FS_Subset, FS_CardinalityType
    <3>5. value[o] + Cardinality(Holders(o)) = SessionSlots /\ value[o] \in Nat
      BY <3>2 DEF SlotsConserved, TypeOK
    <3> QED BY <3>3, <3>4, <3>5
  <2> QED BY <2>1, <2>2
<1> QED BY InductiveNoReset, <1>1, PTL

\* Nor is a wake-up lost: a sleeping consumer leaves only queries whose session
\* has no slot.
THEOREM WakeUpsKept ==
    ASSUME ~AllowReset
    PROVE  Spec => []NoLostWakeup
<1>1. NoResetInv => NoLostWakeup
  BY DEF NoResetInv, LockedInv, NoLostWakeup
<1> QED BY InductiveNoReset, <1>1, PTL

-----------------------------------------------------------------------------
(* The order of the queue *)

\* Nobody overtakes from s to t.
Ordered(s, t) ==
    \A p, q \in Queries : Ahead(s, p, q) /\ p \in Range(t) => Ahead(t, p, q)

LEMMA OrderedWithoutIndex ==
    ASSUME NEW s \in Seq(Queries), IsInjective(s), NEW i \in 1..Len(s)
    PROVE  Ordered(s, RemoveAt(s, i))
<1> DEFINE t == RemoveAt(s, i)
           n == Len(s)
<1>1. /\ t \in Seq(Queries) /\ Len(t) = n - 1
      /\ \A j \in 1..(n - 1) : t[j] = IF j < i THEN s[j] ELSE s[j + 1]
      /\ Range(t) = Range(s) \ {s[i]}
  BY RemoveAtProperties, DequeueAt
<1>2. n \in Nat /\ DOMAIN s = 1..n /\ DOMAIN t = 1..(n - 1)
  BY <1>1, LenProperties
<1> HIDE DEF t
<1> SUFFICES ASSUME NEW p \in Queries, NEW q \in Queries, Ahead(s, p, q), p \in Range(t)
             PROVE  Ahead(t, p, q)
  BY DEF Ordered, t
<1>3. PICK a \in 1..n : s[a] = p /\ \A j \in 1..a : s[j] # q
  BY <1>2 DEF Ahead
<1>4. CASE a < i
  <2>1. a \in 1..(n - 1) /\ \A j \in 1..a : j \in 1..(n - 1) /\ t[j] = s[j]
    BY <1>1, <1>2, <1>4
  <2> QED BY <1>2, <1>3, <2>1 DEF Ahead
<1>5. CASE a > i
  <2>1. a - 1 \in 1..(n - 1) /\ t[a - 1] = s[a]
    <3>1. a - 1 \in 1..(n - 1) /\ ~(a - 1 < i) /\ (a - 1) + 1 = a
      BY <1>2, <1>5
    <3> QED BY <1>1, <3>1
  <2>2. ASSUME NEW j \in 1..(a - 1)
        PROVE  t[j] # q
    <3>1. j \in 1..(n - 1) /\ j \in 1..a /\ j + 1 \in 1..a
      BY <1>2
    <3> QED BY <1>1, <1>3, <3>1
  <2> QED BY <1>2, <1>3, <2>1, <2>2 DEF Ahead
<1>6. a # i
  BY <1>1, <1>3
<1> QED BY <1>2, <1>4, <1>5, <1>6

LEMMA OrderedWithoutQuery ==
    ASSUME NEW s \in Seq(Queries), IsInjective(s), NEW x \in Queries
    PROVE  Ordered(s, RemoveFirst(s, x))
<1>1. CASE \E i \in 1..Len(s) : s[i] = x
  <2> DEFINE I == {i \in 1..Len(s) : s[i] = x}
  <2>1. I \in SUBSET Nat /\ I # {}
    BY <1>1, LenProperties
  <2>2. Min(I) \in I
    BY <2>1, SmallestExists
  <2>3. RemoveFirst(s, x) = RemoveAt(s, Min(I))
    BY <1>1, <2>1 DEF RemoveFirst, SelectInSeq
  <2> QED BY <2>2, <2>3, OrderedWithoutIndex
<1>2. CASE ~\E i \in 1..Len(s) : s[i] = x
  BY <1>2 DEF RemoveFirst, Ordered
<1> QED BY <1>1, <1>2

LEMMA OrderedTransitive ==
    ASSUME NEW s, NEW t, NEW u, Ordered(s, t), Ordered(t, u), Range(u) \subseteq Range(t)
    PROVE  Ordered(s, u)
  BY DEF Ordered

\* Discarding the oldest query of a workspace leaves the order of the others.
LEMMA OrderedDiscard ==
    ASSUME NEW p, WellFormed(p), NEW W, OldestOf(p, W) # 0
    PROVE  /\ WellFormed(DiscardQueued(p, OldestOf(p, W)))
           /\ Ordered(p.queries, DiscardQueued(p, OldestOf(p, W)).queries)
           /\ Queued(DiscardQueued(p, OldestOf(p, W))) \subseteq Queued(p)
<1>1. p \in Pools /\ p.queries \in Seq(Queries) /\ IsInjective(p.queries)
  BY DEF WellFormed, Pools
<1>2. OldestOf(p, W) \in 1..Len(p.queries)
  BY <1>1, OldestOfProperties, LenProperties
<1> DEFINE i == OldestOf(p, W)
<1> HIDE DEF i
<1>3. DiscardQueued(p, i).queries = RemoveAt(p.queries, i)
  BY <1>1 DEF DiscardQueued, Pools
<1> QED BY <1>1, <1>2, <1>3, OrderedWithoutIndex, DiscardProperties DEF i

LEMMA OrderedAdmit ==
    ASSUME NEW p, WellFormed(p), NEW w \in Workspaces, Admits(p, w)
    PROVE  Ordered(p.queries, Admit(p, w).queries)
<1> DEFINE r == AdmitWs(p, w)
           a == Admit(p, w)
<1>1. /\ WellFormed(r) /\ Ordered(p.queries, r.queries)
  <2>1. CASE WsFull(p, w)
    BY <2>1, OrderedDiscard DEF AdmitWs, Admits
  <2>2. CASE ~WsFull(p, w)
    BY <2>2 DEF AdmitWs, Ordered
  <2> QED BY <2>1, <2>2
<1>2. PoolFull(r) => OldestOf(r, Workspaces) # 0
  BY DEF Admits
<1>3. a = IF PoolFull(r) THEN DiscardQueued(r, OldestOf(r, Workspaces)) ELSE r
  BY DEF Admit
<1> HIDE DEF r, a
<1>4. CASE PoolFull(r)
  <2>1. Ordered(r.queries, a.queries) /\ Range(a.queries) \subseteq Range(r.queries)
    BY <1>1, <1>2, <1>3, <1>4, OrderedDiscard DEF Queued
  <2>2. Ordered(p.queries, a.queries)
    BY <1>1, <2>1, OrderedTransitive
  <2> QED BY <2>2 DEF a
<1>5. CASE ~PoolFull(r)
  <2>1. Ordered(p.queries, a.queries)
    BY <1>1, <1>3, <1>5
  <2> QED BY <2>1 DEF a
<1> QED BY <1>4, <1>5

\* A query that is added goes to the end.
LEMMA OrderedAdd ==
    ASSUME NEW p, WellFormed(p), NEW x \in Queries \ p.cached, Admits(p, Ws(x))
    PROVE  Ordered(p.queries, Supersede(Insert(Admit(p, Ws(x)), x), Scope(x)).queries)
<1> DEFINE a == Admit(p, Ws(x))
           b == Insert(a, x)
           r == Supersede(b, Scope(x))
<1>1. Ws(x) \in Workspaces
  BY ScopeTyping
<1>2. WellFormed(a) /\ Ordered(p.queries, a.queries) /\ a \in Pools
  BY <1>1, AdmitProperties, OrderedAdmit DEF WellFormed
<1> HIDE DEF a
<1>3. a.queries \in Seq(Queries) /\ b.queries = Append(a.queries, x) /\ r.queries = b.queries
  BY <1>2 DEF Pools, Insert, Supersede, Forget
<1>4. /\ Len(a.queries) \in Nat /\ DOMAIN a.queries = 1..Len(a.queries)
      /\ DOMAIN r.queries = 1..(Len(a.queries) + 1)
      /\ \A j \in 1..Len(a.queries) : r.queries[j] = a.queries[j]
      /\ r.queries[Len(a.queries) + 1] = x
  BY <1>3, AppendProperties, LenProperties
<1> HIDE DEF b, r
<1>5. ASSUME NEW u \in Queries, NEW v \in Queries, Ahead(p.queries, u, v), u \in Range(r.queries)
      PROVE  Ahead(r.queries, u, v)
  <2>1. u # x
    <3>1. u \in Queued(p) /\ Queued(p) \subseteq p.cached
      BY <1>5 DEF Ahead, Queued, Range, WellFormed
    <3> QED BY <3>1
  <2>2. u \in Range(a.queries)
    <3>1. PICK j \in 1..(Len(a.queries) + 1) : r.queries[j] = u
      BY <1>4, <1>5 DEF Range
    <3>2. j \in 1..Len(a.queries)
      BY <1>4, <2>1, <3>1
    <3> QED BY <1>4, <3>1, <3>2 DEF Range
  <2>3. PICK i \in 1..Len(a.queries) :
           a.queries[i] = u /\ \A j \in 1..i : a.queries[j] # v
    BY <1>2, <1>4, <1>5, <2>2 DEF Ordered, Ahead
  <2>4. i \in 1..(Len(a.queries) + 1) /\ \A j \in 1..i : j \in 1..Len(a.queries)
    BY <1>4
  <2> QED BY <1>4, <2>3, <2>4 DEF Ahead
<1> QED BY <1>5 DEF Ordered, r, b, a

\* No step changes the order of what stays in the queue.
LEMMA QueueOrder ==
    ASSUME IInv, [Next]_vars
    PROVE  Ordered(pool.queries, pool'.queries)
<1> USE DEF IInv
<1>1. WellFormed(pool) /\ pool \in Pools /\ pool.queries \in Seq(Queries)
      /\ IsInjective(pool.queries)
  BY DEF PoolInv, WellFormed, Pools
<1>2. CASE UNCHANGED pool
  BY <1>2 DEF Ordered
<1>3. ASSUME NEW x \in Queries, pool' = RemoveQuery(pool, x) \/ pool' = MarkRunning(pool, x)
      PROVE  Ordered(pool.queries, pool'.queries)
  <2>1. pool'.queries = pool.queries \/ pool'.queries = RemoveFirst(pool.queries, x)
    BY <1>1, <1>3 DEF RemoveQuery, MarkRunning, Pools
  <2> QED BY <1>1, <2>1, OrderedWithoutQuery DEF Ordered
<1>4. ASSUME NEW x \in Queries, AddQuery(x)
      PROVE  Ordered(pool.queries, pool'.queries)
  <2> DEFINE r == Supersede(Insert(Admit(pool, Ws(x)), x), Scope(x))
  <2>1. x \in Queries \ pool.cached /\ Admits(pool, Ws(x))
    BY <1>4 DEF AddQuery
  <2>2. WellFormed(r) /\ r \in Pools /\ Ordered(pool.queries, r.queries)
    BY <1>1, <2>1, AddedProperties, OrderedAdd DEF WellFormed
  <2>3. pool' = Forget(r, Stale(r)) \/ \E V : pool' = Count(Forget(r, V), Scope(x))
    BY <1>4 DEF AddQuery
  <2> HIDE DEF r
  <2>4. pool'.queries = r.queries
    BY <2>2, <2>3 DEF Forget, Count, Pools
  <2> QED BY <2>2, <2>4
<1>5. CASE UndoRemove
  BY <1>3, <1>5 DEF UndoRemove, HandsInv, Selecting
<1> QED BY <1>2, <1>3, <1>4, <1>5, PoolSteps
        DEF Quiet, SpawnTask, UndoRelease, ClaimAsSteering, ClaimAfterReset, SelectQuery,
            SelectInNewSession, Select, PipelineEnds, TaskAborts, RemoveEnded, ReleaseSlots

\* The step formula of StartsInOrder.
OrderedStart ==
    pool' # pool =>
       \A p \in Queued(pool), q \in Queries :
          KeyOf[p] = KeyOf[q] /\ Ahead(pool.queries, p, q) =>
             /\ stage[q] = "none" => stage'[q] # "selected"
             /\ p \in Queued(pool') => Ahead(pool'.queries, p, q)

\* A scan passes a query only while its session has no slot, and the session gets
\* none before the scan ends.
LEMMA NobodySelectedBefore ==
    ASSUME NoResetInv, [Next]_vars, NEW q \in Queries, stage[q] = "none", stage'[q] = "selected",
           NEW p \in Queued(pool), Ahead(pool.queries, p, q)
    PROVE  KeyOf[p] # KeyOf[q]
<1> USE DEF NoResetInv, IInv
<1>1. SelectQuery(q) \/ SelectInNewSession(q)
  <2>1. ~Quiet /\ ~SpawnTask /\ ~UndoRelease /\ ~UndoRemove
    BY DEF Quiet, SpawnTask, UndoRelease, UndoRemove, TypeOK
  <2>2. \A x \in Queries : /\ ~AddQuery(x) /\ ~ClaimAsSteering(x) /\ ~ClaimAfterReset(x)
                           /\ ~PipelineEnds(x)
                           /\ ~TaskAborts(x) /\ ~RemoveEnded(x) /\ ~ReleaseSlots(x)
    BY DEF AddQuery, ClaimAsSteering, ClaimAfterReset, ResetInOffer, PipelineEnds, TaskAborts,
           RemoveEnded, ReleaseSlots, TypeOK
  <2>3. \A x \in Queries : SelectQuery(x) \/ SelectInNewSession(x) => x = q
    BY DEF SelectQuery, SelectInNewSession, Select, TypeOK
  <2> QED BY <2>1, <2>2, <2>3, PoolSteps
<1>2. Scanning(q) /\ ~SessionLocked(KeyOf[q])
  BY <1>1 DEF SelectQuery, SelectInNewSession, SessionLocked
<1>3. DOMAIN pool.queries = 1..Len(pool.queries) /\ Len(pool.queries) \in Nat
  <2>1. pool.queries \in Seq(Queries)
    BY DEF TypeOK, Pools
  <2> QED BY <2>1, LenProperties
<1>4. PICK i \in 1..Len(pool.queries) :
         pool.queries[i] = p /\ \A j \in 1..i : pool.queries[j] # q
  BY <1>3 DEF Ahead
<1>5. i < consumer.pos
  <2>1. consumer.pos \in Nat /\ consumer.pos # 0 /\ pool.queries[consumer.pos] = q
    BY <1>2 DEF TypeOK, HandsInv, Scanning
  <2> QED BY <1>3, <1>4, <2>1
<1>6. SessionLocked(KeyOf[p])
  BY <1>2, <1>4, <1>5 DEF LockedInv, Scanning
<1> QED BY <1>2, <1>6

LEMMA OrderStep ==
    ASSUME NoResetInv, [Next]_vars
    PROVE  OrderedStart
<1>1. ASSUME NEW p \in Queued(pool), NEW q \in Queries,
             KeyOf[p] = KeyOf[q], Ahead(pool.queries, p, q)
      PROVE  stage[q] = "none" => stage'[q] # "selected"
  BY <1>1, NobodySelectedBefore
<1>2. ASSUME NEW p \in Queued(pool), NEW q \in Queries,
             Ahead(pool.queries, p, q), p \in Queued(pool')
      PROVE  Ahead(pool'.queries, p, q)
  <2>1. p \in Queries
    BY DEF NoResetInv, IInv, PoolInv, WellFormed, Pools
  <2> QED BY <1>2, <2>1, QueueOrder DEF NoResetInv, Ordered, Queued
<1> QED BY <1>1, <1>2 DEF OrderedStart

\* And the queries of a session start in the order they arrived in.
THEOREM OrderKept ==
    ASSUME ~AllowReset
    PROVE  Spec => StartsInOrder
<1>1. NoResetInv /\ [Next]_vars => [OrderedStart]_vars
  BY OrderStep
<1>2. Spec => [][OrderedStart]_vars
  BY <1>1, InductiveNoReset, PTL DEF Spec
<1> QED BY <1>2 DEF StartsInOrder, OrderedStart

-----------------------------------------------------------------------------
(* The scheduler implements ConversationQueues *)

LEMMA AheadTotal ==
    ASSUME NEW s \in Seq(Queries), IsInjective(s),
           NEW p \in Range(s), NEW q \in Range(s), p # q
    PROVE  Ahead(s, p, q) \/ Ahead(s, q, p)
<1>1. DOMAIN s = 1..Len(s) /\ Len(s) \in Nat
  BY LenProperties
<1>2. \A k, l \in 1..Len(s) : s[k] = s[l] => k = l
  BY <1>1 DEF IsInjective
<1>3. PICK i \in 1..Len(s) : s[i] = p
  BY <1>1 DEF Range
<1>4. PICK j \in 1..Len(s) : s[j] = q
  BY <1>1 DEF Range
<1>5. CASE i < j
  <2>1. \A k \in 1..i : k \in 1..Len(s) /\ k # j
    BY <1>1, <1>5
  <2> QED BY <1>1, <1>2, <1>3, <1>4, <2>1 DEF Ahead
<1>6. CASE j < i
  <2>1. \A k \in 1..j : k \in 1..Len(s) /\ k # i
    BY <1>1, <1>6
  <2> QED BY <1>1, <1>2, <1>3, <1>4, <2>1 DEF Ahead
<1> QED BY <1>3, <1>4, <1>5, <1>6

LEMMA AheadApart ==
    ASSUME NEW s \in Seq(Queries), NEW p, NEW q, Ahead(s, p, q)
    PROVE  ~Ahead(s, q, p) /\ p # q /\ p \in Range(s)
<1>1. DOMAIN s = 1..Len(s) /\ Len(s) \in Nat
  BY LenProperties
<1>2. PICK i \in 1..Len(s) : s[i] = p /\ \A k \in 1..i : s[k] # q
  BY <1>1 DEF Ahead
<1>3. p # q /\ p \in Range(s)
  BY <1>1, <1>2 DEF Range
<1>4. ASSUME NEW j \in 1..Len(s), s[j] = q, \A k \in 1..j : s[k] # p
      PROVE  FALSE
  BY <1>1, <1>2, <1>4
<1> QED BY <1>1, <1>3, <1>4 DEF Ahead

\* A queue that lost some of its queries keeps the pairs of the others.
LEMMA BeforeStays ==
    ASSUME NEW s \in Seq(Queries), NEW t \in Seq(Queries), IsInjective(s),
           Ordered(s, t), Range(t) \subseteq Range(s)
    PROVE  Before(t) = Before(s) \cap (Range(t) \X Range(t))
<1>1. Range(s) \subseteq Queries
  BY LenProperties DEF Range
<1>2. ASSUME NEW p \in Range(t), NEW q \in Range(t)
      PROVE  Ahead(t, p, q) <=> Ahead(s, p, q)
  <2>1. p \in Queries /\ q \in Queries /\ p \in Range(s) /\ q \in Range(s)
    BY <1>1
  <2>2. Ahead(s, p, q) => Ahead(t, p, q)
    BY <2>1 DEF Ordered
  <2>3. ASSUME Ahead(t, p, q)
        PROVE  Ahead(s, p, q)
    <3>1. p # q /\ ~Ahead(t, q, p)
      BY <2>3, AheadApart
    <3>2. ~Ahead(s, q, p)
      BY <2>1, <3>1 DEF Ordered
    <3> QED BY <2>1, <3>1, <3>2, AheadTotal
  <2> QED BY <2>2, <2>3
<1> QED BY <1>2 DEF Before

LEMMA AppendedRange ==
    ASSUME NEW a \in Seq(Queries), NEW q \in Queries
    PROVE  Range(Append(a, q)) = Range(a) \cup {q}
<1> DEFINE t == Append(a, q)
           n == Len(a)
<1>1. /\ n \in Nat /\ DOMAIN a = 1..n /\ DOMAIN t = 1..(n + 1)
      /\ \A i \in 1..n : t[i] = a[i]
      /\ t[n + 1] = q
  BY AppendProperties, LenProperties
<1> HIDE DEF t, n
<1>2. /\ \A i \in 1..(n + 1) : i \in 1..n \/ i = n + 1
      /\ \A i \in 1..n : i \in 1..(n + 1)
      /\ n + 1 \in 1..(n + 1)
  BY <1>1
<1> QED BY <1>1, <1>2 DEF Range, t

\* A query that is appended comes after those of its session.
LEMMA BeforeAppended ==
    ASSUME NEW a \in Seq(Queries), NEW q \in Queries, q \notin Range(a)
    PROVE  Before(Append(a, q)) =
              Before(a) \cup ({p \in Range(a) : KeyOf[p] = KeyOf[q]} \X {q})
<1> DEFINE t == Append(a, q)
           n == Len(a)
<1>1. /\ n \in Nat /\ DOMAIN a = 1..n /\ DOMAIN t = 1..(n + 1) /\ t \in Seq(Queries)
      /\ \A i \in 1..n : t[i] = a[i]
      /\ t[n + 1] = q
  BY AppendProperties, LenProperties
<1> HIDE DEF t, n
<1>2. Range(t) = Range(a) \cup {q}
  BY AppendedRange DEF t
<1>3. ASSUME NEW u \in Range(a), NEW v \in Range(a)
      PROVE  Ahead(t, u, v) <=> Ahead(a, u, v)
  <2>1. \A i \in 1..n : i \in 1..(n + 1) /\ \A j \in 1..i : j \in 1..n
    BY <1>1
  <2>2. Ahead(a, u, v) => Ahead(t, u, v)
    BY <1>1, <2>1 DEF Ahead
  <2>3. \A i \in 1..(n + 1) : t[i] = u => i \in 1..n
    <3>1. u # q
      BY <1>3
    <3>2. \A i \in 1..(n + 1) : i \in 1..n \/ i = n + 1
      BY <1>1
    <3> QED BY <1>1, <3>1, <3>2
  <2>4. Ahead(t, u, v) => Ahead(a, u, v)
    BY <1>1, <2>1, <2>3 DEF Ahead
  <2> QED BY <2>2, <2>4
<1>4. ASSUME NEW u \in Range(a)
      PROVE  Ahead(t, u, q)
  <2>1. PICK i \in 1..n : a[i] = u
    BY <1>1 DEF Range
  <2>2. \A j \in 1..i : j \in 1..n /\ t[j] = a[j] /\ a[j] \in Range(a)
    BY <1>1 DEF Range
  <2>3. i \in 1..(n + 1) /\ t[i] = u
    BY <1>1, <2>1
  <2> QED BY <1>1, <2>2, <2>3 DEF Ahead
<1>5. \A v \in Range(t) : ~Ahead(t, q, v)
  <2> SUFFICES ASSUME NEW v \in Range(t), Ahead(t, q, v)
               PROVE  FALSE
    OBVIOUS
  <2>1. CASE v = q
    BY <1>1, <2>1, AheadApart
  <2>2. CASE v # q
    BY <1>1, <1>2, <1>4, <2>2, AheadApart
  <2> QED BY <2>1, <2>2
<1>6. Before(t) = Before(a) \cup ({p \in Range(a) : KeyOf[p] = KeyOf[q]} \X {q})
  <2>1. ASSUME NEW u \in Range(t), NEW v \in Range(t)
        PROVE  <<u, v>> \in Before(t) <=>
                  \/ <<u, v>> \in Before(a)
                  \/ u \in Range(a) /\ KeyOf[u] = KeyOf[q] /\ v = q
    BY <1>2, <1>3, <1>4, <1>5 DEF Before
  <2>2. \A e \in Before(t) : e \in Range(t) \X Range(t)
    BY DEF Before
  <2>3. \A e \in Before(a) : e \in Range(t) \X Range(t)
    BY <1>2 DEF Before
  <2> QED BY <1>2, <2>1, <2>2, <2>3
<1> QED BY <1>6 DEF t

\* What is lost from s to t is lost from the front of its session.
FromFront(s, t) ==
    \A p, q \in Queries :
        Ahead(s, p, q) /\ KeyOf[p] = KeyOf[q] /\ q \in Range(s) \ Range(t) => p \notin Range(t)

\* A query that is discarded is the first of its session.
LEMMA FrontDiscard ==
    ASSUME NEW p, WellFormed(p), NEW W, OldestOf(p, W) # 0
    PROVE  LET r == DiscardQueued(p, OldestOf(p, W))
           IN  /\ FromFront(p.queries, r.queries)
               /\ \E d \in Queued(p) : Queued(r) = Queued(p) \ {d}
<1> DEFINE s == p.queries
           i == OldestOf(p, W)
           r == DiscardQueued(p, i)
<1>1. p \in Pools /\ s \in Seq(Queries)
  BY DEF WellFormed, Pools
<1>2. /\ i \in 1..Len(s) /\ Ws(s[i]) \in W
      /\ \A k \in 1..Len(s) : k < i => Ws(s[k]) \notin W
  BY <1>1, OldestOfProperties, LenProperties
<1>3. DOMAIN s = 1..Len(s) /\ Len(s) \in Nat
  BY <1>1, LenProperties
<1> HIDE DEF i
<1>4. s[i] \in Queued(p) /\ Range(r.queries) = Range(s) \ {s[i]}
  BY <1>2, DiscardProperties DEF Queued
<1> HIDE DEF r
<1>5. ASSUME NEW u \in Queries, NEW v \in Queries, Ahead(s, u, v), KeyOf[u] = KeyOf[v],
             v \in Range(s) \ Range(r.queries)
      PROVE  FALSE
  <2>1. v = s[i]
    BY <1>4, <1>5
  <2>2. PICK k \in 1..Len(s) : s[k] = u /\ \A j \in 1..k : s[j] # v
    BY <1>3, <1>5 DEF Ahead
  <2>3. k < i
    BY <1>2, <1>3, <2>1, <2>2
  <2>4. Ws(u) = Ws(v)
    BY <1>5 DEF Ws
  <2> QED BY <1>2, <2>1, <2>2, <2>3, <2>4
<1> HIDE DEF s
<1>6. FromFront(s, r.queries)
  BY <1>5 DEF FromFront
<1> QED BY <1>4, <1>6 DEF Queued, r, i, s

LEMMA FrontTransitive ==
    ASSUME NEW s, NEW t, NEW u, FromFront(s, t), FromFront(t, u), Ordered(s, t),
           Range(u) \subseteq Range(t)
    PROVE  FromFront(s, u)
  BY DEF FromFront, Ordered

\* Making room discards two queries at most, each the first of its session.
LEMMA FrontAdmit ==
    ASSUME NEW p, WellFormed(p), NEW w \in Workspaces, Admits(p, w)
    PROVE  LET a == Admit(p, w)
           IN  /\ FromFront(p.queries, a.queries)
               /\ \/ Queued(a) = Queued(p)
                  \/ \E d, e \in Queued(p) : Queued(a) = Queued(p) \ {d, e}
<1> DEFINE r == AdmitWs(p, w)
           a == Admit(p, w)
<1>1. /\ WellFormed(r) /\ Ordered(p.queries, r.queries) /\ FromFront(p.queries, r.queries)
      /\ Queued(r) = Queued(p) \/ \E d \in Queued(p) : Queued(r) = Queued(p) \ {d}
  <2>1. CASE WsFull(p, w)
    BY <2>1, OrderedDiscard, FrontDiscard DEF AdmitWs, Admits
  <2>2. CASE ~WsFull(p, w)
    BY <2>2 DEF AdmitWs, Ordered, FromFront
  <2> QED BY <2>1, <2>2
<1>2. PoolFull(r) => OldestOf(r, Workspaces) # 0
  BY DEF Admits
<1>3. a = IF PoolFull(r) THEN DiscardQueued(r, OldestOf(r, Workspaces)) ELSE r
  BY DEF Admit
<1> HIDE DEF r, a
<1>4. CASE PoolFull(r)
  <2>1. /\ FromFront(r.queries, a.queries)
        /\ \E d \in Queued(r) : Queued(a) = Queued(r) \ {d}
    BY <1>1, <1>2, <1>3, <1>4, FrontDiscard
  <2>2. FromFront(p.queries, a.queries)
    BY <1>1, <2>1, FrontTransitive DEF Queued
  <2>3. \E d, e \in Queued(p) : Queued(a) = Queued(p) \ {d, e}
    <3>1. PICK d \in Queued(r) : Queued(a) = Queued(r) \ {d}
      BY <2>1
    <3>2. CASE Queued(r) = Queued(p)
      <4>1. Queued(a) = Queued(p) \ {d, d} /\ d \in Queued(p)
        BY <3>1, <3>2
      <4> QED BY <4>1
    <3>3. ASSUME NEW e \in Queued(p), Queued(r) = Queued(p) \ {e}
          PROVE  \E x, y \in Queued(p) : Queued(a) = Queued(p) \ {x, y}
      <4>1. Queued(a) = Queued(p) \ {d, e} /\ d \in Queued(p)
        BY <3>1, <3>3
      <4> QED BY <4>1
    <3> QED BY <1>1, <3>2, <3>3
  <2> QED BY <2>2, <2>3 DEF a
<1>5. CASE ~PoolFull(r)
  <2>1. a = r
    BY <1>3, <1>5
  <2>2. Queued(a) = Queued(p) \/ \E d, e \in Queued(p) : Queued(a) = Queued(p) \ {d, e}
    <3>1. ASSUME NEW d \in Queued(p), Queued(r) = Queued(p) \ {d}
          PROVE  \E x, y \in Queued(p) : Queued(a) = Queued(p) \ {x, y}
      <4>1. Queued(a) = Queued(p) \ {d, d}
        BY <2>1, <3>1
      <4> QED BY <4>1
    <3> QED BY <1>1, <2>1, <3>1
  <2> QED BY <1>1, <2>1, <2>2 DEF a
<1> QED BY <1>4, <1>5

\* add_query is an arrival, and what it discards is what the arrival displaces.
LEMMA ArriveStep ==
    ASSUME IInv, NEW q \in Queries, AddQuery(q)
    PROVE  \E D \in SUBSET Queued(pool) : Conversations!Arrive(q, D)
<1> DEFINE a == Admit(pool, Ws(q))
           r == Supersede(Insert(a, q), Scope(q))
           D == Queued(pool) \ Queued(a)
<1>1. /\ WellFormed(pool) /\ pool \in Pools /\ pool.queries \in Seq(Queries)
      /\ IsInjective(pool.queries) /\ Queued(pool) \subseteq pool.cached
  BY DEF IInv, PoolInv, WellFormed, Pools
<1>2. q \notin pool.cached /\ stage[q] = "none" /\ Admits(pool, Ws(q)) /\ UNCHANGED stage
  BY DEF AddQuery
<1>3. Ws(q) \in Workspaces
  BY ScopeTyping
<1>4. pool' = Forget(r, Stale(r)) \/ \E V : pool' = Count(Forget(r, V), Scope(q))
  BY DEF AddQuery
<1>5. WellFormed(r) /\ r \in Pools
  BY <1>1, <1>2, AddedProperties DEF WellFormed
<1>6. /\ WellFormed(a) /\ a \in Pools /\ a.queries \in Seq(Queries)
      /\ Queued(a) \subseteq Queued(pool) /\ Ordered(pool.queries, a.queries)
      /\ FromFront(pool.queries, a.queries)
      /\ \/ Queued(a) = Queued(pool)
         \/ \E d, e \in Queued(pool) : Queued(a) = Queued(pool) \ {d, e}
  <2>1. WellFormed(a) /\ Queued(a) = Queued(pool) \cap a.cached
    BY <1>1, <1>2, <1>3, AdmitProperties
  <2>2. a \in Pools /\ a.queries \in Seq(Queries)
    BY <2>1 DEF WellFormed, Pools
  <2>3. Ordered(pool.queries, a.queries)
    BY <1>1, <1>2, <1>3, OrderedAdmit
  <2>4. /\ FromFront(pool.queries, a.queries)
        /\ \/ Queued(a) = Queued(pool)
           \/ \E d, e \in Queued(pool) : Queued(a) = Queued(pool) \ {d, e}
    BY <1>1, <1>2, <1>3, FrontAdmit
  <2> HIDE DEF a
  <2> QED BY <2>1, <2>2, <2>3, <2>4
<1> HIDE DEF a
<1>7. r.queries = Append(a.queries, q)
  BY <1>6 DEF Pools, Insert, Supersede, Forget
<1> HIDE DEF r
<1>8. pool'.queries = Append(a.queries, q)
  <2>1. \A V : Forget(r, V).queries = r.queries /\ Count(Forget(r, V), Scope(q)).queries = r.queries
    BY <1>5 DEF Forget, Count, Pools
  <2> QED BY <1>4, <1>7, <2>1
<1>9. q \notin Queued(a) /\ q \notin Queued(pool)
  BY <1>1, <1>2, <1>6
<1>10. Queued(pool) \ D = Queued(a) /\ D \subseteq Queued(pool)
  BY <1>6
<1>11. Queued(pool') = (Queued(pool) \ D) \cup {q}
  <2>1. Range(Append(a.queries, q)) = Range(a.queries) \cup {q}
    BY <1>6, AppendedRange
  <2> QED BY <1>8, <1>10, <2>1 DEF Queued
<1>12. Before(pool'.queries) =
          Conversations!Stay(Queued(pool) \ D)
          \cup (Conversations!Peers(Queued(pool) \ D, q) \X {q})
  <2>1. Before(a.queries) = Before(pool.queries) \cap (Queued(a) \X Queued(a))
    BY <1>1, <1>6, BeforeStays DEF Queued
  <2>2. Before(pool'.queries) =
           Before(a.queries) \cup ({p \in Queued(a) : KeyOf[p] = KeyOf[q]} \X {q})
    BY <1>6, <1>8, <1>9, BeforeAppended DEF Queued
  <2> QED BY <1>10, <2>1, <2>2 DEF Conversations!Stay, Conversations!Peers
<1>13. Conversations!Displaceable(D)
  <2>1. D = {} \/ \E d, e \in Queued(pool) : D = {d, e}
    BY <1>6
  <2>2. ASSUME NEW p \in Queued(pool), NEW d \in D, <<p, d>> \in Before(pool.queries)
        PROVE  p \in D
    <3>1. Ahead(pool.queries, p, d) /\ KeyOf[p] = KeyOf[d]
      BY <2>2 DEF Before
    <3>2. p \in Queries /\ d \in Queries
      BY <1>1, <1>10, LenProperties DEF Queued, Range
    <3>3. d \in Range(pool.queries) \ Range(a.queries)
      BY DEF Queued
    <3> QED BY <1>6, <3>1, <3>2, <3>3 DEF FromFront, Queued
  <2> HIDE DEF D
  <2> QED BY <2>1, <2>2 DEF Conversations!Displaceable
<1>14. q \notin Queued(pool) \cup {p \in Queries : stage[p] # "none"}
  BY <1>2, <1>9
<1> HIDE DEF D
<1>15. Conversations!Arrive(q, D)
  BY <1>2, <1>11, <1>12, <1>13, <1>14 DEF Conversations!Arrive
<1> QED BY <1>10, <1>15

\* Whoever takes x out of the queue leaves the pairs of the others.
LEMMA QueueWithout ==
    ASSUME IInv, [Next]_vars, NEW x \in Queries,
           pool' = RemoveQuery(pool, x) \/ pool' = MarkRunning(pool, x)
    PROVE  /\ Queued(pool') = Queued(pool) \ {x}
           /\ Before(pool'.queries) = Conversations!Stay(Queued(pool) \ {x})
<1>1. /\ WellFormed(pool) /\ pool.queries \in Seq(Queries) /\ IsInjective(pool.queries)
  BY DEF IInv, PoolInv, WellFormed, Pools
<1>2. WellFormed(pool') /\ Queued(pool') = Queued(pool) \ {x}
  BY <1>1, RemoveProperties, MarkRunningProperties
<1>3. pool'.queries \in Seq(Queries)
  BY <1>2 DEF WellFormed, Pools
<1>4. Before(pool'.queries) = Before(pool.queries) \cap (Queued(pool') \X Queued(pool'))
  <2>1. Range(pool'.queries) \subseteq Range(pool.queries)
    BY <1>2 DEF Queued
  <2>2. Ordered(pool.queries, pool'.queries)
    BY QueueOrder
  <2> QED BY <1>1, <1>3, <2>1, <2>2, BeforeStays DEF Queued
<1> QED BY <1>2, <1>4 DEF Conversations!Stay

\* Taking out a query that is not in the queue changes nothing a conversation sees.
LEMMA QueueKept ==
    ASSUME IInv, [Next]_vars, NEW x \in Queries, stage[x] # "none",
           pool' = RemoveQuery(pool, x)
    PROVE  UNCHANGED <<Queued(pool), Before(pool.queries)>>
<1>1. x \notin Queued(pool)
  BY DEF IInv, PoolInv
<1>2. Queued(pool') = Queued(pool)
  BY <1>1, QueueWithout
<1>3. Before(pool'.queries) = Before(pool.queries) \cap (Queued(pool) \X Queued(pool))
  BY <1>1, QueueWithout DEF Conversations!Stay
<1> QED BY <1>2, <1>3 DEF Before, Queued

\* A session without a slot serves as many queries as it has slots.
LEMMA FullSession ==
    ASSUME NoResetInv, NEW k \in SessionKeys, SessionLocked(k)
    PROVE  Cardinality(Started(k)) = SessionSlots
<1> DEFINE o == index[k]
<1>1. o \in SessionObjs /\ value[o] = 0
  BY DEF SessionLocked, NoResetInv, IInv, TypeOK
<1>2. Started(k) = Holders(o)
  <2>1. \A p \in Queries : sess[p] = o => KeyOf[p] = k /\ stage[p] # "none"
    BY <1>1, SchedulerAssumption DEF NoResetInv, IInv, CacheInv, HandsInv
  <2>2. \A p \in Queries : stage[p] # "none" /\ KeyOf[p] = k => sess[p] = o
    BY DEF NoResetInv, IInv, KeptInv, HandsInv
  <2> QED BY <2>1, <2>2 DEF Started, Holders
<1>3. value[o] + Cardinality(Holders(o)) = SessionSlots /\ Cardinality(Holders(o)) \in Nat
  BY <1>1, QuerySets DEF NoResetInv, IInv, SlotsConserved, Holders
<1> QED BY <1>1, <1>2, <1>3

Served == {q \in Queries : stage[q] # "none"}

\* The instance has a Cardinality of its own.
LEMMA SameCardinality ==
    ASSUME NEW S
    PROVE  Conversations!Cardinality(S) = Cardinality(S)
BY DEF Conversations!Cardinality, Cardinality

LEMMA PeersServed ==
    ASSUME NEW q \in Queries
    PROVE  /\ Conversations!Peers(Served, q) = Started(KeyOf[q])
           /\ KeyOf[q] \in SessionKeys
BY PoolAssumption DEF Conversations!Peers, Served, Started

\* A selection starts the first query of its session, on a slot that is free.
LEMMA StartStep ==
    ASSUME NoResetInv, [Next]_vars, SessionConcurrency',
           NEW q \in Queries, SelectQuery(q) \/ SelectInNewSession(q)
    PROVE  Conversations!Start(q)
<1> DEFINE k == KeyOf[q]
<1>1. /\ pool' = MarkRunning(pool, q)
      /\ stage' = [stage EXCEPT ![q] = "selected"]
      /\ Scanning(q)
  BY DEF SelectQuery, SelectInNewSession, Select
<1>2. q \in Queued(pool) /\ stage[q] = "none" /\ Queued(pool) \subseteq Queries
  <2>1. pool.queries \in Seq(Queries) /\ consumer.pos \in Nat /\ consumer.pos # 0
    BY <1>1 DEF NoResetInv, IInv, TypeOK, Pools, HandsInv, Scanning
  <2>2. q \in Queued(pool) /\ Queued(pool) \subseteq Queries
    BY <1>1, <2>1, LenProperties DEF Scanning, Queued, Range
  <2> QED BY <2>2 DEF NoResetInv, IInv, PoolInv
<1>3. /\ Queued(pool') = Queued(pool) \ {q}
      /\ Before(pool'.queries) = Conversations!Stay(Queued(pool) \ {q})
  BY <1>1, QueueWithout DEF NoResetInv
<1>4. ASSUME NEW p \in Queued(pool)
      PROVE  <<p, q>> \notin Before(pool.queries)
  <2>1. stage'[q] = "selected"
    BY <1>1 DEF NoResetInv, IInv, TypeOK
  <2>2. Ahead(pool.queries, p, q) => KeyOf[p] # KeyOf[q]
    BY <1>2, <2>1, NobodySelectedBefore
  <2> QED BY <2>2 DEF Before
<1>5. Served' = Served \cup {q}
  BY <1>1, <1>2 DEF Served, NoResetInv, IInv, TypeOK
<1>6. Cardinality(Conversations!Peers(Served, q)) < SessionSlots
  <2>1. Started(k)' = Started(k) \cup {q} /\ q \notin Started(k)
    BY <1>1, <1>2 DEF Started, NoResetInv, IInv, TypeOK
  <2>2. IsFiniteSet(Started(k)) /\ Cardinality(Started(k)) \in Nat
    BY PoolAssumption, FS_Subset, FS_CardinalityType DEF Started
  <2>3. Cardinality(Started(k)') = Cardinality(Started(k)) + 1
    BY <2>1, <2>2, FS_AddElement
  <2>4. Cardinality(Started(k)') <= SessionSlots
    BY PeersServed DEF SessionConcurrency
  <2> QED BY <2>2, <2>3, <2>4, PeersServed
<1>7. Conversations!Leave(q)
  BY <1>2, <1>3 DEF Conversations!Leave
<1>8. Conversations!Cardinality(Conversations!Peers({x \in Queries : stage[x] # "none"}, q))
         < SessionSlots
  BY <1>6, SameCardinality DEF Served
<1>9. {x \in Queries : stage[x] # "none"}' = {x \in Queries : stage[x] # "none"} \cup {q}
  BY <1>5 DEF Served
<1> QED BY <1>4, <1>7, <1>8, <1>9 DEF Conversations!Start

\* Every other step of a query or of the consumer is a step of the conversation
\* or is none of its business.
LEMMA ConversationStep ==
    ASSUME ~AllowReset, NoResetInv, [Next]_vars, SessionConcurrency'
    PROVE  [Conversations!Next]_<<Queued(pool), Before(pool.queries), Served>>
<1> USE DEF NoResetInv, IInv
<1>1. CASE Quiet
  BY <1>1 DEF Quiet, Served, Queued, Before
<1>2. CASE SpawnTask
  <2>1. UNCHANGED pool /\ stage[consumer.sel] = "selected" /\ consumer.sel \in Queries
        /\ stage' = [stage EXCEPT ![consumer.sel] = "running"]
    BY <1>2 DEF SpawnTask, HandsInv, Selecting
  <2>2. UNCHANGED Served
    BY <2>1 DEF Served, TypeOK
  <2> QED BY <2>1, <2>2 DEF Queued, Before
<1>3. CASE UndoRemove
  <2>1. /\ consumer.sel \in Queries /\ stage[consumer.sel] # "none" /\ UNCHANGED stage
        /\ pool' = RemoveQuery(pool, consumer.sel)
    BY <1>3 DEF UndoRemove, HandsInv, Selecting
  <2> QED BY <2>1, QueueKept DEF Served
<1>4. ASSUME NEW q \in Queries, UNCHANGED pool, stage' = [stage EXCEPT ![q] = "none"],
             stage[q] # "none"
      PROVE  Conversations!Finish(q)
  <2>1. Served' = Served \ {q} /\ q \in Served
    BY <1>4 DEF Served, TypeOK
  <2> QED BY <1>4, <2>1 DEF Conversations!Finish, Served, Queued, Before
<1>5. CASE UndoRelease
  BY <1>4, <1>5 DEF UndoRelease, HandsInv, Selecting, Conversations!Next
<1>6. ASSUME NEW q \in Queries, AddQuery(q)
      PROVE  Conversations!Next
  BY <1>6, ArriveStep DEF Conversations!Next
<1>7. ASSUME NEW q \in Queries, ClaimAsSteering(q)
      PROVE  Conversations!Next
  <2>1. /\ Scanning(q) /\ SessionLocked(KeyOf[q]) /\ UNCHANGED stage
        /\ pool' = RemoveQuery(pool, q)
    BY <1>7 DEF ClaimAsSteering
  <2>2. q \in Queued(pool)
    <3>1. pool.queries \in Seq(Queries) /\ consumer.pos \in Nat /\ consumer.pos # 0
      BY <2>1 DEF TypeOK, Pools, HandsInv, Scanning
    <3> QED BY <2>1, <3>1, LenProperties DEF Scanning, Queued, Range
  <2>3. Conversations!Leave(q)
    BY <2>1, <2>2, QueueWithout DEF Conversations!Leave
  <2>4. Cardinality(Conversations!Peers(Served, q)) = SessionSlots
    BY <2>1, FullSession, PeersServed
  <2>5. Conversations!Cardinality(Conversations!Peers({x \in Queries : stage[x] # "none"}, q))
           = SessionSlots
    BY <2>4, SameCardinality DEF Served
  <2>6. Conversations!TakeOver(q)
    BY <2>1, <2>3, <2>5, Zenon DEF Conversations!TakeOver
  <2> QED BY <2>6 DEF Conversations!Next
<1>8. ASSUME NEW q \in Queries, SelectQuery(q) \/ SelectInNewSession(q)
      PROVE  Conversations!Next
  BY <1>8, StartStep DEF Conversations!Next
<1>9. ASSUME NEW q \in Queries, NEW place \in {"ended", "removed"}, stage[q] # "none",
             stage' = [stage EXCEPT ![q] = place]
      PROVE  UNCHANGED Served
  BY <1>9 DEF Served, TypeOK
<1>10. ASSUME NEW q \in Queries, PipelineEnds(q) \/ RemoveEnded(q)
       PROVE  UNCHANGED <<Queued(pool), Before(pool.queries), Served>>
  <2>1. stage[q] # "none" /\ pool' = RemoveQuery(pool, q) /\ UNCHANGED Served
    BY <1>9, <1>10 DEF PipelineEnds, RemoveEnded
  <2> QED BY <2>1, QueueKept
<1>11. ASSUME NEW q \in Queries, TaskAborts(q)
       PROVE  UNCHANGED <<Queued(pool), Before(pool.queries), Served>>
  BY <1>9, <1>11 DEF TaskAborts, Queued, Before
<1>12. ASSUME NEW q \in Queries, ReleaseSlots(q)
       PROVE  Conversations!Next
  BY <1>4, <1>12 DEF ReleaseSlots, Conversations!Next
<1>13. \A q \in Queries : ~ClaimAfterReset(q)
  BY DEF ClaimAfterReset, ResetInOffer
<1> QED BY <1>1, <1>2, <1>3, <1>5, <1>6, <1>7, <1>8, <1>10, <1>11, <1>12, <1>13, PoolSteps

\* Where conversations are not reset, the pool, the consumer, the tasks and the
\* session cache together are what ConversationQueues says of each conversation.
THEOREM ConversationsImplemented ==
    ASSUME ~AllowReset
    PROVE  Spec => ImplementsConversations
<1>1. Init => Conversations!Init
  <2>1. ASSUME Init
        PROVE  /\ Queued(pool) = {} /\ Before(pool.queries) = {}
               /\ {q \in Queries : stage[q] # "none"} = {}
    <3>1. pool.queries = <<>>
      BY <2>1 DEF Init, EmptyPool
    <3>2. Range(pool.queries) = {}
      BY <3>1 DEF Range
    <3> QED BY <2>1, <3>2 DEF Init, Queued, Before
  <2> QED BY <2>1 DEF Conversations!Init
<1>2. NoResetInv /\ SessionConcurrency' /\ [Next]_vars
      => [Conversations!Next]_<<Queued(pool), Before(pool.queries), Served>>
  BY ConversationStep
<1>3. Conversations!Init
      /\ [][Conversations!Next]_<<Queued(pool), Before(pool.queries), Served>>
      => ImplementsConversations
  BY DEF ImplementsConversations, Conversations!Spec, Served
<1> QED BY <1>1, <1>2, <1>3, InductiveNoReset, SessionsBounded, PTL DEF Spec
=============================================================================
