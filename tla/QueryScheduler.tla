--------------------------- MODULE QueryScheduler ---------------------------
(****************************************************************************)
(* The pipeline scheduler: producers add queries to the pool, the consumer  *)
(* loop of pipeline/controller.py scans it for a query whose session has a  *)
(* free slot, takes a global slot and spawns a task, and the task gives     *)
(* both slots back.  Sessions and their semaphores live in the cache of     *)
(* provider/session/sessionmgr.py, which evicts idle ones.                  *)
(*                                                                          *)
(* pool_lock is held across an await only by the scanning consumer (which   *)
(* may offer a query to an active run); every other critical section runs   *)
(* without yielding and is one step, enabled while the lock is free.        *)
(****************************************************************************)
EXTENDS QueryPool

CONSTANTS
    SessionObjs,          \* session objects, reused once nothing refers to them
    SessionSlots,         \* concurrency.session
    GlobalSlots,          \* concurrency.pipeline
    MaxSessions,          \* session_retention.max_entries
    MaxSessionsPerWs,     \* session_retention.max_entries_per_workspace
    AllowReset,           \* whether conversations are reset through an adapter
    NoSession, NoQuery

ASSUME SchedulerAssumption ==
    /\ SessionSlots \in Nat \ {0}
    /\ GlobalSlots \in Nat \ {0}
    /\ MaxSessions \in Nat \ {0}
    /\ MaxSessionsPerWs \in Nat \ {0}
    /\ AllowReset \in BOOLEAN
    /\ NoSession \notin SessionObjs
    /\ NoQuery \notin Queries

VARIABLES
    pool,       \* the QueryPool
    refused,    \* queries left in the pool by an add_query that raised
    index,      \* _session_index: the cached session object of each key
    value,      \* value of the semaphore of each session object
    sess,       \* selected_session: whose semaphore a query has acquired
    stage,      \* where the consumer or the task is with each query
    slots,      \* value of the global semaphore
    consumer    \* the consumer loop: where it is, its scan and its selection

vars == <<pool, refused, index, value, sess, stage, slots, consumer>>

Stages == {"none", "selected", "running", "ended", "removed"}
Places == {"idle", "scan", "waiting", "slot", "undo", "undone", "sleep"}

TypeOK ==
    /\ pool \in Pools
    /\ refused \subseteq Queries
    /\ index \in [SessionKeys -> SessionObjs \cup {NoSession}]
    /\ value \in [SessionObjs -> Nat]
    /\ sess \in [Queries -> SessionObjs \cup {NoSession}]
    /\ stage \in [Queries -> Stages]
    /\ slots \in Nat
    /\ consumer \in [at : Places, pos : Nat, sel : Queries \cup {NoQuery}]

At(place) == [at |-> place, pos |-> 0, sel |-> NoQuery]

Init ==
    /\ pool = EmptyPool
    /\ refused = {}
    /\ index = [k \in SessionKeys |-> NoSession]
    /\ value = [o \in SessionObjs |-> SessionSlots]
    /\ sess = [q \in Queries |-> NoSession]
    /\ stage = [q \in Queries |-> "none"]
    /\ slots = GlobalSlots
    /\ consumer = At("idle")

InTask == {q \in Queries : stage[q] \in {"running", "ended", "removed"}}

LockFree == consumer.at # "scan"

\* condition.notify_all: only the consumer ever waits on the condition.
Woken == IF consumer.at = "waiting" THEN At("idle") ELSE consumer

-----------------------------------------------------------------------------
(* Producers *)

\* add_query.  Where the counters have no room the code raises after it has
\* inserted the query and before it notifies the consumer.
AddQuery(q) ==
    /\ LockFree
    /\ q \notin pool.cached /\ stage[q] = "none"
    /\ Admits(pool, Ws(q))
    /\ LET r == Supersede(Insert(Admit(pool, Ws(q)), q), Scope(q))
       IN  IF Excess(r, Scope(q)) <= Cardinality(Stale(r))
           THEN /\ \E V \in Evictable(r, Scope(q)) :
                      pool' = Count(Forget(r, V), Scope(q))
                /\ refused' = refused \ {q}
                /\ consumer' = Woken
           ELSE /\ pool' = Forget(r, Stale(r))
                /\ refused' = refused \cup {q}
                /\ UNCHANGED consumer
    /\ UNCHANGED <<index, value, sess, stage, slots>>

-----------------------------------------------------------------------------
(* The session cache *)

Cached == {k \in SessionKeys : index[k] # NoSession}
CachedIn(w) == {k \in Cached : k.ws = w}

\* Mutant: sessions are evicted without the idle check.
EvictableAnyway == Cached

IdleKeys == {k \in Cached : value[index[k]] = SessionSlots}

Live == {index[k] : k \in SessionKeys} \cup {sess[q] : q \in Queries}
FreshSession == CHOOSE o \in SessionObjs \ Live : TRUE

HasRoom(k, gone) ==
    /\ Cardinality(CachedIn(k.ws) \ gone) < MaxSessionsPerWs
    /\ Cardinality(Cached \ gone) < MaxSessions

\* _prune_sessions drops expired idle sessions (which ones is up to the clock)
\* and then idle ones, until the workspace and the cache have room for one more
\* session or no idle session is left to drop.
Prunings(k) ==
    {gone \in SUBSET IdleKeys :
        /\ \/ Cardinality(CachedIn(k.ws) \ gone) < MaxSessionsPerWs
           \/ IdleKeys \cap CachedIn(k.ws) \subseteq gone
        /\ Cardinality(Cached \ gone) < MaxSessions \/ IdleKeys \subseteq gone}

Pruned(gone) == [k \in SessionKeys |-> IF k \in gone THEN NoSession ELSE index[k]]

\* get_session for a key that has no session: one is created with all its
\* slots, or RuntimeError is raised because the cache is full.
Create(k, gone) ==
    /\ SessionObjs \ Live # {}
    /\ HasRoom(k, gone)
    /\ index' = [Pruned(gone) EXCEPT ![k] = FreshSession]

NoRoom(k, gone) ==
    /\ ~HasRoom(k, gone)
    /\ index' = Pruned(gone)

\* A call of get_session whose session was reset, and whose error is handled.
GetMissingSession(k) ==
    /\ index[k] = NoSession
    /\ \E gone \in Prunings(k) :
          \/ /\ Create(k, gone)
             /\ value' = [value EXCEPT ![FreshSession] = SessionSlots]
          \/ /\ NoRoom(k, gone)
             /\ UNCHANGED value

\* cleanup_inactive_sessions, and expiry while another session is created.
DropIdleSession(k) ==
    /\ k \in IdleKeys
    /\ index' = [index EXCEPT ![k] = NoSession]
    /\ UNCHANGED <<pool, refused, value, sess, stage, slots, consumer>>

\* reset_session of the websocket adapter and _reset_session of the HTTP bot
\* take the session out of the cache, idle or not.
ResetSession(k) ==
    /\ AllowReset
    /\ k \in Cached
    /\ index' = [index EXCEPT ![k] = NoSession]
    /\ UNCHANGED <<pool, refused, value, sess, stage, slots, consumer>>

-----------------------------------------------------------------------------
(* The consumer loop *)

BeginScan ==
    /\ consumer.at = "idle"
    /\ consumer' = [At("scan") EXCEPT !.pos = 1]
    /\ UNCHANGED <<pool, refused, index, value, sess, stage, slots>>

Scanning(q) ==
    /\ consumer.at = "scan"
    /\ consumer.pos <= Len(pool.queries)
    /\ q = pool.queries[consumer.pos]

\* Mutant: whether the session has a slot is not asked.
SessionKnown(k) == index[k] # NoSession

SessionLocked(k) == index[k] # NoSession /\ value[index[k]] = 0

\* The session has no slot and no active run takes the query: look further.
SkipQuery(q) ==
    /\ Scanning(q)
    /\ SessionLocked(KeyOf[q])
    /\ consumer' = [consumer EXCEPT !.pos = @ + 1]
    /\ UNCHANGED <<pool, refused, index, value, sess, stage, slots>>

\* The session is reset while its query is being offered: the offer gets a new
\* session, yet the query is skipped or claimed as one of a busy session.
ResetInOffer(q) ==
    /\ AllowReset
    /\ Scanning(q)
    /\ \E p \in InTask : KeyOf[p] = KeyOf[q] /\ value[sess[p]] = 0
    /\ GetMissingSession(KeyOf[q])
    /\ UNCHANGED <<refused, sess, stage, slots>>

SkipAfterReset(q) ==
    /\ ResetInOffer(q)
    /\ consumer' = [consumer EXCEPT !.pos = @ + 1]
    /\ UNCHANGED pool

ClaimAfterReset(q) ==
    /\ ResetInOffer(q)
    /\ pool' = RemoveQuery(pool, q)
    /\ consumer' = At("idle")

\* An active run claims the query as steering input: it leaves the pool.
ClaimAsSteering(q) ==
    /\ Scanning(q)
    /\ SessionLocked(KeyOf[q])
    /\ pool' = RemoveQuery(pool, q)
    /\ consumer' = At("idle")
    /\ UNCHANGED <<refused, index, value, sess, stage, slots>>

Select(q, o, available) ==
    /\ value' = [value EXCEPT ![o] = available - 1]
    /\ sess' = [sess EXCEPT ![q] = o]
    /\ stage' = [stage EXCEPT ![q] = "selected"]
    /\ pool' = MarkRunning(pool, q)
    /\ consumer' = [At("slot") EXCEPT !.sel = q]
    /\ UNCHANGED <<refused, slots>>

SelectQuery(q) ==
    /\ Scanning(q)
    /\ index[KeyOf[q]] # NoSession
    /\ value[index[KeyOf[q]]] > 0
    /\ Select(q, index[KeyOf[q]], value[index[KeyOf[q]]])
    /\ UNCHANGED index

SelectInNewSession(q) ==
    /\ Scanning(q)
    /\ index[KeyOf[q]] = NoSession
    /\ \E gone \in Prunings(KeyOf[q]) : Create(KeyOf[q], gone)
    /\ Select(q, FreshSession, SessionSlots)

\* get_session raises: the whole scan is abandoned until the retry.
SessionCacheFull(q) ==
    /\ Scanning(q)
    /\ index[KeyOf[q]] = NoSession
    /\ \E gone \in Prunings(KeyOf[q]) : NoRoom(KeyOf[q], gone)
    /\ consumer' = At("sleep")
    /\ UNCHANGED <<pool, refused, value, sess, stage, slots>>

\* Nothing to run: wait for a notification, which releases the lock.
EndScan ==
    /\ consumer.at = "scan"
    /\ consumer.pos > Len(pool.queries)
    /\ consumer' = At("waiting")
    /\ UNCHANGED <<pool, refused, index, value, sess, stage, slots>>

\* A global slot is free: the task is created in the same step.
SpawnTask ==
    /\ consumer.at = "slot"
    /\ slots > 0
    /\ slots' = slots - 1
    /\ stage' = [stage EXCEPT ![consumer.sel] = "running"]
    /\ consumer' = At("idle")
    /\ UNCHANGED <<pool, refused, index, value, sess>>

\* create_task raises: the slot is returned and the selection undone, in the
\* two critical sections of _drop_selected_query.
SpawnFails ==
    /\ consumer.at = "slot"
    /\ slots > 0
    /\ consumer' = [consumer EXCEPT !.at = "undo"]
    /\ UNCHANGED <<pool, refused, index, value, sess, stage, slots>>

UndoRemove ==
    /\ consumer.at = "undo"
    /\ pool' = RemoveQuery(pool, consumer.sel)
    /\ consumer' = [consumer EXCEPT !.at = "undone"]
    /\ UNCHANGED <<refused, index, value, sess, stage, slots>>

UndoRelease ==
    /\ consumer.at = "undone"
    /\ value' = [value EXCEPT ![sess[consumer.sel]] = @ + 1]
    /\ sess' = [sess EXCEPT ![consumer.sel] = NoSession]
    /\ stage' = [stage EXCEPT ![consumer.sel] = "none"]
    /\ consumer' = At("sleep")
    /\ UNCHANGED <<pool, refused, index, slots>>

Retry ==
    /\ consumer.at = "sleep"
    /\ consumer' = At("idle")
    /\ UNCHANGED <<pool, refused, index, value, sess, stage, slots>>

Consumer ==
    \/ BeginScan \/ EndScan \/ SpawnTask \/ SpawnFails
    \/ UndoRemove \/ UndoRelease \/ Retry
    \/ \E q \in Queries :
          \/ SkipQuery(q) \/ ClaimAsSteering(q)
          \/ SkipAfterReset(q) \/ ClaimAfterReset(q)
          \/ SelectQuery(q) \/ SelectInNewSession(q) \/ SessionCacheFull(q)

-----------------------------------------------------------------------------
(* The task of a query: _process_query *)

\* A stage asks for the session of its query, which is missing after a reset.
\* If there is no room for it the error ends the pipeline (PipelineEnds).
StageGetsSession(q) ==
    /\ stage[q] = "running"
    /\ GetMissingSession(KeyOf[q])
    /\ UNCHANGED <<pool, refused, sess, stage, slots, consumer>>

\* The pipeline has run, well or not: it removes the query itself.
PipelineEnds(q) ==
    /\ stage[q] = "running"
    /\ LockFree
    /\ pool' = RemoveQuery(pool, q)
    /\ stage' = [stage EXCEPT ![q] = "ended"]
    /\ UNCHANGED <<refused, index, value, sess, slots, consumer>>

\* The binding is stale or the pipeline is gone: nothing was run.
TaskAborts(q) ==
    /\ stage[q] = "running"
    /\ stage' = [stage EXCEPT ![q] = "ended"]
    /\ UNCHANGED <<pool, refused, index, value, sess, slots, consumer>>

\* Mutant: the task relies on the pipeline to have removed the query.
LeaveEnded(q) ==
    /\ stage[q] = "ended"
    /\ LockFree
    /\ stage' = [stage EXCEPT ![q] = "removed"]
    /\ UNCHANGED <<pool, refused, index, value, sess, slots, consumer>>

RemoveEnded(q) ==
    /\ stage[q] = "ended"
    /\ LockFree
    /\ pool' = RemoveQuery(pool, q)
    /\ stage' = [stage EXCEPT ![q] = "removed"]
    /\ UNCHANGED <<refused, index, value, sess, slots, consumer>>

\* Mutant: the slots are released without a notification.
ReleaseQuietly(q) ==
    /\ stage[q] = "removed"
    /\ LockFree
    /\ value' = [value EXCEPT ![sess[q]] = @ + 1]
    /\ sess' = [sess EXCEPT ![q] = NoSession]
    /\ stage' = [stage EXCEPT ![q] = "none"]
    /\ slots' = slots + 1
    /\ UNCHANGED <<pool, refused, index, consumer>>

\* Mutant: the slot goes to the session now cached, not to the selected one.
ReleaseToCached(q) ==
    /\ stage[q] = "removed"
    /\ LockFree
    /\ index[KeyOf[q]] # NoSession
    /\ value' = [value EXCEPT ![index[KeyOf[q]]] = @ + 1]
    /\ sess' = [sess EXCEPT ![q] = NoSession]
    /\ stage' = [stage EXCEPT ![q] = "none"]
    /\ slots' = slots + 1
    /\ consumer' = Woken
    /\ UNCHANGED <<pool, refused, index>>

ReleaseSlots(q) ==
    /\ stage[q] = "removed"
    /\ LockFree
    /\ value' = [value EXCEPT ![sess[q]] = @ + 1]
    /\ sess' = [sess EXCEPT ![q] = NoSession]
    /\ stage' = [stage EXCEPT ![q] = "none"]
    /\ slots' = slots + 1
    /\ consumer' = Woken
    /\ UNCHANGED <<pool, refused, index>>

Task(q) ==
    \/ StageGetsSession(q) \/ PipelineEnds(q) \/ TaskAborts(q)
    \/ RemoveEnded(q) \/ ReleaseSlots(q)

Next ==
    \/ Consumer
    \/ \E q \in Queries : AddQuery(q) \/ Task(q)
    \/ \E k \in SessionKeys : DropIdleSession(k) \/ ResetSession(k)

Spec == Init /\ [][Next]_vars

Progress(q) == PipelineEnds(q) \/ TaskAborts(q) \/ RemoveEnded(q) \/ ReleaseSlots(q)

\* The event loop runs the consumer and every task, runs end (the runner has a
\* deadline), and pool_lock is granted in the order it was asked for.
Fairness ==
    /\ WF_vars(Consumer)
    /\ \A q \in Queries : SF_vars(Progress(q))

FairSpec == Spec /\ Fairness

-----------------------------------------------------------------------------
(* Properties *)

Holders(o) == {q \in Queries : sess[q] = o}
Started(k) == {q \in Queries : stage[q] # "none" /\ KeyOf[q] = k}

\* The four indexes of the pool describe the same queries, and whatever the pool
\* keeps is either waiting in the queue, once, or in the hands of the consumer or
\* of a task: no query stays cached with nobody left to remove it.
PoolIndexesAgree ==
    /\ pool.legacy = pool.cached
    /\ IsInjective(pool.queries)
    /\ Queued(pool) = {q \in pool.cached : stage[q] = "none"}
    /\ \A w \in Workspaces :
          pool.active[w] = Cardinality({q \in pool.cached : Ws(q) = w})
    /\ pool.completed \cap pool.cached = {}

\* Queued and running queries together stay within both admission limits.
AdmissionCaps ==
    /\ Cardinality(pool.cached) <= MaxQueries
    /\ \A w \in Workspaces : pool.active[w] <= MaxPerWs

\* The counters stay bounded, and evicting those of idle workspaces always finds
\* room: add_query never raises after it has queued the query, which would leave
\* it to run although its caller was told it was refused.
NoPhantomQuery ==
    /\ Cardinality(pool.scopes) <= MaxQueries
    /\ refused = {}

\* A global or session slot is taken exactly by the queries that will give it
\* back: none leaks and none is released twice, whatever path a query takes.
SlotsConserved ==
    /\ slots + Cardinality(InTask) = GlobalSlots
    /\ \A o \in SessionObjs : value[o] + Cardinality(Holders(o)) = SessionSlots

\* Queries of one session never run on more slots than concurrency.session, also
\* when the session is evicted and created again between them.
SessionConcurrency ==
    \A k \in SessionKeys : Cardinality(Started(k)) <= SessionSlots

\* No lost wake-up: when the consumer sleeps on the condition, every queued query
\* waits for a session that has no slot.
NoLostWakeup ==
    consumer.at = "waiting" => \A q \in Queued(pool) : SessionLocked(KeyOf[q])

\* Resets or not, when the consumer sleeps on the condition every queued query
\* has a task of its session that will notify the consumer when it ends.
WakerExists ==
    consumer.at = "waiting" =>
        \A q \in Queued(pool) : \E p \in InTask : KeyOf[p] = KeyOf[q]

\* p waits in the queue s, and q is behind it or not in the queue.
Ahead(s, p, q) == \E i \in DOMAIN s : s[i] = p /\ \A j \in 1..i : s[j] # q

\* Queries of one session are started in the order they arrived in: while one
\* waits, none that is behind it or arrives later overtakes it or is selected.
StartsInOrder ==
    [][pool' # pool =>
          \A p \in Queued(pool), q \in Queries :
             KeyOf[p] = KeyOf[q] /\ Ahead(pool.queries, p, q) =>
                /\ stage[q] = "none" => stage'[q] # "selected"
                /\ p \in Queued(pool') => Ahead(pool'.queries, p, q)]_vars

\* The pairs of queries of one session in the queue s, in their order.
Before(s) ==
    {e \in Range(s) \X Range(s) : KeyOf[e[1]] = KeyOf[e[2]] /\ Ahead(s, e[1], e[2])}

Conversations == INSTANCE ConversationQueues WITH
    Requests <- Queries, ConversationOf <- KeyOf, Slots <- SessionSlots,
    waiting <- Queued(pool), before <- Before(pool.queries),
    served <- {q \in Queries : stage[q] # "none"}

\* Pool, session cache, consumer and tasks together serve each conversation as
\* ConversationQueues says: in order, on its slots only, and a query that waits
\* leaves the queue unserved only to a busy run or, from the front, to an arrival.
ImplementsConversations == Conversations!Spec

\* A query that was accepted is eventually completed: run, taken as steering,
\* discarded under overload or undone.
EveryQueryCompletes ==
    \A q \in Queries : q \in pool.cached ~> q \in pool.completed
=============================================================================
