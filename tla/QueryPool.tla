------------------------------ MODULE QueryPool ------------------------------
(****************************************************************************)
(* The workspace-scoped queue of requests waiting for the pipeline          *)
(* scheduler: class QueryPool of pipeline/pool.py.                          *)
(*                                                                          *)
(* A pool is the record of the object's fields and the operators below are  *)
(* its methods, as functions of the pool.  Every method runs under          *)
(* pool_lock without an await inside, so each is one atomic step of the     *)
(* modules that use it.  The lifetime counters are kept only as the sets of *)
(* their keys (scopes and dropped): the numbers are statistics, the keys    *)
(* decide what is evicted and what is refused.                              *)
(****************************************************************************)
EXTENDS Integers, SequencesExt

CONSTANTS
    Queries,       \* query objects; one may be used again once it is forgotten
    Workspaces,    \* workspace_uuid
    Generations,   \* placement_generation
    SessionKeys,   \* the sessions: a scope and a launcher
    KeyOf,         \* the session key of each query
    MaxQueries,    \* max_queries
    MaxPerWs       \* max_queries_per_workspace

\* The bounds are the checks of QueryPool.__init__.
ASSUME PoolAssumption ==
    /\ IsFiniteSet(Queries)
    /\ IsFiniteSet(Workspaces)
    /\ KeyOf \in [Queries -> SessionKeys]
    /\ \A k \in SessionKeys : k.ws \in Workspaces /\ k.gen \in Generations
    /\ MaxQueries \in Nat \ {0}
    /\ MaxPerWs \in 1..MaxQueries

Scopes == [ws : Workspaces, gen : Generations]

Pools ==
    [queries   : Seq(Queries),             \* waiting to be scheduled, oldest first
     cached    : SUBSET Queries,           \* cached_queries: waiting or running
     legacy    : SUBSET Queries,           \* legacy_query_index
     active    : [Workspaces -> Nat],      \* active_query_count_by_workspace
     scopes    : SUBSET Scopes,            \* keys of query_count_by_scope
     dropped   : SUBSET Scopes,            \* keys of dropped_query_count_by_scope
     completed : SUBSET Queries]           \* whose _completion_event is set

EmptyPool ==
    [queries |-> <<>>, cached |-> {}, legacy |-> {},
     active |-> [w \in Workspaces |-> 0],
     scopes |-> {}, dropped |-> {}, completed |-> {}]

Ws(q)    == KeyOf[q].ws
Scope(q) == [ws |-> KeyOf[q].ws, gen |-> KeyOf[q].gen]

Queued(p) == Range(p.queries)

\* The count of a workspace is taken out of the dict instead of reaching zero.
Uncount(active, w) == [active EXCEPT ![w] = IF @ > 1 THEN @ - 1 ELSE 0]

\* Index of the oldest queued query of the workspaces W, 0 if there is none.
OldestOf(p, W) == SelectInSeq(p.queries, LAMBDA q : Ws(q) \in W)

\* Mutant: the discarded query is left in the cache.
DiscardKeepingCache(p, i) ==
    LET q == p.queries[i]
    IN  [p EXCEPT !.queries   = RemoveAt(@, i),
                  !.active    = Uncount(@, Ws(q)),
                  !.completed = @ \cup {q},
                  !.dropped   = @ \cup {Scope(q)}]

DiscardQueued(p, i) ==
    LET q == p.queries[i]
    IN  [p EXCEPT !.queries   = RemoveAt(@, i),
                  !.cached    = @ \ {q},
                  !.legacy    = @ \ {q},
                  !.active    = Uncount(@, Ws(q)),
                  !.completed = @ \cup {q},
                  !.dropped   = @ \cup {Scope(q)}]

\* _admit_query_locked makes room in the workspace, then in the whole pool.  It
\* raises QueryPoolCapacityError when there is nothing to discard.
\* Mutants: the limits are compared with > instead of >=.
WsFullLate(p, w) == p.active[w] > MaxPerWs
PoolFullLate(p)  == Cardinality(p.cached) > MaxQueries

WsFull(p, w) == p.active[w] >= MaxPerWs
PoolFull(p)  == Cardinality(p.cached) >= MaxQueries

AdmitWs(p, w) ==
    IF WsFull(p, w) THEN DiscardQueued(p, OldestOf(p, {w})) ELSE p

Admit(p, w) ==
    LET r == AdmitWs(p, w)
    IN  IF PoolFull(r) THEN DiscardQueued(r, OldestOf(r, Workspaces)) ELSE r

Admits(p, w) ==
    /\ WsFull(p, w) => OldestOf(p, {w}) # 0
    /\ PoolFull(AdmitWs(p, w)) => OldestOf(AdmitWs(p, w), Workspaces) # 0

\* Mutant: the queue is served last in, first out.
InsertInFront(p, q) ==
    [p EXCEPT !.queries   = <<q>> \o @,
              !.cached    = @ \cup {q},
              !.legacy    = @ \cup {q},
              !.active[Ws(q)] = @ + 1,
              !.completed = @ \ {q}]

Insert(p, q) ==
    [p EXCEPT !.queries   = Append(@, q),
              !.cached    = @ \cup {q},
              !.legacy    = @ \cup {q},
              !.active[Ws(q)] = @ + 1,
              !.completed = @ \ {q}]

\* Forgetting counters: those of the other generations of the workspace, then
\* (_make_scope_counter_room_locked) enough of those of idle workspaces.
Forget(p, gone) == [p EXCEPT !.scopes = @ \ gone, !.dropped = @ \ gone]

Supersede(p, s) == Forget(p, {c \in p.scopes : c.ws = s.ws /\ c # s})

Excess(p, s) ==
    IF s \in p.scopes THEN 0 ELSE Max({0, Cardinality(p.scopes) - MaxQueries + 1})

Stale(p) == {c \in p.scopes : p.active[c.ws] = 0}

\* The code evicts the oldest stale counters; here any of them, as many.
Evictable(p, s) == {V \in SUBSET Stale(p) : Cardinality(V) = Excess(p, s)}

Count(p, s) == [p EXCEPT !.scopes = @ \cup {s}]

RemoveQuery(p, q) ==
    IF q \notin p.cached THEN p
    ELSE [p EXCEPT !.queries   = RemoveFirst(@, q),
                   !.cached    = @ \ {q},
                   !.legacy    = @ \ {q},
                   !.active    = Uncount(@, Ws(q)),
                   !.completed = @ \cup {q}]

MarkRunning(p, q) == [p EXCEPT !.queries = RemoveFirst(@, q)]
=============================================================================
