--------------------------- MODULE QueryPoolProofs ---------------------------
(****************************************************************************)
(* The operations of the pool keep it well formed, for every number of      *)
(* queries, workspaces and generations: the indexes describe the same       *)
(* queries, the limits hold, and counters can be evicted when one is needed.*)
(****************************************************************************)
EXTENDS QueryPool, SequenceTheorems, FiniteSetTheorems, WellFoundedInduction, TLAPS

\* Removing an element of a sequence closes the gap.
LEMMA RemoveAtProperties ==
    ASSUME NEW S, NEW s \in Seq(S), NEW i \in 1..Len(s)
    PROVE  /\ RemoveAt(s, i) \in Seq(S)
           /\ Len(RemoveAt(s, i)) = Len(s) - 1
           /\ \A j \in 1..(Len(s) - 1) :
                 RemoveAt(s, i)[j] = IF j < i THEN s[j] ELSE s[j + 1]
<1> DEFINE a == SubSeq(s, 1, i - 1)
           b == SubSeq(s, i + 1, Len(s))
<1>1. /\ a \in Seq(S) /\ Len(a) = i - 1
      /\ \A j \in 1..(i - 1) : a[j] = s[j]
  BY SubSeqProperties, LenProperties, ElementOfSeq
<1>2. /\ b \in Seq(S) /\ Len(b) = Len(s) - i
      /\ \A j \in 1..(Len(s) - i) : b[j] = s[i + j]
  BY SubSeqProperties, LenProperties, ElementOfSeq
<1> HIDE DEF a, b
<1>3. /\ a \o b \in Seq(S) /\ Len(a \o b) = Len(a) + Len(b)
      /\ \A j \in 1..(Len(a) + Len(b)) :
            (a \o b)[j] = IF j <= Len(a) THEN a[j] ELSE b[j - Len(a)]
  BY <1>1, <1>2, ConcatProperties
<1>4. RemoveAt(s, i) = a \o b
  BY DEF RemoveAt, a, b
<1>5. Len(s) \in Nat
  BY LenProperties
<1>6. Len(a \o b) = Len(s) - 1
  BY <1>1, <1>2, <1>3, <1>5
<1>7. ASSUME NEW j \in 1..(Len(s) - 1)
      PROVE  (a \o b)[j] = IF j < i THEN s[j] ELSE s[j + 1]
  <2>1. CASE j < i
    BY <1>1, <1>2, <1>3, <1>5, <2>1
  <2>2. CASE ~(j < i)
    <3>1. (a \o b)[j] = b[j - Len(a)]
      BY <1>1, <1>2, <1>3, <1>5, <2>2
    <3>2. b[j - Len(a)] = s[j + 1]
      <4>1. j - (i - 1) \in 1..(Len(s) - i) /\ i + (j - (i - 1)) = j + 1
        BY <1>5, <2>2
      <4> QED BY <1>1, <1>2, <4>1
    <3> QED BY <3>1, <3>2, <2>2
  <2> QED BY <2>1, <2>2
<1> QED BY <1>3, <1>4, <1>6, <1>7

\* A non-empty set of naturals has a smallest element.
LEMMA SmallestExists ==
    ASSUME NEW I \in SUBSET Nat, I # {}
    PROVE  Min(I) \in I /\ \A i \in I : Min(I) <= i
<1> DEFINE T == {1..i : i \in I}
           R == StrictSubsetOrdering(Nat)
<1>1. T \subseteq FiniteSubsetsOf(Nat) /\ T # {}
  <2>1. ASSUME NEW i \in I
        PROVE  1..i \in FiniteSubsetsOf(Nat)
    <3>1. IsFiniteSet(1..i)
      BY FS_Interval
    <3> QED BY <3>1 DEF FiniteSubsetsOf
  <2> QED BY <2>1
<1>2. PICK t \in T : \A u \in T : ~(<<u, t>> \in R)
  <2> HIDE DEF T, R
  <2>1. IsWellFoundedOn(R, FiniteSubsetsOf(Nat))
    BY FS_StrictSubsetOrderingWellFounded DEF R
  <2> QED BY <1>1, <2>1, WFMin
<1>3. PICK m \in I : t = 1..m
  OBVIOUS
<1>4. \A i \in I : m <= i
  <2> SUFFICES ASSUME NEW i \in I, i < m
               PROVE  FALSE
    OBVIOUS
  <2>1. 1..i \subseteq 1..m /\ m \in 1..m /\ m \notin 1..i
    OBVIOUS
  <2>2. <<1..i, 1..m>> \in R
    BY <2>1 DEF StrictSubsetOrdering
  <2> QED BY <1>2, <1>3, <2>2
<1> QED BY <1>4 DEF Min

\* OldestOf names the first queued query of the workspaces asked for, if there is one.
LEMMA OldestOfProperties ==
    ASSUME NEW p \in Pools, NEW W
    PROVE  /\ OldestOf(p, W) \in 0..Len(p.queries)
           /\ OldestOf(p, W) # 0 => Ws(p.queries[OldestOf(p, W)]) \in W
           /\ \A i \in 1..Len(p.queries) : i < OldestOf(p, W) => Ws(p.queries[i]) \notin W
           /\ OldestOf(p, W) = 0 => \A i \in 1..Len(p.queries) : Ws(p.queries[i]) \notin W
<1> DEFINE I == {i \in 1..Len(p.queries) : Ws(p.queries[i]) \in W}
<1>1. OldestOf(p, W) = IF I # {} THEN Min(I) ELSE 0
  BY DEF OldestOf, SelectInSeq
<1>2. p.queries \in Seq(Queries) /\ Len(p.queries) \in Nat
  BY LenProperties DEF Pools
<1>3. I \in SUBSET Nat
  BY <1>2
<1>4. I # {} => Min(I) \in I /\ \A i \in I : Min(I) <= i
  BY <1>3, SmallestExists
<1>5. \A i \in 1..Len(p.queries) : i < OldestOf(p, W) => Ws(p.queries[i]) \notin W
  <2> SUFFICES ASSUME NEW i \in 1..Len(p.queries), i < OldestOf(p, W), i \in I
               PROVE  FALSE
    OBVIOUS
  <2>1. OldestOf(p, W) \in Nat /\ OldestOf(p, W) <= i
    BY <1>1, <1>3, <1>4
  <2> QED BY <1>2, <2>1
<1> QED BY <1>1, <1>2, <1>4, <1>5

-----------------------------------------------------------------------------
(* Removing queries from the queue *)

\* Taking a queued query out by its index leaves the others, once each.
LEMMA DequeueAt ==
    ASSUME NEW s \in Seq(Queries), IsInjective(s), NEW i \in 1..Len(s)
    PROVE  /\ RemoveAt(s, i) \in Seq(Queries)
           /\ IsInjective(RemoveAt(s, i))
           /\ Range(RemoveAt(s, i)) = Range(s) \ {s[i]}
<1> DEFINE r == RemoveAt(s, i)
           n == Len(s)
<1>1. /\ r \in Seq(Queries) /\ Len(r) = n - 1
      /\ \A j \in 1..(n - 1) : r[j] = IF j < i THEN s[j] ELSE s[j + 1]
  BY RemoveAtProperties
<1>2. n \in Nat /\ DOMAIN s = 1..n /\ DOMAIN r = 1..(n - 1)
  BY <1>1, LenProperties
<1> HIDE DEF r
<1>3. IsInjective(r)
  <2> SUFFICES ASSUME NEW a \in 1..(n - 1), NEW b \in 1..(n - 1), r[a] = r[b]
               PROVE  a = b
    BY <1>2 DEF IsInjective
  <2> DEFINE at(j) == IF j < i THEN j ELSE j + 1
  <2>1. r[a] = s[at(a)] /\ r[b] = s[at(b)]
    BY <1>1
  <2>2. at(a) \in 1..n /\ at(b) \in 1..n
    BY <1>2
  <2>3. at(a) = at(b)
    BY <1>2, <2>1, <2>2 DEF IsInjective
  <2> QED BY <1>2, <2>3
<1>4. Range(r) \subseteq Range(s) \ {s[i]}
  <2> SUFFICES ASSUME NEW a \in 1..(n - 1)
               PROVE  r[a] \in Range(s) \ {s[i]}
    BY <1>2 DEF Range
  <2>1. PICK j \in 1..n : j # i /\ r[a] = s[j]
    <3>1. CASE a < i
      BY <1>1, <1>2, <3>1
    <3>2. CASE ~(a < i)
      BY <1>1, <1>2, <3>2
    <3> QED BY <3>1, <3>2
  <2> QED BY <1>2, <2>1 DEF Range, IsInjective
<1>5. Range(s) \ {s[i]} \subseteq Range(r)
  <2> SUFFICES ASSUME NEW j \in 1..n, s[j] # s[i]
               PROVE  s[j] \in Range(r)
    BY <1>2 DEF Range
  <2>1. PICK a \in 1..(n - 1) : r[a] = s[j]
    <3>1. CASE j < i
      BY <1>1, <1>2, <3>1
    <3>2. CASE j > i
      <4>1. j - 1 \in 1..(n - 1) /\ ~(j - 1 < i) /\ (j - 1) + 1 = j
        BY <1>2, <3>2
      <4> QED BY <1>1, <4>1
    <3> QED BY <1>2, <3>1, <3>2
  <2> QED BY <1>2, <2>1 DEF Range
<1> QED BY <1>1, <1>3, <1>4, <1>5 DEF r

\* Taking a query out of the queue by its identity leaves the others, once each.
LEMMA DequeueQuery ==
    ASSUME NEW s \in Seq(Queries), IsInjective(s), NEW q \in Queries
    PROVE  /\ RemoveFirst(s, q) \in Seq(Queries)
           /\ IsInjective(RemoveFirst(s, q))
           /\ Range(RemoveFirst(s, q)) = Range(s) \ {q}
<1>1. DOMAIN s = 1..Len(s) /\ Len(s) \in Nat
  BY LenProperties
<1>2. CASE \E i \in 1..Len(s) : s[i] = q
  <2> DEFINE I == {i \in 1..Len(s) : s[i] = q}
  <2>1. I \in SUBSET Nat /\ I # {}
    BY <1>1, <1>2
  <2>2. Min(I) \in I
    BY <2>1, SmallestExists
  <2>3. RemoveFirst(s, q) = RemoveAt(s, Min(I))
    BY <1>2, <2>1 DEF RemoveFirst, SelectInSeq
  <2> QED BY <2>2, <2>3, DequeueAt
<1>3. CASE ~\E i \in 1..Len(s) : s[i] = q
  BY <1>1, <1>3 DEF RemoveFirst, Range
<1> QED BY <1>2, <1>3

-----------------------------------------------------------------------------
(* Well-formed pools *)

CachedOf(p, w) == {q \in p.cached : Ws(q) = w}

\* What every method of the pool preserves.
WellFormed(p) ==
    /\ p \in Pools
    /\ p.legacy = p.cached
    /\ IsInjective(p.queries)
    /\ Queued(p) \subseteq p.cached
    /\ \A w \in Workspaces : p.active[w] = Cardinality(CachedOf(p, w))
    /\ p.completed \cap p.cached = {}
    /\ Cardinality(p.cached) <= MaxQueries
    /\ \A w \in Workspaces : p.active[w] <= MaxPerWs
    /\ \A c, d \in p.scopes : c.ws = d.ws => c = d
    /\ IsFiniteSet(p.scopes)
    /\ Cardinality(p.scopes) <= MaxQueries

\* Workspaces and scopes of queries are in the constants' sets.
LEMMA ScopeTyping ==
    ASSUME NEW q \in Queries
    PROVE  Ws(q) \in Workspaces /\ Scope(q) \in Scopes /\ Scope(q).ws = Ws(q)
BY PoolAssumption DEF Ws, Scope, Scopes

\* A pool starts well formed.
LEMMA EmptyPoolWellFormed == WellFormed(EmptyPool)
<1>1. EmptyPool \in Pools
  BY EmptySeq DEF EmptyPool, Pools
<1>2. Range(<<>>) = {} /\ IsInjective(<<>>)
  BY DEF Range, IsInjective
<1>3. \A w \in Workspaces : CachedOf(EmptyPool, w) = {}
  BY DEF CachedOf, EmptyPool
<1>4. /\ EmptyPool.queries = <<>> /\ EmptyPool.cached = {} /\ EmptyPool.legacy = {}
      /\ EmptyPool.scopes = {} /\ EmptyPool.completed = {}
      /\ \A w \in Workspaces : EmptyPool.active[w] = 0
  BY DEF EmptyPool
<1>5. /\ IsFiniteSet({}) /\ Cardinality({}) = 0
      /\ 0 <= MaxQueries /\ 0 <= MaxPerWs
  BY PoolAssumption, FS_EmptySet
<1> QED BY <1>1, <1>2, <1>3, <1>4, <1>5 DEF WellFormed, Queued

\* The pool after q has left every index, with s for a queue.
Depart(p, q, s, d) ==
    [p EXCEPT !.queries   = s,
              !.cached    = @ \ {q},
              !.legacy    = @ \ {q},
              !.active    = Uncount(@, Ws(q)),
              !.completed = @ \cup {q},
              !.dropped   = d]

\* A query that leaves the pool with its entries in every index and its
\* place in the queue leaves the pool well formed.
LEMMA Departure ==
    ASSUME NEW p, WellFormed(p), NEW q \in p.cached,
           NEW s \in Seq(Queries), IsInjective(s), Range(s) = Queued(p) \ {q},
           NEW d \in SUBSET Scopes
    PROVE  LET r == Depart(p, q, s, d)
           IN  /\ WellFormed(r)
               /\ r.cached = p.cached \ {q}
               /\ Queued(r) = Queued(p) \ {q}
               /\ r.scopes = p.scopes
               /\ Cardinality(r.cached) = Cardinality(p.cached) - 1
               /\ r.active[Ws(q)] = p.active[Ws(q)] - 1
               /\ \A w \in Workspaces : r.active[w] <= p.active[w]
<1> DEFINE r == Depart(p, q, s, d)
<1>0. r = Depart(p, q, s, d)
  OBVIOUS
<1> HIDE DEF r
<1>1. p \in Pools /\ q \in Queries /\ p.active \in [Workspaces -> Nat]
  BY DEF WellFormed, Pools
<1>2. Ws(q) \in Workspaces
  BY <1>1, ScopeTyping
<1>3. /\ r.queries = s /\ r.cached = p.cached \ {q} /\ r.legacy = p.legacy \ {q}
      /\ r.active = Uncount(p.active, Ws(q)) /\ r.scopes = p.scopes
      /\ r.completed = p.completed \cup {q} /\ r.dropped = d
  BY <1>0, <1>1 DEF Pools, Depart
<1>4. IsFiniteSet(p.cached) /\ \A w \in Workspaces : IsFiniteSet(CachedOf(p, w))
  BY <1>1, PoolAssumption, FS_Subset DEF Pools, CachedOf
<1>5. Cardinality(r.cached) = Cardinality(p.cached) - 1 /\ Cardinality(p.cached) \in Nat
  <2>1. Cardinality(p.cached \ {q}) = Cardinality(p.cached) - 1
    BY <1>4, FS_RemoveElement
  <2>2. Cardinality(p.cached) \in Nat
    BY <1>4, FS_CardinalityType
  <2> QED BY <1>3, <2>1, <2>2
<1>6. CachedOf(r, Ws(q)) = CachedOf(p, Ws(q)) \ {q} /\ q \in CachedOf(p, Ws(q))
  BY <1>3 DEF CachedOf
<1>7. ASSUME NEW w \in Workspaces, w # Ws(q)
      PROVE  CachedOf(r, w) = CachedOf(p, w)
  BY <1>3, <1>7 DEF CachedOf
<1>8. /\ Cardinality(CachedOf(r, Ws(q))) = Cardinality(CachedOf(p, Ws(q))) - 1
      /\ Cardinality(CachedOf(p, Ws(q))) \in Nat /\ Cardinality(CachedOf(r, Ws(q))) \in Nat
  <2>1. IsFiniteSet(CachedOf(p, Ws(q))) /\ IsFiniteSet(CachedOf(r, Ws(q)))
    BY <1>2, <1>4, <1>6, FS_RemoveElement
  <2> QED BY <2>1, <1>6, FS_RemoveElement, FS_CardinalityType
<1>9. /\ r.active \in [Workspaces -> Nat]
      /\ r.active[Ws(q)] = p.active[Ws(q)] - 1
      /\ \A w \in Workspaces : w # Ws(q) => r.active[w] = p.active[w]
  <2>1. p.active[Ws(q)] = Cardinality(CachedOf(p, Ws(q)))
    BY <1>2 DEF WellFormed
  <2>2. p.active[Ws(q)] >= 1
    BY <1>8, <2>1
  <2> QED BY <1>1, <1>2, <1>3, <2>2 DEF Uncount
<1>10. \A w \in Workspaces : r.active[w] = Cardinality(CachedOf(r, w))
  BY <1>7, <1>8, <1>9, <1>2 DEF WellFormed
<1>11. \A w \in Workspaces : r.active[w] <= p.active[w] /\ r.active[w] <= MaxPerWs
  <2> SUFFICES ASSUME NEW w \in Workspaces
               PROVE  r.active[w] <= p.active[w] /\ r.active[w] <= MaxPerWs
    OBVIOUS
  <2>1. p.active[w] \in Nat /\ p.active[w] <= MaxPerWs /\ MaxPerWs \in Nat
    BY <1>1, PoolAssumption DEF WellFormed
  <2> QED BY <1>9, <2>1
<1>12. r \in Pools
  BY <1>0, <1>1, <1>9 DEF Pools, Depart
<1>13. Cardinality(r.cached) <= MaxQueries
  BY <1>5, PoolAssumption DEF WellFormed
<1>14. Queued(r) = Queued(p) \ {q}
  BY <1>3 DEF Queued
<1>15. /\ r.legacy = r.cached /\ IsInjective(r.queries) /\ Queued(r) \subseteq r.cached
       /\ r.completed \cap r.cached = {}
  BY <1>3, <1>14 DEF WellFormed
<1>16. WellFormed(r)
  BY <1>3, <1>10, <1>11, <1>12, <1>13, <1>15 DEF WellFormed
<1> QED BY <1>3, <1>5, <1>9, <1>11, <1>14, <1>16 DEF r

\* Discarding a queued query (overload) is a departure.
LEMMA DiscardProperties ==
    ASSUME NEW p, WellFormed(p), NEW i \in 1..Len(p.queries)
    PROVE  LET q == p.queries[i]
               r == DiscardQueued(p, i)
           IN  /\ q \in Queued(p)
               /\ WellFormed(r)
               /\ r.cached = p.cached \ {q}
               /\ Queued(r) = Queued(p) \ {q}
               /\ r.scopes = p.scopes
               /\ Cardinality(r.cached) = Cardinality(p.cached) - 1
               /\ r.active[Ws(q)] = p.active[Ws(q)] - 1
               /\ \A w \in Workspaces : r.active[w] <= p.active[w]
<1> DEFINE q == p.queries[i]
           r == DiscardQueued(p, i)
           s == RemoveAt(p.queries, i)
           d == p.dropped \cup {Scope(q)}
<1>1. p.queries \in Seq(Queries) /\ IsInjective(p.queries) /\ p.dropped \subseteq Scopes
      /\ p \in Pools
  BY DEF WellFormed, Pools
<1>2. q \in Queued(p) /\ q \in p.cached /\ q \in Queries
  <2>1. DOMAIN p.queries = 1..Len(p.queries)
    BY <1>1, LenProperties
  <2> QED BY <1>1, <2>1, ElementOfSeq DEF Queued, Range, WellFormed
<1>3. s \in Seq(Queries) /\ IsInjective(s) /\ Range(s) = Queued(p) \ {q}
  BY <1>1, DequeueAt DEF Queued
<1>4. d \in SUBSET Scopes
  BY <1>1, <1>2, ScopeTyping
<1>5. r = Depart(p, q, s, d)
  BY DEF DiscardQueued, Depart
<1> HIDE DEF q, r, s, d
<1>6. /\ WellFormed(r) /\ r.cached = p.cached \ {q} /\ Queued(r) = Queued(p) \ {q}
      /\ r.scopes = p.scopes /\ Cardinality(r.cached) = Cardinality(p.cached) - 1
      /\ r.active[Ws(q)] = p.active[Ws(q)] - 1
      /\ \A w \in Workspaces : r.active[w] <= p.active[w]
  BY <1>2, <1>3, <1>4, <1>5, Departure
<1> QED BY <1>2, <1>6 DEF q, r

\* So is removing a query that has run; removing it again changes nothing.
LEMMA RemoveProperties ==
    ASSUME NEW p, WellFormed(p), NEW q \in Queries
    PROVE  LET r == RemoveQuery(p, q)
           IN  /\ WellFormed(r)
               /\ r.cached = p.cached \ {q}
               /\ Queued(r) = Queued(p) \ {q}
               /\ r.scopes = p.scopes
<1> DEFINE r == RemoveQuery(p, q)
<1>1. CASE q \notin p.cached
  BY <1>1 DEF RemoveQuery, WellFormed
<1>2. CASE q \in p.cached
  <2> DEFINE s == RemoveFirst(p.queries, q)
             d == p.dropped
  <2>1. p.queries \in Seq(Queries) /\ IsInjective(p.queries) /\ p.dropped \subseteq Scopes
        /\ p \in Pools
    BY DEF WellFormed, Pools
  <2>2. s \in Seq(Queries) /\ IsInjective(s) /\ Range(s) = Queued(p) \ {q}
    BY <2>1, DequeueQuery DEF Queued
  <2>3. r = Depart(p, q, s, d)
    BY <1>2, <2>1 DEF RemoveQuery, Depart, Pools
  <2>5. d \in SUBSET Scopes
    BY <2>1
  <2> HIDE DEF r, s, d
  <2>4. /\ WellFormed(r) /\ r.cached = p.cached \ {q} /\ Queued(r) = Queued(p) \ {q}
        /\ r.scopes = p.scopes
    BY <1>2, <2>2, <2>3, <2>5, Departure
  <2> QED BY <2>4 DEF r
<1> QED BY <1>1, <1>2

\* A query that is marked running leaves the queue and stays cached.
LEMMA MarkRunningProperties ==
    ASSUME NEW p, WellFormed(p), NEW q \in Queries
    PROVE  LET r == MarkRunning(p, q)
           IN  /\ WellFormed(r)
               /\ r.cached = p.cached
               /\ Queued(r) = Queued(p) \ {q}
               /\ r.scopes = p.scopes
<1> DEFINE r == MarkRunning(p, q)
<1>1. p.queries \in Seq(Queries) /\ IsInjective(p.queries) /\ p \in Pools
  BY DEF WellFormed, Pools
<1>2. /\ r.queries = RemoveFirst(p.queries, q) /\ r.cached = p.cached
      /\ r.legacy = p.legacy /\ r.active = p.active /\ r.scopes = p.scopes
      /\ r.dropped = p.dropped /\ r.completed = p.completed
  BY <1>1 DEF MarkRunning, Pools
<1>3. r.queries \in Seq(Queries) /\ IsInjective(r.queries) /\ Queued(r) = Queued(p) \ {q}
  BY <1>1, <1>2, DequeueQuery DEF Queued
<1>4. r \in Pools
  BY <1>1, <1>3 DEF MarkRunning, Pools
<1>5. \A w : CachedOf(r, w) = CachedOf(p, w)
  BY <1>2 DEF CachedOf
<1> HIDE DEF r
<1>6. WellFormed(r)
  BY <1>2, <1>3, <1>4, <1>5 DEF WellFormed
<1> QED BY <1>2, <1>3, <1>6 DEF r

\* An admission that does not raise leaves room for one query in the workspace
\* and in the pool, and gives up queued queries only.
LEMMA AdmitProperties ==
    ASSUME NEW p, WellFormed(p), NEW w \in Workspaces, Admits(p, w)
    PROVE  LET a == Admit(p, w)
           IN  /\ WellFormed(a)
               /\ a.cached \subseteq p.cached
               /\ p.cached \ a.cached \subseteq Queued(p)
               /\ Queued(a) = Queued(p) \cap a.cached
               /\ a.scopes = p.scopes
               /\ a.active[w] < MaxPerWs
               /\ Cardinality(a.cached) < MaxQueries
<1> DEFINE r == AdmitWs(p, w)
           a == Admit(p, w)
<1>1. \A z : WellFormed(z) =>
         /\ z \in Pools /\ z.queries \in Seq(Queries) /\ Len(z.queries) \in Nat
         /\ z.active[w] \in Nat /\ z.active[w] <= MaxPerWs
         /\ Cardinality(z.cached) \in Nat /\ Cardinality(z.cached) <= MaxQueries
         /\ Queued(z) \subseteq z.cached
  <2> SUFFICES ASSUME NEW z, WellFormed(z)
               PROVE  /\ z \in Pools /\ z.queries \in Seq(Queries) /\ Len(z.queries) \in Nat
                      /\ z.active[w] \in Nat /\ z.active[w] <= MaxPerWs
                      /\ Cardinality(z.cached) \in Nat /\ Cardinality(z.cached) <= MaxQueries
                      /\ Queued(z) \subseteq z.cached
    OBVIOUS
  <2>1. z \in Pools /\ z.active[w] <= MaxPerWs /\ Cardinality(z.cached) <= MaxQueries
        /\ Queued(z) \subseteq z.cached
    BY DEF WellFormed
  <2>2. z.queries \in Seq(Queries) /\ z.active[w] \in Nat /\ z.cached \in SUBSET Queries
    BY <2>1 DEF Pools
  <2>3. Len(z.queries) \in Nat /\ Cardinality(z.cached) \in Nat
    BY <2>2, LenProperties, PoolAssumption, FS_Subset, FS_CardinalityType
  <2> QED BY <2>1, <2>2, <2>3
<1>2. /\ WellFormed(r)
      /\ r.cached \subseteq p.cached
      /\ p.cached \ r.cached \subseteq Queued(p)
      /\ Queued(r) = Queued(p) \cap r.cached
      /\ r.scopes = p.scopes
      /\ r.active[w] < MaxPerWs
  <2>1. CASE WsFull(p, w)
    <3> DEFINE i == OldestOf(p, {w})
    <3>1. i # 0 /\ r = DiscardQueued(p, i)
      BY <2>1 DEF Admits, AdmitWs
    <3>2. i \in 1..Len(p.queries) /\ Ws(p.queries[i]) = w
      BY <1>1, <3>1, OldestOfProperties
    <3> HIDE DEF i, r
    <3>3. /\ p.queries[i] \in Queued(p) /\ WellFormed(r)
          /\ r.cached = p.cached \ {p.queries[i]}
          /\ Queued(r) = Queued(p) \ {p.queries[i]}
          /\ r.scopes = p.scopes
          /\ r.active[w] = p.active[w] - 1
      BY <3>1, <3>2, DiscardProperties
    <3>4. r.active[w] < MaxPerWs
      BY <1>1, <3>3, PoolAssumption
    <3> QED BY <1>1, <3>3, <3>4
  <2>2. CASE ~WsFull(p, w)
    <3>1. r = p
      BY <2>2 DEF AdmitWs
    <3>2. p.active[w] < MaxPerWs
      BY <1>1, <2>2, PoolAssumption DEF WsFull
    <3> HIDE DEF r
    <3> QED BY <1>1, <3>1, <3>2
  <2> QED BY <2>1, <2>2
<1> HIDE DEF r
<1>3. CASE PoolFull(r)
  <2> DEFINE i == OldestOf(r, Workspaces)
  <2>1. i # 0 /\ a = DiscardQueued(r, i)
    BY <1>3 DEF Admits, Admit, r
  <2>2. i \in 1..Len(r.queries)
    BY <1>1, <1>2, <2>1, OldestOfProperties
  <2> HIDE DEF i, a
  <2>3. /\ r.queries[i] \in Queued(r) /\ WellFormed(a)
        /\ a.cached = r.cached \ {r.queries[i]}
        /\ Queued(a) = Queued(r) \ {r.queries[i]}
        /\ a.scopes = r.scopes
        /\ Cardinality(a.cached) = Cardinality(r.cached) - 1
        /\ a.active[w] <= r.active[w]
    BY <1>2, <2>1, <2>2, DiscardProperties
  <2>4. Cardinality(a.cached) < MaxQueries /\ a.active[w] < MaxPerWs
    BY <1>1, <1>2, <2>3, PoolAssumption
  <2>5. /\ WellFormed(a)
        /\ a.cached \subseteq p.cached
        /\ p.cached \ a.cached \subseteq Queued(p)
        /\ Queued(a) = Queued(p) \cap a.cached
        /\ a.scopes = p.scopes
    BY <1>2, <2>3
  <2> QED BY <2>4, <2>5 DEF a
<1>4. CASE ~PoolFull(r)
  <2>1. a = r
    BY <1>4 DEF Admit, r
  <2>2. Cardinality(r.cached) < MaxQueries
    BY <1>1, <1>2, <1>4, PoolAssumption DEF PoolFull
  <2> HIDE DEF a
  <2>3. /\ WellFormed(a) /\ a.cached \subseteq p.cached
        /\ p.cached \ a.cached \subseteq Queued(p)
        /\ Queued(a) = Queued(p) \cap a.cached
        /\ a.scopes = p.scopes /\ a.active[w] < MaxPerWs
        /\ Cardinality(a.cached) < MaxQueries
    BY <1>2, <2>1, <2>2
  <2> QED BY <2>3 DEF a
<1> QED BY <1>3, <1>4

\* Inserting a new query where there is room for it.
LEMMA InsertProperties ==
    ASSUME NEW p, WellFormed(p), NEW q \in Queries \ p.cached,
           p.active[Ws(q)] < MaxPerWs, Cardinality(p.cached) < MaxQueries
    PROVE  LET r == Insert(p, q)
           IN  /\ WellFormed(r)
               /\ r.cached = p.cached \cup {q}
               /\ Queued(r) = Queued(p) \cup {q}
               /\ r.scopes = p.scopes
<1> DEFINE r == Insert(p, q)
<1>1. /\ p \in Pools /\ p.queries \in Seq(Queries) /\ IsInjective(p.queries)
      /\ q \notin Range(p.queries)
  BY DEF WellFormed, Pools, Queued
<1>2. /\ r.queries = Append(p.queries, q) /\ r.cached = p.cached \cup {q}
      /\ r.legacy = p.legacy \cup {q}
      /\ r.active = [p.active EXCEPT ![Ws(q)] = @ + 1]
      /\ r.scopes = p.scopes /\ r.dropped = p.dropped
      /\ r.completed = p.completed \ {q}
  BY <1>1 DEF Insert, Pools
<1>3. /\ r.queries \in Seq(Queries) /\ IsInjective(r.queries)
      /\ Range(r.queries) = Range(p.queries) \cup {q}
  <2> DEFINE s == p.queries
             t == Append(s, q)
  <2>1. /\ t \in Seq(Queries) /\ Len(t) = Len(s) + 1 /\ t[Len(s) + 1] = q
        /\ \A i \in 1..Len(s) : t[i] = s[i]
    BY <1>1, AppendProperties
  <2>2. Len(s) \in Nat /\ DOMAIN s = 1..Len(s) /\ DOMAIN t = 1..(Len(s) + 1)
    BY <1>1, <2>1, LenProperties
  <2> HIDE DEF t
  <2>3. \A i \in 1..(Len(s) + 1) : i \in 1..Len(s) \/ i = Len(s) + 1
    BY <2>2
  <2>4. IsInjective(t)
    <3> SUFFICES ASSUME NEW i \in DOMAIN t, NEW j \in DOMAIN t, t[i] = t[j]
                 PROVE  i = j
      BY DEF IsInjective
    <3>1. CASE i \in 1..Len(s) /\ j \in 1..Len(s)
      BY <1>1, <2>1, <2>2, <3>1 DEF IsInjective
    <3>2. CASE i \notin 1..Len(s) \/ j \notin 1..Len(s)
      BY <1>1, <2>1, <2>2, <2>3, <3>2 DEF Range
    <3> QED BY <3>1, <3>2
  <2>5. Range(t) = Range(s) \cup {q}
    <3>1. Range(t) \subseteq Range(s) \cup {q}
      BY <2>1, <2>2, <2>3 DEF Range
    <3>2. \A i \in 1..Len(s) : i \in DOMAIN t
      BY <2>2
    <3>3. Len(s) + 1 \in DOMAIN t
      BY <2>2
    <3>4. Range(s) \cup {q} \subseteq Range(t)
      BY <2>1, <2>2, <3>2, <3>3 DEF Range
    <3> QED BY <3>1, <3>4
  <2> QED BY <1>2, <2>1, <2>4, <2>5 DEF t
<1>4. Ws(q) \in Workspaces
  BY ScopeTyping
<1>5. r.active \in [Workspaces -> Nat]
  BY <1>1, <1>2, <1>4 DEF Pools
<1>6. r \in Pools
  BY <1>1, <1>3, <1>5 DEF Insert, Pools
<1> HIDE DEF r
<1>7. IsFiniteSet(p.cached) /\ \A w \in Workspaces : IsFiniteSet(CachedOf(p, w))
  BY <1>1, PoolAssumption, FS_Subset DEF Pools, CachedOf
<1>8. Cardinality(r.cached) <= MaxQueries
  <2>1. Cardinality(p.cached \cup {q}) = Cardinality(p.cached) + 1
    BY <1>7, FS_AddElement
  <2>2. Cardinality(p.cached) \in Nat
    BY <1>7, FS_CardinalityType
  <2> QED BY <1>2, <2>1, <2>2, PoolAssumption
<1>9. ASSUME NEW w \in Workspaces
      PROVE  r.active[w] = Cardinality(CachedOf(r, w)) /\ r.active[w] <= MaxPerWs
  <2>1. p.active[w] = Cardinality(CachedOf(p, w)) /\ p.active[w] <= MaxPerWs
        /\ p.active[w] \in Nat /\ MaxPerWs \in Nat
    BY <1>1, PoolAssumption DEF WellFormed, Pools
  <2>2. CASE w = Ws(q)
    <3>1. CachedOf(r, w) = CachedOf(p, w) \cup {q} /\ q \notin CachedOf(p, w)
      BY <1>2, <2>2 DEF CachedOf
    <3>2. Cardinality(CachedOf(p, w) \cup {q}) = Cardinality(CachedOf(p, w)) + 1
      BY <1>7, <3>1, FS_AddElement
    <3>3. r.active[w] = p.active[w] + 1
      BY <1>1, <1>2, <2>2 DEF Pools
    <3> QED BY <2>1, <2>2, <3>1, <3>2, <3>3
  <2>3. CASE w # Ws(q)
    <3>1. CachedOf(r, w) = CachedOf(p, w)
      BY <1>2, <2>3 DEF CachedOf
    <3>2. r.active[w] = p.active[w]
      BY <1>1, <1>2, <2>3 DEF Pools
    <3> QED BY <2>1, <3>1, <3>2
  <2> QED BY <2>2, <2>3
<1>10. Queued(r) = Queued(p) \cup {q}
  BY <1>2, <1>3 DEF Queued
<1>11. WellFormed(r)
  BY <1>2, <1>3, <1>6, <1>8, <1>9, <1>10 DEF WellFormed
<1> QED BY <1>2, <1>10, <1>11 DEF r

\* Forgetting counters disturbs no query.
LEMMA ForgetProperties ==
    ASSUME NEW p, WellFormed(p), NEW gone
    PROVE  LET r == Forget(p, gone)
           IN  /\ WellFormed(r)
               /\ r.cached = p.cached
               /\ Queued(r) = Queued(p)
               /\ r.active = p.active
               /\ r.scopes = p.scopes \ gone
<1> DEFINE r == Forget(p, gone)
<1>1. p \in Pools
  BY DEF WellFormed
<1>2. /\ r.queries = p.queries /\ r.cached = p.cached /\ r.legacy = p.legacy
      /\ r.active = p.active /\ r.scopes = p.scopes \ gone
      /\ r.completed = p.completed
  BY <1>1 DEF Forget, Pools
<1>3. r \in Pools
  BY <1>1 DEF Forget, Pools
<1> HIDE DEF r
<1>4. \A w : CachedOf(r, w) = CachedOf(p, w)
  BY <1>2 DEF CachedOf
<1>5. IsFiniteSet(r.scopes) /\ Cardinality(r.scopes) <= MaxQueries
  <2>1. IsFiniteSet(p.scopes) /\ Cardinality(p.scopes) <= MaxQueries
    BY DEF WellFormed
  <2>2. /\ IsFiniteSet(r.scopes) /\ Cardinality(r.scopes) <= Cardinality(p.scopes)
        /\ Cardinality(r.scopes) \in Nat /\ Cardinality(p.scopes) \in Nat
    BY <1>2, <2>1, FS_Subset, FS_CardinalityType
  <2> QED BY <2>1, <2>2, PoolAssumption
<1>6. WellFormed(r)
  BY <1>2, <1>3, <1>4, <1>5 DEF WellFormed, Queued
<1> QED BY <1>2, <1>6 DEF r, Queued

-----------------------------------------------------------------------------
(* Room for the counters *)

\* The larger of zero and x.
LEMMA MaxWithZero ==
    ASSUME NEW x \in Int
    PROVE  Max({0, x}) = IF x > 0 THEN x ELSE 0
<1> DEFINE m == IF x > 0 THEN x ELSE 0
<1>1. m \in {0, x} /\ \A y \in {0, x} : m >= y
  OBVIOUS
<1>2. \A n \in {0, x} : (\A y \in {0, x} : n >= y) => n = m
  OBVIOUS
<1> QED BY <1>1, <1>2 DEF Max

\* When a workspace has a cached query and only the counter of the query's own
\* generation, the counters of idle workspaces are enough to make room: busy
\* workspaces have a cached query each, and there are at most MaxQueries of them.
LEMMA CounterRoom ==
    ASSUME NEW p, WellFormed(p), NEW q \in p.cached,
           \A c \in p.scopes : c.ws = Ws(q) => c = Scope(q)
    PROVE  Excess(p, Scope(q)) <= Cardinality(Stale(p))
<1> DEFINE s == Scope(q)
           busy == p.scopes \ Stale(p)
           others == p.cached \ {q}
<1>1. /\ p \in Pools /\ p.scopes \subseteq Scopes /\ IsFiniteSet(p.scopes)
      /\ p.cached \subseteq Queries /\ q \in Queries /\ MaxQueries \in Nat
  BY PoolAssumption DEF WellFormed, Pools
<1>2. IsFiniteSet(Stale(p)) /\ IsFiniteSet(busy) /\ IsFiniteSet(others) /\ IsFiniteSet(p.cached)
  <2>1. IsFiniteSet(p.cached)
    BY <1>1, PoolAssumption, FS_Subset
  <2>2. Stale(p) \in SUBSET p.scopes /\ busy \in SUBSET p.scopes /\ others \in SUBSET p.cached
    BY DEF Stale
  <2> QED BY <1>1, <2>1, <2>2, FS_Subset
<1>3. /\ Cardinality(Stale(p)) \in Nat /\ Cardinality(busy) \in Nat
      /\ Cardinality(others) \in Nat /\ Cardinality(p.scopes) \in Nat
      /\ Cardinality(p.cached) \in Nat
  BY <1>1, <1>2, FS_CardinalityType
<1>4. CASE s \in p.scopes
  BY <1>3, <1>4 DEF Excess
<1>5. CASE s \notin p.scopes
  <2>1. \A c \in busy : \E x \in others : Ws(x) = c.ws
    <3> SUFFICES ASSUME NEW c \in busy
                 PROVE  \E x \in others : Ws(x) = c.ws
      OBVIOUS
    <3>1. c \in Scopes /\ c.ws \in Workspaces /\ p.active[c.ws] # 0
      BY <1>1 DEF Stale, Scopes
    <3>2. CachedOf(p, c.ws) # {}
      BY <3>1, FS_EmptySet DEF WellFormed
    <3>3. PICK x \in p.cached : Ws(x) = c.ws
      BY <3>2 DEF CachedOf
    <3>4. x # q
      BY <1>5, <3>3
    <3> QED BY <3>3, <3>4
  <2> DEFINE f == [c \in busy |-> CHOOSE x \in others : Ws(x) = c.ws]
  <2>2. f \in [busy -> others] /\ \A c \in busy : Ws(f[c]) = c.ws
    BY <2>1
  <2>3. ~(Cardinality(others) < Cardinality(busy))
    <3> SUFFICES ASSUME Cardinality(others) < Cardinality(busy)
                 PROVE  FALSE
      OBVIOUS
    <3> HIDE DEF f, busy, others
    <3>1. PICK c, d \in busy : c # d /\ f[c] = f[d]
      BY <1>2, <2>2, FS_PigeonHole
    <3>2. c.ws = d.ws
      BY <2>2, <3>1
    <3> QED BY <3>1, <3>2 DEF WellFormed, busy
  <2>4. Cardinality(others) = Cardinality(p.cached) - 1
    BY <1>2, FS_RemoveElement
  <2>5. Cardinality(p.cached) <= MaxQueries
    BY DEF WellFormed
  <2>6. Cardinality(busy) = Cardinality(p.scopes) - Cardinality(Stale(p))
    <3>1. p.scopes \cap Stale(p) = Stale(p)
      BY DEF Stale
    <3> QED BY <1>1, <3>1, FS_Difference
  <2> HIDE DEF busy, others
  <2>7. Cardinality(p.scopes) - MaxQueries + 1 <= Cardinality(Stale(p))
    BY <1>1, <1>3, <2>3, <2>4, <2>5, <2>6
  <2>8. Excess(p, s) = Max({0, Cardinality(p.scopes) - MaxQueries + 1})
    BY <1>5 DEF Excess
  <2>9. Cardinality(p.scopes) - MaxQueries + 1 \in Int
    BY <1>1, <1>3
  <2> HIDE DEF s
  <2>10. Excess(p, s) <= Cardinality(Stale(p))
    BY <1>3, <2>7, <2>8, <2>9, MaxWithZero
  <2> QED BY <2>10 DEF s
<1> QED BY <1>4, <1>5

\* Counting a query after room was made for its counter.
LEMMA CountProperties ==
    ASSUME NEW p, WellFormed(p), NEW q \in p.cached,
           \A c \in p.scopes : c.ws = Ws(q) => c = Scope(q),
           NEW V \in Evictable(p, Scope(q))
    PROVE  LET r == Count(Forget(p, V), Scope(q))
           IN  /\ WellFormed(r)
               /\ r.cached = p.cached
               /\ Queued(r) = Queued(p)
<1> DEFINE s == Scope(q)
           f == Forget(p, V)
           r == Count(f, s)
<1>1. /\ WellFormed(f) /\ f.cached = p.cached /\ Queued(f) = Queued(p)
      /\ f.scopes = p.scopes \ V
  BY ForgetProperties
<1>2. f \in Pools /\ s \in Scopes /\ s.ws = Ws(q)
  <2>1. q \in Queries
    BY DEF WellFormed, Pools
  <2> QED BY <1>1, <2>1, ScopeTyping DEF WellFormed
<1> HIDE DEF f, s
<1>3. /\ r.queries = f.queries /\ r.cached = f.cached /\ r.legacy = f.legacy
      /\ r.active = f.active /\ r.completed = f.completed
      /\ r.scopes = f.scopes \cup {s}
  BY <1>2 DEF Count, Pools
<1>4. r \in Pools
  BY <1>2 DEF Count, Pools
<1> HIDE DEF r
<1>5. \A w : CachedOf(r, w) = CachedOf(f, w)
  BY <1>3 DEF CachedOf
<1>6. \A c, d \in r.scopes : c.ws = d.ws => c = d
  BY <1>1, <1>2, <1>3 DEF WellFormed, s
<1>7. IsFiniteSet(r.scopes) /\ Cardinality(r.scopes) <= MaxQueries
  <2>1. IsFiniteSet(p.scopes) /\ IsFiniteSet(f.scopes) /\ Cardinality(p.scopes) <= MaxQueries
        /\ Cardinality(f.scopes) <= MaxQueries
    BY <1>1 DEF WellFormed
  <2>2. Cardinality(p.scopes) \in Nat /\ Cardinality(f.scopes) \in Nat /\ MaxQueries \in Nat
    BY <2>1, FS_CardinalityType, PoolAssumption
  <2>3. /\ IsFiniteSet(f.scopes \cup {s})
        /\ Cardinality(f.scopes \cup {s}) =
              IF s \in f.scopes THEN Cardinality(f.scopes) ELSE Cardinality(f.scopes) + 1
    BY <2>1, FS_AddElement
  <2>4. CASE s \in f.scopes
    BY <1>3, <2>1, <2>3, <2>4
  <2>5. CASE s \in p.scopes \ f.scopes
    <3>1. s \in Stale(p)
      BY <1>1, <2>5 DEF Evictable
    <3>2. p.active[Ws(q)] # 0
      <4>1. q \in CachedOf(p, Ws(q)) /\ Ws(q) \in Workspaces /\ q \in Queries
            /\ p.cached \in SUBSET Queries
        <5>1. q \in Queries /\ p.cached \in SUBSET Queries
          BY DEF WellFormed, Pools
        <5> QED BY <5>1, ScopeTyping DEF CachedOf
      <4>2. IsFiniteSet(CachedOf(p, Ws(q)))
        BY <4>1, PoolAssumption, FS_Subset DEF CachedOf
      <4>3. Cardinality(CachedOf(p, Ws(q))) # 0
        BY <4>1, <4>2, FS_EmptySet
      <4> QED BY <4>1, <4>3 DEF WellFormed
    <3> QED BY <1>2, <3>1, <3>2 DEF Stale
  <2>6. CASE s \notin p.scopes
    <3>1. Cardinality(V) = Max({0, Cardinality(p.scopes) - MaxQueries + 1}) /\ V \subseteq p.scopes
      BY <2>6 DEF Evictable, Excess, Stale, s
    <3>2. Cardinality(V) >= Cardinality(p.scopes) - MaxQueries + 1 /\ Cardinality(V) \in Nat
      <4>1. Cardinality(p.scopes) - MaxQueries + 1 \in Int
        BY <2>2
      <4> QED BY <3>1, <4>1, MaxWithZero
    <3>3. Cardinality(p.scopes \ V) = Cardinality(p.scopes) - Cardinality(V)
      <4>1. p.scopes \cap V = V
        BY <3>1
      <4> QED BY <2>1, <4>1, FS_Difference
    <3>4. s \notin f.scopes
      BY <1>1, <2>6
    <3> QED BY <1>1, <1>3, <2>2, <2>3, <3>2, <3>3, <3>4
  <2> QED BY <2>4, <2>5, <2>6
<1>8. WellFormed(r)
  BY <1>1, <1>3, <1>4, <1>5, <1>6, <1>7 DEF WellFormed, Queued
<1> QED BY <1>1, <1>3, <1>8 DEF r, f, s, Queued

\* The pool after add_query has inserted q: well formed, with q queued behind
\* the queries that were not given up, and with room for the counter of q.
LEMMA AddedProperties ==
    ASSUME NEW p, WellFormed(p), NEW q \in Queries \ p.cached, Admits(p, Ws(q))
    PROVE  LET r == Supersede(Insert(Admit(p, Ws(q)), q), Scope(q))
           IN  /\ WellFormed(r)
               /\ q \in r.cached
               /\ r.cached \subseteq p.cached \cup {q}
               /\ p.cached \ r.cached \subseteq Queued(p)
               /\ Queued(r) = (Queued(p) \cap r.cached) \cup {q}
               /\ \A c \in r.scopes : c.ws = Ws(q) => c = Scope(q)
               /\ Excess(r, Scope(q)) <= Cardinality(Stale(r))
<1> DEFINE a == Admit(p, Ws(q))
           b == Insert(a, q)
           r == Supersede(b, Scope(q))
<1>1. Ws(q) \in Workspaces /\ Scope(q).ws = Ws(q)
  BY ScopeTyping
<1>2. /\ WellFormed(a) /\ a.cached \subseteq p.cached
      /\ p.cached \ a.cached \subseteq Queued(p)
      /\ Queued(a) = Queued(p) \cap a.cached
      /\ a.active[Ws(q)] < MaxPerWs /\ Cardinality(a.cached) < MaxQueries
  BY <1>1, AdmitProperties
<1> HIDE DEF a
<1>3. q \in Queries \ a.cached
  BY <1>2
<1>4. /\ WellFormed(b) /\ b.cached = a.cached \cup {q}
      /\ Queued(b) = Queued(a) \cup {q}
  BY <1>2, <1>3, InsertProperties
<1> HIDE DEF b
<1>5. /\ WellFormed(r) /\ r.cached = b.cached /\ Queued(r) = Queued(b)
      /\ r.scopes = b.scopes \ {c \in b.scopes : c.ws = Scope(q).ws /\ c # Scope(q)}
  BY <1>4, ForgetProperties DEF Supersede
<1> HIDE DEF r
<1>6. q \in r.cached /\ \A c \in r.scopes : c.ws = Ws(q) => c = Scope(q)
  BY <1>1, <1>4, <1>5
<1>7. Excess(r, Scope(q)) <= Cardinality(Stale(r))
  BY <1>5, <1>6, CounterRoom
<1>8. /\ r.cached \subseteq p.cached \cup {q}
      /\ p.cached \ r.cached \subseteq Queued(p)
      /\ Queued(r) = (Queued(p) \cap r.cached) \cup {q}
  BY <1>2, <1>3, <1>4, <1>5
<1> QED BY <1>5, <1>6, <1>7, <1>8 DEF r, b, a
=============================================================================
