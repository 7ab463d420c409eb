--------------------------- MODULE SteeringProofs ---------------------------
(****************************************************************************)
(* Steering for any number of messages, slots and queue sizes: a message is *)
(* claimed by one run at most, the queue of a run is bounded and is gone    *)
(* with its run, and nothing that was claimed is lost or overtaken.         *)
(*                                                                          *)
(* The properties are not inductive: which parts of a run's claims may be   *)
(* there at all depends on how far the run is (Emptied), and an offer may   *)
(* enqueue a message because it has not moved on since (Placed).            *)
(****************************************************************************)
EXTENDS Steering, SequenceTheorems, TLAPS

\* Where messages are: those that have not arrived, the one the scan is at, those of the
\* runs in the registry, those that a run has claimed.
Placed ==
    /\ \A m \in Messages : m > arrived => stage[m] = "away"
    /\ scan # 0 => stage[scan] = "waiting"
    /\ \A m \in Messages : m \in live <=> stage[m] = "active"
    /\ \A m \in Messages : owner[m] # 0 =>
          stage[m] \in {"waiting", "offering", "leaving", "gone"}

\* What of a run's claims may be left at each stage of the run.
Emptied ==
    \A r \in Messages :
        /\ queue[r] # <<>> => stage[r] = "active"
        /\ pending[r] # <<>> => stage[r] = "closing" /\ lost[r] = <<>>
        /\ dropped[r] # <<>> \/ lost[r] # <<>> => stage[r] \in {"closing", "leaving", "gone"}

\* A message is claimed once, by its owner.
ClaimedOnce ==
    \A m, r \in Messages : \A i, j \in Occurrences(claims[r], m) : r = owner[m] /\ i = j

Inv == TypeOK /\ Placed /\ Emptied /\ ClaimedOnce /\ ClaimOrder /\ QueueBounded

-----------------------------------------------------------------------------
(* Sequences: moving a message or a part from one place to the next *)

\* The claims of a run by what became of them: pulled, dropped, in the queue, left to audit
\* and lost.
Whole(p, d, q, w, l) == p \o d \o q \o w \o l

\* Appending adds one occurrence, of the message that is appended.
LEMMA AppendOccurs ==
    ASSUME NEW s \in Seq(Messages), NEW m \in Messages, NEW n \in Messages
    PROVE  /\ n # m => Occurrences(Append(s, m), n) = Occurrences(s, n)
           /\ Occurrences(Append(s, m), m) = Occurrences(s, m) \cup {Len(s) + 1}
<1>1. /\ Len(s) \in Nat
      /\ Len(Append(s, m)) = Len(s) + 1
      /\ \A i \in 1..Len(s) : Append(s, m)[i] = s[i]
      /\ Append(s, m)[Len(s) + 1] = m
  BY LenProperties, AppendProperties
<1> QED BY <1>1 DEF Occurrences

\* A message that is enqueued is the last of the claims.
LEMMA EnqueueOrder ==
    ASSUME NEW p \in Seq(Messages), NEW q \in Seq(Messages), NEW m \in Messages
    PROVE  Append(Whole(p, <<>>, q, <<>>, <<>>), m)
           = Whole(p, <<>>, Append(q, m), <<>>, <<>>)
<1>1. p \o q \in Seq(Messages) /\ Append(q, m) \in Seq(Messages) /\ <<m>> \in Seq(Messages)
  BY ConcatProperties, AppendProperties
<1>2. p \o Append(q, m) \in Seq(Messages)
  BY <1>1, ConcatProperties
<1>3. Append(p \o q, m) = p \o Append(q, m)
  <2>1. Append(p \o q, m) = (p \o q) \o <<m>> /\ Append(q, m) = q \o <<m>>
    BY <1>1, AppendIsConcat
  <2>2. (p \o q) \o <<m>> = p \o (q \o <<m>>)
    BY <1>1, ConcatAssociative
  <2> QED BY <2>1, <2>2
<1> QED BY <1>1, <1>2, <1>3, ConcatEmptySeq DEF Whole

\* What is pulled is the front of the queue.
LEMMA PullOrder ==
    ASSUME NEW p \in Seq(Messages), NEW q \in Seq(Messages), NEW n \in 1..Len(q)
    PROVE  /\ SubSeq(q, 1, n) \in Seq(Messages)
           /\ SubSeq(q, n + 1, Len(q)) \in Seq(Messages)
           /\ Len(SubSeq(q, n + 1, Len(q))) <= Len(q)
           /\ Whole(p, <<>>, q, <<>>, <<>>)
              = Whole(p \o SubSeq(q, 1, n), <<>>, SubSeq(q, n + 1, Len(q)), <<>>, <<>>)
<1> DEFINE front == SubSeq(q, 1, n)
           rest == SubSeq(q, n + 1, Len(q))
<1>1. Len(q) \in Nat /\ \A i \in 1..Len(q) : q[i] \in Messages
  BY LenProperties, ElementOfSeq
<1>2. front \in Seq(Messages)
  BY <1>1, SubSeqProperties
<1>3. rest \in Seq(Messages) /\ Len(rest) <= Len(q)
  BY <1>1, SubSeqProperties
<1>4. front \o rest = q
  <2>1. n \in (1 - 1)..Len(q) /\ Len(q) \in n..Len(q) /\ 1 \in 1..(Len(q) + 1)
    BY <1>1
  <2> QED BY <2>1, ConcatAdjacentSubSeq, SubSeqFull
<1> HIDE DEF front, rest
<1>5. p \o q = (p \o front) \o rest
  <2>1. (p \o front) \o rest = p \o (front \o rest)
    BY <1>2, <1>3, ConcatAssociative
  <2> QED BY <1>2, <1>3, <1>4, <2>1
<1>6. p \o q \in Seq(Messages) /\ p \o front \in Seq(Messages)
  BY <1>2, ConcatProperties
<1>7. Whole(p, <<>>, q, <<>>, <<>>) = p \o q
  BY <1>6, ConcatEmptySeq DEF Whole
<1>8. Whole(p \o front, <<>>, rest, <<>>, <<>>) = (p \o front) \o rest
  BY <1>5, <1>6, ConcatEmptySeq DEF Whole
<1> QED BY <1>2, <1>3, <1>5, <1>7, <1>8 DEF front, rest

\* The queue of a run that ends is what is left to audit.
LEMMA UnregisterOrder ==
    ASSUME NEW p \in Seq(Messages), NEW q \in Seq(Messages)
    PROVE  Whole(p, <<>>, q, <<>>, <<>>) = Whole(p, <<>>, <<>>, q, <<>>)
<1>1. p \o q \in Seq(Messages)
  BY ConcatProperties
<1> QED BY <1>1, ConcatEmptySeq DEF Whole

\* An audited item moves from what is left to what was dropped; when an audit fails, all
\* that is left is lost.
LEMMA AuditOrder ==
    ASSUME NEW p \in Seq(Messages), NEW d \in Seq(Messages), NEW w \in Seq(Messages),
           w # <<>>
    PROVE  /\ Append(d, Head(w)) \in Seq(Messages) /\ Append(d, Head(w)) # <<>>
           /\ Tail(w) \in Seq(Messages)
           /\ Whole(p, d, <<>>, w, <<>>)
              = Whole(p, Append(d, Head(w)), <<>>, Tail(w), <<>>)
           /\ Whole(p, d, <<>>, w, <<>>) = Whole(p, d, <<>>, <<>>, w)
<1> DEFINE h == Head(w)
           t == Tail(w)
           pd == p \o d
<1>1. h \in Messages /\ t \in Seq(Messages) /\ <<h>> \in Seq(Messages)
  BY HeadTailProperties
<1>2. w = <<h>> \o t
  <2>1. Len(w) \in Nat \ {0}
    BY EmptySeq
  <2>2. SubSeq(w, 1, Len(w)) = <<w[1]>> \o SubSeq(w, 2, Len(w))
    BY <2>1, SubSeqRecursiveFirst
  <2>3. h = w[1] /\ t = SubSeq(w, 2, Len(w)) /\ SubSeq(w, 1, Len(w)) = w
    BY TailIsSubSeq, SubSeqFull
  <2> QED BY <2>2, <2>3
<1> HIDE DEF h, t
<1>3. /\ Append(d, h) = d \o <<h>> /\ Append(d, h) \in Seq(Messages)
      /\ Append(d, h) # <<>>
  BY <1>1, AppendProperties, AppendIsConcat
<1>4. pd \in Seq(Messages) /\ p \o Append(d, h) \in Seq(Messages)
  BY <1>3, ConcatProperties
<1>5. p \o Append(d, h) = pd \o <<h>>
  BY <1>1, <1>3, ConcatAssociative
<1> HIDE DEF pd
<1>6. pd \o w = (pd \o <<h>>) \o t
  <2>1. (pd \o <<h>>) \o t = pd \o (<<h>> \o t)
    BY <1>1, <1>4, ConcatAssociative
  <2> QED BY <1>1, <1>2, <1>4, <2>1
<1>7. pd \o w \in Seq(Messages) /\ pd \o <<>> = pd
  BY <1>4, ConcatProperties, ConcatEmptySeq
<1>8. /\ Whole(p, d, <<>>, w, <<>>) = pd \o w
      /\ Whole(p, d, <<>>, <<>>, w) = pd \o w
  BY <1>7, ConcatEmptySeq DEF Whole, pd
<1>9. Whole(p, Append(d, h), <<>>, t, <<>>) = (p \o Append(d, h)) \o t
  <2>1. (p \o Append(d, h)) \o <<>> = p \o Append(d, h)
    BY <1>4, ConcatEmptySeq
  <2>2. (p \o Append(d, h)) \o t \in Seq(Messages)
    BY <1>1, <1>4, ConcatProperties
  <2> QED BY <2>1, <2>2, ConcatEmptySeq DEF Whole
<1> QED BY <1>1, <1>3, <1>5, <1>6, <1>8, <1>9 DEF h, t

-----------------------------------------------------------------------------
(* Types *)

LEMMA Initially == Init => Inv
<1> SUFFICES ASSUME Init
             PROVE  Inv
  OBVIOUS
<1>1. <<>> \in Seq(Messages) /\ Len(<<>>) = 0 /\ <<>> \o <<>> = <<>>
  BY EmptySeq, ConcatEmptySeq
<1>2. TypeOK
  <2>1. 0 \in 0..MaxMessages /\ 0 \in Nat
    BY SteeringAssumption
  <2> QED BY <1>1, <2>1 DEF Init, TypeOK, Stages
<1>3. Placed /\ Emptied
  BY DEF Init, Placed, Emptied
<1>4. ClaimedOnce /\ QueueBounded
  BY <1>1, SteeringAssumption DEF Init, ClaimedOnce, Occurrences, QueueBounded
<1>5. ClaimOrder
  BY <1>1 DEF Init, ClaimOrder
<1> QED BY <1>2, <1>3, <1>4, <1>5 DEF Inv

\* The places that keep claimed messages change in four kinds of steps only.
LEMMA FatesChange ==
    ASSUME [Next]_vars
    PROVE  \/ UNCHANGED fates
           \/ \E m \in Messages : Enqueue(m) \/ Pull(m) \/ Unregister(m) \/ Audit(m)
  BY DEF Next, Consume, Process, Finish, Arrive, Wake, Select, Pass, Absorb, Find, Interrupt,
         Start, Register, Fail, Close, Release, vars

LEMMA ScanTypes ==
    ASSUME NEW m \in 0..MaxMessages, ScansAfter(m)
    PROVE  scan' \in 0..MaxMessages /\ (scan' # 0 => scan' \in Waiting)
  BY SteeringAssumption DEF ScansAfter, Waiting, Messages

LEMMA FateTypes ==
    ASSUME TypeOK, [Next]_vars
    PROVE  /\ queue' \in [Messages -> Seq(Messages)]
           /\ pending' \in [Messages -> Seq(Messages)]
           /\ claims' \in [Messages -> Seq(Messages)]
           /\ pulled' \in [Messages -> Seq(Messages)]
           /\ dropped' \in [Messages -> Seq(Messages)]
           /\ lost' \in [Messages -> Seq(Messages)]
<1> DEFINE Goal == /\ queue' \in [Messages -> Seq(Messages)]
                   /\ pending' \in [Messages -> Seq(Messages)]
                   /\ claims' \in [Messages -> Seq(Messages)]
                   /\ pulled' \in [Messages -> Seq(Messages)]
                   /\ dropped' \in [Messages -> Seq(Messages)]
                   /\ lost' \in [Messages -> Seq(Messages)]
<1>1. ASSUME NEW m \in Messages, Enqueue(m)
      PROVE  Goal
  <2> DEFINE r == target[m]
  <2>1. r \in Messages
    BY <1>1 DEF Enqueue, Accepts, TypeOK
  <2>2. Append(queue[r], m) \in Seq(Messages) /\ Append(claims[r], m) \in Seq(Messages)
    BY <2>1, AppendProperties DEF TypeOK
  <2> QED BY <1>1, <2>1, <2>2 DEF Enqueue, TypeOK
<1>2. ASSUME NEW r \in Messages, Pull(r)
      PROVE  Goal
  <2>1. PICK n \in 1..Len(queue[r]) :
          /\ pulled' = [pulled EXCEPT ![r] = @ \o SubSeq(queue[r], 1, n)]
          /\ queue' = [queue EXCEPT ![r] = SubSeq(@, n + 1, Len(@))]
    BY <1>2 DEF Pull
  <2>2. queue[r] \in Seq(Messages) /\ pulled[r] \in Seq(Messages)
    BY DEF TypeOK
  <2>3. /\ pulled[r] \o SubSeq(queue[r], 1, n) \in Seq(Messages)
        /\ SubSeq(queue[r], n + 1, Len(queue[r])) \in Seq(Messages)
    BY <2>2, PullOrder, ConcatProperties
  <2> QED BY <1>2, <2>1, <2>3 DEF Pull, TypeOK
<1>3. ASSUME NEW r \in Messages, Unregister(r)
      PROVE  Goal
  BY <1>3, EmptySeq DEF Unregister, TypeOK
<1>4. ASSUME NEW r \in Messages, Audit(r)
      PROVE  Goal
  <2>1. /\ Append(dropped[r], Head(pending[r])) \in Seq(Messages)
        /\ Tail(pending[r]) \in Seq(Messages)
        /\ <<>> \in Seq(Messages)
    BY <1>4, AuditOrder, EmptySeq DEF Audit, TypeOK
  <2> QED BY <1>4, <2>1 DEF Audit, TypeOK
<1>5. CASE UNCHANGED fates
  BY <1>5 DEF fates, TypeOK
<1> QED BY <1>1, <1>2, <1>3, <1>4, <1>5, FatesChange

LEMMA TypeStep == TypeOK /\ [Next]_vars => TypeOK'
<1> SUFFICES ASSUME TypeOK, [Next]_vars
             PROVE  TypeOK'
  OBVIOUS
<1> DEFINE Rest == /\ arrived' \in 0..MaxMessages
                   /\ stage' \in [Messages -> Stages]
                   /\ scan' \in 0..MaxMessages
                   /\ awake' \in BOOLEAN
                   /\ target' \in [Messages -> 0..MaxMessages]
                   /\ owner' \in [Messages -> 0..MaxMessages]
                   /\ live' \subseteq Messages
                   /\ began' \in [Messages -> Nat]
                   /\ births' \in Nat
<1>1. ASSUME Arrive
      PROVE  Rest
  <2>1. arrived + 1 \in 0..MaxMessages
    BY <1>1, SteeringAssumption DEF Arrive, TypeOK
  <2>2. stage' \in [Messages -> Stages]
    BY <1>1 DEF Arrive, TypeOK, Stages
  <2> QED BY <1>1, <2>1, <2>2 DEF Arrive, registry, TypeOK
<1>2. ASSUME Wake
      PROVE  Rest
  <2>1. scan' \in 0..MaxMessages
    BY <1>2, ScanTypes, SteeringAssumption DEF Wake
  <2> QED BY <1>2, <2>1 DEF Wake, registry, TypeOK
<1>3. ASSUME NEW m \in Messages, Select(m) \/ Absorb(m)
      PROVE  Rest
  <2>1. 0 \in 0..MaxMessages
    BY SteeringAssumption
  <2>2. \E to \in Stages : stage' = [stage EXCEPT ![m] = to]
    BY <1>3 DEF Select, Absorb, Moves, Stages
  <2> QED BY <1>3, <2>1, <2>2 DEF Select, Absorb, registry, TypeOK
<1>4. ASSUME NEW m \in Messages, Pass(m)
      PROVE  Rest
  <2>1. scan' \in 0..MaxMessages
    BY <1>4, ScanTypes DEF Pass, Messages
  <2> QED BY <1>4, <2>1, SteeringAssumption DEF Pass, registry, TypeOK
<1>5. ASSUME NEW m \in Messages, Find(m)
      PROVE  Rest
  BY <1>5 DEF Find, pool, registry, TypeOK, Messages
<1>6. ASSUME NEW m \in Messages, Enqueue(m)
      PROVE  Rest
  BY <1>6 DEF Enqueue, pool, registry, TypeOK
<1>7. ASSUME NEW m \in Messages, Interrupt(m) \/ Start(m) \/ Fail(m) \/ Close(m)
      PROVE  Rest
  BY <1>7 DEF Interrupt, Start, Fail, Close, Moves, pool, registry, TypeOK, Stages
<1>8. ASSUME NEW m \in Messages, Register(m)
      PROVE  Rest
  BY <1>8 DEF Register, Moves, pool, TypeOK, Stages
<1>9. ASSUME NEW m \in Messages, Pull(m) \/ Audit(m)
      PROVE  Rest
  BY <1>9 DEF Pull, Audit, pool, registry, TypeOK
<1>10. ASSUME NEW m \in Messages, Unregister(m)
       PROVE  Rest
  BY <1>10 DEF Unregister, Moves, pool, TypeOK, Stages
<1>11. ASSUME NEW m \in Messages, Release(m)
       PROVE  Rest
  BY <1>11 DEF Release, Moves, registry, TypeOK, Stages
<1>12. ASSUME UNCHANGED vars
       PROVE  Rest
  BY <1>12 DEF vars, pool, registry, TypeOK
<1>13. Rest
  BY <1>1, <1>2, <1>3, <1>4, <1>5, <1>6, <1>7, <1>8, <1>9, <1>10, <1>11, <1>12
  DEF Next, Consume, Process, Finish
<1> QED BY <1>13, FateTypes DEF TypeOK

-----------------------------------------------------------------------------
(* Where messages are *)

LEMMA ScanIsMessage == TypeOK => scan = 0 \/ scan \in Messages
  BY SteeringAssumption DEF TypeOK, Messages

\* Mostly a message moves on, outside of the registry, and nothing is claimed.
LEMMA MovesOn ==
    ASSUME TypeOK, Placed, NEW m \in Messages, NEW from \in Stages, NEW to \in Stages,
           Moves(m, from, to), from \notin {"away", "active"}, to # "active",
           owner[m] # 0 => to \in {"waiting", "offering", "leaving", "gone"},
           scan' = 0 \/ (scan' = scan /\ from # "waiting"),
           UNCHANGED <<arrived, live, owner>>
    PROVE  Placed'
<1>1. stage[m] = from /\ stage' = [stage EXCEPT ![m] = to]
  BY DEF Moves
<1>2. /\ stage'[m] = to
      /\ \A n \in Messages \ {m} : stage'[n] = stage[n]
  BY <1>1 DEF TypeOK
<1>3. scan' # 0 => stage'[scan'] = "waiting"
  BY <1>1, <1>2, ScanIsMessage DEF Placed
<1>4. \A n \in Messages : n > arrived' => stage'[n] = "away"
  BY <1>1, <1>2 DEF Placed
<1>5. \A n \in Messages : n \in live' <=> stage'[n] = "active"
  BY <1>1, <1>2 DEF Placed
<1>6. \A n \in Messages : owner'[n] # 0 =>
        stage'[n] \in {"waiting", "offering", "leaving", "gone"}
  BY <1>1, <1>2 DEF Placed
<1> QED BY <1>3, <1>4, <1>5, <1>6 DEF Placed

LEMMA PlacedStep == TypeOK /\ Placed /\ [Next]_vars => Placed'
<1> SUFFICES ASSUME TypeOK, Placed, [Next]_vars
             PROVE  Placed'
  OBVIOUS
<1>1. CASE Arrive
  <2>1. arrived + 1 \in Messages /\ arrived \in Nat
    BY <1>1, SteeringAssumption DEF Arrive, TypeOK, Messages
  <2>2. stage[arrived + 1] = "away"
    BY <2>1 DEF Placed
  <2>3. UNCHANGED <<scan, owner, live>> /\ scan = 0 /\ arrived' = arrived + 1
    BY <1>1 DEF Arrive, registry
  <2>4. stage' = [stage EXCEPT ![arrived + 1] = "waiting"]
    BY <1>1 DEF Arrive
  <2>5. \A m \in Messages : m \in Int
    BY SteeringAssumption DEF Messages
  <2>6. /\ stage'[arrived + 1] = "waiting"
        /\ \A m \in Messages \ {arrived + 1} : stage'[m] = stage[m]
    BY <2>1, <2>4 DEF TypeOK
  <2>7. \A m \in Messages : m > arrived' => stage'[m] = "away"
    BY <2>1, <2>3, <2>5, <2>6 DEF Placed
  <2>8. \A m \in Messages : m \in live' <=> stage'[m] = "active"
    BY <2>2, <2>3, <2>6 DEF Placed
  <2>9. \A m \in Messages : owner'[m] # 0 =>
           stage'[m] \in {"waiting", "offering", "leaving", "gone"}
    BY <2>2, <2>3, <2>6 DEF Placed
  <2> QED BY <2>3, <2>7, <2>8, <2>9 DEF Placed
<1>2. CASE Wake
  <2>1. scan' # 0 => scan' \in Waiting
    BY <1>2, ScanTypes, SteeringAssumption DEF Wake
  <2> QED BY <1>2, <2>1 DEF Wake, registry, Waiting, Placed
<1>3. ASSUME NEW m \in Messages, Select(m)
      PROVE  Placed'
  BY <1>3, MovesOn DEF Select, registry, Stages
<1>4. ASSUME NEW m \in Messages, Pass(m)
      PROVE  Placed'
  <2>1. scan' # 0 => scan' \in Waiting
    BY <1>4, ScanTypes DEF Pass, Messages
  <2> QED BY <1>4, <2>1 DEF Pass, registry, Waiting, Placed
<1>5. ASSUME NEW m \in Messages, Absorb(m)
      PROVE  Placed'
  BY <1>5, MovesOn DEF Absorb, registry, Stages
<1>6. ASSUME NEW m \in Messages, Find(m) \/ Pull(m) \/ Audit(m)
      PROVE  Placed'
  BY <1>6 DEF Find, Pull, Audit, pool, registry, Placed
<1>7. ASSUME NEW m \in Messages, Enqueue(m)
      PROVE  Placed'
  <2>1. stage[m] \in {"waiting", "offering"}
    BY <1>7 DEF Enqueue, Offered, Placed, Messages
  <2>2. /\ UNCHANGED <<arrived, scan, stage, live>>
        /\ owner' = [owner EXCEPT ![m] = target[m]]
    BY <1>7 DEF Enqueue, pool, registry
  <2> QED BY <2>1, <2>2 DEF TypeOK, Placed
<1>8. ASSUME NEW m \in Messages, Interrupt(m) \/ Start(m) \/ Fail(m) \/ Close(m)
      PROVE  Placed'
  BY <1>8, MovesOn DEF Interrupt, Start, Fail, Close, pool, registry, Stages
<1>9. ASSUME NEW m \in Messages, Register(m)
      PROVE  Placed'
  <2>1. /\ stage[m] = "starting" /\ stage' = [stage EXCEPT ![m] = "active"]
        /\ live' = live \cup {m}
        /\ UNCHANGED <<arrived, scan, owner>>
    BY <1>9 DEF Register, Moves, pool
  <2>2. owner[m] = 0
    BY <2>1 DEF Placed
  <2> QED BY <2>1, <2>2 DEF TypeOK, Placed
<1>10. ASSUME NEW m \in Messages, Unregister(m)
       PROVE  Placed'
  <2>1. /\ stage[m] = "active" /\ stage' = [stage EXCEPT ![m] = "closing"]
        /\ live' = live \ {m}
        /\ UNCHANGED <<arrived, scan, owner>>
    BY <1>10 DEF Unregister, Moves, pool
  <2>2. owner[m] = 0
    BY <2>1 DEF Placed
  <2>3. stage'[m] = "closing" /\ \A n \in Messages \ {m} : stage'[n] = stage[n]
    BY <2>1 DEF TypeOK
  <2>4. scan # 0 => stage'[scan] = "waiting"
    BY <2>1, <2>3, ScanIsMessage DEF Placed
  <2> QED BY <2>1, <2>2, <2>3, <2>4 DEF Placed
<1>11. ASSUME NEW m \in Messages, Release(m)
       PROVE  Placed'
  BY <1>11, MovesOn DEF Release, registry, Stages
<1>12. CASE UNCHANGED vars
  BY <1>12 DEF vars, pool, registry, Placed
<1> QED BY <1>1, <1>2, <1>3, <1>4, <1>5, <1>6, <1>7, <1>8, <1>9, <1>10, <1>11, <1>12
        DEF Next, Consume, Process, Finish

-----------------------------------------------------------------------------
(* What is left of the claims of a run *)

\* A step that leaves the claims alone: a run on its way out stays so, and one with
\* something left to audit does not close.
LEMMA QuietEmptied ==
    ASSUME TypeOK, Placed, Emptied, [Next]_vars, UNCHANGED fates,
           \A m \in Messages : ~Unregister(m)
    PROVE  Emptied'
<1>1. ASSUME NEW m \in Messages
      PROVE  /\ stage[m] = "active" => stage'[m] = "active"
             /\ stage[m] = "closing" /\ pending[m] # <<>> => stage'[m] = "closing"
             /\ stage[m] \in {"closing", "leaving", "gone"}
                => stage'[m] \in {"closing", "leaving", "gone"}
  <2>1. CASE Arrive
    <3>1. arrived + 1 \in Messages /\ arrived \in Nat
      BY <2>1, SteeringAssumption DEF Arrive, TypeOK, Messages
    <3>2. stage[arrived + 1] = "away"
      BY <3>1 DEF Placed
    <3> QED BY <2>1, <3>2 DEF Arrive, TypeOK
  <2>2. CASE Wake \/ UNCHANGED vars
    BY <2>2 DEF Wake, vars
  <2>3. ASSUME NEW n \in Messages, Select(n) \/ Absorb(n) \/ Interrupt(n) \/ Start(n)
      PROVE  UNCHANGED stage \/ \E to \in Stages :
                stage[n] \in {"waiting", "offering"} /\ stage' = [stage EXCEPT ![n] = to]
    BY <2>3 DEF Select, Absorb, Interrupt, Start, Moves, Stages
  <2>4. ASSUME NEW n \in Messages, Register(n) \/ Fail(n)
      PROVE  \E to \in Stages : stage[n] = "starting" /\ stage' = [stage EXCEPT ![n] = to]
    BY <2>4 DEF Register, Fail, Moves, Stages
  <2>5. ASSUME NEW n \in Messages, Pass(n) \/ Find(n) \/ Enqueue(n) \/ Pull(n) \/ Audit(n)
      PROVE  UNCHANGED stage
    BY <2>5 DEF Pass, Find, Enqueue, Pull, Audit
  <2>6. ASSUME NEW n \in Messages, Close(n)
      PROVE  /\ pending[n] = <<>> /\ stage[n] = "closing"
             /\ stage' = [stage EXCEPT ![n] = "leaving"]
    BY <2>6 DEF Close, Moves
  <2>7. ASSUME NEW n \in Messages, Release(n)
      PROVE  stage[n] = "leaving" /\ stage' = [stage EXCEPT ![n] = "gone"]
    BY <2>7 DEF Release, Moves
  <2> QED BY <2>1, <2>2, <2>3, <2>4, <2>5, <2>6, <2>7
          DEF Next, Consume, Process, Finish, TypeOK
<1> QED BY <1>1 DEF fates, Emptied

LEMMA EmptiedStep == TypeOK /\ Placed /\ Emptied /\ [Next]_vars => Emptied'
<1> SUFFICES ASSUME TypeOK, Placed, Emptied, [Next]_vars
             PROVE  Emptied'
  OBVIOUS
<1>1. ASSUME NEW m \in Messages, Enqueue(m)
      PROVE  Emptied'
  <2>1. target[m] \in Messages /\ stage[target[m]] = "active"
    BY <1>1 DEF Enqueue, Accepts, TypeOK, Placed
  <2> QED BY <1>1, <2>1 DEF Enqueue, TypeOK, Emptied
<1>2. ASSUME NEW r \in Messages, Pull(r)
      PROVE  Emptied'
  <2>1. stage[r] = "active"
    BY <1>2 DEF Pull, Placed
  <2>2. \A s \in Messages \ {r} : queue'[s] = queue[s]
    BY <1>2 DEF Pull, TypeOK
  <2> QED BY <1>2, <2>1, <2>2 DEF Pull, Emptied
<1>3. ASSUME NEW r \in Messages, Unregister(r)
      PROVE  Emptied'
  <2>1. stage[r] = "active" /\ dropped[r] = <<>> /\ lost[r] = <<>>
    BY <1>3 DEF Unregister, Moves, Emptied
  <2> QED BY <1>3, <2>1 DEF Unregister, Moves, TypeOK, Emptied
<1>4. ASSUME NEW r \in Messages, Audit(r)
      PROVE  Emptied'
  <2>1. /\ stage[r] = "closing" /\ lost[r] = <<>>
        /\ UNCHANGED <<stage, queue>>
    BY <1>4 DEF Audit, Emptied
  <2>2. \A s \in Messages \ {r} :
          dropped'[s] = dropped[s] /\ pending'[s] = pending[s] /\ lost'[s] = lost[s]
    BY <1>4 DEF Audit, TypeOK
  <2>3. pending'[r] # <<>> => lost'[r] = <<>>
    BY <1>4, <2>1 DEF Audit, TypeOK
  <2> QED BY <2>1, <2>2, <2>3 DEF Emptied
<1> QED BY <1>1, <1>2, <1>3, <1>4, QuietEmptied, FatesChange

-----------------------------------------------------------------------------
(* Claims, their order, and the bound *)

LEMMA ClaimedOnceStep == TypeOK /\ Placed /\ ClaimedOnce /\ [Next]_vars => ClaimedOnce'
<1> SUFFICES ASSUME TypeOK, Placed, ClaimedOnce, [Next]_vars
             PROVE  ClaimedOnce'
  OBVIOUS
<1>1. ASSUME NEW m \in Messages, Enqueue(m)
      PROVE  ClaimedOnce'
  <2> DEFINE r == target[m]
  <2>1. r \in Messages /\ owner[m] = 0
    BY <1>1 DEF Enqueue, Accepts, TypeOK
  <2>2. /\ claims' = [claims EXCEPT ![r] = Append(@, m)]
        /\ owner' = [owner EXCEPT ![m] = r]
    BY <1>1 DEF Enqueue
  <2>3. \A s \in Messages : Occurrences(claims[s], m) = {}
    <3>1. \A s \in Messages : s # 0
      BY SteeringAssumption DEF Messages
    <3> QED BY <2>1, <3>1 DEF ClaimedOnce
  <2>4. /\ \A n \in Messages \ {m} :
             Occurrences(claims'[r], n) = Occurrences(claims[r], n)
        /\ Occurrences(claims'[r], m) = {Len(claims[r]) + 1}
    <3>1. claims[r] \in Seq(Messages) /\ claims'[r] = Append(claims[r], m)
      BY <2>1, <2>2 DEF TypeOK
    <3>2. \A n \in Messages \ {m} :
             Occurrences(Append(claims[r], m), n) = Occurrences(claims[r], n)
      BY <3>1, AppendOccurs
    <3>3. Occurrences(Append(claims[r], m), m) = Occurrences(claims[r], m) \cup {Len(claims[r]) + 1}
      BY <3>1, AppendOccurs
    <3> QED BY <2>1, <2>3, <3>1, <3>2, <3>3
  <2>5. \A s \in Messages \ {r} : claims'[s] = claims[s]
    BY <2>2 DEF TypeOK
  <2>6. owner'[m] = r /\ \A n \in Messages \ {m} : owner'[n] = owner[n]
    BY <2>2 DEF TypeOK
  <2>7. ASSUME NEW n \in Messages, NEW s \in Messages,
               NEW i \in Occurrences(claims'[s], n), NEW j \in Occurrences(claims'[s], n)
        PROVE  s = owner'[n] /\ i = j
    <3>1. CASE n = m
      <4>1. s = r
        BY <2>3, <2>5, <3>1
      <4> QED BY <2>4, <2>6, <3>1, <4>1
    <3>2. CASE n # m
      <4>1. Occurrences(claims'[s], n) = Occurrences(claims[s], n)
        BY <2>4, <2>5, <3>2
      <4> QED BY <2>6, <3>2, <4>1 DEF ClaimedOnce
    <3> QED BY <3>1, <3>2
  <2>8. \A n, s \in Messages :
          \A i, j \in Occurrences(claims[s], n)' : s = owner'[n] /\ i = j
    BY <2>7 DEF Occurrences
  <2> QED BY <2>8 DEF ClaimedOnce
<1>2. ASSUME UNCHANGED <<claims, owner>>
      PROVE  ClaimedOnce'
  BY <1>2 DEF ClaimedOnce
<1>3. (\E m \in Messages : Enqueue(m)) \/ UNCHANGED <<claims, owner>>
  BY DEF Next, Consume, Process, Finish, Arrive, Wake, Select, Pass, Absorb, Find, Interrupt,
         Start, Register, Fail, Pull, Unregister, Audit, Close, Release, vars, fates
<1> QED BY <1>1, <1>2, <1>3

LEMMA ClaimOrderStep == TypeOK /\ Placed /\ Emptied /\ ClaimOrder /\ [Next]_vars => ClaimOrder'
<1> SUFFICES ASSUME TypeOK, Placed, Emptied, ClaimOrder, [Next]_vars
             PROVE  ClaimOrder'
  OBVIOUS
<1>0. /\ \A r \in Messages :
             claims[r] = Whole(pulled[r], dropped[r], queue[r], pending[r], lost[r])
      /\ (\A r \in Messages :
             claims'[r] = Whole(pulled'[r], dropped'[r], queue'[r], pending'[r], lost'[r]))
         => ClaimOrder'
  BY DEF ClaimOrder, Whole
<1>1. ASSUME NEW m \in Messages, Enqueue(m)
      PROVE  ClaimOrder'
  <2> DEFINE r == target[m]
  <2>1. r \in Messages /\ stage[r] = "active"
    BY <1>1 DEF Enqueue, Accepts, TypeOK, Placed
  <2>2. dropped[r] = <<>> /\ pending[r] = <<>> /\ lost[r] = <<>>
    BY <2>1 DEF Emptied
  <2>3. /\ claims' = [claims EXCEPT ![r] = Append(@, m)]
        /\ queue' = [queue EXCEPT ![r] = Append(@, m)]
        /\ UNCHANGED <<pulled, dropped, pending, lost>>
    BY <1>1 DEF Enqueue
  <2>4. claims'[r] = Append(claims[r], m) /\ queue'[r] = Append(queue[r], m)
    BY <2>1, <2>3 DEF TypeOK
  <2>5. claims[r] = Whole(pulled[r], <<>>, queue[r], <<>>, <<>>)
    BY <1>0, <2>1, <2>2
  <2>6. claims'[r] = Whole(pulled[r], <<>>, queue'[r], <<>>, <<>>)
    <3>1. pulled[r] \in Seq(Messages) /\ queue[r] \in Seq(Messages)
      BY <2>1 DEF TypeOK
    <3> HIDE DEF r
    <3>2. Append(Whole(pulled[r], <<>>, queue[r], <<>>, <<>>), m)
          = Whole(pulled[r], <<>>, Append(queue[r], m), <<>>, <<>>)
      BY <3>1, EnqueueOrder
    <3> QED BY <2>4, <2>5, <3>2
  <2>7. \A s \in Messages \ {r} : claims'[s] = claims[s] /\ queue'[s] = queue[s]
    BY <2>3 DEF TypeOK
  <2> QED BY <1>0, <2>2, <2>3, <2>6, <2>7
<1>2. ASSUME NEW r \in Messages, Pull(r)
      PROVE  ClaimOrder'
  <2>1. PICK n \in 1..Len(queue[r]) :
          /\ pulled' = [pulled EXCEPT ![r] = @ \o SubSeq(queue[r], 1, n)]
          /\ queue' = [queue EXCEPT ![r] = SubSeq(@, n + 1, Len(@))]
    BY <1>2 DEF Pull
  <2>2. dropped[r] = <<>> /\ pending[r] = <<>> /\ lost[r] = <<>>
    BY <1>2 DEF Pull, Placed, Emptied
  <2>3. claims[r] = Whole(pulled[r], <<>>, queue[r], <<>>, <<>>)
    BY <1>0, <2>2
  <2>4. pulled[r] \in Seq(Messages) /\ queue[r] \in Seq(Messages)
    BY DEF TypeOK
  <2>5. Whole(pulled[r], <<>>, queue[r], <<>>, <<>>)
        = Whole(pulled[r] \o SubSeq(queue[r], 1, n), <<>>,
                SubSeq(queue[r], n + 1, Len(queue[r])), <<>>, <<>>)
    BY <2>4, PullOrder
  <2>6. /\ pulled'[r] = pulled[r] \o SubSeq(queue[r], 1, n)
        /\ queue'[r] = SubSeq(queue[r], n + 1, Len(queue[r]))
        /\ \A s \in Messages \ {r} : pulled'[s] = pulled[s] /\ queue'[s] = queue[s]
    BY <2>1 DEF TypeOK
  <2>7. UNCHANGED <<claims, dropped, pending, lost>>
    BY <1>2 DEF Pull
  <2>8. claims'[r] = Whole(pulled'[r], <<>>, queue'[r], <<>>, <<>>)
    BY <2>3, <2>5, <2>6, <2>7
  <2> QED BY <1>0, <2>2, <2>6, <2>7, <2>8
<1>3. ASSUME NEW r \in Messages, Unregister(r)
      PROVE  ClaimOrder'
  <2>1. dropped[r] = <<>> /\ pending[r] = <<>> /\ lost[r] = <<>>
    BY <1>3 DEF Unregister, Moves, Emptied
  <2>2. claims[r] = Whole(pulled[r], <<>>, queue[r], <<>>, <<>>)
    BY <1>0, <2>1
  <2>3. Whole(pulled[r], <<>>, queue[r], <<>>, <<>>)
        = Whole(pulled[r], <<>>, <<>>, queue[r], <<>>)
    BY UnregisterOrder DEF TypeOK
  <2>4. /\ pending'[r] = queue[r] /\ queue'[r] = <<>>
        /\ \A s \in Messages \ {r} : pending'[s] = pending[s] /\ queue'[s] = queue[s]
        /\ UNCHANGED <<claims, pulled, dropped, lost>>
    BY <1>3 DEF Unregister, TypeOK
  <2>5. claims'[r] = Whole(pulled'[r], <<>>, queue'[r], pending'[r], <<>>)
    BY <2>2, <2>3, <2>4
  <2> QED BY <1>0, <2>1, <2>4, <2>5
<1>4. ASSUME NEW r \in Messages, Audit(r)
      PROVE  ClaimOrder'
  <2>1. queue[r] = <<>> /\ lost[r] = <<>> /\ pending[r] # <<>>
    BY <1>4 DEF Audit, Emptied
  <2>2. claims[r] = Whole(pulled[r], dropped[r], <<>>, pending[r], <<>>)
    BY <1>0, <2>1
  <2>3. /\ pulled[r] \in Seq(Messages) /\ dropped[r] \in Seq(Messages)
        /\ pending[r] \in Seq(Messages)
    BY DEF TypeOK
  <2>4. /\ claims[r] = Whole(pulled[r], Append(dropped[r], Head(pending[r])), <<>>,
                            Tail(pending[r]), <<>>)
        /\ claims[r] = Whole(pulled[r], dropped[r], <<>>, <<>>, pending[r])
    BY <2>1, <2>2, <2>3, AuditOrder
  <2>5. /\ UNCHANGED <<claims, pulled, queue>>
        /\ \A s \in Messages \ {r} :
             dropped'[s] = dropped[s] /\ pending'[s] = pending[s] /\ lost'[s] = lost[s]
        /\ \/ /\ dropped'[r] = Append(dropped[r], Head(pending[r]))
              /\ pending'[r] = Tail(pending[r]) /\ lost'[r] = <<>>
           \/ dropped'[r] = dropped[r] /\ pending'[r] = <<>> /\ lost'[r] = pending[r]
    BY <1>4, <2>1 DEF Audit, TypeOK
  <2>6. claims'[r] = Whole(pulled'[r], dropped'[r], queue'[r], pending'[r], lost'[r])
    BY <2>1, <2>4, <2>5
  <2> QED BY <1>0, <2>5, <2>6
<1>5. CASE UNCHANGED fates
  BY <1>5 DEF fates, ClaimOrder
<1> QED BY <1>1, <1>2, <1>3, <1>4, <1>5, FatesChange

LEMMA QueueBoundedStep == TypeOK /\ QueueBounded /\ [Next]_vars => QueueBounded'
<1> SUFFICES ASSUME TypeOK, QueueBounded, [Next]_vars
             PROVE  QueueBounded'
  OBVIOUS
<1>1. ASSUME NEW m \in Messages, Enqueue(m)
      PROVE  QueueBounded'
  <2>1. target[m] \in Messages /\ Len(queue[target[m]]) < MaxQueue
    BY <1>1 DEF Enqueue, Accepts, TypeOK
  <2>2. Len(queue[target[m]]) \in Nat
    BY <2>1, LenProperties DEF TypeOK
  <2>3. Len(Append(queue[target[m]], m)) = Len(queue[target[m]]) + 1
    BY <2>1, AppendProperties DEF TypeOK
  <2>4. Len(queue'[target[m]]) <= MaxQueue
    BY <1>1, <2>1, <2>2, <2>3, SteeringAssumption DEF Enqueue, TypeOK
  <2> QED BY <1>1, <2>4 DEF Enqueue, TypeOK, QueueBounded
<1>2. ASSUME NEW r \in Messages, Pull(r)
      PROVE  QueueBounded'
  <2>1. PICK n \in 1..Len(queue[r]) :
          queue' = [queue EXCEPT ![r] = SubSeq(@, n + 1, Len(@))]
    BY <1>2 DEF Pull
  <2>2. queue[r] \in Seq(Messages)
    BY DEF TypeOK
  <2>3. /\ SubSeq(queue[r], n + 1, Len(queue[r])) \in Seq(Messages)
        /\ Len(SubSeq(queue[r], n + 1, Len(queue[r]))) <= Len(queue[r])
    BY <2>2, PullOrder
  <2>4. Len(SubSeq(queue[r], n + 1, Len(queue[r]))) \in Nat /\ Len(queue[r]) \in Nat
    BY <2>2, <2>3, LenProperties
  <2>5. Len(queue'[r]) <= MaxQueue
    BY <2>1, <2>3, <2>4, SteeringAssumption DEF TypeOK, QueueBounded
  <2> QED BY <2>1, <2>5 DEF TypeOK, QueueBounded
<1>3. ASSUME NEW r \in Messages, Unregister(r)
      PROVE  QueueBounded'
  BY <1>3, EmptySeq, SteeringAssumption DEF Unregister, TypeOK, QueueBounded
<1>4. ASSUME NEW r \in Messages, Audit(r)
      PROVE  QueueBounded'
  BY <1>4 DEF Audit, QueueBounded
<1>5. CASE UNCHANGED fates
  BY <1>5 DEF fates, QueueBounded
<1> QED BY <1>1, <1>2, <1>3, <1>4, <1>5, FatesChange

-----------------------------------------------------------------------------
(* The invariant and what follows from it *)

LEMMA Invariant == Spec => []Inv
<1>1. Inv /\ [Next]_vars => Inv'
  BY TypeStep, PlacedStep, EmptiedStep, ClaimedOnceStep, ClaimOrderStep, QueueBoundedStep
  DEF Inv
<1> QED BY Initially, <1>1, PTL DEF Spec

\* The pool, the registry and the queues keep their types, and the scan never leaves the
\* pool.
THEOREM Types == Spec => []TypeOK
<1>1. Inv => TypeOK
  BY DEF Inv
<1> QED BY <1>1, Invariant, PTL

\* try_claim_steering_from_query: a message is claimed by one run, once, and then starts
\* no run of its own, although the offer awaits between the look for a run and the claim.
THEOREM MessagesHaveOneFate == Spec => []OneFate
<1>1. Inv => OneFate
  BY DEF Inv, Placed, ClaimedOnce, OneFate
<1> QED BY <1>1, Invariant, PTL

\* enqueue_steering looks the run up again: no message is queued for a run that has left
\* the registry.
THEOREM QueuesOfLiveRuns == Spec => []QueueOfLiveRun
<1>1. Inv => QueueOfLiveRun
  BY DEF Inv, Placed, Emptied, QueueOfLiveRun
<1> QED BY <1>1, Invariant, PTL

\* pull_steering and the teardown of a run: what a run claimed is pulled, dropped or lost
\* in the order of the claims, and nothing else is.
THEOREM ClaimsInOrder == Spec => []ClaimOrder
<1>1. Inv => ClaimOrder
  BY DEF Inv
<1> QED BY <1>1, Invariant, PTL

\* MAX_STEERING_QUEUE_ITEMS bounds the queue of every run, however many offers overlap.
THEOREM QueuesBounded == Spec => []QueueBounded
<1>1. Inv => QueueBounded
  BY DEF Inv
<1> QED BY <1>1, Invariant, PTL
=============================================================================
