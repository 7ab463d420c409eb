----------------------- MODULE MessageAggregatorProofs -----------------------
(****************************************************************************)
(* Message aggregation for any number of messages, keys and scopes: limits  *)
(* and counters, no message in two places, no query of two conversations,   *)
(* and, where flushes need no unit of work, a timer for every buffer.       *)
(****************************************************************************)
EXTENDS MessageAggregator, SequenceTheorems, FiniteSetTheorems, TLAPS

\* Appending adds one message, at the end.
LEMMA Appended ==
    ASSUME NEW s \in Seq(Messages), NEW m \in Messages
    PROVE  /\ Append(s, m) \in Seq(Messages)
           /\ Append(s, m) # <<>>
           /\ Len(Append(s, m)) = Len(s) + 1
           /\ Append(s, m)[Len(s) + 1] = m
           /\ s # <<>> => Append(s, m)[1] = s[1]
           /\ ToSet(Append(s, m)) = ToSet(s) \cup {m}
           /\ IsInjective(s) /\ m \notin ToSet(s) => IsInjective(Append(s, m))
<1>1. /\ Len(s) \in Nat
      /\ DOMAIN s = 1..Len(s)
      /\ \A i \in 1..Len(s) : Append(s, m)[i] = s[i]
      /\ Append(s, m)[Len(s) + 1] = m
      /\ Append(s, m) \in Seq(Messages)
      /\ Append(s, m) # <<>>
      /\ Len(Append(s, m)) = Len(s) + 1
  BY LenProperties, AppendProperties
<1>2. DOMAIN Append(s, m) = 1..(Len(s) + 1)
  BY <1>1, LenProperties
<1>3. s # <<>> => Append(s, m)[1] = s[1]
  BY <1>1, EmptySeq
<1>4. ToSet(Append(s, m)) = ToSet(s) \cup {m}
  BY <1>1, <1>2 DEF ToSet
<1>5. ASSUME IsInjective(s), m \notin ToSet(s)
      PROVE  IsInjective(Append(s, m))
  BY <1>1, <1>2, <1>5 DEF IsInjective, ToSet
<1> QED BY <1>1, <1>3, <1>4, <1>5

LEMMA Singleton ==
    ASSUME NEW m \in Messages
    PROVE  /\ <<m>> \in Seq(Messages) /\ <<m>> # <<>> /\ Len(<<m>>) = 1 /\ <<m>>[1] = m
           /\ ToSet(<<m>>) = {m} /\ IsInjective(<<m>>)
  BY DEF ToSet, IsInjective

LEMMA Nothing ==
    /\ <<>> \in Seq(Messages) /\ Len(<<>>) = 0 /\ ToSet(<<>>) = {}
  BY DEF ToSet

\* A buffer has a first and a latest message.
LEMMA Ends ==
    ASSUME NEW s \in Seq(Messages), s # <<>>
    PROVE  /\ Len(s) \in Nat \ {0}
           /\ s[1] \in ToSet(s) /\ s[Len(s)] \in ToSet(s)
           /\ ToSet(s) \subseteq Messages
<1>1. Len(s) \in Nat \ {0} /\ DOMAIN s = 1..Len(s) /\ \A i \in 1..Len(s) : s[i] \in Messages
  BY EmptySeq, LenProperties, ElementOfSeq
<1> QED BY <1>1 DEF ToSet

-----------------------------------------------------------------------------
(* Types *)

LEMMA KeyTyping ==
    ASSUME NEW m \in Messages
    PROVE  KeyOf[m] \in Keys /\ ScopeOf[KeyOf[m]] \in Scopes
  BY AggregatorAssumption

\* Taking a buffer out keeps the types of what it touches.
LEMMA TakeTypes ==
    ASSUME TypeOK, NEW k \in Keys, NEW batch \in Seq(Messages), Take(k, batch)
    PROVE  /\ buffers' \in [Keys -> Seq(Messages)]
           /\ counts' \in [Scopes -> Nat]
           /\ calls' \subseteq Seq(Messages)
<1>1. ScopeOf[k] \in Scopes
  BY AggregatorAssumption
<1> QED BY <1>1, Nothing DEF Take, TypeOK

LEMMA RestartedTypes ==
    ASSUME TypeOK, NEW m \in Messages
    PROVE  Restarted(m) \in [Messages -> Timers]
  BY DEF TypeOK, Restarted, Timers

LEMMA TypeStep == TypeOK /\ [Next]_vars => TypeOK'
<1> SUFFICES ASSUME TypeOK, [Next]_vars
             PROVE  TypeOK'
  OBVIOUS
<1>1. ASSUME NEW m \in Messages, Bypass(m)
      PROVE  TypeOK'
  BY <1>1, Singleton DEF Bypass, Arrives, TypeOK
<1>2. ASSUME NEW m \in Messages, StartBuffer(m)
      PROVE  TypeOK'
  BY <1>2, Singleton, KeyTyping DEF StartBuffer, Arrives, TypeOK, Timers
<1>3. ASSUME NEW m \in Messages, RefuseContext(m)
      PROVE  TypeOK'
  BY <1>3 DEF RefuseContext, Arrives, TypeOK
<1>4. ASSUME NEW m \in Messages, AppendMessage(m)
      PROVE  TypeOK'
  <2>1. Append(buffers[KeyOf[m]], m) \in Seq(Messages)
    BY KeyTyping, Appended DEF TypeOK
  <2>2. buffers' \in [Keys -> Seq(Messages)]
    BY <1>4, <2>1 DEF AppendMessage, TypeOK
  <2> QED BY <1>4, <2>2, RestartedTypes DEF AppendMessage, Arrives, TypeOK
<1>5. ASSUME NEW m \in Messages, AppendAndFlush(m)
      PROVE  TypeOK'
  <2>1. Append(buffers[KeyOf[m]], m) \in Seq(Messages)
    BY KeyTyping, Appended DEF TypeOK
  <2>2. /\ buffers' \in [Keys -> Seq(Messages)]
        /\ counts' \in [Scopes -> Nat]
        /\ calls' \subseteq Seq(Messages)
    BY <1>5, <2>1, KeyTyping, TakeTypes DEF AppendAndFlush
  <2>3. timer' \in [Messages -> Timers]
    BY <1>5, RestartedTypes DEF AppendAndFlush, Timers
  <2> QED BY <1>5, <2>2, <2>3 DEF AppendAndFlush, Arrives, TypeOK
<1>6. ASSUME NEW m \in Messages, TimerFires(m)
      PROVE  TypeOK'
  <2>1. timer' \in [Messages -> Timers]
    BY <1>6 DEF TimerFires, TypeOK, Timers
  <2>2. /\ buffers' \in [Keys -> Seq(Messages)]
        /\ counts' \in [Scopes -> Nat]
        /\ calls' \subseteq Seq(Messages)
    <3>1. CASE Take(KeyOf[m], buffers[KeyOf[m]])
      BY <3>1, KeyTyping, TakeTypes DEF TypeOK
    <3>2. CASE UNCHANGED <<buffers, counts, calls>>
      BY <3>2 DEF TypeOK
    <3> QED BY <1>6, <3>1, <3>2 DEF TimerFires
  <2> QED BY <1>6, <2>1, <2>2 DEF TimerFires, TypeOK
<1>7. ASSUME NEW m \in Messages, TimerFails(m)
      PROVE  TypeOK'
  BY <1>7 DEF TimerFails, TypeOK, Timers
<1>8. ASSUME NEW batch \in calls, Enqueue(batch)
      PROVE  TypeOK'
  BY <1>8 DEF Enqueue, TypeOK
<1>9. ASSUME NEW batch \in calls, Fail(batch)
      PROVE  TypeOK'
  <2>1. ToSet(batch) \subseteq Messages
    BY Ends, Nothing DEF TypeOK
  <2> QED BY <1>9, <2>1 DEF Fail, TypeOK
<1>10. CASE UNCHANGED vars
  BY <1>10 DEF vars, TypeOK
<1> QED BY <1>1, <1>2, <1>3, <1>4, <1>5, <1>6, <1>7, <1>8, <1>9, <1>10 DEF Next, AddMessage

\* The aggregator keeps its types: counters never fall below zero, and only
\* messages are buffered, merged and lost.
THEOREM AggregatorTypeCorrect == Spec => []TypeOK
<1>1. Init => TypeOK
  BY Nothing DEF Init, TypeOK, Timers
<1> QED BY <1>1, TypeStep, PTL DEF Spec

-----------------------------------------------------------------------------
(* Counters and limits *)

\* CountsAgree is inductive with the finiteness of the set of buffers.
CountInv == CountsAgree /\ IsFiniteSet(Buffered)

\* A new buffer is counted once, in its scope, and there was room for it.
LEMMA StartCounts ==
    ASSUME TypeOK, CountInv, NEW m \in Messages, StartBuffer(m)
    PROVE  CountInv'
<1> DEFINE k == KeyOf[m]
           s == ScopeOf[k]
<1>1. k \in Keys /\ s \in Scopes
  BY KeyTyping
<1>2. /\ buffers' = [buffers EXCEPT ![k] = <<m>>]
      /\ counts' = [counts EXCEPT ![s] = @ + 1]
      /\ buffers[k] = <<>>
      /\ ~NoRoom(s)
  BY DEF StartBuffer
<1> HIDE DEF k, s
<1>3. k \notin Buffered /\ Buffered' = Buffered \cup {k}
  BY <1>1, <1>2, Singleton DEF Buffered, TypeOK
<1>4. IsFiniteSet(Buffered') /\ Cardinality(Buffered') = Cardinality(Buffered) + 1
  BY <1>3, FS_AddElement DEF CountInv
<1>5. Cardinality(Buffered) \in Nat
  BY FS_CardinalityType DEF CountInv
<1>6. ~(Cardinality(Buffered) >= MaxBuffers) /\ ~(counts[s] >= MaxPerScope)
  BY <1>2 DEF NoRoom
<1>7. Cardinality(Buffered') <= MaxBuffers
  BY <1>4, <1>5, <1>6, AggregatorAssumption
<1>8. ASSUME NEW t \in Scopes
      PROVE  counts'[t] = Cardinality(BufferedIn(t)') /\ counts'[t] <= MaxPerScope
  <2>1. IsFiniteSet(BufferedIn(t)) /\ counts[t] = Cardinality(BufferedIn(t))
    BY FS_Subset DEF BufferedIn, CountInv, CountsAgree
  <2>2. CASE t = s
    <3>1. BufferedIn(t)' = BufferedIn(t) \cup {k} /\ k \notin BufferedIn(t)
      BY <1>1, <1>3, <2>2 DEF BufferedIn, s
    <3>2. Cardinality(BufferedIn(t)') = Cardinality(BufferedIn(t)) + 1
      BY <2>1, <3>1, FS_AddElement
    <3>3. counts'[t] = counts[t] + 1 /\ counts[t] \in Nat
      BY <1>1, <1>2, <2>2 DEF TypeOK
    <3> QED BY <1>6, <2>1, <2>2, <3>2, <3>3, AggregatorAssumption
  <2>3. CASE t # s
    <3>1. BufferedIn(t)' = BufferedIn(t)
      BY <1>3, <2>3 DEF BufferedIn, s
    <3>2. counts'[t] = counts[t]
      BY <1>2, <2>3 DEF TypeOK
    <3> QED BY <2>1, <3>1, <3>2 DEF CountInv, CountsAgree
  <2> QED BY <2>2, <2>3
<1>9. ASSUME NEW j \in Keys
      PROVE  Len(buffers'[j]) < MaxMessages
  <2>1. CASE j = k
    BY <1>1, <1>2, <2>1, Singleton, AggregatorAssumption DEF TypeOK
  <2>2. CASE j # k
    BY <1>2, <2>2 DEF TypeOK, CountInv, CountsAgree
  <2> QED BY <2>1, <2>2
<1> QED BY <1>4, <1>7, <1>8, <1>9 DEF CountInv, CountsAgree

\* A buffer that is taken out is no longer counted, whatever was in it.
LEMMA TakeCounts ==
    ASSUME TypeOK, CountInv, NEW k \in Buffered, NEW batch, Take(k, batch)
    PROVE  CountInv'
<1> DEFINE s == ScopeOf[k]
<1>1. k \in Keys /\ s \in Scopes
  BY AggregatorAssumption DEF Buffered
<1>2. /\ buffers' = [buffers EXCEPT ![k] = <<>>]
      /\ counts' = [counts EXCEPT ![s] = IF @ <= 1 THEN 0 ELSE @ - 1]
  BY DEF Take
<1> HIDE DEF s
<1>3. Buffered' = Buffered \ {k}
  BY <1>1, <1>2 DEF Buffered, TypeOK
<1>4. IsFiniteSet(Buffered') /\ Cardinality(Buffered') = Cardinality(Buffered) - 1
  BY <1>3, FS_RemoveElement DEF CountInv
<1>5. Cardinality(Buffered) \in Nat /\ Cardinality(Buffered) <= MaxBuffers
  BY FS_CardinalityType DEF CountInv, CountsAgree
<1>6. ASSUME NEW t \in Scopes
      PROVE  counts'[t] = Cardinality(BufferedIn(t)') /\ counts'[t] <= MaxPerScope
  <2>1. /\ IsFiniteSet(BufferedIn(t))
        /\ counts[t] = Cardinality(BufferedIn(t)) /\ counts[t] <= MaxPerScope
        /\ counts[t] \in Nat
    BY FS_Subset DEF BufferedIn, CountInv, CountsAgree, TypeOK
  <2>2. CASE t = s
    <3>1. BufferedIn(t)' = BufferedIn(t) \ {k} /\ k \in BufferedIn(t)
      BY <1>1, <1>3, <2>2 DEF BufferedIn, s
    <3>2. Cardinality(BufferedIn(t)') = Cardinality(BufferedIn(t)) - 1
      BY <2>1, <3>1, FS_RemoveElement
    <3>3. IsFiniteSet(BufferedIn(t)')
      BY <2>1, <3>1, FS_RemoveElement
    <3>4. Cardinality(BufferedIn(t)') \in Nat
      BY <3>3, FS_CardinalityType
    <3>5. counts'[t] = IF counts[t] <= 1 THEN 0 ELSE counts[t] - 1
      BY <1>1, <1>2, <2>2 DEF TypeOK
    <3> QED BY <2>1, <3>2, <3>4, <3>5, AggregatorAssumption
  <2>3. CASE t # s
    <3>1. BufferedIn(t)' = BufferedIn(t)
      BY <1>3, <2>3 DEF BufferedIn, s
    <3>2. counts'[t] = counts[t]
      BY <1>2, <2>3 DEF TypeOK
    <3> QED BY <2>1, <3>1, <3>2
  <2> QED BY <2>2, <2>3
<1>7. ASSUME NEW j \in Keys
      PROVE  Len(buffers'[j]) < MaxMessages
  <2>1. CASE j = k
    BY <1>1, <1>2, <2>1, Nothing, AggregatorAssumption DEF TypeOK
  <2>2. CASE j # k
    BY <1>2, <2>2 DEF TypeOK, CountInv, CountsAgree
  <2> QED BY <2>1, <2>2
<1> QED BY <1>4, <1>5, <1>6, <1>7, AggregatorAssumption DEF CountInv, CountsAgree

\* A buffer that grows is still one buffer.
LEMMA AppendCounts ==
    ASSUME TypeOK, CountInv, NEW m \in Messages, AppendMessage(m)
    PROVE  CountInv'
<1> DEFINE k == KeyOf[m]
<1>1. k \in Keys /\ buffers[k] \in Seq(Messages) /\ buffers[k] # <<>>
  BY KeyTyping DEF AppendMessage, Joins, TypeOK
<1>2. /\ buffers' = [buffers EXCEPT ![k] = Append(buffers[k], m)]
      /\ counts' = counts
      /\ Len(buffers[k]) + 1 < MaxMessages
  BY DEF AppendMessage
<1> HIDE DEF k
<1>3. Append(buffers[k], m) # <<>> /\ Len(Append(buffers[k], m)) < MaxMessages
  BY <1>1, <1>2, Appended
<1>4. Buffered' = Buffered
  BY <1>1, <1>2, <1>3 DEF Buffered, TypeOK
<1>5. \A s \in Scopes : BufferedIn(s)' = BufferedIn(s)
  BY <1>4 DEF BufferedIn
<1>6. \A j \in Keys : Len(buffers'[j]) < MaxMessages
  BY <1>1, <1>2, <1>3 DEF TypeOK, CountInv, CountsAgree
<1> QED BY <1>2, <1>4, <1>5, <1>6 DEF CountInv, CountsAgree

LEMMA CountStep == TypeOK /\ CountInv /\ [Next]_vars => CountInv'
<1> SUFFICES ASSUME TypeOK, CountInv, [Next]_vars
             PROVE  CountInv'
  OBVIOUS
<1>1. CASE UNCHANGED <<buffers, counts>>
  BY <1>1 DEF CountInv, CountsAgree, Buffered, BufferedIn
<1>2. ASSUME NEW m \in Messages, StartBuffer(m)
      PROVE  CountInv'
  BY <1>2, StartCounts
<1>3. ASSUME NEW m \in Messages, AppendMessage(m)
      PROVE  CountInv'
  BY <1>3, AppendCounts
<1>4. ASSUME NEW m \in Messages, AppendAndFlush(m)
      PROVE  CountInv'
  <2>1. KeyOf[m] \in Buffered
    BY <1>4, KeyTyping DEF AppendAndFlush, Joins, Buffered
  <2> QED BY <1>4, <2>1, TakeCounts DEF AppendAndFlush
<1>5. ASSUME NEW m \in Messages, TimerFires(m)
      PROVE  CountInv'
  <2>1. CASE buffers[KeyOf[m]] # <<>> /\ Take(KeyOf[m], buffers[KeyOf[m]])
    <3>1. KeyOf[m] \in Buffered
      BY <2>1, KeyTyping DEF Buffered
    <3> QED BY <2>1, <3>1, TakeCounts
  <2> QED BY <1>1, <1>5, <2>1 DEF TimerFires
<1> QED BY <1>1, <1>2, <1>3, <1>4, <1>5
        DEF Next, AddMessage, Bypass, RefuseContext, TimerFails, Enqueue, Fail, vars

LEMMA InitCounts == Init => CountInv
<1> SUFFICES ASSUME Init
             PROVE  CountInv
  OBVIOUS
<1>1. Buffered = {} /\ \A s \in Scopes : BufferedIn(s) = {}
  BY DEF Init, Buffered, BufferedIn
<1>2. \A k \in Keys : buffers[k] = <<>>
  BY DEF Init
<1>3. Cardinality({}) = 0 /\ IsFiniteSet({})
  BY FS_EmptySet
<1>4. \A s \in Scopes : counts[s] = 0
  BY DEF Init
<1>5. \A s \in Scopes : counts[s] = Cardinality(BufferedIn(s)) /\ counts[s] <= MaxPerScope
  BY <1>1, <1>3, <1>4, AggregatorAssumption
<1>6. Cardinality(Buffered) <= MaxBuffers /\ IsFiniteSet(Buffered)
  BY <1>1, <1>3, AggregatorAssumption
<1>7. \A k \in Keys : Len(buffers[k]) < MaxMessages
  BY <1>2, Nothing, AggregatorAssumption
<1> QED BY <1>5, <1>6, <1>7 DEF CountInv, CountsAgree

LEMMA InductiveCounts == Spec => [](TypeOK /\ CountInv)
<1>1. Init => TypeOK
  BY Nothing DEF Init, TypeOK, Timers
<1> QED BY <1>1, InitCounts, TypeStep, CountStep, PTL DEF Spec

\* The counters agree with the buffers and the limits hold, for every value of
\* the limits, however timers and full buffers interleave.
THEOREM BufferLimitsHold == Spec => []CountsAgree
<1>1. CountInv => CountsAgree
  BY DEF CountInv
<1> QED BY <1>1, InductiveCounts, PTL

-----------------------------------------------------------------------------
(* Conversations *)

Uniform(b) == \A m, n \in ToSet(b) : KeyOf[m] = KeyOf[n] /\ ContextOf[m] = ContextOf[n]

\* What is buffered for a key has that key and the context of the buffer.
Keyed(k) == \A m \in ToSet(buffers[k]) : KeyOf[m] = k /\ ContextOf[m] = ContextIn(k)

ScopeInv ==
    /\ \A k \in Keys : Keyed(k)
    /\ \A b \in calls \cup queries : Uniform(b)

\* A message joins a buffer of its own key and context.
LEMMA JoinKeyed ==
    ASSUME TypeOK, NEW m \in Messages, Joins(m), Keyed(KeyOf[m])
    PROVE  LET b == Append(buffers[KeyOf[m]], m)
           IN  /\ \A n \in ToSet(b) : KeyOf[n] = KeyOf[m] /\ ContextOf[n] = ContextOf[b[1]]
               /\ Uniform(b)
<1> DEFINE k == KeyOf[m]
           b == Append(buffers[k], m)
<1>1. k \in Keys /\ buffers[k] \in Seq(Messages) /\ buffers[k] # <<>>
  BY KeyTyping DEF Joins, TypeOK
<1>2. ToSet(b) = ToSet(buffers[k]) \cup {m} /\ b[1] = buffers[k][1]
  BY <1>1, Appended
<1>3. ContextOf[m] = ContextOf[buffers[k][1]]
  BY DEF Joins, ContextIn
<1> HIDE DEF b
<1>4. \A n \in ToSet(b) : KeyOf[n] = k /\ ContextOf[n] = ContextOf[b[1]]
  BY <1>2, <1>3 DEF Keyed, ContextIn
<1> QED BY <1>4 DEF Uniform, b

LEMMA KeyedUniform ==
    ASSUME NEW k \in Keys, Keyed(k)
    PROVE  Uniform(buffers[k])
  BY DEF Keyed, Uniform

\* Taking out a uniform batch keeps everything uniform.
LEMMA TakeUniform ==
    ASSUME TypeOK, ScopeInv, NEW k \in Keys, NEW batch, Uniform(batch), Take(k, batch),
           UNCHANGED queries
    PROVE  ScopeInv'
<1>1. \A j \in Keys : Keyed(j)'
  BY Nothing DEF Take, ScopeInv, Keyed, ContextIn, TypeOK
<1>2. calls' \cup queries' = calls \cup queries \cup {batch}
  BY DEF Take
<1> QED BY <1>1, <1>2 DEF ScopeInv, Uniform

LEMMA ScopeStep == TypeOK /\ ScopeInv /\ [Next]_vars => ScopeInv'
<1> SUFFICES ASSUME TypeOK, ScopeInv, [Next]_vars
             PROVE  ScopeInv'
  OBVIOUS
<1>1. ASSUME buffers' = buffers, \A b \in calls' \cup queries' : Uniform(b)
      PROVE  ScopeInv'
  BY <1>1 DEF ScopeInv, Keyed, ContextIn, Uniform
<1>2. ASSUME NEW m \in Messages, Bypass(m)
      PROVE  ScopeInv'
  <2>1. Uniform(<<m>>)
    BY Singleton DEF Uniform
  <2> QED BY <1>1, <1>2, <2>1 DEF Bypass, ScopeInv
<1>3. ASSUME NEW m \in Messages, StartBuffer(m)
      PROVE  ScopeInv'
  <2>1. /\ buffers' = [buffers EXCEPT ![KeyOf[m]] = <<m>>]
        /\ UNCHANGED <<calls, queries>>
    BY <1>3 DEF StartBuffer
  <2>2. ASSUME NEW j \in Keys
        PROVE  Keyed(j)'
    <3>1. CASE j = KeyOf[m]
      BY <2>1, <3>1, Singleton DEF Keyed, ContextIn, TypeOK
    <3>2. CASE j # KeyOf[m]
      BY <2>1, <3>2 DEF Keyed, ContextIn, TypeOK, ScopeInv
    <3> QED BY <3>1, <3>2
  <2> QED BY <2>1, <2>2 DEF ScopeInv, Uniform
<1>4. ASSUME NEW m \in Messages, AppendMessage(m)
      PROVE  ScopeInv'
  <2> DEFINE b == Append(buffers[KeyOf[m]], m)
  <2>1. /\ buffers' = [buffers EXCEPT ![KeyOf[m]] = b]
        /\ UNCHANGED <<calls, queries>>
    BY <1>4 DEF AppendMessage
  <2>2. \A n \in ToSet(b) : KeyOf[n] = KeyOf[m] /\ ContextOf[n] = ContextOf[b[1]]
    BY <1>4, KeyTyping, JoinKeyed DEF AppendMessage, ScopeInv
  <2> HIDE DEF b
  <2>3. ASSUME NEW j \in Keys
        PROVE  Keyed(j)'
    <3>1. CASE j = KeyOf[m]
      BY <2>1, <2>2, <3>1 DEF Keyed, ContextIn, TypeOK
    <3>2. CASE j # KeyOf[m]
      BY <2>1, <3>2 DEF Keyed, ContextIn, TypeOK, ScopeInv
    <3> QED BY <3>1, <3>2
  <2> QED BY <2>1, <2>3 DEF ScopeInv, Uniform
<1>5. ASSUME NEW m \in Messages, AppendAndFlush(m)
      PROVE  ScopeInv'
  <2>1. Uniform(Append(buffers[KeyOf[m]], m))
    BY <1>5, KeyTyping, JoinKeyed DEF AppendAndFlush, ScopeInv
  <2> QED BY <1>5, <2>1, KeyTyping, TakeUniform DEF AppendAndFlush
<1>6. ASSUME NEW m \in Messages, TimerFires(m)
      PROVE  ScopeInv'
  <2>1. Uniform(buffers[KeyOf[m]])
    BY KeyTyping, KeyedUniform DEF ScopeInv
  <2>2. CASE Take(KeyOf[m], buffers[KeyOf[m]])
    BY <1>6, <2>1, <2>2, KeyTyping, TakeUniform DEF TimerFires
  <2>3. CASE UNCHANGED <<buffers, counts, calls>>
    BY <1>1, <1>6, <2>3 DEF TimerFires, ScopeInv
  <2> QED BY <1>6, <2>2, <2>3 DEF TimerFires
<1>7. ASSUME NEW batch \in calls, Enqueue(batch) \/ Fail(batch)
      PROVE  ScopeInv'
  <2>1. calls' \cup queries' \subseteq calls \cup queries
    BY <1>7 DEF Enqueue, Fail
  <2> QED BY <1>1, <1>7, <2>1 DEF Enqueue, Fail, ScopeInv
<1>8. CASE UNCHANGED <<buffers, calls, queries>>
  BY <1>1, <1>8 DEF ScopeInv
<1> QED BY <1>2, <1>3, <1>4, <1>5, <1>6, <1>7, <1>8
        DEF Next, AddMessage, RefuseContext, TimerFails, vars

LEMMA InductiveScopes == Spec => [](TypeOK /\ ScopeInv)
<1>1. Init => TypeOK
  BY Nothing DEF Init, TypeOK, Timers
<1>2. Init => ScopeInv
  BY Nothing DEF Init, ScopeInv, Keyed
<1> QED BY <1>1, <1>2, TypeStep, ScopeStep, PTL DEF Spec

\* Messages of two workspaces, bots, conversations or contexts are never merged.
THEOREM ConversationsKeptApart == Spec => []OneConversation
<1>1. ScopeInv => OneConversation
  <2> SUFFICES ASSUME ScopeInv
               PROVE  OneConversation
    OBVIOUS
  <2>1. \A k \in Keys : Uniform(buffers[k])
    BY KeyedUniform DEF ScopeInv
  <2> QED BY <2>1 DEF ScopeInv, OneConversation, Uniform
<1> QED BY <1>1, InductiveScopes, PTL

-----------------------------------------------------------------------------
(* Timers *)

\* The two directions of TimersMatchBuffers, key by key.
TimerInv ==
    /\ \A m \in Messages : timer[m] = "set" => KeyOf[m] \in Buffered /\ m = Latest(KeyOf[m])
    /\ \A k \in Buffered : timer[Latest(k)] \in {"set", "failed"}

\* The latest message of a buffer has the key of the buffer and its context.
LEMMA LatestProperties ==
    ASSUME TypeOK, ScopeInv, NEW k \in Buffered
    PROVE  Latest(k) \in Messages /\ KeyOf[Latest(k)] = k /\ ContextOf[Latest(k)] = ContextIn(k)
<1>1. k \in Keys /\ buffers[k] \in Seq(Messages) /\ buffers[k] # <<>>
  BY DEF Buffered, TypeOK
<1>2. Latest(k) \in ToSet(buffers[k]) /\ ToSet(buffers[k]) \subseteq Messages
  BY <1>1, Ends DEF Latest
<1> QED BY <1>1, <1>2 DEF ScopeInv, Keyed

\* When only the buffer of k changes, those of the other keys keep their timers.
LEMMA OtherKeys ==
    ASSUME TypeOK, NEW k \in Keys, NEW b, buffers' = [buffers EXCEPT ![k] = b],
           NEW j \in Keys, j # k
    PROVE  (j \in Buffered' <=> j \in Buffered) /\ Latest(j)' = Latest(j)
  BY DEF TypeOK, Buffered, Latest

LEMMA TimerStep ==
    ASSUME TypeOK, ScopeInv, TimerInv, [Next]_vars
    PROVE  TimerInv'
<1>1. CASE UNCHANGED <<buffers, timer>>
  BY <1>1 DEF TimerInv, Buffered, Latest
<1>2. ASSUME NEW m \in Messages, StartBuffer(m)
      PROVE  TimerInv'
  <2> DEFINE k == KeyOf[m]
  <2>1. /\ k \in Keys /\ k \notin Buffered
        /\ buffers' = [buffers EXCEPT ![k] = <<m>>]
        /\ timer' = [timer EXCEPT ![m] = "set"]
    BY <1>2, KeyTyping DEF StartBuffer, Buffered
  <2>2. k \in Buffered' /\ Latest(k)' = m
    BY <2>1, Singleton DEF Buffered, Latest, TypeOK
  <2>3. ASSUME NEW n \in Messages, timer'[n] = "set"
        PROVE  KeyOf[n] \in Buffered' /\ n = Latest(KeyOf[n])'
    <3>1. CASE n = m
      BY <2>2, <3>1
    <3>2. CASE n # m
      <4>1. timer[n] = "set" /\ KeyOf[n] \in Buffered /\ n = Latest(KeyOf[n])
        BY <2>1, <2>3, <3>2 DEF TypeOK, TimerInv
      <4> QED BY <2>1, <4>1, OtherKeys, KeyTyping
    <3> QED BY <3>1, <3>2
  <2>4. ASSUME NEW j \in Buffered'
        PROVE  timer'[Latest(j)'] \in {"set", "failed"}
    <3>1. j \in Keys
      BY DEF Buffered
    <3>2. CASE j = k
      BY <2>1, <2>2, <3>2 DEF TypeOK
    <3>3. CASE j # k
      BY <2>1, <2>4, <3>1, <3>3, OtherKeys, LatestProperties DEF TypeOK, TimerInv
    <3> QED BY <3>2, <3>3
  <2> QED BY <2>3, <2>4 DEF TimerInv
<1>3. ASSUME NEW m \in Messages, AppendMessage(m)
      PROVE  TimerInv'
  <2> DEFINE k == KeyOf[m]
  <2>1. /\ k \in Buffered /\ k \in Keys
        /\ buffers' = [buffers EXCEPT ![k] = Append(buffers[k], m)]
        /\ timer' = Restarted(m)
    BY <1>3, KeyTyping DEF AppendMessage, Joins, Buffered
  <2>2. k \in Buffered' /\ Latest(k)' = m
    <3>1. /\ Append(buffers[k], m) # <<>>
          /\ Append(buffers[k], m)[Len(Append(buffers[k], m))] = m
      BY <2>1, Appended DEF TypeOK
    <3> QED BY <2>1, <3>1 DEF Buffered, Latest, TypeOK
  <2>3. ASSUME NEW n \in Messages, timer'[n] = "set"
        PROVE  KeyOf[n] \in Buffered' /\ n = Latest(KeyOf[n])'
    <3>1. CASE n = m
      BY <2>2, <3>1
    <3>2. CASE n # m
      <4>1. timer[n] = "set" /\ n # Latest(k)
        BY <2>1, <2>3, <3>2 DEF Restarted, TypeOK
      <4>2. KeyOf[n] \in Buffered /\ n = Latest(KeyOf[n]) /\ KeyOf[n] # k
        BY <4>1 DEF TimerInv
      <4> QED BY <2>1, <4>2, OtherKeys, KeyTyping
    <3> QED BY <3>1, <3>2
  <2>4. ASSUME NEW j \in Buffered'
        PROVE  timer'[Latest(j)'] \in {"set", "failed"}
    <3>1. j \in Keys
      BY DEF Buffered
    <3>2. CASE j = k
      BY <2>1, <2>2, <3>2 DEF Restarted, TypeOK
    <3>3. CASE j # k
      <4>1. j \in Buffered /\ Latest(j)' = Latest(j)
        BY <2>1, <2>4, <3>1, <3>3, OtherKeys
      <4>2. Latest(j) \in Messages /\ KeyOf[Latest(j)] = j /\ KeyOf[Latest(k)] = k
        BY <2>1, <4>1, LatestProperties
      <4>3. timer[Latest(j)] \in {"set", "failed"} /\ Latest(j) # Latest(k) /\ Latest(j) # m
        BY <3>3, <4>1, <4>2 DEF TimerInv
      <4> QED BY <2>1, <4>1, <4>2, <4>3 DEF Restarted, TypeOK
    <3> QED BY <3>2, <3>3
  <2> QED BY <2>3, <2>4 DEF TimerInv
<1>4. ASSUME NEW k \in Buffered, NEW batch, Take(k, batch),
             \A n \in Messages : KeyOf[n] = k => timer'[n] # "set",
             \A n \in Messages : KeyOf[n] # k => timer'[n] = timer[n]
      PROVE  TimerInv'
  <2>1. k \in Keys /\ buffers' = [buffers EXCEPT ![k] = <<>>] /\ k \notin Buffered'
    BY <1>4 DEF Take, Buffered, TypeOK
  <2>2. ASSUME NEW n \in Messages, timer'[n] = "set"
        PROVE  KeyOf[n] \in Buffered' /\ n = Latest(KeyOf[n])'
    <3>1. KeyOf[n] # k /\ timer[n] = "set"
      BY <1>4, <2>2
    <3> QED BY <2>1, <3>1, OtherKeys, KeyTyping DEF TimerInv
  <2>3. ASSUME NEW j \in Buffered'
        PROVE  timer'[Latest(j)'] \in {"set", "failed"}
    <3>1. j \in Keys /\ j # k
      BY <2>1 DEF Buffered
    <3>2. j \in Buffered /\ Latest(j)' = Latest(j)
      BY <2>1, <2>3, <3>1, OtherKeys
    <3> QED BY <1>4, <3>1, <3>2, LatestProperties DEF TimerInv
  <2> QED BY <2>2, <2>3 DEF TimerInv
<1>5. ASSUME NEW m \in Messages, AppendAndFlush(m)
      PROVE  TimerInv'
  <2> DEFINE k == KeyOf[m]
  <2>1. /\ k \in Buffered
        /\ Take(k, Append(buffers[k], m))
        /\ timer' = [Restarted(m) EXCEPT ![m] = "none"]
    BY <1>5, KeyTyping DEF AppendAndFlush, Joins, Buffered
  <2>2. Latest(k) \in Messages /\ KeyOf[Latest(k)] = k
    BY <2>1, LatestProperties
  <2>3. ASSUME NEW n \in Messages, KeyOf[n] = k
        PROVE  timer'[n] # "set"
    <3>1. n # Latest(k) => timer[n] # "set"
      BY <2>3 DEF TimerInv
    <3> QED BY <2>1, <2>2, <3>1 DEF Restarted, TypeOK
  <2>4. ASSUME NEW n \in Messages, KeyOf[n] # k
        PROVE  timer'[n] = timer[n]
    BY <2>1, <2>2, <2>4 DEF Restarted, TypeOK
  <2> QED BY <1>4, <2>1, <2>3, <2>4
<1>6. ASSUME NEW m \in Messages, TimerFires(m)
      PROVE  TimerInv'
  <2> DEFINE k == KeyOf[m]
  <2>1. k \in Buffered /\ m = Latest(k)
    BY <1>6 DEF TimerFires, TimerInv
  <2>2. ContextIn(k) = ContextOf[m]
    BY <2>1, LatestProperties
  <2>3. Take(k, buffers[k]) /\ timer' = [timer EXCEPT ![m] = "done"]
    BY <1>6, <2>1, <2>2 DEF TimerFires, Buffered
  <2>4. ASSUME NEW n \in Messages, KeyOf[n] = k
        PROVE  timer'[n] # "set"
    BY <2>1, <2>3, <2>4 DEF TimerInv, TypeOK
  <2>5. ASSUME NEW n \in Messages, KeyOf[n] # k
        PROVE  timer'[n] = timer[n]
    BY <2>3, <2>5 DEF TypeOK
  <2> QED BY <1>4, <2>1, <2>3, <2>4, <2>5
<1>7. ASSUME NEW m \in Messages, TimerFails(m)
      PROVE  TimerInv'
  <2>1. buffers' = buffers /\ timer' = [timer EXCEPT ![m] = "failed"]
    BY <1>7 DEF TimerFails
  <2>2. Buffered' = Buffered /\ \A k \in Buffered : Latest(k)' = Latest(k)
    BY <2>1 DEF Buffered, Latest
  <2>3. \A n \in Messages : timer'[n] = "set" => timer[n] = "set"
    BY <2>1 DEF TypeOK
  <2>4. \A k \in Buffered : timer'[Latest(k)] \in {"set", "failed"}
    BY <2>1, LatestProperties DEF TimerInv, TypeOK
  <2> QED BY <2>2, <2>3, <2>4 DEF TimerInv
<1> QED BY <1>1, <1>2, <1>3, <1>5, <1>6, <1>7
        DEF Next, AddMessage, Bypass, RefuseContext, Enqueue, Fail, vars

LEMMA InductiveTimers == Spec => [](TypeOK /\ ScopeInv /\ TimerInv)
<1>1. Init => TimerInv
  BY DEF Init, TimerInv, Buffered
<1>2. TypeOK /\ ScopeInv /\ TimerInv /\ [Next]_vars => TimerInv'
  BY TimerStep
<1> QED BY <1>1, <1>2, InductiveScopes, PTL DEF Spec

\* Every buffer has the timer of its latest message, unless that timer failed, and
\* no other timer runs.
THEOREM EveryBufferHasItsTimer == Spec => []TimersMatchBuffers
<1>1. TypeOK /\ ScopeInv /\ TimerInv => TimersMatchBuffers
  <2> SUFFICES ASSUME TypeOK, ScopeInv, TimerInv
               PROVE  TimersMatchBuffers
    OBVIOUS
  <2>1. \A k \in Buffered : Latest(k) \in Messages /\ timer[Latest(k)] \in {"set", "failed"}
    BY LatestProperties DEF TimerInv
  <2> QED BY <2>1 DEF TimerInv, TimersMatchBuffers
<1> QED BY <1>1, InductiveTimers, PTL

-----------------------------------------------------------------------------
(* No message twice *)

OnceInv == EachMessageOnce /\ \A k \in Keys : IsInjective(buffers[k])

\* Changing the buffer of one key exchanges its messages, for no other key has them.
LEMMA BuffersChange ==
    ASSUME TypeOK, ScopeInv, NEW k \in Keys, NEW b, buffers' = [buffers EXCEPT ![k] = b]
    PROVE  InBuffers' = (InBuffers \ ToSet(buffers[k])) \cup ToSet(b)
<1>1. buffers'[k] = b /\ \A j \in Keys \ {k} : buffers'[j] = buffers[j]
  BY DEF TypeOK
<1>2. \A j \in Keys \ {k} : ToSet(buffers[j]) \cap ToSet(buffers[k]) = {}
  BY DEF ScopeInv, Keyed
<1> QED BY <1>1, <1>2 DEF InBuffers

\* What a call or query gains and what the calls lose.
LEMMA BatchesGain ==
    ASSUME NEW B, NEW b
    PROVE  InBatches(B \cup {b}) = InBatches(B) \cup ToSet(b)
  BY DEF InBatches

LEMMA BatchesLose ==
    ASSUME NEW B, NEW b \in B, \A d \in B : ToSet(b) \cap ToSet(d) # {} => b = d
    PROVE  InBatches(B \ {b}) = InBatches(B) \ ToSet(b)
  BY DEF InBatches

\* A message that arrives was nowhere before.
LEMMA NewMessage ==
    ASSUME EachMessageOnce, NEW m \in Messages, Arrives(m)
    PROVE  /\ m \notin InBuffers /\ m \notin InBatches(calls)
           /\ m \notin InBatches(queries) /\ m \notin lost
           /\ \A k \in Keys : m \notin ToSet(buffers[k])
           /\ \A b \in calls \cup queries : m \notin ToSet(b)
<1>1. /\ m \notin InBuffers /\ m \notin InBatches(calls)
      /\ m \notin InBatches(queries) /\ m \notin lost
  BY DEF EachMessageOnce, Arrives
<1> QED BY <1>1 DEF InBuffers, InBatches

\* A new batch of messages that are in no batch keeps the batches apart.
LEMMA NewBatch ==
    ASSUME EachMessageOnce, NEW b, IsInjective(b),
           ToSet(b) \cap (InBatches(calls) \cup InBatches(queries)) = {},
           calls' = calls \cup {b}, UNCHANGED queries
    PROVE  /\ \A c, d \in calls' \cup queries' : ToSet(c) \cap ToSet(d) # {} => c = d
           /\ \A c \in calls' \cup queries' : IsInjective(c)
<1>1. \A c \in calls \cup queries : ToSet(b) \cap ToSet(c) = {}
  BY DEF InBatches
<1> QED BY <1>1 DEF EachMessageOnce

\* Taking a buffer out, with at most one message that has just arrived.
LEMMA TakeOnce ==
    ASSUME TypeOK, ScopeInv, OnceInv, NEW k \in Keys, NEW batch, NEW new,
           Take(k, batch), IsInjective(batch), ToSet(batch) = ToSet(buffers[k]) \cup new,
           arrived' = arrived \cup new, new \cap arrived = {}, UNCHANGED <<queries, lost>>
    PROVE  OnceInv'
<1>1. /\ buffers' = [buffers EXCEPT ![k] = <<>>]
      /\ calls' = calls \cup {batch}
  BY DEF Take
<1>2. InBuffers' = InBuffers \ ToSet(buffers[k])
  BY <1>1, BuffersChange, Nothing
<1>3. InBatches(calls)' = InBatches(calls) \cup ToSet(batch)
  BY <1>1, BatchesGain DEF InBatches
<1>4. InBatches(queries)' = InBatches(queries)
  BY DEF InBatches
<1>5. ToSet(buffers[k]) \subseteq InBuffers
  BY DEF InBuffers
<1>6. ToSet(batch) \cap (InBatches(calls) \cup InBatches(queries) \cup lost) = {}
  BY <1>5 DEF OnceInv, EachMessageOnce
<1>7. /\ \A c, d \in calls' \cup queries' : ToSet(c) \cap ToSet(d) # {} => c = d
      /\ \A c \in calls' \cup queries' : IsInjective(c)
  BY <1>1, <1>6, NewBatch DEF OnceInv
<1>8. \A j \in Keys : IsInjective(buffers'[j])
  BY <1>1 DEF OnceInv, TypeOK, IsInjective
<1>9. arrived' = InBuffers' \cup InBatches(calls)' \cup InBatches(queries)' \cup lost'
  BY <1>2, <1>3, <1>4, <1>5 DEF OnceInv, EachMessageOnce
<1>10. /\ InBuffers' \cap (InBatches(calls)' \cup InBatches(queries)' \cup lost') = {}
       /\ InBatches(calls)' \cap (InBatches(queries)' \cup lost') = {}
       /\ InBatches(queries)' \cap lost' = {}
  <2>1. InBuffers \cap new = {}
    BY DEF OnceInv, EachMessageOnce
  <2> QED BY <1>2, <1>3, <1>4, <1>6, <2>1 DEF OnceInv, EachMessageOnce
<1> QED BY <1>7, <1>8, <1>9, <1>10 DEF OnceInv, EachMessageOnce, InBatches

LEMMA OnceStep ==
    ASSUME TypeOK, ScopeInv, OnceInv, [Next]_vars
    PROVE  OnceInv'
<1>1. CASE UNCHANGED <<arrived, buffers, calls, queries, lost>>
  BY <1>1 DEF OnceInv, EachMessageOnce, InBuffers, InBatches
<1>2. ASSUME NEW m \in Messages, Bypass(m)
      PROVE  OnceInv'
  <2>1. calls' = calls \cup {<<m>>} /\ UNCHANGED <<buffers, queries, lost>> /\ Arrives(m)
    BY <1>2 DEF Bypass
  <2>2. ToSet(<<m>>) = {m} /\ IsInjective(<<m>>)
    BY Singleton
  <2>3. /\ m \notin InBuffers /\ m \notin InBatches(calls)
        /\ m \notin InBatches(queries) /\ m \notin lost
    BY <2>1, NewMessage DEF OnceInv
  <2>4. /\ InBatches(calls)' = InBatches(calls) \cup {m}
        /\ InBatches(queries)' = InBatches(queries) /\ InBuffers' = InBuffers
    BY <2>1, <2>2, BatchesGain DEF InBatches, InBuffers
  <2>5. /\ \A c, d \in calls' \cup queries' : ToSet(c) \cap ToSet(d) # {} => c = d
        /\ \A c \in calls' \cup queries' : IsInjective(c)
    BY <2>1, <2>2, <2>3, NewBatch DEF OnceInv
  <2> QED BY <2>1, <2>3, <2>4, <2>5 DEF Arrives, OnceInv, EachMessageOnce, InBatches
<1>3. ASSUME NEW m \in Messages, NEW k \in Keys, NEW b, Arrives(m),
             buffers' = [buffers EXCEPT ![k] = b], IsInjective(b),
             ToSet(b) = ToSet(buffers[k]) \cup {m},
             UNCHANGED <<calls, queries, lost>>
      PROVE  OnceInv'
  <2>1. InBuffers' = InBuffers \cup {m}
    <3>1. ToSet(buffers[k]) \subseteq InBuffers
      BY DEF InBuffers
    <3> QED BY <1>3, <3>1, BuffersChange
  <2>2. /\ m \notin InBatches(calls)
        /\ m \notin InBatches(queries) /\ m \notin lost
    BY <1>3, NewMessage DEF OnceInv
  <2>3. InBatches(calls)' = InBatches(calls) /\ InBatches(queries)' = InBatches(queries)
    BY <1>3 DEF InBatches
  <2>4. \A j \in Keys : IsInjective(buffers'[j])
    BY <1>3 DEF OnceInv, TypeOK
  <2> QED BY <1>3, <2>1, <2>2, <2>3, <2>4 DEF Arrives, OnceInv, EachMessageOnce, InBatches
<1>4. ASSUME NEW m \in Messages, StartBuffer(m)
      PROVE  OnceInv'
  <2>1. ToSet(buffers[KeyOf[m]]) = {}
    BY <1>4, Nothing DEF StartBuffer
  <2> QED BY <1>3, <1>4, <2>1, Singleton, KeyTyping DEF StartBuffer
<1>5. ASSUME NEW m \in Messages, Joins(m), Arrives(m)
      PROVE  LET b == Append(buffers[KeyOf[m]], m)
             IN  ToSet(b) = ToSet(buffers[KeyOf[m]]) \cup {m} /\ IsInjective(b)
  <2>1. KeyOf[m] \in Keys /\ buffers[KeyOf[m]] \in Seq(Messages)
    BY KeyTyping DEF TypeOK
  <2>2. m \notin ToSet(buffers[KeyOf[m]]) /\ IsInjective(buffers[KeyOf[m]])
    BY <1>5, <2>1, NewMessage DEF OnceInv
  <2> QED BY <2>1, <2>2, Appended
<1>6. ASSUME NEW m \in Messages, AppendMessage(m)
      PROVE  OnceInv'
  BY <1>3, <1>5, <1>6, KeyTyping DEF AppendMessage
<1>7. ASSUME NEW m \in Messages, AppendAndFlush(m)
      PROVE  OnceInv'
  <2>1. /\ Take(KeyOf[m], Append(buffers[KeyOf[m]], m))
        /\ Joins(m) /\ Arrives(m) /\ UNCHANGED <<queries, lost>>
    BY <1>7 DEF AppendAndFlush
  <2>2. arrived' = arrived \cup {m} /\ {m} \cap arrived = {}
    BY <2>1 DEF Arrives
  <2> QED BY <1>5, <2>1, <2>2, KeyTyping, TakeOnce
<1>8. ASSUME NEW m \in Messages, RefuseContext(m)
      PROVE  OnceInv'
  <2>1. /\ m \notin InBuffers /\ m \notin InBatches(calls) /\ m \notin InBatches(queries)
    BY <1>8, NewMessage DEF RefuseContext, OnceInv
  <2>2. /\ InBuffers' = InBuffers /\ InBatches(calls)' = InBatches(calls)
        /\ InBatches(queries)' = InBatches(queries)
    BY <1>8 DEF RefuseContext, InBuffers, InBatches
  <2> QED BY <1>8, <2>1, <2>2 DEF RefuseContext, Arrives, OnceInv, EachMessageOnce, InBatches
<1>9. ASSUME NEW m \in Messages, TimerFires(m)
      PROVE  OnceInv'
  <2>1. CASE Take(KeyOf[m], buffers[KeyOf[m]])
    <3>1. IsInjective(buffers[KeyOf[m]]) /\ UNCHANGED <<arrived, queries, lost>>
      BY <1>9, KeyTyping DEF TimerFires, OnceInv
    <3>2. /\ ToSet(buffers[KeyOf[m]]) = ToSet(buffers[KeyOf[m]]) \cup {}
          /\ arrived' = arrived \cup {} /\ {} \cap arrived = {}
      BY <3>1
    <3> QED BY <2>1, <3>1, <3>2, KeyTyping, TakeOnce
  <2>2. CASE UNCHANGED <<buffers, counts, calls>>
    BY <1>1, <1>9, <2>2 DEF TimerFires
  <2> QED BY <1>9, <2>1, <2>2 DEF TimerFires
<1>10. ASSUME NEW b \in calls, calls' = calls \ {b}, UNCHANGED <<arrived, buffers>>,
              \/ queries' = queries \cup {b} /\ lost' = lost
              \/ queries' = queries /\ lost' = lost \cup ToSet(b)
       PROVE  OnceInv'
  <2>1. InBatches(calls)' = InBatches(calls) \ ToSet(b)
    BY <1>10, BatchesLose DEF OnceInv, EachMessageOnce, InBatches
  <2>2. ToSet(b) \subseteq InBatches(calls) /\ InBuffers' = InBuffers
    BY <1>10 DEF InBatches, InBuffers
  <2>3. calls' \cup queries' \subseteq calls \cup queries
    BY <1>10
  <2>4. /\ \A c, d \in calls' \cup queries' : ToSet(c) \cap ToSet(d) # {} => c = d
        /\ \A c \in calls' \cup queries' : IsInjective(c)
        /\ \A j \in Keys : IsInjective(buffers'[j])
    BY <1>10, <2>3 DEF OnceInv, EachMessageOnce
  <2>5. ASSUME arrived' = InBuffers' \cup InBatches(calls)' \cup InBatches(queries)' \cup lost',
               InBuffers' \cap (InBatches(calls)' \cup InBatches(queries)' \cup lost') = {},
               InBatches(calls)' \cap (InBatches(queries)' \cup lost') = {},
               InBatches(queries)' \cap lost' = {}
        PROVE  OnceInv'
    BY <2>4, <2>5 DEF OnceInv, EachMessageOnce, InBatches
  <2>6. CASE queries' = queries \cup {b} /\ lost' = lost
    <3>1. InBatches(queries)' = InBatches(queries) \cup ToSet(b)
      BY <2>6, BatchesGain DEF InBatches
    <3> QED BY <1>10, <2>1, <2>2, <2>6, <2>5, <3>1 DEF OnceInv, EachMessageOnce
  <2>7. CASE queries' = queries /\ lost' = lost \cup ToSet(b)
    <3>1. InBatches(queries)' = InBatches(queries)
      BY <2>7 DEF InBatches
    <3> QED BY <1>10, <2>1, <2>2, <2>7, <2>5, <3>1 DEF OnceInv, EachMessageOnce
  <2> QED BY <1>10, <2>6, <2>7
<1>11. ASSUME NEW b \in calls, Enqueue(b) \/ Fail(b)
       PROVE  OnceInv'
  BY <1>10, <1>11 DEF Enqueue, Fail
<1> QED BY <1>1, <1>2, <1>4, <1>6, <1>7, <1>8, <1>9, <1>11
        DEF Next, AddMessage, TimerFails, vars

LEMMA InitOnce == Init => OnceInv
<1> SUFFICES ASSUME Init
             PROVE  OnceInv
  OBVIOUS
<1>1. \A k \in Keys : buffers[k] = <<>>
  BY DEF Init
<1>2. InBuffers = {} /\ InBatches(calls) = {} /\ InBatches(queries) = {}
  BY <1>1, Nothing DEF Init, InBuffers, InBatches
<1> QED BY <1>1, <1>2 DEF Init, OnceInv, EachMessageOnce, IsInjective

\* However restarts, timers and full buffers overlap, no message is forgotten and
\* none is put into two queries.
THEOREM MessagesKeptOnce == Spec => []EachMessageOnce
<1>1. TypeOK /\ ScopeInv /\ OnceInv /\ [Next]_vars => OnceInv'
  BY OnceStep
<1>2. OnceInv => EachMessageOnce
  BY DEF OnceInv
<1> QED BY <1>1, <1>2, InitOnce, InductiveScopes, PTL DEF Spec
=============================================================================
