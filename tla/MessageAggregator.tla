--------------------------- MODULE MessageAggregator ---------------------------
(****************************************************************************)
(* Message aggregation, pipeline/aggregator.py: messages of a conversation  *)
(* that arrive one after the other are buffered, and a timer that each new  *)
(* message restarts merges the buffer into one query.  A full buffer is     *)
(* merged at once, and a message that finds no room for a buffer bypasses   *)
(* aggregation.                                                             *)
(*                                                                          *)
(* No critical section of the aggregator awaits, so its lock never makes    *)
(* anyone wait and each section is one step.  What is merged leaves the     *)
(* aggregator in a call that first awaits the binding of the workspace and  *)
(* then the query pool: such calls overlap with everything else.            *)
(****************************************************************************)
EXTENDS Integers, Sequences, FiniteSets, SequencesExt

CONSTANTS
    Messages,
    Keys,           \* aggregation keys
    Scopes,         \* instance, workspace and generation of a key
    Contexts,       \* ExecutionContexts: more than the scope of a key
    KeyOf,          \* the key of each message
    ContextOf,      \* the context of the bot when it received the message
    ScopeOf,        \* the scope of each key
    Plain,          \* messages that are not aggregated: not enabled, or control input
    MaxMessages,    \* MAX_BUFFER_MESSAGES
    MaxBuffers,     \* concurrency.pending_queries
    MaxPerScope     \* concurrency.pending_queries_per_workspace

ASSUME AggregatorAssumption ==
    /\ KeyOf \in [Messages -> Keys]
    /\ ContextOf \in [Messages -> Contexts]
    /\ ScopeOf \in [Keys -> Scopes]
    /\ Plain \subseteq Messages
    /\ MaxMessages \in Nat /\ MaxMessages > 1
    /\ MaxBuffers \in Nat \ {0}
    /\ MaxPerScope \in Nat \ {0}

VARIABLES
    arrived,    \* messages add_message was called with
    buffers,    \* the messages buffered for each key, none where there is no buffer
    counts,     \* _buffer_counts_by_scope
    timer,      \* the timer task that each message has started
    calls,      \* merged messages in a call of add_query, or on the way to it
    queries,    \* merged messages that have become a query
    lost        \* messages whose call raised

vars == <<arrived, buffers, counts, timer, calls, queries, lost>>

Timers == {"none", "set", "cancelled", "done", "failed"}

TypeOK ==
    /\ arrived \subseteq Messages
    /\ buffers \in [Keys -> Seq(Messages)]
    /\ counts \in [Scopes -> Nat]
    /\ timer \in [Messages -> Timers]
    /\ calls \subseteq Seq(Messages)
    /\ queries \subseteq Seq(Messages)
    /\ lost \subseteq Messages

Init ==
    /\ arrived = {}
    /\ buffers = [k \in Keys |-> <<>>]
    /\ counts = [s \in Scopes |-> 0]
    /\ timer = [m \in Messages |-> "none"]
    /\ calls = {}
    /\ queries = {}
    /\ lost = {}

Buffered == {k \in Keys : buffers[k] # <<>>}
BufferedIn(s) == {k \in Buffered : ScopeOf[k] = s}

Latest(k) == buffers[k][Len(buffers[k])]
ContextIn(k) == ContextOf[buffers[k][1]]

Arrives(m) == m \notin arrived /\ arrived' = arrived \cup {m}

\* Mutant: the limit is compared after the buffer is counted.
NoRoomLate(s) == Cardinality(Buffered) > MaxBuffers \/ counts[s] > MaxPerScope

NoRoom(s) == Cardinality(Buffered) >= MaxBuffers \/ counts[s] >= MaxPerScope

-----------------------------------------------------------------------------
(* add_message *)

\* Aggregation is off for the message, or there is no room for a buffer.
Bypass(m) ==
    /\ Arrives(m)
    /\ m \in Plain \/ (buffers[KeyOf[m]] = <<>> /\ NoRoom(ScopeOf[KeyOf[m]]))
    /\ calls' = calls \cup {<<m>>}
    /\ UNCHANGED <<buffers, counts, timer, queries, lost>>

StartBuffer(m) ==
    /\ Arrives(m)
    /\ m \notin Plain
    /\ buffers[KeyOf[m]] = <<>>
    /\ ~NoRoom(ScopeOf[KeyOf[m]])
    /\ buffers' = [buffers EXCEPT ![KeyOf[m]] = <<m>>]
    /\ counts' = [counts EXCEPT ![ScopeOf[KeyOf[m]]] = @ + 1]
    /\ timer' = [timer EXCEPT ![m] = "set"]
    /\ UNCHANGED <<calls, queries, lost>>

\* Mutant: whatever has the same key is merged.
JoinsAnyContext(m) ==
    /\ m \notin Plain
    /\ buffers[KeyOf[m]] # <<>>

Joins(m) ==
    /\ m \notin Plain
    /\ buffers[KeyOf[m]] # <<>>
    /\ ContextIn(KeyOf[m]) = ContextOf[m]

\* The bot was loaded with another context since the buffer was started.
RefuseContext(m) ==
    /\ Arrives(m)
    /\ m \notin Plain
    /\ buffers[KeyOf[m]] # <<>>
    /\ ContextIn(KeyOf[m]) # ContextOf[m]
    /\ lost' = lost \cup {m}
    /\ UNCHANGED <<buffers, counts, timer, calls, queries>>

\* Mutants: the timer of the message before is left running; none is started.
RestartedKeepingOld(m) == [timer EXCEPT ![m] = "set"]
RestartedForgotten(m) == [timer EXCEPT ![Latest(KeyOf[m])] = "cancelled"]

\* The timer of the message before is cancelled, if it still runs, and m starts one.
Restarted(m) ==
    [timer EXCEPT ![Latest(KeyOf[m])] = IF @ = "set" THEN "cancelled" ELSE @, ![m] = "set"]

AppendMessage(m) ==
    /\ Arrives(m)
    /\ Joins(m)
    /\ Len(buffers[KeyOf[m]]) + 1 < MaxMessages
    /\ buffers' = [buffers EXCEPT ![KeyOf[m]] = Append(@, m)]
    /\ timer' = Restarted(m)
    /\ UNCHANGED <<counts, calls, queries, lost>>

\* Mutant: the buffer stays where it is.
TakeACopy(k, batch) ==
    /\ UNCHANGED <<buffers, counts>>
    /\ calls' = calls \cup {batch}

\* _flush_buffer takes the buffer of k out; batch is what is in it by then.
Take(k, batch) ==
    /\ buffers' = [buffers EXCEPT ![k] = <<>>]
    /\ counts' = [counts EXCEPT ![ScopeOf[k]] = IF @ <= 1 THEN 0 ELSE @ - 1]
    /\ calls' = calls \cup {batch}

\* The buffer is full with m: no timer is started, and it is flushed.
AppendAndFlush(m) ==
    /\ Arrives(m)
    /\ Joins(m)
    /\ Len(buffers[KeyOf[m]]) + 1 >= MaxMessages
    /\ Take(KeyOf[m], Append(buffers[KeyOf[m]], m))
    /\ timer' = [Restarted(m) EXCEPT ![m] = "none"]
    /\ UNCHANGED <<queries, lost>>

-----------------------------------------------------------------------------
(* Timers and flushes *)

\* _delayed_flush after its delay: the buffer of its key is flushed, if there is
\* one and it has the context of the timer.
TimerFires(m) ==
    /\ timer[m] = "set"
    /\ timer' = [timer EXCEPT ![m] = "done"]
    /\ IF buffers[KeyOf[m]] # <<>> /\ ContextIn(KeyOf[m]) = ContextOf[m]
       THEN Take(KeyOf[m], buffers[KeyOf[m]])
       ELSE UNCHANGED <<buffers, counts, calls>>
    /\ UNCHANGED <<arrived, queries, lost>>

\* In cloud mode a unit of work is opened first.  When it cannot be, the error ends
\* the timer task, and the buffer stays.
TimerFails(m) ==
    /\ timer[m] = "set"
    /\ timer' = [timer EXCEPT ![m] = "failed"]
    /\ UNCHANGED <<arrived, buffers, counts, calls, queries, lost>>

\* add_query queues the query.
Enqueue(batch) ==
    /\ batch \in calls
    /\ calls' = calls \ {batch}
    /\ queries' = queries \cup {batch}
    /\ UNCHANGED <<arrived, buffers, counts, timer, lost>>

\* The binding is stale, or the pool is full: the call raises.
Fail(batch) ==
    /\ batch \in calls
    /\ calls' = calls \ {batch}
    /\ lost' = lost \cup ToSet(batch)
    /\ UNCHANGED <<arrived, buffers, counts, timer, queries>>

AddMessage(m) ==
    \/ Bypass(m) \/ StartBuffer(m) \/ RefuseContext(m)
    \/ AppendMessage(m) \/ AppendAndFlush(m)

Next ==
    \/ \E m \in Messages : AddMessage(m) \/ TimerFires(m) \/ TimerFails(m)
    \/ \E batch \in calls : Enqueue(batch) \/ Fail(batch)

Spec == Init /\ [][Next]_vars

\* The event loop runs timers and calls; a message need never arrive.
Fairness ==
    /\ \A m \in Messages : WF_vars(TimerFires(m))
    /\ WF_vars(\E batch \in calls : Enqueue(batch) \/ Fail(batch))

FairSpec == Spec /\ Fairness

-----------------------------------------------------------------------------
(* Properties *)

InBatches(B) == UNION {ToSet(batch) : batch \in B}
InBuffers == UNION {ToSet(buffers[k]) : k \in Keys}

\* The counters agree with the buffers, both limits hold, and a buffer holds fewer
\* messages than make it full.
CountsAgree ==
    /\ \A s \in Scopes : counts[s] = Cardinality(BufferedIn(s)) /\ counts[s] <= MaxPerScope
    /\ Cardinality(Buffered) <= MaxBuffers
    /\ \A k \in Keys : Len(buffers[k]) < MaxMessages

\* Whatever timers, restarts and forced flushes overlap, a message is in exactly
\* one place: it is neither put into two queries nor forgotten.
EachMessageOnce ==
    /\ arrived = InBuffers \cup InBatches(calls) \cup InBatches(queries) \cup lost
    /\ InBuffers \cap (InBatches(calls) \cup InBatches(queries) \cup lost) = {}
    /\ InBatches(calls) \cap (InBatches(queries) \cup lost) = {}
    /\ InBatches(queries) \cap lost = {}
    /\ \A b, d \in calls \cup queries : ToSet(b) \cap ToSet(d) # {} => b = d
    /\ \A b \in calls \cup queries : IsInjective(b)

\* What is merged into one query has one key and one context: messages never
\* cross workspaces, bots, conversations or generations.
OneConversation ==
    \A b \in calls \cup queries \cup {buffers[k] : k \in Keys} : \A m, n \in ToSet(b) :
        KeyOf[m] = KeyOf[n] /\ ContextOf[m] = ContextOf[n]

\* Only the latest message of a buffer has a running timer, and it has one unless
\* that timer failed: no buffer is left without a timer, and none that has been
\* superseded runs on to cut the delay of a later buffer short.
TimersMatchBuffers ==
    /\ {m \in Messages : timer[m] = "set"} \subseteq {Latest(k) : k \in Buffered}
    /\ \A k \in Buffered : timer[Latest(k)] \in {"set", "failed"}

Stranded == UNION {ToSet(buffers[k]) : k \in {l \in Buffered : timer[Latest(l)] = "failed"}}

\* Messages do not stay: again and again there is none in the aggregator, but for
\* those whose timer failed.
AggregatorDrains == []<>(arrived \subseteq InBatches(queries) \cup lost \cup Stranded)
=============================================================================
