------------------------------ MODULE Steering ------------------------------
(****************************************************************************)
(* Follow-up messages of one conversation, which a run in progress may take *)
(* in instead of each starting a run of its own:                            *)
(* try_claim_steering_from_query of agent/runner/orchestrator.py with the   *)
(* queues of AgentRunSessionRegistry (session_registry.py), STEERING_PULL   *)
(* of plugin/agent_state_actions.py, and the two places that offer a        *)
(* message: the scan of pipeline/controller.py, while the session has no    *)
(* free slot, and the message's own handler (process/handlers/chat.py).     *)
(*                                                                          *)
(* An offer looks for the oldest run, awaits the resources of the message   *)
(* and only then enqueues it: the run may have ended and the queue may be   *)
(* full by then.  The scan holds the lock of the query pool throughout.     *)
(*                                                                          *)
(* Messages are numbered in the order of their arrival, and a run has the   *)
(* number of the message that started it; 0 is no run.                      *)
(****************************************************************************)
EXTENDS Integers, Sequences, FiniteSets

CONSTANTS
    MaxMessages,   \* bound on the messages of the conversation
    Slots,         \* concurrency of the session
    MaxQueue,      \* MAX_STEERING_QUEUE_ITEMS
    Steers         \* the pairs <<m, r>> of a message and a run that may take it in

Messages == 1..MaxMessages

ASSUME SteeringAssumption ==
    /\ MaxMessages \in Nat
    /\ Slots \in Nat \ {0}
    /\ MaxQueue \in Nat
    /\ Steers \subseteq Messages \X Messages

VARIABLES
    arrived,   \* how many messages have arrived
    stage,     \* how far each message is
    scan,      \* the message the scan is at; 0 when the pool is not locked
    awake,     \* the consumer has been notified since it last went to sleep
    target,    \* the run each message is being offered to
    owner,     \* the run that has claimed each message, as far as its offers tell
    live,      \* the runs in the registry
    began,     \* started_at, as the order in which the runs were registered
    births,    \* how many runs were registered
    queue,     \* the steering_queue of each run
    pending,   \* what a run that ended has left to audit
    claims,    \* the messages each run has claimed
    pulled,    \* the messages each run has pulled
    dropped,   \* the messages dropped with an audit
    lost       \* the messages dropped without one, when an audit failed

pool == <<arrived, scan, awake>>
registry == <<live, began, births>>
fates == <<queue, pending, claims, pulled, dropped, lost>>
vars == <<pool, stage, target, owner, registry, fates>>

Stages == {"away", "waiting", "offering", "starting", "active", "closing", "leaving", "gone"}

TypeOK ==
    /\ arrived \in 0..MaxMessages
    /\ stage \in [Messages -> Stages]
    /\ scan \in 0..MaxMessages
    /\ awake \in BOOLEAN
    /\ target \in [Messages -> 0..MaxMessages]
    /\ owner \in [Messages -> 0..MaxMessages]
    /\ live \subseteq Messages
    /\ began \in [Messages -> Nat]
    /\ births \in Nat
    /\ queue \in [Messages -> Seq(Messages)]
    /\ pending \in [Messages -> Seq(Messages)]
    /\ claims \in [Messages -> Seq(Messages)]
    /\ pulled \in [Messages -> Seq(Messages)]
    /\ dropped \in [Messages -> Seq(Messages)]
    /\ lost \in [Messages -> Seq(Messages)]

Init ==
    /\ arrived = 0
    /\ stage = [m \in Messages |-> "away"]
    /\ scan = 0
    /\ awake = FALSE
    /\ target = [m \in Messages |-> 0]
    /\ owner = [m \in Messages |-> 0]
    /\ live = {}
    /\ began = [m \in Messages |-> 0]
    /\ births = 0
    /\ queue = [m \in Messages |-> <<>>]
    /\ pending = [m \in Messages |-> <<>>]
    /\ claims = [m \in Messages |-> <<>>]
    /\ pulled = [m \in Messages |-> <<>>]
    /\ dropped = [m \in Messages |-> <<>>]
    /\ lost = [m \in Messages |-> <<>>]

Waiting == {m \in Messages : stage[m] = "waiting"}
Busy == {m \in Messages :
            stage[m] \in {"offering", "starting", "active", "closing", "leaving"}}
SlotFree == Cardinality(Busy) < Slots

Moves(m, from, to) == stage[m] = from /\ stage' = [stage EXCEPT ![m] = to]

-----------------------------------------------------------------------------
(* The pool and its consumer *)

\* add_query, with the lock of the pool.
Arrive ==
    /\ scan = 0
    /\ arrived < MaxMessages
    /\ arrived' = arrived + 1
    /\ stage' = [stage EXCEPT ![arrived + 1] = "waiting"]
    /\ awake' = TRUE
    /\ UNCHANGED <<scan, target, owner, registry, fates>>

\* The scan goes on with the first message after m, or sleeps.
ScansAfter(m) ==
    LET rest == {n \in Waiting : n > m}
    IN  \/ \E n \in rest : (\A k \in rest : n <= k) /\ scan' = n
        \/ rest = {} /\ scan' = 0

Wake ==
    /\ scan = 0 /\ awake
    /\ awake' = FALSE
    /\ ScansAfter(0)
    /\ UNCHANGED <<arrived, stage, target, owner, registry, fates>>

\* The consumer takes the message and scans again.
Select(m) ==
    /\ scan = m /\ SlotFree
    /\ Moves(m, "waiting", "offering")
    /\ scan' = 0
    /\ awake' = TRUE
    /\ UNCHANGED <<arrived, target, owner, registry, fates>>

\* Mutant: an offer whose event could not be logged counts as refused.
PassUnlogged(m) ==
    /\ scan = m /\ ~SlotFree
    /\ ScansAfter(m)
    /\ target' = [target EXCEPT ![m] = 0]
    /\ owner' = [owner EXCEPT ![m] = 0]
    /\ UNCHANGED <<arrived, awake, stage, registry, fates>>

\* No run takes the message, or the offer raises: the scan passes it.
Pass(m) ==
    /\ scan = m /\ ~SlotFree
    /\ owner[m] = 0
    /\ ScansAfter(m)
    /\ target' = [target EXCEPT ![m] = 0]
    /\ UNCHANGED <<arrived, awake, stage, owner, registry, fates>>

\* The message was claimed and logged: it leaves the pool.
Absorb(m) ==
    /\ scan = m /\ owner[m] # 0
    /\ Moves(m, "waiting", "gone")
    /\ scan' = 0
    /\ awake' = TRUE
    /\ UNCHANGED <<arrived, target, owner, registry, fates>>

-----------------------------------------------------------------------------
(* Offers: by the scan or by the handler of the message *)

Offered(m) == (scan = m /\ ~SlotFree) \/ stage[m] = "offering"

\* find_steering_target: the runs of the message's own runner that may pull.  The answer to
\* an interaction, and a message whose runner takes no steering, are not offered to any.
Candidates(m) == {r \in live : <<m, r>> \in Steers}

Oldest(m, r) == r \in Candidates(m) /\ \A s \in Candidates(m) : began[r] <= began[s]

Find(m) ==
    /\ Offered(m)
    /\ target[m] = 0 /\ owner[m] = 0
    /\ \E r \in Messages : Oldest(m, r) /\ target' = [target EXCEPT ![m] = r]
    /\ UNCHANGED <<pool, stage, owner, registry, fates>>

\* Mutants: the run is not looked up again; the bound leaves room for one too many.
AcceptsStale(r) == r # 0 /\ Len(queue[r]) < MaxQueue
AcceptsOneMore(r) == r \in live /\ Len(queue[r]) <= MaxQueue

Accepts(r) == r \in live /\ Len(queue[r]) < MaxQueue

\* enqueue_steering
Enqueue(m) ==
    /\ Offered(m)
    /\ owner[m] = 0
    /\ Accepts(target[m])
    /\ LET r == target[m]
       IN  /\ queue' = [queue EXCEPT ![r] = Append(@, m)]
           /\ claims' = [claims EXCEPT ![r] = Append(@, m)]
           /\ owner' = [owner EXCEPT ![m] = r]
    /\ UNCHANGED <<pool, stage, target, registry, pending, pulled, dropped, lost>>

\* The handler of a claimed message ends; so does one that fails or is told to stop.
Interrupt(m) ==
    /\ Moves(m, "offering", "leaving")
    /\ UNCHANGED <<pool, target, owner, registry, fates>>

\* No run takes the message: it starts its own.
Start(m) ==
    /\ owner[m] = 0
    /\ IF target[m] = 0 THEN Candidates(m) = {} ELSE ~Accepts(target[m])
    /\ Moves(m, "offering", "starting")
    /\ UNCHANGED <<pool, target, owner, registry, fates>>

-----------------------------------------------------------------------------
(* Runs *)

Register(m) ==
    /\ Moves(m, "starting", "active")
    /\ live' = live \cup {m}
    /\ births' = births + 1
    /\ began' = [began EXCEPT ![m] = births + 1]
    /\ UNCHANGED <<pool, target, owner, fates>>

\* The run fails before it is registered.
Fail(m) ==
    /\ Moves(m, "starting", "leaving")
    /\ UNCHANGED <<pool, target, owner, registry, fates>>

\* Mutant: the latest items are returned first.
PullNewest(r) ==
    /\ r \in live
    /\ \E n \in 1..Len(queue[r]) :
          /\ pulled' = [pulled EXCEPT ![r] =
                           @ \o SubSeq(queue[r], Len(queue[r]) - n + 1, Len(queue[r]))]
          /\ queue' = [queue EXCEPT ![r] = SubSeq(@, 1, Len(@) - n)]
    /\ UNCHANGED <<pool, stage, target, owner, registry, pending, claims, dropped, lost>>

\* pull_steering: one item, as many as the limit says, or all.
Pull(r) ==
    /\ r \in live
    /\ \E n \in 1..Len(queue[r]) :
          /\ pulled' = [pulled EXCEPT ![r] = @ \o SubSeq(queue[r], 1, n)]
          /\ queue' = [queue EXCEPT ![r] = SubSeq(@, n + 1, Len(@))]
    /\ UNCHANGED <<pool, stage, target, owner, registry, pending, claims, dropped, lost>>

\* The run is over and leaves the registry with its queue.
Unregister(r) ==
    /\ Moves(r, "active", "closing")
    /\ live' = live \ {r}
    /\ pending' = [pending EXCEPT ![r] = queue[r]]
    /\ queue' = [queue EXCEPT ![r] = <<>>]
    /\ UNCHANGED <<pool, target, owner, began, births, claims, pulled, dropped, lost>>

\* write_steering_dropped_audits, item by item; a failure ends it.
Audit(r) ==
    /\ stage[r] = "closing"
    /\ pending[r] # <<>>
    /\ \/ /\ dropped' = [dropped EXCEPT ![r] = Append(@, Head(pending[r]))]
          /\ pending' = [pending EXCEPT ![r] = Tail(@)]
          /\ UNCHANGED lost
       \/ /\ lost' = [lost EXCEPT ![r] = pending[r]]
          /\ pending' = [pending EXCEPT ![r] = <<>>]
          /\ UNCHANGED dropped
    /\ UNCHANGED <<pool, stage, target, owner, registry, queue, claims, pulled>>

Close(r) ==
    /\ pending[r] = <<>>
    /\ Moves(r, "closing", "leaving")
    /\ UNCHANGED <<pool, target, owner, registry, fates>>

\* Mutant: the consumer is not told of the free slot.
ReleaseQuietly(m) ==
    /\ scan = 0
    /\ Moves(m, "leaving", "gone")
    /\ UNCHANGED <<pool, target, owner, registry, fates>>

\* The finally branch of _process_query, with the lock of the pool.
Release(m) ==
    /\ scan = 0
    /\ Moves(m, "leaving", "gone")
    /\ awake' = TRUE
    /\ UNCHANGED <<arrived, scan, target, owner, registry, fates>>

\* What the event loop does by itself: the consumer, the handler of m, the run m.
Consume(m) == Select(m) \/ Pass(m) \/ Absorb(m)
Process(m) == Find(m) \/ Enqueue(m) \/ Interrupt(m) \/ Start(m) \/ Register(m) \/ Fail(m)
Finish(r)  == Unregister(r) \/ Audit(r) \/ Close(r)

Next ==
    \/ Arrive
    \/ Wake
    \/ \E m \in Messages : Consume(m) \/ Process(m) \/ Pull(m) \/ Finish(m) \/ Release(m)

Spec == Init /\ [][Next]_vars

\* The event loop and the lock of the pool are fair, and runs end.
FairSpec ==
    /\ Spec
    /\ WF_vars(Wake)
    /\ \A m \in Messages : /\ WF_vars(Consume(m)) /\ WF_vars(Process(m))
                           /\ WF_vars(Finish(m)) /\ SF_vars(Release(m))

-----------------------------------------------------------------------------
(* Properties *)

Occurrences(s, m) == {i \in 1..Len(s) : s[i] = m}

\* A message has one fate: the run that claimed it has claimed it once, no other run has,
\* and it starts no run of its own.
OneFate ==
    \A m \in Messages :
        /\ \A r \in Messages : \A i, j \in Occurrences(claims[r], m) : r = owner[m] /\ i = j
        /\ owner[m] # 0 => stage[m] \notin {"starting", "active", "closing"}

\* Only a run in the registry has a queue: no message waits for a run that has ended.
QueueOfLiveRun == \A r \in Messages : queue[r] # <<>> => r \in live /\ stage[r] = "active"

\* "All pending steering input in the order of the claims": what a run has claimed is what
\* it pulled, and then what is left of it when it ends, in this order.
ClaimOrder ==
    \A r \in Messages :
        claims[r] = pulled[r] \o dropped[r] \o queue[r] \o pending[r] \o lost[r]

\* The queue of a run is bounded, however many offers overlap.
QueueBounded == \A r \in Messages : Len(queue[r]) <= MaxQueue

Contains(s, m) == \E i \in 1..Len(s) : s[i] = m

\* A message has been handed to a run, dropped with its run, or has had its turn.
Settled(m) ==
    IF owner[m] = 0 THEN stage[m] = "gone"
    ELSE \E s \in {pulled[owner[m]], dropped[owner[m]], lost[owner[m]]} : Contains(s, m)

\* Every message that arrives is settled in the end.
EveryMessageSettles == \A m \in Messages : stage[m] # "away" ~> Settled(m)
=============================================================================
