------------------------- MODULE ConversationQueues -------------------------
(****************************************************************************)
(* What the scheduler promises the conversations that share it: each is     *)
(* served in the order of arrival by a limited number of requests at a      *)
(* time.  A request that waits either starts, when nothing of its           *)
(* conversation is before it and a slot is free, or is taken over by a run  *)
(* of a conversation whose slots are all taken, or is displaced by an       *)
(* arrival, after everything of its conversation that is before it.         *)
(****************************************************************************)
EXTENDS Naturals, FiniteSets

CONSTANTS
    Requests,
    ConversationOf,   \* the conversation of each request
    Slots             \* how many requests of a conversation may be served at once

VARIABLES
    waiting,   \* the requests that wait
    before,    \* the pairs of them that are of one conversation, the earlier one first
    served     \* the requests that have started and not finished

Peers(S, q) == {p \in S : ConversationOf[p] = ConversationOf[q]}

\* Those that stay keep their order.
Stay(S) == before \cap (S \X S)

Init == waiting = {} /\ before = {} /\ served = {}

\* An arrival displaces two requests at most: its workspace may be full, and the whole.
Displaceable(D) ==
    /\ D = {} \/ \E d, e \in waiting : D = {d, e}
    /\ \A p \in waiting, d \in D : <<p, d>> \in before => p \in D

Arrive(q, D) ==
    /\ q \notin waiting \cup served
    /\ Displaceable(D)
    /\ waiting' = (waiting \ D) \cup {q}
    /\ before' = Stay(waiting \ D) \cup (Peers(waiting \ D, q) \X {q})
    /\ UNCHANGED served

Leave(q) ==
    /\ q \in waiting
    /\ waiting' = waiting \ {q}
    /\ before' = Stay(waiting \ {q})

Start(q) ==
    /\ Leave(q)
    /\ \A p \in waiting : <<p, q>> \notin before
    /\ Cardinality(Peers(served, q)) < Slots
    /\ served' = served \cup {q}

TakeOver(q) ==
    /\ Leave(q)
    /\ Cardinality(Peers(served, q)) = Slots
    /\ UNCHANGED served

Finish(q) ==
    /\ q \in served
    /\ served' = served \ {q}
    /\ UNCHANGED <<waiting, before>>

Next ==
    \E q \in Requests :
        \/ \E D \in SUBSET waiting : Arrive(q, D)
        \/ Start(q) \/ TakeOver(q) \/ Finish(q)

Spec == Init /\ [][Next]_<<waiting, before, served>>
=============================================================================
