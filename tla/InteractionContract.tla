------------------------ MODULE InteractionContract ------------------------
(****************************************************************************)
(* What the host promises about an interaction that a runner requests: it   *)
(* opens at most once, and is then either answered, by one submission, or   *)
(* closed; neither is ever taken back.                                      *)
(****************************************************************************)
EXTENDS Naturals

CONSTANT Interactions

VARIABLES
    state,     \* of each interaction
    answers    \* how many submissions of each were accepted

Init ==
    /\ state = [i \in Interactions |-> "unasked"]
    /\ answers = [i \in Interactions |-> 0]

Open(i) ==
    /\ state[i] = "unasked"
    /\ state' = [state EXCEPT ![i] = "open"]
    /\ UNCHANGED answers

Answer(i) ==
    /\ state[i] = "open"
    /\ state' = [state EXCEPT ![i] = "answered"]
    /\ answers' = [answers EXCEPT ![i] = @ + 1]

Close(i) ==
    /\ state[i] = "open"
    /\ state' = [state EXCEPT ![i] = "closed"]
    /\ UNCHANGED answers

Next == \E i \in Interactions : Open(i) \/ Answer(i) \/ Close(i)

Spec == Init /\ [][Next]_<<state, answers>>
=============================================================================
