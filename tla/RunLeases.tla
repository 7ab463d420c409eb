----------------------------- MODULE RunLeases -----------------------------
(****************************************************************************)
(* What the ledger promises the runtimes that share its runs: a run is      *)
(* granted, under a token that was never used before, only while it has not *)
(* ended and nobody holds it whose grant was not recalled; a grant may      *)
(* lapse at any time and be renewed, but not once the token was superseded, *)
(* given back or reclaimed; and an end is final.  A holder is not told that *)
(* its grant was recalled, nor that the run has ended.                      *)
(****************************************************************************)
EXTENDS Naturals

CONSTANTS
    Runs,
    Ends       \* the ways a run may end

VARIABLES
    fate,      \* of each run: "open", or how it has ended
    token,     \* of each run: the token it goes by, 0 if there is none
    live,      \* of each run: the tokens whose holders take it for theirs
    recalled,  \* the tokens under which a run was offered again
    issued     \* how many tokens were granted

vars == <<fate, token, live, recalled, issued>>

Init ==
    /\ fate = [r \in Runs |-> "open"]
    /\ token = [r \in Runs |-> 0]
    /\ live = [r \in Runs |-> {}]
    /\ recalled = {}
    /\ issued = 0

\* A grant or a renewal may reach its runtime when its time is over.
Holds(r, k) == \E L \in SUBSET {k} : live' = [live EXCEPT ![r] = (@ \ {k}) \cup L]

Grant(r) ==
    /\ fate[r] = "open" /\ live[r] \subseteq recalled
    /\ issued' = issued + 1
    /\ token' = [token EXCEPT ![r] = issued']
    /\ Holds(r, issued')
    /\ UNCHANGED <<fate, recalled>>

Renew(r) ==
    /\ token[r] # 0
    /\ Holds(r, token[r])
    /\ UNCHANGED <<fate, token, recalled, issued>>

\* Time is over for the holders of the tokens K.
Lapse(K) ==
    /\ live' = [r \in Runs |-> live[r] \ K]
    /\ UNCHANGED <<fate, token, recalled, issued>>

\* The holder gives the run back.
GiveBack(r) ==
    /\ token[r] # 0
    /\ token' = [token EXCEPT ![r] = 0]
    /\ live' = [live EXCEPT ![r] = @ \ {token[r]}]
    /\ UNCHANGED <<fate, recalled, issued>>

\* The host takes back runs that nobody holds any more.
Reclaim(R) ==
    /\ \A r \in R : live[r] \subseteq recalled
    /\ token' = [r \in Runs |-> IF r \in R THEN 0 ELSE token[r]]
    /\ UNCHANGED <<fate, live, recalled, issued>>

\* The host offers the run again under those who hold it.
Recall(r) ==
    /\ fate[r] = "open"
    /\ recalled' = recalled \cup live[r]
    /\ UNCHANGED <<fate, token, live, issued>>

\* The holder ends the run, or somebody else does.
End(r, how) ==
    /\ fate[r] \in {"open", how}
    /\ fate' = [fate EXCEPT ![r] = how]
    /\ token' = [token EXCEPT ![r] = 0]
    /\ \E K \in {{}, {token[r]}} : live' = [live EXCEPT ![r] = @ \ K]
    /\ UNCHANGED <<recalled, issued>>

Next ==
    \/ \E r \in Runs : \/ Grant(r) \/ Renew(r) \/ GiveBack(r) \/ Recall(r)
                       \/ \E how \in Ends : End(r, how)
    \/ \E R \in SUBSET Runs : Reclaim(R)
    \/ \E K \in SUBSET (1..issued) : Lapse(K)

Spec == Init /\ [][Next]_vars
=============================================================================
