----------------------------- MODULE RunLedger -----------------------------
(****************************************************************************)
(* The run ledger of the agent host: class RunLedgerStore of                *)
(* agent/runner/run_ledger_store.py and its rows AgentRun.  Runtimes claim  *)
(* queued runs under a lease, renew and release the claim, and finalize the *)
(* run; the host requeues runs whose lease has expired.                     *)
(*                                                                          *)
(* Every call reads the clock, then selects rows, then decides on what it   *)
(* read and commits the columns it changed.  Calls of several tasks overlap *)
(* between these steps, so a commit may act on a row that has changed since *)
(* it was read.  claim_next_run selects FOR UPDATE SKIP LOCKED, which locks *)
(* the row on PostgreSQL and means nothing on SQLite.                       *)
(****************************************************************************)
EXTENDS Integers, Sequences, FiniteSets

CONSTANTS
    Runs,         \* run_id
    Runtimes,     \* runtime_id
    Calls,        \* calls that may overlap
    Rank,         \* the order of the runs by priority, then id
    Eligible,     \* the runtimes that may claim each run (requests and filters)
    NewStatuses,  \* the statuses callers release and finalize runs with
    Lease,        \* lease_seconds
    RowLocks,     \* whether the database honours FOR UPDATE
    MaxTime,      \* bound on the clock
    MaxClaims,    \* bound on the claims granted
    NoRuntime

\* "running" stands for created too, "failed" for cancelled and timeout too;
\* "absent" is a run that has no row yet.
Terminal == {"completed", "failed"}
Statuses == {"absent", "queued", "claimed", "running"} \cup Terminal

ASSUME LedgerAssumption ==
    /\ Runs # {}
    /\ Rank \in [Runs -> Nat]
    /\ Eligible \in [Runs -> SUBSET Runtimes]
    /\ NewStatuses \subseteq Statuses \ {"absent"}
    /\ Lease \in Nat \ {0}
    /\ RowLocks \in BOOLEAN
    /\ MaxTime \in Nat
    /\ MaxClaims \in Nat
    /\ NoRuntime \notin Runtimes

VARIABLES
    run,      \* the rows of AgentRun
    call,     \* the calls in progress
    grants,   \* the claims granted, by token: for which run, until when
    now       \* the clock

vars == <<run, call, grants, now>>

\* A token is the number of its grant; 0 stands for NULL.
Tokens == 0..MaxClaims
Times  == 0..(MaxTime + Lease)

Rows == [status   : Statuses,
         owner    : Runtimes \cup {NoRuntime},   \* claimed_by_runtime_id
         token    : Tokens,                      \* claim_token
         expires  : Times,                       \* claim_lease_expires_at
         attempts : Nat,                         \* dispatch_attempts
         finished : BOOLEAN]                     \* finished_at is set

\* What a runtime was told when its claim was granted and renewed, and a history of what
\* it was not told: the run went back to the queue under its lease.
Grants == [run : Runs, runtime : Runtimes, until : Times, requeued : BOOLEAN]

NoRow == [status |-> "absent", owner |-> NoRuntime, token |-> 0, expires |-> 0,
          attempts |-> 0, finished |-> FALSE]

Ops == {"none", "claim", "renew", "release", "expire", "finalize"}

\* What a call was asked, its clock, and the rows it has selected, as it read them.
CallStates == [op : Ops, read : BOOLEAN, run : Runs, token : Tokens,
               runtime : Runtimes \cup {NoRuntime}, status : Statuses,
               time : 0..MaxTime, selected : SUBSET Runs, rows : [Runs -> Rows]]

Idle == [op |-> "none", read |-> FALSE, run |-> CHOOSE r \in Runs : TRUE, token |-> 0,
         runtime |-> NoRuntime, status |-> "queued", time |-> 0,
         selected |-> {}, rows |-> [r \in Runs |-> NoRow]]

TypeOK ==
    /\ run \in [Runs -> Rows]
    /\ now \in 0..MaxTime
    /\ grants \in Seq(Grants)
    /\ Len(grants) <= MaxClaims
    /\ call \in [Calls -> CallStates]
    /\ \A c \in Calls : call[c].time <= now

Init ==
    /\ run = [r \in Runs |-> NoRow]
    /\ call = [c \in Calls |-> Idle]
    /\ grants = <<>>
    /\ now = 0

Tick ==
    /\ now < MaxTime
    /\ now' = now + 1
    /\ UNCHANGED <<run, call, grants>>

\* create_run, by the orchestrator (running) or a producer (queued).
CreateRun(r, status) ==
    /\ run[r].status = "absent"
    /\ run' = [run EXCEPT ![r].status = status]
    /\ UNCHANGED <<call, grants, now>>

-----------------------------------------------------------------------------
(* Calls *)

Ask(c, request) ==
    /\ call[c].op = "none"
    /\ call' = [call EXCEPT ![c] = [request EXCEPT !.time = now]]
    /\ UNCHANGED <<run, grants, now>>

AskClaim(c, w) == Ask(c, [Idle EXCEPT !.op = "claim", !.runtime = w])
AskExpire(c)   == Ask(c, [Idle EXCEPT !.op = "expire"])

\* A runtime names the run, the token and itself as the claim told it.
Holding(k) == [Idle EXCEPT !.run = grants[k].run, !.runtime = grants[k].runtime, !.token = k]

AskRenew(c, k) == Ask(c, [Holding(k) EXCEPT !.op = "renew"])
AskRelease(c, k, status) == Ask(c, [Holding(k) EXCEPT !.op = "release", !.status = status])

AskFinalize(c, r, status) ==
    /\ run[r].status # "absent"
    /\ Ask(c, [Idle EXCEPT !.op = "finalize", !.run = r, !.status = status])

\* The call selects the rows R, or ends without having changed anything.
Asked(c, op) == call[c].op = op /\ ~call[c].read

Selects(c, R) ==
    /\ call' = [call EXCEPT ![c].read = TRUE, ![c].selected = R,
                            ![c].rows = [r \in Runs |-> IF r \in R THEN run[r] ELSE NoRow]]
    /\ UNCHANGED <<run, grants, now>>

Refused(c) ==
    /\ call' = [call EXCEPT ![c] = Idle]
    /\ UNCHANGED <<run, grants, now>>

\* Rows that a claim has selected and not committed are locked.
Locked(r) ==
    /\ RowLocks
    /\ \E c \in Calls : call[c].op = "claim" /\ call[c].read /\ r \in call[c].selected

Expired(row, t) == row.status = "claimed" /\ row.expires # 0 /\ row.expires <= t

\* Mutant: a lease that is about to expire is taken over.
ClaimableEarly(r, w, t) ==
    /\ run[r].status = "queued" \/ Expired(run[r], t + 1)
    /\ w \in Eligible[r]
    /\ ~Locked(r)

Claimable(r, w, t) ==
    /\ run[r].status = "queued" \/ Expired(run[r], t)
    /\ w \in Eligible[r]
    /\ ~Locked(r)

ReadClaim(c) ==
    LET open == {r \in Runs : Claimable(r, call[c].runtime, call[c].time)}
    IN  /\ Asked(c, "claim")
        /\ \/ \E r \in open : /\ \A s \in open : Rank[r] <= Rank[s]
                              /\ Selects(c, {r})
           \/ open = {} /\ Refused(c)

\* Mutant: any token will do.
ActiveForAnyToken(row, c) ==
    /\ row.status = "claimed"
    /\ row.owner = call[c].runtime
    /\ row.expires > call[c].time

\* _claim_is_active
ClaimIsActive(row, c) ==
    /\ row.status = "claimed"
    /\ row.token = call[c].token
    /\ row.owner = call[c].runtime
    /\ row.expires > call[c].time

ReadClaimed(c) ==
    /\ Asked(c, "renew") \/ Asked(c, "release")
    /\ IF ClaimIsActive(run[call[c].run], c) THEN Selects(c, {call[c].run}) ELSE Refused(c)

ReadExpired(c) ==
    /\ Asked(c, "expire")
    /\ Selects(c, {r \in Runs : Expired(run[r], call[c].time)})

\* Mutant: terminal runs are not protected.
ReadFinalizingAnything(c) ==
    /\ Asked(c, "finalize")
    /\ Selects(c, {call[c].run})

ReadFinalizing(c) ==
    /\ Asked(c, "finalize")
    /\ LET status == run[call[c].run].status
       IN  IF status \in Terminal /\ status # call[c].status
           THEN Refused(c)
           ELSE Selects(c, {call[c].run})

-----------------------------------------------------------------------------
(* Commits *)

\* The grants of a run whose holders have been told that they hold it now.
LiveOf(r) == {k \in DOMAIN grants : grants[k].run = r /\ grants[k].until > now}

Claimed(row, c, token) ==
    [row EXCEPT !.status = "claimed", !.owner = call[c].runtime, !.token = token,
                !.expires = call[c].time + Lease, !.attempts = @ + 1]

Renewed(row, c) == [row EXCEPT !.expires = call[c].time + Lease]

\* Mutants: the attempts start again; the time of the end is not recorded.
ReleasedAfresh(row, status) ==
    [row EXCEPT !.status = status, !.owner = NoRuntime, !.token = 0, !.expires = 0,
                !.attempts = 0, !.finished = @ \/ status \in Terminal]
ReleasedUnstamped(row, status) ==
    [row EXCEPT !.status = status, !.owner = NoRuntime, !.token = 0, !.expires = 0]

Released(row, status) ==
    [row EXCEPT !.status = status, !.owner = NoRuntime, !.token = 0, !.expires = 0,
                !.finished = @ \/ status \in Terminal]

Finalized(row, status) ==
    IF status \in Terminal THEN Released(row, status) ELSE [row EXCEPT !.status = status]

\* Only the columns the call has changed are written, over the row as it is now.
Written(old, new, row) ==
    [col \in DOMAIN row |-> IF new[col] = old[col] THEN row[col] ELSE new[col]]

Reading(c, op) == call[c].op = op /\ call[c].read

\* The update of a row that a claim has locked waits for the claim to commit.
Commits(c, New(_)) ==
    /\ call[c].op # "claim" => \A r \in call[c].selected : ~Locked(r)
    /\ run' = [r \in Runs |->
                  IF r \in call[c].selected
                  THEN Written(call[c].rows[r], New(call[c].rows[r]), run[r])
                  ELSE run[r]]
    /\ call' = [call EXCEPT ![c] = Idle]
    /\ UNCHANGED now

CommitClaim(c) ==
    /\ Reading(c, "claim")
    /\ Len(grants) < MaxClaims
    /\ LET token == Len(grants) + 1
       IN  /\ Commits(c, LAMBDA row : Claimed(row, c, token))
           /\ \E r \in call[c].selected :
                 grants' = Append(grants, [run |-> r, runtime |-> call[c].runtime,
                                           until |-> call[c].time + Lease, requeued |-> FALSE])

CommitRenew(c) ==
    /\ Reading(c, "renew")
    /\ Commits(c, LAMBDA row : Renewed(row, c))
    /\ grants' = [grants EXCEPT ![call[c].token].until = call[c].time + Lease]

CommitRelease(c) ==
    /\ Reading(c, "release")
    /\ Commits(c, LAMBDA row : Released(row, call[c].status))
    /\ grants' = [grants EXCEPT ![call[c].token].until = 0]

CommitExpire(c) ==
    /\ Reading(c, "expire")
    /\ Commits(c, LAMBDA row : Released(row, "queued"))
    /\ UNCHANGED grants

\* Nobody tells the runtime that holds the run.  A status that is not an end keeps its
\* token and its lease in the row: "queued" offers the run again while it still has it.
CommitFinalize(c) ==
    /\ Reading(c, "finalize")
    /\ Commits(c, LAMBDA row : Finalized(row, call[c].status))
    /\ grants' = IF call[c].status = "queued"
                 THEN [k \in DOMAIN grants |->
                          [grants[k] EXCEPT !.requeued = @ \/ k \in LiveOf(call[c].run)]]
                 ELSE grants

Step(c) ==
    \/ \E w \in Runtimes : AskClaim(c, w)
    \/ AskExpire(c)
    \/ \E k \in DOMAIN grants : AskRenew(c, k)
    \/ \E k \in DOMAIN grants, s \in NewStatuses : AskRelease(c, k, s)
    \/ \E r \in Runs, s \in NewStatuses : AskFinalize(c, r, s)
    \/ ReadClaim(c) \/ ReadClaimed(c) \/ ReadExpired(c) \/ ReadFinalizing(c)
    \/ CommitClaim(c) \/ CommitRenew(c) \/ CommitRelease(c) \/ CommitExpire(c)
    \/ CommitFinalize(c)

Next ==
    \/ Tick
    \/ \E r \in Runs, s \in {"queued", "running"} : CreateRun(r, s)
    \/ \E c \in Calls : Step(c)

Spec == Init /\ [][Next]_vars

-----------------------------------------------------------------------------
(* Properties *)

\* A run that has ended stays as it ended (the ValueError of finalize_run).
TerminalIsFinal ==
    [][\A r \in Runs : run[r].status \in Terminal => run'[r].status = run[r].status]_vars

\* A run carries the time of its end exactly when it has ended.
EndIsStamped == \A r \in Runs : run[r].finished <=> run[r].status \in Terminal

\* No two runtimes have been told that they hold the same run now, unless a
\* finalization put the run back in the queue under the lease of the first.
LeaseExclusive ==
    \A r \in Runs : \A j, k \in LiveOf(r) : j < k => grants[j].requeued

\* A renewal or a release changes no row but that of its own claim: one whose token
\* has been superseded meanwhile leaves the newer claim alone.
StaleTokenInert ==
    [][\A c \in Calls :
          /\ call[c].op \in {"renew", "release"} /\ call[c].read /\ call'[c].op = "none"
          => \A r \in Runs : run'[r] # run[r] => run[r].token = call[c].token]_vars

\* dispatch_attempts is the number of times the run has been claimed (the comment
\* of the column): no claim is granted without being counted.
AttemptsCountClaims ==
    \A r \in Runs :
        run[r].attempts = Cardinality({k \in DOMAIN grants : grants[k].run = r})

\* How a run has ended.
Fate(r) == IF run[r].status \in Terminal THEN run[r].status ELSE "open"

Leases == INSTANCE RunLeases WITH
    Ends <- Terminal, issued <- Len(grants),
    fate <- [r \in Runs |-> Fate(r)], token <- [r \in Runs |-> run[r].token],
    live <- [r \in Runs |-> LiveOf(r)],
    recalled <- {k \in DOMAIN grants : grants[k].requeued}

\* Rows, clock and answers together lease the runs as RunLeases says: one holder at a
\* time but for recalled ones, under tokens that are never used again, and no run
\* returns from its end.
ImplementsLeases == Leases!Spec
=============================================================================
