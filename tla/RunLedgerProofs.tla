--------------------------- MODULE RunLedgerProofs ---------------------------
(****************************************************************************)
(* What the run ledger keeps, for every number of runs, runtimes and calls. *)
(*                                                                          *)
(* The types hold without condition.  The count of attempts is right when   *)
(* the database locks the selected row, or when calls do not overlap: the   *)
(* invariant CountInv says that a claim between its select and its commit   *)
(* is alone on its row and has read its count.  The other promises hold     *)
(* when calls do not overlap (OneCall): the invariant SerialInv says that   *)
(* what a call has read is still so when it commits (ReadIsCurrent), and    *)
(* that a lease that has not ended is the claim of its run unless the run   *)
(* was put back in the queue under it; with it the ledger implements        *)
(* RunLeases.  Row locks alone, with any calls at once, are enough for      *)
(* claims to take free runs only (LockInv).  The runs that let calls        *)
(* overlap show how each promise fails without that.                        *)
(****************************************************************************)
EXTENDS RunLedger, FiniteSetTheorems, SequenceTheorems, TLAPS

USE LedgerAssumption

-----------------------------------------------------------------------------
(* Types *)

\* What the operations make of a row of the table.
LEMMA RowTypes ==
    ASSUME NEW row \in Rows, NEW c, call[c].time \in 0..MaxTime,
           call[c].runtime \in Runtimes \cup {NoRuntime},
           NEW status \in Statuses, NEW token \in Tokens
    PROVE  /\ Claimed(row, c, token) \in Rows
           /\ Renewed(row, c) \in Rows
           /\ Released(row, status) \in Rows
           /\ Finalized(row, status) \in Rows
<1>1. call[c].time + Lease \in Times /\ 0 \in Times /\ 0 \in Tokens
  BY DEF Times, Tokens
<1>2. "claimed" \in Statuses
  BY DEF Statuses
<1>3. Claimed(row, c, token) \in Rows
  <2>1. row.attempts \in Nat
    BY DEF Rows
  <2>2. row.attempts + 1 \in Nat
    BY <2>1
  <2> QED BY <1>1, <1>2, <2>2 DEF Claimed, Rows
<1>4. Renewed(row, c) \in Rows
  BY <1>1 DEF Renewed, Rows
<1>5. Released(row, status) \in Rows
  BY <1>1 DEF Released, Rows
<1>6. Finalized(row, status) \in Rows
  BY <1>5 DEF Finalized, Rows
<1> QED BY <1>3, <1>4, <1>5, <1>6

\* Writing the changed columns yields a row, column by column.
LEMMA WrittenTypes ==
    ASSUME NEW old \in Rows, NEW new \in Rows, NEW row \in Rows
    PROVE  /\ Written(old, new, row) \in Rows
           /\ Written(old, new, row).attempts =
                 IF new.attempts = old.attempts THEN row.attempts ELSE new.attempts
           /\ old = row => Written(old, new, row) = new
<1> DEFINE cols == {"status", "owner", "token", "expires", "attempts", "finished"}
<1>1. DOMAIN row = cols /\ DOMAIN new = cols /\ DOMAIN old = cols
  BY DEF Rows
<1>2. Written(old, new, row) =
        [status   |-> IF new.status = old.status THEN row.status ELSE new.status,
         owner    |-> IF new.owner = old.owner THEN row.owner ELSE new.owner,
         token    |-> IF new.token = old.token THEN row.token ELSE new.token,
         expires  |-> IF new.expires = old.expires THEN row.expires ELSE new.expires,
         attempts |-> IF new.attempts = old.attempts THEN row.attempts ELSE new.attempts,
         finished |-> IF new.finished = old.finished THEN row.finished ELSE new.finished]
  BY <1>1 DEF Written
<1>3. Written(old, new, row) \in Rows
  BY <1>2 DEF Rows
<1>4. old = row => Written(old, new, row) = new
  BY <1>2 DEF Rows
<1> QED BY <1>2, <1>3, <1>4

\* The elements of a sequence, and a sequence made of elements.
LEMMA SeqElements ==
    ASSUME NEW S, NEW s \in Seq(S)
    PROVE  /\ Len(s) \in Nat /\ DOMAIN s = 1..Len(s)
           /\ \A k \in 1..Len(s) : s[k] \in S
BY ElementOfSeq

\* A function over 1..n with values in S is a sequence over S.
LEMMA SeqOfElements ==
    ASSUME NEW S, NEW n \in Nat, NEW f, f = [k \in 1..n |-> f[k]],
           \A k \in 1..n : f[k] \in S
    PROVE  f \in Seq(S) /\ Len(f) = n
<1>1. f \in [1..n -> S]
  OBVIOUS
<1> QED BY <1>1, IsASeq

\* The grants when the end of one of them moves.
LEMMA GrantTypes ==
    ASSUME TypeOK, NEW k, NEW until \in Times
    PROVE  /\ [grants EXCEPT ![k].until = until] \in Seq(Grants)
           /\ Len([grants EXCEPT ![k].until = until]) = Len(grants)
<1> DEFINE g == [grants EXCEPT ![k].until = until]
<1>1. /\ Len(grants) \in Nat /\ DOMAIN grants = 1..Len(grants)
      /\ \A j \in 1..Len(grants) : grants[j] \in Grants
  BY SeqElements DEF TypeOK
<1>2. \A j \in 1..Len(grants) : g[j] \in Grants
  BY <1>1 DEF Grants
<1>3. g = [j \in 1..Len(grants) |-> g[j]]
  BY <1>1
<1>4. g \in Seq(Grants) /\ Len(g) = Len(grants)
  <2> HIDE DEF g
  <2> QED BY <1>1, <1>2, <1>3, SeqOfElements
<1> QED BY <1>4

\* The grants of a ledger with its types.
LEMMA GrantFacts ==
    ASSUME TypeOK
    PROVE  /\ Len(grants) \in Nat /\ DOMAIN grants = 1..Len(grants)
           /\ DOMAIN grants \subseteq Nat \ {0}
           /\ \A k \in DOMAIN grants :
                 grants[k] \in Grants /\ grants[k].run \in Runs /\ grants[k].until \in Nat
<1>1. /\ Len(grants) \in Nat /\ DOMAIN grants = 1..Len(grants)
      /\ \A k \in 1..Len(grants) : grants[k] \in Grants
  BY SeqElements DEF TypeOK
<1>2. \A g \in Grants : g.run \in Runs /\ g.until \in Nat
  BY DEF Grants, Times
<1> QED BY <1>1, <1>2

\* A finalization marks the grants it calls back, and moves none.
LEMMA FinalizeGrants ==
    ASSUME TypeOK, NEW c, CommitFinalize(c)
    PROVE  /\ grants' \in Seq(Grants)
           /\ Len(grants') = Len(grants) /\ DOMAIN grants' = DOMAIN grants
           /\ \A k \in DOMAIN grants :
                 /\ grants'[k].run = grants[k].run /\ grants'[k].until = grants[k].until
                 /\ grants'[k].requeued <=>
                       \/ grants[k].requeued
                       \/ call[c].status = "queued" /\ k \in LiveOf(call[c].run)
<1>1. /\ Len(grants) \in Nat /\ DOMAIN grants = 1..Len(grants)
      /\ \A k \in 1..Len(grants) : grants[k] \in Grants
  BY SeqElements DEF TypeOK
<1>2. CASE call[c].status # "queued"
  BY <1>2, <1>1 DEF CommitFinalize, TypeOK
<1>3. CASE call[c].status = "queued"
  <2>1. grants' = [k \in 1..Len(grants) |->
                      [grants[k] EXCEPT !.requeued = @ \/ k \in LiveOf(call[c].run)]]
    BY <1>1, <1>3 DEF CommitFinalize
  <2>2. ASSUME NEW k \in 1..Len(grants)
        PROVE  /\ grants'[k] \in Grants
               /\ grants'[k].run = grants[k].run /\ grants'[k].until = grants[k].until
               /\ grants'[k].requeued <=> grants[k].requeued \/ k \in LiveOf(call[c].run)
    <3>1. grants'[k] = [grants[k] EXCEPT !.requeued = @ \/ k \in LiveOf(call[c].run)]
      BY <2>1
    <3>2. grants[k] \in Grants
      BY <1>1
    <3> QED BY <3>1, <3>2 DEF Grants
  <2>3. grants' = [k \in 1..Len(grants) |-> grants'[k]]
    BY <2>1
  <2>4. grants' \in Seq(Grants) /\ Len(grants') = Len(grants)
    BY <1>1, <2>2, <2>3, SeqOfElements
  <2> QED BY <1>1, <1>3, <2>2, <2>3, <2>4
<1> QED BY <1>2, <1>3

\* The ledger starts empty.
LEMMA InitTypeOK == Init => TypeOK
<1>1. NoRow \in Rows
  BY DEF NoRow, Rows, Statuses, Terminal, Tokens, Times
<1>2. Idle \in CallStates
  BY <1>1 DEF Idle, CallStates, Ops, Tokens, Statuses, Terminal
<1>3. 0 \in 0..MaxTime /\ <<>> \in Seq(Grants) /\ Len(<<>>) <= MaxClaims /\ Idle.time = 0
  BY DEF Idle
<1> QED BY <1>1, <1>2, <1>3 DEF Init, TypeOK

\* What a call is asked is a call: of a claim, by a runtime.
LEMMA HoldingTypes ==
    ASSUME TypeOK
    PROVE  Idle \in CallStates /\ \A k \in DOMAIN grants : Holding(k) \in CallStates
<1>1. Idle \in CallStates
  <2>1. NoRow \in Rows
    BY DEF NoRow, Rows, Statuses, Terminal, Tokens, Times
  <2> QED BY <2>1 DEF Idle, CallStates, Ops, Tokens, Statuses, Terminal
<1>2. ASSUME NEW k \in DOMAIN grants PROVE Holding(k) \in CallStates
  <2>1. k \in Tokens /\ grants[k] \in Grants
    BY SeqElements DEF Tokens, TypeOK
  <2> QED BY <2>1, <1>1 DEF Holding, CallStates, Grants
<1> QED BY <1>1, <1>2

\* Every ask hands a well-formed request to an idle call.
LEMMA AskTypes ==
    ASSUME TypeOK, NEW c \in Calls,
           \/ \E w \in Runtimes : AskClaim(c, w)
           \/ AskExpire(c)
           \/ \E k \in DOMAIN grants : AskRenew(c, k)
           \/ \E k \in DOMAIN grants, s \in NewStatuses : AskRelease(c, k, s)
           \/ \E r \in Runs, s \in NewStatuses : AskFinalize(c, r, s)
    PROVE  \E request \in CallStates :
              /\ Ask(c, request) /\ request.read = FALSE
              /\ request.op = "claim" => request.runtime \in Runtimes
<1>0. /\ Idle \in CallStates /\ Idle.read = FALSE
      /\ \A k \in DOMAIN grants : Holding(k) \in CallStates /\ Holding(k).read = FALSE
  BY HoldingTypes DEF Holding, Idle
<1>1. ASSUME NEW w \in Runtimes, AskClaim(c, w)
      PROVE  [Idle EXCEPT !.op = "claim", !.runtime = w] \in CallStates
  BY <1>0 DEF CallStates, Ops
<1>2. [Idle EXCEPT !.op = "expire"] \in CallStates
  BY <1>0 DEF CallStates, Ops
<1>3. \A k \in DOMAIN grants : [Holding(k) EXCEPT !.op = "renew"] \in CallStates
  BY <1>0 DEF CallStates, Ops
<1>4. \A k \in DOMAIN grants, s \in NewStatuses :
         [Holding(k) EXCEPT !.op = "release", !.status = s] \in CallStates
  BY <1>0 DEF CallStates, Ops
<1>5. \A r \in Runs, s \in NewStatuses :
         [Idle EXCEPT !.op = "finalize", !.run = r, !.status = s] \in CallStates
  BY <1>0 DEF CallStates, Ops
<1> QED
  <2>1. CASE \E w \in Runtimes : AskClaim(c, w)
    BY <2>1, <1>0, <1>1 DEF AskClaim, CallStates
  <2>2. CASE AskExpire(c)
    BY <2>2, <1>0, <1>2 DEF AskExpire, CallStates
  <2>3. CASE \E k \in DOMAIN grants : AskRenew(c, k)
    <3>1. PICK k \in DOMAIN grants : AskRenew(c, k)
      BY <2>3
    <3> DEFINE request == [Holding(k) EXCEPT !.op = "renew"]
    <3>2. Ask(c, request) /\ request.read = FALSE /\ request.op # "claim"
      BY <3>1, <1>0 DEF AskRenew, CallStates
    <3> QED BY <1>3, <3>2
  <2>4. CASE \E k \in DOMAIN grants, s \in NewStatuses : AskRelease(c, k, s)
    <3>1. PICK k \in DOMAIN grants, s \in NewStatuses : AskRelease(c, k, s)
      BY <2>4
    <3> DEFINE request == [Holding(k) EXCEPT !.op = "release", !.status = s]
    <3>2. Ask(c, request) /\ request.read = FALSE /\ request.op # "claim"
      BY <3>1, <1>0 DEF AskRelease, CallStates
    <3> QED BY <1>4, <3>2
  <2>5. CASE \E r \in Runs, s \in NewStatuses : AskFinalize(c, r, s)
    <3>1. PICK r \in Runs, s \in NewStatuses : AskFinalize(c, r, s)
      BY <2>5
    <3> DEFINE request == [Idle EXCEPT !.op = "finalize", !.run = r, !.status = s]
    <3>2. Ask(c, request) /\ request.read = FALSE /\ request.op # "claim"
      BY <3>1, <1>0 DEF AskFinalize, CallStates
    <3> QED BY <1>5, <3>2
  <2> QED BY <2>1, <2>2, <2>3, <2>4, <2>5

\* What every call keeps to while it is in progress.
ClaimsHaveRuntime ==
    \A c \in Calls : call[c].op = "claim" => call[c].runtime \in Runtimes

\* Every step keeps the types, and the runtime of every claim in progress.
LEMMA TypeStep == TypeOK /\ ClaimsHaveRuntime /\ [Next]_vars => TypeOK' /\ ClaimsHaveRuntime'
<1> SUFFICES ASSUME TypeOK, ClaimsHaveRuntime, [Next]_vars
             PROVE  TypeOK' /\ ClaimsHaveRuntime'
  OBVIOUS
<1> USE DEF ClaimsHaveRuntime
<1>0. /\ run \in [Runs -> Rows] /\ now \in 0..MaxTime /\ call \in [Calls -> CallStates]
      /\ grants \in Seq(Grants)
      /\ Len(grants) <= MaxClaims /\ \A c \in Calls : call[c].time <= now
  BY DEF TypeOK
<1>1. NoRow \in Rows
  BY DEF NoRow, Rows, Statuses, Terminal, Tokens, Times
<1>2. Idle \in CallStates
  BY <1>1 DEF Idle, CallStates, Ops, Tokens, Statuses, Terminal
<1>3. CASE UNCHANGED vars
  BY <1>3 DEF vars, TypeOK
<1>4. CASE Tick
  BY <1>4 DEF Tick, TypeOK, CallStates
<1>5. ASSUME NEW r \in Runs, NEW s \in {"queued", "running"}, CreateRun(r, s)
      PROVE  TypeOK' /\ ClaimsHaveRuntime'
  BY <1>5 DEF CreateRun, TypeOK, Rows, Statuses
<1>6. ASSUME NEW c \in Calls, NEW request \in CallStates, Ask(c, request),
             request.op = "claim" => request.runtime \in Runtimes
      PROVE  TypeOK' /\ ClaimsHaveRuntime'
  <2>1. [request EXCEPT !.time = now] \in CallStates
    BY <1>0 DEF CallStates
  <2>2. call' \in [Calls -> CallStates]
    BY <1>6, <2>1, <1>0 DEF Ask
  <2>3. \A d \in Calls : call'[d].time <= now
    BY <1>6, <1>0 DEF Ask, CallStates
  <2>4. ClaimsHaveRuntime'
    BY <1>6, <1>0 DEF Ask, CallStates
  <2> QED BY <1>6, <2>2, <2>3, <2>4 DEF Ask, TypeOK
<1>7. ASSUME NEW c \in Calls, NEW R \in SUBSET Runs, Selects(c, R)
      PROVE  TypeOK' /\ ClaimsHaveRuntime'
  <2> DEFINE rows == [r \in Runs |-> IF r \in R THEN run[r] ELSE NoRow]
             old == call[c]
             new == [old EXCEPT !.read = TRUE, !.selected = R, !.rows = rows]
  <2>3. rows \in [Runs -> Rows]
    BY <1>1, <1>0
  <2>4. new \in CallStates
    <3>1. old \in CallStates /\ R \in SUBSET Runs
      BY <1>7, <1>0
    <3> HIDE DEF rows, old
    <3> QED BY <2>3, <3>1 DEF CallStates
  <2>5. call' = [call EXCEPT ![c] = new]
    BY <1>7, <1>0 DEF Selects, CallStates
  <2>1. call' \in [Calls -> CallStates]
    <3> HIDE DEF new
    <3> QED BY <2>4, <2>5, <1>0
  <2>2. \A d \in Calls : call'[d].time = call[d].time /\ call'[d].op = call[d].op
                         /\ call'[d].runtime = call[d].runtime
    BY <1>7, <1>0 DEF Selects, CallStates
  <2> QED BY <1>7, <2>1, <2>2 DEF Selects, TypeOK
<1>8. ASSUME NEW c \in Calls, call' = [call EXCEPT ![c] = Idle], UNCHANGED now
      PROVE  /\ call' \in [Calls -> CallStates]
             /\ now' \in 0..MaxTime
             /\ \A d \in Calls : call'[d].time <= now'
             /\ ClaimsHaveRuntime'
  BY <1>8, <1>2, <1>0 DEF Idle
<1>9. ASSUME NEW c \in Calls, Refused(c) PROVE TypeOK' /\ ClaimsHaveRuntime'
  BY <1>9, <1>8 DEF Refused, TypeOK
<1>10. ASSUME NEW c \in Calls, Step(c) PROVE TypeOK' /\ ClaimsHaveRuntime'
  <2>0. /\ call[c] \in CallStates
        /\ call[c].time \in 0..MaxTime
        /\ call[c].time + Lease \in Times
        /\ call[c].runtime \in Runtimes \cup {NoRuntime}
        /\ call[c].status \in Statuses
        /\ call[c].selected \subseteq Runs
        /\ \A r \in Runs : call[c].rows[r] \in Rows
        /\ call[c].run \in Runs
    BY <1>0 DEF CallStates, Times
  <2>1. CASE \/ \E w \in Runtimes : AskClaim(c, w)
             \/ AskExpire(c)
             \/ \E k \in DOMAIN grants : AskRenew(c, k)
             \/ \E k \in DOMAIN grants, s \in NewStatuses : AskRelease(c, k, s)
             \/ \E r \in Runs, s \in NewStatuses : AskFinalize(c, r, s)
    BY <2>1, <1>6, AskTypes
  <2>7. CASE ReadClaim(c)
    BY <2>7, <1>7, <1>9 DEF ReadClaim
  <2>8. CASE ReadClaimed(c)
    BY <2>8, <1>7, <1>9, <2>0 DEF ReadClaimed
  <2>9. CASE ReadExpired(c)
    BY <2>9, <1>7 DEF ReadExpired
  <2>10. CASE ReadFinalizing(c)
    BY <2>10, <1>7, <1>9, <2>0 DEF ReadFinalizing
  <2>11. CASE CommitClaim(c)
    <3> DEFINE token == Len(grants) + 1
    <3>1. token \in Tokens /\ Len(grants) < MaxClaims
      BY <2>11, <1>0 DEF CommitClaim, Tokens
    <3>2. run' = [r \in Runs |->
                     IF r \in call[c].selected
                     THEN Written(call[c].rows[r], Claimed(call[c].rows[r], c, token), run[r])
                     ELSE run[r]]
      BY <2>11 DEF CommitClaim, Commits
    <3>3. run' \in [Runs -> Rows]
      <4>1. \A r \in Runs : Claimed(call[c].rows[r], c, token) \in Rows
        BY <2>0, <3>1, RowTypes DEF Statuses
      <4> HIDE DEF token
      <4> QED BY <3>2, <4>1, <2>0, <1>0, WrittenTypes
    <3>4. PICK r \in call[c].selected :
             grants' = Append(grants, [run |-> r, runtime |-> call[c].runtime,
                                       until |-> call[c].time + Lease, requeued |-> FALSE])
      BY <2>11 DEF CommitClaim
    <3>5. call[c].runtime \in Runtimes
      BY <2>11 DEF CommitClaim, Reading
    <3>6. grants' \in Seq(Grants)
      BY <3>4, <3>5, <2>0, <1>0 DEF Grants
    <3>7. Len(grants') <= MaxClaims
      BY <3>4, <3>1, <1>0
    <3>8. call' = [call EXCEPT ![c] = Idle] /\ UNCHANGED now
      BY <2>11 DEF CommitClaim, Commits
    <3> QED BY <3>3, <3>6, <3>7, <3>8, <1>8 DEF TypeOK
  <2>12. CASE CommitRenew(c)
    <3>1. run' \in [Runs -> Rows]
      <4>1. \A r \in Runs : Renewed(call[c].rows[r], c) \in Rows
        BY <2>0, RowTypes DEF Statuses, Tokens
      <4> QED BY <2>12, <4>1, <2>0, <1>0, WrittenTypes DEF CommitRenew, Commits
    <3>2. /\ grants' \in Seq(Grants)
          /\ Len(grants') = Len(grants)
      BY <2>12, <2>0, <1>0, GrantTypes DEF CommitRenew
    <3> QED BY <2>12, <3>1, <3>2, <1>0, <1>8 DEF CommitRenew, Commits, TypeOK
  <2>13. CASE CommitRelease(c)
    <3>1. run' \in [Runs -> Rows]
      <4>1. \A r \in Runs : Released(call[c].rows[r], call[c].status) \in Rows
        BY <2>0, RowTypes DEF Tokens
      <4> QED BY <2>13, <4>1, <2>0, <1>0, WrittenTypes DEF CommitRelease, Commits
    <3>2. /\ grants' \in Seq(Grants)
          /\ Len(grants') = Len(grants)
      <4>1. 0 \in Times
        BY DEF Times
      <4> QED BY <4>1, <2>13, <1>0, GrantTypes DEF CommitRelease
    <3> QED BY <2>13, <3>1, <3>2, <1>0, <1>8 DEF CommitRelease, Commits, TypeOK
  <2>14. CASE CommitExpire(c)
    <3>1. run' \in [Runs -> Rows]
      <4>1. \A r \in Runs : Released(call[c].rows[r], "queued") \in Rows
        BY <2>0, RowTypes DEF Tokens, Statuses
      <4> QED BY <2>14, <4>1, <2>0, <1>0, WrittenTypes DEF CommitExpire, Commits
    <3> QED BY <2>14, <3>1, <1>0, <1>8 DEF CommitExpire, Commits, TypeOK
  <2>15. CASE CommitFinalize(c)
    <3>1. run' \in [Runs -> Rows]
      <4>1. \A r \in Runs : Finalized(call[c].rows[r], call[c].status) \in Rows
        BY <2>0, RowTypes DEF Tokens
      <4> QED BY <2>15, <4>1, <2>0, <1>0, WrittenTypes DEF CommitFinalize, Commits
    <3>2. /\ grants' \in Seq(Grants)
          /\ Len(grants') <= MaxClaims
      BY <2>15, <1>0, FinalizeGrants
    <3> QED BY <2>15, <3>1, <3>2, <1>0, <1>8 DEF CommitFinalize, Commits, TypeOK
  <2> QED BY <1>10, <2>1, <2>7, <2>8, <2>9, <2>10, <2>11, <2>12,
             <2>13, <2>14, <2>15 DEF Step
<1> QED BY <1>3, <1>4, <1>5, <1>10 DEF Next

\* The types of the ledger hold in every reachable state.
THEOREM LedgerTypeCorrect == Spec => []TypeOK
<1>1. Init => TypeOK /\ ClaimsHaveRuntime
  BY InitTypeOK DEF Init, Idle, ClaimsHaveRuntime
<1> QED BY <1>1, TypeStep, PTL DEF Spec

-----------------------------------------------------------------------------
(* Attempts *)

ClaimsOf(r) == {k \in DOMAIN grants : grants[k].run = r}

\* A claim in progress holds one row, whose count of attempts nobody else changes
\* between its select and its commit.
CountInv ==
    /\ \A c \in Calls : Reading(c, "claim") =>
          \E r \in Runs : /\ call[c].selected = {r}
                          /\ call[c].rows[r].attempts = run[r].attempts
    /\ \A c, d \in Calls :
          /\ Reading(c, "claim") /\ Reading(d, "claim")
          /\ call[c].selected \cap call[d].selected # {}
          => c = d
    /\ AttemptsCountClaims

\* Only a claim counts an attempt.
LEMMA OnlyClaimsCount ==
    ASSUME NEW row \in Rows, NEW c
    PROVE  /\ \A token : Claimed(row, c, token).attempts = row.attempts + 1
           /\ Renewed(row, c).attempts = row.attempts
           /\ \A status : Released(row, status).attempts = row.attempts
           /\ \A status : Finalized(row, status).attempts = row.attempts
BY DEF Rows, Claimed, Renewed, Released, Finalized

\* The new rows of a call are rows.
LEMMA NewRows ==
    ASSUME TypeOK, NEW c \in Calls, NEW r \in Runs
    PROVE  /\ run[r] \in Rows
           /\ call[c].rows[r] \in Rows
           /\ \A token \in Tokens : Claimed(call[c].rows[r], c, token) \in Rows
           /\ Renewed(call[c].rows[r], c) \in Rows
           /\ \A status \in Statuses : Released(call[c].rows[r], status) \in Rows
           /\ Finalized(call[c].rows[r], call[c].status) \in Rows
           /\ call[c].status \in Statuses
<1>1. /\ call[c].time \in 0..MaxTime /\ call[c].rows[r] \in Rows /\ run[r] \in Rows
      /\ call[c].status \in Statuses /\ call[c].runtime \in Runtimes \cup {NoRuntime}
  BY DEF TypeOK, CallStates
<1>2. 0 \in Tokens /\ "queued" \in Statuses
  BY DEF Tokens, Statuses
<1> QED BY <1>1, <1>2, RowTypes

\* The grants keep their runs when their ends move.
LEMMA GrantsKeepRuns ==
    ASSUME TypeOK, NEW c \in Calls, CommitRenew(c) \/ CommitRelease(c) \/ CommitFinalize(c)
    PROVE  /\ DOMAIN grants' = DOMAIN grants
           /\ \A k \in DOMAIN grants : grants'[k].run = grants[k].run
<1>1. \A k \in DOMAIN grants : grants[k] \in Grants
  BY SeqElements DEF TypeOK
<1>2. CASE CommitRenew(c)
  BY <1>1, <1>2 DEF CommitRenew, Grants
<1>3. CASE CommitRelease(c)
  BY <1>1, <1>3 DEF CommitRelease, Grants
<1>4. CASE CommitFinalize(c)
  BY <1>4, FinalizeGrants
<1> QED BY <1>2, <1>3, <1>4

\* Every commit but that of a claim leaves the counts alone.
LEMMA CommitsKeepAttempts ==
    ASSUME TypeOK, NEW c \in Calls,
           CommitRenew(c) \/ CommitRelease(c) \/ CommitExpire(c) \/ CommitFinalize(c)
    PROVE  \A r \in Runs : run'[r].attempts = run[r].attempts
<1> SUFFICES ASSUME NEW r \in Runs PROVE run'[r].attempts = run[r].attempts
  OBVIOUS
<1> DEFINE old == call[c].rows[r]
<1>1. run[r] \in Rows /\ old \in Rows
  BY NewRows
<1>2. ASSUME NEW new \in Rows, new.attempts = old.attempts,
             run'[r] = IF r \in call[c].selected THEN Written(old, new, run[r]) ELSE run[r]
      PROVE  run'[r].attempts = run[r].attempts
  BY <1>1, <1>2, WrittenTypes
<1>3. CASE CommitRenew(c)
  <2>1. run'[r] = IF r \in call[c].selected THEN Written(old, Renewed(old, c), run[r]) ELSE run[r]
    BY <1>3 DEF CommitRenew, Commits
  <2> QED BY <2>1, <1>1, <1>2, NewRows, OnlyClaimsCount
<1>4. CASE CommitRelease(c)
  <2>1. run'[r] = IF r \in call[c].selected THEN Written(old, Released(old, call[c].status), run[r])
                                           ELSE run[r]
    BY <1>4 DEF CommitRelease, Commits
  <2> QED BY <2>1, <1>1, <1>2, NewRows, OnlyClaimsCount
<1>5. CASE CommitExpire(c)
  <2>1. run'[r] = IF r \in call[c].selected THEN Written(old, Released(old, "queued"), run[r])
                                           ELSE run[r]
    BY <1>5 DEF CommitExpire, Commits
  <2> QED BY <2>1, <1>1, <1>2, NewRows, OnlyClaimsCount DEF Statuses
<1>6. CASE CommitFinalize(c)
  <2>1. run'[r] = IF r \in call[c].selected THEN Written(old, Finalized(old, call[c].status), run[r])
                                           ELSE run[r]
    BY <1>6 DEF CommitFinalize, Commits
  <2> QED BY <2>1, <1>1, <1>2, NewRows, OnlyClaimsCount
<1> QED BY <1>3, <1>4, <1>5, <1>6

\* Steps that start no reading claim, grant nothing and count nothing.
LEMMA CountQuiet ==
    ASSUME CountInv,
           \A r \in Runs : run'[r].attempts = run[r].attempts,
           DOMAIN grants' = DOMAIN grants,
           \A k \in DOMAIN grants : grants'[k].run = grants[k].run,
           \A d \in Calls : Reading(d, "claim")' =>
              Reading(d, "claim") /\ call'[d].selected = call[d].selected
                                 /\ call'[d].rows = call[d].rows
    PROVE  CountInv'
<1>1. \A r \in Runs : ClaimsOf(r)' = ClaimsOf(r)
  BY DEF ClaimsOf
<1>2. AttemptsCountClaims'
  BY <1>1 DEF CountInv, AttemptsCountClaims, ClaimsOf
<1> QED BY <1>2 DEF CountInv

\* The row of a claim is counted once more as the claim is granted.
LEMMA CountClaim ==
    ASSUME TypeOK, CountInv, NEW c \in Calls, CommitClaim(c)
    PROVE  CountInv'
<1> DEFINE token == Len(grants) + 1
<1>1. PICK r \in Runs : call[c].selected = {r} /\ call[c].rows[r].attempts = run[r].attempts
  BY DEF CountInv, CommitClaim
<1>2. /\ grants' = Append(grants, [run |-> r, runtime |-> call[c].runtime,
                                   until |-> call[c].time + Lease, requeued |-> FALSE])
      /\ call' = [call EXCEPT ![c] = Idle]
  BY <1>1 DEF CommitClaim, Commits
<1>3. token \in Tokens
  BY SeqElements DEF CommitClaim, Tokens, TypeOK
<1>4. /\ run'[r] = Written(call[c].rows[r], Claimed(call[c].rows[r], c, token), run[r])
      /\ \A s \in Runs \ {r} : run'[s] = run[s]
  BY <1>1 DEF CommitClaim, Commits
<1>5. run'[r].attempts = run[r].attempts + 1 /\ run[r].attempts \in Nat
  <2>1. Claimed(call[c].rows[r], c, token) \in Rows /\ call[c].rows[r] \in Rows /\ run[r] \in Rows
    BY <1>3, NewRows
  <2>2. run[r].attempts \in Nat
    BY <2>1 DEF Rows
  <2>3. Claimed(call[c].rows[r], c, token).attempts = call[c].rows[r].attempts + 1
    BY <2>1 DEF Claimed, Rows
  <2> HIDE DEF token
  <2> QED BY <2>1, <2>2, <2>3, <1>1, <1>4, WrittenTypes
<1>6. /\ Len(grants) \in Nat /\ DOMAIN grants = 1..Len(grants)
      /\ DOMAIN grants' = 1..token /\ grants'[token].run = r
      /\ \A k \in 1..Len(grants) : grants'[k] = grants[k]
  <2>1. Len(grants) \in Nat /\ DOMAIN grants = 1..Len(grants)
    BY SeqElements DEF TypeOK
  <2> QED BY <2>1, <1>2 DEF TypeOK
<1>7. AttemptsCountClaims'
  <2>1. ClaimsOf(r)' = ClaimsOf(r) \cup {token} /\ token \notin ClaimsOf(r)
    BY <1>6 DEF ClaimsOf
  <2>2. \A s \in Runs \ {r} : ClaimsOf(s)' = ClaimsOf(s)
    BY <1>6 DEF ClaimsOf
  <2>3. IsFiniteSet(ClaimsOf(r))
    <3>1. IsFiniteSet(1..Len(grants)) /\ ClaimsOf(r) \subseteq 1..Len(grants)
      BY <1>6, FS_Interval DEF ClaimsOf
    <3> QED BY <3>1, FS_Subset
  <2>4. Cardinality(ClaimsOf(r)') = Cardinality(ClaimsOf(r)) + 1
    <3> HIDE DEF token
    <3> QED BY <2>1, <2>3, FS_AddElement
  <2> QED BY <2>2, <2>4, <1>4, <1>5 DEF CountInv, AttemptsCountClaims, ClaimsOf
<1>8. \A d \in Calls : Reading(d, "claim")' => d # c /\ call'[d] = call[d] /\ Reading(d, "claim")
  BY <1>2 DEF Reading, Idle, TypeOK
<1>9. ASSUME NEW d \in Calls, Reading(d, "claim")'
      PROVE  \E s \in Runs : /\ call'[d].selected = {s}
                             /\ call'[d].rows[s].attempts = run'[s].attempts
  <2>1. PICK s \in Runs : call[d].selected = {s} /\ call[d].rows[s].attempts = run[s].attempts
    BY <1>8, <1>9 DEF CountInv
  <2>2. s # r
    BY <2>1, <1>1, <1>8, <1>9 DEF CountInv, CommitClaim
  <2> QED BY <2>1, <2>2, <1>4, <1>8, <1>9
<1> QED BY <1>7, <1>8, <1>9 DEF CountInv

\* A claim selects a row that no other claim has selected.
LEMMA CountRead ==
    ASSUME RowLocks \/ \A c, d \in Calls : c = d,
           TypeOK, CountInv, NEW c \in Calls, NEW r \in Runs,
           ~Locked(r), Asked(c, "claim"), Selects(c, {r})
    PROVE  CountInv'
<1>1. /\ \A d \in Calls \ {c} : call'[d] = call[d]
      /\ call'[c].selected = {r} /\ call'[c].rows[r] = run[r]
  BY DEF Selects, TypeOK, CallStates
<1>2. run' = run /\ grants' = grants
  BY DEF Selects
<1>3. AttemptsCountClaims'
  BY <1>2 DEF CountInv, AttemptsCountClaims
<1>4. \A d \in Calls \ {c} : Reading(d, "claim") => r \notin call[d].selected
  BY DEF Locked, Reading
<1>5. \A d \in Calls \ {c} : Reading(d, "claim")' => Reading(d, "claim")
  BY <1>1 DEF Reading
<1>6. ASSUME NEW d \in Calls, Reading(d, "claim")'
      PROVE  \E s \in Runs : /\ call'[d].selected = {s}
                             /\ call'[d].rows[s].attempts = run'[s].attempts
  BY <1>1, <1>2, <1>5, <1>6 DEF CountInv
<1>7. ASSUME NEW d \in Calls, NEW e \in Calls, Reading(d, "claim")', Reading(e, "claim")',
             call'[d].selected \cap call'[e].selected # {}
      PROVE  d = e
  BY <1>1, <1>4, <1>5, <1>7 DEF CountInv
<1> QED BY <1>3, <1>6, <1>7 DEF CountInv

\* Every step keeps the counts.
LEMMA CountStep ==
    ASSUME RowLocks \/ \A c, d \in Calls : c = d
    PROVE  TypeOK /\ CountInv /\ [Next]_vars => CountInv'
<1> SUFFICES ASSUME TypeOK, CountInv, [Next]_vars PROVE CountInv'
  OBVIOUS
<1>1. CASE UNCHANGED vars
  BY <1>1, CountQuiet DEF vars, Reading
<1>2. CASE Tick
  BY <1>2, CountQuiet DEF Tick, Reading
<1>3. ASSUME NEW r \in Runs, NEW s \in {"queued", "running"}, CreateRun(r, s) PROVE CountInv'
  <2>1. \A t \in Runs : run'[t].attempts = run[t].attempts
    BY <1>3 DEF CreateRun, TypeOK, Rows
  <2> QED BY <1>3, <2>1, CountQuiet DEF CreateRun, Reading
<1>4. ASSUME NEW c \in Calls, NEW request, Ask(c, request), request.read = FALSE,
             request \in CallStates
      PROVE  CountInv'
  <2>1. \A d \in Calls : Reading(d, "claim")' => Reading(d, "claim") /\ call'[d] = call[d]
    BY <1>4 DEF Ask, Reading, TypeOK, CallStates
  <2> QED BY <1>4, <2>1, CountQuiet DEF Ask
<1>5. ASSUME NEW c \in Calls, call' = [call EXCEPT ![c] = Idle]
      PROVE  \A d \in Calls : Reading(d, "claim")' => Reading(d, "claim") /\ call'[d] = call[d]
  BY <1>5 DEF Reading, Idle, TypeOK
<1>6. ASSUME NEW c \in Calls, Refused(c) PROVE CountInv'
  BY <1>5, <1>6, CountQuiet DEF Refused
<1>7. ASSUME NEW c \in Calls, NEW R \in SUBSET Runs, Selects(c, R), ~Asked(c, "claim"),
             ~call[c].read
      PROVE  CountInv'
  <2>1. \A d \in Calls : Reading(d, "claim")' => Reading(d, "claim") /\ call'[d] = call[d]
    BY <1>7 DEF Selects, Reading, Asked, TypeOK, CallStates
  <2> QED BY <1>7, <2>1, CountQuiet DEF Selects
<1>8. ASSUME NEW c \in Calls, CommitRenew(c) \/ CommitRelease(c) \/ CommitExpire(c) \/ CommitFinalize(c)
      PROVE  CountInv'
  <2>1. call' = [call EXCEPT ![c] = Idle]
    BY <1>8 DEF CommitRenew, CommitRelease, CommitExpire, CommitFinalize, Commits
  <2>2. /\ DOMAIN grants' = DOMAIN grants
        /\ \A k \in DOMAIN grants : grants'[k].run = grants[k].run
    BY <1>8, GrantsKeepRuns DEF CommitExpire
  <2> QED BY <2>1, <2>2, <1>5, <1>8, CommitsKeepAttempts, CountQuiet
<1>9. ASSUME NEW c \in Calls, Step(c) PROVE CountInv'
  <2>0. Idle \in CallStates /\ \A k \in DOMAIN grants : Holding(k) \in CallStates
    BY HoldingTypes
  <2>1. CASE \/ \E w \in Runtimes : AskClaim(c, w)
             \/ AskExpire(c)
             \/ \E k \in DOMAIN grants : AskRenew(c, k)
             \/ \E k \in DOMAIN grants, s \in NewStatuses : AskRelease(c, k, s)
             \/ \E r \in Runs, s \in NewStatuses : AskFinalize(c, r, s)
    BY <2>1, <2>0, <1>4, AskTypes
  <2>2. CASE ReadClaim(c)
    BY <2>2, <1>6, CountRead DEF ReadClaim, Claimable
  <2>3. CASE ReadClaimed(c) \/ ReadExpired(c) \/ ReadFinalizing(c)
    <3>1. call[c].run \in Runs
      BY DEF TypeOK, CallStates
    <3> QED BY <2>3, <3>1, <1>6, <1>7 DEF ReadClaimed, ReadExpired, ReadFinalizing, Asked
  <2>4. CASE CommitClaim(c)
    BY <2>4, CountClaim
  <2> QED BY <1>8, <1>9, <2>1, <2>2, <2>3, <2>4 DEF Step
<1> QED BY <1>1, <1>2, <1>3, <1>9 DEF Next

\* The empty ledger has counted nothing.
LEMMA CountInit == Init => TypeOK /\ ClaimsHaveRuntime /\ CountInv
<1>1. Init => TypeOK /\ ClaimsHaveRuntime
  BY InitTypeOK DEF Init, Idle, ClaimsHaveRuntime
<1>2. ASSUME Init PROVE AttemptsCountClaims
  <2>1. \A r \in Runs : {k \in DOMAIN grants : grants[k].run = r} = {}
    BY <1>2 DEF Init
  <2> QED BY <1>2, <2>1, FS_EmptySet DEF Init, AttemptsCountClaims, NoRow
<1> QED BY <1>1, <1>2 DEF Init, CountInv, Reading, Idle

\* With row locks, or with one call at a time, no claim is granted uncounted.
THEOREM ClaimsAreCounted ==
    ASSUME RowLocks \/ \A c, d \in Calls : c = d
    PROVE  Spec => []AttemptsCountClaims
<1>1. CountInv => AttemptsCountClaims
  BY DEF CountInv
<1> QED BY <1>1, CountInit, TypeStep, CountStep, PTL DEF Spec

-----------------------------------------------------------------------------
(* What row locks are enough for, however many calls overlap *)

\* A claim may take the row at t.
Free(row, t) == row.status = "queued" \/ Expired(row, t)

\* Whatever other calls do between the select of a claim and its commit, the run that is
\* claimed is queued, or its lease has expired, at the moment of the claim.
ClaimsTakeFreeRuns ==
    [][\A r \in Runs : run'[r].attempts # run[r].attempts => Free(run[r], now)]_vars

\* The row that a claim has locked is as the claim has read it.
LockInv ==
    \A c \in Calls : Reading(c, "claim") =>
        \A r \in call[c].selected : /\ call[c].rows[r] = run[r]
                                    /\ Free(run[r], call[c].time)

\* Steps that start no reading claim, and do not touch what is locked.
LEMMA LockQuiet ==
    ASSUME LockInv,
           \A d \in Calls : Reading(d, "claim")' =>
              /\ Reading(d, "claim") /\ call'[d] = call[d]
              /\ \A r \in call[d].selected : run'[r] = run[r]
    PROVE  LockInv'
BY DEF LockInv, Free, Expired

\* A commit leaves the rows that other claims have locked alone.
LEMMA LockCommit ==
    ASSUME RowLocks, TypeOK, CountInv, LockInv, NEW c \in Calls,
           CommitClaim(c) \/ CommitRenew(c) \/ CommitRelease(c) \/ CommitExpire(c) \/ CommitFinalize(c)
    PROVE  LockInv'
<1>1. /\ call' = [call EXCEPT ![c] = Idle]
      /\ call[c].op = "claim" => call[c].read
      /\ call[c].op # "claim" => \A r \in call[c].selected : ~Locked(r)
      /\ \A r \in Runs \ call[c].selected : run'[r] = run[r]
  BY DEF CommitClaim, CommitRenew, CommitRelease, CommitExpire, CommitFinalize, Commits, Reading
<1>2. \A d \in Calls : Reading(d, "claim")' => d # c /\ Reading(d, "claim") /\ call'[d] = call[d]
  BY <1>1 DEF Reading, Idle, TypeOK
<1>3. ASSUME NEW d \in Calls, Reading(d, "claim"), d # c, NEW r \in call[d].selected
      PROVE  run'[r] = run[r]
  <2>1. r \in Runs
    BY DEF TypeOK, CallStates
  <2>2. r \notin call[c].selected
    <3>1. CASE call[c].op = "claim"
      BY <1>1, <1>3, <3>1 DEF CountInv, Reading
    <3>2. CASE call[c].op # "claim"
      <4>1. Locked(r)
        BY <1>3 DEF Locked, Reading
      <4> QED BY <1>1, <3>2, <4>1
    <3> QED BY <3>1, <3>2
  <2> QED BY <1>1, <2>1, <2>2
<1> QED BY <1>2, <1>3, LockQuiet

\* Every step keeps locked rows as they were read.
LEMMA LockStep ==
    ASSUME RowLocks
    PROVE  TypeOK /\ CountInv /\ LockInv /\ [Next]_vars => LockInv'
<1> SUFFICES ASSUME TypeOK, CountInv, LockInv, [Next]_vars PROVE LockInv'
  OBVIOUS
<1>1. CASE UNCHANGED vars \/ Tick
  BY <1>1, LockQuiet DEF vars, Tick, Reading
<1>2. ASSUME NEW r \in Runs, NEW s \in {"queued", "running"}, CreateRun(r, s) PROVE LockInv'
  <2>1. run[r].status = "absent" /\ \A t \in Runs \ {r} : run'[t] = run[t]
    BY <1>2 DEF CreateRun, TypeOK
  <2>2. \A d \in Calls : Reading(d, "claim") => r \notin call[d].selected
    BY <2>1 DEF LockInv, Free, Expired
  <2>3. \A d \in Calls : call[d].selected \subseteq Runs
    BY DEF TypeOK, CallStates
  <2> QED BY <1>2, <2>1, <2>2, <2>3, LockQuiet DEF CreateRun, Reading
<1>3. ASSUME run' = run, \A d \in Calls : Reading(d, "claim")' => Reading(d, "claim") /\ call'[d] = call[d]
      PROVE  LockInv'
  BY <1>3, LockQuiet
<1>4. ASSUME NEW c \in Calls, NEW request \in CallStates, Ask(c, request), request.read = FALSE
      PROVE  LockInv'
  <2>1. \A d \in Calls : Reading(d, "claim")' => Reading(d, "claim") /\ call'[d] = call[d]
    BY <1>4 DEF Ask, Reading, TypeOK, CallStates
  <2> QED BY <1>3, <1>4, <2>1 DEF Ask
<1>5. ASSUME NEW c \in Calls, Refused(c) PROVE LockInv'
  <2>1. \A d \in Calls : Reading(d, "claim")' => Reading(d, "claim") /\ call'[d] = call[d]
    BY <1>5 DEF Refused, Reading, Idle, TypeOK
  <2> QED BY <1>3, <1>5, <2>1 DEF Refused
<1>6. ASSUME NEW c \in Calls, NEW R \in SUBSET Runs, Selects(c, R), call[c].op # "claim"
      PROVE  LockInv'
  <2>1. \A d \in Calls : Reading(d, "claim")' => Reading(d, "claim") /\ call'[d] = call[d]
    BY <1>6 DEF Selects, Reading, TypeOK, CallStates
  <2> QED BY <1>3, <1>6, <2>1 DEF Selects
<1>7. ASSUME NEW c \in Calls, ReadClaim(c) PROVE LockInv'
  <2>1. CASE Refused(c)
    BY <2>1, <1>5
  <2>2. ASSUME NEW r \in Runs, Claimable(r, call[c].runtime, call[c].time), Selects(c, {r})
        PROVE  LockInv'
    <3>1. /\ \A d \in Calls \ {c} : call'[d] = call[d]
          /\ call'[c].selected = {r} /\ call'[c].rows[r] = run[r] /\ call'[c].time = call[c].time
          /\ run' = run
      BY <2>2 DEF Selects, TypeOK, CallStates
    <3>2. Free(run[r], call[c].time)
      BY <2>2 DEF Claimable, Free
    <3>3. \A d \in Calls \ {c} : Reading(d, "claim")' => Reading(d, "claim")
      BY <3>1 DEF Reading
    <3> QED BY <3>1, <3>2, <3>3 DEF LockInv, Free, Expired
  <2> QED BY <1>7, <2>1, <2>2 DEF ReadClaim
<1>8. ASSUME NEW c \in Calls, Step(c) PROVE LockInv'
  <2>0. Idle \in CallStates /\ \A k \in DOMAIN grants : Holding(k) \in CallStates
    BY HoldingTypes
  <2>1. CASE \/ \E w \in Runtimes : AskClaim(c, w)
             \/ AskExpire(c)
             \/ \E k \in DOMAIN grants : AskRenew(c, k)
             \/ \E k \in DOMAIN grants, s \in NewStatuses : AskRelease(c, k, s)
             \/ \E r \in Runs, s \in NewStatuses : AskFinalize(c, r, s)
    BY <2>1, <2>0, <1>4, AskTypes
  <2>2. CASE ReadClaimed(c) \/ ReadExpired(c) \/ ReadFinalizing(c)
    <3>1. call[c].run \in Runs
      BY DEF TypeOK, CallStates
    <3> QED BY <2>2, <3>1, <1>5, <1>6 DEF ReadClaimed, ReadExpired, ReadFinalizing, Asked
  <2>3. CASE CommitClaim(c) \/ CommitRenew(c) \/ CommitRelease(c) \/ CommitExpire(c)
                            \/ CommitFinalize(c)
    BY <2>3, LockCommit
  <2> QED BY <1>7, <1>8, <2>1, <2>2, <2>3 DEF Step
<1> QED BY <1>1, <1>2, <1>8 DEF Next

\* A claim counts an attempt of the run it has selected, which is free.
LEMMA FreeStep ==
    ASSUME TypeOK, CountInv, LockInv, Next, NEW r \in Runs, run'[r].attempts # run[r].attempts
    PROVE  Free(run[r], now)
<1>1. PICK c \in Calls : CommitClaim(c)
  <2>1. \A s \in Runs : \A status : CreateRun(s, status) => run'[r].attempts = run[r].attempts
    BY DEF CreateRun, TypeOK, Rows
  <2>2. run' # run
    OBVIOUS
  <2>3. PICK c \in Calls : Step(c)
    BY <2>1, <2>2 DEF Next, Tick
  <2>4. ~(CommitRenew(c) \/ CommitRelease(c) \/ CommitExpire(c) \/ CommitFinalize(c))
    BY CommitsKeepAttempts
  <2>5. /\ \A request : ~Ask(c, request)
        /\ \A R : ~Selects(c, R)
        /\ ~Refused(c)
    BY <2>2 DEF Ask, Selects, Refused
  <2>6. ~ReadClaim(c) /\ ~ReadClaimed(c) /\ ~ReadExpired(c) /\ ~ReadFinalizing(c)
    BY <2>5 DEF ReadClaim, ReadClaimed, ReadExpired, ReadFinalizing
  <2>7. /\ \A w : ~AskClaim(c, w)
        /\ ~AskExpire(c)
        /\ \A k : ~AskRenew(c, k)
        /\ \A k, s : ~AskRelease(c, k, s)
        /\ \A s, status : ~AskFinalize(c, s, status)
    BY <2>5, Zenon DEF AskClaim, AskExpire, AskRenew, AskRelease, AskFinalize
  <2> QED BY <2>3, <2>4, <2>6, <2>7 DEF Step
<1>2. r \in call[c].selected
  BY <1>1 DEF CommitClaim, Commits
<1>3. Free(run[r], call[c].time)
  BY <1>1, <1>2 DEF LockInv, CommitClaim
<1>4. call[c].time \in Int /\ now \in Int /\ call[c].time <= now /\ run[r].expires \in Int
  BY DEF TypeOK, CallStates, Rows, Times
<1> QED BY <1>3, <1>4 DEF Free, Expired

\* claim_next_run with FOR UPDATE SKIP LOCKED: with row locks every claim is of a run that is
\* queued or whose lease has expired when the claim commits, however many claims, renewals,
\* releases, expirations and finalizations overlap; none revives a run that has ended.
THEOREM LockedClaimsAreFree == ASSUME RowLocks PROVE Spec => ClaimsTakeFreeRuns
<1>1. Init => TypeOK /\ ClaimsHaveRuntime /\ CountInv /\ LockInv
  BY CountInit DEF Init, LockInv, Reading, Idle
<1>2. Spec => [](TypeOK /\ CountInv /\ LockInv)
  BY <1>1, TypeStep, CountStep, LockStep, PTL DEF Spec
<1>3. TypeOK /\ CountInv /\ LockInv /\ [Next]_vars =>
         [\A r \in Runs : run'[r].attempts # run[r].attempts => Free(run[r], now)]_vars
  BY FreeStep
<1> QED BY <1>2, <1>3, PTL DEF Spec, ClaimsTakeFreeRuns

-----------------------------------------------------------------------------
(* One call at a time *)

OneCall == \A c, d \in Calls : c = d

\* What a call has read is still so when it commits.
ReadIsCurrent(c) ==
    /\ call[c].read => \A r \in call[c].selected :
                          call[c].rows[r] = run[r] /\ run[r].status # "absent"
    /\ call[c].op = "finalize" => /\ run[call[c].run].status # "absent"
                                  /\ call[c].status # "absent"
    /\ call[c].op \in {"renew", "release"} =>
          call[c].token \in DOMAIN grants /\ grants[call[c].token].run = call[c].run
    /\ Reading(c, "claim") =>
          \E r \in Runs : /\ call[c].selected = {r}
                          /\ run[r].status = "queued" \/ Expired(run[r], call[c].time)
    /\ Reading(c, "renew") \/ Reading(c, "release") =>
          call[c].selected = {call[c].run} /\ ClaimIsActive(run[call[c].run], c)
    /\ Reading(c, "expire") => \A r \in call[c].selected : Expired(run[r], call[c].time)
    /\ Reading(c, "finalize") =>
          /\ call[c].selected = {call[c].run}
          /\ run[call[c].run].status \in Terminal => run[call[c].run].status = call[c].status

\* A grant that has not ended nor been called back is the claim of its run, or the run
\* has ended under it.
LiveGrantsHold ==
    \A k \in DOMAIN grants : grants[k].until > now /\ ~grants[k].requeued =>
        LET row == run[grants[k].run]
        IN  \/ row.status \in Terminal
            \/ /\ row.status \in {"claimed", "running"}
               /\ row.token = k /\ row.expires = grants[k].until

\* The token of a run is that of its latest grant.
TokenIsLatest ==
    \A r \in Runs : run[r].token # 0 =>
        \A k \in DOMAIN grants : grants[k].run = r => k <= run[r].token

SerialInv ==
    /\ \A c \in Calls : ReadIsCurrent(c)
    /\ LiveGrantsHold
    /\ TokenIsLatest
    /\ LeaseExclusive
    /\ EndIsStamped

\* What each commit makes of the ledger when nothing has changed under it.
LEMMA SerialCommit ==
    ASSUME TypeOK, SerialInv, NEW c \in Calls
    PROVE  /\ CommitClaim(c) => \E r \in Runs :
                 /\ run[r].status = "queued" \/ Expired(run[r], call[c].time)
                 /\ run' = [run EXCEPT ![r] = Claimed(run[r], c, Len(grants) + 1)]
                 /\ grants' = Append(grants, [run |-> r, runtime |-> call[c].runtime,
                                              until |-> call[c].time + Lease, requeued |-> FALSE])
           /\ CommitRenew(c) =>
                 run' = [run EXCEPT ![call[c].run] = Renewed(run[call[c].run], c)]
           /\ CommitRelease(c) =>
                 run' = [run EXCEPT ![call[c].run] = Released(run[call[c].run], call[c].status)]
           /\ CommitExpire(c) =>
                 run' = [r \in Runs |-> IF r \in call[c].selected THEN Released(run[r], "queued")
                                                                ELSE run[r]]
           /\ CommitFinalize(c) =>
                 run' = [run EXCEPT ![call[c].run] = Finalized(run[call[c].run], call[c].status)]
<1>0. /\ ReadIsCurrent(c) /\ run \in [Runs -> Rows] /\ call[c].run \in Runs
      /\ call[c].selected \subseteq Runs
  BY DEF SerialInv, TypeOK, CallStates
<1>1. \A r \in Runs, new \in Rows : Written(run[r], new, run[r]) = new
  BY <1>0, WrittenTypes
<1>2. CASE CommitClaim(c)
  <2> DEFINE token == Len(grants) + 1
  <2>1. PICK r \in Runs : /\ call[c].selected = {r} /\ call[c].rows[r] = run[r]
                          /\ run[r].status = "queued" \/ Expired(run[r], call[c].time)
    <3>1. call[c].read /\ Reading(c, "claim")
      BY <1>2 DEF CommitClaim, Reading
    <3>2. PICK r \in Runs : /\ call[c].selected = {r}
                            /\ run[r].status = "queued" \/ Expired(run[r], call[c].time)
      BY <1>0, <3>1 DEF ReadIsCurrent
    <3>3. call[c].rows[r] = run[r]
      BY <1>0, <3>1, <3>2 DEF ReadIsCurrent
    <3> QED BY <3>2, <3>3
  <2>2. Claimed(run[r], c, token) \in Rows
    <3>1. token \in Tokens
      BY <1>2, SeqElements DEF CommitClaim, Tokens, TypeOK
    <3> HIDE DEF token
    <3> QED BY <2>1, <3>1, NewRows
  <2>3. run' = [s \in Runs |-> IF s \in call[c].selected
                               THEN Written(call[c].rows[s], Claimed(call[c].rows[s], c, token), run[s])
                               ELSE run[s]]
    BY <1>2 DEF CommitClaim, Commits
  <2>4. run' = [run EXCEPT ![r] = Claimed(run[r], c, token)]
    <3> HIDE DEF token
    <3> QED BY <2>1, <2>2, <2>3, <1>0, <1>1
  <2>5. grants' = Append(grants, [run |-> r, runtime |-> call[c].runtime,
                                  until |-> call[c].time + Lease, requeued |-> FALSE])
    BY <2>1, <1>2 DEF CommitClaim
  <2> QED BY <1>2, <2>1, <2>4, <2>5 DEF CommitClaim, CommitRenew, CommitRelease, CommitExpire,
                                         CommitFinalize, Reading
<1>3. ASSUME CommitRenew(c)
      PROVE  run' = [run EXCEPT ![call[c].run] = Renewed(run[call[c].run], c)]
  <2>1. call[c].selected = {call[c].run} /\ call[c].rows[call[c].run] = run[call[c].run]
    BY <1>0, <1>3 DEF ReadIsCurrent, CommitRenew, Reading
  <2>2. Renewed(run[call[c].run], c) \in Rows
    BY <1>0, <2>1, NewRows
  <2>4. Written(call[c].rows[call[c].run], Renewed(run[call[c].run], c), run[call[c].run]) = Renewed(run[call[c].run], c)
    BY <1>0, <1>1, <2>1, <2>2
  <2>3. run' = [r \in Runs |-> IF r \in call[c].selected
                               THEN Written(call[c].rows[r], Renewed(call[c].rows[r], c), run[r])
                               ELSE run[r]]
    BY <1>3 DEF CommitRenew, Commits
  <2> QED BY <1>0, <2>1, <2>3, <2>4
<1>4. ASSUME CommitRelease(c)
      PROVE  run' = [run EXCEPT ![call[c].run] = Released(run[call[c].run], call[c].status)]
  <2>1. call[c].selected = {call[c].run} /\ call[c].rows[call[c].run] = run[call[c].run]
    BY <1>0, <1>4 DEF ReadIsCurrent, CommitRelease, Reading
  <2>2. Released(run[call[c].run], call[c].status) \in Rows
    BY <1>0, <2>1, NewRows
  <2>4. Written(call[c].rows[call[c].run], Released(run[call[c].run], call[c].status), run[call[c].run]) = Released(run[call[c].run], call[c].status)
    BY <1>0, <1>1, <2>1, <2>2
  <2>3. run' = [r \in Runs |-> IF r \in call[c].selected
                               THEN Written(call[c].rows[r], Released(call[c].rows[r], call[c].status), run[r])
                               ELSE run[r]]
    BY <1>4 DEF CommitRelease, Commits
  <2> QED BY <1>0, <2>1, <2>3, <2>4
<1>5. ASSUME CommitExpire(c)
      PROVE  run' = [r \in Runs |-> IF r \in call[c].selected THEN Released(run[r], "queued")
                                                             ELSE run[r]]
  <2>1. \A r \in call[c].selected : call[c].rows[r] = run[r]
    BY <1>0, <1>5 DEF ReadIsCurrent, CommitExpire, Reading
  <2>2. \A r \in call[c].selected : Released(run[r], "queued") \in Rows
    BY <1>0, <2>1, NewRows DEF Statuses
  <2> QED BY <1>0, <1>1, <1>5, <2>1, <2>2 DEF CommitExpire, Commits
<1>6. ASSUME CommitFinalize(c)
      PROVE  run' = [run EXCEPT ![call[c].run] = Finalized(run[call[c].run], call[c].status)]
  <2>1. call[c].selected = {call[c].run} /\ call[c].rows[call[c].run] = run[call[c].run]
    BY <1>0, <1>6 DEF ReadIsCurrent, CommitFinalize, Reading
  <2>2. Finalized(run[call[c].run], call[c].status) \in Rows
    BY <1>0, <2>1, NewRows
  <2>4. Written(call[c].rows[call[c].run], Finalized(run[call[c].run], call[c].status), run[call[c].run]) = Finalized(run[call[c].run], call[c].status)
    BY <1>0, <1>1, <2>1, <2>2
  <2>3. run' = [r \in Runs |-> IF r \in call[c].selected
                               THEN Written(call[c].rows[r], Finalized(call[c].rows[r], call[c].status), run[r])
                               ELSE run[r]]
    BY <1>6 DEF CommitFinalize, Commits
  <2> QED BY <1>0, <2>1, <2>3, <2>4
<1> QED BY <1>2, <1>3, <1>4, <1>5, <1>6 DEF CommitClaim, Reading

\* What the operations do to the token of a row.
LEMMA RowTokens ==
    ASSUME NEW row \in Rows, NEW c
    PROVE  /\ Renewed(row, c).token = row.token
           /\ \A status : Released(row, status).token = 0
           /\ \A status : /\ Finalized(row, status).status = status
                          /\ status \in Terminal => Finalized(row, status).token = 0
                          /\ status \notin Terminal =>
                                /\ Finalized(row, status).token = row.token
                                /\ Finalized(row, status).expires = row.expires
BY DEF Rows, Renewed, Released, Finalized

\* Whoever still holds a run that can be claimed, or taken back, was called back.
LEMMA NoLiveGrant ==
    ASSUME TypeOK, LiveGrantsHold, NEW r \in Runs, NEW c \in Calls,
           run[r].status = "queued" \/ Expired(run[r], call[c].time)
    PROVE  \A k \in LiveOf(r) : grants[k].requeued
<1>1. call[c].time <= now /\ call[c].time \in Int /\ now \in Int /\ run[r].expires \in Int
  BY DEF TypeOK, CallStates, Rows, Times
<1>2. run[r].status \notin Terminal
  BY DEF Expired, Terminal
<1> QED BY <1>1, <1>2 DEF LiveGrantsHold, LiveOf, Expired

\* The parts of SerialInv about the grants.
GrantsInv == LiveGrantsHold /\ TokenIsLatest /\ LeaseExclusive

\* The grants keep to their part when a claim commits.
LEMMA LiveClaim ==
    ASSUME TypeOK, SerialInv, NEW c \in Calls, CommitClaim(c)
    PROVE  GrantsInv'
<1>0. /\ LiveGrantsHold /\ TokenIsLatest /\ LeaseExclusive /\ run \in [Runs -> Rows]
      /\ \A k \in DOMAIN grants : grants[k] \in Grants /\ grants[k].run \in Runs
      /\ Len(grants) \in Nat /\ DOMAIN grants = 1..Len(grants)
  BY GrantFacts DEF SerialInv, TypeOK
<1> DEFINE token == Len(grants) + 1
<1>1. PICK r \in Runs :
         /\ run[r].status = "queued" \/ Expired(run[r], call[c].time)
         /\ run' = [run EXCEPT ![r] = Claimed(run[r], c, token)]
         /\ grants' = Append(grants, [run |-> r, runtime |-> call[c].runtime,
                                      until |-> call[c].time + Lease, requeued |-> FALSE])
  BY SerialCommit
<1>2. /\ run'[r].status = "claimed" /\ run'[r].token = token
      /\ run'[r].expires = call[c].time + Lease
      /\ \A s \in Runs \ {r} : run'[s] = run[s]
  BY <1>1, <1>0 DEF Claimed, Rows
<1>3. /\ DOMAIN grants' = 1..token /\ now' = now
      /\ \A k \in DOMAIN grants : k \in DOMAIN grants' /\ k < token /\ grants'[k] = grants[k]
      /\ grants'[token].run = r /\ grants'[token].until = call[c].time + Lease
  <2>1. now' = now
    BY DEF CommitClaim, Commits
  <2> QED BY <2>1, <1>1, <1>0
<1>4. \A k \in LiveOf(r) : grants[k].requeued
  BY <1>1, <1>0, NoLiveGrant
<1> HIDE DEF token
<1>5. \A k \in DOMAIN grants' : k \in DOMAIN grants \/ k = token
  BY <1>0, <1>3 DEF token
<1>6. LiveGrantsHold'
  <2> SUFFICES ASSUME NEW k \in DOMAIN grants', grants'[k].until > now, ~grants'[k].requeued
               PROVE  LET row == run'[grants'[k].run]
                      IN  \/ row.status \in Terminal
                          \/ /\ row.status \in {"claimed", "running"}
                             /\ row.token = k /\ row.expires = grants'[k].until
    BY <1>3 DEF LiveGrantsHold
  <2>1. CASE k = token
    BY <2>1, <1>2, <1>3
  <2>2. CASE k \in DOMAIN grants
    <3>1. grants[k].run # r
      BY <2>2, <1>3, <1>4 DEF LiveOf
    <3> QED BY <2>2, <3>1, <1>0, <1>2, <1>3 DEF LiveGrantsHold
  <2> QED BY <2>1, <2>2, <1>5
<1>7. TokenIsLatest'
  <2> SUFFICES ASSUME NEW s \in Runs, run'[s].token # 0, NEW k \in DOMAIN grants',
                      grants'[k].run = s
               PROVE  k <= run'[s].token
    BY DEF TokenIsLatest
  <2>1. CASE s = r
    BY <2>1, <1>2, <1>3
  <2>2. CASE s # r
    BY <2>2, <1>0, <1>2, <1>3, <1>5 DEF TokenIsLatest
  <2> QED BY <2>1, <2>2
<1>8. LeaseExclusive'
  <2> SUFFICES ASSUME NEW s \in Runs, NEW i \in LiveOf(s)', NEW k \in LiveOf(s)', i < k
               PROVE  grants'[i].requeued
    BY DEF LeaseExclusive
  <2>1. i \in DOMAIN grants /\ grants'[i] = grants[i] /\ i \in LiveOf(s)
    BY <1>0, <1>3, <1>5 DEF LiveOf
  <2>2. CASE k = token
    BY <2>1, <2>2, <1>3, <1>4 DEF LiveOf
  <2>3. CASE k \in DOMAIN grants
    <3>1. k \in LiveOf(s)
      BY <2>3, <1>3 DEF LiveOf
    <3> QED BY <2>1, <3>1, <1>0 DEF LeaseExclusive
  <2> QED BY <2>2, <2>3, <1>5 DEF LiveOf
<1> QED BY <1>6, <1>7, <1>8 DEF GrantsInv

\* The grants keep to their part when a renewal or a release commits.
LEMMA LiveMove ==
    ASSUME TypeOK, SerialInv, NEW c \in Calls, CommitRenew(c) \/ CommitRelease(c)
    PROVE  GrantsInv'
<1> DEFINE r == call[c].run
           k == call[c].token
<1>0. /\ LiveGrantsHold /\ TokenIsLatest /\ LeaseExclusive /\ ReadIsCurrent(c)
      /\ run \in [Runs -> Rows] /\ r \in Runs
      /\ \A j \in DOMAIN grants : grants[j] \in Grants /\ grants[j].run \in Runs
      /\ DOMAIN grants \subseteq Nat \ {0}
  BY GrantFacts DEF SerialInv, TypeOK, CallStates
<1>1. /\ k \in DOMAIN grants /\ grants[k].run = r
      /\ run[r].token = k /\ run[r].status = "claimed" /\ now' = now
  BY <1>0 DEF CommitRenew, CommitRelease, Reading, ReadIsCurrent, ClaimIsActive, Commits
<1>2. \A j \in LiveOf(r) \ {k} : grants[j].requeued /\ j < k
  <2>1. \A j \in LiveOf(r) : j \in DOMAIN grants /\ grants[j].run = r
    BY DEF LiveOf
  <2>2. \A j \in LiveOf(r) : j <= k
    BY <2>1, <1>0, <1>1 DEF TokenIsLatest
  <2>3. \A j \in LiveOf(r) \ {k} : grants[j].requeued
    BY <2>1, <1>0, <1>1 DEF LiveGrantsHold, LiveOf, Terminal
  <2> QED BY <2>1, <2>2, <2>3, <1>0, <1>1
<1>3. \E until : grants' = [grants EXCEPT ![k].until = until]
  BY DEF CommitRenew, CommitRelease
<1>4. /\ DOMAIN grants' = DOMAIN grants
      /\ \A j \in DOMAIN grants : /\ grants'[j].run = grants[j].run
                                  /\ grants'[j].requeued <=> grants[j].requeued
                                  /\ j # k => grants'[j].until = grants[j].until
  BY <1>0, <1>1, <1>3 DEF Grants
<1>5. \A s \in Runs \ {r} : run'[s] = run[s]
  BY <1>0, SerialCommit
<1>6. run'[r].token \in {0, k}
  <2>1. CASE CommitRenew(c)
    BY <2>1, <1>0, <1>1, SerialCommit, RowTokens
  <2>2. CASE CommitRelease(c)
    <3>1. Released(run[r], call[c].status).token = 0
      BY <1>0, RowTokens
    <3>2. run' = [run EXCEPT ![r] = Released(run[r], call[c].status)]
      BY <2>2, SerialCommit
    <3> QED BY <3>1, <3>2, <1>0
  <2> QED BY <2>1, <2>2
<1> HIDE DEF r
<1>7. grants'[k].until > now =>
         run'[r].status = "claimed" /\ run'[r].token = k /\ run'[r].expires = grants'[k].until
  <2>1. CASE CommitRenew(c)
    <3>1. run' = [run EXCEPT ![r] = Renewed(run[r], c)]
      BY <2>1, SerialCommit DEF r
    <3>2. grants'[k].until = call[c].time + Lease
      BY <2>1, <1>0, <1>1 DEF CommitRenew, Grants
    <3> QED BY <3>1, <3>2, <1>0, <1>1 DEF Renewed, Rows
  <2>2. CASE CommitRelease(c)
    BY <2>2, <1>0, <1>1 DEF CommitRelease, Grants, TypeOK
  <2> QED BY <2>1, <2>2
<1> HIDE DEF k
<1>8. \A s \in Runs, j \in DOMAIN grants : j # k => (j \in LiveOf(s)' <=> j \in LiveOf(s))
  BY <1>1, <1>4 DEF LiveOf
<1>9. LiveGrantsHold'
  <2> SUFFICES ASSUME NEW j \in DOMAIN grants', grants'[j].until > now, ~grants'[j].requeued
               PROVE  LET row == run'[grants'[j].run]
                      IN  \/ row.status \in Terminal
                          \/ /\ row.status \in {"claimed", "running"}
                             /\ row.token = j /\ row.expires = grants'[j].until
    BY <1>1 DEF LiveGrantsHold
  <2>1. CASE j = k
    BY <2>1, <1>1, <1>4, <1>7
  <2>2. CASE j # k
    <3>1. grants[j].run # r
      BY <2>2, <1>1, <1>2, <1>4 DEF LiveOf
    <3> QED BY <2>2, <3>1, <1>0, <1>4, <1>5 DEF LiveGrantsHold
  <2> QED BY <2>1, <2>2
<1>10. TokenIsLatest'
  <2>1. \A s \in Runs : run'[s].token # 0 => run'[s].token = run[s].token
    BY <1>1, <1>5, <1>6
  <2> QED BY <2>1, <1>0, <1>4 DEF TokenIsLatest
<1>11. LeaseExclusive'
  <2> SUFFICES ASSUME NEW s \in Runs, NEW i \in LiveOf(s)', NEW j \in LiveOf(s)', i < j
               PROVE  grants'[i].requeued
    BY DEF LeaseExclusive
  <2>0. /\ i \in DOMAIN grants /\ j \in DOMAIN grants
        /\ grants[i].run = s /\ grants[j].run = s /\ i \in Nat /\ j \in Nat
    BY <1>0, <1>4 DEF LiveOf
  <2>1. CASE i = k
    <3>1. j \in LiveOf(r) \ {k}
      BY <2>0, <2>1, <1>1, <1>8
    <3> QED BY <2>0, <2>1, <3>1, <1>2
  <2>2. CASE i # k /\ j = k
    <3>1. i \in LiveOf(r) \ {k}
      BY <2>0, <2>2, <1>1, <1>8
    <3> QED BY <2>0, <3>1, <1>2, <1>4
  <2>3. CASE i # k /\ j # k
    BY <2>0, <2>3, <1>0, <1>4, <1>8 DEF LeaseExclusive
  <2> QED BY <2>1, <2>2, <2>3
<1> QED BY <1>9, <1>10, <1>11 DEF GrantsInv

\* The grants keep to their part when the expired claims are released.
LEMMA LiveExpire ==
    ASSUME TypeOK, SerialInv, NEW c \in Calls, CommitExpire(c)
    PROVE  GrantsInv'
<1>0. /\ LiveGrantsHold /\ TokenIsLatest /\ LeaseExclusive /\ ReadIsCurrent(c)
      /\ run \in [Runs -> Rows] /\ call[c].selected \subseteq Runs
      /\ \A k \in DOMAIN grants : grants[k].run \in Runs
  BY GrantFacts DEF SerialInv, TypeOK, CallStates
<1>1. /\ run' = [r \in Runs |-> IF r \in call[c].selected THEN Released(run[r], "queued")
                                                        ELSE run[r]]
      /\ grants' = grants /\ now' = now
      /\ \A r \in call[c].selected : Expired(run[r], call[c].time)
  BY <1>0, SerialCommit DEF CommitExpire, Commits, Reading, ReadIsCurrent
<1>2. \A r \in Runs : run'[r].token # 0 => run'[r] = run[r]
  BY <1>0, <1>1, RowTokens
<1>3. \A r \in call[c].selected : \A k \in LiveOf(r) : grants[k].requeued
  BY <1>0, <1>1, NoLiveGrant
<1>4. LiveGrantsHold'
  <2>1. \A k \in DOMAIN grants : grants[k].until > now /\ ~grants[k].requeued =>
                                 run'[grants[k].run] = run[grants[k].run]
    BY <1>0, <1>1, <1>3 DEF LiveOf
  <2> QED BY <2>1, <1>0, <1>1 DEF LiveGrantsHold
<1>5. TokenIsLatest'
  BY <1>0, <1>1, <1>2 DEF TokenIsLatest
<1>6. LeaseExclusive'
  BY <1>0, <1>1 DEF LeaseExclusive, LiveOf
<1> QED BY <1>4, <1>5, <1>6 DEF GrantsInv

\* The grants keep to their part when a run is finalized: what is live in the queue has
\* been called back.
LEMMA LiveFinalize ==
    ASSUME TypeOK, SerialInv, NEW c \in Calls, CommitFinalize(c)
    PROVE  GrantsInv'
<1> PICK r, status : r = call[c].run /\ status = call[c].status
  OBVIOUS
<1>0. /\ LiveGrantsHold /\ TokenIsLatest /\ LeaseExclusive /\ ReadIsCurrent(c)
      /\ run \in [Runs -> Rows] /\ r \in Runs /\ status \in Statuses
      /\ \A k \in DOMAIN grants : grants[k].run \in Runs
  BY GrantFacts DEF SerialInv, TypeOK, CallStates
<1>1. run' = [run EXCEPT ![r] = Finalized(run[r], status)] /\ now' = now
  BY SerialCommit DEF CommitFinalize, Commits
<1>2. /\ DOMAIN grants' = DOMAIN grants
      /\ \A k \in DOMAIN grants :
            /\ grants'[k].run = grants[k].run /\ grants'[k].until = grants[k].until
            /\ grants'[k].requeued <=>
                  grants[k].requeued \/ (status = "queued" /\ k \in LiveOf(r))
  BY FinalizeGrants, Zenon
<1>3. run[r].status \in Terminal => run[r].status = status
  BY <1>0 DEF CommitFinalize, Reading, ReadIsCurrent
<1>4. status # "absent"
  <2>1. call[c].op = "finalize" => call[c].status # "absent"
    BY DEF SerialInv, ReadIsCurrent
  <2> QED BY <2>1 DEF CommitFinalize, Reading
<1>5. /\ run'[r].status = status
      /\ status \in Terminal => run'[r].token = 0
      /\ status \notin Terminal => run'[r].token = run[r].token /\ run'[r].expires = run[r].expires
      /\ \A s \in Runs \ {r} : run'[s] = run[s]
  BY <1>0, <1>1, RowTokens
<1>6. \A s \in Runs : LiveOf(s)' = LiveOf(s)
  BY <1>1, <1>2 DEF LiveOf
<1>7. LiveGrantsHold'
  <2> SUFFICES ASSUME NEW k \in DOMAIN grants, grants[k].until > now, ~grants'[k].requeued
               PROVE  LET row == run'[grants[k].run]
                      IN  \/ row.status \in Terminal
                          \/ /\ row.status \in {"claimed", "running"}
                             /\ row.token = k /\ row.expires = grants[k].until
    BY <1>1, <1>2 DEF LiveGrantsHold
  <2>1. ~grants[k].requeued
    BY <1>2
  <2>2. CASE grants[k].run = r
    <3>1. status # "queued"
      BY <2>2, <1>2 DEF LiveOf
    <3> QED BY <2>1, <2>2, <3>1, <1>0, <1>3, <1>4, <1>5 DEF LiveGrantsHold, Statuses, Terminal
  <2>3. CASE grants[k].run # r
    BY <2>1, <2>3, <1>0, <1>5 DEF LiveGrantsHold
  <2> QED BY <2>2, <2>3
<1>8. TokenIsLatest'
  <2>1. \A s \in Runs : run'[s].token # 0 => run'[s].token = run[s].token
    BY <1>0, <1>5
  <2> QED BY <2>1, <1>0, <1>2 DEF TokenIsLatest
<1>9. LeaseExclusive'
  <2>1. \A s \in Runs : \A k \in LiveOf(s) : grants[k].requeued => grants'[k].requeued
    BY <1>2 DEF LiveOf
  <2> QED BY <2>1, <1>0, <1>6 DEF LeaseExclusive
<1> QED BY <1>7, <1>8, <1>9 DEF GrantsInv

\* The grants keep to their part whatever commits.
LEMMA LiveCommit ==
    ASSUME TypeOK, SerialInv, NEW c \in Calls,
           CommitClaim(c) \/ CommitRenew(c) \/ CommitRelease(c) \/ CommitExpire(c) \/ CommitFinalize(c)
    PROVE  GrantsInv'
BY LiveClaim, LiveMove, LiveExpire, LiveFinalize

\* Commits stamp the end of the run with the terminal status, and bring back
\* no run that has ended.
LEMMA StampCommit ==
    ASSUME TypeOK, SerialInv, NEW c \in Calls,
           CommitClaim(c) \/ CommitRenew(c) \/ CommitRelease(c) \/ CommitExpire(c) \/ CommitFinalize(c)
    PROVE  /\ EndIsStamped'
           /\ \A r \in Runs : run[r].status \in Terminal => run'[r].status = run[r].status
<1>0. /\ ReadIsCurrent(c) /\ run \in [Runs -> Rows] /\ call[c].run \in Runs
      /\ \A r \in Runs : run[r].finished \in BOOLEAN /\ run[r] \in Rows
      /\ EndIsStamped
  BY DEF SerialInv, TypeOK, CallStates, Rows
<1>1. ASSUME NEW r \in Runs, NEW status, run[r].status \in Terminal => run[r].status = status
      PROVE  /\ Released(run[r], status).finished <=> Released(run[r], status).status \in Terminal
             /\ run[r].status \in Terminal => Released(run[r], status).status = run[r].status
  BY <1>0, <1>1 DEF Released, EndIsStamped, Rows
<1>2. ASSUME NEW r \in Runs, Expired(run[r], call[c].time) \/ run[r].status = "queued"
                            \/ run[r].status = "claimed"
      PROVE  run[r].status \notin Terminal
  BY <1>2 DEF Expired, Terminal
<1>3. CASE CommitClaim(c)
  <2>1. PICK r \in Runs :
           /\ run[r].status = "queued" \/ Expired(run[r], call[c].time)
           /\ run' = [run EXCEPT ![r] = Claimed(run[r], c, Len(grants) + 1)]
    BY <1>3, SerialCommit
  <2>2. run[r].status \notin Terminal
    BY <2>1, <1>2
  <2>3. run'[r].status = "claimed" /\ run'[r].finished = run[r].finished
    BY <2>1, <1>0 DEF Claimed, Rows
  <2> QED BY <2>1, <2>2, <2>3, <1>0 DEF EndIsStamped, Terminal
<1>4. CASE CommitRenew(c)
  <2>1. run' = [run EXCEPT ![call[c].run] = Renewed(run[call[c].run], c)]
    BY <1>4, SerialCommit
  <2>2. \A r \in Runs : run'[r].status = run[r].status /\ run'[r].finished = run[r].finished
    BY <2>1, <1>0 DEF Renewed, Rows
  <2> QED BY <2>2, <1>0 DEF EndIsStamped
<1>5. CASE CommitRelease(c)
  <2>1. run' = [run EXCEPT ![call[c].run] = Released(run[call[c].run], call[c].status)]
    BY <1>5, SerialCommit
  <2>2. run[call[c].run].status \notin Terminal
    BY <1>0, <1>2, <1>5 DEF CommitRelease, Reading, ReadIsCurrent, ClaimIsActive
  <2>3. /\ Released(run[call[c].run], call[c].status).finished
              <=> Released(run[call[c].run], call[c].status).status \in Terminal
    BY <1>0, <1>1, <2>2
  <2> QED BY <2>1, <2>2, <2>3, <1>0 DEF EndIsStamped
<1>6. CASE CommitExpire(c)
  <2>1. /\ run' = [r \in Runs |-> IF r \in call[c].selected THEN Released(run[r], "queued")
                                                          ELSE run[r]]
        /\ \A r \in call[c].selected : Expired(run[r], call[c].time)
    BY <1>6, <1>0, SerialCommit DEF CommitExpire, Reading, ReadIsCurrent
  <2>2. ASSUME NEW r \in Runs
        PROVE  /\ run'[r].finished <=> run'[r].status \in Terminal
               /\ run[r].status \in Terminal => run'[r].status = run[r].status
    <3>1. CASE r \in call[c].selected
      BY <2>1, <3>1, <1>1, <1>2
    <3>2. CASE r \notin call[c].selected
      BY <2>1, <3>2, <1>0 DEF EndIsStamped
    <3> QED BY <3>1, <3>2
  <2> QED BY <2>2 DEF EndIsStamped
<1>7. CASE CommitFinalize(c)
  <2> DEFINE r == call[c].run
             status == call[c].status
  <2>1. run' = [run EXCEPT ![r] = Finalized(run[r], status)]
    BY <1>7, SerialCommit
  <2>2. run[r].status \in Terminal => run[r].status = status
    BY <1>0, <1>7 DEF CommitFinalize, Reading, ReadIsCurrent
  <2>3. /\ Finalized(run[r], status).finished <=> Finalized(run[r], status).status \in Terminal
        /\ run[r].status \in Terminal => Finalized(run[r], status).status = run[r].status
    <3>1. CASE status \in Terminal
      BY <3>1, <1>0, <1>1, <2>2 DEF Finalized
    <3>2. CASE status \notin Terminal
      BY <3>2, <1>0, <2>2 DEF Finalized, EndIsStamped, Rows
    <3> QED BY <3>1, <3>2
  <2> HIDE DEF r, status
  <2> QED BY <2>1, <2>3, <1>0 DEF EndIsStamped
<1> QED BY <1>3, <1>4, <1>5, <1>6, <1>7

\* A call that commits, ends or is refused leaves nothing read behind.
LEMMA SerialIdle ==
    ASSUME OneCall, TypeOK, NEW c \in Calls, call' = [call EXCEPT ![c] = Idle]
    PROVE  \A d \in Calls : ReadIsCurrent(d)'
<1>1. \A d \in Calls : call'[d] = Idle
  BY DEF OneCall, TypeOK
<1>2. Idle.op = "none" /\ Idle.read = FALSE
  BY DEF Idle
<1>3. ASSUME NEW d \in Calls PROVE ReadIsCurrent(d)'
  <2>1. call'[d].op = "none" /\ call'[d].read = FALSE
    BY <1>1, <1>2
  <2> QED BY <2>1 DEF ReadIsCurrent, Reading
<1> QED BY <1>3

\* With one call at a time every step keeps what was read current.
LEMMA SerialStep ==
    ASSUME OneCall
    PROVE  TypeOK /\ SerialInv /\ [Next]_vars => SerialInv'
<1> SUFFICES ASSUME TypeOK, SerialInv, [Next]_vars PROVE SerialInv'
  OBVIOUS
<1>0. /\ \A c \in Calls : ReadIsCurrent(c) /\ call[c] \in CallStates
      /\ LiveGrantsHold /\ TokenIsLatest /\ LeaseExclusive /\ EndIsStamped
      /\ run \in [Runs -> Rows] /\ now \in Int
      /\ \A k \in DOMAIN grants : grants[k] \in Grants /\ grants[k].run \in Runs
  BY GrantFacts DEF SerialInv, TypeOK
<1>1. CASE UNCHANGED vars
  <2>1. \A c \in Calls : ReadIsCurrent(c)'
    BY <1>0, <1>1 DEF vars, ReadIsCurrent, Reading, ClaimIsActive
  <2> QED BY <1>0, <1>1, <2>1 DEF vars, SerialInv, LiveGrantsHold, TokenIsLatest,
                                  LeaseExclusive, LiveOf, EndIsStamped
<1>2. CASE Tick
  <2>1. \A c \in Calls : ReadIsCurrent(c)'
    BY <1>0, <1>2 DEF Tick, ReadIsCurrent, Reading, ClaimIsActive
  <2>2. \A k \in DOMAIN grants : grants[k].until > now + 1 => grants[k].until > now
    BY <1>0 DEF Grants, Times
  <2>3. LiveGrantsHold'
    BY <1>0, <1>2, <2>2 DEF Tick, LiveGrantsHold
  <2>4. \A r \in Runs : LiveOf(r)' \subseteq LiveOf(r)
    BY <1>2, <2>2 DEF Tick, LiveOf
  <2>5. TokenIsLatest' /\ LeaseExclusive' /\ EndIsStamped'
    BY <1>0, <1>2, <2>4 DEF Tick, TokenIsLatest, LeaseExclusive, EndIsStamped
  <2> QED BY <2>1, <2>3, <2>5 DEF SerialInv
<1>3. ASSUME NEW r \in Runs, NEW s \in {"queued", "running"}, CreateRun(r, s) PROVE SerialInv'
  <2>1. /\ run[r].status = "absent" /\ run'[r].status = s /\ run'[r].finished = run[r].finished
        /\ \A t \in Runs \ {r} : run'[t] = run[t]
        /\ run'[r].token = run[r].token
        /\ call' = call /\ grants' = grants /\ now' = now
    BY <1>0, <1>3 DEF CreateRun, Rows
  <2>2. \A t \in Runs : run[t].status # "absent" => run'[t] = run[t]
    BY <2>1
  <2>3. ASSUME NEW c \in Calls PROVE ReadIsCurrent(c)'
    <3>1. ReadIsCurrent(c) /\ call[c].run \in Runs /\ call[c].selected \subseteq Runs
      BY <1>0 DEF CallStates
    <3>2. \A t \in call[c].selected : call[c].read => run'[t] = run[t]
      BY <3>1, <2>2 DEF ReadIsCurrent
    <3> QED BY <3>1, <3>2, <2>1, <2>2 DEF ReadIsCurrent, Reading, ClaimIsActive, Expired, Terminal
  <2>4. LiveGrantsHold'
    <3>1. \A k \in DOMAIN grants : grants[k].until > now /\ ~grants[k].requeued =>
             run[grants[k].run].status # "absent"
      BY <1>0 DEF LiveGrantsHold, Terminal
    <3> QED BY <3>1, <2>1, <2>2, <1>0 DEF LiveGrantsHold
  <2>5. EndIsStamped'
    BY <2>1, <1>0 DEF EndIsStamped, Terminal
  <2>6. TokenIsLatest' /\ LeaseExclusive'
    BY <2>1, <1>0 DEF TokenIsLatest, LeaseExclusive, LiveOf
  <2> QED BY <2>3, <2>4, <2>5, <2>6 DEF SerialInv
<1>4. ASSUME UNCHANGED <<run, grants, now>>, \A c \in Calls : ReadIsCurrent(c)'
      PROVE  SerialInv'
  BY <1>0, <1>4 DEF SerialInv, LiveGrantsHold, TokenIsLatest, LeaseExclusive, LiveOf, EndIsStamped
<1>5. ASSUME NEW c \in Calls, NEW request \in CallStates, Ask(c, request), request.read = FALSE,
             request.op = "finalize" => /\ run[request.run].status # "absent"
                                        /\ request.status # "absent",
             request.op \in {"renew", "release"} =>
                request.token \in DOMAIN grants /\ grants[request.token].run = request.run
      PROVE  SerialInv'
  <2>1. call'[c] = [request EXCEPT !.time = now]
    BY <1>5 DEF Ask, TypeOK
  <2>2. ReadIsCurrent(c)'
    BY <1>5, <2>1 DEF Ask, ReadIsCurrent, Reading, CallStates
  <2> QED BY <1>4, <1>5, <2>2 DEF Ask, OneCall
<1>6. ASSUME NEW c \in Calls, Refused(c) PROVE SerialInv'
  BY <1>4, <1>6, SerialIdle DEF Refused
<1>7. ASSUME NEW c \in Calls, NEW R \in SUBSET Runs, Selects(c, R), ReadIsCurrent(c)'
      PROVE  SerialInv'
  BY <1>4, <1>7 DEF Selects, OneCall
<1>8. ASSUME NEW c \in Calls, NEW R \in SUBSET Runs, Selects(c, R)
      PROVE  /\ call'[c].op = call[c].op /\ call'[c].read /\ call'[c].run = call[c].run
             /\ call'[c].token = call[c].token /\ call'[c].time = call[c].time
             /\ call'[c].runtime = call[c].runtime /\ call'[c].status = call[c].status
             /\ call'[c].selected = R /\ \A r \in R : call'[c].rows[r] = run[r]
             /\ run' = run /\ grants' = grants
  BY <1>0, <1>8 DEF Selects, TypeOK, CallStates
<1>9. ASSUME NEW c \in Calls, Step(c) PROVE SerialInv'
  <2>0. call[c].run \in Runs /\ ReadIsCurrent(c)
    BY <1>0 DEF CallStates
  <2>1. CASE \E w \in Runtimes : AskClaim(c, w)
    <3>1. PICK w \in Runtimes : AskClaim(c, w)
      BY <2>1
    <3> DEFINE request == [Idle EXCEPT !.op = "claim", !.runtime = w]
    <3>2. request \in CallStates
      BY HoldingTypes DEF CallStates, Ops
    <3>3. Ask(c, request) /\ request.read = FALSE /\ request.op = "claim"
      BY <3>1 DEF AskClaim, Idle
    <3> HIDE DEF request
    <3> QED BY <3>2, <3>3, <1>5
  <2>2. CASE AskExpire(c)
    <3> DEFINE request == [Idle EXCEPT !.op = "expire"]
    <3>2. request \in CallStates
      BY HoldingTypes DEF CallStates, Ops
    <3>3. Ask(c, request) /\ request.read = FALSE /\ request.op = "expire"
      BY <2>2 DEF AskExpire, Idle
    <3> HIDE DEF request
    <3> QED BY <3>2, <3>3, <1>5
  <2>3. CASE \E k \in DOMAIN grants : AskRenew(c, k)
    <3>1. PICK k \in DOMAIN grants : AskRenew(c, k)
      BY <2>3
    <3> DEFINE request == [Holding(k) EXCEPT !.op = "renew"]
    <3>2. request \in CallStates
      BY HoldingTypes DEF CallStates, Ops
    <3>3. /\ Ask(c, request) /\ request.read = FALSE /\ request.op = "renew"
          /\ request.token = k /\ request.run = grants[k].run
      BY <3>1 DEF AskRenew, Holding, Idle
    <3> HIDE DEF request
    <3> QED BY <3>1, <3>2, <3>3, <1>5
  <2>4. CASE \E k \in DOMAIN grants, s \in NewStatuses : AskRelease(c, k, s)
    <3>1. PICK k \in DOMAIN grants, s \in NewStatuses : AskRelease(c, k, s)
      BY <2>4
    <3> DEFINE request == [Holding(k) EXCEPT !.op = "release", !.status = s]
    <3>2. request \in CallStates
      BY HoldingTypes DEF CallStates, Ops
    <3>3. /\ Ask(c, request) /\ request.read = FALSE /\ request.op = "release"
          /\ request.token = k /\ request.run = grants[k].run
      BY <3>1 DEF AskRelease, Holding, Idle
    <3> HIDE DEF request
    <3> QED BY <3>1, <3>2, <3>3, <1>5
  <2>5. CASE \E r \in Runs, s \in NewStatuses : AskFinalize(c, r, s)
    <3>1. PICK r \in Runs, s \in NewStatuses : AskFinalize(c, r, s)
      BY <2>5
    <3> DEFINE request == [Idle EXCEPT !.op = "finalize", !.run = r, !.status = s]
    <3>2. request \in CallStates
      BY HoldingTypes DEF CallStates, Ops
    <3>3. /\ Ask(c, request) /\ request.read = FALSE /\ request.op = "finalize"
          /\ request.run = r /\ run[r].status # "absent" /\ request.status # "absent"
      BY <3>1 DEF AskFinalize, Idle
    <3> HIDE DEF request
    <3> QED BY <3>2, <3>3, <1>5
  <2>6. CASE ReadClaim(c)
    <3>1. ASSUME NEW r \in Runs, Claimable(r, call[c].runtime, call[c].time), Selects(c, {r}),
                 Asked(c, "claim")
          PROVE  SerialInv'
      <4>1. ReadIsCurrent(c)'
        BY <1>8, <3>1, <2>0 DEF ReadIsCurrent, Reading, Claimable, Expired, Asked
      <4> QED BY <4>1, <3>1, <1>7
    <3> QED BY <2>6, <3>1, <1>6 DEF ReadClaim
  <2>7. CASE ReadClaimed(c)
    <3>1. CASE ClaimIsActive(run[call[c].run], c) /\ Selects(c, {call[c].run})
      <4>1. ReadIsCurrent(c)'
        BY <1>8, <2>0, <2>7, <3>1 DEF ReadIsCurrent, Reading, ReadClaimed, Asked, ClaimIsActive
      <4> QED BY <4>1, <3>1, <2>0, <1>7
    <3> QED BY <2>7, <3>1, <1>6 DEF ReadClaimed
  <2>8. CASE ReadExpired(c)
    <3> DEFINE R == {r \in Runs : Expired(run[r], call[c].time)}
    <3>1. Selects(c, R) /\ R \in SUBSET Runs /\ Asked(c, "expire")
      BY <2>8 DEF ReadExpired
    <3>2. \A r \in R : Expired(run[r], call[c].time) /\ run[r].status # "absent"
      BY DEF Expired
    <3>3. ReadIsCurrent(c)'
      <4> HIDE DEF R
      <4> QED BY <1>8, <2>0, <3>1, <3>2 DEF ReadIsCurrent, Reading, Asked, Expired
    <3> HIDE DEF R
    <3> QED BY <3>1, <3>3, <1>7
  <2>9. CASE ReadFinalizing(c)
    <3>1. CASE /\ Selects(c, {call[c].run}) /\ Asked(c, "finalize")
               /\ run[call[c].run].status \in Terminal => run[call[c].run].status = call[c].status
      <4>1. ReadIsCurrent(c)'
        BY <1>8, <2>0, <3>1 DEF ReadIsCurrent, Reading, Asked
      <4> QED BY <4>1, <3>1, <2>0, <1>7
    <3> QED BY <2>9, <3>1, <1>6 DEF ReadFinalizing
  <2>10. CASE CommitClaim(c) \/ CommitRenew(c) \/ CommitRelease(c) \/ CommitExpire(c)
                             \/ CommitFinalize(c)
    <3>1. call' = [call EXCEPT ![c] = Idle]
      BY <2>10 DEF CommitClaim, CommitRenew, CommitRelease, CommitExpire, CommitFinalize, Commits
    <3> QED BY <2>10, <3>1, SerialIdle, LiveCommit, StampCommit DEF SerialInv, GrantsInv
  <2> QED BY <1>9, <2>1, <2>2, <2>3, <2>4, <2>5, <2>6, <2>7, <2>8, <2>9, <2>10 DEF Step
<1> QED BY <1>1, <1>2, <1>3, <1>9 DEF Next

\* The empty ledger has nothing read, granted or ended.
LEMMA SerialInit == Init => TypeOK /\ ClaimsHaveRuntime /\ SerialInv
<1> SUFFICES ASSUME Init PROVE TypeOK /\ ClaimsHaveRuntime /\ SerialInv
  OBVIOUS
<1>1. Idle.op = "none" /\ Idle.read = FALSE
  BY DEF Idle
<1>2. TypeOK /\ ClaimsHaveRuntime
  BY <1>1, InitTypeOK DEF Init, ClaimsHaveRuntime
<1>3. \A c \in Calls : ReadIsCurrent(c)
  BY <1>1 DEF Init, ReadIsCurrent, Reading
<1>4. LiveGrantsHold /\ TokenIsLatest /\ LeaseExclusive /\ EndIsStamped
  BY DEF Init, LiveGrantsHold, TokenIsLatest, LeaseExclusive, LiveOf, EndIsStamped, NoRow, Terminal
<1> QED BY <1>2, <1>3, <1>4 DEF SerialInv

\* Every step but a commit leaves ended runs alone.
LEMMA FinalStep ==
    TypeOK /\ SerialInv /\ [Next]_vars =>
        [\A r \in Runs : run[r].status \in Terminal => run'[r].status = run[r].status]_vars
<1> SUFFICES ASSUME TypeOK, SerialInv, Next, NEW r \in Runs, run[r].status \in Terminal
             PROVE  run'[r].status = run[r].status
  OBVIOUS
<1>1. CASE run' = run
  BY <1>1
<1>2. ASSUME NEW s \in Runs, NEW status, CreateRun(s, status) PROVE run'[r] = run[r]
  BY <1>2 DEF CreateRun, Terminal, TypeOK
<1>3. ASSUME NEW c \in Calls, Step(c) PROVE run'[r].status = run[r].status
  <2>1. CASE CommitClaim(c) \/ CommitRenew(c) \/ CommitRelease(c) \/ CommitExpire(c)
                            \/ CommitFinalize(c)
    BY <2>1, StampCommit
  <2> QED BY <1>3, <2>1 DEF Step, AskClaim, AskExpire, AskRenew, AskRelease, AskFinalize, Ask,
                            ReadClaim, ReadClaimed, ReadExpired, ReadFinalizing, Refused, Selects
<1> QED BY <1>1, <1>2, <1>3 DEF Next, Tick

\* A renewal or a release writes the row whose token it has checked.
LEMMA InertStep ==
    ASSUME OneCall
    PROVE  TypeOK /\ SerialInv /\ [Next]_vars =>
             [\A c \in Calls :
                 /\ call[c].op \in {"renew", "release"} /\ call[c].read /\ call'[c].op = "none"
                 => \A r \in Runs : run'[r] # run[r] => run[r].token = call[c].token]_vars
<1> SUFFICES ASSUME TypeOK, SerialInv, Next, NEW c \in Calls, NEW r \in Runs, run'[r] # run[r],
                    call[c].op \in {"renew", "release"}, call[c].read, call'[c].op = "none"
             PROVE  run[r].token = call[c].token
  OBVIOUS
<1>1. Step(c)
  <2>1. call' # call
    OBVIOUS
  <2> QED BY <2>1 DEF Next, Tick, CreateRun, OneCall
<1>2. CommitRenew(c) \/ CommitRelease(c)
  BY <1>1 DEF Step, AskClaim, AskExpire, AskRenew, AskRelease, AskFinalize, Ask, ReadClaim,
              ReadClaimed, ReadExpired, ReadFinalizing, Asked, CommitClaim, CommitExpire,
              CommitFinalize, Reading
<1>3. r = call[c].run
  BY <1>2, SerialCommit DEF TypeOK
<1> QED BY <1>2, <1>3 DEF SerialInv, ReadIsCurrent, ClaimIsActive, CommitRenew, CommitRelease, Reading

\* The invariant of the ledger with one call at a time.
LEMMA SerialAlways == ASSUME OneCall PROVE Spec => [](TypeOK /\ SerialInv)
BY SerialInit, TypeStep, SerialStep, PTL DEF Spec

\* With one call at a time a run carries the time of its end exactly when it has
\* ended, whichever of release_claim, finalize_run and release_expired_claims ended it.
THEOREM EndsAreStamped == ASSUME OneCall PROVE Spec => []EndIsStamped
<1>1. SerialInv => EndIsStamped
  BY DEF SerialInv
<1> QED BY <1>1, SerialAlways, PTL

\* With one call at a time claim_next_run gives a run to a second runtime only when the
\* lease of the first is over, it has given the run back, or a finalization as "queued"
\* has offered the run again.
THEOREM LeasesAreExclusive == ASSUME OneCall PROVE Spec => []LeaseExclusive
<1>1. SerialInv => LeaseExclusive
  BY DEF SerialInv
<1> QED BY <1>1, SerialAlways, PTL

\* With one call at a time the guard of finalize_run and the claimed status that the
\* other operations ask for keep a run that has ended as it ended.
THEOREM TerminalRunsStay == ASSUME OneCall PROVE Spec => TerminalIsFinal
BY SerialAlways, FinalStep, PTL DEF Spec, TerminalIsFinal

\* With one call at a time renew_claim and release_claim change nothing but the claim
\* of their own token.
THEOREM StaleTokensAreInert == ASSUME OneCall PROVE Spec => StaleTokenInert
BY SerialAlways, InertStep, PTL DEF Spec, StaleTokenInert

-----------------------------------------------------------------------------
(* With one call at a time the ledger implements RunLeases *)

\* What the proofs of the steps need of the state.
LEMMA LeaseFacts ==
    ASSUME TypeOK, SerialInv
    PROVE  /\ run \in [Runs -> Rows] /\ now \in Nat
           /\ Len(grants) \in Nat /\ DOMAIN grants = 1..Len(grants)
           /\ \A k \in DOMAIN grants : /\ grants[k] \in Grants /\ grants[k].run \in Runs
                                       /\ grants[k].until \in Nat
           /\ LiveGrantsHold
BY GrantFacts DEF TypeOK, SerialInv

\* A renewal or a release moves the end of one grant.
LEMMA MovedGrant ==
    ASSUME TypeOK, NEW k \in DOMAIN grants, NEW until, grants' = [grants EXCEPT ![k].until = until]
    PROVE  /\ DOMAIN grants' = DOMAIN grants /\ Len(grants') = Len(grants)
           /\ grants'[k].run = grants[k].run /\ grants'[k].until = until
           /\ grants'[k].requeued <=> grants[k].requeued
           /\ \A j \in DOMAIN grants \ {k} : grants'[j] = grants[j]
<1>1. grants[k] \in Grants /\ grants \in Seq(Grants)
  BY GrantFacts DEF TypeOK
<1>2. DOMAIN grants' = DOMAIN grants /\ \A j \in DOMAIN grants \ {k} : grants'[j] = grants[j]
  OBVIOUS
<1>3. grants'[k] = [grants[k] EXCEPT !.until = until]
  OBVIOUS
<1>4. Len(grants') = Len(grants)
  BY <1>1
<1> QED BY <1>1, <1>2, <1>3, <1>4 DEF Grants

\* The grants that have been called back.
Recalled == {k \in DOMAIN grants : grants[k].requeued}

\* An end in the ledger is an end of the lease.
LEMMA EndOfRow ==
    ASSUME NEW r \in Runs, NEW how \in Terminal, NEW K \in {{}, {run[r].token}},
           Fate(r) \in {"open", how}, run'[r].status = how, run'[r].token = 0,
           LiveOf(r)' = LiveOf(r) \ K, Recalled' = Recalled,
           \A s \in Runs \ {r} : run'[s] = run[s] /\ LiveOf(s)' = LiveOf(s),
           Len(grants') = Len(grants)
    PROVE  Leases!Next
<1>1. \A s \in Runs : Fate(s)' = IF s = r THEN how ELSE Fate(s)
  BY DEF Fate
<1>2. Leases!End(r, how)
  BY <1>1 DEF Leases!End, Recalled
<1> QED BY <1>2 DEF Leases!Next

\* The clock ends leases.
LEMMA TickStep == ASSUME TypeOK, SerialInv, Tick PROVE Leases!Next
<1> DEFINE K == {k \in DOMAIN grants : ~(grants[k].until > now')}
<1>1. run' = run /\ grants' = grants /\ now' = now + 1
  BY DEF Tick
<1>2. \A r \in Runs : LiveOf(r)' = LiveOf(r) \ K
  BY <1>1, LeaseFacts DEF LiveOf
<1>3. \A r \in Runs : Fate(r)' = Fate(r)
  BY <1>1 DEF Fate
<1>4. K \in SUBSET (1..Len(grants))
  BY LeaseFacts
<1> HIDE DEF K
<1>5. Leases!Lapse(K)
  BY <1>1, <1>2, <1>3 DEF Leases!Lapse
<1> QED BY <1>4, <1>5 DEF Leases!Next

\* A claim grants a run that nobody holds but those who were called back.
LEMMA ClaimStep ==
    ASSUME TypeOK, SerialInv, NEW c \in Calls, CommitClaim(c) PROVE Leases!Next
<1>1. PICK r \in Runs :
         /\ run[r].status = "queued" \/ Expired(run[r], call[c].time)
         /\ run' = [run EXCEPT ![r] = Claimed(run[r], c, Len(grants) + 1)]
         /\ grants' = Append(grants, [run |-> r, runtime |-> call[c].runtime,
                                      until |-> call[c].time + Lease, requeued |-> FALSE])
  BY SerialCommit
<1>2. now' = now
  BY DEF CommitClaim, Commits
<1>3. /\ run'[r].status = "claimed" /\ run'[r].token = Len(grants) + 1
      /\ \A s \in Runs \ {r} : run'[s] = run[s]
  BY <1>1, LeaseFacts DEF Claimed, Rows
<1>4. Fate(r) = "open" /\ \A s \in Runs : Fate(s)' = Fate(s)
  BY <1>1, <1>3 DEF Fate, Terminal, Expired
<1>5. LiveOf(r) \subseteq Recalled
  BY <1>1, LeaseFacts, NoLiveGrant DEF LiveOf, Recalled
<1>6. /\ Len(grants') = Len(grants) + 1 /\ DOMAIN grants' = 1..(Len(grants) + 1)
      /\ grants'[Len(grants) + 1].run = r /\ ~grants'[Len(grants) + 1].requeued
      /\ \A k \in DOMAIN grants : grants'[k] = grants[k]
  BY <1>1, LeaseFacts
<1>7. \A s \in Runs \ {r} : LiveOf(s)' = LiveOf(s)
  BY <1>2, <1>6, LeaseFacts DEF LiveOf
<1> DEFINE k == Len(grants) + 1
           L == LiveOf(r)' \cap {k}
<1>8. LiveOf(r)' = (LiveOf(r) \ {k}) \cup L
  BY <1>2, <1>6, LeaseFacts DEF LiveOf
<1>9. Leases!Holds(r, Len(grants'))
  <2>1. L \in SUBSET {Len(grants')} /\ k = Len(grants')
    BY <1>6
  <2> HIDE DEF L, k
  <2> QED BY <2>1, <1>7, <1>8 DEF Leases!Holds
<1>10. Recalled' = Recalled
  BY <1>6, LeaseFacts DEF Recalled
<1>11. Leases!Grant(r)
  BY <1>3, <1>4, <1>5, <1>6, <1>9, <1>10 DEF Leases!Grant, Recalled
<1> QED BY <1>11 DEF Leases!Next

\* A renewal renews the lease of the token it was asked with.
LEMMA RenewStep ==
    ASSUME TypeOK, SerialInv, NEW c \in Calls, CommitRenew(c) PROVE Leases!Next
<1>0. PICK r, k : r = call[c].run /\ k = call[c].token
  OBVIOUS
<1>1. /\ r \in Runs /\ k \in DOMAIN grants /\ grants[k].run = r
      /\ run[r].token = k /\ run[r].status = "claimed"
  BY <1>0 DEF SerialInv, ReadIsCurrent, CommitRenew, Reading, ClaimIsActive, TypeOK, CallStates
<1>2. run' = [run EXCEPT ![r] = Renewed(run[r], c)] /\ now' = now
  BY <1>0, SerialCommit DEF CommitRenew, Commits
<1>3. grants' = [grants EXCEPT ![k].until = call[c].time + Lease]
  BY <1>0 DEF CommitRenew
<1>4. /\ run'[r].status = "claimed" /\ run'[r].token = k
      /\ \A s \in Runs \ {r} : run'[s] = run[s]
  BY <1>1, <1>2, LeaseFacts DEF Renewed, Rows
<1>5. \A s \in Runs : Fate(s)' = Fate(s) /\ run'[s].token = run[s].token
  BY <1>1, <1>4 DEF Fate
<1>6. /\ DOMAIN grants' = DOMAIN grants /\ Len(grants') = Len(grants)
      /\ grants'[k].run = r /\ (grants'[k].requeued <=> grants[k].requeued)
      /\ \A j \in DOMAIN grants \ {k} : grants'[j] = grants[j]
  BY <1>1, <1>3, MovedGrant
<1>7. \A s \in Runs \ {r} : LiveOf(s)' = LiveOf(s)
  BY <1>1, <1>2, <1>6 DEF LiveOf
<1> DEFINE L == LiveOf(r)' \cap {k}
<1>8. LiveOf(r)' = (LiveOf(r) \ {k}) \cup L
  BY <1>1, <1>2, <1>6 DEF LiveOf
<1>9. Leases!Holds(r, run[r].token)
  <2>1. L \in SUBSET {k}
    OBVIOUS
  <2> HIDE DEF L
  <2>2. Leases!Holds(r, k)
    BY <2>1, <1>1, <1>7, <1>8 DEF Leases!Holds
  <2> QED BY <2>2, <1>1
<1>10. run[r].token # 0
  BY <1>1, LeaseFacts
<1>11. Recalled' = Recalled
  BY <1>6 DEF Recalled
<1>12. Leases!Renew(r)
  BY <1>5, <1>6, <1>9, <1>10, <1>11, <1>1 DEF Leases!Renew, Recalled
<1> QED BY <1>1, <1>12 DEF Leases!Next

\* A release gives the run back, or ends it.
LEMMA ReleaseStep ==
    ASSUME TypeOK, SerialInv, NEW c \in Calls, CommitRelease(c) PROVE Leases!Next
<1>0. PICK r, k, status : r = call[c].run /\ k = call[c].token /\ status = call[c].status
  OBVIOUS
<1>1. /\ r \in Runs /\ k \in DOMAIN grants /\ grants[k].run = r
      /\ run[r].token = k /\ run[r].status = "claimed"
  BY <1>0 DEF SerialInv, ReadIsCurrent, CommitRelease, Reading, ClaimIsActive, TypeOK, CallStates
<1>2. run' = [run EXCEPT ![r] = Released(run[r], status)] /\ now' = now
  BY <1>0, SerialCommit DEF CommitRelease, Commits
<1>3. grants' = [grants EXCEPT ![k].until = 0]
  BY <1>0 DEF CommitRelease
<1>4. /\ run'[r].status = status /\ run'[r].token = 0
      /\ \A s \in Runs \ {r} : run'[s] = run[s]
  BY <1>1, <1>2, LeaseFacts DEF Released, Rows
<1>5. /\ DOMAIN grants' = DOMAIN grants /\ Len(grants') = Len(grants)
      /\ grants'[k].run = r /\ grants'[k].until = 0
      /\ grants'[k].requeued <=> grants[k].requeued
      /\ \A j \in DOMAIN grants \ {k} : grants'[j] = grants[j]
  BY <1>1, <1>3, MovedGrant
<1>6. \A s \in Runs \ {r} : LiveOf(s)' = LiveOf(s)
  BY <1>1, <1>2, <1>5 DEF LiveOf
<1>7. LiveOf(r)' = LiveOf(r) \ {run[r].token} /\ Recalled' = Recalled
  <2>1. LiveOf(r)' = LiveOf(r) \ {k}
    BY <1>1, <1>2, <1>5, LeaseFacts DEF LiveOf
  <2>2. Recalled' = Recalled
    BY <1>1, <1>5 DEF Recalled
  <2> QED BY <1>1, <2>1, <2>2
<1>8. Fate(r) = "open"
  BY <1>1 DEF Fate, Terminal
<1>9. CASE status \in Terminal
  BY <1>1, <1>4, <1>5, <1>6, <1>7, <1>8, <1>9, EndOfRow
<1>10. CASE status \notin Terminal
  <2>1. \A s \in Runs : Fate(s)' = Fate(s)
    BY <1>4, <1>8, <1>10 DEF Fate
  <2>2. run[r].token # 0
    BY <1>1, LeaseFacts
  <2>3. /\ \A s \in Runs : run'[s].token = IF s = r THEN 0 ELSE run[s].token
        /\ \A s \in Runs : LiveOf(s)' = IF s = r THEN LiveOf(s) \ {run[s].token} ELSE LiveOf(s)
    BY <1>4, <1>6, <1>7
  <2>4. /\ [s \in Runs |-> run'[s].token] = [[s \in Runs |-> run[s].token] EXCEPT ![r] = 0]
        /\ [s \in Runs |-> LiveOf(s)'] =
              [[s \in Runs |-> LiveOf(s)] EXCEPT ![r] = @ \ {run[r].token}]
    BY <2>3
  <2>5. Recalled' = Recalled /\ Len(grants') = Len(grants)
    BY <1>5, <1>7
  <2>6. Leases!GiveBack(r)
    <3>1. [s \in Runs |-> Fate(s)'] = [s \in Runs |-> Fate(s)]
      BY <2>1
    <3>2. [s \in Runs |-> run[s].token][r] = run[r].token
      BY <1>1
    <3> QED BY <2>2, <2>4, <2>5, <3>1, <3>2, Zenon DEF Leases!GiveBack, Recalled
  <2> QED BY <1>1, <2>6 DEF Leases!Next
<1> QED BY <1>9, <1>10

\* The host takes back the runs whose claims have expired: nobody holds them but those who
\* were called back.
LEMMA ExpireStep ==
    ASSUME TypeOK, SerialInv, NEW c \in Calls, CommitExpire(c) PROVE Leases!Next
<1>0. PICK R : R = call[c].selected
  OBVIOUS
<1>1. R \in SUBSET Runs /\ \A r \in R : Expired(run[r], call[c].time)
  BY <1>0 DEF SerialInv, ReadIsCurrent, CommitExpire, Reading, TypeOK, CallStates
<1>2. /\ run' = [r \in Runs |-> IF r \in R THEN Released(run[r], "queued") ELSE run[r]]
      /\ grants' = grants /\ now' = now
  <2>1. run' = [r \in Runs |-> IF r \in call[c].selected THEN Released(run[r], "queued")
                                                        ELSE run[r]]
    BY SerialCommit
  <2> QED BY <1>0, <2>1 DEF CommitExpire, Commits
<1>3. \A r \in R : run'[r].status = "queued" /\ run'[r].token = 0
  <2>1. \A r \in R : r \in Runs /\ run[r] \in Rows
    BY <1>1, LeaseFacts
  <2>2. \A row \in Rows : /\ Released(row, "queued").status = "queued"
                          /\ Released(row, "queued").token = 0
    BY DEF Released, Rows
  <2> QED BY <1>2, <2>1, <2>2
<1>4. \A r \in Runs \ R : run'[r] = run[r]
  BY <1>2
<1>5. \A r \in R : LiveOf(r) \subseteq Recalled
  BY <1>1, LeaseFacts, NoLiveGrant DEF LiveOf, Recalled
<1>6. \A r \in Runs : Fate(r)' = Fate(r) /\ LiveOf(r)' = LiveOf(r)
  BY <1>1, <1>2, <1>3, <1>4 DEF Fate, LiveOf, Expired, Terminal
<1>7. \A r \in Runs : run'[r].token = IF r \in R THEN 0 ELSE run[r].token
  BY <1>3, <1>4
<1>8. Leases!Reclaim(R)
  BY <1>1, <1>2, <1>5, <1>6, <1>7 DEF Leases!Reclaim, Recalled
<1> QED BY <1>1, <1>8 DEF Leases!Next

\* A run is finalized to an end, offered again, or stays open and as it is held.
LEMMA FinalizeStep ==
    ASSUME TypeOK, SerialInv, NEW c \in Calls, CommitFinalize(c) PROVE [Leases!Next]_(Leases!vars)
<1>0. PICK r, status : r = call[c].run /\ status = call[c].status
  OBVIOUS
<1>1. r \in Runs /\ (run[r].status \in Terminal => run[r].status = status)
  BY <1>0 DEF SerialInv, ReadIsCurrent, CommitFinalize, Reading, TypeOK, CallStates
<1>2. run' = [run EXCEPT ![r] = Finalized(run[r], status)] /\ now' = now
  BY <1>0, SerialCommit DEF CommitFinalize, Commits
<1>3. /\ DOMAIN grants' = DOMAIN grants /\ Len(grants') = Len(grants)
      /\ \A k \in DOMAIN grants :
            /\ grants'[k].run = grants[k].run /\ grants'[k].until = grants[k].until
            /\ grants'[k].requeued <=>
                  grants[k].requeued \/ (status = "queued" /\ k \in LiveOf(r))
  BY <1>0, FinalizeGrants
<1>4. /\ run'[r].status = status
      /\ run'[r].token = IF status \in Terminal THEN 0 ELSE run[r].token
      /\ \A s \in Runs \ {r} : run'[s] = run[s]
  BY <1>1, <1>2, LeaseFacts, RowTokens
<1>5. \A s \in Runs : LiveOf(s)' = LiveOf(s)
  BY <1>2, <1>3 DEF LiveOf
<1>6. CASE status \in Terminal
  <2>1. Fate(r) \in {"open", status}
    BY <1>1 DEF Fate
  <2>2. Recalled' = Recalled
    BY <1>3, <1>6 DEF Recalled, Terminal
  <2>3. LiveOf(r)' = LiveOf(r) \ {}
    BY <1>1, <1>5
  <2> QED BY <1>1, <1>3, <1>4, <1>5, <1>6, <2>1, <2>2, <2>3, EndOfRow
<1>7. CASE status \notin Terminal
  <2>1. \A s \in Runs : Fate(s)' = Fate(s) /\ run'[s].token = run[s].token
    BY <1>1, <1>4, <1>7 DEF Fate
  <2>2. CASE status = "queued"
    <3>1. Recalled' = Recalled \cup LiveOf(r)
      BY <1>3, <2>2 DEF Recalled, LiveOf
    <3>2. Fate(r) = "open"
      BY <1>1, <1>7 DEF Fate
    <3>3. Leases!Recall(r)
      BY <1>1, <1>3, <1>5, <2>1, <3>1, <3>2 DEF Leases!Recall, Recalled
    <3> QED BY <1>1, <3>3 DEF Leases!Next
  <2>3. CASE status # "queued"
    <3>1. Recalled' = Recalled
      BY <1>3, <2>3 DEF Recalled
    <3> QED BY <1>3, <1>5, <2>1, <3>1 DEF Leases!vars, Recalled
  <2> QED BY <2>2, <2>3
<1> QED BY <1>6, <1>7

\* Every step of the ledger is a step of the leases, or leaves them alone.
LEMMA LeaseStep ==
    TypeOK /\ SerialInv /\ [Next]_vars => [Leases!Next]_(Leases!vars)
<1> SUFFICES ASSUME TypeOK, SerialInv, [Next]_vars PROVE [Leases!Next]_(Leases!vars)
  OBVIOUS
<1>1. ASSUME UNCHANGED <<run, grants, now>> PROVE UNCHANGED Leases!vars
  BY <1>1 DEF Leases!vars, Fate, LiveOf
<1>2. ASSUME NEW r \in Runs, NEW s \in {"queued", "running"}, CreateRun(r, s)
      PROVE  UNCHANGED Leases!vars
  <2>1. /\ run[r].status = "absent" /\ run'[r].status = s /\ run'[r].token = run[r].token
        /\ \A t \in Runs \ {r} : run'[t] = run[t]
        /\ grants' = grants /\ now' = now
    BY <1>2, LeaseFacts DEF CreateRun, Rows
  <2>2. \A t \in Runs : Fate(t)' = Fate(t) /\ LiveOf(t)' = LiveOf(t) /\ run'[t].token = run[t].token
    BY <2>1 DEF Fate, LiveOf, Terminal
  <2> QED BY <2>1, <2>2 DEF Leases!vars
<1>3. ASSUME NEW c \in Calls, Step(c) PROVE [Leases!Next]_(Leases!vars)
  <2>1. CASE CommitClaim(c) \/ CommitRenew(c) \/ CommitRelease(c) \/ CommitExpire(c)
                            \/ CommitFinalize(c)
    BY <2>1, ClaimStep, RenewStep, ReleaseStep, ExpireStep, FinalizeStep
  <2>2. CASE UNCHANGED <<run, grants, now>>
    BY <2>2, <1>1
  <2>3. CASE \/ \E w \in Runtimes : AskClaim(c, w)
             \/ AskExpire(c)
             \/ \E k \in DOMAIN grants : AskRenew(c, k)
             \/ \E k \in DOMAIN grants, s \in NewStatuses : AskRelease(c, k, s)
             \/ \E r \in Runs, s \in NewStatuses : AskFinalize(c, r, s)
    <3>1. UNCHANGED <<run, grants, now>>
      <4>1. \A request : Ask(c, request) => UNCHANGED <<run, grants, now>>
        BY DEF Ask
      <4>2. /\ \A w : AskClaim(c, w) => UNCHANGED <<run, grants, now>>
            /\ AskExpire(c) => UNCHANGED <<run, grants, now>>
            /\ \A k : AskRenew(c, k) => UNCHANGED <<run, grants, now>>
            /\ \A k, s : AskRelease(c, k, s) => UNCHANGED <<run, grants, now>>
            /\ \A r, s : AskFinalize(c, r, s) => UNCHANGED <<run, grants, now>>
        BY <4>1, Zenon DEF AskClaim, AskExpire, AskRenew, AskRelease, AskFinalize
      <4> QED BY <2>3, <4>2
    <3> QED BY <2>2, <3>1
  <2>4. CASE ReadClaim(c) \/ ReadClaimed(c) \/ ReadExpired(c) \/ ReadFinalizing(c)
    <3>1. UNCHANGED <<run, grants, now>>
      <4>1. \A R : Selects(c, R) => UNCHANGED <<run, grants, now>>
        BY DEF Selects
      <4>2. Refused(c) => UNCHANGED <<run, grants, now>>
        BY DEF Refused
      <4> QED BY <2>4, <4>1, <4>2 DEF ReadClaim, ReadClaimed, ReadExpired, ReadFinalizing
    <3> QED BY <2>2, <3>1
  <2> QED BY <1>3, <2>1, <2>3, <2>4 DEF Step
<1>4. CASE UNCHANGED vars
  BY <1>1, <1>4 DEF vars
<1> QED BY <1>2, <1>3, <1>4, TickStep DEF Next

\* With one call at a time the columns of the ledger, the clock and the answers of
\* claim_next_run, renew_claim and release_claim lease the runs as RunLeases says.
THEOREM LedgerLeasesRuns == ASSUME OneCall PROVE Spec => ImplementsLeases
<1>1. Init => Leases!Init
  BY DEF Init, NoRow, Leases!Init, Fate, LiveOf, Terminal
<1> QED BY <1>1, SerialAlways, LeaseStep, PTL DEF Spec, ImplementsLeases, Leases!Spec
=============================================================================
