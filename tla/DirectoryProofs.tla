--------------------------- MODULE DirectoryProofs ---------------------------
(* What Directory promises holds for any number of replicas, workspaces,     *)
(* events and attempts, and for every page limit.                            *)
EXTENDS Directory, TLAPS

\* A workspace that did not change after j is at every later cursor as it was at j.
DirOK ==
    \A w \in Workspaces, k \in 0..now :
        /\ Rev(w, k) <= k
        /\ Rev(w, k) = 0 => ~Active(w, k)
        /\ \A j \in 0..k : Rev(w, k) <= j => dir[j][w] = dir[k][w]

\* Without a row a workspace is not active.
RowOK == \A w \in Workspaces : row[w].rev = 0 => ~row[w].active

\* What is fetched by a replica whose cursor is c: the workspaces it asks for are as new as the
\* cursor it moves to, and those it does not ask for did not change between the two.
OpOK(o, c) ==
    o.at # "idle" =>
        /\ o.cursor <= now /\ o.seen <= now
        /\ \A w \in Workspaces \ o.asked : c # None /\ Rev(w, o.cursor) <= c
        /\ o.at # "page" => \A w \in o.asked : o.cursor <= o.seen
        /\ o.at = "snapshot" => o.asked = Workspaces /\ o.cursor = o.seen
        /\ o.at \in {"page", "delta", "empty", "targeted"} => c # None
        /\ o.at = "empty" => o.asked = {} /\ o.high = o.cursor
        /\ o.at = "publish" /\ o.vouch # None => o.vouch <= o.cursor

\* A replica whose cursor is c and whose resolver takes a as active.
ViewOK(a, c) ==
    c # None =>
        /\ c <= now
        /\ \A w \in Workspaces : \E k \in c..now : (w \in a) = Active(w, k)

OpsOK   == \A r \in Replicas : OpOK(op[r], consumer[r])
ViewsOK == \A r \in Replicas : ViewOK(active[r], consumer[r])

\* Every event between the snapshot's coverage and the shared cursor has its receipt.
ReceiptsComplete == \A c \in shared.covered + 1..shared.cursor : c \in inbox

IInv == TypeOK /\ DirOK /\ RowOK /\ OpsOK /\ ViewsOK /\ ReceiptsComplete

USE DirectoryAssumption

-----------------------------------------------------------------------------
(* Helpers *)

LEMMA Facts ==
    ASSUME TypeOK
    PROVE  /\ now \in Nat /\ shared.cursor \in Nat /\ shared.covered \in Nat
           /\ shared = [cursor |-> shared.cursor, covered |-> shared.covered]
           /\ shared.covered <= shared.cursor /\ shared.cursor <= now
           /\ \A k \in 0..now, w \in Workspaces :
                 /\ Rev(w, k) \in Nat /\ Status(w, k) \in Statuses /\ Active(w, k) \in BOOLEAN
                 /\ dir[k][w] = [rev |-> Rev(w, k), is |-> Status(w, k)]
           /\ \A w \in Workspaces :
                 /\ row[w].rev \in Nat /\ row[w].active \in BOOLEAN
                 /\ row[w] = [rev |-> row[w].rev, active |-> row[w].active]
           /\ \A r \in Replicas :
                 /\ op[r] \in Ops /\ op[r].at \in Steps
                 /\ op[r].asked \in SUBSET Workspaces
                 /\ op[r].cursor \in Nat /\ op[r].high \in Nat /\ op[r].seen \in Nat
                 /\ op[r].try \in Nat /\ op[r].vouch \in Cursors
                 /\ consumer[r] \in Cursors /\ active[r] \in SUBSET Workspaces
<1>1. \A k \in 0..now, w \in Workspaces : dir[k][w] \in [rev : Nat, is : Statuses]
  BY DEF TypeOK
<1>2. \A w \in Workspaces : row[w] \in [rev : Nat, active : BOOLEAN]
  BY DEF TypeOK
<1>3. \A r \in Replicas : op[r] \in Ops
  BY DEF TypeOK
<1> QED BY <1>1, <1>2, <1>3 DEF TypeOK, Rev, Status, Active, Ops

LEMMA IdleOp == Idle \in Ops /\ Idle.at = "idle"
  BY DEF Idle, Ops, Steps, Cursors

LEMMA IdleOK == ASSUME NEW c PROVE OpOK(Idle, c)
  BY IdleOp DEF OpOK

\* The directory only grows: what was true of a fetch, a view or a row stays true.
LEMMA SameDirectory ==
    ASSUME IInv, UNCHANGED <<now, dir>>
    PROVE  /\ DirOK'
           /\ \A w \in Workspaces, k \in 0..now :
                 Rev(w, k)' = Rev(w, k) /\ Active(w, k)' = Active(w, k)
  BY DEF IInv, DirOK, Rev, Active, Status

\* A step of one replica's op.
LEMMA OneOp ==
    ASSUME TypeOK, NEW r \in Replicas, NEW o \in Ops, Becomes(r, o)
    PROVE  /\ op' \in [Replicas -> Ops] /\ op'[r] = o
           /\ \A q \in Replicas \ {r} : op'[q] = op[q]
  BY DEF TypeOK, Becomes

\* A step of a replica that leaves directory, cursors and resolvers alone keeps what holds of
\* operations and views, if it holds of its own operation.
LEMMA OpStep ==
    ASSUME IInv, NEW r \in Replicas, NEW o \in Ops, Becomes(r, o), OpOK(o, consumer[r]),
           UNCHANGED <<now, dir, consumer, active>>
    PROVE  DirOK' /\ OpsOK' /\ ViewsOK' /\ op' \in [Replicas -> Ops] /\ op'[r] = o
<1>1. OpsOK'
  <2>1. \A q \in Replicas : OpOK(op'[q], consumer[q])
    BY OneOp DEF IInv, OpsOK
  <2> QED BY <2>1 DEF OpsOK, OpOK, Rev
<1>2. ViewsOK'
  BY DEF IInv, ViewsOK, ViewOK, Active, Status
<1> QED BY <1>1, <1>2, OneOp, SameDirectory DEF IInv

-----------------------------------------------------------------------------
(* Initial states and the control plane *)

LEMMA Initially == Init => IInv
<1> SUFFICES ASSUME Init PROVE IInv
  OBVIOUS
<1>1. TypeOK
  BY IdleOp DEF Init, TypeOK, Statuses, Cursors
<1>2. DirOK
  BY DEF Init, DirOK, Rev, Active, Status
<1>3. RowOK /\ ViewsOK /\ ReceiptsComplete
  BY DEF Init, RowOK, ViewsOK, ViewOK, ReceiptsComplete
<1>4. OpsOK
  BY IdleOK DEF Init, OpsOK
<1> QED BY <1>1, <1>2, <1>3, <1>4 DEF IInv

\* An event whose contents are new or those of before.
LEMMA PublishesKeeps ==
    ASSUME IInv, NEW contents \in [Workspaces -> [rev : Nat, is : Statuses]],
           \A w \in Workspaces :
              contents[w] = dir[now][w] \/ contents[w].rev = now + 1,
           Publishes(contents)
    PROVE  IInv'
<1>1. now \in Nat /\ now' = now + 1 /\ DOMAIN dir' = 0..now + 1
  BY DEF IInv, TypeOK, Publishes
<1>2. \A k \in 0..now : dir'[k] = dir[k]
  BY <1>1 DEF Publishes
<1>3. dir'[now + 1] = contents
  BY <1>1 DEF Publishes
<1>4. \A k \in 0..now' : k \in 0..now \/ k = now + 1
  BY <1>1
<1>5. /\ \A w \in Workspaces, k \in 0..now :
            Rev(w, k)' = Rev(w, k) /\ (Active(w, k))' = Active(w, k)
      /\ \A r \in Replicas : /\ op[r].cursor \in Nat /\ op[r].seen \in Nat
                             /\ consumer[r] \in Cursors
  BY <1>2, Facts DEF IInv, Rev, Active, Status
<1>6. TypeOK'
  <2>1. dir' \in [0..now' -> [Workspaces -> [rev : Nat, is : Statuses]]]
    BY <1>1 DEF IInv, TypeOK, Publishes
  <2>2. shared.cursor <= now'
    BY <1>1 DEF IInv, TypeOK
  <2> QED BY <1>1, <2>1, <2>2 DEF IInv, TypeOK, Publishes, database, replica
<1>7. DirOK'
  <2> SUFFICES ASSUME NEW w \in Workspaces, NEW k \in 0..now'
               PROVE  /\ dir'[k][w].rev <= k
                      /\ dir'[k][w].rev = 0 => dir'[k][w].is # "active"
                      /\ \A j \in 0..k : dir'[k][w].rev <= j => dir'[j][w] = dir'[k][w]
    BY DEF DirOK, Rev, Active, Status
  <2>1. \A i \in 0..now :
           /\ dir[i][w].rev \in Nat /\ dir[i][w].rev <= i
           /\ dir[i][w].rev = 0 => dir[i][w].is # "active"
           /\ \A j \in 0..i : dir[i][w].rev <= j => dir[j][w] = dir[i][w]
    BY Facts DEF IInv, DirOK, Rev, Active, Status
  <2>2. CASE k \in 0..now
    BY <1>1, <1>2, <2>1, <2>2
  <2>3. CASE k = now + 1 /\ contents[w].rev = now + 1
    BY <1>1, <1>3, <2>3
  <2>4. CASE k = now + 1 /\ contents[w] = dir[now][w]
    BY <1>1, <1>2, <1>3, <2>1, <2>4
  <2> QED BY <1>4, <2>2, <2>3, <2>4
<1>8. OpsOK'
  <2>1. \A r \in Replicas : OpOK(op[r], consumer[r])'
    BY <1>1, <1>5 DEF IInv, OpsOK, OpOK, Publishes, replica
  <2> QED BY <2>1 DEF OpsOK, Publishes, replica
<1>9. ViewsOK'
  <2> SUFFICES ASSUME NEW r \in Replicas, consumer[r] # None
               PROVE  /\ consumer[r] <= now'
                      /\ \A w \in Workspaces :
                            \E k \in consumer[r]..now' : (w \in active[r]) = (Active(w, k))'
    BY DEF ViewsOK, ViewOK, Publishes, replica
  <2>1. consumer[r] \in Nat /\ consumer[r] <= now
    BY <1>5 DEF IInv, ViewsOK, ViewOK, Cursors
  <2>2. ASSUME NEW w \in Workspaces
        PROVE  \E k \in consumer[r]..now' : (w \in active[r]) = (Active(w, k))'
    <3>1. PICK k \in consumer[r]..now : (w \in active[r]) = Active(w, k)
      BY DEF IInv, ViewsOK, ViewOK
    <3> QED BY <1>1, <1>5, <2>1, <3>1
  <2> QED BY <1>1, <2>1, <2>2
<1>10. RowOK' /\ ReceiptsComplete'
  BY DEF IInv, RowOK, ReceiptsComplete, Publishes, database
<1> QED BY <1>6, <1>7, <1>8, <1>9, <1>10 DEF IInv

LEMMA ChangesKeeps ==
    ASSUME IInv, NEW w \in Workspaces, NEW is \in Statuses, Changes(w, is)
    PROVE  IInv'
<1> DEFINE contents == [dir[now] EXCEPT ![w] = [rev |-> now + 1, is |-> is]]
<1>1. /\ contents \in [Workspaces -> [rev : Nat, is : Statuses]]
      /\ \A v \in Workspaces : contents[v] = dir[now][v] \/ contents[v].rev = now + 1
  BY DEF IInv, TypeOK
<1> HIDE DEF contents
<1>2. Publishes(contents)
  BY DEF Changes, contents
<1> QED BY <1>1, <1>2, PublishesKeeps

LEMMA ChangesEntitlementKeeps == ASSUME IInv, ChangesEntitlement PROVE IInv'
<1>1. dir[now] \in [Workspaces -> [rev : Nat, is : Statuses]]
  BY DEF IInv, TypeOK
<1> QED BY <1>1, PublishesKeeps DEF ChangesEntitlement

-----------------------------------------------------------------------------
(* Fetches *)

\* A step that only changes the operation of one replica.
LEMMA OnlyOp ==
    ASSUME IInv, NEW r \in Replicas, NEW o \in Ops, Becomes(r, o), OpOK(o, consumer[r]),
           UNCHANGED <<now, dir, database, consumer, active>>
    PROVE  IInv'
<1>1. DirOK' /\ OpsOK' /\ ViewsOK' /\ op' \in [Replicas -> Ops]
  BY OpStep
<1>2. TypeOK'
  BY <1>1 DEF IInv, TypeOK, database
<1> QED BY <1>1, <1>2 DEF IInv, RowOK, ReceiptsComplete, database

LEMMA FetchSnapshotKeeps == ASSUME IInv, NEW r \in Replicas, FetchSnapshot(r) PROVE IInv'
<1> DEFINE o == [Idle EXCEPT !.at = "snapshot", !.asked = Workspaces, !.cursor = now,
                             !.high = 0, !.seen = now]
<1>1. now \in Nat /\ "snapshot" \in Steps
  BY DEF IInv, TypeOK, Steps
<1>2. /\ o \in Ops /\ o.at = "snapshot" /\ o.asked = Workspaces
      /\ o.cursor = now /\ o.seen = now
  BY <1>1 DEF Idle, Ops, Cursors
<1> HIDE DEF o
<1>3. OpOK(o, consumer[r])
  BY <1>1, <1>2 DEF OpOK
<1>4. Becomes(r, o) /\ UNCHANGED <<now, dir, database, consumer, active>>
  BY DEF FetchSnapshot, Fetches, o
<1> QED BY <1>2, <1>3, <1>4, OnlyOp

LEMMA FetchEventsKeeps == ASSUME IInv, NEW r \in Replicas, FetchEvents(r) PROVE IInv'
<1> DEFINE cursor == Min2(consumer[r] + PageLimit, now)
           step   == IF cursor = consumer[r] THEN "empty" ELSE "page"
           o == [Idle EXCEPT !.at = step, !.asked = Named(r, cursor), !.cursor = cursor,
                             !.high = now, !.seen = 0]
<1>1. consumer[r] \in Nat /\ consumer[r] <= now /\ now \in Nat
  BY Facts DEF IInv, ViewsOK, ViewOK, FetchEvents, Cursors
<1>2. cursor \in 0..now /\ consumer[r] <= cursor /\ (cursor = consumer[r] => cursor = now)
  BY <1>1 DEF Min2
<1> HIDE DEF cursor
<1>3. \A w \in Workspaces : /\ Rev(w, cursor) \in Nat /\ Rev(w, cursor) <= cursor
                            /\ w \notin Named(r, cursor) => Rev(w, cursor) <= consumer[r]
  <2>1. \A w \in Workspaces : Rev(w, cursor) \in Nat /\ Rev(w, cursor) <= cursor
    BY <1>2, Facts DEF IInv, DirOK
  <2> QED BY <1>1, <2>1 DEF Named
<1>4. /\ o \in Ops /\ o.at = step /\ o.asked = Named(r, cursor)
      /\ o.cursor = cursor /\ o.high = now /\ o.seen = 0
  <2>1. step \in Steps /\ Named(r, cursor) \in SUBSET Workspaces /\ cursor \in Nat
    BY <1>1, <1>2 DEF Steps, Named
  <2> HIDE DEF step
  <2> QED BY <1>1, <2>1 DEF Idle, Ops, Cursors
<1>5. Becomes(r, o) /\ UNCHANGED <<now, dir, database, consumer, active>>
  BY DEF FetchEvents, Fetches, cursor
<1> HIDE DEF o
<1>6. OpOK(o, consumer[r])
  <2>1. cursor = consumer[r] => Named(r, cursor) = {}
    BY <1>1, <1>2, <1>3 DEF Named
  <2>2. consumer[r] # None
    BY <1>1
  <2> QED BY <1>1, <1>2, <1>3, <1>4, <2>1, <2>2 DEF OpOK
<1> QED BY <1>4, <1>5, <1>6, OnlyOp

LEMMA FetchWorkspacesKeeps == ASSUME IInv, NEW r \in Replicas, FetchWorkspaces(r) PROVE IInv'
<1> DEFINE o == [op[r] EXCEPT !.at = "delta", !.seen = now]
<1>1. o \in Ops
  BY Facts DEF IInv, Ops, Steps
<1>2. OpOK(o, consumer[r])
  BY Facts DEF IInv, OpsOK, OpOK, Ops, FetchWorkspaces, At
<1>3. Becomes(r, o) /\ UNCHANGED <<now, dir, database, consumer, active>>
  BY DEF FetchWorkspaces
<1> QED BY <1>1, <1>2, <1>3, OnlyOp

LEMMA FetchTargetedKeeps ==
    ASSUME IInv, NEW r \in Replicas, NEW w \in Workspaces, FetchTargeted(r, w)
    PROVE  IInv'
<1> DEFINE o == [Idle EXCEPT !.at = "targeted", !.asked = {w}, !.cursor = consumer[r],
                             !.high = 0, !.seen = now]
<1>1. consumer[r] \in 0..now /\ now \in Nat /\ consumer[r] # None
  BY Facts DEF IInv, ViewsOK, ViewOK, FetchTargeted, Cursors
<1>2. \A v \in Workspaces : Rev(v, consumer[r]) <= consumer[r]
  BY <1>1 DEF IInv, DirOK
<1>3. /\ o \in Ops /\ o.at = "targeted" /\ o.asked = {w}
      /\ o.cursor = consumer[r] /\ o.seen = now
  <2>1. "targeted" \in Steps /\ consumer[r] \in Nat
    BY <1>1 DEF Steps
  <2> QED BY <1>1, <2>1 DEF Idle, Ops, Cursors
<1> HIDE DEF o
<1>4. OpOK(o, consumer[r])
  BY <1>1, <1>2, <1>3 DEF OpOK
<1>5. Becomes(r, o) /\ UNCHANGED <<now, dir, database, consumer, active>>
  BY DEF FetchTargeted, Fetches, o
<1> QED BY <1>3, <1>4, <1>5, OnlyOp

LEMMA FetchAgainKeeps == ASSUME IInv, NEW r \in Replicas, FetchAgain(r) PROVE IInv'
<1> DEFINE x == op[r]
           t == x.try + 1
           o == [x EXCEPT !.cursor = now, !.seen = now, !.try = t]
<1>1. o \in Ops /\ o.at = "snapshot" /\ o.cursor = now /\ o.seen = now /\ o.asked = x.asked
  <2>1. x \in Ops /\ x.at = "snapshot" /\ now \in Nat /\ t \in Nat
    BY Facts DEF IInv, FetchAgain, At
  <2> HIDE DEF x, t
  <2> QED BY <2>1 DEF Ops
<1>2. x.asked = Workspaces
  BY DEF IInv, OpsOK, OpOK, FetchAgain, At
<1>3. Becomes(r, o) /\ UNCHANGED <<now, dir, database, consumer, active>>
  BY DEF FetchAgain
<1> HIDE DEF o, x
<1>4. OpOK(o, consumer[r])
  BY <1>1, <1>2, Facts DEF IInv, OpOK
<1> QED BY <1>1, <1>3, <1>4, OnlyOp

LEMMA FailsKeeps == ASSUME IInv, NEW r \in Replicas, Fails(r) PROVE IInv'
  BY IdleOp, IdleOK, OnlyOp DEF Fails

-----------------------------------------------------------------------------
(* Transactions *)

\* What was fetched is what the resolver will be told.
LEMMA CommitsKeeps ==
    ASSUME IInv, NEW r \in Replicas, NEW vouch \in Cursors, Commits(r, vouch),
           vouch # None => vouch <= op[r].cursor,
           op[r].at # "idle", op[r].at = "page" => op[r].asked = {},
           UNCHANGED <<now, dir, consumer, active>>
    PROVE  DirOK' /\ OpsOK' /\ ViewsOK' /\ op' \in [Replicas -> Ops]
<1> DEFINE x == op[r]
           o == [x EXCEPT !.at = "publish", !.high = 0, !.try = 0, !.vouch = vouch]
<1>1. x \in Ops /\ OpOK(x, consumer[r]) /\ x.at # "idle" /\ (x.at = "page" => x.asked = {})
  BY Facts DEF IInv, OpsOK
<1>2. Becomes(r, o) /\ (vouch # None => vouch <= x.cursor)
  BY DEF Commits
<1> HIDE DEF x
<1>3. /\ o \in Ops /\ o.at = "publish" /\ o.vouch = vouch
      /\ o.asked = x.asked /\ o.cursor = x.cursor /\ o.seen = x.seen
  BY <1>1 DEF Ops, Steps
<1> HIDE DEF o
<1>4. OpOK(o, consumer[r])
  BY <1>1, <1>2, <1>3 DEF OpOK
<1> QED BY <1>2, <1>3, <1>4, OpStep

LEMMA ApplySnapshotKeeps == ASSUME IInv, NEW r \in Replicas, ApplySnapshot(r) PROVE IInv'
<1> DEFINE o == op[r]
<1>1. /\ now \in Nat /\ o.cursor \in Nat /\ o.seen \in 0..now /\ o.cursor <= now
      /\ o.at = "snapshot" /\ o.cursor \in Cursors
  BY Facts DEF IInv, OpsOK, OpOK, ApplySnapshot, At, Cursors
<1>2. DirOK' /\ OpsOK' /\ ViewsOK' /\ op' \in [Replicas -> Ops]
  BY <1>1, CommitsKeeps DEF ApplySnapshot
<1>3. \A w \in Workspaces : /\ Rev(w, o.seen) \in Nat /\ Active(w, o.seen) \in BOOLEAN
                            /\ Rev(w, o.seen) = 0 => ~Active(w, o.seen)
  BY <1>1, Facts DEF IInv, DirOK
<1> HIDE DEF o
<1>4. \A w \in Workspaces : row'[w] = Content(w, o.seen) \/ row'[w] = Fenced(w)
  BY DEF ApplySnapshot, o
<1>5. \A w \in Workspaces : /\ row'[w] \in [rev : Nat, active : BOOLEAN]
                            /\ row'[w].rev = 0 => ~row'[w].active
  <2>1. \A w \in Workspaces : /\ Content(w, o.seen) \in [rev : Nat, active : BOOLEAN]
                              /\ Content(w, o.seen).rev = 0 => ~Content(w, o.seen).active
    BY <1>3 DEF Content
  <2>2. \A w \in Workspaces : /\ Fenced(w) \in [rev : Nat, active : BOOLEAN]
                              /\ Fenced(w).rev = 0 => ~Fenced(w).active
    <3>1. \A w \in Workspaces : row[w] \in [rev : Nat, active : BOOLEAN]
      BY DEF IInv, TypeOK
    <3> QED BY <3>1 DEF Fenced
  <2> QED BY <1>4, <2>1, <2>2
<1>6. row' \in [Workspaces -> [rev : Nat, active : BOOLEAN]] /\ RowOK'
  <2>1. row' = [w \in Workspaces |-> row'[w]]
    BY DEF ApplySnapshot
  <2> QED BY <1>5, <2>1 DEF RowOK
<1>7. shared' = [cursor |-> o.cursor, covered |-> o.cursor]
  BY DEF ApplySnapshot, o
<1>8. TypeOK'
  <2>1. /\ shared' \in [cursor : Nat, covered : Nat]
        /\ shared'.covered <= shared'.cursor /\ shared'.cursor <= now
    BY <1>1, <1>7
  <2> QED BY <1>2, <1>6, <2>1 DEF IInv, TypeOK, ApplySnapshot
<1>9. ReceiptsComplete'
  BY <1>1, <1>7 DEF ReceiptsComplete
<1> QED BY <1>2, <1>6, <1>8, <1>9 DEF IInv

\* Receipts and shared cursor after a page, whatever the rows.
LEMMA AdvancesKeeps ==
    ASSUME IInv, NEW r \in Replicas, op[r].at \in {"delta", "page"},
           op[r].at = "page" => op[r].asked = {},
           consumer[r] <= shared.cursor, AdvancesTo(r, op[r].cursor),
           row' \in [Workspaces -> [rev : Nat, active : BOOLEAN]], RowOK',
           UNCHANGED <<now, dir, consumer, active>>
    PROVE  IInv'
<1> DEFINE c == op[r].cursor
           moved == Later(shared.cursor, c)
           vouch == IF Caught(r, moved) THEN Later(op[r].high, moved) ELSE None
<1>1. /\ now \in Nat /\ c \in Nat /\ c <= now /\ consumer[r] \in Nat /\ op[r].high \in Nat
      /\ shared.cursor \in Nat /\ shared.cursor <= now /\ shared.covered \in Nat
      /\ shared.covered <= shared.cursor
      /\ shared = [cursor |-> shared.cursor, covered |-> shared.covered]
  BY Facts DEF IInv, OpsOK, OpOK, Cursors
<1>2. moved \in Nat /\ shared.cursor <= moved /\ c <= moved /\ moved <= now
      /\ (moved = shared.cursor \/ moved = c)
  BY <1>1 DEF Later
<1>3. vouch \in Cursors /\ (vouch # None => vouch <= c)
  BY <1>1, <1>2 DEF Caught, Later, Cursors
<1>4. DirOK' /\ OpsOK' /\ ViewsOK' /\ op' \in [Replicas -> Ops]
  <2>1. Commits(r, vouch)
    BY DEF AdvancesTo
  <2> HIDE DEF vouch
  <2> QED BY <1>3, <2>1, CommitsKeeps
<1>5. shared' = [cursor |-> moved, covered |-> shared.covered]
  BY <1>1 DEF AdvancesTo
<1>6. inbox' = inbox \cup (consumer[r] + 1..c)
  BY DEF AdvancesTo
<1> HIDE DEF moved, c
<1>7. TypeOK'
  <2>1. /\ shared' \in [cursor : Nat, covered : Nat]
        /\ shared'.covered <= shared'.cursor /\ shared'.cursor <= now
    BY <1>1, <1>2, <1>5
  <2>2. inbox' \in SUBSET Nat
    <3>1. inbox \in SUBSET Nat /\ \A k \in consumer[r] + 1..c : k \in Nat
      BY <1>1 DEF IInv, TypeOK
    <3> QED BY <1>6, <3>1
  <2> QED BY <1>4, <2>1, <2>2 DEF IInv, TypeOK
<1>8. ReceiptsComplete'
  <2> SUFFICES ASSUME NEW k \in shared.covered + 1..moved PROVE k \in inbox'
    BY <1>5 DEF ReceiptsComplete
  <2>1. CASE k <= shared.cursor
    BY <1>1, <1>2, <1>6, <2>1 DEF IInv, ReceiptsComplete
  <2>2. CASE shared.cursor < k
    BY <1>1, <1>2, <1>6, <2>2
  <2> QED BY <1>1, <1>2, <2>1, <2>2
<1> QED BY <1>4, <1>7, <1>8 DEF IInv

\* The rows of a page: fetched contents, tombstones and rows it does not ask for.
LEMMA DeltaRowsKeep ==
    ASSUME IInv, NEW r \in Replicas, op[r].at = "delta"
    PROVE  /\ DeltaRows(r) \in [Workspaces -> [rev : Nat, active : BOOLEAN]]
           /\ \A w \in Workspaces : DeltaRows(r)[w].rev = 0 => ~DeltaRows(r)[w].active
<1> DEFINE o == op[r]
<1>1. o.seen \in 0..now /\ o.cursor \in 0..now /\ Returned(o) \in SUBSET Workspaces
  BY Facts DEF IInv, OpsOK, OpOK, Returned
<1>2. \A w \in Workspaces : /\ Rev(w, o.seen) \in Nat /\ Active(w, o.seen) \in BOOLEAN
                            /\ Rev(w, o.seen) = 0 => ~Active(w, o.seen)
                            /\ Rev(w, o.cursor) \in Nat
  BY <1>1, Facts DEF IInv, DirOK
<1>3. \A w \in Workspaces : /\ row[w] \in [rev : Nat, active : BOOLEAN]
                            /\ row[w].rev = 0 => ~row[w].active
  BY DEF IInv, TypeOK, RowOK
<1> HIDE DEF o
<1>4. \A w \in Workspaces : /\ Content(w, o.seen) \in [rev : Nat, active : BOOLEAN]
                            /\ Content(w, o.seen).rev = 0 => ~Content(w, o.seen).active
  BY <1>2 DEF Content
<1>5. \A w \in Workspaces :
         /\ Tombstone(w, Rev(w, o.cursor)) \in [rev : Nat, active : BOOLEAN]
         /\ Tombstone(w, Rev(w, o.cursor)).rev = 0 =>
               ~Tombstone(w, Rev(w, o.cursor)).active
  BY <1>2, <1>3 DEF Tombstone
<1>6. \A w \in Workspaces : DeltaRows(r)[w] \in {Content(w, o.seen),
                                                 Tombstone(w, Rev(w, o.cursor)), row[w]}
  BY DEF DeltaRows, o
<1>7. \A w \in Workspaces : /\ DeltaRows(r)[w] \in [rev : Nat, active : BOOLEAN]
                            /\ DeltaRows(r)[w].rev = 0 => ~DeltaRows(r)[w].active
  BY <1>3, <1>4, <1>5, <1>6
<1>8. DeltaRows(r) = [w \in Workspaces |-> DeltaRows(r)[w]]
  BY DEF DeltaRows
<1> QED BY <1>7, <1>8

LEMMA ApplyDeltaKeeps == ASSUME IInv, NEW r \in Replicas, ApplyDelta(r) PROVE IInv'
<1>1. op[r].at = "delta" /\ row' \in {DeltaRows(r), row} /\ consumer[r] <= shared.cursor
  BY DEF ApplyDelta, At, DeltaFits
<1>2. row' \in [Workspaces -> [rev : Nat, active : BOOLEAN]] /\ RowOK'
  BY <1>1, DeltaRowsKeep DEF IInv, TypeOK, RowOK
<1> QED BY <1>1, <1>2, AdvancesKeeps DEF ApplyDelta

LEMMA ApplyEventsKeeps == ASSUME IInv, NEW r \in Replicas, ApplyEvents(r) PROVE IInv'
<1>1. op[r].at = "page" /\ op[r].asked = {} /\ consumer[r] <= shared.cursor
  BY DEF ApplyEvents, At, EventsFit
<1>2. row' \in [Workspaces -> [rev : Nat, active : BOOLEAN]] /\ RowOK'
  BY DEF IInv, TypeOK, RowOK, ApplyEvents
<1> QED BY <1>1, <1>2, AdvancesKeeps DEF ApplyEvents

LEMMA ApplyTargetedKeeps == ASSUME IInv, NEW r \in Replicas, ApplyTargeted(r) PROVE IInv'
<1> DEFINE k == op[r].seen
<1>1. k \in 0..now /\ op[r].at = "targeted" /\ None \in Cursors
  BY Facts DEF IInv, OpsOK, OpOK, ApplyTargeted, At, Cursors
<1>2. DirOK' /\ OpsOK' /\ ViewsOK' /\ op' \in [Replicas -> Ops]
  BY <1>1, CommitsKeeps DEF ApplyTargeted
<1>3. \A w \in Workspaces : /\ Rev(w, k) \in Nat /\ Active(w, k) \in BOOLEAN
                            /\ Rev(w, k) = 0 => ~Active(w, k)
  BY <1>1, Facts DEF IInv, DirOK
<1> HIDE DEF k
<1>4. \A w \in Workspaces : row'[w] \in {Content(w, k), row[w]}
  BY DEF ApplyTargeted, k
<1>5. \A w \in Workspaces : /\ row[w] \in [rev : Nat, active : BOOLEAN]
                            /\ row[w].rev = 0 => ~row[w].active
                            /\ Content(w, k) \in [rev : Nat, active : BOOLEAN]
                            /\ Content(w, k).rev = 0 => ~Content(w, k).active
  BY <1>3 DEF IInv, TypeOK, RowOK, Content
<1>6. row' = [w \in Workspaces |-> row'[w]]
  BY DEF ApplyTargeted
<1>7. row' \in [Workspaces -> [rev : Nat, active : BOOLEAN]] /\ RowOK'
  BY <1>4, <1>5, <1>6 DEF RowOK
<1>8. TypeOK' /\ ReceiptsComplete'
  BY <1>2, <1>7 DEF IInv, TypeOK, ReceiptsComplete, ApplyTargeted
<1> QED BY <1>2, <1>7, <1>8 DEF IInv

LEMMA TouchKeeps == ASSUME IInv, NEW r \in Replicas, Touch(r) PROVE IInv'
<1> DEFINE vouch == Later(op[r].high, shared.cursor)
<1>1. /\ vouch \in Cursors /\ vouch <= op[r].cursor
      /\ op[r].at = "empty"
  BY Facts DEF IInv, OpsOK, OpOK, Touch, At, TouchFits, Later, Cursors
<1> HIDE DEF vouch
<1>2. DirOK' /\ OpsOK' /\ ViewsOK' /\ op' \in [Replicas -> Ops]
  BY <1>1, CommitsKeeps DEF Touch, vouch
<1> QED BY <1>2 DEF IInv, TypeOK, RowOK, ReceiptsComplete, Touch, database

-----------------------------------------------------------------------------
(* After a commit *)

\* The resolver takes the workspaces it is told as they were fetched, and the others did not
\* change between the two cursors.
LEMMA PublishKeeps == ASSUME IInv, NEW r \in Replicas, Publish(r) PROVE IInv'
<1> DEFINE o == op[r]
<1>1. /\ now \in Nat /\ o.cursor \in Nat /\ o.seen \in 0..now /\ o.cursor <= now
      /\ o.at = "publish" /\ consumer[r] \in Cursors
      /\ \A w \in o.asked : o.cursor <= o.seen
      /\ \A w \in Workspaces \ o.asked : consumer[r] # None /\ Rev(w, o.cursor) <= consumer[r]
  BY Facts DEF IInv, OpsOK, OpOK, Publish, At
<1>2. /\ UNCHANGED <<now, dir, shared, row, inbox>>
      /\ consumer' = [consumer EXCEPT ![r] = o.cursor]
      /\ active' = [active EXCEPT ![r] = (@ \ o.asked) \cup {w \in o.asked : Active(w, o.seen)}]
      /\ Becomes(r, Idle)
  BY DEF Publish, database
<1> HIDE DEF o
<1>3. TypeOK'
  <2>1. op' \in [Replicas -> Ops]
    BY <1>2, IdleOp, OneOp DEF IInv
  <2>2. consumer' \in [Replicas -> Cursors]
    BY <1>1, <1>2 DEF IInv, TypeOK, Cursors
  <2>3. active' \in [Replicas -> SUBSET Workspaces]
    <3>1. o.asked \in SUBSET Workspaces
      BY Facts DEF IInv, o
    <3> QED BY <1>2, <3>1 DEF IInv, TypeOK
  <2> QED BY <1>2, <2>1, <2>2, <2>3 DEF IInv, TypeOK
<1>4. OpsOK'
  <2>1. \A q \in Replicas : OpOK(op'[q], consumer'[q])
    BY <1>2, IdleOp, IdleOK, OneOp DEF IInv, OpsOK, TypeOK
  <2> QED BY <1>2, <2>1 DEF OpsOK, OpOK, Rev
<1>5. ViewsOK'
  <2>1. ViewOK(active'[r], o.cursor)
    <3> SUFFICES ASSUME NEW w \in Workspaces
                 PROVE  \E k \in o.cursor..now : (w \in active'[r]) = Active(w, k)
      BY <1>1 DEF ViewOK
    <3>1. active'[r] = (active[r] \ o.asked) \cup {v \in o.asked : Active(v, o.seen)}
      BY <1>2 DEF IInv, TypeOK
    <3>2. CASE w \in o.asked
      <4>1. o.seen \in o.cursor..now
        BY <1>1, <3>2
      <4>2. Active(w, o.seen) \in BOOLEAN
        BY DEF Active
      <4>3. (w \in active'[r]) = Active(w, o.seen)
        BY <3>1, <3>2, <4>2
      <4> QED BY <4>1, <4>3
    <3>3. CASE w \notin o.asked
      <4>1. PICK k \in consumer[r]..now : (w \in active[r]) = Active(w, k)
        BY <1>1, <3>3 DEF IInv, ViewsOK, ViewOK
      <4>2. consumer[r] \in Nat /\ Rev(w, o.cursor) <= consumer[r]
        BY <1>1, <3>3 DEF Cursors
      <4>3. (w \in active'[r]) = Active(w, k)
        BY <3>1, <3>3, <4>1
      <4>4. CASE o.cursor <= k
        BY <1>1, <4>1, <4>2, <4>3, <4>4
      <4>5. CASE k < o.cursor
        <5>1. Rev(w, o.cursor) \in Nat /\ Rev(w, o.cursor) <= k
          <6>1. o.cursor \in 0..now
            BY <1>1
          <6>2. Rev(w, o.cursor) \in Nat
            BY <6>1, Facts DEF IInv
          <6> QED BY <4>1, <4>2, <6>2
        <5>2. dir[k][w] = dir[o.cursor][w]
          BY <1>1, <4>1, <4>2, <4>5, <5>1 DEF IInv, DirOK
        <5> QED BY <1>1, <4>3, <5>2 DEF Active, Status
      <4> QED BY <1>1, <4>1, <4>2, <4>4, <4>5
    <3> QED BY <3>2, <3>3
  <2>2. \A q \in Replicas : ViewOK(active'[q], consumer'[q])
    BY <1>2, <2>1 DEF IInv, ViewsOK, TypeOK
  <2> QED BY <1>2, <2>2 DEF ViewsOK, ViewOK, Active, Status
<1> QED BY <1>2, <1>3, <1>4, <1>5, SameDirectory DEF IInv, RowOK, ReceiptsComplete

LEMMA CrashKeeps == ASSUME IInv, NEW r \in Replicas, Crash(r) PROVE IInv'
<1>1. /\ UNCHANGED <<now, dir, shared, row, inbox>>
      /\ consumer' = [consumer EXCEPT ![r] = None] /\ active' = [active EXCEPT ![r] = {}]
      /\ Becomes(r, Idle)
  BY DEF Crash, database
<1>2. TypeOK'
  <2>1. op' \in [Replicas -> Ops]
    BY <1>1, IdleOp, OneOp DEF IInv
  <2> QED BY <1>1, <2>1 DEF IInv, TypeOK, Cursors
<1>3. OpsOK'
  <2>1. \A q \in Replicas : OpOK(op'[q], consumer'[q])
    BY <1>1, IdleOp, IdleOK, OneOp DEF IInv, OpsOK, TypeOK
  <2> QED BY <1>1, <2>1 DEF OpsOK, OpOK, Rev
<1>4. ViewsOK'
  <2>1. \A q \in Replicas : ViewOK(active'[q], consumer'[q])
    BY <1>1 DEF IInv, ViewsOK, ViewOK, TypeOK
  <2> QED BY <1>1, <2>1 DEF ViewsOK, ViewOK, Active, Status
<1> QED BY <1>1, <1>2, <1>3, <1>4, SameDirectory DEF IInv, RowOK, ReceiptsComplete

-----------------------------------------------------------------------------
(* The invariant *)

LEMMA StepKeeps == IInv /\ [Next]_vars => IInv'
<1> SUFFICES ASSUME IInv, [Next]_vars PROVE IInv'
  OBVIOUS
<1>1. CASE UNCHANGED vars
  <2>1. UNCHANGED <<now, dir, shared, row, inbox, op, consumer, active>>
    BY <1>1 DEF vars, database, replica
  <2>2. TypeOK' /\ RowOK' /\ ReceiptsComplete' /\ DirOK'
    BY <2>1, SameDirectory DEF IInv, TypeOK, RowOK, ReceiptsComplete
  <2>3. OpsOK' /\ ViewsOK'
    BY <2>1 DEF IInv, OpsOK, OpOK, ViewsOK, ViewOK, Rev, Active, Status
  <2> QED BY <2>2, <2>3 DEF IInv
<1>2. CASE (\E w \in Workspaces, is \in Statuses : Changes(w, is)) \/ ChangesEntitlement
  BY <1>2, ChangesKeeps, ChangesEntitlementKeeps
<1>3. ASSUME NEW r \in Replicas, Fetch(r) PROVE IInv'
  BY <1>3, FetchSnapshotKeeps, FetchEventsKeeps, FetchWorkspacesKeeps, FetchAgainKeeps
     DEF Fetch
<1>4. ASSUME NEW r \in Replicas, Commit(r) PROVE IInv'
  BY <1>4, ApplySnapshotKeeps, ApplyDeltaKeeps, ApplyTargetedKeeps, ApplyEventsKeeps,
     TouchKeeps DEF Commit
<1>5. ASSUME NEW r \in Replicas,
             Publish(r) \/ Fails(r) \/ Crash(r) \/ \E w \in Workspaces : FetchTargeted(r, w)
      PROVE  IInv'
  BY <1>5, PublishKeeps, FailsKeeps, CrashKeeps, FetchTargetedKeeps
<1> QED BY <1>1, <1>2, <1>3, <1>4, <1>5 DEF Next

LEMMA Invariant == Spec => []IInv
  BY Initially, StepKeeps, PTL DEF Spec

\* Rows, cursors and fetches keep their types; the shared cursor stays between what snapshots
\* cover and the last event.
THEOREM Types == Spec => []TypeOK
<1>1. IInv => TypeOK
  BY DEF IInv
<1> QED BY <1>1, Invariant, PTL

\* _update_entitlement_workspace_activity: for any number of replicas, each one's resolver
\* takes every workspace as the directory had it at that replica's cursor or later.
THEOREM ViewsAreOwn == Spec => []OwnView
<1>1. IInv => OwnView
  BY DEF IInv, ViewsOK, ViewOK, OwnView
<1> QED BY <1>1, Invariant, PTL

\* _record_events: every event between the coverage of the last snapshot and the shared
\* cursor has its receipt, whoever applied its page.
THEOREM ReceiptsAreComplete == Spec => []ReceiptsComplete
<1>1. IInv => ReceiptsComplete
  BY DEF IInv
<1> QED BY <1>1, Invariant, PTL

\* projection_caught_up and _touch_freshness: readiness is renewed only by an update that ends
\* where the control plane and the shared projection had got to.
THEOREM ReadyOnlyAfterAll == Spec => []ReadyHasConsumed
<1>1. IInv => ReadyHasConsumed
  BY DEF IInv, OpsOK, OpOK, ReadyHasConsumed, At
<1> QED BY <1>1, Invariant, PTL

-----------------------------------------------------------------------------
(* Replicas stay behind the shared cursor *)

\* What a replica's cursor is or is about to become.
BehindAt(o, c, last) ==
    /\ c # None => c <= last
    /\ o.at = "publish" => o.cursor <= last
    /\ o.at = "targeted" => o.cursor = c /\ c # None

Behind == \A r \in Replicas : BehindAt(op[r], consumer[r], shared.cursor)

\* The shared cursor never goes back.
LEMMA SharedAdvances == IInv /\ [Next]_vars => shared.cursor <= shared'.cursor
<1> SUFFICES ASSUME IInv, [Next]_vars PROVE shared.cursor <= shared'.cursor
  OBVIOUS
<1>0. shared.cursor \in Nat /\ \A r \in Replicas : op[r].cursor \in Nat
  BY Facts DEF IInv
<1>1. ASSUME NEW r \in Replicas, ApplySnapshot(r) PROVE shared.cursor <= shared'.cursor
  BY <1>0, <1>1 DEF ApplySnapshot, SnapshotFits, Superseded
<1>2. ASSUME NEW r \in Replicas, ApplyDelta(r) \/ ApplyEvents(r)
      PROVE  shared.cursor <= shared'.cursor
  <2>1. shared' = [shared EXCEPT !.cursor = Later(shared.cursor, op[r].cursor)]
    BY <1>2 DEF ApplyDelta, ApplyEvents, AdvancesTo
  <2>2. shared'.cursor = Later(shared.cursor, op[r].cursor)
    BY <2>1 DEF IInv, TypeOK
  <2> QED BY <1>0, <2>2 DEF Later
<1>3. shared' = shared => shared.cursor <= shared'.cursor
  BY <1>0
<1>4. ASSUME NEW r \in Replicas, Fetch(r) \/ Publish(r) \/ Fails(r) \/ Crash(r)
                                  \/ (\E w \in Workspaces : FetchTargeted(r, w))
      PROVE  shared' = shared
  <2>1. \A step, asked, cursor, high, seen :
           Fetches(r, step, asked, cursor, high, seen) => shared' = shared
    BY DEF Fetches, database
  <2>2. FetchSnapshot(r) \/ FetchEvents(r) => shared' = shared
    BY <2>1, Zenon DEF FetchSnapshot, FetchEvents
  <2>3. (\E w \in Workspaces : FetchTargeted(r, w)) => shared' = shared
    BY <2>1 DEF FetchTargeted
  <2>4. FetchWorkspaces(r) \/ FetchAgain(r) \/ Publish(r) \/ Fails(r) \/ Crash(r) => shared' = shared
    BY DEF FetchWorkspaces, FetchAgain, Publish, Fails, Crash, database
  <2> QED BY <1>4, <2>2, <2>3, <2>4 DEF Fetch
<1>5. ASSUME NEW r \in Replicas, ApplyTargeted(r) \/ Touch(r) PROVE shared' = shared
  BY <1>5 DEF ApplyTargeted, Touch, database
<1>6. ASSUME (\E w \in Workspaces, is \in Statuses : Changes(w, is)) \/ ChangesEntitlement
      PROVE  shared' = shared
  BY <1>6 DEF Changes, ChangesEntitlement, Publishes, database
<1>7. UNCHANGED vars => shared' = shared
  BY DEF vars, database
<1> QED BY <1>1, <1>2, <1>3, <1>4, <1>5, <1>6, <1>7 DEF Next, Commit

\* The replica that acts is behind afterwards; the others have not moved.
LEMMA BehindOne ==
    ASSUME IInv, Behind, [Next]_vars, NEW r \in Replicas, NEW o,
           op' = [op EXCEPT ![r] = o], consumer' = consumer,
           BehindAt(o, consumer[r], shared'.cursor)
    PROVE  Behind'
<1>1. /\ shared.cursor \in Nat /\ shared'.cursor \in Nat /\ shared.cursor <= shared'.cursor
      /\ \A q \in Replicas : op[q].cursor \in Nat /\ consumer[q] \in Cursors
  <2>1. IInv' /\ shared.cursor <= shared'.cursor
    BY SharedAdvances, StepKeeps
  <2> QED BY <2>1, Facts DEF IInv, TypeOK
<1>2. \A q \in Replicas : BehindAt(op[q], consumer[q], shared'.cursor)
  BY <1>1 DEF Behind, BehindAt, Cursors
<1>3. \A q \in Replicas : op'[q] = IF q = r THEN o ELSE op[q]
  BY DEF IInv, TypeOK
<1> QED BY <1>2, <1>3 DEF Behind

\* The replicas that have not acted are as far behind as they were.
LEMMA BehindSame ==
    ASSUME IInv, Behind, [Next]_vars, UNCHANGED <<op, consumer>>
    PROVE  Behind'
<1>1. /\ shared.cursor \in Nat /\ shared'.cursor \in Nat /\ shared.cursor <= shared'.cursor
      /\ \A q \in Replicas : op[q].cursor \in Nat /\ consumer[q] \in Cursors
  <2>1. IInv' /\ shared.cursor <= shared'.cursor
    BY SharedAdvances, StepKeeps
  <2> QED BY <2>1, Facts DEF IInv, TypeOK
<1> QED BY <1>1 DEF Behind, BehindAt, Cursors

\* A step keeps every replica behind: only a commit moves an operation to its publication,
\* and it has moved the shared cursor as far.
LEMMA BehindStep == IInv /\ Behind /\ [Next]_vars => Behind'
<1> SUFFICES ASSUME IInv, Behind, [Next]_vars PROVE Behind'
  OBVIOUS
<1>1. \A r \in Replicas : /\ BehindAt(op[r], consumer[r], shared.cursor)
                         /\ op[r].cursor \in Nat /\ op[r] \in Ops /\ consumer[r] \in Cursors
  BY Facts DEF IInv, Behind
<1>2. shared.cursor \in Nat /\ shared'.cursor \in Nat /\ shared.cursor <= shared'.cursor
  <2>1. IInv'
    BY StepKeeps
  <2> QED BY <2>1, SharedAdvances, Facts DEF IInv, TypeOK
<1>3. \A r \in Replicas : consumer[r] # None => consumer[r] <= shared'.cursor
  BY <1>1, <1>2 DEF BehindAt, Cursors
<1>4. ASSUME NEW r \in Replicas, NEW o, op' = [op EXCEPT ![r] = o], consumer' = consumer,
             o.at = "publish" => o.cursor <= shared'.cursor,
             o.at = "targeted" => o.cursor = consumer[r] /\ consumer[r] # None
      PROVE  Behind'
  <2>1. BehindAt(o, consumer[r], shared'.cursor)
    BY <1>3, <1>4 DEF BehindAt
  <2> QED BY <1>4, <2>1, BehindOne
<1>5. ASSUME NEW r \in Replicas, NEW step, NEW asked, NEW cursor, NEW high, NEW seen,
             Fetches(r, step, asked, cursor, high, seen), step # "publish",
             step = "targeted" => cursor = consumer[r] /\ consumer[r] # None
      PROVE  Behind'
  <2> DEFINE o == [Idle EXCEPT !.at = step, !.asked = asked, !.cursor = cursor, !.high = high,
                               !.seen = seen]
  <2>1. o.at = step /\ o.cursor = cursor
    BY DEF Idle
  <2>2. op' = [op EXCEPT ![r] = o] /\ consumer' = consumer
    BY <1>5 DEF Fetches, Becomes
  <2> HIDE DEF o
  <2> QED BY <1>4, <1>5, <2>1, <2>2
<1>6. ASSUME NEW r \in Replicas, NEW vouch, Commits(r, vouch), consumer' = consumer,
             op[r].cursor <= shared'.cursor
      PROVE  Behind'
  <2> DEFINE o == [op[r] EXCEPT !.at = "publish", !.high = 0, !.try = 0, !.vouch = vouch]
  <2>1. o.at = "publish" /\ o.cursor = op[r].cursor
    BY <1>1 DEF Ops
  <2>2. op' = [op EXCEPT ![r] = o]
    BY <1>6 DEF Commits, Becomes
  <2> HIDE DEF o
  <2> QED BY <1>4, <1>6, <2>1, <2>2
<1>7. ASSUME NEW r \in Replicas, Fetch(r) PROVE Behind'
  <2>1. CASE FetchSnapshot(r)
    BY <1>5, <2>1 DEF FetchSnapshot
  <2>2. CASE FetchEvents(r)
    <3> DEFINE cursor == Min2(consumer[r] + PageLimit, now)
               step   == IF cursor = consumer[r] THEN "empty" ELSE "page"
    <3>1. Fetches(r, step, Named(r, cursor), cursor, now, 0)
      BY <2>2 DEF FetchEvents
    <3>2. step # "publish" /\ step # "targeted"
      OBVIOUS
    <3> HIDE DEF step, cursor
    <3> QED BY <1>5, <3>1, <3>2
  <2>3. CASE FetchWorkspaces(r)
    <3> DEFINE o == [op[r] EXCEPT !.at = "delta", !.seen = now]
    <3>1. o.at = "delta"
      BY <1>1 DEF Ops
    <3>2. op' = [op EXCEPT ![r] = o] /\ consumer' = consumer
      BY <2>3 DEF FetchWorkspaces, Becomes
    <3> HIDE DEF o
    <3> QED BY <1>4, <3>1, <3>2
  <2>4. CASE FetchAgain(r)
    <3> DEFINE o == [op[r] EXCEPT !.cursor = now, !.seen = now, !.try = @ + 1]
    <3>1. o.at = "snapshot"
      BY <1>1, <2>4 DEF Ops, FetchAgain, At
    <3>2. op' = [op EXCEPT ![r] = o] /\ consumer' = consumer
      BY <2>4 DEF FetchAgain, Becomes
    <3> HIDE DEF o
    <3> QED BY <1>4, <3>1, <3>2
  <2> QED BY <1>7, <2>1, <2>2, <2>3, <2>4 DEF Fetch
<1>8. ASSUME NEW r \in Replicas, Commit(r) PROVE Behind'
  <2>1. CASE ApplySnapshot(r)
    <3>1. shared'.cursor = op[r].cursor /\ Commits(r, op[r].cursor) /\ consumer' = consumer
      BY <2>1 DEF ApplySnapshot
    <3> QED BY <1>1, <1>6, <3>1
  <2>2. CASE ApplyDelta(r) \/ ApplyEvents(r)
    <3>1. AdvancesTo(r, op[r].cursor) /\ consumer' = consumer
      BY <2>2 DEF ApplyDelta, ApplyEvents
    <3>2. shared'.cursor = Later(shared.cursor, op[r].cursor)
      <4>1. shared' = [shared EXCEPT !.cursor = Later(shared.cursor, op[r].cursor)]
        BY <3>1 DEF AdvancesTo
      <4> QED BY <4>1 DEF IInv, TypeOK
    <3>3. op[r].cursor <= shared'.cursor
      BY <1>1, <1>2, <3>2 DEF Later
    <3>4. PICK vouch : Commits(r, vouch)
      BY <3>1 DEF AdvancesTo
    <3> QED BY <1>6, <3>1, <3>3, <3>4
  <2>3. CASE ApplyTargeted(r)
    <3>1. Commits(r, None) /\ consumer' = consumer /\ op[r].at = "targeted"
      BY <2>3 DEF ApplyTargeted, At
    <3>2. op[r].cursor <= shared'.cursor
      BY <1>1, <1>3, <3>1 DEF BehindAt
    <3> QED BY <1>6, <3>1, <3>2
  <2>4. CASE Touch(r)
    <3>1. shared.cursor = op[r].cursor /\ consumer' = consumer
      BY <2>4 DEF Touch, TouchFits
    <3>2. PICK vouch : Commits(r, vouch)
      BY <2>4 DEF Touch
    <3> QED BY <1>2, <1>6, <3>1, <3>2
  <2> QED BY <1>8, <2>1, <2>2, <2>3, <2>4 DEF Commit
<1>9. ASSUME NEW r \in Replicas, NEW w \in Workspaces, FetchTargeted(r, w) PROVE Behind'
  BY <1>5, <1>9 DEF FetchTargeted
<1>10. ASSUME NEW r \in Replicas, Fails(r) PROVE Behind'
  <2>1. op' = [op EXCEPT ![r] = Idle] /\ consumer' = consumer
    BY <1>10 DEF Fails, Becomes
  <2> QED BY <1>4, <2>1, IdleOp
<1>11. ASSUME NEW r \in Replicas, Publish(r) \/ Crash(r) PROVE Behind'
  <2>1. PICK c : /\ consumer' = [consumer EXCEPT ![r] = c]
                 /\ c = None \/ (c = op[r].cursor /\ op[r].at = "publish")
    BY <1>11 DEF Publish, Crash, At
  <2>2. op' = [op EXCEPT ![r] = Idle]
    BY <1>11 DEF Publish, Crash, Becomes
  <2>3. c # None => c <= shared'.cursor
    BY <1>1, <1>2, <2>1 DEF BehindAt
  <2>4. BehindAt(Idle, c, shared'.cursor)
    BY <2>3, IdleOp DEF BehindAt
  <2>5. \A q \in Replicas : /\ op'[q] = IF q = r THEN Idle ELSE op[q]
                           /\ consumer'[q] = IF q = r THEN c ELSE consumer[q]
    BY <2>1, <2>2 DEF IInv, TypeOK
  <2>6. \A q \in Replicas : BehindAt(op[q], consumer[q], shared'.cursor)
    BY <1>1, <1>2 DEF BehindAt, Cursors
  <2> QED BY <2>4, <2>5, <2>6 DEF Behind
<1>12. CASE (\E w \in Workspaces, is \in Statuses : Changes(w, is)) \/ ChangesEntitlement
  <2>1. UNCHANGED <<op, consumer>>
    BY <1>12 DEF Changes, ChangesEntitlement, Publishes, replica
  <2> QED BY <2>1, BehindSame
<1>13. CASE UNCHANGED vars
  BY <1>13, BehindSame DEF vars, replica
<1> QED BY <1>7, <1>8, <1>9, <1>10, <1>11, <1>12, <1>13 DEF Next

\* apply_delta and apply_event_batch: for any number of replicas and any page limit, neither
\* the roll-back check nor the check of receipts ever refuses a replica that lags.
THEOREM LaggingReplicasAreServed == Spec => []LagIsServed
<1>1. Init => Behind
  <2>1. Init => \A r \in Replicas : op[r] = Idle /\ consumer[r] = None
    BY DEF Init
  <2> QED BY <2>1, IdleOp DEF Behind, BehindAt
<1>2. Spec => [](IInv /\ Behind)
  BY <1>1, Initially, StepKeeps, BehindStep, PTL DEF Spec
<1>3. IInv /\ Behind => LagIsServed
  <2> SUFFICES ASSUME IInv, Behind PROVE LagIsServed
    OBVIOUS
  <2>1. \A r \in Replicas : consumer[r] # None => consumer[r] <= shared.cursor
    BY DEF Behind, BehindAt
  <2>2. ASSUME NEW r \in Replicas, At(r, "page") \/ At(r, "delta") PROVE Receipted(r)
    <3>1. /\ consumer[r] \in Nat /\ shared.cursor \in Nat /\ shared.covered \in Nat
          /\ op[r].cursor \in Nat
      BY <2>2, Facts DEF IInv, OpsOK, OpOK, At, Cursors
    <3> QED BY <3>1 DEF IInv, ReceiptsComplete, Receipted
  <2> QED BY <2>1, <2>2 DEF LagIsServed
<1> QED BY <1>2, <1>3, PTL

-----------------------------------------------------------------------------
(* What a step does to the rows *)

\* One replica's commit is the only kind of step that writes rows or the shared cursor.
LEMMA Writes ==
    ASSUME [Next]_vars
    PROVE  \/ UNCHANGED <<shared, row>>
           \/ \E r \in Replicas : \/ ApplySnapshot(r) \/ ApplyDelta(r)
                                  \/ ApplyTargeted(r) \/ ApplyEvents(r)
  BY DEF Next, vars, database, Changes, ChangesEntitlement, Publishes, Fetch, FetchSnapshot,
         FetchEvents, FetchWorkspaces, FetchAgain, FetchTargeted, Fetches, Commit, Touch,
         Publish, Fails, Crash

Advances(w) ==
    \/ row[w].rev < row[w].rev'
    \/ row[w].rev = row[w].rev' /\ (row[w].active' => row[w].active)

LEMMA ContentAdvances ==
    ASSUME IInv, NEW w \in Workspaces, NEW k \in 0..now, Fits(w, k), row'[w] = Content(w, k)
    PROVE  Advances(w)
<1>1. Content(w, k).rev = Rev(w, k) /\ Content(w, k).active = Active(w, k)
  BY DEF Content
<1> QED BY <1>1 DEF Fits, Advances

LEMMA FencedAdvances ==
    ASSUME IInv, NEW w \in Workspaces, row'[w] = Fenced(w)
    PROVE  Advances(w)
<1>1. row[w] \in [rev : Nat, active : BOOLEAN]
  BY DEF IInv, TypeOK
<1> QED BY <1>1 DEF Fenced, Advances

LEMMA TombstoneAdvances ==
    ASSUME IInv, NEW w \in Workspaces, NEW k \in 0..now, row[w].rev <= Rev(w, k),
           row'[w] = Tombstone(w, Rev(w, k))
    PROVE  Advances(w)
<1>1. row[w] \in [rev : Nat, active : BOOLEAN] /\ Rev(w, k) \in Nat
  BY Facts DEF IInv, TypeOK
<1> QED BY <1>1 DEF Tombstone, Advances

LEMMA RowsStep == IInv /\ [Next]_vars => \A w \in Workspaces : Advances(w)
<1> SUFFICES ASSUME IInv, [Next]_vars, NEW w \in Workspaces PROVE Advances(w)
  OBVIOUS
<1>1. \A r \in Replicas : op[r].at # "idle" => op[r].seen \in 0..now /\ op[r].cursor \in 0..now
  BY Facts DEF IInv, OpsOK, OpOK
<1>2. CASE row'[w] = row[w]
  BY <1>2 DEF Advances
<1>3. ASSUME NEW r \in Replicas, ApplySnapshot(r) PROVE Advances(w)
  <2>1. op[r].seen \in 0..now
    BY <1>1, <1>3 DEF ApplySnapshot, At
  <2>2. CASE w \in Returned(op[r])
    BY <1>3, <2>1, <2>2, ContentAdvances DEF ApplySnapshot, SnapshotFits
  <2>3. CASE w \notin Returned(op[r])
    BY <1>3, <2>3, FencedAdvances DEF ApplySnapshot
  <2> QED BY <2>2, <2>3
<1>4. ASSUME NEW r \in Replicas, ApplyDelta(r), DeltaIsNew(r) PROVE Advances(w)
  <2>1. op[r].seen \in 0..now /\ op[r].cursor \in 0..now /\ row' = DeltaRows(r)
    BY <1>1, <1>4 DEF ApplyDelta, At
  <2>2. CASE w \in Returned(op[r])
    <3>1. row'[w] = Content(w, op[r].seen)
      BY <2>1, <2>2 DEF DeltaRows, Omitted
    <3> QED BY <1>4, <2>1, <2>2, <3>1, ContentAdvances DEF ApplyDelta, DeltaFits
  <2>3. CASE w \in Omitted(op[r])
    <3>1. row'[w] = Tombstone(w, Rev(w, op[r].cursor))
      BY <2>1, <2>3 DEF DeltaRows, Omitted
    <3> QED BY <1>4, <2>1, <2>3, <3>1, TombstoneAdvances DEF ApplyDelta, DeltaFits
  <2>4. CASE w \notin Returned(op[r]) /\ w \notin Omitted(op[r])
    BY <1>2, <2>1, <2>4 DEF DeltaRows
  <2> QED BY <2>2, <2>3, <2>4
<1>5. ASSUME NEW r \in Replicas, ApplyTargeted(r) PROVE Advances(w)
  <2>1. op[r].seen \in 0..now
    BY <1>1, <1>5 DEF ApplyTargeted, At
  <2>2. CASE w \in op[r].asked
    BY <1>5, <2>1, <2>2, ContentAdvances DEF ApplyTargeted
  <2>3. CASE w \notin op[r].asked
    BY <1>2, <1>5, <2>3 DEF ApplyTargeted
  <2> QED BY <2>2, <2>3
<1> QED BY <1>2, <1>3, <1>4, <1>5, Writes DEF ApplyDelta, ApplyEvents

\* _validate_existing_workspace, _fence_workspaces and _fence_absent_workspaces: whoever writes
\* a row, its revision never goes back and it is not revived at the same revision.
THEOREM RowsAdvance == Spec => RowsOnlyAdvance
<1>1. IInv /\ [Next]_vars
        => [\A w \in Workspaces :
              \/ row[w].rev < row[w].rev'
              \/ row[w].rev = row[w].rev' /\ (row[w].active' => row[w].active)]_vars
  BY RowsStep DEF Advances
<1> QED BY <1>1, Invariant, PTL DEF Spec, RowsOnlyAdvance

-----------------------------------------------------------------------------
(* What a step does to what the rows show *)

\* A row that is written as the directory was at k covers the workspace up to k.
LEMMA CoversAt ==
    ASSUME IInv, UNCHANGED <<now, dir>>, NEW w \in Workspaces, NEW k \in 0..now,
           shared'.cursor \in Nat, shared'.cursor <= k, row'[w].active = Active(w, k)
    PROVE  Covered(w)'
<1>1. k \in shared'.cursor..now' /\ now \in Nat
  BY Facts DEF IInv
<1>2. (Active(w, k))' = Active(w, k)
  BY SameDirectory
<1> QED BY <1>1, <1>2 DEF Covered

\* Moving the shared cursor to the end of a page leaves a workspace covered that did not
\* change between the replica's cursor and the end of the page.
LEMMA CoversUnasked ==
    ASSUME IInv, UNCHANGED <<now, dir>>, NEW w \in Workspaces, NEW r \in Replicas,
           op[r].at \in {"delta", "page"}, w \notin op[r].asked,
           consumer[r] <= shared.cursor,
           shared'.cursor = Later(shared.cursor, op[r].cursor), row'[w] = row[w], Covered(w)
    PROVE  Covered(w)'
<1> DEFINE c == op[r].cursor
<1>1. /\ now \in Nat /\ c \in 0..now /\ shared.cursor \in 0..now
      /\ consumer[r] \in Nat /\ Rev(w, c) <= consumer[r] /\ Rev(w, c) \in Nat
  <2>1. /\ now \in Nat /\ c \in 0..now /\ shared.cursor \in 0..now
        /\ consumer[r] \in Nat /\ Rev(w, c) <= consumer[r]
    BY Facts DEF IInv, OpsOK, OpOK, Cursors
  <2> QED BY <2>1, Facts DEF IInv
<1>2. PICK k \in shared.cursor..now : row[w].active = Active(w, k)
  BY DEF Covered
<1>3. shared'.cursor \in {shared.cursor, c} /\ (c <= shared.cursor => shared'.cursor = shared.cursor)
  BY <1>1 DEF Later
<1> HIDE DEF c
<1>4. CASE shared'.cursor <= k
  BY <1>1, <1>2, <1>3, <1>4, CoversAt
<1>5. CASE shared'.cursor = c /\ k < c
  <2>1. dir[k][w] = dir[c][w]
    BY <1>1, <1>2, <1>5 DEF IInv, DirOK
  <2>2. row'[w].active = Active(w, c)
    BY <1>2, <2>1 DEF Active, Status
  <2> QED BY <1>1, <1>5, <2>2, CoversAt
<1> QED BY <1>1, <1>2, <1>3, <1>4, <1>5

\* A step that leaves shared cursor and row alone leaves the workspace covered.
LEMMA CoversSame ==
    ASSUME IInv, UNCHANGED <<now, dir>>, NEW w \in Workspaces,
           shared'.cursor = shared.cursor, row'[w] = row[w], Covered(w)
    PROVE  Covered(w)'
<1>1. PICK k \in shared.cursor..now : row[w].active = Active(w, k)
  BY DEF Covered
<1>2. shared.cursor \in Nat /\ k \in 0..now /\ shared.cursor <= k
  BY Facts DEF IInv
<1> QED BY <1>1, <1>2, CoversAt

LEMMA PublishesCovers ==
    ASSUME IInv, NEW contents, Publishes(contents), NEW w \in Workspaces, Covered(w)
    PROVE  Covered(w)'
<1>1. PICK k \in shared.cursor..now : row[w].active = Active(w, k)
  BY DEF Covered
<1>2. /\ now \in Nat /\ shared.cursor \in Nat /\ now' = now + 1
      /\ UNCHANGED <<shared, row>>
  BY Facts DEF IInv, Publishes, database
<1>3. dir'[k] = dir[k]
  BY <1>1, <1>2 DEF Publishes
<1> QED BY <1>1, <1>2, <1>3 DEF Covered, Active, Status

LEMMA ApplySnapshotCovers ==
    ASSUME IInv, NEW r \in Replicas, ApplySnapshot(r), NEW w \in Workspaces
    PROVE  Covered(w)'
<1>1. /\ op[r].asked = Workspaces /\ op[r].cursor = op[r].seen /\ op[r].seen \in 0..now
      /\ op[r].cursor \in Nat
  BY Facts DEF IInv, OpsOK, OpOK, ApplySnapshot, At
<1>2. row'[w].active = Active(w, op[r].seen)
  <2>1. CASE w \in Returned(op[r])
    BY <2>1 DEF ApplySnapshot, Content, Returned, At
  <2>2. CASE w \notin Returned(op[r])
    <3>1. ~Active(w, op[r].seen)
      BY <1>1, <2>2 DEF ApplySnapshot, Returned, At
    <3>2. row[w] \in [rev : Nat, active : BOOLEAN] /\ row'[w] = Fenced(w)
      BY <2>2 DEF IInv, TypeOK, ApplySnapshot
    <3>3. row'[w].active = FALSE
      BY <3>2 DEF Fenced
    <3>4. Active(w, op[r].seen) = FALSE
      BY <3>1 DEF Active
    <3> QED BY <3>3, <3>4
  <2> QED BY <2>1, <2>2
<1>3. shared'.cursor = op[r].cursor /\ UNCHANGED <<now, dir>>
  BY DEF ApplySnapshot
<1> QED BY <1>1, <1>2, <1>3, CoversAt

\* What a page writes for a workspace it asked for is what the directory had when it was fetched.
LEMMA DeltaShows ==
    ASSUME IInv, NEW r \in Replicas, op[r].at = "delta", NEW w \in op[r].asked
    PROVE  DeltaRows(r)[w].active = Active(w, op[r].seen)
<1>1. w \in Workspaces
  BY Facts DEF IInv
<1>2. CASE w \in Returned(op[r])
  BY <1>1, <1>2 DEF DeltaRows, Omitted, Content
<1>3. CASE w \in Omitted(op[r])
  <2>1. DeltaRows(r)[w] = Tombstone(w, Rev(w, op[r].cursor))
    BY <1>1, <1>3 DEF DeltaRows, Omitted
  <2>2. row[w].active \in BOOLEAN /\ (row[w].rev = 0 => ~row[w].active)
    BY <1>1, Facts DEF IInv, RowOK
  <2>3. Tombstone(w, Rev(w, op[r].cursor)).active = FALSE
    BY <2>2 DEF Tombstone
  <2>4. Active(w, op[r].seen) = FALSE
    BY <1>3 DEF Omitted, Returned, Active
  <2> QED BY <2>1, <2>3, <2>4
<1> QED BY <1>2, <1>3 DEF Omitted

LEMMA ApplyDeltaCovers ==
    ASSUME IInv, NEW r \in Replicas, ApplyDelta(r), NEW w \in Workspaces, Covered(w)
    PROVE  Covered(w)'
<1>1. /\ op[r].at = "delta" /\ UNCHANGED <<now, dir>> /\ consumer[r] <= shared.cursor
      /\ op[r].seen \in 0..now /\ op[r].cursor \in Nat /\ shared.cursor \in Nat
      /\ \A v \in op[r].asked : op[r].cursor <= op[r].seen
  BY Facts DEF IInv, OpsOK, OpOK, ApplyDelta, At, DeltaFits
<1>2. shared'.cursor = Later(shared.cursor, op[r].cursor)
  BY Facts DEF IInv, ApplyDelta, AdvancesTo
<1>3. CASE ~DeltaIsNew(r)
  <2>1. row' = row /\ shared'.cursor = shared.cursor
    BY <1>1, <1>2, <1>3 DEF ApplyDelta, DeltaIsNew, Later
  <2> QED BY <1>1, <2>1, CoversSame
<1>4. CASE DeltaIsNew(r) /\ w \in op[r].asked
  <2>1. row'[w].active = Active(w, op[r].seen)
    BY <1>1, <1>4, DeltaShows DEF ApplyDelta
  <2>2. shared'.cursor = op[r].cursor
    BY <1>1, <1>2, <1>4 DEF DeltaIsNew, Later
  <2> QED BY <1>1, <1>4, <2>1, <2>2, CoversAt
<1>5. CASE DeltaIsNew(r) /\ w \notin op[r].asked
  <2>1. row'[w] = row[w]
    BY <1>5 DEF ApplyDelta, DeltaRows, Returned, Omitted
  <2> QED BY <1>1, <1>2, <1>5, <2>1, CoversUnasked
<1> QED BY <1>3, <1>4, <1>5

LEMMA ApplyEventsCovers ==
    ASSUME IInv, NEW r \in Replicas, ApplyEvents(r), NEW w \in Workspaces, Covered(w)
    PROVE  Covered(w)'
<1>1. /\ op[r].at = "page" /\ op[r].asked = {} /\ UNCHANGED <<now, dir, row>>
      /\ consumer[r] <= shared.cursor
  BY DEF ApplyEvents, At, EventsFit
<1>2. shared'.cursor = Later(shared.cursor, op[r].cursor)
  BY Facts DEF IInv, ApplyEvents, AdvancesTo
<1> QED BY <1>1, <1>2, CoversUnasked

LEMMA ApplyTargetedCovers ==
    ASSUME IInv, NEW r \in Replicas, ApplyTargeted(r), NEW w \in Workspaces, Covered(w)
    PROVE  Covered(w)' \/ LateLaunch(w)
<1>1. /\ op[r].at = "targeted" /\ op[r].seen \in 0..now /\ shared.cursor \in Nat
      /\ UNCHANGED <<now, dir, shared>>
  BY Facts DEF IInv, OpsOK, OpOK, ApplyTargeted, At
<1>2. CASE w \notin op[r].asked
  <2>1. row'[w] = row[w]
    BY <1>2 DEF ApplyTargeted
  <2> QED BY <1>1, <2>1, CoversSame
<1>3. CASE w \in op[r].asked /\ shared.cursor <= op[r].seen
  <2>1. row'[w].active = Active(w, op[r].seen)
    BY <1>3 DEF ApplyTargeted, Content
  <2> QED BY <1>1, <1>3, <2>1, CoversAt
<1>4. CASE w \in op[r].asked /\ op[r].seen < shared.cursor
  <2>1. op'[r].at = "publish"
    BY Facts DEF IInv, TypeOK, ApplyTargeted, Commits, Becomes, Ops
  <2> QED BY <1>1, <1>4, <2>1 DEF LateLaunch, At
<1> QED BY <1>1, <1>2, <1>3, <1>4

LEMMA CoversStep ==
    ASSUME IInv, [Next]_vars, NEW w \in Workspaces, Covered(w)
    PROVE  Covered(w)' \/ LateLaunch(w)
<1>1. CASE \E v \in Workspaces, is \in Statuses : Changes(v, is)
  BY <1>1, PublishesCovers DEF Changes
<1>2. CASE ChangesEntitlement
  BY <1>2, PublishesCovers DEF ChangesEntitlement
<1>3. CASE UNCHANGED <<now, dir, shared, row>>
  BY <1>3, CoversSame
<1>4. CASE \E r \in Replicas : \/ ApplySnapshot(r) \/ ApplyDelta(r)
                             \/ ApplyTargeted(r) \/ ApplyEvents(r)
  BY <1>4, ApplySnapshotCovers, ApplyDeltaCovers, ApplyTargetedCovers, ApplyEventsCovers
<1> QED BY <1>1, <1>2, <1>3, <1>4
        DEF Next, vars, database, Fetch, FetchSnapshot, FetchEvents, FetchWorkspaces,
            FetchAgain, FetchTargeted, Fetches, Commit, Touch, Publish, Fails, Crash

\* apply_delta, apply_event_batch and apply_snapshot: whatever overlaps, the shared cursor passes
\* no change that the rows do not show; only a launch that another replica overtook takes a row
\* back behind it.
THEOREM RowsStayCovered == Spec => StaysCovered
<1>1. IInv /\ [Next]_vars => [\A w \in Workspaces : Covered(w) => Covered(w)' \/ LateLaunch(w)]_vars
  BY CoversStep
<1> QED BY <1>1, Invariant, PTL DEF Spec, StaysCovered
=============================================================================
