------------------------------ MODULE Directory ------------------------------
(****************************************************************************)
(* The projection of the Cloud directory into the tenant tables             *)
(* (cloud/directory_projection.py), by several replicas of the host.        *)
(*                                                                          *)
(* The control plane publishes one event for every change; a cursor counts  *)
(* events.  A replica starts with a full snapshot and then reads pages of   *)
(* events; a page names workspaces, whose present contents are fetched in a *)
(* second call.  Rows, the shared cursor and the receipts of events are     *)
(* written in one transaction that holds the row of the shared cursor.      *)
(* Which workspaces are active is then told to the entitlement resolver of  *)
(* this process (cloud/entitlements.py), and only then does the replica     *)
(* move its own cursor.  A launch projects one workspace between two pages. *)
(*                                                                          *)
(* The database keeps its rows when a replica stops.  Fetches and commits   *)
(* may fail; other replicas and the control plane go on between any two.    *)
(* Left out: accounts and memberships, execution generations, capacity      *)
(* limits, and the fingerprint of a snapshot, which cannot differ at one    *)
(* cursor when snapshots are consistent.                                    *)
(****************************************************************************)
EXTENDS Naturals

CONSTANTS
    Replicas,      \* processes of the host
    Workspaces,    \* workspaces of the directory
    PageLimit,     \* event_limit
    MaxAttempts,   \* snapshots fetched by one start
    MaxEvents,     \* bound: events published
    None

ASSUME DirectoryAssumption ==
    /\ PageLimit \in Nat \ {0} /\ MaxAttempts \in Nat \ {0}
    /\ MaxEvents \in Nat
    /\ None \notin Nat

VARIABLES
    now,        \* the cursor of the last event
    dir,        \* the directory at every cursor: of each workspace, its revision and status
    shared,     \* DirectoryProjectionState: its cursor, and what a snapshot covers
    row,        \* of each workspace: its revision (0: no row) and whether it is active
    inbox,      \* events with a receipt, by cursor
    op,         \* what each replica does under its _sync_lock
    consumer,   \* _consumer_cursor of each replica
    active      \* _active_workspace_uuids of each replica's entitlement resolver

database == <<shared, row, inbox>>
replica  == <<op, consumer, active>>
vars     == <<now, dir, database, replica>>

-----------------------------------------------------------------------------
(* The directory, as the control plane publishes it *)

Statuses == {"active", "archived", "gone"}

Status(w, k) == dir[k][w].is
Rev(w, k)    == dir[k][w].rev
Active(w, k) == Status(w, k) = "active"

-----------------------------------------------------------------------------
Cursors == Nat \cup {None}
Steps   == {"idle", "snapshot", "page", "delta", "empty", "targeted", "publish"}
Ops     == [at : Steps, asked : SUBSET Workspaces, cursor : Nat, high : Nat, seen : Nat,
            try : Nat, vouch : Cursors]
Idle    == [at |-> "idle", asked |-> {}, cursor |-> 0, high |-> 0, seen |-> 0,
            try |-> 0, vouch |-> None]

TypeOK ==
    /\ now \in Nat
    /\ dir \in [0..now -> [Workspaces -> [rev : Nat, is : Statuses]]]
    /\ shared \in [cursor : Nat, covered : Nat]
    /\ row \in [Workspaces -> [rev : Nat, active : BOOLEAN]]
    /\ inbox \in SUBSET Nat
    /\ op \in [Replicas -> Ops]
    /\ consumer \in [Replicas -> Cursors]
    /\ active \in [Replicas -> SUBSET Workspaces]
    /\ shared.covered <= shared.cursor /\ shared.cursor <= now

\* Without a row for the shared cursor the first snapshot inserts one, with its own cursor.
Init ==
    /\ now = 0
    /\ dir = [k \in {0} |-> [w \in Workspaces |-> [rev |-> 0, is |-> "gone"]]]
    /\ shared = [cursor |-> 0, covered |-> 0]
    /\ row = [w \in Workspaces |-> [rev |-> 0, active |-> FALSE]]
    /\ inbox = {}
    /\ op = [r \in Replicas |-> Idle]
    /\ consumer = [r \in Replicas |-> None]
    /\ active = [r \in Replicas |-> {}]

Publishes(contents) ==
    /\ now < MaxEvents
    /\ now' = now + 1
    /\ dir' = [k \in 0..now + 1 |-> IF k <= now THEN dir[k] ELSE contents]
    /\ UNCHANGED <<database, replica>>

\* directory.changed: the position of the event stands for the new revision.
Changes(w, is) ==
    /\ is # "active" => Status(w, now) \notin {is, "gone"}
    /\ Publishes([dir[now] EXCEPT ![w] = [rev |-> now + 1, is |-> is]])

\* entitlement.changed
ChangesEntitlement == (\E w \in Workspaces : Active(w, now)) /\ Publishes(dir[now])

-----------------------------------------------------------------------------
(* Fetches *)

At(r, step)    == op[r].at = step
Becomes(r, o)  == op' = [op EXCEPT ![r] = o]
Fetches(r, step, asked, cursor, high, seen) ==
    /\ Becomes(r, [Idle EXCEPT !.at = step, !.asked = asked, !.cursor = cursor, !.high = high,
                               !.seen = seen])
    /\ UNCHANGED <<now, dir, database, consumer, active>>

\* _refresh_snapshot, at the start of a replica.
FetchSnapshot(r) ==
    /\ At(r, "idle") /\ consumer[r] = None
    /\ Fetches(r, "snapshot", Workspaces, now, 0, now)

Min2(a, b) == IF a < b THEN a ELSE b

\* The workspaces that the events after the replica's cursor name.
Named(r, cursor) == {w \in Workspaces : Rev(w, cursor) > consumer[r]}

\* _sync_once: a page of events; without events only freshness is renewed.
FetchEvents(r) ==
    /\ At(r, "idle") /\ consumer[r] # None
    /\ LET cursor == Min2(consumer[r] + PageLimit, now)
           step   == IF cursor = consumer[r] THEN "empty" ELSE "page"
       IN  Fetches(r, step, Named(r, cursor), cursor, now, 0)

\* The contents that a page asks for are those of the time they are fetched.
FetchWorkspaces(r) ==
    /\ At(r, "page") /\ op[r].asked # {}
    /\ Becomes(r, [op[r] EXCEPT !.at = "delta", !.seen = now])
    /\ UNCHANGED <<now, dir, database, consumer, active>>

\* reconcile_workspaces, for a launch; a workspace that is not returned is an error.
FetchTargeted(r, w) ==
    /\ At(r, "idle") /\ consumer[r] # None
    /\ Status(w, now) # "gone"
    /\ Fetches(r, "targeted", {w}, consumer[r], 0, now)

-----------------------------------------------------------------------------
(* Transactions *)

Returned(o) == {w \in o.asked : IF o.at = "snapshot" THEN Active(w, o.seen)
                                                     ELSE Status(w, o.seen) # "gone"}
Omitted(o)  == o.asked \ Returned(o)

Content(w, k) == [rev |-> Rev(w, k), active |-> Active(w, k)]

\* Mutant: contents at the revision of the row are not compared with it.
FitsLoosely(w, k) == row[w].rev <= Rev(w, k)

\* _validate_existing_workspace and _apply_execution_state
Fits(w, k) == row[w].rev < Rev(w, k) \/ row[w] = Content(w, k)

\* _fence_absent_workspaces keeps the revision of the row.
Fenced(w) == [row[w] EXCEPT !.active = FALSE]

\* _fence_workspaces raises it to that of the event.
Tombstone(w, rev) == IF row[w].rev = 0 THEN row[w] ELSE [rev |-> rev, active |-> FALSE]

\* _record_events: up to the shared cursor a receipt is there, or a snapshot stands for it.
Receipted(r) ==
    \A c \in consumer[r] + 1..op[r].cursor :
        c \in inbox \/ c <= shared.covered \/ c > shared.cursor

\* _update_entitlement_workspace_activity and what follows it is a step of its own.
Commits(r, vouch) ==
    Becomes(r, [op[r] EXCEPT !.at = "publish", !.high = 0, !.try = 0, !.vouch = vouch])

Later(a, b) == IF a < b THEN b ELSE a

\* projection_caught_up
Caught(r, cursor) == op[r].cursor = op[r].high /\ cursor = op[r].cursor

\* Mutant: only the event that ends the page gets its receipt.
AdvancesUnreceipted(r, cursor) ==
    LET moved == Later(shared.cursor, cursor)
    IN  /\ inbox' = inbox \cup {cursor}
        /\ shared' = [shared EXCEPT !.cursor = moved]
        /\ Commits(r, IF Caught(r, moved) THEN Later(op[r].high, moved) ELSE None)

\* The receipts and the shared cursor after a page; it renews readiness when it was the last.
AdvancesTo(r, cursor) ==
    LET moved == Later(shared.cursor, cursor)
    IN  /\ inbox' = inbox \cup (consumer[r] + 1..cursor)
        /\ shared' = [shared EXCEPT !.cursor = moved]
        /\ Commits(r, IF Caught(r, moved) THEN Later(op[r].high, moved) ELSE None)

\* Another replica has moved the shared cursor past this snapshot.
Superseded(r) == op[r].cursor < shared.cursor

FetchAgain(r) ==
    /\ At(r, "snapshot") /\ Superseded(r) /\ op[r].try + 1 < MaxAttempts
    /\ Becomes(r, [op[r] EXCEPT !.cursor = now, !.seen = now, !.try = @ + 1])
    /\ UNCHANGED <<now, dir, database, consumer, active>>

SnapshotFits(r) == ~Superseded(r) /\ \A w \in Returned(op[r]) : Fits(w, op[r].seen)

\* apply_snapshot
ApplySnapshot(r) ==
    /\ At(r, "snapshot") /\ SnapshotFits(r)
    /\ row' = [w \in Workspaces |-> IF w \in Returned(op[r]) THEN Content(w, op[r].seen)
                                                             ELSE Fenced(w)]
    /\ shared' = [cursor |-> op[r].cursor, covered |-> op[r].cursor]
    /\ Commits(r, op[r].cursor)
    /\ UNCHANGED <<now, dir, inbox, consumer, active>>

\* Mutant: a page is applied again by every replica that reads it.
DeltaIsNewHere(r) == consumer[r] < op[r].cursor

DeltaIsNew(r) == shared.cursor < op[r].cursor

DeltaFits(r) ==
    /\ consumer[r] <= shared.cursor /\ Receipted(r)
    /\ DeltaIsNew(r) => /\ \A w \in Returned(op[r]) : Fits(w, op[r].seen)
                        /\ \A w \in Omitted(op[r]) : row[w].rev <= Rev(w, op[r].cursor)

DeltaRows(r) ==
    [w \in Workspaces |-> CASE w \in Returned(op[r]) -> Content(w, op[r].seen)
                            [] w \in Omitted(op[r])  -> Tombstone(w, Rev(w, op[r].cursor))
                            [] OTHER                 -> row[w]]

\* Mutant: the resolver is not told of a page that another replica has applied.
ApplyDeltaOnce(r) ==
    /\ At(r, "delta") /\ DeltaFits(r)
    /\ row' = IF DeltaIsNew(r) THEN DeltaRows(r) ELSE row
    /\ inbox' = inbox \cup (consumer[r] + 1..op[r].cursor)
    /\ shared' = [shared EXCEPT !.cursor = Later(@, op[r].cursor)]
    /\ Becomes(r, [op[r] EXCEPT !.at = "publish", !.high = 0,
                               !.asked = IF DeltaIsNew(r) THEN @ ELSE {}])
    /\ UNCHANGED <<now, dir, consumer, active>>

\* apply_delta: a page that another replica has applied only adds its receipts.
ApplyDelta(r) ==
    /\ At(r, "delta") /\ DeltaFits(r)
    /\ row' = IF DeltaIsNew(r) THEN DeltaRows(r) ELSE row
    /\ AdvancesTo(r, op[r].cursor)
    /\ UNCHANGED <<now, dir, consumer, active>>

\* _apply_targeted_delta: neither the cursors nor the receipts move.
ApplyTargeted(r) ==
    /\ At(r, "targeted") /\ \A w \in op[r].asked : Fits(w, op[r].seen)
    /\ row' = [w \in Workspaces |-> IF w \in op[r].asked THEN Content(w, op[r].seen) ELSE row[w]]
    /\ Commits(r, None)
    /\ UNCHANGED <<now, dir, shared, inbox, consumer, active>>

EventsFit(r) == consumer[r] <= shared.cursor /\ Receipted(r)

\* apply_event_batch: events about entitlements only.
ApplyEvents(r) ==
    /\ At(r, "page") /\ op[r].asked = {} /\ EventsFit(r)
    /\ AdvancesTo(r, op[r].cursor)
    /\ UNCHANGED <<now, dir, row, consumer, active>>

\* Mutant: readiness is renewed although another replica has gone further.
TouchAnyway(r) == op[r].cursor <= shared.cursor

\* _touch_freshness: refused when another replica has gone further.
TouchFits(r) == shared.cursor = op[r].cursor

Touch(r) ==
    /\ At(r, "empty") /\ TouchFits(r)
    /\ Commits(r, Later(op[r].high, shared.cursor))
    /\ UNCHANGED <<now, dir, database, consumer, active>>

-----------------------------------------------------------------------------
(* After a commit, failures and stops *)

\* The resolver is told, readiness is renewed and the replica's cursor moves.
Publish(r) ==
    /\ At(r, "publish")
    /\ active' = [active EXCEPT ![r] = (@ \ op[r].asked)
                                       \cup {w \in op[r].asked : Active(w, op[r].seen)}]
    /\ consumer' = [consumer EXCEPT ![r] = op[r].cursor]
    /\ Becomes(r, Idle)
    /\ UNCHANGED <<now, dir, database>>

\* A fetch or a commit fails, the transaction refuses what was fetched, or the caller gives up.
Fails(r) ==
    /\ ~At(r, "idle")
    /\ Becomes(r, Idle)
    /\ UNCHANGED <<now, dir, database, consumer, active>>

\* The process stops; it starts again with a snapshot.
Crash(r) ==
    /\ consumer[r] # None
    /\ Becomes(r, Idle)
    /\ consumer' = [consumer EXCEPT ![r] = None]
    /\ active' = [active EXCEPT ![r] = {}]
    /\ UNCHANGED <<now, dir, database>>

Fetch(r)  == FetchSnapshot(r) \/ FetchEvents(r) \/ FetchWorkspaces(r) \/ FetchAgain(r)
Commit(r) == ApplySnapshot(r) \/ ApplyDelta(r) \/ ApplyTargeted(r) \/ ApplyEvents(r) \/ Touch(r)

Next ==
    \/ \E w \in Workspaces, is \in Statuses : Changes(w, is)
    \/ ChangesEntitlement
    \/ \E r \in Replicas :
         \/ Fetch(r) \/ Commit(r) \/ Publish(r) \/ Fails(r) \/ Crash(r)
         \/ \E w \in Workspaces : FetchTargeted(r, w)

Spec == Init /\ [][Next]_vars

-----------------------------------------------------------------------------
(* What the projection promises *)

\* The database shows w as the directory had it at the shared cursor or later.
Covered(w) == \E k \in shared.cursor..now : row[w].active = Active(w, k)

\* A launch that fetched w before the shared cursor passed and commits it after.
LateLaunch(w) ==
    \E r \in Replicas : /\ At(r, "targeted") /\ w \in op[r].asked /\ op'[r].at = "publish"
                        /\ op[r].seen < shared.cursor

\* The shared cursor never passes a change that the rows do not show: no workspace is revived
\* or overlooked by pages of two replicas that overlap, by a snapshot fetched before them or by
\* contents newer than their event.  Only a launch that overlaps with another replica breaks
\* this (directory_projection.py:228 writes without comparing cursors).
StaysCovered == [][\A w \in Workspaces : Covered(w) => Covered(w)' \/ LateLaunch(w)]_vars

\* Whoever writes a row, its revision never goes back, and at one revision it is only fenced:
\* contents fetched long ago cannot undo a later projection or an archive.
RowsOnlyAdvance ==
    [][\A w \in Workspaces :
          \/ row[w].rev < row[w].rev'
          \/ row[w].rev = row[w].rev' /\ (row[w].active' => row[w].active)]_vars

\* At one revision the rows and the directory have the same contents, which is what the check
\* at directory_projection.py:948 takes for granted: a row that differs is refused for ever.
\* Violated: a snapshot fetched before a workspace was there fences the row of a launch.
AtOneRevision ==
    \A w \in Workspaces : row[w].rev = Rev(w, now) => row[w].active = Active(w, now)

\* A replica's resolver takes each workspace as the directory had it at that replica's cursor or
\* later, also when other replicas did all the writing, and when a commit was not followed up.
OwnView ==
    \A r \in Replicas : consumer[r] # None =>
        \A w \in Workspaces :
            \E k \in consumer[r]..now : (w \in active[r]) = Active(w, k)

\* No replica is ahead of the shared cursor, and one that lags is never refused for a page that
\* another has applied or a snapshot has skipped: the "rolled back" and "without a matching
\* event receipt" errors cannot come from replicas that overlap, stop or give up.
LagIsServed ==
    \A r \in Replicas :
        /\ consumer[r] # None => consumer[r] <= shared.cursor
        /\ At(r, "page") \/ At(r, "delta") => Receipted(r)

\* Readiness is renewed only by an update after which this replica has consumed all that the
\* control plane had announced to it and all that the shared projection had.
ReadyHasConsumed ==
    \A r \in Replicas : At(r, "publish") /\ op[r].vouch # None => op[r].vouch <= op[r].cursor
=============================================================================
