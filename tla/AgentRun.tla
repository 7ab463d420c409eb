------------------------------ MODULE AgentRun ------------------------------
(****************************************************************************)
(* One run of an agent: AgentRunOrchestrator.run of                         *)
(* agent/runner/orchestrator.py, with what it writes through run_journal.py *)
(* into the run ledger and the live session it keeps in the registry.       *)
(*                                                                          *)
(* The orchestrator creates the row of the run, registers its session, and  *)
(* then takes the results of the runner one by one: it gives each a number, *)
(* appends it to the ledger, acts on it, yields a message to the consumer   *)
(* and looks whether the run was cancelled.  Meanwhile plugins write into   *)
(* the same rows with RUN_CANCEL, RUN_APPEND_RESULT and RUN_FINALIZE, whose *)
(* calls an administrator pays with an audit event of the same ledger.      *)
(* Every step that awaits may be overtaken, may fail, and may be ended by a *)
(* cancellation of the task.  A commit that fails may have been made.       *)
(*                                                                          *)
(* A result is known by its position in the stream of the runner.           *)
(****************************************************************************)
EXTENDS Integers, FiniteSets

CONSTANTS
    Numbers,      \* the sequence numbers that runners and plugins name
    PluginEnds,   \* the statuses plugins finalize this run with
    MaxResults,   \* bound on the results of the runner
    MaxCalls      \* bound on the calls of plugins

Terminal == {"completed", "failed", "cancelled", "timeout"}
Statuses == {"absent", "created", "queued", "claimed", "running"} \cup Terminal
Kinds    == {"message", "state", "action", "completed", "failed", "other"}

ASSUME AgentRunAssumption ==
    /\ Numbers \subseteq Int
    /\ PluginEnds \subseteq Statuses \ {"absent"}
    /\ MaxResults \in Nat
    /\ MaxCalls \in Nat

VARIABLES
    pc,          \* where the orchestrator is
    row,         \* the row of the run: its status, and whether cancel_requested_at is set
    registered,  \* the session is in the registry
    expired,     \* the deadline has passed
    given,       \* how many results the runner has given
    cur,         \* the result in hand
    seen,        \* seen_sequences
    last,        \* last_sequence
    terminal,    \* terminal_status
    ending,      \* the latest finalization: the status it sets, the status it read
    left,        \* how the run ended; "unrecorded" when the ledger failed to finalize it
    events,      \* the rows of AgentRunEvent: number, and the result it holds (0: a plugin's)
    kept,        \* the results the run went on with as persisted
    late,        \* the messages yielded after a cancellation was recorded
    call,        \* the call of a plugin in progress
    calls,       \* how many calls plugins have made
    foreign      \* a plugin has finalized the run; "stale" when it wrote over a status that
                 \* it had not read

stream == <<given, cur, seen, last, kept, late>>
plugins == <<call, calls, foreign>>
vars == <<pc, row, registered, expired, stream, terminal, ending, left, events, plugins>>

Steps == {"create", "register", "log", "loop", "append", "insert", "handle", "yielded",
          "check", "ending", "commit", "failing", "failcommit", "closing", "over"}

Results == [number : Int, of : Nat, garbled : BOOLEAN]
NoResult == [number |-> 0, of |-> 0, garbled |-> FALSE]

Calls == [op : {"none", "append", "finalize", "audit", "record"}, admin : BOOLEAN,
          number : Int, status : Statuses \ {"absent"}, read : Statuses]
NoCall == [op |-> "none", admin |-> FALSE, number |-> 0,
           status |-> "completed", read |-> "absent"]

TypeOK ==
    /\ pc \in Steps
    /\ row \in [status : Statuses, cancel : BOOLEAN]
    /\ registered \in BOOLEAN
    /\ expired \in BOOLEAN
    /\ given \in Nat
    /\ cur \in Results
    /\ seen \subseteq Nat \ {0}
    /\ last \in Nat
    /\ terminal \in {"none", "completed", "failed", "cancelled"}
    /\ ending \in [status : Terminal, read : Statuses]
    /\ left \in {"no", "returned", "raised", "unrecorded", "abandoned"}
    /\ events \subseteq [number : Int, of : Nat]
    /\ kept \subseteq Results
    /\ late \in Nat
    /\ call \in Calls
    /\ calls \in Nat
    /\ foreign \in {"no", "seen", "stale"}

Init ==
    /\ pc = "create"
    /\ row = [status |-> "absent", cancel |-> FALSE]
    /\ registered = FALSE
    /\ expired = FALSE
    /\ given = 0
    /\ cur = NoResult
    /\ seen = {}
    /\ last = 0
    /\ terminal = "none"
    /\ ending = [status |-> "completed", read |-> "absent"]
    /\ left = "no"
    /\ events = {}
    /\ kept = {}
    /\ late = 0
    /\ call = NoCall
    /\ calls = 0
    /\ foreign = "no"

Goto(from, to) == pc = from /\ pc' = to

-----------------------------------------------------------------------------
(* The run begins *)

CreateRun ==
    /\ pc = "create"
    /\ \/ row' = [row EXCEPT !.status = "running"] /\ pc' \in {"register", "failing"}
       \/ UNCHANGED row /\ pc' = "failing"
    /\ UNCHANGED <<registered, expired, stream, terminal, ending, left, events, plugins>>

Register ==
    /\ Goto("register", "log")
    /\ registered' = TRUE
    /\ UNCHANGED <<row, expired, stream, terminal, ending, left, events, plugins>>

\* A statement of the ledger, or of the event log, raises into the except branch.
LedgerFails ==
    /\ pc \in {"log", "append", "insert", "check", "ending"}
    /\ pc' = "failing"
    /\ UNCHANGED <<row, registered, expired, stream, terminal, ending, left, events, plugins>>

\* The event log and the transcript of the user's message.
LogEvent ==
    /\ Goto("log", "loop")
    /\ UNCHANGED <<row, registered, expired, stream, terminal, ending, left, events, plugins>>

Expire ==
    /\ ~expired
    /\ expired' = TRUE
    /\ UNCHANGED <<pc, row, registered, stream, terminal, ending, left, events, plugins>>

-----------------------------------------------------------------------------
(* The results of the runner *)

\* Mutant: an older number takes the count back.
LatestNumber(number) == number

Highest(number) == IF number > last THEN number ELSE last

\* A result under its number; a payload that is not valid is dropped.
Receive(number, counted) ==
    /\ IF counted THEN seen' = seen \cup {number} /\ last' = Highest(number)
                  ELSE UNCHANGED <<seen, last>>
    /\ \/ cur' = [number |-> number, of |-> given', garbled |-> ~counted] /\ pc' = "append"
       \/ UNCHANGED <<cur, pc>>

Drop == UNCHANGED <<cur, pc, seen, last>>

\* Mutant: a number that was seen is not recognized.
NumberedUnchecked(n) == Receive(IF n <= 0 THEN last + 1 ELSE n, TRUE)

\* A result with a number of the runner's: dropped when seen, replaced when not positive.
Numbered(n) ==
    IF n \in seen THEN Drop ELSE Receive(IF n <= 0 THEN last + 1 ELSE n, TRUE)

\* A result without a number, and one whose number is no integer: its replacement
\* is not remembered.
Unnumbered == Receive(last + 1, TRUE)
Garbled    == Receive(last + 1, FALSE)

NextResult ==
    /\ pc = "loop" /\ ~expired
    /\ given < MaxResults
    /\ given' = given + 1
    /\ \/ \E n \in Numbers : Numbered(n)
       \/ Unnumbered
       \/ Garbled
    /\ UNCHANGED <<row, registered, expired, kept, late, terminal, ending, left, events, plugins>>

\* Mutant: a runner that breaks off is not finalized.
RunnerStopsUnrecorded ==
    /\ \/ Goto("loop", "ending") /\ ~expired /\ UNCHANGED left
       \/ Goto("loop", "closing") /\ left' = "raised"
    /\ UNCHANGED <<row, registered, expired, stream, terminal, ending, events, plugins>>

\* The stream ends, in time; or the runner raises.
RunnerStops ==
    /\ \/ Goto("loop", "ending") /\ ~expired
       \/ Goto("loop", "failing")
    /\ UNCHANGED <<row, registered, expired, stream, terminal, ending, left, events, plugins>>

\* _next_with_deadline, before or while it waits for a result.
TimeOut ==
    /\ expired
    /\ Goto("loop", "failing")
    /\ UNCHANGED <<row, registered, expired, stream, terminal, ending, left, events, plugins>>

EventNumbers == {e.number : e \in events}

\* append_event: it selects the number, and inserts when there is no such row.  A row
\* that came in between breaks the unique constraint.
AppendSelect ==
    /\ pc = "append"
    /\ IF cur.number \in EventNumbers
       THEN pc' = "handle" /\ kept' = kept \cup {cur}
       ELSE pc' = "insert" /\ UNCHANGED kept
    /\ UNCHANGED <<row, registered, expired, given, cur, seen, last, late, terminal, ending,
                   left, events, plugins>>

AppendInsert ==
    /\ pc = "insert"
    /\ IF cur.number \in EventNumbers
       THEN pc' = "failing" /\ UNCHANGED <<events, kept>>
       ELSE /\ events' = events \cup {[number |-> cur.number, of |-> cur.of]}
            /\ \/ pc' = "handle" /\ kept' = kept \cup {cur}
               \/ pc' = "failing" /\ UNCHANGED kept
    /\ UNCHANGED <<row, registered, expired, given, cur, seen, last, late, terminal, ending,
                   left, plugins>>

\* What a result of each kind sets terminal_status to.
Concluded(kind) == IF kind \in {"completed", "failed"} THEN kind ELSE terminal

\* Host state and interactions: the loop goes on at once, without looking for a
\* cancellation.
Apply(kind) ==
    /\ kind \in {"state", "action"}
    /\ pc' = "loop"
    /\ UNCHANGED late

\* A message, which a completion may carry, is yielded.
Yield(kind) ==
    /\ kind \in {"message", "completed"}
    /\ pc' = "yielded"
    /\ late' = IF row.cancel THEN late + 1 ELSE late

\* Telemetry, and actions that are not the host's.
Skip(kind) ==
    /\ kind \in {"action", "completed", "other"}
    /\ pc' = "check"
    /\ UNCHANGED late

\* What the orchestrator does with a result; a failed run raises, and so may each of
\* the effects of another result.
Handle ==
    /\ pc = "handle"
    /\ \E kind \in Kinds :
          /\ terminal' = Concluded(kind)
          /\ \/ Apply(kind)
             \/ Yield(kind)
             \/ Skip(kind)
             \/ pc' = "failing" /\ UNCHANGED late
    /\ UNCHANGED <<row, registered, expired, given, cur, seen, last, kept, ending, left,
                   events, plugins>>

\* The consumer asks for more.
Resume ==
    /\ Goto("yielded", "check")
    /\ UNCHANGED <<row, registered, expired, stream, terminal, ending, left, events, plugins>>

\* Mutant: only the end of the run looks for a cancellation.
CheckAtCompletion ==
    /\ pc = "check"
    /\ IF row.cancel /\ terminal = "completed"
       THEN pc' = "ending" /\ terminal' = "cancelled"
       ELSE pc' = "loop" /\ UNCHANGED terminal
    /\ UNCHANGED <<row, registered, expired, stream, ending, left, events, plugins>>

CheckCancelled ==
    /\ pc = "check"
    /\ IF row.cancel THEN pc' = "ending" /\ terminal' = "cancelled"
                     ELSE pc' = "loop" /\ UNCHANGED terminal
    /\ UNCHANGED <<row, registered, expired, stream, ending, left, events, plugins>>

-----------------------------------------------------------------------------
(* The run ends *)

Conclusion == IF terminal = "none" THEN "completed" ELSE terminal

Finalizable(status) == row.status \notin Terminal \ {status}

\* finalize_run after the loop: it raises when the run has ended otherwise.
Finalize ==
    /\ pc = "ending"
    /\ IF Finalizable(Conclusion)
       THEN pc' = "commit" /\ ending' = [status |-> Conclusion, read |-> row.status]
       ELSE pc' = "failing" /\ UNCHANGED ending
    /\ UNCHANGED <<row, registered, expired, stream, terminal, left, events, plugins>>

\* An exception in the except branch.
Escapes(way) == pc' = "closing" /\ left' = way

\* finalize_run of the except branch, which re-raises; it may be refused, or fail itself.
FinalizeFailed ==
    /\ pc = "failing"
    /\ LET status == IF expired THEN "timeout" ELSE "failed"
       IN  IF row.status # "absent" /\ Finalizable(status)
           THEN /\ ending' = [status |-> status, read |-> row.status]
                /\ \/ pc' = "failcommit" /\ UNCHANGED left
                   \/ Escapes("unrecorded")
           ELSE UNCHANGED ending /\ Escapes(IF left = "no" THEN "raised" ELSE left)
    /\ UNCHANGED <<row, registered, expired, stream, terminal, events, plugins>>

\* Only a column that changes is written.
Ended(old, status) == IF old = status THEN row ELSE [row EXCEPT !.status = status]

CommitEnd ==
    /\ \/ Goto("commit", "closing") /\ left' = "returned"
       \/ Goto("failcommit", "closing") /\ left' = "raised"
    /\ row' = Ended(ending.read, ending.status)
    /\ UNCHANGED <<registered, expired, stream, terminal, ending, events, plugins>>

\* The commit raises, and the status is written or not.
CommitEndFails ==
    /\ Goto("commit", "failing") \/ Goto("failcommit", "closing")
    /\ left' = "unrecorded"
    /\ row' \in {row, Ended(ending.read, ending.status)}
    /\ UNCHANGED <<registered, expired, stream, terminal, ending, events, plugins>>

\* The consumer stops iterating, or the task is cancelled: nothing is finalized.
Abandon ==
    /\ pc \notin {"closing", "over"}
    /\ pc' = "closing"
    /\ left' = "abandoned"
    /\ UNCHANGED <<row, registered, expired, stream, terminal, ending, events, plugins>>

\* Mutant: a run that was abandoned keeps its session.
CloseFinished ==
    /\ Goto("closing", "over")
    /\ registered' = (registered /\ left = "abandoned")
    /\ UNCHANGED <<row, expired, stream, terminal, ending, left, events, plugins>>

\* The finally branch.
Close ==
    /\ Goto("closing", "over")
    /\ registered' = FALSE
    /\ UNCHANGED <<row, expired, stream, terminal, ending, left, events, plugins>>

-----------------------------------------------------------------------------
(* The calls of plugins, one at a time *)

Begins(request) ==
    /\ call = NoCall
    /\ calls < MaxCalls
    /\ row.status # "absent"
    /\ calls' = calls + 1
    /\ call' = request

\* _record_runner_admin_action follows the calls of administrators.
After(admin) == IF admin THEN [NoCall EXCEPT !.op = "audit"] ELSE NoCall

RunCancel(admin) ==
    /\ Begins(After(admin))
    /\ row' = [row EXCEPT !.cancel = TRUE]
    /\ UNCHANGED <<pc, registered, expired, stream, terminal, ending, left, events, foreign>>

\* RUN_APPEND_RESULT: the run must not have ended, and the number is selected; a row that
\* is there already is returned as it is.
RunAppendResult(n, admin) ==
    /\ admin \/ row.status \notin Terminal
    /\ Begins(IF n \in EventNumbers THEN After(admin)
              ELSE [NoCall EXCEPT !.op = "append", !.admin = admin, !.number = n])
    /\ UNCHANGED <<pc, row, registered, expired, stream, terminal, ending, left, events, foreign>>

\* An insert of a plugin's event, or of an audit event.
Inserts(next) ==
    /\ IF call.number \in EventNumbers
       THEN UNCHANGED events /\ call' = NoCall
       ELSE /\ events' = events \cup {[number |-> call.number, of |-> 0]}
            /\ call' = next
    /\ UNCHANGED <<pc, row, registered, expired, stream, terminal, ending, left, calls, foreign>>

InsertResult == call.op = "append" /\ Inserts(After(call.admin))

\* RUN_FINALIZE reads the row, and then writes it.
RunFinalize(status, admin) ==
    /\ Finalizable(status)
    /\ Begins([NoCall EXCEPT !.op = "finalize", !.admin = admin, !.status = status,
                             !.read = row.status])
    /\ UNCHANGED <<pc, row, registered, expired, stream, terminal, ending, left, events, foreign>>

Overwrites == call.status # call.read /\ row.status \notin {call.read, call.status}

CommitFinalize ==
    /\ call.op = "finalize"
    /\ row' = Ended(call.read, call.status)
    /\ foreign' = IF Overwrites THEN "stale" ELSE IF foreign = "no" THEN "seen" ELSE foreign
    /\ call' = After(call.admin)
    /\ UNCHANGED <<pc, registered, expired, stream, terminal, ending, left, events, calls>>

\* append_audit_event takes the number after the highest one.
AuditSelect ==
    /\ call.op = "audit"
    /\ \E n \in EventNumbers \cup {0} :
          /\ \A m \in EventNumbers : m <= n
          /\ call' = [call EXCEPT !.op = "record", !.number = n + 1]
    /\ UNCHANGED <<pc, row, registered, expired, stream, terminal, ending, left, events,
                   calls, foreign>>

AuditInsert == call.op = "record" /\ Inserts(NoCall)

\* A statement of the ledger raises into the handler of the call.
CallFails ==
    /\ call # NoCall
    /\ call' = NoCall
    /\ UNCHANGED <<pc, row, registered, expired, stream, terminal, ending, left, events,
                   calls, foreign>>

Plugin ==
    \/ \E admin \in BOOLEAN :
          \/ RunCancel(admin)
          \/ \E n \in Numbers : RunAppendResult(n, admin)
          \/ \E status \in PluginEnds : RunFinalize(status, admin)
    \/ InsertResult \/ CommitFinalize \/ AuditSelect \/ AuditInsert \/ CallFails

\* The steps that the event loop goes on with by itself.
Host ==
    \/ CreateRun \/ Register \/ LogEvent \/ AppendSelect \/ AppendInsert \/ Handle
    \/ CheckCancelled \/ Finalize \/ FinalizeFailed \/ CommitEnd \/ CommitEndFails
    \/ LedgerFails \/ Close \/ TimeOut

Next == Host \/ NextResult \/ RunnerStops \/ Expire \/ Resume \/ Abandon \/ Plugin

Spec == Init /\ [][Next]_vars

\* The event loop is fair, time passes and the consumer answers; the runner need not.
FairSpec == Spec /\ WF_vars(Host) /\ WF_vars(Expire) /\ WF_vars(Resume)

-----------------------------------------------------------------------------
(* Properties *)

\* No two results that the run went on with have one number, whatever numbers the runner
\* names, repeats or leaves out (a number that is no integer apart).
NumbersDistinct ==
    \A a, b \in kept : ~a.garbled /\ ~b.garbled /\ a.number = b.number => a = b

\* A result that the run went on with is missing in the ledger only when a plugin, an
\* audit or a result without a proper number has its number.
LostOnlyToOthers ==
    \A a \in kept :
        \E e \in events :
            /\ e.number = a.number
            /\ \/ e.of = a.of
               \/ e.of = 0
               \/ \E b \in kept : b.of = e.of /\ (a.garbled \/ b.garbled)

\* When a run that was not abandoned is torn down, its row has ended, and as the run did
\* unless a plugin has finalized it too.  There are two ways out: the ledger failed to
\* finalize the run, and then the row says no more than what was tried; or a plugin
\* wrote its status over an end that it had not seen.
EndIsRecorded ==
    pc \in {"closing", "over"} /\ left # "abandoned" /\ row.status # "absent"
    => \/ foreign = "stale"
       \/ /\ left = "unrecorded"
          /\ foreign = "no" => row.status \in {"running", ending.status}
       \/ /\ left = "raised" /\ row.status \in Terminal
          /\ foreign = "no" => row.status \in {"failed", "timeout"}
       \/ /\ left = "returned" /\ row.status \in Terminal
          /\ foreign = "no" => row.status = Conclusion

\* A run that was asked to stop yields at most one more message.
CancelBites == late <= 1

\* Every run ends by its deadline, whatever the runner does, and its session leaves the
\* registry ("the host must unregister the active run session").
RunEnds == <>[](pc = "over" /\ ~registered)

\* The results of a run can be replayed by its id and their numbers.
Replayable ==
    \A a \in kept : [number |-> a.number, of |-> a.of] \in events
=============================================================================
