--------------------------- MODULE AgentRunProofs ---------------------------
(****************************************************************************)
(* A run of an agent for any numbers that runners and plugins name, any     *)
(* number of results and any calls of plugins: its numbers stay distinct,   *)
(* its results are lost only to others, its end is recorded, and a          *)
(* cancellation bites.                                                      *)
(*                                                                          *)
(* The properties are not inductive.  A fresh number is fresh because       *)
(* last_sequence bounds every number seen (Numbering); an event that is in  *)
(* the way of a result tells whose it is, unless its append has failed      *)
(* (Recorded); what a finalization read may be stale when it writes, but an *)
(* end stays an end as long as nobody writes over what he has not seen      *)
(* (Ending); and after a late message the loop is not entered again         *)
(* (Cancelling).                                                            *)
(****************************************************************************)
EXTENDS AgentRun, TLAPS

\* The numbers of results: the one in hand is new, unless it is no integer.
Numbering ==
    /\ \A n \in seen : n <= last
    /\ \A a \in kept : ~a.garbled => a.number \in seen
    /\ pc \in {"append", "insert"} /\ ~cur.garbled =>
          cur.number \in seen /\ \A a \in kept : ~a.garbled => a.number # cur.number
    /\ NumbersDistinct

\* An event of the run holds a result that it went on with, or the one whose append
\* failed and with it the run.
Recorded ==
    /\ \A e \in events : \/ e.of = 0
                         \/ \E b \in kept : b.of = e.of /\ b.number = e.number
                         \/ pc \in {"failing", "failcommit", "closing", "over"}
    /\ LostOnlyToOthers

\* What the row says before it is written, and what those that will write it have read.
Ending ==
    /\ pc = "create" => row.status = "absent"
    /\ row.status = "absent" => foreign = "no" /\ call.op # "finalize"
    /\ pc \notin {"failing", "failcommit", "closing", "over"} => left = "no"
    /\ pc \in {"failing", "failcommit"} => left \in {"no", "unrecorded"}
    /\ pc \notin {"closing", "over"} /\ foreign = "no"
       => \/ row.status \in {"absent", "running"}
          \/ left = "unrecorded" /\ row.status = ending.status
    /\ pc \in {"commit", "failcommit"} /\ ending.read \in Terminal
       => row.status \in Terminal \/ foreign = "stale"
    /\ pc = "commit" => ending.status = Conclusion
    /\ pc = "failcommit" => ending.status \in {"failed", "timeout"}
    /\ call.op = "finalize" => call.read \notin Terminal \ {call.status}
    /\ EndIsRecorded

\* Where a run can be that yielded a message after it was asked to stop.
Cancelling ==
    /\ late \in {0, 1}
    /\ late = 1 => row.cancel /\ pc \in {"yielded", "check", "ending", "commit", "failing",
                                         "failcommit", "closing", "over"}

Inv == TypeOK /\ Numbering /\ Recorded /\ Ending /\ Cancelling

LEMMA NoCallTypes ==
    /\ NoCall \in Calls
    /\ \A admin \in BOOLEAN : After(admin) \in Calls /\ After(admin).op # "finalize"
<1>1. "completed" \in Statuses \ {"absent"} /\ "absent" \in Statuses
  BY DEF Terminal, Statuses
<1>2. NoCall \in Calls /\ NoCall.op # "finalize"
  BY <1>1 DEF NoCall, Calls
<1>3. [NoCall EXCEPT !.op = "audit"] \in Calls /\ [NoCall EXCEPT !.op = "audit"].op = "audit"
  BY <1>2 DEF Calls
<1> QED BY <1>2, <1>3 DEF After

LEMMA Initially == Init => Inv
<1> SUFFICES ASSUME Init
             PROVE  Inv
  OBVIOUS
<1>1. /\ row \in [status : Statuses, cancel : BOOLEAN]
      /\ ending \in [status : Terminal, read : Statuses]
      /\ cur \in Results
  BY DEF Init, Statuses, Terminal, Results, NoResult
<1>2. TypeOK
  BY <1>1, NoCallTypes DEF Init, TypeOK, Steps
<1>3. Numbering /\ Recorded
  BY DEF Init, Numbering, NumbersDistinct, Recorded, LostOnlyToOthers
<1>4. Ending /\ Cancelling
  BY DEF Init, NoCall, Ending, EndIsRecorded, Cancelling
<1> QED BY <1>2, <1>3, <1>4 DEF Inv

-----------------------------------------------------------------------------
(* Types *)

LEMMA RowTypes ==
    ASSUME TypeOK
    PROVE  /\ \A status \in Statuses : [row EXCEPT !.status = status]
                                          \in [status : Statuses, cancel : BOOLEAN]
           /\ [row EXCEPT !.cancel = TRUE] \in [status : Statuses, cancel : BOOLEAN]
           /\ row.status \in Statuses
           /\ Terminal \subseteq Statuses /\ "running" \in Statuses
  BY DEF TypeOK, Statuses

LEMMA EndedTypes ==
    ASSUME TypeOK, NEW old \in Statuses, NEW status \in Statuses
    PROVE  Ended(old, status) \in [status : Statuses, cancel : BOOLEAN]
  BY RowTypes DEF Ended, TypeOK

\* A number is positive when it was replaced or is new, and is then the latest or not.
LEMMA ReceiveTypes ==
    ASSUME TypeOK, NEW number \in Nat \ {0}, NEW counted \in BOOLEAN,
           given' = given + 1, pc = "loop", Receive(number, counted)
    PROVE  /\ cur' \in Results /\ seen' \subseteq Nat \ {0} /\ last' \in Nat
           /\ pc' \in {"loop", "append"}
<1>1. [number |-> number, of |-> given', garbled |-> ~counted] \in Results
  BY DEF TypeOK, Results
<1>2. Highest(number) \in Nat
  BY DEF TypeOK, Highest
<1> QED BY <1>1, <1>2 DEF Receive, TypeOK

\* A result is dropped, or received under the runner's number or the next one.
LEMMA ResultKinds ==
    ASSUME NextResult
    PROVE  \/ Drop
           \/ \E n \in Numbers : n \notin seen /\ Receive(IF n <= 0 THEN last + 1 ELSE n, TRUE)
           \/ \E counted \in BOOLEAN : Receive(last + 1, counted)
<1>1. CASE Unnumbered
  BY <1>1 DEF Unnumbered
<1>2. CASE Garbled
  BY <1>2 DEF Garbled
<1>3. CASE \E n \in Numbers : Numbered(n)
  BY <1>3 DEF Numbered
<1> QED BY <1>1, <1>2, <1>3 DEF NextResult

LEMMA NextResultTypes ==
    ASSUME TypeOK, NextResult
    PROVE  /\ given' \in Nat /\ cur' \in Results /\ seen' \subseteq Nat \ {0} /\ last' \in Nat
           /\ pc' \in {"loop", "append"}
<1>1. given' = given + 1 /\ pc = "loop" /\ given \in Nat /\ last \in Nat
  BY DEF NextResult, TypeOK
<1>2. last + 1 \in Nat \ {0}
  BY <1>1
<1>3. CASE Drop
  BY <1>1, <1>3 DEF Drop, TypeOK
<1>4. ASSUME NEW n \in Numbers, Receive(IF n <= 0 THEN last + 1 ELSE n, TRUE)
      PROVE  /\ cur' \in Results /\ seen' \subseteq Nat \ {0} /\ last' \in Nat
             /\ pc' \in {"loop", "append"}
  <2>1. (IF n <= 0 THEN last + 1 ELSE n) \in Nat \ {0}
    BY <1>2, AgentRunAssumption
  <2> QED BY <1>1, <1>4, <2>1, ReceiveTypes
<1>5. ASSUME NEW counted \in BOOLEAN, Receive(last + 1, counted)
      PROVE  /\ cur' \in Results /\ seen' \subseteq Nat \ {0} /\ last' \in Nat
             /\ pc' \in {"loop", "append"}
  BY <1>1, <1>2, <1>5, ReceiveTypes
<1>6. given' \in Nat
  BY <1>1
<1> QED BY <1>3, <1>4, <1>5, <1>6, ResultKinds


\* The calls of plugins leave the orchestrator alone.
LEMMA PluginTypes ==
    ASSUME TypeOK, Plugin
    PROVE  /\ UNCHANGED <<pc, registered, expired, stream, terminal, ending, left>>
           /\ row' \in [status : Statuses, cancel : BOOLEAN]
           /\ events' \subseteq [number : Int, of : Nat]
           /\ call' \in Calls /\ calls' \in Nat /\ foreign' \in {"no", "seen", "stale"}
<1> DEFINE Goal == /\ UNCHANGED <<pc, registered, expired, stream, terminal, ending, left>>
                   /\ row' \in [status : Statuses, cancel : BOOLEAN]
                   /\ events' \subseteq [number : Int, of : Nat]
                   /\ call' \in Calls /\ calls' \in Nat
                   /\ foreign' \in {"no", "seen", "stale"}
<1>1. NoCall \in Calls /\ \A admin \in BOOLEAN : After(admin) \in Calls
  BY NoCallTypes
<1>2. call.admin \in BOOLEAN /\ call.number \in Int /\ call.status \in Statuses \ {"absent"}
      /\ call.read \in Statuses
  BY DEF TypeOK, Calls
<1>3. ASSUME NEW admin \in BOOLEAN, RunCancel(admin)
      PROVE  Goal
  BY <1>1, <1>3, RowTypes DEF RunCancel, Begins, TypeOK
<1>4. ASSUME NEW admin \in BOOLEAN, NEW n \in Numbers, RunAppendResult(n, admin)
      PROVE  Goal
  <2>1. [NoCall EXCEPT !.op = "append", !.admin = admin, !.number = n] \in Calls
    BY AgentRunAssumption DEF NoCall, Calls, Terminal, Statuses
  <2> QED BY <1>1, <1>4, <2>1 DEF RunAppendResult, Begins, TypeOK
<1>5. ASSUME NEW admin \in BOOLEAN, NEW status \in PluginEnds, RunFinalize(status, admin)
      PROVE  Goal
  <2>1. [NoCall EXCEPT !.op = "finalize", !.admin = admin, !.status = status,
                       !.read = row.status] \in Calls
    <3>1. status \in Statuses \ {"absent"} /\ row.status \in Statuses
      BY RowTypes, AgentRunAssumption
    <3> QED BY <1>1, <3>1 DEF Calls
  <2>2. /\ call' = [NoCall EXCEPT !.op = "finalize", !.admin = admin, !.status = status,
                                  !.read = row.status]
        /\ calls' = calls + 1
        /\ UNCHANGED <<pc, row, registered, expired, stream, terminal, ending, left, events,
                       foreign>>
    BY <1>5 DEF RunFinalize, Begins
  <2> QED BY <2>1, <2>2 DEF TypeOK
<1>6. CASE InsertResult \/ AuditInsert
  <2>1. [number |-> call.number, of |-> 0] \in [number : Int, of : Nat]
    BY <1>2
  <2> QED BY <1>1, <1>2, <1>6, <2>1 DEF InsertResult, AuditInsert, Inserts, TypeOK
<1>7. CASE CommitFinalize
  BY <1>1, <1>2, <1>7, EndedTypes DEF CommitFinalize, TypeOK
<1>8. CASE AuditSelect
  <2>1. PICK n \in EventNumbers \cup {0} :
          call' = [call EXCEPT !.op = "record", !.number = n + 1]
    BY <1>8 DEF AuditSelect
  <2>2. n \in Int
    BY DEF EventNumbers, TypeOK
  <2>3. call' \in Calls
    <3>1. call \in Calls /\ n + 1 \in Int
      BY <2>2 DEF TypeOK
    <3> QED BY <2>1, <3>1 DEF Calls
  <2> QED BY <1>8, <2>3 DEF AuditSelect, TypeOK
<1>9. CASE CallFails
  BY <1>1, <1>9 DEF CallFails, TypeOK
<1> QED BY <1>3, <1>4, <1>5, <1>6, <1>7, <1>8, <1>9 DEF Plugin

LEMMA TypeStep == TypeOK /\ [Next]_vars => TypeOK'
<1> SUFFICES ASSUME TypeOK, [Next]_vars
             PROVE  TypeOK'
  OBVIOUS
<1>1. CASE CreateRun
  BY <1>1, RowTypes DEF CreateRun, stream, plugins, TypeOK, Steps
<1>2. CASE \/ Register \/ LedgerFails \/ LogEvent \/ Expire \/ RunnerStops \/ TimeOut
           \/ Resume \/ Close
  <2>1. /\ UNCHANGED <<row, stream, terminal, ending, left, events, plugins>>
        /\ registered' \in BOOLEAN /\ expired' \in BOOLEAN
    BY <1>2 DEF Register, LedgerFails, LogEvent, Expire, RunnerStops, TimeOut, Resume, Close,
                TypeOK
  <2>2. pc' \in Steps
    BY <1>2 DEF Register, LedgerFails, LogEvent, Expire, RunnerStops, TimeOut, Resume, Close,
                Goto, TypeOK, Steps
  <2> QED BY <2>1, <2>2 DEF stream, plugins, TypeOK
<1>3. CASE NextResult
  BY <1>3, NextResultTypes DEF NextResult, plugins, TypeOK, Steps
<1>4. CASE AppendSelect
  BY <1>4 DEF AppendSelect, plugins, TypeOK, Steps
<1>5. CASE AppendInsert
  <2>1. [number |-> cur.number, of |-> cur.of] \in [number : Int, of : Nat]
    BY DEF TypeOK, Results
  <2>2. events' \subseteq [number : Int, of : Nat] /\ kept' \subseteq Results /\ pc' \in Steps
    BY <1>5, <2>1 DEF AppendInsert, TypeOK, Steps
  <2> QED BY <1>5, <2>2 DEF AppendInsert, plugins, TypeOK
<1>6. CASE Handle
  <2>1. PICK kind \in Kinds :
          /\ terminal' = Concluded(kind)
          /\ Apply(kind) \/ Yield(kind) \/ Skip(kind) \/ (pc' = "failing" /\ UNCHANGED late)
    BY <1>6 DEF Handle
  <2>2. terminal' \in {"none", "completed", "failed", "cancelled"}
    BY <2>1 DEF Concluded, TypeOK
  <2>3. late' \in Nat /\ pc' \in Steps
    BY <2>1 DEF Apply, Yield, Skip, TypeOK, Steps
  <2> QED BY <1>6, <2>2, <2>3 DEF Handle, plugins, TypeOK
<1>7. CASE CheckCancelled
  BY <1>7 DEF CheckCancelled, stream, plugins, TypeOK, Steps
<1>8. CASE Finalize \/ FinalizeFailed
  <2>1. ending' \in [status : Terminal, read : Statuses] /\ pc' \in Steps
        /\ left' \in {"no", "returned", "raised", "unrecorded", "abandoned"}
    BY <1>8, RowTypes DEF Finalize, FinalizeFailed, Escapes, Conclusion, TypeOK, Steps, Terminal
  <2> QED BY <1>8, <2>1 DEF Finalize, FinalizeFailed, stream, plugins, TypeOK
<1>9. CASE CommitEnd \/ CommitEndFails
  <2>1. row' \in [status : Statuses, cancel : BOOLEAN]
    BY <1>9, RowTypes, EndedTypes DEF CommitEnd, CommitEndFails, TypeOK
  <2> QED BY <1>9, <2>1 DEF CommitEnd, CommitEndFails, Goto, stream, plugins, TypeOK, Steps
<1>10. CASE Abandon
  BY <1>10 DEF Abandon, stream, plugins, TypeOK, Steps
<1>11. CASE Plugin
  BY <1>11, PluginTypes DEF stream, TypeOK
<1>12. CASE UNCHANGED vars
  BY <1>12 DEF vars, stream, plugins, TypeOK
<1> QED BY <1>1, <1>2, <1>3, <1>4, <1>5, <1>6, <1>7, <1>8, <1>9, <1>10, <1>11, <1>12
        DEF Next, Host

-----------------------------------------------------------------------------
(* Numbers *)

\* Only a new result changes the numbers, and only the two steps of the append keep it.
LEMMA NumbersChange ==
    ASSUME [Next]_vars
    PROVE  \/ NextResult \/ AppendSelect \/ AppendInsert
           \/ /\ UNCHANGED <<cur, seen, last, kept, given>>
              /\ pc' \notin {"append", "insert"} \/ UNCHANGED pc
  BY DEF Next, Host, Plugin, CreateRun, Register, LogEvent, Handle, Apply, Yield, Skip,
         CheckCancelled, Finalize, FinalizeFailed, Escapes, CommitEnd, CommitEndFails,
         LedgerFails, Close, TimeOut, RunnerStops, Expire, Resume, Abandon, RunCancel,
         RunAppendResult, RunFinalize, InsertResult, CommitFinalize, AuditSelect,
         AuditInsert, CallFails, Inserts, Goto, stream, vars

\* A number that was not seen, or is too high to have been seen, is new.
LEMMA ReceiveNumbering ==
    ASSUME TypeOK, Numbering, pc = "loop", UNCHANGED kept,
           NEW number \in Nat \ {0}, NEW counted \in BOOLEAN, number \notin seen,
           Receive(number, counted)
    PROVE  Numbering'
<1>1. \A n \in seen' : n <= last'
  <2>1. \A n \in seen : n \in Nat /\ n <= last
    BY DEF TypeOK, Numbering
  <2>2. /\ Highest(number) \in Nat /\ last \in Nat
        /\ number <= Highest(number) /\ last <= Highest(number)
    BY DEF Highest, TypeOK
  <2>3. \A n \in seen \cup {number} : n <= Highest(number)
    BY <2>1, <2>2
  <2>4. \/ seen' = seen \cup {number} /\ last' = Highest(number)
        \/ seen' = seen /\ last' = last
    BY DEF Receive
  <2> QED BY <2>1, <2>3, <2>4
<1>2. \A a \in kept : ~a.garbled => a.number \in seen /\ a.number # number
  BY DEF Numbering
<1>3. seen \subseteq seen'
  BY DEF Receive
<1>4. pc' \in {"append", "insert"} /\ ~cur'.garbled => cur'.number = number /\ number \in seen'
  <2>1. CASE counted = TRUE
    BY <2>1 DEF Receive
  <2>2. CASE counted = FALSE
    <3>1. UNCHANGED <<cur, pc>> \/ cur' = [number |-> number, of |-> given', garbled |-> TRUE]
      BY <2>2 DEF Receive
    <3> QED BY <3>1
  <2> QED BY <2>1, <2>2
<1>5. NumbersDistinct'
  BY DEF Numbering, NumbersDistinct
<1> QED BY <1>1, <1>2, <1>3, <1>4, <1>5 DEF Numbering

LEMMA KeepNumbering ==
    ASSUME TypeOK, Numbering, pc \in {"append", "insert"}, pc' \notin {"append", "insert"},
           kept' = kept \cup {cur}, UNCHANGED <<cur, seen, last>>
    PROVE  Numbering'
  BY DEF Numbering, NumbersDistinct

LEMMA NumberingStep == TypeOK /\ Numbering /\ [Next]_vars => Numbering'
<1> SUFFICES ASSUME TypeOK, Numbering, [Next]_vars
             PROVE  Numbering'
  OBVIOUS
<1>1. CASE NextResult
  <2>1. pc = "loop" /\ UNCHANGED kept /\ last \in Nat
    BY <1>1 DEF NextResult, TypeOK
  <2>2. last + 1 \in Nat \ {0} /\ last + 1 \notin seen
    BY <2>1 DEF Numbering, TypeOK
  <2>3. CASE Drop
    BY <2>1, <2>3 DEF Drop, Numbering, NumbersDistinct
  <2>4. ASSUME NEW n \in Numbers, n \notin seen,
               Receive(IF n <= 0 THEN last + 1 ELSE n, TRUE)
        PROVE  Numbering'
    <3>1. (IF n <= 0 THEN last + 1 ELSE n) \in (Nat \ {0}) \ seen
      BY <2>2, <2>4, AgentRunAssumption
    <3> QED BY <2>1, <2>4, <3>1, ReceiveNumbering
  <2>5. ASSUME NEW counted \in BOOLEAN, Receive(last + 1, counted)
        PROVE  Numbering'
    BY <2>1, <2>2, <2>5, ReceiveNumbering
  <2> QED BY <1>1, <2>3, <2>4, <2>5, ResultKinds
<1>2. CASE AppendSelect
  BY <1>2, KeepNumbering DEF AppendSelect, Numbering, NumbersDistinct
<1>3. CASE AppendInsert
  BY <1>3, KeepNumbering DEF AppendInsert, Numbering, NumbersDistinct
<1>4. CASE /\ UNCHANGED <<cur, seen, last, kept, given>>
           /\ pc' \notin {"append", "insert"} \/ UNCHANGED pc
  BY <1>4 DEF Numbering, NumbersDistinct
<1> QED BY <1>1, <1>2, <1>3, <1>4, NumbersChange

-----------------------------------------------------------------------------
(* Events *)

\* Events come from the append of a result, or are a plugin's; a run that has failed does
\* not go on.
LEMMA EventsChange ==
    ASSUME [Next]_vars
    PROVE  /\ \/ AppendSelect \/ AppendInsert
              \/ UNCHANGED <<events, kept>>
              \/ events' = events \cup {[number |-> call.number, of |-> 0]} /\ UNCHANGED kept
           /\ pc \in {"failing", "failcommit", "closing", "over"}
              => pc' \in {"failing", "failcommit", "closing", "over"}
  BY DEF Next, Host, Plugin, CreateRun, Register, LogEvent, NextResult, AppendSelect,
         AppendInsert, Handle, CheckCancelled, Finalize, FinalizeFailed, Escapes, CommitEnd,
         CommitEndFails, LedgerFails, Close, TimeOut, RunnerStops, Expire, Resume, Abandon,
         RunCancel, RunAppendResult, RunFinalize, InsertResult, CommitFinalize, AuditSelect,
         AuditInsert, CallFails, Inserts, Goto, stream, vars

LEMMA RecordedStep == TypeOK /\ Numbering /\ Recorded /\ [Next]_vars => Recorded'
<1> SUFFICES ASSUME TypeOK, Numbering, Recorded, [Next]_vars
             PROVE  Recorded'
  OBVIOUS
<1> DEFINE Past == {"failing", "failcommit", "closing", "over"}
<1>0. pc \in Past => pc' \in Past
  BY EventsChange
<1>1. CASE AppendSelect /\ cur.number \in EventNumbers
  <2>1. /\ kept' = kept \cup {cur} /\ UNCHANGED events
        /\ pc = "append"
    BY <1>1 DEF AppendSelect
  <2>2. PICK e \in events : e.number = cur.number
    BY <1>1 DEF EventNumbers
  <2>3. e.of = 0 \/ \E b \in kept : b.of = e.of /\ (cur.garbled \/ b.garbled)
    BY <2>1, <2>2 DEF Recorded, Numbering
  <2> QED BY <2>1, <2>2, <2>3 DEF Recorded, LostOnlyToOthers
<1>2. CASE AppendInsert /\ cur.number \notin EventNumbers
  <2> DEFINE new == [number |-> cur.number, of |-> cur.of]
  <2>1. /\ events' = events \cup {new}
        /\ \/ kept' = kept \cup {cur}
           \/ kept' = kept /\ pc' = "failing"
    BY <1>2 DEF AppendInsert
  <2>2. new.number = cur.number /\ new.of = cur.of
    OBVIOUS
  <2> HIDE DEF new
  <2>4. \A e \in events' : \/ e.of = 0
                           \/ \E b \in kept' : b.of = e.of /\ b.number = e.number
                           \/ pc' \in Past
    BY <1>0, <2>1, <2>2 DEF Recorded
  <2>5. LostOnlyToOthers'
    BY <2>1, <2>2 DEF Recorded, LostOnlyToOthers
  <2> QED BY <2>4, <2>5 DEF Recorded
<1>3. CASE events' = events \cup {[number |-> call.number, of |-> 0]} /\ UNCHANGED kept
  BY <1>0, <1>3 DEF Recorded, LostOnlyToOthers
<1>4. CASE UNCHANGED <<events, kept>>
  BY <1>0, <1>4 DEF Recorded, LostOnlyToOthers
<1>5. \/ AppendSelect /\ cur.number \in EventNumbers
      \/ AppendInsert /\ cur.number \notin EventNumbers
      \/ UNCHANGED <<events, kept>>
      \/ events' = events \cup {[number |-> call.number, of |-> 0]} /\ UNCHANGED kept
  BY EventsChange DEF AppendSelect, AppendInsert
<1> QED BY <1>1, <1>2, <1>3, <1>4, <1>5

-----------------------------------------------------------------------------
(* The end of the run *)

\* What writing a status makes of the row.
LEMMA EndedStatus ==
    ASSUME TypeOK, NEW old \in Statuses, NEW status \in Statuses
    PROVE  /\ Ended(old, status).status = IF old = status THEN row.status ELSE status
           /\ Ended(old, status).cancel = row.cancel
  BY DEF Ended, TypeOK

\* A plugin changes the row when it has finalized the run, or to ask it to stop.
LEMMA PluginEnding ==
    ASSUME TypeOK, Ending, Plugin
    PROVE  Ending'
<1>1. UNCHANGED <<pc, terminal, ending, left>>
  BY PluginTypes
<1>2. CASE CommitFinalize
  <2>1. /\ call.status \in Statuses \ {"absent"} /\ call.read \in Statuses
        /\ call.op = "finalize" /\ call.read \notin Terminal \ {call.status}
        /\ row.status # "absent"
    BY <1>2 DEF CommitFinalize, Ending, TypeOK, Calls
  <2>2. row'.status = IF call.read = call.status THEN row.status ELSE call.status
    BY <1>2, <2>1, EndedStatus DEF CommitFinalize
  <2>3. foreign' \in {"seen", "stale"} /\ (foreign = "stale" => foreign' = "stale")
    BY <1>2 DEF CommitFinalize, TypeOK
  <2>4. call'.op # "finalize" /\ row'.status # "absent"
    <3>1. call.admin \in BOOLEAN /\ call' = After(call.admin)
      BY <1>2 DEF CommitFinalize, TypeOK, Calls
    <3> QED BY <2>1, <2>2, <3>1, NoCallTypes
  <2>5. row.status \in Terminal => row'.status \in Terminal \/ foreign' = "stale"
    BY <1>2, <2>1, <2>2 DEF CommitFinalize, Overwrites
  <2>6. EndIsRecorded'
    BY <1>1, <2>1, <2>3, <2>4, <2>5 DEF Ending, EndIsRecorded, Conclusion, TypeOK
  <2>7. /\ pc' \in {"commit", "failcommit"} /\ ending'.read \in Terminal
           => row'.status \in Terminal \/ foreign' = "stale"
        /\ pc' # "create"
    BY <1>1, <2>1, <2>3, <2>5 DEF Ending
  <2> QED BY <1>1, <2>3, <2>4, <2>6, <2>7 DEF Ending, Conclusion
<1>3. CASE \E admin \in BOOLEAN, status \in PluginEnds : RunFinalize(status, admin)
  <2>1. /\ row.status # "absent" /\ call'.read = row.status /\ Finalizable(call'.status)
        /\ UNCHANGED <<row, foreign>>
    BY <1>3 DEF RunFinalize, Begins, NoCall
  <2> QED BY <1>1, <2>1 DEF Ending, EndIsRecorded, Finalizable, Conclusion
<1>4. CASE \/ \E admin \in BOOLEAN : RunCancel(admin) \/ \E n \in Numbers : RunAppendResult(n, admin)
           \/ InsertResult \/ AuditSelect \/ AuditInsert \/ CallFails
  <2>1. /\ row'.status = row.status
        /\ UNCHANGED foreign
        /\ call'.op # "finalize"
    <3>1. CASE \E admin \in BOOLEAN : RunCancel(admin)
      BY <3>1, NoCallTypes DEF RunCancel, Begins, TypeOK
    <3>2. ASSUME NEW admin \in BOOLEAN, NEW n \in Numbers, RunAppendResult(n, admin)
          PROVE  row' = row /\ foreign' = foreign /\ call'.op # "finalize"
      BY <3>2, NoCallTypes DEF RunAppendResult, Begins, NoCall
    <3>3. CASE InsertResult
      <4>1. call.op = "append" /\ call.admin \in BOOLEAN
        BY <3>3 DEF InsertResult, TypeOK, Calls
      <4> QED BY <3>3, <4>1, NoCallTypes DEF InsertResult, Inserts, NoCall
    <3>4. CASE AuditInsert \/ CallFails
      BY <3>4 DEF AuditInsert, CallFails, Inserts, NoCall
    <3>5. CASE AuditSelect
      BY <3>5 DEF AuditSelect, TypeOK, Calls
    <3> QED BY <1>4, <3>1, <3>2, <3>3, <3>4, <3>5
  <2> QED BY <1>1, <2>1 DEF Ending, EndIsRecorded, Conclusion
<1> QED BY <1>2, <1>3, <1>4 DEF Plugin

LEMMA EndingStep == TypeOK /\ Ending /\ [Next]_vars => Ending'
<1> SUFFICES ASSUME TypeOK, Ending, [Next]_vars
             PROVE  Ending'
  OBVIOUS
<1>1. CASE CreateRun
  <2>1. /\ row.status = "absent" /\ row'.status \in {"absent", "running"}
        /\ foreign = "no" /\ call.op # "finalize" /\ left = "no"
    BY <1>1 DEF CreateRun, Ending, TypeOK
  <2>2. pc' \in {"register", "failing"} /\ UNCHANGED <<foreign, call, left>>
    BY <1>1 DEF CreateRun, plugins
  <2> QED BY <2>1, <2>2 DEF Ending, EndIsRecorded
<1>2. CASE /\ pc \notin {"failing", "failcommit", "closing", "over"}
           /\ pc' \notin {"create", "commit", "failcommit", "closing", "over"}
           /\ UNCHANGED <<row, left, ending, plugins>>
  BY <1>2 DEF plugins, Ending, EndIsRecorded
<1>3. CASE Finalize
  <2>1. CASE pc' = "failing" /\ UNCHANGED ending
    BY <1>2, <1>3, <2>1 DEF Finalize
  <2>2. CASE pc' = "commit" /\ ending' = [status |-> Conclusion, read |-> row.status]
    <3>1. UNCHANGED <<row, terminal, left, plugins>> /\ pc = "ending"
      BY <1>3 DEF Finalize
    <3> QED BY <2>2, <3>1 DEF Ending, EndIsRecorded, Conclusion, plugins
  <2> QED BY <1>3, <2>1, <2>2 DEF Finalize
<1>4. CASE FinalizeFailed
  <2> DEFINE status == IF expired THEN "timeout" ELSE "failed"
  <2>1. pc = "failing" /\ UNCHANGED <<row, terminal, plugins>> /\ left \in {"no", "unrecorded"}
    BY <1>4 DEF FinalizeFailed, Ending
  <2>2. status \in {"failed", "timeout"} /\ status \in Terminal
    BY DEF Terminal
  <2>3. foreign = "no" => \/ row.status \in {"absent", "running"}
                          \/ left = "unrecorded" /\ row.status = ending.status
    BY <2>1 DEF Ending
  <2>4. CASE row.status # "absent" /\ Finalizable(status)
    <3>1. /\ ending' = [status |-> status, read |-> row.status]
          /\ \/ pc' = "failcommit" /\ UNCHANGED left
             \/ pc' = "closing" /\ left' = "unrecorded"
      BY <1>4, <2>4 DEF FinalizeFailed, Escapes
    <3>2. foreign = "no" => row.status \in {"running", status}
      BY <2>3, <2>4 DEF Finalizable, TypeOK, Terminal
    <3>3. foreign = "no" /\ left = "no" => row.status = "running"
      BY <2>3, <2>4
    <3> HIDE DEF status
    <3>4. CASE pc' = "failcommit" /\ UNCHANGED left
      BY <2>1, <2>2, <2>4, <3>1, <3>2, <3>3, <3>4 DEF plugins, Ending, EndIsRecorded
    <3>5. CASE pc' = "closing" /\ left' = "unrecorded"
      BY <2>1, <2>2, <2>4, <3>1, <3>2, <3>5 DEF plugins, Ending, EndIsRecorded
    <3> QED BY <3>1, <3>4, <3>5
  <2>5. CASE ~(row.status # "absent" /\ Finalizable(status))
    <3>1. pc' = "closing" /\ left' = (IF left = "no" THEN "raised" ELSE left) /\ UNCHANGED ending
      BY <1>4, <2>5 DEF FinalizeFailed, Escapes
    <3>2. row.status # "absent" => row.status \in Terminal
      BY <2>5 DEF Finalizable
    <3>3. row.status # "absent" /\ foreign = "no" => left = "unrecorded" /\ row.status = ending.status
      BY <2>3, <3>2 DEF Terminal
    <3> QED BY <2>1, <3>1, <3>2, <3>3 DEF plugins, Ending, EndIsRecorded
  <2> QED BY <2>4, <2>5
<1>5. CASE CommitEnd \/ CommitEndFails
  <2>1. /\ pc \in {"commit", "failcommit"} /\ UNCHANGED <<plugins, terminal, ending>>
        /\ ending.status \in Terminal /\ ending.read \in Statuses /\ Terminal \subseteq Statuses
    BY <1>5, RowTypes DEF CommitEnd, CommitEndFails, Goto, TypeOK
  <2> DEFINE written == Ended(ending.read, ending.status)
  <2>2. written.status = IF ending.read = ending.status THEN row.status ELSE ending.status
    BY <2>1, EndedStatus
  <2>3. written.status \in Terminal \/ foreign = "stale"
    BY <2>1, <2>2 DEF Ending
  <2>4. /\ foreign = "no" => written.status = ending.status
        /\ foreign = "no" => row.status \in {"absent", "running", ending.status}
    BY <2>1, <2>2, <2>3 DEF Ending, Terminal
  <2>5. row.status = "absent" => foreign = "no" /\ call.op # "finalize"
    BY DEF Ending
  <2>6. "absent" \notin Terminal
    BY DEF Terminal
  <2>7. written.status = "absent" => foreign = "no" /\ call.op # "finalize"
    BY <2>1, <2>2, <2>5, <2>6
  <2> HIDE DEF written
  <2>8. CASE CommitEnd
    <3>1. /\ row' = written /\ pc' = "closing"
          /\ \/ pc = "commit" /\ left' = "returned"
             \/ pc = "failcommit" /\ left' = "raised"
      BY <2>8 DEF CommitEnd, Goto, written
    <3>2. EndIsRecorded'
      BY <2>1, <2>3, <2>4, <3>1 DEF plugins, Ending, EndIsRecorded, Conclusion
    <3> QED BY <2>1, <2>7, <3>1, <3>2 DEF plugins, Ending
  <2>9. CASE CommitEndFails
    <3>1. /\ row' \in {row, written} /\ left' = "unrecorded"
          /\ \/ pc = "commit" /\ pc' = "failing"
             \/ pc = "failcommit" /\ pc' = "closing"
      BY <2>9 DEF CommitEndFails, Goto, written
    <3>2. foreign = "no" => row'.status \in {"absent", "running", ending.status}
      BY <2>4, <3>1
    <3>3. row'.status = "absent" => foreign = "no" /\ call.op # "finalize"
      BY <2>5, <2>7, <3>1
    <3>4. EndIsRecorded'
      BY <2>1, <3>1, <3>2 DEF plugins, EndIsRecorded
    <3> QED BY <2>1, <3>1, <3>2, <3>3, <3>4 DEF plugins, Ending
  <2> QED BY <1>5, <2>8, <2>9
<1>6. CASE Abandon
  BY <1>6 DEF Abandon, plugins, Ending, EndIsRecorded
<1>7. CASE Close
  BY <1>7 DEF Close, Goto, plugins, Ending, EndIsRecorded, Conclusion
<1>8. CASE Plugin
  BY <1>8, PluginEnding
<1>9. CASE Expire \/ UNCHANGED vars
  BY <1>9 DEF Expire, vars, plugins, Ending, EndIsRecorded, Conclusion
<1>10. CASE \/ Register \/ LogEvent \/ LedgerFails \/ AppendSelect \/ AppendInsert \/ Handle
            \/ CheckCancelled \/ TimeOut \/ RunnerStops \/ Resume \/ NextResult
  <2>1. CASE \/ Register \/ LogEvent \/ LedgerFails \/ AppendSelect \/ AppendInsert
             \/ CheckCancelled \/ TimeOut \/ RunnerStops \/ Resume
    BY <1>2, <2>1 DEF Register, LogEvent, LedgerFails, AppendSelect, AppendInsert,
                      CheckCancelled, TimeOut, RunnerStops, Resume, Goto
  <2>2. CASE Handle
    BY <1>2, <2>2 DEF Handle, Apply, Yield, Skip
  <2>3. CASE NextResult
    BY <1>2, <2>3, NextResultTypes DEF NextResult
  <2> QED BY <1>10, <2>1, <2>2, <2>3
<1> QED BY <1>1, <1>3, <1>4, <1>5, <1>6, <1>7, <1>8, <1>9, <1>10 DEF Next, Host

-----------------------------------------------------------------------------
(* Cancellation *)

LEMMA CancellingStep == TypeOK /\ Cancelling /\ [Next]_vars => Cancelling'
<1> SUFFICES ASSUME TypeOK, Cancelling, [Next]_vars
             PROVE  Cancelling'
  OBVIOUS
<1> DEFINE Past == {"yielded", "check", "ending", "commit", "failing", "failcommit",
                    "closing", "over"}
<1>1. CASE Handle
  BY <1>1 DEF Handle, Apply, Yield, Skip, Cancelling
<1>2. CASE CheckCancelled
  BY <1>2 DEF CheckCancelled, stream, Cancelling
<1>3. row.cancel => row'.cancel
  <2>1. CASE CreateRun
    BY <2>1 DEF CreateRun, TypeOK
  <2>2. CASE CommitEnd \/ CommitEndFails
    BY <2>2 DEF CommitEnd, CommitEndFails, Ended, TypeOK
  <2>3. CASE CommitFinalize
    BY <2>3 DEF CommitFinalize, Ended, TypeOK
  <2>4. ASSUME NEW admin \in BOOLEAN, RunCancel(admin)
        PROVE  row'.cancel
    BY <2>4 DEF RunCancel, TypeOK
  <2>5. \/ CreateRun \/ CommitEnd \/ CommitEndFails \/ CommitFinalize
        \/ \E admin \in BOOLEAN : RunCancel(admin)
        \/ UNCHANGED row
    BY DEF Next, Host, Plugin, Register, LogEvent, NextResult, AppendSelect, AppendInsert,
           Handle, CheckCancelled, Finalize, FinalizeFailed, LedgerFails, Close, TimeOut, RunnerStops,
           Expire, Resume, Abandon, RunAppendResult, RunFinalize, InsertResult, AuditSelect,
           AuditInsert, CallFails, Inserts, vars
  <2> QED BY <2>1, <2>2, <2>3, <2>4, <2>5
<1>4. Handle \/ CheckCancelled \/ (UNCHANGED late /\ (pc \in Past => pc' \in Past))
  <2>1. CASE Plugin
    BY <2>1, PluginTypes DEF stream
  <2>2. CASE NextResult
    BY <2>2 DEF NextResult
  <2>3. CASE ~Plugin /\ ~NextResult
    BY <2>3 DEF Next, Host, CreateRun, Register, LogEvent, AppendSelect, AppendInsert,
           Finalize, FinalizeFailed, Escapes, CommitEnd, CommitEndFails, LedgerFails, Close,
           TimeOut, RunnerStops, Expire, Resume, Abandon, Goto, stream, vars
  <2> QED BY <2>1, <2>2, <2>3
<1>5. CASE UNCHANGED late /\ (pc \in Past => pc' \in Past)
  BY <1>3, <1>5 DEF Cancelling
<1> QED BY <1>1, <1>2, <1>4, <1>5

-----------------------------------------------------------------------------
(* The invariant and what follows from it *)

LEMMA Invariant == Spec => []Inv
<1>1. Inv /\ [Next]_vars => Inv'
  BY TypeStep, NumberingStep, RecordedStep, EndingStep, CancellingStep DEF Inv
<1> QED BY Initially, <1>1, PTL DEF Spec

\* The run, its row and its events keep their types, and the numbers of a runner that are
\* remembered are positive.
THEOREM Types == Spec => []TypeOK
<1>1. Inv => TypeOK
  BY DEF Inv
<1> QED BY <1>1, Invariant, PTL

\* AgentRunOrchestrator.run: whatever numbers the runner names, repeats or leaves out, no
\* two results that the run goes on with have the same number.
THEOREM NumbersStayDistinct == Spec => []NumbersDistinct
<1>1. Inv => NumbersDistinct
  BY DEF Inv, Numbering
<1> QED BY <1>1, Invariant, PTL

\* append_event: a result is taken for persisted and is not in the ledger only when a
\* plugin, an audit or a result without a proper number was there before it.
THEOREM ResultsLostOnlyToOthers == Spec => []LostOnlyToOthers
<1>1. Inv => LostOnlyToOthers
  BY DEF Inv, Recorded
<1> QED BY <1>1, Invariant, PTL

\* finalize_run, on both ways out of the loop: the row of a run that was not abandoned
\* says how the run ended, although what a finalization read may be stale when it writes;
\* it does not only when the ledger failed to finalize the run, or a plugin wrote over an
\* end it had not seen.
THEOREM EndsAreRecorded == Spec => []EndIsRecorded
<1>1. Inv => EndIsRecorded
  BY DEF Inv, Ending
<1> QED BY <1>1, Invariant, PTL

\* The look for a cancellation after each message: a run that was asked to stop yields at
\* most one more.
THEOREM CancellationBites == Spec => []CancelBites
<1>1. Inv => CancelBites
  BY DEF Inv, Cancelling, CancelBites
<1> QED BY <1>1, Invariant, PTL
=============================================================================
