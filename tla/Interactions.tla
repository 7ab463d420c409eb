---------------------------- MODULE Interactions ----------------------------
(****************************************************************************)
(* Structured interactions: a runner asks the user for a form or a choice,  *)
(* and the platform's callback resumes the processor.  The rows are those   *)
(* of InteractionStore (agent/runner/interaction_store.py); a request is    *)
(* delivered by InteractionManager.handle_result (interaction_manager.py),  *)
(* and a callback is taken in by _handle_interaction_submission of          *)
(* platform/botmgr.py through consume_callback.                             *)
(*                                                                          *)
(* A callback takes the time first, then selects the row, then decides on   *)
(* what it read, and then writes.  Callbacks overlap: the user presses      *)
(* twice, or the platform sends the callback again.  A platform call that   *)
(* fails may have shown the request all the same.  The process may stop at  *)
(* any time, and the rows stay.                                             *)
(*                                                                          *)
(* A presentation is a message of the platform with controls; it goes by    *)
(* the interaction it was first sent for, and a request of a resumed run    *)
(* may take it over from the interaction whose answer resumed the run.      *)
(****************************************************************************)
EXTENDS Naturals, FiniteSets

CONSTANTS
    Ids,         \* the interactions of a run, by interaction_id
    Callbacks,   \* callbacks that may overlap
    MaxDue,      \* bound on the interactions whose time passes
    None

ASSUME InteractionsAssumption == None \notin Ids

VARIABLES
    status,     \* the status of each row
    due,        \* expires_at has passed
    replaces,   \* the answered interaction whose presentation the request replaces
    delivery,   \* how far handle_result is
    visible,    \* the platform has shown the request, with its callback token
    shows,      \* the interaction whose controls each presentation has
    place,      \* the presentation that the delivery returned
    recorded,   \* delivery_result_json is set
    call,       \* the callbacks in progress
    answers,    \* how many submissions were accepted
    resumed     \* how many times the processor was resumed

platform == <<visible, shows, place>>
request == <<replaces, delivery, platform, recorded>>
vars == <<status, due, request, call, answers, resumed>>

Statuses   == {"absent", "pending", "submitted", "expired", "delivery_failed"}
Deliveries == {"none", "creating", "updating", "calling", "recording", "failing", "ended"}
Calls      == [step : {"idle", "select", "submit", "expire", "acknowledge", "resume"},
               of : Ids \cup {None}, late : BOOLEAN]
Idle       == [step |-> "idle", of |-> None, late |-> FALSE]

\* A token is known to the platform only when the row is there.
TypeOK ==
    /\ status \in [Ids -> Statuses]
    /\ due \in [Ids -> BOOLEAN]
    /\ replaces \in [Ids -> Ids \cup {None}]
    /\ delivery \in [Ids -> Deliveries]
    /\ visible \in [Ids -> BOOLEAN]
    /\ shows \in [Ids -> Ids \cup {None}]
    /\ place \in [Ids -> Ids \cup {None}]
    /\ recorded \in [Ids -> BOOLEAN]
    /\ call \in [Callbacks -> Calls]
    /\ answers \in [Ids -> Nat]
    /\ resumed \in [Ids -> Nat]
    /\ \A i \in Ids : visible[i] => status[i] # "absent"

Init ==
    /\ status = [i \in Ids |-> "absent"]
    /\ due = [i \in Ids |-> FALSE]
    /\ replaces = [i \in Ids |-> None]
    /\ delivery = [i \in Ids |-> "none"]
    /\ visible = [i \in Ids |-> FALSE]
    /\ shows = [i \in Ids |-> None]
    /\ place = [i \in Ids |-> None]
    /\ recorded = [i \in Ids |-> FALSE]
    /\ call = [c \in Callbacks |-> Idle]
    /\ answers = [i \in Ids |-> 0]
    /\ resumed = [i \in Ids |-> 0]

Delivers(i, from, to) == delivery[i] = from /\ delivery' = [delivery EXCEPT ![i] = to]

Expires(i) ==
    /\ status[i] # "absent" /\ ~due[i]
    /\ Cardinality({j \in Ids : due[j]}) < MaxDue
    /\ due' = [due EXCEPT ![i] = TRUE]
    /\ UNCHANGED <<status, request, call, answers, resumed>>

-----------------------------------------------------------------------------
(* The request and its delivery *)

\* Mutant: the target is the last presentation of the conversation.
ReplaceableAny(p) == status[p] \in {"pending", "submitted"} /\ recorded[p]

\* find_update_target, which the answer that resumed the run leads to.
Replaceable(p) == resumed[p] > 0 /\ status[p] = "submitted" /\ recorded[p]

Prepare(i) ==
    /\ Delivers(i, "none", "creating")
    /\ \/ UNCHANGED replaces
       \/ \E p \in Ids : Replaceable(p) /\ replaces' = [replaces EXCEPT ![i] = p]
    /\ UNCHANGED <<status, due, platform, recorded, call, answers, resumed>>

\* create_request; it is refused when the authority of the pipeline has changed.
Create(i) ==
    /\ \/ /\ Delivers(i, "creating", IF replaces[i] = None THEN "calling" ELSE "updating")
          /\ status' = [status EXCEPT ![i] = "pending"]
       \/ Delivers(i, "creating", "ended") /\ UNCHANGED status
    /\ UNCHANGED <<due, replaces, platform, recorded, call, answers, resumed>>

\* The controls of i come up in a presentation.
Show(i, presentation) ==
    /\ visible' = [visible EXCEPT ![i] = TRUE]
    /\ shows' = [shows EXCEPT ![presentation] = i]

\* The platform shows the request, in the presentation that it takes over or in its own.
Presented(i, presentation) ==
    /\ Show(i, presentation)
    /\ place' = [place EXCEPT ![i] = presentation]

Present(i) ==
    /\ \/ /\ Delivers(i, "updating", "recording")
          /\ \E presentation \in {place[replaces[i]], i} : Presented(i, presentation)
       \/ Delivers(i, "calling", "recording") /\ Presented(i, i)
    /\ UNCHANGED <<status, due, replaces, recorded, call, answers, resumed>>

\* An adapter without interactions sends a text instead.
PresentText(i) ==
    /\ Delivers(i, "updating", "ended") \/ Delivers(i, "calling", "ended")
    /\ UNCHANGED <<status, due, replaces, platform, recorded, call, answers, resumed>>

\* The call raises: an update is sent again as a new presentation.
PresentFails(i) ==
    /\ \/ /\ Delivers(i, "updating", "calling")
          /\ Show(i, place[replaces[i]]) \/ UNCHANGED <<visible, shows>>
       \/ /\ Delivers(i, "calling", "failing")
          /\ Show(i, i) \/ UNCHANGED <<visible, shows>>
    /\ UNCHANGED <<status, due, replaces, place, recorded, call, answers, resumed>>

\* record_delivery_success, whose failure is only logged.
Record(i) ==
    /\ Delivers(i, "recording", "ended")
    /\ \/ /\ status[i] \in {"pending", "submitted"}
          /\ recorded' = [recorded EXCEPT ![i] = TRUE]
       \/ UNCHANGED recorded
    /\ UNCHANGED <<status, due, replaces, platform, call, answers, resumed>>

\* Mutant: whatever the row says, the delivery has failed.
MarkFailedAnyway(i) ==
    /\ Delivers(i, "failing", "ended")
    /\ status' = [status EXCEPT ![i] = "delivery_failed"]
    /\ UNCHANGED <<due, replaces, platform, recorded, call, answers, resumed>>

\* mark_delivery_failed
MarkFailed(i) ==
    /\ Delivers(i, "failing", "ended")
    /\ status' = IF status[i] = "pending" THEN [status EXCEPT ![i] = "delivery_failed"]
                                          ELSE status
    /\ UNCHANGED <<due, replaces, platform, recorded, call, answers, resumed>>

-----------------------------------------------------------------------------
(* Callbacks *)

Moves(c, from, to) == call[c].step = from /\ call' = [call EXCEPT ![c].step = to]
Ends(c, from)      == call[c].step = from /\ call' = [call EXCEPT ![c] = Idle]

\* A callback with the token of i takes the time.
Receive(c, i) ==
    /\ visible[i]
    /\ call[c] = Idle
    /\ call' = [call EXCEPT ![c] = [step |-> "select", of |-> i, late |-> due[i]]]
    /\ UNCHANGED <<status, due, request, answers, resumed>>

\* It selects the row; only a pending one can be submitted, and not after its time.  A
\* submission that does not fit the request or comes from elsewhere is refused.
Select(c) ==
    /\ call[c].step = "select"
    /\ \/ Ends(c, "select")
       \/ /\ status[call[c].of] = "pending"
          /\ IF call[c].late THEN Moves(c, "select", "expire") ELSE Moves(c, "select", "submit")
    /\ UNCHANGED <<status, due, request, answers, resumed>>

\* Mutants: the update does not look at the status; a lost race goes unnoticed.
SubmitAnyway(c) ==
    /\ Moves(c, "submit", "acknowledge")
    /\ status' = [status EXCEPT ![call[c].of] = "submitted"]
    /\ answers' = [answers EXCEPT ![call[c].of] = @ + 1]
    /\ UNCHANGED <<due, request, resumed>>
SubmitUnnoticed(c) ==
    /\ Moves(c, "submit", "acknowledge")
    /\ IF status[call[c].of] = "pending"
       THEN /\ status' = [status EXCEPT ![call[c].of] = "submitted"]
            /\ answers' = [answers EXCEPT ![call[c].of] = @ + 1]
       ELSE UNCHANGED <<status, answers>>
    /\ UNCHANGED <<due, request, resumed>>

\* The update of a row that is still pending decides which callback is the answer.
Submit(c) ==
    /\ call[c].step = "submit"
    /\ IF status[call[c].of] = "pending"
       THEN /\ Moves(c, "submit", "acknowledge")
            /\ status' = [status EXCEPT ![call[c].of] = "submitted"]
            /\ answers' = [answers EXCEPT ![call[c].of] = @ + 1]
       ELSE Ends(c, "submit") /\ UNCHANGED <<status, answers>>
    /\ UNCHANGED <<due, request, resumed>>

\* The status 'expired' is written whatever the status is by now.
WriteExpired(c) ==
    /\ Ends(c, "expire")
    /\ status' = [status EXCEPT ![call[c].of] = "expired"]
    /\ UNCHANGED <<due, request, answers, resumed>>

\* acknowledge_submission: the presentation shows the answer and takes no other, if the
\* platform can and does.
Acknowledge(c) ==
    /\ Moves(c, "acknowledge", "resume")
    /\ LET i == call[c].of
       IN  \/ recorded[i] /\ shows' = [shows EXCEPT ![place[i]] = i]
           \/ UNCHANGED shows
    /\ UNCHANGED <<status, due, replaces, delivery, visible, place, recorded, answers, resumed>>

\* The processor is resumed, if it still can be.
Resume(c) ==
    /\ Ends(c, "resume")
    /\ \/ resumed' = [resumed EXCEPT ![call[c].of] = @ + 1]
       \/ UNCHANGED resumed
    /\ UNCHANGED <<status, due, request, answers>>

\* The process stops: deliveries and callbacks in progress are gone.
Crash ==
    /\ call' = [c \in Callbacks |-> Idle]
    /\ delivery' = [i \in Ids |-> IF delivery[i] = "none" THEN "none" ELSE "ended"]
    /\ UNCHANGED <<status, due, replaces, platform, recorded, answers, resumed>>

Next ==
    \/ \E i \in Ids : \/ Expires(i) \/ Prepare(i) \/ Create(i) \/ Present(i)
                      \/ PresentText(i) \/ PresentFails(i) \/ Record(i) \/ MarkFailed(i)
                      \/ \E c \in Callbacks : Receive(c, i)
    \/ \E c \in Callbacks : \/ Select(c) \/ Submit(c) \/ WriteExpired(c)
                            \/ Acknowledge(c) \/ Resume(c)
    \/ Crash

Spec == Init /\ [][Next]_vars

-----------------------------------------------------------------------------
(* Properties *)

\* What the contract calls the state of an interaction: an accepted answer counts even
\* when the row has been written over since.
StateOf(i) ==
    IF answers[i] > 0 THEN "answered"
    ELSE CASE status[i] = "absent" -> "unasked"
           [] status[i] = "pending" -> "open"
           [] OTHER -> "closed"

\* "Consume callbacks exactly once": however callbacks overlap, deliveries fail and the
\* process stops, an interaction gets one answer, and none after it was closed.
Contract == INSTANCE InteractionContract WITH Interactions <- Ids,
                                              state <- [i \in Ids |-> StateOf(i)]
ImplementsContract == Contract!Spec

\* The processor is resumed at most once, and by an accepted answer.
ResumedOnce == \A i \in Ids : resumed[i] <= answers[i] /\ answers[i] <= 1

\* An answered interaction stays 'submitted', but for a callback that comes after its time
\* and overlaps with the answer: its row is then written over with 'expired'.
OnlyLatenessTakesBack ==
    \A i \in Ids : answers[i] > 0 => status[i] = "submitted" \/ (status[i] = "expired" /\ due[i])

\* Two requests of one resumed run take over the same presentation.
Forked(presentation) ==
    \E i, j \in Ids : /\ i # j /\ replaces[i] = replaces[j] /\ replaces[i] # None
                      /\ place[replaces[i]] = presentation

\* A request that waits for its answer keeps its controls where its delivery put them:
\* neither the acknowledgement of another answer nor a later request takes their place.
\* The code lets a second request of the resumed run do so (Forked), and only that.
ControlsKept ==
    \A i \in Ids : status[i] = "pending" /\ place[i] # None
                   => shows[place[i]] = i \/ Forked(place[i])
=============================================================================
