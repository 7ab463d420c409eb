------------------------- MODULE InteractionsProofs -------------------------
(****************************************************************************)
(* Interactions for any number of requests and of overlapping callbacks:    *)
(* the store implements InteractionContract, the processor is resumed once  *)
(* at most, and a request that waits keeps its controls.                    *)
(*                                                                          *)
(* The properties are not inductive: that an answer is accepted once        *)
(* depends on what a row that is still pending says of the past (Rows), on  *)
(* what a callback knew when it selected the row (Selected) and on which    *)
(* callback may resume the processor (Resuming).  That controls are kept    *)
(* depends on what a request may replace (Replaced) and on the last of      *)
(* those that a presentation was handed down to being the one it shows      *)
(* (Shown).                                                                 *)
(****************************************************************************)
EXTENDS Interactions, TLAPS

\* What the delivery of a request and the status of its row say of each other.
Delivered ==
    \A i \in Ids :
        /\ delivery[i] \in {"none", "creating"} => status[i] = "absent"
        /\ delivery[i] \in {"updating", "calling", "recording", "failing"} => status[i] # "absent"
        /\ delivery[i] = "none" => replaces[i] = None
        /\ delivery[i] = "updating" => replaces[i] # None /\ ~visible[i]
        /\ delivery[i] \in {"none", "creating", "updating", "calling", "failing"} => place[i] = None
        /\ delivery[i] = "recording" \/ recorded[i] => place[i] # None

\* What the status of a row says of its answers.
Rows ==
    \A i \in Ids :
        /\ answers[i] \in {0, 1}
        /\ status[i] \in {"absent", "pending"} => answers[i] = 0
        /\ status[i] = "submitted" => answers[i] = 1
        /\ answers[i] = 1 => status[i] = "submitted" \/ (status[i] = "expired" /\ due[i])

\* What a callback knows of the row that it has selected, or is about to select.
Selected ==
    \A c \in Callbacks : call[c].step # "idle" =>
        /\ call[c].of \in Ids
        /\ status[call[c].of] # "absent"
        /\ call[c].late => due[call[c].of]
        /\ call[c].step = "expire" => call[c].late

\* One callback at most may resume the processor, and it has not been resumed before.
Accepted(c) == call[c].step \in {"acknowledge", "resume"}

Resuming ==
    /\ \A i \in Ids : resumed[i] <= answers[i]
    /\ \A c \in Callbacks : Accepted(c) => answers[call[c].of] = 1 /\ resumed[call[c].of] = 0
    /\ \A c, d \in Callbacks : Accepted(c) /\ Accepted(d) /\ call[c].of = call[d].of => c = d

\* A request replaces an interaction that resumed its run and has a presentation, which
\* was sent for itself or for one before it.
Replaced ==
    \A i \in Ids :
        /\ replaces[i] # None => resumed[replaces[i]] > 0 /\ place[replaces[i]] # None
        /\ place[i] # None => place[place[i]] = place[i]

\* A presentation shows the last of those it was handed down to.
Shown ==
    \A p \in Ids : place[p] # None /\ ~Forked(place[p])
                   => \/ shows[place[p]] = p
                      \/ \E i \in Ids : replaces[i] = p /\ visible[i]

IInv == TypeOK /\ Delivered /\ Rows /\ Selected /\ Resuming /\ Replaced /\ Shown

LEMMA Initially == Init => IInv
  BY InteractionsAssumption
  DEF Init, IInv, TypeOK, Delivered, Rows, Selected, Resuming, Accepted, Replaced, Shown,
      Statuses, Deliveries, Calls, Idle

-----------------------------------------------------------------------------
(* The request and its delivery *)

\* Steps that leave the presentations alone, and those that hand none down.
LEMMA PlatformKeeps ==
    ASSUME IInv, UNCHANGED <<replaces, platform>>,
           \A i \in Ids : resumed[i] > 0 => resumed'[i] > 0
    PROVE  Replaced' /\ Shown'
  BY DEF platform, IInv, TypeOK, Replaced, Shown, Forked

LEMMA ExpiresKeeps ==
    ASSUME IInv, NEW i \in Ids, Expires(i)
    PROVE  IInv'
<1>1. TypeOK'
  BY DEF Expires, request, platform, IInv, TypeOK
<1>2. Delivered' /\ Resuming'
  BY DEF Expires, request, platform, IInv, Delivered, Resuming, Accepted
<1>3. \A j \in Ids : due[j] => due'[j]
  BY DEF Expires, IInv, TypeOK
<1>4. Rows' /\ Selected'
  BY <1>3 DEF Expires, request, IInv, Rows, Selected
<1>5. Replaced' /\ Shown'
  BY PlatformKeeps DEF Expires, request
<1> QED BY <1>1, <1>2, <1>4, <1>5 DEF IInv

\* More requests may fork a presentation, never fewer.
LEMMA PrepareKeeps ==
    ASSUME IInv, NEW i \in Ids, Prepare(i)
    PROVE  IInv'
<1>1. /\ delivery[i] = "none" /\ delivery' = [delivery EXCEPT ![i] = "creating"]
      /\ UNCHANGED <<status, due, platform, recorded, call, answers, resumed>>
      /\ replaces[i] = None
  BY DEF Prepare, Delivers, IInv, Delivered
<1>2. TypeOK'
  <2>1. replaces' \in [Ids -> Ids \cup {None}]
    BY DEF Prepare, IInv, TypeOK
  <2>2. delivery' \in [Ids -> Deliveries]
    BY <1>1 DEF IInv, TypeOK, Deliveries
  <2> QED BY <1>1, <2>1, <2>2 DEF platform, IInv, TypeOK
<1>3. \A j \in Ids \ {i} : replaces'[j] = replaces[j]
  BY DEF Prepare, IInv, TypeOK
<1>4. Delivered'
  BY <1>1, <1>3 DEF platform, IInv, TypeOK, Delivered
<1>5. Rows' /\ Selected' /\ Resuming'
  BY <1>1 DEF IInv, Rows, Selected, Resuming, Accepted
<1>6. Replaced'
  <2>1. replaces'[i] # None => recorded[replaces'[i]] /\ resumed[replaces'[i]] > 0
                               /\ replaces'[i] \in Ids
    BY <1>1 DEF Prepare, Replaceable, IInv, TypeOK
  <2> QED BY <1>1, <1>3, <2>1 DEF platform, IInv, Delivered, Replaced
<1>7. Shown'
  <2>1. \A j \in Ids : replaces[j] # None => replaces'[j] = replaces[j]
    BY <1>1, <1>3
  <2>2. \A p \in Ids : Forked(p) => Forked(p)'
    BY <1>1, <2>1 DEF platform, Forked
  <2>3. ASSUME NEW p \in Ids, place[p] # None, ~Forked(place[p])'
        PROVE  shows[place[p]] = p \/ \E j \in Ids : replaces'[j] = p /\ visible[j]
    <3> DEFINE P == place[p]
    <3>1. ~Forked(P)
      <4>1. P \in Ids
        BY <2>3 DEF IInv, TypeOK
      <4>2. SUFFICES ASSUME Forked(P) PROVE FALSE
        OBVIOUS
      <4>3. PICK j, k \in Ids : j # k /\ replaces[j] = replaces[k] /\ replaces[j] # None
                                /\ place[replaces[j]] = P
        BY <4>2 DEF Forked
      <4>4. replaces'[j] = replaces[j] /\ replaces'[k] = replaces[k] /\ place' = place
        BY <1>1, <2>1, <4>3 DEF platform
      <4>5. place'[replaces'[j]] = place'[p]
        BY <4>3, <4>4
      <4>6. Forked(place[p])'
        BY <4>3, <4>4, <4>5 DEF Forked
      <4> QED BY <2>3, <4>6
    <3>2. p # None
      BY InteractionsAssumption
    <3> QED BY <2>1, <2>3, <3>1, <3>2 DEF IInv, Shown
  <2> QED BY <1>1, <2>3 DEF platform, Shown, Forked
<1> QED BY <1>2, <1>4, <1>5, <1>6, <1>7 DEF IInv

LEMMA CreateKeeps ==
    ASSUME IInv, NEW i \in Ids, Create(i)
    PROVE  IInv'
<1>1. status[i] = "absent" /\ delivery[i] = "creating" /\ ~visible[i] /\ place[i] = None
  BY DEF Create, Delivers, IInv, TypeOK, Delivered
<1>2. TypeOK'
  BY <1>1 DEF Create, Delivers, platform, IInv, TypeOK, Statuses, Deliveries
<1>3. Delivered'
  BY <1>1 DEF Create, Delivers, platform, IInv, TypeOK, Delivered
<1>4. Rows'
  BY <1>1 DEF Create, IInv, TypeOK, Rows
<1>5. Selected'
  BY <1>1 DEF Create, IInv, TypeOK, Selected
<1>6. Resuming'
  BY DEF Create, IInv, Resuming, Accepted
<1>7. Replaced' /\ Shown'
  BY PlatformKeeps DEF Create
<1> QED BY <1>2, <1>3, <1>4, <1>5, <1>6, <1>7 DEF IInv

\* An update takes the presentation from the last it was handed down to; another request
\* has a presentation of its own, which nobody had before.
LEMMA ShowKeeps ==
    ASSUME IInv, NEW i \in Ids, NEW presentation \in Ids, Show(i, presentation),
           place[i] = None, UNCHANGED <<replaces, resumed>>,
           \/ presentation = i
           \/ replaces[i] # None /\ ~visible[i] /\ presentation = place[replaces[i]],
           place' = place \/ place' = [place EXCEPT ![i] = presentation]
    PROVE  Replaced' /\ Shown'
<1>1. /\ \A j \in Ids \ {presentation} : shows'[j] = shows[j]
      /\ shows'[presentation] = i /\ visible'[i]
      /\ \A j \in Ids : visible[j] => visible'[j]
  BY DEF Show, IInv, TypeOK
<1>2. /\ \A j \in Ids \ {i} : place'[j] = place[j]
      /\ place'[i] \in {None, presentation}
  BY DEF IInv, TypeOK
<1>3. \A j \in Ids : replaces[j] # None => place'[replaces[j]] = place[replaces[j]]
  BY <1>2 DEF IInv, TypeOK, Replaced
<1>4. presentation # i => place[presentation] = presentation /\ presentation # None
  BY InteractionsAssumption DEF IInv, TypeOK, Replaced
<1>5. Replaced'
  <2>1. \A j \in Ids : place'[j] # None => place'[place'[j]] = place'[j]
    <3>1. ASSUME NEW j \in Ids \ {i}, place[j] # None
          PROVE  place'[place[j]] = place[j]
      BY <1>2, <3>1 DEF IInv, TypeOK, Replaced
    <3>2. place'[i] # None => place'[place'[i]] = place'[i]
      BY <1>2, <1>4
    <3> QED BY <1>2, <3>1, <3>2
  <2>2. \A j \in Ids : replaces[j] # None
           => resumed[replaces[j]] > 0 /\ place'[replaces[j]] # None
    BY <1>3 DEF IInv, Replaced
  <2> QED BY <2>1, <2>2 DEF Replaced
<1>6. \A p \in Ids : Forked(p)' = Forked(p)
  BY <1>3 DEF Forked
<1>7. ASSUME NEW p \in Ids, place'[p] # None, ~Forked(place'[p])
      PROVE  shows'[place'[p]] = p \/ \E j \in Ids : replaces[j] = p /\ visible'[j]
  <2>1. CASE p = i
    BY <1>1, <1>2, <1>7, <2>1
  <2>2. CASE p # i
    <3>1. place'[p] = place[p] /\ place[p] \in Ids /\ place[p] # i
      BY <1>2, <1>7, <2>2 DEF IInv, TypeOK, Replaced
    <3>2. shows[place[p]] = p \/ \E j \in Ids : replaces[j] = p /\ visible[j]
      BY <1>7, <3>1 DEF IInv, Shown
    <3>3. CASE place[p] # presentation
      BY <1>1, <3>1, <3>2, <3>3
    <3>4. CASE place[p] = presentation /\ p = replaces[i]
      BY <1>1, <3>4
    <3>5. CASE place[p] = presentation /\ p # replaces[i]
      <4> DEFINE q == replaces[i]
      <4>1. q \in Ids /\ q # None /\ ~visible[i] /\ place[q] = presentation
        BY <3>1, <3>5 DEF IInv, TypeOK
      <4>2. shows[presentation] = q \/ \E j \in Ids : replaces[j] = q /\ visible[j]
        BY <1>7, <3>1, <3>5, <4>1 DEF IInv, Shown
      <4>3. ASSUME NEW j \in Ids, replaces[j] = q, visible[j]
            PROVE  FALSE
        BY <1>7, <3>1, <3>5, <4>1, <4>3 DEF Forked
      <4> QED BY <1>1, <3>2, <3>5, <4>2, <4>3
    <3> QED BY <3>3, <3>4, <3>5
  <2> QED BY <2>1, <2>2
<1>8. Shown'
  <2>1. \A p \in Ids : place'[p] # None => place'[p] \in Ids
    BY <1>2 DEF IInv, TypeOK
  <2> QED BY <1>6, <1>7, <2>1 DEF Shown
<1> QED BY <1>5, <1>8

LEMMA PresentKeeps ==
    ASSUME IInv, NEW i \in Ids, Present(i) \/ PresentText(i) \/ PresentFails(i) \/ Record(i)
    PROVE  IInv'
<1>1. delivery[i] \in {"updating", "calling", "recording"} /\ status[i] # "absent"
  BY DEF Present, PresentText, PresentFails, Record, Delivers, IInv, Delivered
<1>2. UNCHANGED <<status, due, replaces, call, answers, resumed>>
  BY DEF Present, PresentText, PresentFails, Record
<1>3. PICK to \in {"calling", "recording", "failing", "ended"} :
        delivery' = [delivery EXCEPT ![i] = to]
  BY DEF Present, PresentText, PresentFails, Record, Delivers
<1>4. CASE UNCHANGED platform
  <2>1. /\ recorded' \in [Ids -> BOOLEAN]
        /\ \A j \in Ids : recorded'[j] => recorded[j] \/ place[j] # None
        /\ \A j \in Ids \ {i} : recorded'[j] = recorded[j]
    BY DEF Present, PresentText, PresentFails, Record, Delivers, IInv, TypeOK, Delivered
  <2>2. to # "recording" /\ (to \in {"calling", "failing"} => delivery[i] # "recording")
    <3>1. CASE Present(i)
      <4>1. place[i] = None /\ place'[i] = place[i]
        BY <1>4, <3>1 DEF platform, Present, Delivers, IInv, Delivered
      <4>2. PICK presentation : place' = [place EXCEPT ![i] = presentation] /\ presentation \in Ids
        BY <3>1 DEF Present, Presented, Delivers, IInv, TypeOK, Delivered, Replaced
      <4> QED BY <4>1, <4>2, InteractionsAssumption DEF IInv, TypeOK
    <3>2. CASE PresentText(i) \/ PresentFails(i) \/ Record(i)
      BY <1>3, <3>2 DEF PresentText, PresentFails, Record, Delivers, IInv, TypeOK
    <3> QED BY <3>1, <3>2
  <2>3. TypeOK'
    BY <1>2, <1>3, <1>4, <2>1 DEF platform, IInv, TypeOK, Deliveries
  <2>4. Delivered'
    BY <1>1, <1>2, <1>3, <1>4, <2>1, <2>2 DEF platform, IInv, TypeOK, Delivered
  <2>5. Replaced' /\ Shown'
    BY <1>2, <1>4, PlatformKeeps
  <2>6. Rows' /\ Selected' /\ Resuming'
    BY <1>2 DEF IInv, Rows, Selected, Resuming, Accepted
  <2> QED BY <2>3, <2>4, <2>5, <2>6 DEF IInv
<1>5. CASE ~UNCHANGED platform
  <2>1. /\ Present(i) \/ PresentFails(i)
        /\ delivery[i] \in {"updating", "calling"} /\ place[i] = None /\ UNCHANGED recorded
    BY <1>5 DEF Present, PresentText, PresentFails, Record, Delivers, platform, IInv, Delivered
  <2>2. PICK presentation \in Ids :
          /\ Show(i, presentation)
          /\ \/ presentation = i
             \/ replaces[i] # None /\ ~visible[i] /\ presentation = place[replaces[i]]
          /\ \/ place' = place /\ to # "recording"
             \/ place' = [place EXCEPT ![i] = presentation] /\ to = "recording"
    <3>1. delivery[i] = "updating"
          => replaces[i] # None /\ ~visible[i] /\ place[replaces[i]] \in Ids
      BY DEF IInv, TypeOK, Delivered, Replaced
    <3>2. CASE Present(i)
      <4>1. to = "recording"
        BY <1>3, <3>2 DEF Present, Delivers, IInv, TypeOK
      <4> QED BY <3>1, <3>2, <4>1 DEF Present, Presented, Delivers
    <3>3. CASE PresentFails(i)
      <4>1. to # "recording" /\ place' = place
        BY <1>3, <3>3 DEF PresentFails, Delivers, IInv, TypeOK
      <4> QED BY <1>5, <3>1, <3>3, <4>1 DEF PresentFails, Delivers, platform
    <3> QED BY <2>1, <3>2, <3>3
  <2>3. /\ visible' \in [Ids -> BOOLEAN] /\ shows' \in [Ids -> Ids \cup {None}]
        /\ \A j \in Ids \ {i} : visible'[j] = visible[j]
        /\ place' \in [Ids -> Ids \cup {None}]
        /\ \A j \in Ids \ {i} : place'[j] = place[j]
    BY <2>2 DEF Show, IInv, TypeOK
  <2>4. TypeOK'
    BY <1>1, <1>2, <1>3, <2>1, <2>3 DEF IInv, TypeOK, Deliveries
  <2>5. Delivered'
    <3>1. place'[i] = None <=> to # "recording"
      BY <2>1, <2>2, InteractionsAssumption DEF IInv, TypeOK
    <3>2. ~recorded[i] /\ to # "ended"
      BY <1>3, <2>1 DEF Present, PresentFails, Delivers, IInv, TypeOK, Delivered
    <3> QED BY <1>1, <1>2, <1>3, <2>1, <2>3, <3>1, <3>2 DEF IInv, TypeOK, Delivered
  <2>6. Replaced' /\ Shown'
    BY <1>2, <2>1, <2>2, ShowKeeps
  <2>7. Rows' /\ Selected' /\ Resuming'
    BY <1>2 DEF IInv, Rows, Selected, Resuming, Accepted
  <2> QED BY <2>4, <2>5, <2>6, <2>7 DEF IInv
<1> QED BY <1>4, <1>5

LEMMA MarkFailedKeeps ==
    ASSUME IInv, NEW i \in Ids, MarkFailed(i)
    PROVE  IInv'
<1>1. delivery[i] = "failing" /\ status[i] # "absent"
  BY DEF MarkFailed, Delivers, IInv, Delivered
<1>2. TypeOK'
  BY <1>1 DEF MarkFailed, Delivers, platform, IInv, TypeOK, Statuses, Deliveries
<1>3. Delivered'
  BY <1>1 DEF MarkFailed, Delivers, platform, IInv, TypeOK, Delivered
<1>4. Rows'
  BY DEF MarkFailed, IInv, TypeOK, Rows
<1>5. Selected'
  BY DEF MarkFailed, IInv, TypeOK, Selected
<1>6. Resuming'
  BY DEF MarkFailed, IInv, Resuming, Accepted
<1>7. Replaced' /\ Shown'
  BY PlatformKeeps DEF MarkFailed
<1> QED BY <1>2, <1>3, <1>4, <1>5, <1>6, <1>7 DEF IInv

-----------------------------------------------------------------------------
(* Callbacks *)

LEMMA ReceiveKeeps ==
    ASSUME IInv, NEW i \in Ids, NEW c \in Callbacks, Receive(c, i)
    PROVE  IInv'
<1>1. TypeOK'
  BY DEF Receive, request, platform, IInv, TypeOK, Calls
<1>2. status[i] # "absent"
  BY DEF Receive, IInv, TypeOK
<1>3. Selected'
  BY <1>2 DEF Receive, request, IInv, TypeOK, Selected
<1>4. \A d \in Callbacks : Accepted(d)' => d # c /\ call'[d] = call[d]
  BY DEF Receive, Accepted, IInv, TypeOK
<1>5. Resuming'
  BY <1>4 DEF Receive, request, IInv, Resuming, Accepted
<1>6. Delivered' /\ Rows'
  BY DEF Receive, request, platform, IInv, Delivered, Rows
<1>7. Replaced' /\ Shown'
  BY PlatformKeeps DEF Receive, request
<1> QED BY <1>1, <1>3, <1>5, <1>6, <1>7 DEF IInv

LEMMA SelectKeeps ==
    ASSUME IInv, NEW c \in Callbacks, Select(c)
    PROVE  IInv'
<1>1. call[c] \in Calls
  BY DEF IInv, TypeOK
<1>2. \/ call' = [call EXCEPT ![c] = Idle]
      \/ call[c].late /\ call' = [call EXCEPT ![c].step = "expire"]
      \/ call' = [call EXCEPT ![c].step = "submit"]
  BY DEF Select, Ends, Moves
<1>3. TypeOK'
  <2>1. /\ Idle \in Calls
        /\ [call[c] EXCEPT !.step = "expire"] \in Calls
        /\ [call[c] EXCEPT !.step = "submit"] \in Calls
    BY <1>1 DEF Calls, Idle
  <2>2. call' \in [Callbacks -> Calls]
    BY <1>2, <2>1 DEF IInv, TypeOK
  <2> QED BY <2>2 DEF Select, request, platform, IInv, TypeOK
<1>4. /\ call[c].step = "select"
      /\ UNCHANGED <<status, due, request, answers, resumed>>
  BY DEF Select
<1>5. Selected'
  BY <1>1, <1>2, <1>4 DEF IInv, TypeOK, Selected, Calls, Idle
<1>6. \A d \in Callbacks : Accepted(d)' => d # c /\ call'[d] = call[d]
  BY <1>1, <1>2 DEF Accepted, IInv, TypeOK, Calls, Idle
<1>7. Resuming'
  BY <1>4, <1>6 DEF IInv, Resuming, Accepted
<1>8. Delivered' /\ Rows'
  BY <1>4 DEF request, platform, IInv, Delivered, Rows
<1>9. Replaced' /\ Shown'
  BY <1>4, PlatformKeeps DEF request
<1> QED BY <1>3, <1>5, <1>7, <1>8, <1>9 DEF IInv

\* The update finds the row pending: this callback is the answer, and the first one.
LEMMA AcceptKeeps ==
    ASSUME IInv, NEW c \in Callbacks, Submit(c), status[call[c].of] = "pending"
    PROVE  IInv'
<1> DEFINE i == call[c].of
<1>1. i \in Ids /\ call[c] \in Calls /\ call[c].step = "submit"
  BY DEF Submit, IInv, TypeOK, Selected
<1>2. answers[i] = 0 /\ resumed[i] = 0
  BY <1>1 DEF IInv, TypeOK, Rows, Resuming
<1>3. /\ call' = [call EXCEPT ![c].step = "acknowledge"]
      /\ status' = [status EXCEPT ![i] = "submitted"]
      /\ answers' = [answers EXCEPT ![i] = 1]
      /\ UNCHANGED <<due, request, resumed>>
  BY <1>2 DEF Submit, Moves
<1>4. /\ \A d \in Callbacks \ {c} : call'[d] = call[d]
      /\ call'[c] = [step |-> "acknowledge", of |-> i, late |-> call[c].late]
      /\ call' \in [Callbacks -> Calls]
  BY <1>1, <1>3 DEF IInv, TypeOK, Calls
<1>5. TypeOK'
  BY <1>1, <1>3, <1>4 DEF request, platform, IInv, TypeOK, Statuses
<1>6. Delivered'
  BY <1>1, <1>3 DEF request, platform, IInv, TypeOK, Delivered
<1>7. Rows'
  BY <1>1, <1>3 DEF IInv, TypeOK, Rows
<1>8. Selected'
  <2>1. \A j \in Ids : status[j] # "absent" => status'[j] # "absent"
    BY <1>1, <1>3 DEF IInv, TypeOK
  <2>2. \A d \in Callbacks : call'[d].of = call[d].of /\ call'[d].late = call[d].late
    BY <1>4
  <2>3. \A d \in Callbacks : /\ call'[d].step # "idle" => call[d].step # "idle"
                             /\ call'[d].step = "expire" => call[d].step = "expire"
    BY <1>1, <1>4
  <2> QED BY <1>3, <2>1, <2>2, <2>3 DEF IInv, Selected
<1>9. Resuming'
  <2>1. \A j \in Ids : resumed'[j] <= answers'[j]
    BY <1>1, <1>2, <1>3 DEF IInv, TypeOK, Resuming
  <2>2. \A d \in Callbacks \ {c} : /\ Accepted(d) => call[d].of # i
                                    /\ Accepted(d)' = Accepted(d)
    BY <1>2, <1>4 DEF IInv, Resuming, Accepted
  <2>3. \A d \in Callbacks :
          Accepted(d)' => answers'[call'[d].of] = 1 /\ resumed'[call'[d].of] = 0
    <3>1. ASSUME NEW d \in Callbacks \ {c}, Accepted(d)
          PROVE  answers'[call[d].of] = 1 /\ resumed[call[d].of] = 0
      BY <1>1, <1>3, <2>2, <3>1 DEF IInv, TypeOK, Resuming, Selected, Accepted
    <3>2. answers'[i] = 1
      BY <1>1, <1>3 DEF IInv, TypeOK
    <3>3. \A d \in Callbacks \ {c} :
            Accepted(d)' => answers'[call'[d].of] = 1 /\ resumed'[call'[d].of] = 0
      BY <1>3, <1>4, <2>2, <3>1 DEF Accepted
    <3>4. answers'[call'[c].of] = 1 /\ resumed'[call'[c].of] = 0
      BY <1>2, <1>3, <1>4, <3>2
    <3> QED BY <3>3, <3>4
  <2>4. \A d, e \in Callbacks :
          Accepted(d)' /\ Accepted(e)' /\ call'[d].of = call'[e].of => d = e
    <3>1. \A d, e \in Callbacks \ {c} :
            Accepted(d)' /\ Accepted(e)' /\ call'[d].of = call'[e].of => d = e
      BY <1>4, <2>2 DEF IInv, Resuming, Accepted
    <3>2. \A d \in Callbacks \ {c} : Accepted(d)' => call'[d].of # i
      BY <1>4, <2>2 DEF Accepted
    <3>3. call'[c].of = i
      BY <1>4
    <3> QED BY <3>1, <3>2, <3>3
  <2> QED BY <2>1, <2>3, <2>4 DEF Resuming
<1>10. Replaced' /\ Shown'
  BY <1>3, PlatformKeeps DEF request
<1> QED BY <1>5, <1>6, <1>7, <1>8, <1>9, <1>10 DEF IInv

\* The update finds another status: the callback ends.
LEMMA RefuseKeeps ==
    ASSUME IInv, NEW c \in Callbacks, Submit(c), status[call[c].of] # "pending"
    PROVE  IInv'
<1>1. /\ call' = [call EXCEPT ![c] = Idle]
      /\ UNCHANGED <<status, due, request, answers, resumed>>
  BY DEF Submit, Ends
<1>2. TypeOK'
  BY <1>1 DEF request, platform, IInv, TypeOK, Calls, Idle
<1>3. Selected' /\ Resuming'
  BY <1>1 DEF IInv, TypeOK, Selected, Resuming, Accepted, Idle
<1>4. Delivered' /\ Rows'
  BY <1>1 DEF request, platform, IInv, Delivered, Rows
<1>5. Replaced' /\ Shown'
  BY <1>1, PlatformKeeps DEF request
<1> QED BY <1>2, <1>3, <1>4, <1>5 DEF IInv

\* The status is written over, and nothing but the status: an accepted answer still counts.
LEMMA WriteExpiredKeeps ==
    ASSUME IInv, NEW c \in Callbacks, WriteExpired(c)
    PROVE  IInv'
<1> DEFINE i == call[c].of
<1>1. i \in Ids /\ status[i] # "absent" /\ due[i]
  BY DEF WriteExpired, Ends, IInv, Selected
<1>2. /\ call' = [call EXCEPT ![c] = Idle]
      /\ status' = [status EXCEPT ![i] = "expired"]
      /\ UNCHANGED <<due, request, answers, resumed>>
  BY DEF WriteExpired, Ends
<1>3. TypeOK'
  BY <1>1, <1>2 DEF request, platform, IInv, TypeOK, Calls, Idle, Statuses
<1>4. Delivered'
  BY <1>1, <1>2 DEF request, platform, IInv, TypeOK, Delivered
<1>5. Rows'
  BY <1>1, <1>2 DEF IInv, TypeOK, Rows
<1>6. Selected' /\ Resuming'
  BY <1>1, <1>2 DEF IInv, TypeOK, Selected, Resuming, Accepted, Idle
<1>7. Replaced' /\ Shown'
  BY <1>2, PlatformKeeps DEF request
<1> QED BY <1>3, <1>4, <1>5, <1>6, <1>7 DEF IInv

\* The acknowledged presentation shows the answered interaction already, unless it is
\* forked: nobody can have replaced an interaction that has not resumed a run.
LEMMA AcknowledgeKeeps ==
    ASSUME IInv, NEW c \in Callbacks, Acknowledge(c)
    PROVE  IInv'
<1> DEFINE i == call[c].of
<1>1. i \in Ids /\ call[c] \in Calls /\ call[c].step = "acknowledge" /\ resumed[i] = 0
  BY DEF Acknowledge, Moves, IInv, TypeOK, Selected, Resuming, Accepted
<1>2. /\ call' = [call EXCEPT ![c].step = "resume"]
      /\ \/ recorded[i] /\ shows' = [shows EXCEPT ![place[i]] = i]
         \/ UNCHANGED shows
      /\ UNCHANGED <<status, due, replaces, delivery, visible, place, recorded, answers, resumed>>
  BY DEF Acknowledge, Moves
<1>3. /\ \A d \in Callbacks \ {c} : call'[d] = call[d]
      /\ call'[c] = [step |-> "resume", of |-> i, late |-> call[c].late]
      /\ call' \in [Callbacks -> Calls]
  BY <1>1, <1>2 DEF IInv, TypeOK, Calls
<1>4. TypeOK'
  BY <1>1, <1>2, <1>3 DEF IInv, TypeOK
<1>5. Delivered' /\ Rows'
  BY <1>2 DEF IInv, Delivered, Rows
<1>6. Selected'
  <2>1. \A d \in Callbacks : /\ call'[d].of = call[d].of /\ call'[d].late = call[d].late
                             /\ call'[d].step # "idle" => call[d].step # "idle"
                             /\ call'[d].step = "expire" => call[d].step = "expire"
    BY <1>1, <1>3
  <2> QED BY <1>2, <2>1 DEF IInv, Selected
<1>7. Resuming'
  <2>1. \A d \in Callbacks : call'[d].of = call[d].of /\ (Accepted(d)' => Accepted(d))
    BY <1>1, <1>3 DEF Accepted
  <2> QED BY <1>2, <2>1 DEF IInv, Resuming
<1>8. Replaced'
  BY <1>2 DEF IInv, Replaced
<1>9. Shown'
  <2>1. CASE UNCHANGED shows
    BY <1>2, <2>1 DEF IInv, Shown, Forked
  <2>2. CASE recorded[i] /\ shows' = [shows EXCEPT ![place[i]] = i]
    <3>1. place[i] # None /\ place[i] \in Ids
      BY <1>1, <2>2 DEF IInv, TypeOK, Delivered
    <3>2. \A j \in Ids : replaces[j] # i
      BY <1>1, InteractionsAssumption DEF IInv, TypeOK, Replaced
    <3>3. Forked(place[i]) \/ shows[place[i]] = i
      BY <1>1, <3>1, <3>2 DEF IInv, Shown
    <3>4. \A p \in Ids : place[p] # None /\ ~Forked(place[p]) => shows'[place[p]] = shows[place[p]]
      BY <2>2, <3>1, <3>3 DEF IInv, TypeOK
    <3> QED BY <1>2, <3>4 DEF IInv, Shown, Forked
  <2> QED BY <1>2, <2>1, <2>2
<1> QED BY <1>4, <1>5, <1>6, <1>7, <1>8, <1>9 DEF IInv

LEMMA ResumeKeeps ==
    ASSUME IInv, NEW c \in Callbacks, Resume(c)
    PROVE  IInv'
<1> DEFINE i == call[c].of
<1>1. i \in Ids /\ Accepted(c) /\ answers[i] = 1 /\ resumed[i] = 0
  BY DEF Resume, Ends, Accepted, IInv, Selected, Resuming
<1>2. /\ call' = [call EXCEPT ![c] = Idle]
      /\ resumed' = [resumed EXCEPT ![i] = 1] \/ resumed' = resumed
      /\ UNCHANGED <<status, due, request, answers>>
  BY <1>1 DEF Resume, Ends
<1>3. TypeOK'
  BY <1>1, <1>2 DEF request, platform, IInv, TypeOK, Calls, Idle
<1>4. Selected'
  BY <1>2 DEF IInv, TypeOK, Selected, Idle
<1>5. Resuming'
  <2>1. \A j \in Ids : resumed'[j] <= answers'[j]
    BY <1>1, <1>2 DEF IInv, TypeOK, Resuming
  <2>2. \A d \in Callbacks :
          Accepted(d)' => d # c /\ call'[d] = call[d] /\ Accepted(d) /\ call[d].of # i
    BY <1>1, <1>2 DEF IInv, TypeOK, Resuming, Accepted, Idle
  <2>3. \A d \in Callbacks : Accepted(d) => call[d].of \in Ids
    BY DEF IInv, Selected, Accepted
  <2>4. \A j \in Ids : j # i => resumed'[j] = resumed[j]
    BY <1>2 DEF IInv, TypeOK
  <2> QED BY <1>2, <2>1, <2>2, <2>3, <2>4 DEF IInv, Resuming
<1>6. Delivered' /\ Rows'
  BY <1>2 DEF request, platform, IInv, Delivered, Rows
<1>7. Replaced' /\ Shown'
  <2>1. \A j \in Ids : resumed[j] > 0 => resumed'[j] > 0
    BY <1>1, <1>2 DEF IInv, TypeOK
  <2> QED BY <1>2, <2>1, PlatformKeeps DEF request
<1> QED BY <1>3, <1>4, <1>5, <1>6, <1>7 DEF IInv

LEMMA CrashKeeps ==
    ASSUME IInv, Crash
    PROVE  IInv'
<1>1. /\ call' = [c \in Callbacks |-> Idle]
      /\ delivery' = [i \in Ids |-> IF delivery[i] = "none" THEN "none" ELSE "ended"]
      /\ UNCHANGED <<status, due, replaces, platform, recorded, answers, resumed>>
  BY DEF Crash
<1>2. TypeOK'
  BY <1>1 DEF platform, IInv, TypeOK, Deliveries, Calls, Idle
<1>3. Delivered'
  BY <1>1 DEF platform, IInv, TypeOK, Delivered
<1>4. Selected' /\ Resuming'
  BY <1>1 DEF IInv, Selected, Resuming, Accepted, Idle
<1>5. Rows'
  BY <1>1 DEF IInv, Rows
<1>6. Replaced' /\ Shown'
  BY <1>1, PlatformKeeps
<1> QED BY <1>2, <1>3, <1>4, <1>5, <1>6 DEF IInv

-----------------------------------------------------------------------------
(* The invariant and what follows from it *)

LEMMA StepKeeps == IInv /\ [Next]_vars => IInv'
<1> SUFFICES ASSUME IInv, [Next]_vars
             PROVE  IInv'
  OBVIOUS
<1>1. ASSUME NEW i \in Ids,
             \/ Expires(i) \/ Prepare(i) \/ Create(i) \/ Present(i) \/ PresentText(i)
             \/ PresentFails(i) \/ Record(i) \/ MarkFailed(i)
             \/ \E c \in Callbacks : Receive(c, i)
      PROVE  IInv'
  BY <1>1, ExpiresKeeps, PrepareKeeps, CreateKeeps, PresentKeeps, MarkFailedKeeps, ReceiveKeeps
<1>2. ASSUME NEW c \in Callbacks,
             Select(c) \/ Submit(c) \/ WriteExpired(c) \/ Acknowledge(c) \/ Resume(c)
      PROVE  IInv'
  BY <1>2, SelectKeeps, AcceptKeeps, RefuseKeeps, WriteExpiredKeeps, AcknowledgeKeeps,
         ResumeKeeps
<1>3. CASE Crash
  BY <1>3, CrashKeeps
<1>4. CASE UNCHANGED vars
  <2>1. Replaced' /\ Shown'
    BY <1>4, PlatformKeeps DEF vars, request
  <2> QED BY <1>4, <2>1 DEF vars, request, platform, IInv, TypeOK, Delivered, Rows, Selected,
                            Resuming, Accepted
<1> QED BY <1>1, <1>2, <1>3, <1>4 DEF Next

LEMMA Invariant == Spec => []IInv
  BY Initially, StepKeeps, PTL DEF Spec

\* Rows, deliveries and callbacks keep their types, and a callback token is known to the
\* platform only when the row is there.
THEOREM Types == Spec => []TypeOK
<1>1. IInv => TypeOK
  BY DEF IInv
<1> QED BY <1>1, Invariant, PTL

\* consume_callback: however callbacks overlap, whatever fails and whenever the process
\* stops, one answer is accepted at most, and the processor is resumed at most once by it.
THEOREM ResumesOnce == Spec => []ResumedOnce
<1>1. ASSUME IInv, NEW i \in Ids
      PROVE  resumed[i] <= answers[i] /\ answers[i] <= 1
  <2>1. answers[i] \in {0, 1} /\ resumed[i] <= answers[i]
    BY <1>1 DEF IInv, Rows, Resuming
  <2> QED BY <2>1
<1>2. IInv => ResumedOnce
  BY <1>1 DEF ResumedOnce
<1> QED BY <1>2, Invariant, PTL

\* Only a callback that came after the time of the interaction can write over the row of
\* an answered one.
THEOREM LatenessTakesBack == Spec => []OnlyLatenessTakesBack
<1>1. IInv => OnlyLatenessTakesBack
  BY DEF IInv, TypeOK, Rows, OnlyLatenessTakesBack
<1> QED BY <1>1, Invariant, PTL

\* find_update_target and acknowledge_submission: where a request that waits for its answer
\* was delivered, its controls stay, whatever answers, deliveries and later requests do,
\* unless two requests of a resumed run took over the same presentation.
THEOREM ControlsStay == Spec => []ControlsKept
<1>1. ASSUME IInv, NEW i \in Ids, status[i] = "pending", place[i] # None
      PROVE  shows[place[i]] = i \/ Forked(place[i])
  <2>1. resumed[i] = 0 /\ i # None
    BY <1>1, InteractionsAssumption DEF IInv, TypeOK, Rows, Resuming
  <2>2. \A j \in Ids : replaces[j] # i
    BY <1>1, <2>1 DEF IInv, Replaced
  <2> QED BY <1>1, <2>2 DEF IInv, Shown
<1>2. IInv => ControlsKept
  BY <1>1 DEF ControlsKept
<1> QED BY <1>2, Invariant, PTL

-----------------------------------------------------------------------------
(* Refinement: each step is a step of the contract, or changes nothing in it *)

States == [i \in Ids |-> StateOf(i)]

LEMMA ContractInit == Init => Contract!Init
  BY DEF Init, Contract!Init, StateOf

\* A step that keeps the rows and the answers keeps the contract's view.
LEMMA Stutters ==
    ASSUME UNCHANGED <<status, answers>>
    PROVE  UNCHANGED <<States, answers>>
  BY DEF States, StateOf

LEMMA CreateOpens ==
    ASSUME IInv, NEW i \in Ids, Create(i)
    PROVE  [Contract!Next]_<<States, answers>>
<1>1. CASE UNCHANGED status
  BY <1>1, Stutters DEF Create
<1>2. CASE status' = [status EXCEPT ![i] = "pending"]
  <2>1. status[i] = "absent" /\ answers[i] = 0 /\ UNCHANGED answers
    BY DEF Create, Delivers, IInv, Delivered, Rows
  <2>2. States[i] = "unasked" /\ States' = [States EXCEPT ![i] = "open"]
    <3>1. /\ StateOf(i) = "unasked" /\ StateOf(i)' = "open"
          /\ \A j \in Ids \ {i} : StateOf(j)' = StateOf(j)
      BY <1>2, <2>1 DEF StateOf, IInv, TypeOK
    <3> QED BY <3>1 DEF States
  <2> QED BY <2>1, <2>2 DEF States, Contract!Next, Contract!Open
<1> QED BY <1>1, <1>2 DEF Create

LEMMA SubmitAnswers ==
    ASSUME IInv, NEW c \in Callbacks, Submit(c)
    PROVE  [Contract!Next]_<<States, answers>>
<1> DEFINE i == call[c].of
<1>1. CASE status[i] # "pending"
  BY <1>1, Stutters DEF Submit
<1>2. CASE status[i] = "pending"
  <2>1. i \in Ids /\ answers[i] = 0
    BY <1>2 DEF Submit, IInv, Selected, Rows
  <2>2. /\ status' = [status EXCEPT ![i] = "submitted"]
        /\ answers' = [answers EXCEPT ![i] = @ + 1]
    BY <1>2 DEF Submit
  <2>3. States[i] = "open" /\ States' = [States EXCEPT ![i] = "answered"]
    BY <1>2, <2>1, <2>2 DEF States, StateOf, IInv, TypeOK
  <2> QED BY <2>1, <2>2, <2>3 DEF States, Contract!Next, Contract!Answer
<1> QED BY <1>1, <1>2

LEMMA MarkFailedCloses ==
    ASSUME IInv, NEW i \in Ids, MarkFailed(i)
    PROVE  [Contract!Next]_<<States, answers>>
<1>1. CASE status[i] # "pending"
  BY <1>1, Stutters DEF MarkFailed
<1>2. CASE status[i] = "pending"
  <2>1. /\ answers[i] = 0
        /\ status' = [status EXCEPT ![i] = "delivery_failed"]
        /\ UNCHANGED answers
    BY <1>2 DEF MarkFailed, IInv, Rows
  <2>2. States[i] = "open" /\ States' = [States EXCEPT ![i] = "closed"]
    <3>1. /\ StateOf(i) = "open" /\ StateOf(i)' = "closed"
          /\ \A j \in Ids \ {i} : StateOf(j)' = StateOf(j)
      BY <1>2, <2>1 DEF StateOf, IInv, TypeOK
    <3> QED BY <3>1 DEF States
  <2> QED BY <2>1, <2>2 DEF States, Contract!Next, Contract!Close
<1> QED BY <1>1, <1>2

\* The row that is written over was pending, which closes it, or closed, or answered.
LEMMA WriteExpiredCloses ==
    ASSUME IInv, NEW c \in Callbacks, WriteExpired(c)
    PROVE  [Contract!Next]_<<States, answers>>
<1> DEFINE i == call[c].of
<1>1. /\ i \in Ids /\ status[i] # "absent"
      /\ status' = [status EXCEPT ![i] = "expired"]
      /\ UNCHANGED answers
  BY DEF WriteExpired, Ends, IInv, Selected
<1>2. CASE status[i] = "pending"
  <2>1. answers[i] = 0
    BY <1>1, <1>2 DEF IInv, Rows
  <2>2. States[i] = "open" /\ States' = [States EXCEPT ![i] = "closed"]
    BY <1>1, <1>2, <2>1 DEF States, StateOf, IInv, TypeOK
  <2> QED BY <1>1, <2>2 DEF States, Contract!Next, Contract!Close
<1>3. CASE status[i] # "pending"
  BY <1>1, <1>3 DEF States, StateOf, IInv, TypeOK
<1> QED BY <1>2, <1>3

LEMMA ContractStep == IInv /\ [Next]_vars => [Contract!Next]_<<States, answers>>
<1> SUFFICES ASSUME IInv, [Next]_vars
             PROVE  [Contract!Next]_<<States, answers>>
  OBVIOUS
<1>1. ASSUME NEW i \in Ids,
             \/ Expires(i) \/ Prepare(i) \/ Present(i) \/ PresentText(i) \/ PresentFails(i)
             \/ Record(i)
             \/ \E c \in Callbacks : Receive(c, i)
      PROVE  [Contract!Next]_<<States, answers>>
  BY <1>1, Stutters DEF Expires, Prepare, Present, PresentText, PresentFails, Record, Receive
<1>2. ASSUME NEW c \in Callbacks, Select(c) \/ Acknowledge(c) \/ Resume(c)
      PROVE  [Contract!Next]_<<States, answers>>
  BY <1>2, Stutters DEF Select, Acknowledge, Resume
<1>3. CASE Crash \/ UNCHANGED vars
  BY <1>3, Stutters DEF Crash, vars
<1> QED BY <1>1, <1>2, <1>3, CreateOpens, SubmitAnswers, MarkFailedCloses, WriteExpiredCloses
        DEF Next

\* The store keeps the contract: an interaction is opened once, and is answered by one
\* submission or closed, whatever callbacks, platform and process do.
THEOREM Implements == Spec => ImplementsContract
<1>1. Contract!Init /\ [][Contract!Next]_<<States, answers>> => ImplementsContract
  BY DEF ImplementsContract, Contract!Spec, States
<1> QED BY <1>1, ContractInit, ContractStep, Invariant, PTL DEF Spec
=============================================================================
