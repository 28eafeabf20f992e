---------------------------- MODULE JobViewsProofs ----------------------------
(***************************************************************************)
(* Theorems about JobViews for every set of jobs, filters and requests and *)
(* every capacity of the channel and of the log buffer.                    *)
(***************************************************************************)
EXTENDS JobViews, FiniteSetTheorems, TLAPS

-----------------------------------------------------------------------------
(* The inductive invariant                                                 *)

\* An event that ends what a view shows of a job's work, one that shows it, and
\* one that says that all is done.
Ends(e, j)  == e.kind = "status" /\ e.job = j /\ e.status \in Final
Works(e, j) == e.job = j /\ \/ e.kind = "progress" /\ e.phase = "work"
                            \/ e.kind = "status" /\ e.status \in Active
AllDone(e)  == e.kind = "progress" /\ e.phase = "done"

\* A job's outcome is on its way to the view.
OutcomeSent(w, j) == \E i \in DOMAIN w : Ends(w[i], j)

\* The outcome was announced after all that shows the job at work.
OutcomeIsLast(w, j) ==
    \A i \in DOMAIN w : Works(w[i], j) => \E k \in DOMAIN w : i < k /\ Ends(w[k], j)

\* The job has completed, as far as its task has said.
Succeeded(j) == told[j] \in {"completed", "lost"}

\* A row is owed what its task has announced.
OwedInv ==
    /\ \A j \in owed : told[j] \in {"running"} \cup Outcomes
    /\ \A j \in closing : told[j] = "completed"

WireInv ==
    /\ \A j \in Jobs : told[j] \in Outcomes => OutcomeIsLast(wire, j)
    /\ \A i \in DOMAIN wire : AllDone(wire[i]) => Succeeded(wire[i].job)

\* Only a view that listens shows progress, of the jobs it is about.
BarInv ==
    \A j \in Jobs :
        /\ bar[j] # "none" => listening /\ (view = "jobs" \/ j = at)
        /\ bar[j] = "work" /\ told[j] \in Outcomes /\ ~missed => OutcomeSent(wire, j)
        /\ bar[j] = "done" => Succeeded(j)

\* Clients have yet to hear how the job ended: the event is on its way, or a
\* cancel handler has yet to send it.
ToldLater(j) == OutcomeSent(wire, j) \/ <<j, "announce">> \in cancelling

\* The detail page of a job that has ended has yet to handle the outcome or to
\* load the job again, or it did so.
ToCome ==
    \/ timers # {}
    \/ \E r \in Requests : req[r] # Free
    \/ ToldLater(at)

DetailInv ==
    view = "detail" /\ told[at] \in Outcomes /\ ~missed =>
        \/ ToCome \/ behind
        \/ row[at] = "absent" \/ shown[at] = "hidden"
        \/ at \notin owed /\ shown[at] = row[at]

ViewInv == ViewTypeOK /\ OwedInv /\ WireInv /\ BarInv /\ DetailInv

-----------------------------------------------------------------------------
(* The wire                                                                *)

\* An event at the end keeps the outcome last if it is an outcome or shows
\* no work.
LEMMA AppendKeepsLast ==
    ASSUME NEW w \in Seq(Event), NEW e \in Event, NEW j \in Jobs,
           OutcomeIsLast(w, j), ~Works(e, j)
    PROVE  OutcomeIsLast(Append(w, e), j)
<1> DEFINE v == Append(w, e)
<1>1. /\ v \in Seq(Event) /\ DOMAIN v = 1..(Len(w) + 1) /\ DOMAIN w = 1..Len(w) /\ Len(w) \in Nat
      /\ v[Len(w) + 1] = e /\ \A i \in 1..Len(w) : v[i] = w[i]
  OBVIOUS
<1> SUFFICES ASSUME NEW i \in DOMAIN v, Works(v[i], j)
             PROVE  \E k \in DOMAIN v : i < k /\ Ends(v[k], j)
  BY DEF OutcomeIsLast
<1>2. i \in DOMAIN w /\ v[i] = w[i]
  BY <1>1
<1>3. PICK k \in DOMAIN w : i < k /\ Ends(w[k], j)
  BY <1>2 DEF OutcomeIsLast
<1> QED
  BY <1>1, <1>3

LEMMA OutcomeAppended ==
    ASSUME NEW w \in Seq(Event), NEW e \in Event, NEW j \in Jobs, Ends(e, j)
    PROVE  OutcomeIsLast(Append(w, e), j) /\ OutcomeSent(Append(w, e), j)
<1> DEFINE v == Append(w, e)
<1>1. /\ DOMAIN v = 1..(Len(w) + 1) /\ Len(w) \in Nat /\ v[Len(w) + 1] = e
  OBVIOUS
<1>2. ~Works(e, j)
  BY DEF Ends, Works, Final, Outcomes, Active
<1> QED
  BY <1>1, <1>2 DEF OutcomeIsLast, OutcomeSent

LEMMA AppendKeepsSent ==
    ASSUME NEW w \in Seq(Event), NEW e \in Event, NEW j \in Jobs, OutcomeSent(w, j)
    PROVE  OutcomeSent(Append(w, e), j)
<1>1. PICK i \in DOMAIN w : Ends(w[i], j)
  BY DEF OutcomeSent
<1>2. i \in DOMAIN Append(w, e) /\ Append(w, e)[i] = w[i]
  OBVIOUS
<1> QED
  BY <1>1, <1>2 DEF OutcomeSent

\* What follows the first event.
LEMMA TailOfWire ==
    ASSUME NEW w \in Seq(Event), w # <<>>
    PROVE  /\ Head(w) \in Event /\ Head(w) = w[1] /\ Tail(w) \in Seq(Event)
           /\ Len(w) \in Nat \ {0} /\ Len(Tail(w)) = Len(w) - 1
           /\ DOMAIN w = 1..Len(w) /\ DOMAIN Tail(w) = 1..(Len(w) - 1)
           /\ \A i \in DOMAIN Tail(w) : Tail(w)[i] = w[i + 1]
OBVIOUS

LEMMA TailKeepsLast ==
    ASSUME NEW w \in Seq(Event), w # <<>>, NEW j \in Jobs, OutcomeIsLast(w, j)
    PROVE  OutcomeIsLast(Tail(w), j)
<1> SUFFICES ASSUME NEW i \in DOMAIN Tail(w), Works(Tail(w)[i], j)
             PROVE  \E k \in DOMAIN Tail(w) : i < k /\ Ends(Tail(w)[k], j)
  BY DEF OutcomeIsLast
<1>1. i + 1 \in DOMAIN w /\ Works(w[i + 1], j)
  BY TailOfWire
<1>2. PICK k \in DOMAIN w : i + 1 < k /\ Ends(w[k], j)
  BY <1>1 DEF OutcomeIsLast
<1>3. k - 1 \in DOMAIN Tail(w) /\ i < k - 1 /\ Tail(w)[k - 1] = w[k]
  BY <1>2, TailOfWire
<1> QED
  BY <1>2, <1>3

\* Unless it was the first event, an outcome is still to come.
LEMMA TailKeepsSent ==
    ASSUME NEW w \in Seq(Event), w # <<>>, NEW j \in Jobs,
           \/ OutcomeSent(w, j) /\ ~Ends(Head(w), j)
           \/ OutcomeIsLast(w, j) /\ Works(Head(w), j)
    PROVE  OutcomeSent(Tail(w), j)
<1>1. PICK k \in DOMAIN w : k # 1 /\ Ends(w[k], j)
  <2>1. CASE OutcomeSent(w, j) /\ ~Ends(Head(w), j)
    BY <2>1, TailOfWire DEF OutcomeSent
  <2>2. CASE OutcomeIsLast(w, j) /\ Works(Head(w), j)
    BY <2>2, TailOfWire DEF OutcomeIsLast
  <2> QED
    BY <2>1, <2>2
<1>2. k - 1 \in DOMAIN Tail(w) /\ Tail(w)[k - 1] = w[k]
  BY <1>1, TailOfWire
<1> QED
  BY <1>1, <1>2 DEF OutcomeSent

-----------------------------------------------------------------------------
(* Steps of the agent                                                      *)

\* What a step of the agent leaves of what a view is told about a job: an
\* outcome comes with its event, and a row whose outcome is written changes
\* only with another event to come, or goes.
Follows(j) ==
    /\ Succeeded(j) => Succeeded(j)'
    /\ told'[j] \in Outcomes /\ ~missed' =>
          /\ OutcomeSent(wire, j) => OutcomeSent(wire', j)
          /\ ToldLater(j) => ToldLater(j)'
          /\ told[j] \notin Outcomes => OutcomeSent(wire', j)
          /\ told[j] \in Outcomes =>
                /\ row[j] = "absent" => row'[j] = "absent"
                /\ j \notin owed => /\ j \notin owed'
                                    /\ row'[j] \in {row[j], "absent"} \/ ToldLater(j)'

LEMMA SendStep ==
    ASSUME StreamTypeOK, NEW e \in Event, Send(e)
    PROVE  /\ wire' \in Seq(Event) /\ Len(wire') <= Capacity
           /\ up' = up /\ missed' \in BOOLEAN
           /\ ~missed' => ~missed /\ wire' = Append(wire, e)
           /\ \A i \in DOMAIN wire' : wire'[i] = e \/ \E k \in DOMAIN wire : wire'[i] = wire[k]
           /\ \A j \in Jobs : OutcomeIsLast(wire, j) /\ ~Works(e, j) => OutcomeIsLast(wire', j)
           /\ \A j \in Jobs : Ends(e, j) => OutcomeIsLast(wire', j)
<1> USE StreamAssumption DEF StreamTypeOK
<1>1. wire \in Seq(Event) /\ Len(wire) \in Nat /\ Len(wire) <= Capacity
  OBVIOUS
<1>2. /\ up' = up /\ missed' \in BOOLEAN
      /\ ~missed' => ~missed /\ wire' = Append(wire, e)
  BY DEF Send
<1>3. CASE ~up
  <2>1. wire' = <<>>
    BY <1>3 DEF Send
  <2>2. \A j \in Jobs : OutcomeIsLast(wire', j)
    BY <2>1 DEF OutcomeIsLast
  <2> QED
    BY <1>2, <2>1, <2>2
<1>4. CASE up /\ ~Full
  <2>1. wire' = Append(wire, e)
    BY <1>4 DEF Send
  <2>2. wire' \in Seq(Event) /\ Len(wire') <= Capacity
    BY <1>1, <1>4, <2>1 DEF Full
  <2>3. \A i \in DOMAIN wire' : wire'[i] = e \/ \E k \in DOMAIN wire : wire'[i] = wire[k]
    BY <1>1, <2>1
  <2> QED
    BY <1>1, <1>2, <2>1, <2>2, <2>3, AppendKeepsLast, OutcomeAppended
<1>5. CASE up /\ Full
  <2>1. wire' = Append(Tail(wire), e)
    BY <1>5 DEF Send
  <2>2. wire # <<>>
    BY <1>1, <1>5 DEF Full
  <2>3. /\ Tail(wire) \in Seq(Event) /\ Len(Tail(wire)) = Len(wire) - 1
        /\ DOMAIN wire = 1..Len(wire) /\ DOMAIN Tail(wire) = 1..(Len(wire) - 1)
        /\ \A i \in DOMAIN Tail(wire) : Tail(wire)[i] = wire[i + 1]
    BY <1>1, <2>2, TailOfWire
  <2>4. wire' \in Seq(Event) /\ Len(wire') <= Capacity
    BY <1>1, <2>1, <2>3
  <2>5. \A i \in DOMAIN wire' : wire'[i] = e \/ (i \in DOMAIN Tail(wire) /\ wire'[i] = Tail(wire)[i])
    BY <1>1, <2>1, <2>3
  <2>6. \A i \in DOMAIN wire' : wire'[i] = e \/ \E k \in DOMAIN wire : wire'[i] = wire[k]
    <3> SUFFICES ASSUME NEW i \in DOMAIN Tail(wire) PROVE \E k \in DOMAIN wire : Tail(wire)[i] = wire[k]
      BY <2>5
    <3>1. i + 1 \in DOMAIN wire
      BY <1>1, <2>3
    <3> QED
      BY <2>3, <3>1
  <2> QED
    BY <1>1, <1>2, <2>1, <2>2, <2>3, <2>4, <2>6, TailKeepsLast, AppendKeepsLast, OutcomeAppended
<1> QED
  BY <1>3, <1>4, <1>5

\* An event whose job has told no outcome, or that is the outcome or says less,
\* keeps the wire's invariant and the event of every other outcome.
LEMMA EventSent ==
    ASSUME StreamTypeOK, WireInv, NEW e \in Event, Send(e), NEW j \in Jobs, e.job = j,
           told' \in [Jobs -> Told],
           \A k \in Jobs : k # j => told'[k] = told[k],
           Ends(e, j) \/ told'[j] \notin Outcomes \/ (told'[j] = told[j] /\ ~Works(e, j)),
           AllDone(e) \/ Succeeded(j) => Succeeded(j)'
    PROVE  /\ WireInv' /\ (~missed' => ~missed)
           /\ \A k \in Jobs : ~missed' /\ OutcomeSent(wire, k) => OutcomeSent(wire', k)
           /\ ~missed' /\ Ends(e, j) => OutcomeSent(wire', j)
<1>1. wire \in Seq(Event)
  BY DEF StreamTypeOK
<1>2. \A k \in Jobs : k # j => ~Works(e, k)
  BY DEF Works
<1>3. \A k \in Jobs : told'[k] \in Outcomes => OutcomeIsLast(wire', k)
  <2> SUFFICES ASSUME NEW k \in Jobs, told'[k] \in Outcomes
               PROVE  OutcomeIsLast(wire', k)
    OBVIOUS
  <2>1. CASE Ends(e, k)
    BY <2>1, SendStep
  <2>2. CASE ~Ends(e, k)
    <3>1. ~Works(e, k) /\ told[k] \in Outcomes
      BY <1>2, <2>2
    <3> QED
      BY <3>1, SendStep DEF WireInv
  <2> QED
    BY <2>1, <2>2
<1>4. \A i \in DOMAIN wire' : AllDone(wire'[i]) => told'[wire'[i].job] \in {"completed", "lost"}
  <2> SUFFICES ASSUME NEW i \in DOMAIN wire', AllDone(wire'[i])
               PROVE  told'[wire'[i].job] \in {"completed", "lost"}
    BY DEF Succeeded
  <2>1. CASE wire'[i] = e
    BY <2>1 DEF Succeeded
  <2>2. CASE wire'[i] # e
    <3>1. PICK k \in DOMAIN wire : wire'[i] = wire[k]
      BY <2>2, SendStep
    <3>2. wire[k] \in Event
      BY <1>1
    <3>3. wire[k].job \in Jobs
      BY <3>2 DEF Event
    <3>4. Succeeded(wire[k].job)
      BY <3>1 DEF WireInv
    <3> QED
      BY <3>1, <3>3, <3>4 DEF Succeeded
  <2> QED
    BY <2>1, <2>2
<1>5. WireInv'
  BY <1>3, <1>4 DEF WireInv, Succeeded
<1> QED
  BY <1>1, <1>5, SendStep, AppendKeepsSent, OutcomeAppended

\* A step that sends nothing and changes what one job has told, from what is no
\* success to what is no outcome, or nothing of that.
LEMMA NothingSent ==
    ASSUME StreamTypeOK, WireInv, wire' = wire,
           \A k \in Jobs : told'[k] = told[k] \/ (~Succeeded(k) /\ told'[k] \notin Outcomes)
    PROVE  WireInv'
<1>1. \A k \in Jobs : told'[k] \in Outcomes => OutcomeIsLast(wire', k)
  BY DEF WireInv
<1>2. \A i \in DOMAIN wire : wire[i].job \in Jobs
  <2> SUFFICES ASSUME NEW i \in DOMAIN wire PROVE wire[i].job \in Jobs
    OBVIOUS
  <2>1. wire[i] \in Event
    BY DEF StreamTypeOK
  <2> QED
    BY <2>1 DEF Event
<1>3. \A i \in DOMAIN wire' : AllDone(wire'[i]) => told'[wire'[i].job] \in {"completed", "lost"}
  BY <1>2 DEF WireInv, Succeeded
<1> QED
  BY <1>1, <1>3 DEF WireInv, Succeeded

LEMMA AgentStepFollows ==
    ASSUME StreamTypeOK, OwedInv, WireInv, AgentStep
    PROVE  /\ StreamTypeOK' /\ OwedInv' /\ WireInv' /\ (~missed' => ~missed)
           /\ \A j \in Jobs : Follows(j)
<1> USE DEF StreamTypeOK
<1> DEFINE Kept == StreamTypeOK' /\ OwedInv' /\ WireInv' /\ (~missed' => ~missed) /\ \A k \in Jobs : Follows(k)
<1>1. \A j \in Jobs : /\ row[j] \in Status /\ told[j] \in Told /\ logged[j] \in 0..MaxLines
                      /\ ring[j] \in Seq(Line) /\ begun[j] \in Nat
  OBVIOUS
<1>2. ASSUME NEW j \in Jobs, Submit(j)
      PROVE  Kept
  <2>1. /\ told' \in [Jobs -> Told] /\ told'[j] = "accepted" /\ told[j] = "none" /\ (\A k \in Jobs : k # j => told'[k] = told[k])
        /\ row' \in [Jobs -> Status] /\ (\A k \in Jobs : k # j => row'[k] = row[k])
        /\ restores' \subseteq Jobs
        /\ UNCHANGED <<begun, owed, closing, cancelling, deleting, ring, logged, wire, up, missed>>
    BY <1>2 DEF Submit, Told, Active, Status, logVars, streamVars
  <2>2. told'[j] \notin Outcomes /\ ~Succeeded(j)
    BY <2>1 DEF Outcomes, Succeeded
  <2>3. WireInv'
    BY <2>1, <2>2, NothingSent
  <2>4. StreamTypeOK'
    BY <2>1
  <2>5. OwedInv'
    BY <2>1 DEF OwedInv, Outcomes
  <2>6. \A k \in Jobs : Follows(k)
    BY <2>1, <2>2 DEF Follows, Succeeded, ToldLater
  <2> QED
    BY <2>1, <2>3, <2>4, <2>5, <2>6
<1>3. ASSUME NEW j \in Jobs, NEW s \in Active \cup Final, Announce(j, s)
      PROVE  Kept
  <2> DEFINE e == [kind |-> "status", job |-> j, status |-> s]
  <2>1. Send(e) /\ e \in Event /\ e.job = j /\ ~AllDone(e)
    BY <1>3 DEF Announce, SendStatus, Event, AllDone
  <2>2. told[j] \notin Outcomes \cup {"lost"} /\ s \in NextStatus(j) /\ j \notin owed
    BY <1>3 DEF Announce, NextStatus, Outcomes, Active
  <2>3. s \in Active \cup Outcomes
    BY <2>2 DEF NextStatus, Active
  <2>4. /\ told' \in [Jobs -> Told] /\ told'[j] = s /\ (\A k \in Jobs : k # j => told'[k] = told[k])
        /\ UNCHANGED <<row, begun, restores, cancelling, deleting, ring, logged>>
    BY <1>3, <2>3 DEF Announce, Told, logVars
  <2>5. owed' \in {owed, owed \cup {j}} /\ (j \in owed' => s \in {"running"} \cup Outcomes)
    <3>1. s = "pending" => j \in restores
      BY <2>2 DEF NextStatus, Outcomes
    <3> QED
      BY <1>3, <2>2, <2>3, <3>1 DEF Announce, Active
  <2>6. closing' \in {closing, closing \cup {j}} /\ (closing' # closing => s = "completed")
    BY <1>3 DEF Announce
  <2>7. Ends(e, j) \/ told'[j] \notin Outcomes
    BY <2>3, <2>4 DEF Ends, Final
  <2>8. ~Succeeded(j)
    BY <2>2 DEF Succeeded, Outcomes
  <2> HIDE DEF e
  <2>9. /\ WireInv' /\ (~missed' => ~missed)
        /\ \A k \in Jobs : ~missed' /\ OutcomeSent(wire, k) => OutcomeSent(wire', k)
        /\ ~missed' /\ Ends(e, j) => OutcomeSent(wire', j)
    BY <2>1, <2>4, <2>7, <2>8, EventSent
  <2>10. StreamTypeOK'
    <3>1. owed' \subseteq Jobs /\ closing' \subseteq Jobs
      BY <2>5, <2>6
    <3>2. wire' \in Seq(Event) /\ Len(wire') <= Capacity /\ up' = up /\ missed' \in BOOLEAN
      BY <2>1, SendStep
    <3> QED
      BY <2>4, <3>1, <3>2
  <2>11. OwedInv'
    <3>1. told[j] # "completed" /\ j \notin closing
      BY <2>2 DEF OwedInv, Outcomes
    <3>2. \A k \in owed' : told'[k] \in {"running"} \cup Outcomes
      BY <2>2, <2>4, <2>5 DEF OwedInv
    <3>3. \A k \in closing' : told'[k] = "completed"
      BY <2>4, <2>6, <3>1 DEF OwedInv
    <3> QED
      BY <3>2, <3>3 DEF OwedInv
  <2>12. \A k \in Jobs : Follows(k)
    BY <2>2, <2>4, <2>5, <2>7, <2>8, <2>9 DEF Follows, Succeeded, ToldLater
  <2> QED
    BY <2>9, <2>10, <2>11, <2>12
<1>4. ASSUME NEW j \in Jobs, ReportDone(j)
      PROVE  Kept
  <2> DEFINE e == [kind |-> "progress", job |-> j, phase |-> "done"]
  <2>1. Send(e) /\ e \in Event /\ e.job = j /\ ~Works(e, j)
    BY <1>4 DEF ReportDone, Event, Works
  <2>2. Succeeded(j)
    BY <1>4 DEF ReportDone, OwedInv, Succeeded
  <2>3. /\ closing' = closing \ {j}
        /\ UNCHANGED <<row, begun, restores, told, owed, cancelling, deleting, ring, logged>>
    BY <1>4 DEF ReportDone, logVars
  <2> HIDE DEF e
  <2>4. /\ WireInv' /\ (~missed' => ~missed)
        /\ \A k \in Jobs : ~missed' /\ OutcomeSent(wire, k) => OutcomeSent(wire', k)
    <3>1. AllDone(e) \/ Succeeded(j) => Succeeded(j)'
      BY <2>2, <2>3 DEF Succeeded
    <3> QED
      BY <2>1, <2>3, <3>1, EventSent
  <2>5. StreamTypeOK' /\ OwedInv'
    BY <2>1, <2>3, SendStep DEF OwedInv
  <2>6. \A k \in Jobs : Follows(k)
    BY <2>3, <2>4 DEF Follows, Succeeded, ToldLater
  <2> QED
    BY <2>4, <2>5, <2>6
<1>5. ASSUME NEW j \in Jobs, Write(j)
      PROVE  Kept
  <2>1. told[j] \in Status
    BY <1>5 DEF Write, OwedInv, Status, Active, Final
  <2>2. /\ row' \in [Jobs -> Status] /\ (\A k \in Jobs : k # j => row'[k] = row[k])
        /\ row[j] = "absent" => row'[j] = "absent"
        /\ j \in owed /\ owed' = owed \ {j}
        /\ UNCHANGED <<restores, told, closing, cancelling, deleting, ring, logged, wire, up, missed>>
    BY <1>5, <2>1 DEF Write, SetRow, Status, logVars, streamVars
  <2>3. begun' \in [Jobs -> Nat]
    <3>1. IsFiniteSet(Begun)
      BY StreamAssumption, FS_Subset DEF Begun
    <3>2. Cardinality(Begun) + 1 \in Nat
      BY <3>1, FS_CardinalityType
    <3> QED
      BY <1>1, <1>5, <3>2 DEF Write
  <2>4. WireInv' /\ OwedInv'
    BY <2>2, NothingSent DEF OwedInv
  <2>5. StreamTypeOK'
    BY <2>2, <2>3
  <2>6. \A k \in Jobs : Follows(k)
    BY <2>2 DEF Follows, Succeeded, ToldLater
  <2> QED
    BY <2>2, <2>4, <2>5, <2>6
<1>6. ASSUME NEW j \in Jobs, StartEngine(j)
      PROVE  Kept
  <2> DEFINE e == [kind |-> "status", job |-> j, status |-> "running"]
  <2>1. e \in Event /\ e.job = j /\ ~AllDone(e)
    BY DEF Event, Active, AllDone
  <2>2. /\ told' \in [Jobs -> Told] /\ told'[j] = "working" /\ (\A k \in Jobs : k # j => told'[k] = told[k])
        /\ told[j] = "running"
        /\ j \notin owed /\ UNCHANGED <<row, begun, restores, owed, closing, cancelling, deleting, ring, logged>>
    BY <1>6 DEF StartEngine, Told, logVars
  <2>3. told'[j] \notin Outcomes /\ told[j] \notin Outcomes /\ ~Succeeded(j)
    BY <2>2 DEF Outcomes, Succeeded
  <2>4. OwedInv'
    BY <2>2, <2>3 DEF OwedInv, Succeeded
  <2>5. CASE Send(e)
    <3> HIDE DEF e
    <3>1. /\ WireInv' /\ (~missed' => ~missed)
          /\ \A k \in Jobs : ~missed' /\ OutcomeSent(wire, k) => OutcomeSent(wire', k)
      BY <2>1, <2>2, <2>3, <2>5, EventSent
    <3>2. StreamTypeOK'
      BY <2>1, <2>2, <2>5, SendStep
    <3>3. \A k \in Jobs : Follows(k)
      BY <2>2, <2>3, <3>1 DEF Follows, Succeeded, ToldLater
    <3> QED
      BY <2>4, <3>1, <3>2, <3>3
  <2>6. CASE UNCHANGED streamVars
    <3>1. UNCHANGED <<wire, up, missed>>
      BY <2>6 DEF streamVars
    <3>2. WireInv'
      BY <2>2, <2>3, <3>1, NothingSent
    <3>3. StreamTypeOK'
      BY <2>2, <3>1
    <3>4. \A k \in Jobs : Follows(k)
      BY <2>2, <2>3, <3>1 DEF Follows, Succeeded, ToldLater
    <3> QED
      BY <2>4, <3>1, <3>2, <3>3, <3>4
  <2> QED
    BY <1>6, <2>5, <2>6 DEF StartEngine, SendStatus
<1>7. ASSUME NEW j \in Jobs, Report(j)
      PROVE  Kept
  <2> DEFINE e == [kind |-> "progress", job |-> j, phase |-> "work"]
  <2>1. Send(e) /\ e \in Event /\ e.job = j /\ ~AllDone(e)
    BY <1>7 DEF Report, Event, AllDone
  <2>2. /\ told'[j] \notin Outcomes /\ ~Succeeded(j)
        /\ UNCHANGED <<row, begun, restores, told, owed, closing, cancelling, deleting, ring, logged>>
    BY <1>7 DEF Report, Outcomes, Succeeded, logVars, jobVars
  <2> HIDE DEF e
  <2>3. /\ WireInv' /\ (~missed' => ~missed)
        /\ \A k \in Jobs : ~missed' /\ OutcomeSent(wire, k) => OutcomeSent(wire', k)
    BY <2>1, <2>2, EventSent
  <2>4. StreamTypeOK' /\ OwedInv'
    BY <2>1, <2>2, SendStep DEF OwedInv
  <2>5. \A k \in Jobs : Follows(k)
    BY <2>2, <2>3 DEF Follows, Succeeded, ToldLater
  <2> QED
    BY <2>3, <2>4, <2>5
<1>8. ASSUME NEW j \in Jobs, Log(j)
      PROVE  Kept
  <2> DEFINE line == logged[j] + 1
             kept == IF Len(ring[j]) >= LogLimit THEN Tail(ring[j]) ELSE ring[j]
             e == [kind |-> "log", job |-> j, line |-> line]
  <2>1. line \in Line
    BY <1>1, <1>8, StreamAssumption DEF Log, Line
  <2>2. Send(e) /\ e \in Event /\ e.job = j /\ ~Works(e, j) /\ ~AllDone(e)
    BY <1>8, <2>1 DEF Log, Event, Works, AllDone
  <2>3. kept \in Seq(Line)
    BY <1>1, StreamAssumption
  <2>4. /\ ring' = [ring EXCEPT ![j] = Append(kept, line)] /\ logged' = [logged EXCEPT ![j] = line]
        /\ UNCHANGED <<row, begun, restores, told, owed, closing, cancelling, deleting>>
    BY <1>8 DEF Log, jobVars
  <2>5. Append(kept, line) \in Seq(Line) /\ line \in 0..MaxLines
    BY <2>1, <2>3 DEF Line
  <2>6. ring' \in [Jobs -> Seq(Line)] /\ logged' \in [Jobs -> 0..MaxLines]
    BY <2>4, <2>5
  <2> HIDE DEF e, line, kept
  <2>7. /\ WireInv' /\ (~missed' => ~missed)
        /\ \A k \in Jobs : ~missed' /\ OutcomeSent(wire, k) => OutcomeSent(wire', k)
    <3>1. AllDone(e) \/ Succeeded(j) => Succeeded(j)'
      BY <2>2, <2>4 DEF Succeeded
    <3> QED
      BY <2>2, <2>4, <3>1, EventSent
  <2>8. StreamTypeOK' /\ OwedInv'
    BY <2>2, <2>4, <2>6, SendStep DEF OwedInv
  <2>9. \A k \in Jobs : Follows(k)
    BY <2>4, <2>7 DEF Follows, Succeeded, ToldLater
  <2> QED
    BY <2>7, <2>8, <2>9
<1>9. ASSUME NEW j \in Jobs, WriteCancelled(j)
      PROVE  Kept
  <2>1. /\ row' \in [Jobs -> Status] /\ (\A k \in Jobs : k # j => row'[k] = row[k])
        /\ row[j] = "absent" => row'[j] = "absent"
        /\ cancelling' = (cancelling \ {<<j, "write">>}) \cup {<<j, "announce">>}
        /\ UNCHANGED <<begun, restores, told, owed, closing, deleting, ring, logged, wire, up, missed>>
    BY <1>9 DEF WriteCancelled, SetRow, Status, Final, logVars, streamVars
  <2>2. cancelling' \subseteq Jobs \X {"write", "announce"}
    BY <2>1
  <2>3. <<j, "announce">> \in cancelling' /\ \A k \in Jobs : <<k, "announce">> \in cancelling => <<k, "announce">> \in cancelling'
    BY <2>1
  <2>4. WireInv' /\ OwedInv'
    BY <2>1, NothingSent DEF OwedInv
  <2>5. StreamTypeOK'
    BY <2>1, <2>2
  <2>6. \A k \in Jobs : Follows(k)
    BY <2>1, <2>3 DEF Follows, Succeeded, ToldLater
  <2> QED
    BY <2>1, <2>4, <2>5, <2>6
<1>10. ASSUME NEW j \in Jobs, AnnounceCancelled(j)
       PROVE  Kept
  <2> DEFINE e == [kind |-> "status", job |-> j, status |-> "cancelled"]
  <2>1. Send(e) /\ e \in Event /\ e.job = j /\ Ends(e, j) /\ ~AllDone(e)
    BY <1>10 DEF AnnounceCancelled, SendStatus, Event, Final, Ends, AllDone
  <2>2. /\ cancelling' = cancelling \ {<<j, "announce">>}
        /\ UNCHANGED <<row, begun, restores, told, owed, closing, deleting, ring, logged>>
    BY <1>10 DEF AnnounceCancelled, logVars
  <2>3. cancelling' \subseteq Jobs \X {"write", "announce"}
    BY <2>2
  <2>4. \A k \in Jobs : k # j /\ <<k, "announce">> \in cancelling => <<k, "announce">> \in cancelling'
    BY <2>2
  <2> HIDE DEF e
  <2>5. /\ WireInv' /\ (~missed' => ~missed) /\ (~missed' => OutcomeSent(wire', j))
        /\ \A k \in Jobs : ~missed' /\ OutcomeSent(wire, k) => OutcomeSent(wire', k)
    <3>1. AllDone(e) \/ Succeeded(j) => Succeeded(j)'
      BY <2>1, <2>2 DEF Succeeded
    <3> QED
      BY <2>1, <2>2, <3>1, EventSent
  <2>6. StreamTypeOK' /\ OwedInv'
    BY <2>1, <2>2, <2>3, SendStep DEF OwedInv
  <2>7. \A k \in Jobs : Follows(k)
    BY <2>2, <2>4, <2>5 DEF Follows, Succeeded, ToldLater
  <2> QED
    BY <2>5, <2>6, <2>7
<1>11. ASSUME NEW j \in Jobs, DeleteRow(j)
       PROVE  Kept
  <2>1. /\ row' \in [Jobs -> Status] /\ (\A k \in Jobs : row'[k] \in {row[k], "absent"})
        /\ deleting' \subseteq Jobs
        /\ UNCHANGED <<begun, restores, told, owed, closing, cancelling, ring, logged, wire, up, missed>>
    BY <1>11 DEF DeleteRow, SetRow, Status, logVars, streamVars
  <2>2. WireInv' /\ OwedInv'
    BY <2>1, NothingSent DEF OwedInv
  <2>3. StreamTypeOK'
    BY <2>1
  <2>4. \A k \in Jobs : Follows(k)
    BY <2>1 DEF Follows, Succeeded, ToldLater
  <2> QED
    BY <2>1, <2>2, <2>3, <2>4
<1>12. ASSUME StreamEnds \/ AgentRestarts
       PROVE  Kept
  <2>1. /\ wire' = <<>> /\ up' = FALSE /\ missed' = TRUE
        /\ UNCHANGED <<row, begun, restores, logged>>
    BY <1>12 DEF StreamEnds, AgentRestarts, jobVars, logVars
  <2>2. /\ told' \in [Jobs -> Told] /\ owed' \subseteq Jobs /\ closing' \subseteq Jobs /\ deleting' \subseteq Jobs
        /\ cancelling' \subseteq Jobs \X {"write", "announce"}
        /\ ring' \in [Jobs -> Seq(Line)] /\ OwedInv'
        /\ \A j \in Jobs : told'[j] \in {told[j], "lost"}
    <3>1. CASE StreamEnds
      BY <3>1 DEF StreamEnds, jobVars, logVars, OwedInv
    <3>2. CASE AgentRestarts
      <4>1. /\ told' = [j \in Jobs |-> IF TaskLives(j) THEN "lost" ELSE told[j]]
            /\ owed' = {} /\ closing' = {} /\ cancelling' = {} /\ deleting' = {}
            /\ ring' = [j \in Jobs |-> <<>>]
        BY <3>2 DEF AgentRestarts
      <4>2. <<>> \in Seq(Line)
        OBVIOUS
      <4>3. ring' \in [Jobs -> Seq(Line)]
        BY <4>1, <4>2
      <4>4. told' \in [Jobs -> Told] /\ \A j \in Jobs : told'[j] \in {told[j], "lost"}
        BY <1>1, <4>1 DEF Told
      <4> QED
        BY <4>1, <4>3, <4>4 DEF OwedInv
    <3> QED
      BY <1>12, <3>1, <3>2
  <2>3. /\ wire' \in Seq(Event) /\ Len(wire') <= Capacity /\ DOMAIN wire' = {}
        /\ up' \in BOOLEAN /\ missed' \in BOOLEAN
    <3>1. wire' \in Seq(Event) /\ Len(wire') = 0 /\ DOMAIN wire' = {}
      BY <2>1
    <3>2. 0 <= Capacity
      BY StreamAssumption
    <3>3. up' \in BOOLEAN /\ missed' \in BOOLEAN
      BY <2>1
    <3> QED
      BY <3>1, <3>2, <3>3
  <2>4. StreamTypeOK'
    <3>1. /\ row' \in [Jobs -> Status] /\ logged' \in [Jobs -> 0..MaxLines]
          /\ begun' \in [Jobs -> Nat] /\ restores' \subseteq Jobs
      BY <2>1
    <3> QED
      BY <2>2, <2>3, <3>1
  <2>5. WireInv'
    BY <2>3 DEF WireInv, OutcomeIsLast
  <2>6. \A k \in Jobs : Follows(k)
    BY <2>1, <2>2 DEF Follows, Succeeded
  <2> QED
    BY <2>1, <2>2, <2>4, <2>5, <2>6
<1> QED
  BY <1>2, <1>3, <1>4, <1>5, <1>6, <1>7, <1>8, <1>9, <1>10, <1>11, <1>12 DEF AgentStep

-----------------------------------------------------------------------------
(* Steps of the view                                                       *)

Bars   == [Jobs -> {"none", "work", "done"}]
Shapes == [Jobs -> {"hidden"} \cup Active \cup Final]
Load   == [filter : Filters, log : SUBSET Seq(Line), rows : SUBSET Shapes]

\* A load that was asked for is in flight.
LEMMA AskStep ==
    ASSUME ViewTypeOK, NEW f \in Filters, Ask(f)
    PROVE  req' \in [Requests -> {Free} \cup Load] /\ \E r \in Requests : req'[r] # Free
<1>1. req \in [Requests -> {Free} \cup Load]
  BY DEF ViewTypeOK, Load, Shapes
<1>2. Asked(f) \in Load /\ Asked(f) # Free
  BY DEF Asked, Load, Free
<1>3. PICK r \in Requests : req' = [req EXCEPT ![r] = Asked(f)]
  BY DEF Ask
<1> QED
  BY <1>1, <1>2, <1>3

LEMMA AgentSame ==
    ASSUME StreamTypeOK, OwedInv, WireInv, UNCHANGED agentVars
    PROVE  StreamTypeOK' /\ OwedInv' /\ WireInv'
<1>1. UNCHANGED <<row, begun, restores, told, owed, closing, cancelling, deleting, ring, logged, wire, up, missed>>
  BY DEF agentVars, jobVars, logVars, streamVars
<1>2. WireInv'
  BY <1>1, NothingSent
<1> QED
  BY <1>1, <1>2 DEF StreamTypeOK, OwedInv

\* The rows the agent answers with.
LEMMA RowsShape ==
    ASSUME StreamTypeOK, NEW f
    PROVE  Pages(f) \subseteq Shapes /\ \A j \in Jobs : RowOf(j) \in Shapes
<1>1. \A S \in SUBSET Matching(f) : RowsOf(S) \in Shapes
  BY DEF StreamTypeOK, RowsOf, Matching, Shapes, Status
<1>3. \A j \in Jobs : RowOf(j) \in Shapes
  BY DEF StreamTypeOK, RowsOf, RowOf, Matching, Shapes, Status
<1> QED
  BY <1>1, <1>3 DEF Pages, LastBegun

LEMMA ViewInitial == ViewInit => ViewInv
<1> SUFFICES ASSUME ViewInit PROVE ViewInv
  OBVIOUS
<1>1. StreamTypeOK
  <2>1. <<>> \in Seq(Event) /\ <<>> \in Seq(Line) /\ Len(<<>>) = 0
    OBVIOUS
  <2>2. 0 <= Capacity /\ 0 \in 0..MaxLines
    BY StreamAssumption
  <2> QED
    BY <2>1, <2>2, StreamAssumption DEF ViewInit, StreamInit, StreamTypeOK, Status, Told, Final, Outcomes
<1>2. ViewTypeOK
  <2>1. /\ view \in DOMAIN Parts /\ at \in Jobs \cup {None} /\ (at = None <=> view \in {"none", "jobs"})
    BY ViewAssumption DEF ViewInit, Parts
  <2>5. /\ listening \in BOOLEAN /\ filter \in Filters /\ behind \in BOOLEAN
        /\ bar \in [Jobs -> {"none", "work", "done"}] /\ timers \subseteq Filters /\ removing \subseteq Jobs
    BY ViewAssumption DEF ViewInit, NoBar
  <2>6. lines \in Seq(Line)
    <3>1. <<>> \in Seq(Line)
      OBVIOUS
    <3> QED
      BY <3>1 DEF ViewInit
  <2>2. shown \in [Jobs -> {"hidden"} \cup Active \cup Final]
    BY DEF ViewInit, Hidden
  <2>3. req \in [Requests -> {Free} \cup Load]
    BY DEF ViewInit
  <2>4. ~listening /\ filter = "" /\ shown = Hidden /\ bar = NoBar
        /\ lines = <<>> /\ timers = {} /\ removing = {} /\ \A r \in Requests : req[r] = Free
    BY DEF ViewInit
  <2> QED
    BY <1>1, <2>1, <2>2, <2>3, <2>4, <2>5, <2>6 DEF ViewTypeOK, Load, Shapes
<1>3. OwedInv /\ WireInv
  <2>1. \A j \in Jobs : told[j] \notin Outcomes
    BY DEF ViewInit, StreamInit, Outcomes
  <2>2. owed = {} /\ closing = {} /\ wire = <<>>
    BY DEF ViewInit, StreamInit
  <2> QED
    BY <2>1, <2>2 DEF OwedInv, WireInv
<1>4. BarInv /\ DetailInv
  BY DEF ViewInit, NoBar, BarInv, DetailInv
<1> QED
  BY <1>2, <1>3, <1>4 DEF ViewInv

\* A step of the agent leaves the view alone.
LEMMA AgentKeeps ==
    ASSUME ViewInv, AgentStep, UNCHANGED viewVars
    PROVE  ViewInv'
<1> USE DEF viewVars
<1>1. StreamTypeOK /\ OwedInv /\ WireInv
  BY DEF ViewInv, ViewTypeOK
<1>2. StreamTypeOK' /\ OwedInv' /\ WireInv' /\ (~missed' => ~missed) /\ \A j \in Jobs : Follows(j)
  BY <1>1, AgentStepFollows
<1>3. ViewTypeOK'
  BY <1>2 DEF ViewInv, ViewTypeOK
<1>4. BarInv'
  <2> SUFFICES ASSUME NEW j \in Jobs
               PROVE  /\ bar[j] # "none" => listening /\ (view = "jobs" \/ j = at)
                      /\ bar[j] = "work" /\ told'[j] \in Outcomes /\ ~missed' => OutcomeSent(wire', j)
                      /\ bar[j] = "done" => Succeeded(j)'
    BY DEF BarInv
  <2> QED
    BY <1>2 DEF ViewInv, BarInv, Follows
<1>5. DetailInv'
  <2> SUFFICES ASSUME view = "detail", told'[at] \in Outcomes, ~missed'
               PROVE  \/ ToCome' \/ behind
                      \/ row'[at] = "absent" \/ shown[at] = "hidden"
                      \/ at \notin owed' /\ shown[at] = row'[at]
    BY DEF DetailInv
  <2>1. at \in Jobs /\ Follows(at)
    BY <1>2 DEF ViewInv, ViewTypeOK
  <2>2. ToCome => ToCome'
    BY <2>1 DEF ToCome, Follows
  <2>3. OutcomeSent(wire', at) \/ ToldLater(at)' => ToCome'
    BY DEF ToCome, ToldLater
  <2> QED
    BY <1>2, <2>1, <2>2, <2>3 DEF ViewInv, DetailInv, Follows
<1> QED
  BY <1>2, <1>3, <1>4, <1>5 DEF ViewInv

\* What no step of the view alone disturbs.
LEMMA ViewOnly ==
    ASSUME ViewInv, UNCHANGED <<agentVars, view, at, listening, bar>>
    PROVE  StreamTypeOK' /\ OwedInv' /\ WireInv' /\ BarInv'
<1>1. StreamTypeOK /\ OwedInv /\ WireInv
  BY DEF ViewInv, ViewTypeOK
<1>2. UNCHANGED agentVars /\ UNCHANGED <<told, wire, missed>>
  BY DEF agentVars, jobVars, streamVars
<1>3. BarInv'
  BY <1>2 DEF ViewInv, BarInv, Succeeded
<1> QED
  BY <1>1, <1>2, <1>3, AgentSame

\* Reading a part of the answer leaves the load in flight.
LEMMA ReadKeeps ==
    ASSUME ViewInv, NEW r \in Requests, ReadRows(r) \/ ReadLog(r)
    PROVE  ViewInv'
<1>1. ViewTypeOK /\ req[r] \in {Free} \cup Load
  BY DEF ViewInv, ViewTypeOK, Load, Shapes
<1>2. UNCHANGED <<agentVars, view, at, listening, filter, shown, bar, lines, timers, removing, behind>>
  BY DEF ReadRows, ReadLog
<1>3. StreamTypeOK' /\ OwedInv' /\ WireInv' /\ BarInv'
  BY <1>2, ViewOnly
<1>4. req[r] # Free /\ req[r] \in Load /\ view # "none"
  BY <1>1 DEF ReadRows, ReadLog, Missing, Parts
<1>5. PICK q \in Load : req' = [req EXCEPT ![r] = q] /\ q # Free
  <2>1. CASE ReadRows(r)
    <3>0. PICK rows \in IF view = "jobs" THEN Pages(req[r].filter) ELSE {RowOf(at)} :
                req' = [req EXCEPT ![r].rows = {rows}]
      BY <2>1 DEF ReadRows
    <3> DEFINE q == [req[r] EXCEPT !.rows = {rows}]
    <3>1. {rows} \in SUBSET Shapes
      <4>1. view = "jobs" \/ at \in Jobs
        BY <1>1, <1>4 DEF ViewTypeOK, Parts
      <4>2. rows \in Shapes
        BY <1>1, <3>0, <4>1, RowsShape DEF ViewTypeOK
      <4> QED
        BY <4>2
    <3>2. q \in Load
      BY <1>4, <3>1 DEF Load
    <3>3. q # Free
      BY <3>2 DEF Load, Free
    <3> QED
      BY <3>0, <3>2, <3>3
  <2>2. CASE ReadLog(r)
    <3> DEFINE q == [req[r] EXCEPT !.log = {ring[at]}]
    <3>1. at \in Jobs
      <4>1. view \in DOMAIN Parts /\ "log" \in Parts[view]
        BY <1>1, <1>4, <2>2 DEF ReadLog, Missing, ViewTypeOK
      <4>2. view \in {"detail", "log"}
        BY <4>1 DEF Parts
      <4> QED
        BY <1>1, <4>2 DEF ViewTypeOK
    <3>2. ring[at] \in Seq(Line) /\ {ring[at]} \in SUBSET Seq(Line)
      <4>1. ring \in [Jobs -> Seq(Line)]
        BY <1>1 DEF ViewTypeOK, StreamTypeOK
      <4> QED
        BY <3>1, <4>1
    <3>3. q \in Load
      BY <1>4, <3>2 DEF Load
    <3>4. q # Free
      BY <3>3 DEF Load, Free
    <3> QED
      BY <2>2, <3>3, <3>4 DEF ReadLog
  <2> QED
    BY <2>1, <2>2
<1>6. ViewTypeOK'
  <2>1. req' \in [Requests -> {Free} \cup Load]
    BY <1>1, <1>5 DEF ViewTypeOK, Load, Shapes
  <2> QED
    BY <1>1, <1>2, <1>3, <1>4, <2>1 DEF ViewTypeOK, Load, Shapes
<1>7. ToCome => ToCome'
  BY <1>1, <1>2, <1>5 DEF ToCome, ToldLater, ViewTypeOK, agentVars, jobVars, streamVars
<1>8. DetailInv'
  BY <1>2, <1>7 DEF ViewInv, DetailInv, agentVars, jobVars, streamVars
<1> QED
  BY <1>3, <1>6, <1>8 DEF ViewInv

\* After a load was answered the detail page shows the row, or it is behind.
LEMMA LoadEndKeeps ==
    ASSUME ViewInv, NEW r \in Requests, Apply(r) \/ LoadFails(r)
    PROVE  ViewInv'
<1>1. ViewTypeOK /\ req[r] \in {Free} \cup Load
  BY DEF ViewInv, ViewTypeOK, Load, Shapes
<1>2. /\ UNCHANGED <<agentVars, view, at, listening, filter, bar, timers, removing>>
      /\ req' = [req EXCEPT ![r] = Free]
  BY DEF Apply, ApplyJobs, ApplyDetail, ApplyLog, LoadFails, Finish
<1>3. StreamTypeOK' /\ OwedInv' /\ WireInv' /\ BarInv'
  BY <1>2, ViewOnly
<1>4. req[r] \in Load /\ view # "none"
  BY <1>1 DEF Apply, ApplyJobs, ApplyDetail, ApplyLog, LoadFails, Answered, Missing, Parts
<1>5. \A s \in req[r].rows : s \in Shapes
  BY <1>4 DEF Load
<1>6. \A l \in req[r].log : l \in Seq(Line)
  BY <1>4 DEF Load
<1>7. shown' \in Shapes /\ lines' \in Seq(Line) /\ behind' \in BOOLEAN
  <2>1. CASE ApplyJobs(r)
    BY <1>1, <1>5, <2>1 DEF ApplyJobs, ViewTypeOK
  <2>2. CASE ApplyDetail(r)
    <3>1. lines' \in Seq(Line)
      BY <1>6, <2>2 DEF ApplyDetail
    <3>2. PICK s \in req[r].rows : /\ shown' = [shown EXCEPT ![at] = IF s[at] = "hidden" THEN @ ELSE s[at]]
                                   /\ behind' = (s[at] # row[at] \/ at \in owed)
      BY <2>2 DEF ApplyDetail
    <3>3. at \in Jobs
      BY <1>1, <2>2 DEF ApplyDetail, ViewTypeOK
    <3>4. s \in Shapes /\ shown \in Shapes
      BY <1>1, <1>5 DEF ViewTypeOK, Shapes
    <3>5. shown' \in Shapes
      BY <3>2, <3>3, <3>4 DEF Shapes
    <3>6. behind' \in BOOLEAN
      BY <3>2
    <3> QED
      BY <3>1, <3>5, <3>6
  <2>3. CASE ApplyLog(r)
    BY <1>1, <1>6, <2>3 DEF ApplyLog, ViewTypeOK, Shapes
  <2>4. CASE LoadFails(r)
    BY <1>1, <2>4 DEF LoadFails, ViewTypeOK, Shapes
  <2> QED
    BY <2>1, <2>2, <2>3, <2>4 DEF Apply
<1>8. ViewTypeOK'
  <2>1. req' \in [Requests -> {Free} \cup Load]
    BY <1>1, <1>2 DEF ViewTypeOK, Load, Shapes
  <2> QED
    BY <1>1, <1>2, <1>3, <1>4, <1>7, <2>1 DEF ViewTypeOK, Load, Shapes
<1>9. DetailInv'
  <2> SUFFICES ASSUME view = "detail"
               PROVE  \/ behind'
                      \/ at \notin owed /\ shown'[at] = row[at]
    BY <1>2 DEF DetailInv, agentVars, jobVars
  <2>1. CASE LoadFails(r)
    BY <2>1 DEF LoadFails
  <2>2. CASE Apply(r)
    <3>1. PICK s \in req[r].rows : /\ shown' = [shown EXCEPT ![at] = IF s[at] = "hidden" THEN @ ELSE s[at]]
                                   /\ behind' = (s[at] # row[at] \/ at \in owed)
      BY <2>2 DEF Apply, ApplyJobs, ApplyDetail, ApplyLog
    <3>2. at \in Jobs /\ row[at] # "hidden" /\ shown \in Shapes
      BY <1>1 DEF ViewTypeOK, StreamTypeOK, Status, Active, Final, Outcomes, Shapes
    <3> QED
      BY <3>1, <3>2 DEF Shapes
  <2> QED
    BY <2>1, <2>2
<1> QED
  BY <1>3, <1>8, <1>9 DEF ViewInv

\* Whoever asks waits for the answer.
LEMMA AskKeeps ==
    ASSUME ViewInv, NEW f \in Filters, Poll \/ SetFilter(f) \/ TimerFires(f)
    PROVE  ViewInv'
<1>1. ViewTypeOK
  BY DEF ViewInv
<1>2. /\ UNCHANGED <<agentVars, view, at, listening, shown, bar, lines, removing, behind>>
      /\ filter' \in Filters /\ timers' \subseteq Filters /\ view # "none"
      /\ Ask(filter) \/ Ask(f)
  BY <1>1 DEF Poll, SetFilter, TimerFires, ViewTypeOK
<1>3. StreamTypeOK' /\ OwedInv' /\ WireInv' /\ BarInv'
  BY <1>2, ViewOnly
<1>4. req' \in [Requests -> {Free} \cup Load] /\ \E r \in Requests : req'[r] # Free
  BY <1>1, <1>2, AskStep DEF ViewTypeOK
<1>5. ViewTypeOK'
  BY <1>1, <1>2, <1>3, <1>4 DEF ViewTypeOK, Load, Shapes
<1>6. DetailInv'
  BY <1>4 DEF DetailInv, ToCome
<1> QED
  BY <1>3, <1>5, <1>6 DEF ViewInv

\* A view opens with nothing shown and a load in flight.
LEMMA OpenKeeps ==
    ASSUME ViewInv, NEW v, NEW j, Open(v, j),
           (v = "jobs" /\ j = None) \/ (v \in {"detail", "log"} /\ j \in Jobs)
    PROVE  ViewInv'
<1>1. ViewTypeOK /\ OwedInv /\ WireInv
  BY DEF ViewInv
<1>2. /\ UNCHANGED <<jobVars, logVars, wire, up, listening, filter, shown, bar, lines, timers, removing, behind>>
      /\ view = "none" /\ view' = v /\ at' = j /\ missed' = ~up /\ Ask("")
  BY DEF Open
<1>3. StreamTypeOK'
  <2>1. missed' \in BOOLEAN
    BY <1>2
  <2> QED
    BY <1>1, <1>2, <2>1 DEF ViewTypeOK, StreamTypeOK, jobVars, logVars
<1>4. OwedInv' /\ WireInv'
  BY <1>1, <1>2, NothingSent DEF OwedInv, ViewTypeOK, jobVars
<1>5. req' \in [Requests -> {Free} \cup Load] /\ \E r \in Requests : req'[r] # Free
  BY <1>1, <1>2, AskStep, ViewAssumption
<1>6. view' \in DOMAIN Parts /\ at' \in Jobs \cup {None} /\ (at' = None <=> view' \in {"none", "jobs"}) /\ view' # "none"
  BY <1>2, ViewAssumption DEF Parts
<1>7. ViewTypeOK'
  BY <1>1, <1>2, <1>3, <1>5, <1>6 DEF ViewTypeOK, Load, Shapes
<1>8. bar' = NoBar
  BY <1>1, <1>2 DEF ViewTypeOK
<1>9. BarInv' /\ DetailInv'
  BY <1>5, <1>8 DEF BarInv, NoBar, DetailInv, ToCome
<1> QED
  BY <1>4, <1>7, <1>9 DEF ViewInv

LEMMA LeaveKeeps ==
    ASSUME ViewInv, Leave \/ Listen
    PROVE  ViewInv'
<1>1. ViewTypeOK /\ OwedInv /\ WireInv /\ UNCHANGED agentVars
  BY DEF ViewInv, Leave, Listen
<1>2. StreamTypeOK' /\ OwedInv' /\ WireInv'
  BY <1>1, AgentSame DEF ViewTypeOK
<1>3. CASE Leave
  <2>1. /\ view' = "none" /\ at' = None /\ ~listening' /\ listening' \in BOOLEAN /\ filter' = ""
        /\ shown' = Hidden /\ bar' = NoBar /\ timers' = {} /\ removing' = {} /\ ~behind' /\ behind' \in BOOLEAN
        /\ req' = [r \in Requests |-> Free]
    BY <1>3 DEF Leave
  <2>2. lines' = <<>> /\ lines' \in Seq(Line)
    <3>1. <<>> \in Seq(Line)
      OBVIOUS
    <3> QED
      BY <1>3, <3>1 DEF Leave
  <2>3. shown' \in Shapes /\ req' \in [Requests -> {Free} \cup Load] /\ view' \in DOMAIN Parts
        /\ bar' \in [Jobs -> {"none", "work", "done"}]
    BY <2>1 DEF Shapes, Hidden, NoBar, Parts
  <2>4. ViewTypeOK'
    BY <1>2, <2>1, <2>2, <2>3, ViewAssumption DEF ViewTypeOK, Load, Shapes
  <2>5. BarInv' /\ DetailInv'
    BY <2>1 DEF BarInv, NoBar, DetailInv
  <2> QED
    BY <1>2, <2>4, <2>5 DEF ViewInv
<1>4. CASE Listen
  <2>1. /\ UNCHANGED <<view, at, filter, shown, bar, lines, timers, req, removing, behind>>
        /\ view # "none" /\ listening' /\ listening' \in BOOLEAN
    BY <1>4 DEF Listen
  <2>2. ViewTypeOK'
    BY <1>1, <1>2, <2>1 DEF ViewTypeOK
  <2>3. BarInv'
    BY <1>1, <2>1 DEF ViewInv, BarInv, Succeeded, agentVars, jobVars, streamVars
  <2>4. DetailInv'
    BY <1>1, <2>1 DEF ViewInv, DetailInv, ToCome, ToldLater, agentVars, jobVars, streamVars
  <2> QED
    BY <1>2, <2>2, <2>3, <2>4 DEF ViewInv
<1> QED
  BY <1>3, <1>4

\* The handlers of a cancel and of a delete begin by reading; the answer to a
\* delete takes a card off the jobs page.
LEMMA CommandKeeps ==
    ASSUME ViewInv, NEW j \in Jobs,
           CancelFromCard(j) \/ CancelFromDetail \/ DeleteFromCard(j) \/ DeleteAnswered(j)
    PROVE  ViewInv'
<1>1. ViewTypeOK /\ OwedInv /\ WireInv /\ StreamTypeOK
  BY DEF ViewInv, ViewTypeOK
<1>2. CASE CancelFromCard(j) \/ CancelFromDetail
  <2>1. PICK k \in Jobs : ReadForCancel(k)
    BY <1>1, <1>2 DEF CancelFromCard, CancelFromDetail, ViewTypeOK
  <2>2. /\ UNCHANGED <<row, begun, restores, told, owed, closing, deleting, ring, logged, wire, up, missed>>
        /\ cancelling' = cancelling \cup {<<k, "write">>}
    BY <2>1 DEF ReadForCancel, logVars, streamVars
  <2>3. UNCHANGED viewVars
    BY <1>2 DEF CancelFromCard, CancelFromDetail
  <2>4. cancelling' \subseteq Jobs \X {"write", "announce"} /\ cancelling \subseteq cancelling'
    BY <1>1, <2>2 DEF StreamTypeOK
  <2>5. StreamTypeOK' /\ OwedInv' /\ WireInv'
    BY <1>1, <2>2, <2>4, NothingSent DEF StreamTypeOK, OwedInv
  <2>6. ViewTypeOK'
    BY <1>1, <2>3, <2>5 DEF ViewTypeOK, viewVars
  <2>7. BarInv'
    BY <2>2, <2>3 DEF ViewInv, BarInv, Succeeded, viewVars
  <2>8. ToCome => ToCome'
    BY <2>2, <2>3, <2>4 DEF ToCome, ToldLater, viewVars
  <2>9. DetailInv'
    BY <2>2, <2>3, <2>8 DEF ViewInv, DetailInv, viewVars
  <2> QED
    BY <2>5, <2>6, <2>7, <2>9 DEF ViewInv
<1>3. CASE DeleteFromCard(j)
  <2>1. /\ UNCHANGED <<row, begun, restores, told, owed, closing, cancelling, ring, logged, wire, up, missed>>
        /\ deleting' = deleting \cup {j} /\ removing' = removing \cup {j} /\ view = "jobs"
        /\ UNCHANGED <<view, at, listening, filter, shown, bar, lines, timers, req, behind>>
    BY <1>3 DEF DeleteFromCard, ReadForDelete, logVars, streamVars
  <2>2. StreamTypeOK' /\ OwedInv' /\ WireInv'
    BY <1>1, <2>1, NothingSent DEF StreamTypeOK, OwedInv
  <2>3. ViewTypeOK'
    BY <1>1, <2>1, <2>2 DEF ViewTypeOK
  <2>4. BarInv' /\ DetailInv'
    BY <2>1 DEF ViewInv, BarInv, Succeeded, DetailInv
  <2> QED
    BY <2>2, <2>3, <2>4 DEF ViewInv
<1>4. CASE DeleteAnswered(j)
  <2>1. /\ UNCHANGED agentVars /\ removing' = removing \ {j} /\ view = "jobs"
        /\ shown' \in {shown, [shown EXCEPT ![j] = "hidden"]}
        /\ UNCHANGED <<view, at, listening, filter, bar, lines, timers, req, behind>>
    BY <1>1, <1>4 DEF DeleteAnswered, ViewTypeOK
  <2>2. StreamTypeOK' /\ OwedInv' /\ WireInv' /\ BarInv'
    BY <2>1, ViewOnly
  <2>3. shown' \in Shapes
    BY <1>1, <2>1 DEF ViewTypeOK, Shapes
  <2>4. ViewTypeOK'
    BY <1>1, <2>1, <2>2, <2>3 DEF ViewTypeOK, Shapes
  <2>5. DetailInv'
    BY <2>1 DEF DetailInv
  <2> QED
    BY <2>2, <2>4, <2>5 DEF ViewInv
<1> QED
  BY <1>2, <1>3, <1>4

\* What an event that is handled does to the view.
LEMMA Handled ==
    ASSUME ViewInv, NEW e \in Event, Concerns(e), OnStatus(e) \/ OnProgress(e) \/ OnLog(e)
    PROVE  /\ shown' \in Shapes /\ bar' \in Bars /\ timers' \subseteq Filters /\ lines' \in Seq(Line)
           /\ \A j \in Jobs : \/ bar'[j] = bar[j] /\ (bar[j] # "none" => ~Ends(e, j))
                              \/ bar'[j] = "none"
                              \/ bar'[j] = "work" /\ Works(e, j)
                              \/ bar'[j] = "done" /\ AllDone(e) /\ e.job = j
           /\ view = "detail" => \/ Works(e, at) \/ timers' # {}
                                 \/ ~Ends(e, at) /\ shown' = shown /\ timers' = timers
<1> USE DEF Ends, Works, AllDone
<1>1. /\ shown \in Shapes /\ bar \in Bars /\ timers \subseteq Filters /\ lines \in Seq(Line)
      /\ filter \in Filters
  BY DEF ViewInv, ViewTypeOK, Shapes, Bars
<1>2. CASE OnStatus(e)
  <2>1. e.kind = "status" /\ e.job \in Jobs /\ e.status \in Active \cup Final
    BY <1>2 DEF OnStatus, Event
  <2>2. /\ shown' = [shown EXCEPT ![e.job] = IF @ = "hidden" \/ view = "log" THEN @ ELSE e.status]
        /\ bar' = [bar EXCEPT ![e.job] = IF e.status \in Final THEN "none" ELSE @]
        /\ lines' = lines
        /\ timers' = IF e.status \in Final /\ view # "log" THEN timers \cup {filter} ELSE timers
    BY <1>2 DEF OnStatus
  <2>3. shown' \in Shapes
    BY <1>1, <2>1, <2>2 DEF Shapes
  <2>4. bar' \in Bars
    BY <1>1, <2>2 DEF Bars
  <2>5. \A j \in Jobs : \/ bar'[j] = bar[j] /\ (bar[j] # "none" => ~Ends(e, j))
                        \/ bar'[j] = "none"
    BY <1>1, <2>1, <2>2 DEF Bars
  <2>6. view = "detail" => Works(e, at) \/ timers' # {}
    BY <2>1, <2>2 DEF Concerns
  <2> QED
    BY <1>1, <2>2, <2>3, <2>4, <2>5, <2>6
<1>3. CASE OnProgress(e)
  <2>1. e.kind = "progress" /\ e.job \in Jobs /\ e.phase \in {"work", "done"}
    BY <1>3 DEF OnProgress, Event
  <2>2. bar' = [bar EXCEPT ![e.job] = e.phase] /\ UNCHANGED <<shown, timers, lines>>
    BY <1>3 DEF OnProgress
  <2>3. bar' \in Bars
    BY <1>1, <2>1, <2>2 DEF Bars
  <2>4. \A j \in Jobs : \/ bar'[j] = bar[j] /\ (bar[j] # "none" => ~Ends(e, j))
                        \/ bar'[j] = "work" /\ Works(e, j)
                        \/ bar'[j] = "done" /\ AllDone(e) /\ e.job = j
    BY <1>1, <2>1, <2>2 DEF Bars
  <2> QED
    BY <1>1, <2>1, <2>2, <2>3, <2>4
<1>4. CASE OnLog(e)
  <2>1. e.kind = "log" /\ e.line \in Line
    BY <1>4 DEF OnLog, Event
  <2>2. Append(lines, e.line) \in Seq(Line)
    BY <1>1, <2>1
  <2> QED
    BY <1>1, <1>4, <2>1, <2>2 DEF OnLog
<1> QED
  BY <1>2, <1>3, <1>4

LEMMA DeliverKeeps ==
    ASSUME ViewInv, Deliver
    PROVE  ViewInv'
<1> DEFINE e == Head(wire)
<1>1. ViewTypeOK /\ StreamTypeOK /\ OwedInv /\ WireInv /\ BarInv
  BY DEF ViewInv, ViewTypeOK
<1>2. /\ wire \in Seq(Event) /\ wire # <<>> /\ wire' = Tail(wire)
      /\ UNCHANGED <<row, begun, restores, told, owed, closing, cancelling, deleting, ring, logged, up>>
      /\ UNCHANGED <<view, at, listening, filter, req, removing, behind>>
  BY <1>1 DEF Deliver, jobVars, logVars, StreamTypeOK
<1>3. /\ e \in Event /\ wire' \in Seq(Event) /\ Len(wire) \in Nat /\ Len(wire') = Len(wire) - 1
  BY <1>2, TailOfWire
<1>4. \/ /\ listening /\ Concerns(e) /\ missed' = missed
         /\ OnStatus(e) \/ OnProgress(e) \/ OnLog(e)
      \/ /\ ~(listening /\ Concerns(e))
         /\ missed' = (missed \/ (view # "none" /\ ~listening))
         /\ UNCHANGED <<shown, bar, timers, lines>>
  BY DEF Deliver
<1> HIDE DEF e
<1>5. missed' \in BOOLEAN /\ (~missed' => ~missed)
  BY <1>1, <1>4 DEF StreamTypeOK
<1>6. StreamTypeOK'
  <2>1. Len(wire') <= Capacity
    BY <1>1, <1>3, StreamAssumption DEF StreamTypeOK
  <2> QED
    BY <1>1, <1>2, <1>3, <1>5, <2>1 DEF StreamTypeOK
<1>7. OwedInv' /\ WireInv'
  <2>1. \A j \in Jobs : told'[j] \in Outcomes => OutcomeIsLast(wire', j)
    BY <1>1, <1>2, TailKeepsLast DEF WireInv
  <2>2. \A i \in DOMAIN wire' : \E k \in DOMAIN wire : wire'[i] = wire[k]
    <3> SUFFICES ASSUME NEW i \in DOMAIN wire' PROVE \E k \in DOMAIN wire : wire'[i] = wire[k]
      OBVIOUS
    <3>1. i + 1 \in DOMAIN wire /\ wire'[i] = wire[i + 1]
      BY <1>2, TailOfWire
    <3> QED
      BY <3>1
  <2>3. \A i \in DOMAIN wire' : AllDone(wire'[i]) => told'[wire'[i].job] \in {"completed", "lost"}
    BY <1>1, <1>2, <2>2 DEF WireInv, Succeeded
  <2> QED
    BY <1>1, <1>2, <2>1, <2>3 DEF OwedInv, WireInv, Succeeded
<1>8. \A j \in Jobs : OutcomeSent(wire, j) /\ ~Ends(e, j) => OutcomeSent(wire', j)
  BY <1>2, TailKeepsSent DEF e
<1>9. \A j \in Jobs : told[j] \in Outcomes /\ Works(e, j) => OutcomeSent(wire', j)
  BY <1>1, <1>2, TailKeepsSent DEF e, WireInv
<1>12. AllDone(e) => Succeeded(e.job)
  BY <1>1, <1>2, TailOfWire DEF e, WireInv
<1>10. CASE listening /\ Concerns(e) /\ missed' = missed /\ (OnStatus(e) \/ OnProgress(e) \/ OnLog(e))
  <2>1. /\ shown' \in Shapes /\ bar' \in Bars /\ timers' \subseteq Filters /\ lines' \in Seq(Line)
        /\ \A j \in Jobs : \/ bar'[j] = bar[j] /\ (bar[j] # "none" => ~Ends(e, j))
                           \/ bar'[j] = "none"
                           \/ bar'[j] = "work" /\ Works(e, j)
                           \/ bar'[j] = "done" /\ AllDone(e) /\ e.job = j
        /\ view = "detail" => \/ Works(e, at) \/ timers' # {}
                              \/ ~Ends(e, at) /\ shown' = shown /\ timers' = timers
    BY <1>3, <1>10, Handled
  <2>2. view # "none"
    BY <1>1, <1>10 DEF ViewTypeOK
  <2>3. ViewTypeOK'
    BY <1>1, <1>2, <1>6, <2>1, <2>2 DEF ViewTypeOK, Shapes, Bars
  <2>4. BarInv'
    <3> SUFFICES ASSUME NEW j \in Jobs
                 PROVE  /\ bar'[j] # "none" => listening /\ (view = "jobs" \/ j = at)
                        /\ bar'[j] = "work" /\ told[j] \in Outcomes /\ ~missed => OutcomeSent(wire', j)
                        /\ bar'[j] = "done" => Succeeded(j)
      BY <1>2, <1>10 DEF BarInv, Succeeded
    <3>1. CASE bar'[j] = bar[j] /\ (bar[j] # "none" => ~Ends(e, j))
      BY <1>1, <1>8, <3>1 DEF BarInv
    <3>2. CASE bar'[j] = "none"
      BY <3>2
    <3>3. CASE bar'[j] = "work" /\ Works(e, j)
      BY <1>9, <1>10, <3>3 DEF Works, Concerns
    <3>4. CASE bar'[j] = "done" /\ AllDone(e) /\ e.job = j
      BY <1>10, <1>12, <3>4 DEF Concerns
    <3> QED
      BY <2>1, <3>1, <3>2, <3>3, <3>4
  <2>5. DetailInv'
    <3> SUFFICES ASSUME view = "detail", told[at] \in Outcomes, ~missed
                 PROVE  \/ ToCome' \/ behind
                        \/ row[at] = "absent" \/ shown'[at] = "hidden"
                        \/ at \notin owed /\ shown'[at] = row[at]
      BY <1>2, <1>10 DEF DetailInv
    <3>1. at \in Jobs
      BY <1>1 DEF ViewTypeOK
    <3>2. CASE Works(e, at) \/ timers' # {}
      BY <1>2, <1>9, <2>1, <3>1, <3>2 DEF ToCome, ToldLater
    <3>3. CASE ~Ends(e, at) /\ shown' = shown /\ timers' = timers
      <4>1. ToCome => ToCome'
        BY <1>2, <1>8, <3>1, <3>3 DEF ToCome, ToldLater
      <4> QED
        BY <3>3, <4>1 DEF ViewInv, DetailInv
    <3> QED
      BY <2>1, <3>2, <3>3
  <2> QED
    BY <1>7, <2>3, <2>4, <2>5 DEF ViewInv
<1>11. CASE /\ ~(listening /\ Concerns(e))
            /\ missed' = (missed \/ (view # "none" /\ ~listening))
            /\ UNCHANGED <<shown, bar, timers, lines>>
  <2>1. ViewTypeOK'
    BY <1>1, <1>2, <1>6, <1>11 DEF ViewTypeOK
  <2>2. BarInv'
    <3> SUFFICES ASSUME NEW j \in Jobs
                 PROVE  /\ bar[j] # "none" => listening /\ (view = "jobs" \/ j = at)
                        /\ bar[j] = "work" /\ told[j] \in Outcomes /\ ~missed' => OutcomeSent(wire', j)
                        /\ bar[j] = "done" => Succeeded(j)
      BY <1>2, <1>11 DEF BarInv, Succeeded
    <3>1. bar[j] # "none" => listening /\ (view = "jobs" \/ j = at) /\ ~Ends(e, j)
      BY <1>1, <1>11 DEF BarInv, Ends, Concerns
    <3> QED
      BY <1>1, <1>5, <1>8, <3>1 DEF BarInv
  <2>3. DetailInv'
    <3> SUFFICES ASSUME view = "detail", told[at] \in Outcomes, ~missed'
                 PROVE  \/ ToCome' \/ behind
                        \/ row[at] = "absent" \/ shown[at] = "hidden"
                        \/ at \notin owed /\ shown[at] = row[at]
      BY <1>2, <1>11 DEF DetailInv
    <3>1. at \in Jobs /\ ~Ends(e, at)
      BY <1>1, <1>11 DEF ViewTypeOK, Ends, Concerns
    <3>2. ToCome => ToCome'
      BY <1>2, <1>8, <1>11, <3>1 DEF ToCome, ToldLater
    <3> QED
      BY <1>5, <3>2 DEF ViewInv, DetailInv
  <2> QED
    BY <1>7, <2>1, <2>2, <2>3 DEF ViewInv
<1> QED
  BY <1>4, <1>10, <1>11

LEMMA ViewStep == ViewInv /\ [ViewNext]_allVars => ViewInv'
<1> SUFFICES ASSUME ViewInv, [ViewNext]_allVars PROVE ViewInv'
  OBVIOUS
<1>1. CASE UNCHANGED allVars
  <2>1. UNCHANGED agentVars /\ UNCHANGED viewVars
    BY <1>1 DEF allVars
  <2>2. UNCHANGED <<agentVars, view, at, listening, bar>>
    BY <2>1 DEF viewVars
  <2>3. StreamTypeOK' /\ OwedInv' /\ WireInv' /\ BarInv'
    BY <2>2, ViewOnly
  <2>4. ViewTypeOK'
    BY <2>1, <2>3 DEF ViewInv, ViewTypeOK, viewVars
  <2>5. DetailInv'
    BY <2>1 DEF ViewInv, DetailInv, ToCome, ToldLater, viewVars, agentVars, jobVars, streamVars
  <2> QED
    BY <2>3, <2>4, <2>5 DEF ViewInv
<1>2. CASE ViewNext
  <2>1. CASE AgentStep /\ UNCHANGED viewVars
    BY <2>1, AgentKeeps
  <2>2. CASE Open("jobs", None) \/ \E j \in Jobs : Open("detail", j) \/ Open("log", j)
    BY <2>2, OpenKeeps
  <2>3. CASE (\E j \in Jobs : CancelFromCard(j) \/ DeleteFromCard(j) \/ DeleteAnswered(j))
    BY <2>3, CommandKeeps
  <2>4. CASE CancelFromDetail
    <3>1. at \in Jobs
      BY <2>4 DEF CancelFromDetail, ViewInv, ViewTypeOK
    <3> QED
      BY <2>4, <3>1, CommandKeeps
  <2>5. CASE Leave \/ Listen
    BY <2>5, LeaveKeeps
  <2>6. CASE Poll \/ \E f \in Filters : SetFilter(f) \/ TimerFires(f)
    BY <2>6, AskKeeps, ViewAssumption
  <2>7. CASE Deliver
    BY <2>7, DeliverKeeps
  <2>8. CASE \E r \in Requests : ReadRows(r) \/ ReadLog(r) \/ Apply(r) \/ LoadFails(r)
    BY <2>8, ReadKeeps, LoadEndKeeps
  <2> QED
    BY <1>2, <2>1, <2>2, <2>3, <2>4, <2>5, <2>6, <2>7, <2>8 DEF ViewNext
<1> QED
  BY <1>1, <1>2

-----------------------------------------------------------------------------
(* Theorems                                                                *)

\* Every variable keeps its type, the wire tells a job's outcome last, progress
\* is shown by views that listen, and the detail page of a job that has ended
\* agrees with the row or has something to come: the invariant the others
\* follow from.
THEOREM ViewInvariant == ViewSpec => []ViewInv
BY ViewInitial, ViewStep, PTL DEF ViewSpec

\* Every variable keeps its type, and a view that is left takes its timers,
\* requests and progress along, whatever the agent and the user do.
THEOREM ViewTypeOKAlways == ViewSpec => []ViewTypeOK
<1>1. ViewInv => ViewTypeOK
  BY DEF ViewInv
<1> QED
  BY <1>1, ViewInvariant, PTL

\* A progress bar is left over only if an event got lost: whoever listens
\* since before a job's progress has its outcome still to handle.
THEOREM BarEndsWithJobAlways == ViewSpec => []BarEndsWithJob
<1>1. ViewInv => BarEndsWithJob
  BY DEF ViewInv, BarInv, BarEndsWithJob, OutcomeSent, Succeeded
<1> QED
  BY <1>1, ViewInvariant, PTL

\* The detail page of a job that has ended shows its row once everything is
\* handled and answered, unless it missed an event or was answered too early.
THEOREM DetailAgreesAlways == ViewSpec => []DetailAgrees
<1>1. ViewInv => DetailAgrees
  BY DEF ViewInv, DetailInv, ToCome, ToldLater, DetailAgrees, Settled, OutcomeSent
<1> QED
  BY <1>1, ViewInvariant, PTL
=============================================================================
