--------------------------- MODULE ProtectionProofs ---------------------------
(***************************************************************************)
(* Theorems about Protection for every set of assets, policies and jobs    *)
(* and any number of handlers at once.                                     *)
(***************************************************************************)
EXTENDS Protection, TLAPS

-----------------------------------------------------------------------------
(* The inductive invariant                                                 *)

\* What a handler names is what its operation needs; a removal that is past
\* the first look names no seeded policy.
Named(h) ==
    /\ h.op = "remove" <=> h.asset = None
    /\ h.op \in Binds \cup {"remove"} => h.policy \in Policies
    /\ h.op = "remove" /\ h.step \in {"policy", "unused"} => h.policy \notin Builtin

\* A handler about to switch protection on has seen a policy on the asset,
\* and since then it has one.
WillProtect(h) ==
    /\ \/ h.op = "activate" /\ h.step = "bound"
       \/ h.op = "update" /\ h.step = "read" /\ h.flag
    /\ h.asset \in assets
    => sla[h.asset] \in policies

\* Unless it was overtaken, an update knows whether its asset is enabled,
\* and a backup knows that its asset is protected.
KnowsSwitch(h) ==
    ~h.raced /\ h.asset \in assets =>
        /\ h.op = "update" /\ h.step = "read" => (h.flag <=> h.asset \in on)
        /\ h.op = "backup" /\ h.step = "active" => Active(h.asset)

\* Unless it was overtaken, or a restore into another asset holds a copy, a
\* delete has no job left, and no copy but those that it has listed and not
\* come to yet.
HasCleared(h) ==
    h.op = "delete" /\ ~h.raced /\ ~h.held =>
        /\ h.step # "refused"
        /\ h.step \in {"jobs", "listed"} => RowsOf(h.asset) = {}
        /\ h.step = "listed" => CopiesOf(h.asset) \subseteq h.left

\* What reads a copy has been started, for some asset.
RestoresStarted == \A j \in Jobs : uses[j] # None => owner[j] # None

Unbound == \A a \in Assets \ assets : sla[a] = None

Sound(h) == Named(h) /\ WillProtect(h) /\ KnowsSwitch(h) /\ HasCleared(h)

RecordsInv == NothingDangles /\ ProtectedHasPolicy /\ RestoresStarted /\ Unbound
HandlersInv == \A c \in Calls : call[c] # Idle => Sound(call[c])

ProtectionInv == ProtectionTypeOK /\ RecordsInv /\ HandlersInv

-----------------------------------------------------------------------------
(* What a step does to the handlers in flight                              *)

\* A handler at one of its steps is not idle.
LEMMA AtBusy ==
    ASSUME ProtectionTypeOK, NEW c \in Calls, call[c].step # "idle"
    PROVE  call[c] \in Handlers
BY DEF ProtectionTypeOK, Idle

\* Moving on to another step keeps the handler's type.
LEMMA ToTypes ==
    ASSUME ProtectionTypeOK, NEW c \in Calls, call[c].step # "idle", NEW s \in Steps \cup Answers
    PROVE  [call EXCEPT ![c].step = s] \in [Calls -> {Idle} \cup Handlers]
<1>1. call[c] \in Handlers
  BY AtBusy
<1>2. [call[c] EXCEPT !.step = s] \in Handlers
  BY <1>1 DEF Handlers
<1> QED
  BY <1>2 DEF ProtectionTypeOK

\* A race is noted in the handlers it concerns, and changes nothing else.
LEMMA RaceTypes ==
    ASSUME ProtectionTypeOK, NEW ops, NEW a
    PROVE  Race(ops, a) \in [Calls -> {Idle} \cup Handlers]
<1>1. ASSUME NEW c \in Calls, Midway(c)
      PROVE  [call[c] EXCEPT !.raced = TRUE] \in Handlers
  <2>1. call[c] \in Handlers
    BY <1>1, AtBusy DEF Midway
  <2> QED
    BY <2>1 DEF Handlers
<1> QED
  BY <1>1 DEF Race, ProtectionTypeOK

\* A handler that takes its last step while it overtakes others.
LEMMA RaceToTypes ==
    ASSUME ProtectionTypeOK, NEW ops, NEW a, NEW c \in Calls, call[c].step # "idle",
           NEW s \in Steps \cup Answers
    PROVE  [Race(ops, a) EXCEPT ![c].step = s] \in [Calls -> {Idle} \cup Handlers]
<1>1. Race(ops, a) \in [Calls -> {Idle} \cup Handlers]
  BY RaceTypes
<1>2. call[c] \in Handlers
  BY AtBusy
<1>3. Race(ops, a)[c] \in Handlers
  BY <1>2 DEF Race, Handlers
<1>4. [Race(ops, a)[c] EXCEPT !.step = s] \in Handlers
  BY <1>3 DEF Handlers
<1> QED
  BY <1>1, <1>4

-----------------------------------------------------------------------------
(* Type correctness                                                        *)

LEMMA InitTypes == ProtectionInit => ProtectionTypeOK
BY ProtectionAssumption DEF ProtectionInit, ProtectionTypeOK, Idle

\* A request is a handler at its start.
LEMMA RequestTypes ==
    ASSUME ProtectionTypeOK, NEW c \in Calls, Request(c)
    PROVE  ProtectionTypeOK'
<1>1. ASSUME NEW op \in Ops \cup {"remove"}, NEW a \in Assets \cup {None},
             NEW p \in Policies \cup {None}, Arrive(c, op, a, p), UNCHANGED recordVars
      PROVE  ProtectionTypeOK'
  <2>1. [op |-> op, step |-> "start", asset |-> a, policy |-> p,
         flag |-> FALSE, left |-> {}, raced |-> FALSE, held |-> FALSE] \in Handlers
    BY DEF Handlers, Steps
  <2>2. call' \in [Calls -> {Idle} \cup Handlers]
    BY <1>1, <2>1 DEF Arrive, ProtectionTypeOK
  <2> QED
    BY <1>1, <2>2 DEF ProtectionTypeOK, recordVars, assetVars, jobVars
<1> QED
  BY <1>1, ProtectionAssumption DEF Request, Ops

\* A step of a handler keeps every variable in its type.
LEMMA HandlerTypes ==
    ASSUME ProtectionTypeOK, NEW c \in Calls, HandlerStep(c), Named(call[c])
    PROVE  ProtectionTypeOK'
<1> USE DEF recordVars, assetVars, jobVars, At
<1> DEFINE Typed == call' \in [Calls -> {Idle} \cup Handlers]
<1>0. \A st \in Steps \cup Answers : st # "idle"
  BY DEF Steps, Answers
<1>1. ASSUME NEW s \in Steps \cup Answers, To(c, s), call[c].step # "idle"
      PROVE  Typed
  BY <1>1, ToTypes DEF To
<1>3. ASSUME NEW found, NEW next \in Steps, Find(c, found, next), call[c].step # "idle"
      PROVE  ProtectionTypeOK'
  <2>1. (IF found THEN next ELSE "refused") \in Steps \cup Answers
    BY DEF Answers
  <2>2. Typed
    BY <1>1, <1>3, <2>1 DEF Find
  <2> QED
    BY <1>3, <2>2 DEF Find, ProtectionTypeOK
<1>2. "ok" \in Steps \cup Answers /\ "refused" \in Steps \cup Answers
  BY DEF Answers
<1>4. ASSUME NEW op \in Binds, BindFindAsset(c, op) \/ BindFindPolicy(c, op)
      PROVE  ProtectionTypeOK'
  <2>1. CASE BindFindAsset(c, op)
    <3>1. Find(c, Asset(c) \in assets, "asset") /\ "asset" \in Steps /\ call[c].step # "idle"
      BY <2>1 DEF BindFindAsset, Steps
    <3> QED
      BY <1>3, <3>1
  <2>2. CASE BindFindPolicy(c, op)
    <3>1. Find(c, Policy(c) \in policies, "policy") /\ "policy" \in Steps /\ call[c].step # "idle"
      BY <2>2 DEF BindFindPolicy, Steps
    <3> QED
      BY <1>3, <3>1
  <2> QED
    BY <1>4, <2>1, <2>2
<1>5. ASSUME NEW op \in Binds, Bind(c, op)
      PROVE  ProtectionTypeOK'
  <2>1. Typed
    BY <1>1, <1>2, <1>5 DEF Bind, End, Steps
  <2>2. call[c] \in Handlers
    BY <1>5, AtBusy DEF Bind
  <2>3. Policy(c) \in Policies \cup {None}
    BY <2>2 DEF Handlers, Policy
  <2>4. sla' \in [Assets -> Policies \cup {None}]
    BY <1>5, <2>3 DEF Bind, ProtectionTypeOK
  <2> QED
    BY <1>5, <2>1, <2>4 DEF Bind, ProtectionTypeOK
<1>6. ASSUME Toggle(c), call[c].step # "idle"
      PROVE  Typed
  BY <1>6, RaceToTypes DEF Toggle, Answers
<1>7. CASE Enable(c) \/ Disable(c) \/ WriteAsset(c)
  <2>1. Typed
    BY <1>6, <1>7 DEF Enable, Disable, WriteAsset
  <2> QED
    BY <1>7, <2>1 DEF Enable, Disable, WriteAsset, ProtectionTypeOK
<1>8. CASE DeactivateFind(c) \/ FindPolicy(c) \/ FindReferences(c) \/ FindProtected(c)
  BY <1>3, <1>8 DEF DeactivateFind, FindPolicy, FindReferences, FindProtected, Steps, Active
<1>9. CASE ReadEnabled(c)
  <2>1. call[c] \in Handlers
    BY <1>9, AtBusy DEF ReadEnabled
  <2>2. ASSUME NEW s \in Steps \cup Answers, NEW f \in BOOLEAN
        PROVE  [call[c] EXCEPT !.step = s, !.flag = f] \in Handlers
    BY <2>1 DEF Handlers
  <2>3. PICK s \in Steps \cup Answers, f \in BOOLEAN :
            call' = [call EXCEPT ![c].step = s, ![c].flag = f]
    <3>1. (IF Asset(c) \in assets THEN "read" ELSE "refused") \in Steps \cup Answers
      BY DEF Steps, Answers
    <3>2. (Asset(c) \in on) \in BOOLEAN
      OBVIOUS
    <3> QED
      BY <1>9, <3>1, <3>2 DEF ReadEnabled
  <2>4. Typed
    BY <2>2, <2>3 DEF ProtectionTypeOK
  <2> QED
    BY <1>9, <2>4 DEF ReadEnabled, ProtectionTypeOK
<1>10. CASE DropJobs(c)
  <2>1. Typed
    BY <1>1, <1>10 DEF DropJobs, Steps
  <2> QED
    BY <1>10, <2>1 DEF DropJobs, ProtectionTypeOK
<1>11. CASE ListCopies(c)
  <2>1. call[c] \in Handlers
    BY <1>11, AtBusy DEF ListCopies
  <2>2. ASSUME NEW l \in SUBSET Jobs
        PROVE  [call[c] EXCEPT !.step = "listed", !.left = l] \in Handlers
    BY <2>1 DEF Handlers, Steps
  <2>3. CopiesOf(Asset(c)) \in SUBSET Jobs
    BY DEF CopiesOf, ProtectionTypeOK
  <2>4. Typed
    <3>1. CASE call' = [call EXCEPT ![c].step = "listed", ![c].left = CopiesOf(Asset(c))]
      BY <2>2, <2>3, <3>1 DEF ProtectionTypeOK
    <3>2. CASE To(c, "listed")
      BY <1>1, <1>11, <3>2 DEF ListCopies, Steps
    <3> QED
      BY <1>11, <3>1, <3>2 DEF ListCopies
  <2> QED
    BY <1>11, <2>4 DEF ListCopies, ProtectionTypeOK
<1>12. CASE DropAsset(c)
  <2>1. Typed
    BY <1>1, <1>2, <1>12 DEF End, DropAsset, CanDropAsset
  <2> QED
    BY <1>12, <2>1 DEF DropAsset, ProtectionTypeOK
<1>13. CASE DropPolicy(c)
  <2>1. Typed
    BY <1>1, <1>2, <1>13 DEF End, DropPolicy
  <2>2. Policy(c) \notin Builtin
    BY <1>13 DEF DropPolicy, Named, Policy
  <2> QED
    BY <1>13, <2>1, <2>2 DEF DropPolicy, ProtectionTypeOK
<1>14. CASE SubmitFails(c)
  <2>1. Typed
    BY <1>1, <1>2, <1>14 DEF End, SubmitFails
  <2> QED
    BY <1>14, <2>1 DEF SubmitFails, ProtectionTypeOK
<1>15. ASSUME NEW k \in Jobs, DropCopy(c, k)
       PROVE  ProtectionTypeOK'
  <2>1. call[c] \in Handlers
    BY <1>15, AtBusy DEF DropCopy
  <2>2. \A b \in BOOLEAN : [call[c] EXCEPT !.left = @ \ {k}, !.held = @ \/ b] \in Handlers
    BY <2>1 DEF Handlers
  <2>3. Typed
    BY <1>15, <2>2 DEF DropCopy, ProtectionTypeOK
  <2> QED
    BY <1>15, <2>3 DEF DropCopy, ProtectionTypeOK
<1>16. ASSUME NEW k \in Jobs, SubmitJob(c, k)
       PROVE  ProtectionTypeOK'
  <2>1. Typed
    <3>1. CASE call' = [AddRows(Asset(c)) EXCEPT ![c].step = "ok"]
      BY <1>2, <1>16, <3>1, RaceToTypes DEF SubmitJob, AddRows
    <3>2. CASE End(c, FALSE)
      BY <1>1, <1>2, <1>16, <3>2 DEF End, SubmitJob
    <3> QED
      BY <1>16, <3>1, <3>2 DEF SubmitJob
  <2> QED
    BY <1>16, <2>1 DEF SubmitJob, ProtectionTypeOK
<1> QED
  BY <1>4, <1>5, <1>7, <1>8, <1>9, <1>10, <1>11, <1>12, <1>13, <1>14, <1>15, <1>16
     DEF HandlerStep

\* A step of anyone keeps every variable in its type.
LEMMA NextTypes ==
    ASSUME ProtectionTypeOK, HandlersInv, [ProtectionNext]_<<recordVars, call>>
    PROVE  ProtectionTypeOK'
<1> USE DEF recordVars, assetVars, jobVars
<1>1. ASSUME NEW c \in Calls, Request(c) \/ HandlerStep(c) \/ Answer(c)
      PROVE  ProtectionTypeOK'
  <2>1. CASE HandlerStep(c)
    <3>1. call[c].step # "idle"
      BY <2>1 DEF HandlerStep, At, BindFindAsset, BindFindPolicy, Bind, Enable,
         DeactivateFind, Disable, ReadEnabled, WriteAsset, DropJobs, ListCopies, DropAsset,
         FindPolicy, FindReferences, DropPolicy, FindProtected, SubmitFails, DropCopy, SubmitJob
    <3> QED
      BY <2>1, <3>1, HandlerTypes DEF HandlersInv, Sound, Idle
  <2>2. CASE Answer(c)
    BY <2>2 DEF Answer, ProtectionTypeOK
  <2> QED
    BY <1>1, <2>1, <2>2, RequestTypes
<1>2. ASSUME NEW a \in Assets, CreateAsset(a)
      PROVE  ProtectionTypeOK'
  BY <1>2 DEF CreateAsset, ProtectionTypeOK
<1>3. ASSUME NEW p \in Policies, CreatePolicy(p)
      PROVE  ProtectionTypeOK'
  BY <1>3 DEF CreatePolicy, ProtectionTypeOK
<1>4. ASSUME NEW j \in Jobs, EndJob(j)
      PROVE  ProtectionTypeOK'
  <2>1. call' \in [Calls -> {Idle} \cup Handlers]
    BY <1>4, RaceTypes DEF EndJob, AddRows, ProtectionTypeOK
  <2> QED
    BY <1>4, <2>1 DEF EndJob, ProtectionTypeOK
<1>5. ASSUME NEW j \in Jobs, DeleteJob(j) \/ DeleteCopy(j)
      PROVE  ProtectionTypeOK'
  BY <1>5 DEF DeleteJob, DeleteCopy, ProtectionTypeOK
<1>6. ASSUME NEW j \in Jobs, NEW a \in Assets, NEW k \in Jobs, SubmitRestore(j, a, k)
      PROVE  ProtectionTypeOK'
  <2>1. call' \in [Calls -> {Idle} \cup Handlers]
    BY <1>6, RaceTypes DEF SubmitRestore, AddRows
  <2> QED
    BY <1>6, <2>1 DEF SubmitRestore, ProtectionTypeOK
<1>7. CASE UNCHANGED <<recordVars, call>>
  BY <1>7 DEF ProtectionTypeOK
<1> QED
  BY <1>1, <1>2, <1>3, <1>4, <1>5, <1>6, <1>7 DEF ProtectionNext

-----------------------------------------------------------------------------
(* The records                                                             *)

\* At first there are no records but the seeded policies.
LEMMA InitRecords == ProtectionInit => RecordsInv /\ HandlersInv
BY DEF ProtectionInit, RecordsInv, HandlersInv, NothingDangles, ProtectedHasPolicy,
   RestoresStarted, Unbound

\* A handler that is not idle and one whose step is named are the same.
LEMMA BusySound ==
    ASSUME HandlersInv, NEW c \in Calls, call[c].step # "idle"
    PROVE  Sound(call[c])
BY DEF HandlersInv, Idle

\* No step leaves a dangling row, or a protected asset without its policy.
LEMMA NextRecords ==
    ASSUME ProtectionTypeOK, RecordsInv, HandlersInv, [ProtectionNext]_<<recordVars, call>>
    PROVE  RecordsInv'
<1> USE DEF recordVars, assetVars, jobVars, RecordsInv, NothingDangles, ProtectedHasPolicy,
        RestoresStarted, Unbound, ProtectionTypeOK
<1>0. CASE UNCHANGED recordVars
  BY <1>0
<1>1. ASSUME NEW c \in Calls, NEW op \in Binds, Bind(c, op)
      PROVE  RecordsInv'
  BY <1>1 DEF Bind
<1>2. ASSUME NEW c \in Calls, Enable(c) \/ WriteAsset(c)
      PROVE  RecordsInv'
  <2>1. WillProtect(call[c])
    BY <1>2, BusySound DEF Enable, WriteAsset, At, Sound
  <2>2. Asset(c) \in assets /\ Asset(c) \in on' => Asset(c) \in on \/ sla[Asset(c)] \in policies
    BY <1>2, <2>1 DEF Enable, WriteAsset, At, WillProtect, Asset
  <2> QED
    BY <1>2, <2>2 DEF Enable, WriteAsset
<1>3. ASSUME NEW c \in Calls, Disable(c)
      PROVE  RecordsInv'
  BY <1>3 DEF Disable
<1>4. ASSUME NEW c \in Calls, DropJobs(c)
      PROVE  RecordsInv'
  BY <1>4 DEF DropJobs
<1>5. ASSUME NEW c \in Calls, DropAsset(c)
      PROVE  RecordsInv'
  BY <1>5 DEF DropAsset, CanDropAsset, RowsOf, CopiesOf
<1>6. ASSUME NEW c \in Calls, DropPolicy(c)
      PROVE  RecordsInv'
  BY <1>6 DEF DropPolicy
<1>7. ASSUME NEW c \in Calls, NEW k \in Jobs, DropCopy(c, k)
      PROVE  RecordsInv'
  BY <1>7 DEF DropCopy, CanDropCopy
<1>8. ASSUME NEW c \in Calls, NEW j \in Jobs, SubmitJob(c, j)
      PROVE  RecordsInv'
  <2>1. CASE Asset(c) \in assets
    <3>1. /\ owner[j] = None
          /\ owner' = [owner EXCEPT ![j] = Asset(c)]
          /\ rows' = rows \cup {j}
          /\ UNCHANGED <<assets, on, sla, policies, uses, copies>>
      BY <1>8, <2>1 DEF SubmitJob
    <3>2. Asset(c) # None /\ None \notin assets
      BY <2>1, ProtectionAssumption
    <3>3. j \notin rows /\ j \notin copies /\ uses[j] = None
      BY <3>1, <3>2
    <3>5. RestoresStarted'
      BY <3>1, <3>2
    <3>6. \A i \in rows' : owner'[i] \in assets /\ uses[i] \in copies \cup {None}
      BY <2>1, <3>1, <3>3
    <3>7. \A k \in copies : owner'[k] \in assets
      BY <3>1, <3>3
    <3>8. NothingDangles'
      BY <3>1, <3>6, <3>7
    <3> QED
      BY <3>1, <3>5, <3>8
  <2>2. CASE Asset(c) \notin assets
    BY <1>0, <1>8, <2>2 DEF SubmitJob
  <2> QED
    BY <2>1, <2>2
<1>9. ASSUME NEW a \in Assets, CreateAsset(a)
      PROVE  RecordsInv'
  BY <1>9 DEF CreateAsset
<1>10. ASSUME NEW p \in Policies, CreatePolicy(p)
       PROVE  RecordsInv'
  BY <1>10 DEF CreatePolicy
<1>11. ASSUME NEW j \in Jobs, EndJob(j) \/ DeleteJob(j) \/ DeleteCopy(j)
       PROVE  RecordsInv'
  BY <1>11 DEF EndJob, DeleteJob, DeleteCopy, CanDropCopy
<1>12. ASSUME NEW j \in Jobs, NEW a \in Assets, NEW k \in Jobs, SubmitRestore(j, a, k)
       PROVE  RecordsInv'
  BY <1>12, ProtectionAssumption DEF SubmitRestore
<1>13. ASSUME NEW c \in Calls, HandlerStep(c)
       PROVE  RecordsInv'
  <2>1. ASSUME NEW found, NEW next, Find(c, found, next)
        PROVE  UNCHANGED recordVars
    BY <2>1 DEF Find
  <2> QED
    BY <1>0, <1>1, <1>2, <1>3, <1>4, <1>5, <1>6, <1>7, <1>8, <1>13, <2>1
       DEF HandlerStep, BindFindAsset, BindFindPolicy, DeactivateFind, ReadEnabled, ListCopies,
           FindPolicy, FindReferences, FindProtected, SubmitFails
<1>14. ASSUME NEW c \in Calls, Request(c) \/ Answer(c)
       PROVE  RecordsInv'
  BY <1>0, <1>14 DEF Request, Answer
<1> QED
  BY <1>0, <1>9, <1>10, <1>11, <1>12, <1>13, <1>14 DEF ProtectionNext

-----------------------------------------------------------------------------
(* The handlers                                                            *)

\* Handler d does nothing, though it may be overtaken.
Waits(d) == call'[d] \in {call[d], [call[d] EXCEPT !.raced = TRUE]}

\* What the others may do while d waits: they change what d goes by only if
\* they overtake it.
Spared(d) ==
    /\ Waits(d)
    /\ Asset(d) \in assets' => Asset(d) \in assets
    /\ Asset(d) \in assets' /\ sla[Asset(d)] \in policies => sla'[Asset(d)] \in policies'
    /\ \/ call'[d].raced \/ ~Midway(d) \/ call[d].op \notin {"update", "backup"}
       \/ /\ Asset(d) \in assets' => (Asset(d) \in on' <=> Asset(d) \in on)
          /\ sla[Asset(d)] # None /\ Asset(d) \in assets' => sla'[Asset(d)] # None
    /\ \/ call'[d].raced \/ ~Midway(d) \/ call[d].op # "delete"
       \/ /\ RowsOf(Asset(d))' \subseteq RowsOf(Asset(d))
          /\ CopiesOf(Asset(d))' \subseteq CopiesOf(Asset(d))

\* A handler that waits stays sound.
LEMMA WaitingSound ==
    ASSUME ProtectionTypeOK, NEW d \in Calls, call[d] # Idle, Sound(call[d]), Spared(d)
    PROVE  Sound(call[d])'
<1>1. call[d] \in Handlers
  BY DEF ProtectionTypeOK
<1> DEFINE h == call[d]
<1> DEFINE i == call'[d]
<1>2. /\ i.op = h.op /\ i.step = h.step /\ i.asset = h.asset /\ i.policy = h.policy
      /\ i.flag = h.flag /\ i.left = h.left /\ (h.raced => i.raced) /\ i.held = h.held
  BY <1>1 DEF Spared, Waits, Handlers
<1>3. h.step \in {"bound", "read", "active", "jobs", "listed"} => Midway(d)
  BY DEF Midway, Answers
<1>4. Named(call[d])'
  BY <1>2 DEF Sound, Named
<1>5. WillProtect(call[d])'
  BY <1>2 DEF Spared, Sound, WillProtect, Asset
<1>6. KnowsSwitch(call[d])'
  BY <1>2, <1>3 DEF Spared, Sound, KnowsSwitch, Asset, Active
<1>7. HasCleared(call[d])'
  BY <1>2, <1>3 DEF Spared, Sound, HasCleared, Asset, RowsOf, CopiesOf
<1> QED
  BY <1>4, <1>5, <1>6, <1>7 DEF Sound

\* What a race notes.
LEMMA RaceNotes ==
    ASSUME ProtectionTypeOK, NEW ops, NEW a, NEW d \in Calls
    PROVE  /\ Race(ops, a)[d] \in {call[d], [call[d] EXCEPT !.raced = TRUE]}
           /\ Midway(d) /\ call[d].op \in ops /\ Asset(d) = a => Race(ops, a)[d].raced
<1>1. Race(ops, a)[d] = IF Midway(d) /\ call[d].op \in ops /\ Asset(d) = a
                        THEN [call[d] EXCEPT !.raced = TRUE] ELSE call[d]
  BY DEF Race
<1>2. Midway(d) => call[d] \in Handlers
  BY AtBusy DEF Midway
<1> QED
  BY <1>1, <1>2 DEF Handlers

\* A handler that comes to step s by itself, and what it needs for that.
LEMMA MovingSound ==
    ASSUME ProtectionTypeOK, NEW c \in Calls, call[c] # Idle, Sound(call[c]),
           NEW s \in Steps \cup Answers,
           call'[c] \in {[call[c] EXCEPT !.step = s],
                         [[call[c] EXCEPT !.raced = TRUE] EXCEPT !.step = s]},
           s \notin {"bound", "read", "active", "jobs", "listed"},
           s \in {"policy", "unused"} /\ call[c].op = "remove" => call[c].policy \notin Builtin,
           s = "refused" /\ call[c].op = "delete" => call[c].raced \/ call[c].held
    PROVE  Sound(call[c])'
<1>1. call[c] \in Handlers
  BY DEF ProtectionTypeOK
<1> DEFINE h == call[c]
<1> DEFINE i == call'[c]
<1>2. /\ i.op = h.op /\ i.step = s /\ i.asset = h.asset /\ i.policy = h.policy
      /\ (h.raced => i.raced) /\ i.held = h.held
  BY <1>1 DEF Handlers
<1>3. Named(call[c])'
  BY <1>2 DEF Sound, Named
<1>4. WillProtect(call[c])' /\ KnowsSwitch(call[c])'
  BY <1>2 DEF WillProtect, KnowsSwitch
<1>5. HasCleared(call[c])'
  BY <1>2 DEF Sound, HasCleared
<1> QED
  BY <1>3, <1>4, <1>5 DEF Sound

\* The step of a handler that changes no record.
LEMMA QuietSound ==
    ASSUME ProtectionTypeOK, HandlersInv, NEW c \in Calls, UNCHANGED recordVars,
           \A d \in Calls \ {c} : call'[d] = call[d],
           call'[c] = Idle \/ Sound(call[c])'
    PROVE  HandlersInv'
<1> SUFFICES ASSUME NEW d \in Calls, call'[d] # Idle
             PROVE  Sound(call[d])'
  BY DEF HandlersInv
<1>1. CASE d = c
  BY <1>1
<1>2. CASE d # c
  <2>1. Waits(d) /\ call[d] # Idle /\ Sound(call[d])
    BY <1>2 DEF Waits, HandlersInv
  <2>2. UNCHANGED <<assets, on, sla, policies, owner, rows, copies>>
    BY DEF recordVars, assetVars, jobVars
  <2>3. /\ Asset(d) \in assets' => Asset(d) \in assets
        /\ Asset(d) \in assets' /\ sla[Asset(d)] \in policies => sla'[Asset(d)] \in policies'
        /\ Asset(d) \in assets' => (Asset(d) \in on' <=> Asset(d) \in on)
        /\ sla[Asset(d)] # None /\ Asset(d) \in assets' => sla'[Asset(d)] # None
    BY <2>2
  <2>4. /\ RowsOf(Asset(d))' \subseteq RowsOf(Asset(d))
        /\ CopiesOf(Asset(d))' \subseteq CopiesOf(Asset(d))
    BY <1>2, <2>2 DEF RowsOf, CopiesOf, Asset
  <2> QED
    BY <2>1, <2>3, <2>4, WaitingSound DEF Spared
<1> QED
  BY <1>1, <1>2

\* The steps that look something up keep every handler sound.
LEMMA LookingSound ==
    ASSUME ProtectionTypeOK, RecordsInv, HandlersInv, NEW c \in Calls,
           \/ \E op \in Binds : BindFindAsset(c, op) \/ BindFindPolicy(c, op)
           \/ DeactivateFind(c) \/ FindPolicy(c) \/ FindReferences(c) \/ FindProtected(c)
           \/ ReadEnabled(c) \/ ListCopies(c) \/ SubmitFails(c) \/ Answer(c) \/ Request(c)
    PROVE  HandlersInv'
<1>1. ASSUME NEW s \in Steps \cup Answers, To(c, s), UNCHANGED recordVars,
             call[c].step # "idle",
             s \notin {"bound", "read", "active", "jobs", "listed"},
             s \in {"policy", "unused"} /\ call[c].op = "remove" => call[c].policy \notin Builtin,
             call[c].op # "delete"
      PROVE  HandlersInv'
  <2>1. call[c] # Idle /\ Sound(call[c])
    BY <1>1, BusySound DEF Idle
  <2>2. call'[c] = [call[c] EXCEPT !.step = s] /\ \A d \in Calls \ {c} : call'[d] = call[d]
    BY <1>1 DEF To, ProtectionTypeOK
  <2>3. Sound(call[c])'
    BY <1>1, <2>1, <2>2, MovingSound
  <2> QED
    BY <1>1, <2>2, <2>3, QuietSound
<1>2. ASSUME NEW op \in Binds, BindFindAsset(c, op)
      PROVE  HandlersInv'
  BY <1>1, <1>2 DEF BindFindAsset, Find, At, Binds, Steps, Answers
<1>3. ASSUME NEW op \in Binds, BindFindPolicy(c, op)
      PROVE  HandlersInv'
  BY <1>1, <1>3 DEF BindFindPolicy, Find, At, Binds, Steps, Answers
<1>4. CASE DeactivateFind(c)
  BY <1>1, <1>4 DEF DeactivateFind, Find, At, Steps, Answers
<1>5. CASE FindPolicy(c)
  BY <1>1, <1>5 DEF FindPolicy, Find, At, Steps, Answers, Policy
<1>6. CASE FindReferences(c)
  <2>1. call[c].policy \notin Builtin
    BY <1>6, BusySound DEF FindReferences, At, Sound, Named
  <2> QED
    BY <1>1, <1>6, <2>1 DEF FindReferences, Find, At, Steps, Answers
<1>7. CASE SubmitFails(c)
  BY <1>1, <1>7 DEF SubmitFails, End, At, Steps, Answers
<1>8. CASE FindProtected(c)
  <2>1. CASE Asset(c) \in assets /\ Active(Asset(c))
    <3>1. call[c] \in Handlers /\ Sound(call[c]) /\ call[c].op = "backup"
      BY <1>8, AtBusy, BusySound DEF FindProtected, At
    <3>2. call' = [call EXCEPT ![c].step = "active"] /\ UNCHANGED recordVars
      BY <1>8, <2>1 DEF FindProtected, Find, To
    <3>3. call'[c] = [call[c] EXCEPT !.step = "active"] /\ \A d \in Calls \ {c} : call'[d] = call[d]
      BY <3>2 DEF ProtectionTypeOK
    <3>4. /\ call'[c].op = "backup" /\ call'[c].step = "active" /\ call'[c].asset = Asset(c)
          /\ call'[c].policy = call[c].policy
      BY <3>1, <3>3 DEF Handlers, Asset
    <3>5. Active(Asset(c))'
      BY <2>1, <3>2, <3>4 DEF Active, recordVars, assetVars, Asset
    <3>6. Sound(call[c])'
      BY <3>1, <3>4, <3>5
         DEF Sound, Named, WillProtect, KnowsSwitch, HasCleared, Asset, Binds, Active
    <3> QED
      BY <3>2, <3>3, <3>6, QuietSound
  <2>2. CASE ~(Asset(c) \in assets /\ Active(Asset(c)))
    BY <1>1, <1>8, <2>2 DEF FindProtected, Find, At, Answers
  <2> QED
    BY <2>1, <2>2
<1>9. CASE ReadEnabled(c)
  <2>1. call[c] \in Handlers /\ Sound(call[c]) /\ call[c].op = "update" /\ UNCHANGED recordVars
    BY <1>9, AtBusy, BusySound DEF ReadEnabled, At
  <2>2. /\ call'[c] = [call[c] EXCEPT !.step = IF Asset(c) \in assets THEN "read" ELSE "refused",
                                      !.flag = Asset(c) \in on]
        /\ \A d \in Calls \ {c} : call'[d] = call[d]
    BY <1>9 DEF ReadEnabled, ProtectionTypeOK
  <2>3. /\ call'[c].op = "update" /\ call'[c].asset = Asset(c) /\ call'[c].policy = call[c].policy
        /\ call'[c].flag <=> Asset(c) \in on
    BY <2>1, <2>2 DEF Handlers, Asset
  <2>4. Named(call[c])' /\ HasCleared(call[c])'
    BY <2>1, <2>3 DEF Sound, Named, HasCleared, Asset, Binds
  <2>5. WillProtect(call[c])' /\ KnowsSwitch(call[c])'
    <3>1. UNCHANGED <<assets, on, sla, policies>>
      BY <2>1 DEF recordVars, assetVars
    <3> QED
      BY <2>1, <2>3, <3>1 DEF WillProtect, KnowsSwitch, RecordsInv, ProtectedHasPolicy
  <2> QED
    BY <2>1, <2>2, <2>4, <2>5, QuietSound DEF Sound
<1>10. CASE ListCopies(c)
  <2>1. call[c] \in Handlers /\ Sound(call[c]) /\ UNCHANGED recordVars
    BY <1>10, AtBusy, BusySound DEF ListCopies, At
  <2>2. \A d \in Calls \ {c} : call'[d] = call[d]
    BY <1>10 DEF ListCopies, To, ProtectionTypeOK
  <2>3. /\ call'[c].op = call[c].op /\ call'[c].asset = Asset(c)
        /\ call'[c].policy = call[c].policy /\ call'[c].step = "listed"
        /\ call'[c].raced = call[c].raced /\ call'[c].held = call[c].held
        /\ call[c].op = "delete" => call'[c].left = CopiesOf(Asset(c)) /\ call[c].step = "jobs"
        /\ call[c].op \in {"delete", "delete keeping copies"}
    <3>1. CASE /\ At(c, "delete", "jobs")
               /\ call' = [call EXCEPT ![c].step = "listed", ![c].left = CopiesOf(Asset(c))]
      <4>1. call'[c] = [call[c] EXCEPT !.step = "listed", !.left = CopiesOf(Asset(c))]
        BY <3>1 DEF ProtectionTypeOK
      <4>2. ASSUME NEW l
            PROVE  LET h == [call[c] EXCEPT !.step = "listed", !.left = l]
                   IN  /\ h.op = call[c].op /\ h.asset = call[c].asset
                       /\ h.policy = call[c].policy /\ h.step = "listed"
                       /\ h.raced = call[c].raced /\ h.held = call[c].held /\ h.left = l
        BY <2>1 DEF Handlers
      <4>3. /\ call'[c].op = call[c].op /\ call'[c].asset = call[c].asset
            /\ call'[c].policy = call[c].policy /\ call'[c].step = "listed"
            /\ call'[c].raced = call[c].raced /\ call'[c].held = call[c].held
            /\ call'[c].left = CopiesOf(Asset(c))
        BY <4>1, <4>2
      <4>4. call[c].op = "delete" /\ call[c].step = "jobs"
        BY <3>1 DEF At
      <4> QED
        BY <4>3, <4>4 DEF Asset
    <3>2. CASE At(c, "delete keeping copies", "start") /\ To(c, "listed")
      <4>1. call'[c] = [call[c] EXCEPT !.step = "listed"]
        BY <3>2 DEF To, ProtectionTypeOK
      <4> QED
        BY <2>1, <3>2, <4>1 DEF At, Handlers, Asset
    <3> QED
      BY <1>10, <3>1, <3>2 DEF ListCopies
  <2>4. Named(call[c])' /\ WillProtect(call[c])' /\ KnowsSwitch(call[c])'
    BY <2>1, <2>3 DEF Sound, Named, WillProtect, KnowsSwitch, Asset, Binds
  <2>5. HasCleared(call[c])'
    <3>1. /\ RowsOf(Asset(c))' = RowsOf(Asset(c))
          /\ CopiesOf(Asset(c))' = CopiesOf(Asset(c))
      BY <2>1, <2>3 DEF RowsOf, CopiesOf, Asset, recordVars, jobVars
    <3> QED
      BY <2>1, <2>3, <3>1 DEF Sound, HasCleared, Asset
  <2> QED
    BY <2>1, <2>2, <2>4, <2>5, QuietSound DEF Sound
<1>11. CASE Answer(c)
  BY <1>11, QuietSound DEF Answer, ProtectionTypeOK
<1>12. CASE Request(c)
  <2>1. PICK op \in Ops \cup {"remove"}, a \in Assets \cup {None}, p \in Policies \cup {None} :
            /\ Arrive(c, op, a, p) /\ UNCHANGED recordVars
            /\ op = "remove" <=> a = None
            /\ op \in Binds \cup {"remove"} => p \in Policies
    BY <1>12, ProtectionAssumption DEF Request, Ops, Binds
  <2>2. /\ call'[c] = [op |-> op, step |-> "start", asset |-> a, policy |-> p,
                       flag |-> FALSE, left |-> {}, raced |-> FALSE, held |-> FALSE]
        /\ \A d \in Calls \ {c} : call'[d] = call[d]
    BY <2>1 DEF Arrive, ProtectionTypeOK
  <2>3. Sound(call[c])'
    BY <2>1, <2>2 DEF Sound, Named, WillProtect, KnowsSwitch, HasCleared
  <2> QED
    BY <2>1, <2>2, <2>3, QuietSound
<1> QED
  BY <1>2, <1>3, <1>4, <1>5, <1>6, <1>7, <1>8, <1>9, <1>10, <1>11, <1>12

\* A step of handler c is sound if c is afterwards and the others are spared.
LEMMA StepSound ==
    ASSUME ProtectionTypeOK, HandlersInv, NEW c \in Calls, Sound(call[c])',
           \A d \in Calls \ {c} : call[d] # Idle => Spared(d),
           \A d \in Calls \ {c} : Waits(d)
    PROVE  HandlersInv'
<1> SUFFICES ASSUME NEW d \in Calls \ {c}, call'[d] # Idle
             PROVE  Sound(call[d])'
  BY DEF HandlersInv
<1>1. call[d] # Idle
  <2> SUFFICES ASSUME call[d] = Idle
               PROVE  call'[d] = Idle
    OBVIOUS
  <2> QED
    BY DEF Waits, Idle
<1> QED
  BY <1>1, WaitingSound DEF HandlersInv

\* Binding a policy: the asset has one then, and only this handler moves.
LEMMA BindSound ==
    ASSUME ProtectionTypeOK, HandlersInv, NEW c \in Calls, NEW op \in Binds, Bind(c, op)
    PROVE  HandlersInv'
<1>1. call[c] \in Handlers /\ Sound(call[c]) /\ call[c].op = op /\ call[c].step = "policy"
  BY AtBusy, BusySound DEF Bind, At
<1>2. PICK s \in {"bound", "ok", "refused"} :
          /\ call' = [call EXCEPT ![c].step = s]
          /\ s = "bound" /\ Asset(c) \in assets => sla'[Asset(c)] \in policies'
  <2>1. CASE Asset(c) \in assets /\ Policy(c) \notin policies
    BY <2>1 DEF Bind, End, To
  <2>2. CASE ~(Asset(c) \in assets /\ Policy(c) \notin policies)
    BY <2>2 DEF Bind, End, To, ProtectionTypeOK
  <2> QED
    BY <2>1, <2>2
<1>3. /\ call'[c] = [call[c] EXCEPT !.step = s]
      /\ \A d \in Calls \ {c} : call'[d] = call[d]
  BY <1>2 DEF ProtectionTypeOK
<1>4. UNCHANGED <<assets, on, policies, owner, rows, copies>>
  BY DEF Bind, jobVars
<1>5. Sound(call[c])'
  <2>1. CASE s = "bound"
    <3>1. /\ call'[c].op = op /\ call'[c].step = "bound" /\ call'[c].asset = Asset(c)
          /\ call'[c].policy = call[c].policy
      BY <1>1, <1>3, <2>1 DEF Handlers, Asset
    <3> QED
      BY <1>1, <1>2, <1>4, <2>1, <3>1
         DEF Sound, Named, WillProtect, KnowsSwitch, HasCleared, Binds
  <2>2. CASE s # "bound"
    <3>1. call[c] # Idle /\ s \in Steps \cup Answers /\ op # "remove" /\ op # "delete"
      BY <1>1, <2>2 DEF Answers, Binds, Idle
    <3> QED
      BY <1>1, <1>3, <2>2, <3>1, MovingSound
  <2> QED
    BY <2>1, <2>2
<1>6. \A a \in assets : sla[a] # None => sla'[a] # None
  BY <1>1, ProtectionAssumption DEF Bind, Sound, Named, Policy, ProtectionTypeOK
<1>7. \A a \in assets : sla[a] \in policies => sla'[a] \in policies'
  BY <1>4 DEF Bind, ProtectionTypeOK
<1>8. ASSUME NEW d \in Calls \ {c}
      PROVE  Spared(d) /\ Waits(d)
  <2>1. /\ RowsOf(Asset(d))' \subseteq RowsOf(Asset(d))
        /\ CopiesOf(Asset(d))' \subseteq CopiesOf(Asset(d))
    BY <1>3, <1>4 DEF RowsOf, CopiesOf, Asset
  <2> QED
    BY <1>3, <1>4, <1>6, <1>7, <2>1 DEF Spared, Waits
<1> QED
  BY <1>5, <1>8, StepSound

\* Switching protection overtakes the updates and backups of the asset.
LEMMA ToggleSound ==
    ASSUME ProtectionTypeOK, HandlersInv, NEW c \in Calls,
           Enable(c) \/ Disable(c) \/ WriteAsset(c)
    PROVE  HandlersInv'
<1> DEFINE overtaken == Race({"update", "backup"}, Asset(c))
<1>1. /\ call[c] \in Handlers /\ Sound(call[c]) /\ call[c] # Idle
      /\ call[c].op \in {"activate", "deactivate", "update"}
  BY AtBusy, BusySound DEF Enable, Disable, WriteAsset, At, Idle
<1>2. PICK s \in Answers : call' = [overtaken EXCEPT ![c].step = s]
  BY DEF Enable, Disable, WriteAsset, Toggle, Answers
<1>3. overtaken \in [Calls -> {Idle} \cup Handlers]
  BY RaceTypes
<1>4. call'[c] = [overtaken[c] EXCEPT !.step = s] /\ \A d \in Calls \ {c} : call'[d] = overtaken[d]
  BY <1>2, <1>3
<1>5. call'[c] \in {[call[c] EXCEPT !.step = s],
                    [[call[c] EXCEPT !.raced = TRUE] EXCEPT !.step = s]}
  <2>1. overtaken[c] \in {call[c], [call[c] EXCEPT !.raced = TRUE]}
    BY RaceNotes
  <2> HIDE DEF overtaken
  <2> QED
    BY <1>4, <2>1
<1>6. Sound(call[c])'
  BY <1>1, <1>5, MovingSound DEF Answers
<1>7. UNCHANGED <<assets, sla, policies, owner, rows, copies>>
  BY DEF Enable, Disable, WriteAsset, jobVars
<1>8. \A a : a # Asset(c) => (a \in on' <=> a \in on)
  BY DEF Enable, Disable, WriteAsset
<1>9. ASSUME NEW d \in Calls \ {c}
      PROVE  Spared(d) /\ Waits(d)
  <2>1. Waits(d) /\ (Midway(d) /\ call[d].op \in {"update", "backup"} /\ Asset(d) = Asset(c)
                        => call'[d].raced)
    BY <1>4, RaceNotes DEF Waits
  <2>2. call[d] # Idle => call'[d].asset = call[d].asset
    BY <2>1 DEF Waits, Handlers, ProtectionTypeOK
  <2>3. ~Midway(d) \/ /\ RowsOf(Asset(d))' \subseteq RowsOf(Asset(d))
                      /\ CopiesOf(Asset(d))' \subseteq CopiesOf(Asset(d))
    BY <1>7, <2>2 DEF RowsOf, CopiesOf, Asset, Midway, Idle
  <2> QED
    BY <1>7, <1>8, <2>1, <2>3 DEF Spared
<1> QED
  BY <1>6, <1>9, StepSound

\* The steps of a delete clear what they are about, unless it was overtaken.
LEMMA DeleteSound ==
    ASSUME ProtectionTypeOK, RecordsInv, HandlersInv, NEW c \in Calls,
           DropJobs(c) \/ DropAsset(c) \/ \E k \in Jobs : DropCopy(c, k)
    PROVE  HandlersInv'
<1>0. call[c].step # "idle"
  <2>1. CASE DropJobs(c) \/ DropAsset(c)
    BY <2>1 DEF DropJobs, DropAsset, At
  <2>2. CASE \E k \in Jobs : DropCopy(c, k)
    <3>1. At(c, "delete", "listed")
      BY <2>2 DEF DropCopy
    <3> QED
      BY <3>1 DEF At
  <2> QED
    BY <2>1, <2>2
<1>1. call[c] \in Handlers /\ Sound(call[c]) /\ call[c] # Idle
  BY <1>0, AtBusy, BusySound DEF Idle
<1>2. \A d \in Calls \ {c} : call'[d] = call[d]
  BY DEF DropJobs, DropAsset, DropCopy, To, End, ProtectionTypeOK
<1>3. /\ UNCHANGED <<policies, owner>>
      /\ assets' \subseteq assets /\ rows' \subseteq rows /\ copies' \subseteq copies
      /\ \A a \in assets' : sla'[a] = sla[a] /\ (a \in on' <=> a \in on)
  <2>1. CASE DropJobs(c)
    BY <2>1 DEF DropJobs, assetVars
  <2>2. CASE DropAsset(c)
    BY <2>2 DEF DropAsset, jobVars, ProtectionTypeOK
  <2>3. ASSUME NEW k \in Jobs, DropCopy(c, k)
        PROVE  UNCHANGED <<assets, on, sla, policies, owner, rows>> /\ copies' \subseteq copies
    BY <2>3 DEF DropCopy, assetVars
  <2> QED
    BY <2>1, <2>2, <2>3
<1>4. ASSUME NEW d \in Calls \ {c}
      PROVE  Spared(d) /\ Waits(d)
  <2>1. /\ RowsOf(Asset(d))' \subseteq RowsOf(Asset(d))
        /\ CopiesOf(Asset(d))' \subseteq CopiesOf(Asset(d))
    BY <1>2, <1>3 DEF RowsOf, CopiesOf, Asset
  <2> QED
    BY <1>2, <1>3, <2>1 DEF Spared, Waits
<1>5. Sound(call[c])'
  <2>1. CASE DropJobs(c)
    <3>1. call'[c] = [call[c] EXCEPT !.step = "jobs"]
      BY <2>1 DEF DropJobs, To, ProtectionTypeOK
    <3>2. /\ call'[c].op = "delete" /\ call'[c].step = "jobs" /\ call'[c].asset = Asset(c)
          /\ call'[c].policy = call[c].policy /\ call[c].op = "delete"
      BY <1>1, <2>1, <3>1 DEF DropJobs, At, Handlers, Asset
    <3>3. RowsOf(call[c].asset)' = {}
      BY <2>1, <3>2 DEF DropJobs, RowsOf, Asset
    <3> QED
      BY <1>1, <3>2, <3>3 DEF Sound, Named, WillProtect, KnowsSwitch, HasCleared, Binds, Asset
  <2>2. ASSUME NEW k \in Jobs, DropCopy(c, k)
        PROVE  Sound(call[c])'
    <3> DEFINE holds == \E j \in rows : uses[j] = k /\ owner[j] # Asset(c)
    <3>1. call'[c] = [call[c] EXCEPT !.left = @ \ {k}, !.held = @ \/ holds]
      BY <2>2 DEF DropCopy, ProtectionTypeOK
    <3>2. /\ call'[c].op = "delete" /\ call'[c].step = "listed" /\ call'[c].asset = call[c].asset
          /\ call'[c].policy = call[c].policy /\ call[c].op = "delete" /\ call[c].step = "listed"
          /\ call'[c].left = call[c].left \ {k} /\ call'[c].raced = call[c].raced
          /\ call'[c].held = (call[c].held \/ holds)
      <4>1. ASSUME NEW l, NEW b
            PROVE  LET h == [call[c] EXCEPT !.left = @ \ l, !.held = @ \/ b]
                   IN  /\ h.op = call[c].op /\ h.asset = call[c].asset
                       /\ h.policy = call[c].policy /\ h.step = call[c].step
                       /\ h.raced = call[c].raced /\ h.left = call[c].left \ l
                       /\ h.held = (call[c].held \/ b)
        BY <1>1 DEF Handlers
      <4>2. call[c].op = "delete" /\ call[c].step = "listed"
        BY <2>2 DEF DropCopy, At
      <4> HIDE DEF holds
      <4> QED
        BY <3>1, <4>1, <4>2
    <3>3. UNCHANGED rows /\ RowsOf(call[c].asset)' = RowsOf(call[c].asset)
      BY <1>3, <2>2, <3>2 DEF DropCopy, RowsOf
    <3>4. ASSUME ~call[c].raced, ~call'[c].held
          PROVE  CopiesOf(call[c].asset)' \subseteq call'[c].left
      <4>0. ~call[c].held /\ ~holds
        BY <3>2, <3>4
      <4>1. RowsOf(call[c].asset) = {} /\ CopiesOf(call[c].asset) \subseteq call[c].left
        BY <1>1, <3>2, <3>4, <4>0 DEF Sound, HasCleared
      <4>2. CASE k \in CopiesOf(call[c].asset)
        <5>1. CanDropCopy(k)
          BY <4>0, <4>1 DEF CanDropCopy, RowsOf, Asset
        <5>2. copies' = copies \ {k}
          BY <2>2, <5>1 DEF DropCopy
        <5> QED
          BY <1>3, <3>2, <4>1, <5>2 DEF CopiesOf
      <4>3. CASE k \notin CopiesOf(call[c].asset)
        BY <1>3, <3>2, <4>1, <4>3 DEF CopiesOf
      <4> QED
        BY <4>2, <4>3
    <3> QED
      BY <1>1, <3>2, <3>3, <3>4 DEF Sound, Named, WillProtect, KnowsSwitch, HasCleared, Binds
  <2>3. CASE DropAsset(c)
    <3>1. call[c].op = "delete" /\ ~call[c].raced /\ ~call[c].held => CanDropAsset(Asset(c))
      BY <1>1, <2>3 DEF DropAsset, CanDropAsset, Sound, HasCleared, Asset
    <3>2. PICK s \in Answers : /\ call'[c] = [call[c] EXCEPT !.step = s]
                               /\ s = "refused" => ~CanDropAsset(Asset(c))
      BY <2>3 DEF DropAsset, End, To, Answers, ProtectionTypeOK
    <3> QED
      BY <1>1, <3>1, <3>2, MovingSound DEF Answers
  <2> QED
    BY <2>1, <2>2, <2>3
<1> QED
  BY <1>4, <1>5, StepSound

\* A policy that goes was no asset's.
LEMMA DropPolicySound ==
    ASSUME ProtectionTypeOK, HandlersInv, NEW c \in Calls, DropPolicy(c)
    PROVE  HandlersInv'
<1>1. call[c] \in Handlers /\ Sound(call[c]) /\ call[c] # Idle /\ call[c].op = "remove"
  BY AtBusy, BusySound DEF DropPolicy, At, Idle
<1>2. PICK s \in Answers : call' = [call EXCEPT ![c].step = s]
  BY DEF DropPolicy, End, To, Answers
<1>3. /\ call'[c] = [call[c] EXCEPT !.step = s]
      /\ \A d \in Calls \ {c} : call'[d] = call[d]
  BY <1>2 DEF ProtectionTypeOK
<1>4. UNCHANGED <<assets, on, sla, owner, rows, copies>>
  BY DEF DropPolicy, jobVars
<1>5. \A a \in assets : sla[a] \in policies => sla[a] \in policies'
  BY DEF DropPolicy
<1>6. ASSUME NEW d \in Calls \ {c}
      PROVE  Spared(d) /\ Waits(d)
  <2>1. /\ RowsOf(Asset(d))' \subseteq RowsOf(Asset(d))
        /\ CopiesOf(Asset(d))' \subseteq CopiesOf(Asset(d))
    BY <1>3, <1>4 DEF RowsOf, CopiesOf, Asset
  <2> QED
    BY <1>3, <1>4, <1>5, <2>1 DEF Spared, Waits
<1>7. Sound(call[c])'
  BY <1>1, <1>3, MovingSound DEF Answers
<1> QED
  BY <1>6, <1>7, StepSound

\* A new job or a new copy overtakes the deletes of its asset.
LEMMA AddingSpares ==
    ASSUME ProtectionTypeOK, NEW d \in Calls, Waits(d), NEW a,
           UNCHANGED <<assets, on, sla, policies>>,
           Midway(d) /\ call[d].op = "delete" /\ Asset(d) = a => call'[d].raced,
           \A b : b # a => RowsOf(b)' \subseteq RowsOf(b) /\ CopiesOf(b)' \subseteq CopiesOf(b)
    PROVE  Spared(d)
<1>1. Midway(d) => call'[d].asset = call[d].asset
  BY AtBusy DEF Waits, Midway, Handlers
<1>2. Midway(d) /\ Asset(d) # a => /\ RowsOf(Asset(d))' \subseteq RowsOf(Asset(d))
                                   /\ CopiesOf(Asset(d))' \subseteq CopiesOf(Asset(d))
  BY <1>1 DEF Asset, RowsOf, CopiesOf
<1> QED
  BY <1>2 DEF Spared

\* Starting a backup.
LEMMA SubmitSound ==
    ASSUME ProtectionTypeOK, RecordsInv, HandlersInv, NEW c \in Calls, NEW j \in Jobs,
           SubmitJob(c, j)
    PROVE  HandlersInv'
<1>1. call[c] \in Handlers /\ Sound(call[c]) /\ call[c] # Idle /\ call[c].op = "backup"
  BY AtBusy, BusySound DEF SubmitJob, At, Idle
<1>2. CASE Asset(c) \in assets
  <2> DEFINE overtaken == Race({"delete"}, Asset(c))
  <2>1. call' = [overtaken EXCEPT ![c].step = "ok"]
    BY <1>2 DEF SubmitJob, AddRows
  <2>2. overtaken \in [Calls -> {Idle} \cup Handlers]
    BY RaceTypes
  <2>3. call'[c] = [overtaken[c] EXCEPT !.step = "ok"]
        /\ \A d \in Calls \ {c} : call'[d] = overtaken[d]
    BY <2>1, <2>2
  <2>4. overtaken[c] \in {call[c], [call[c] EXCEPT !.raced = TRUE]}
    BY RaceNotes
  <2>5. call'[c] \in {[call[c] EXCEPT !.step = "ok"],
                      [[call[c] EXCEPT !.raced = TRUE] EXCEPT !.step = "ok"]}
    <3> HIDE DEF overtaken
    <3> QED
      BY <2>3, <2>4
  <2>6. Sound(call[c])'
    BY <1>1, <2>5, MovingSound DEF Answers
  <2>7. /\ UNCHANGED <<assets, on, sla, policies>>
        /\ owner[j] = None /\ owner' = [owner EXCEPT ![j] = Asset(c)]
        /\ rows' = rows \cup {j} /\ copies' = copies
    BY <1>2 DEF SubmitJob, assetVars
  <2>8. j \notin copies
    BY <2>7, ProtectionAssumption DEF RecordsInv, NothingDangles, ProtectionTypeOK
  <2>9. \A b : b # Asset(c) => RowsOf(b)' \subseteq RowsOf(b) /\ CopiesOf(b)' \subseteq CopiesOf(b)
    BY <2>7, <2>8 DEF RowsOf, CopiesOf, ProtectionTypeOK
  <2>10. ASSUME NEW d \in Calls \ {c}
         PROVE  Spared(d) /\ Waits(d)
    <3>1. Waits(d) /\ (Midway(d) /\ call[d].op = "delete" /\ Asset(d) = Asset(c) => call'[d].raced)
      BY <2>3, RaceNotes DEF Waits
    <3> QED
      BY <2>7, <2>9, <3>1, AddingSpares
  <2> QED
    BY <2>6, <2>10, StepSound
<1>3. CASE Asset(c) \notin assets
  <2>1. To(c, "refused") /\ UNCHANGED recordVars
    BY <1>3 DEF SubmitJob, End, recordVars, assetVars, jobVars
  <2>2. call'[c] = [call[c] EXCEPT !.step = "refused"] /\ \A d \in Calls \ {c} : call'[d] = call[d]
    BY <2>1 DEF To, ProtectionTypeOK
  <2>3. Sound(call[c])'
    BY <1>1, <2>2, MovingSound DEF Answers
  <2> QED
    BY <2>1, <2>2, <2>3, QuietSound
<1> QED
  BY <1>2, <1>3

\* What is not a handler's step spares every handler.
LEMMA OutsideSound ==
    ASSUME ProtectionTypeOK, RecordsInv, HandlersInv,
           \/ \E a \in Assets : CreateAsset(a)
           \/ \E p \in Policies : CreatePolicy(p)
           \/ \E j \in Jobs : EndJob(j) \/ DeleteJob(j) \/ DeleteCopy(j)
                              \/ \E a \in Assets, k \in Jobs : SubmitRestore(j, a, k)
           \/ UNCHANGED <<recordVars, call>>
    PROVE  HandlersInv'
<1>0. SUFFICES ASSUME NEW d \in Calls
               PROVE  Waits(d) /\ (call[d] # Idle => Spared(d))
  <2>1. ASSUME NEW d \in Calls, call'[d] # Idle
        PROVE  Sound(call[d])'
    <3>1. Waits(d) /\ (call[d] # Idle => Spared(d))
      BY <1>0
    <3>2. call[d] # Idle
      <4> SUFFICES ASSUME call[d] = Idle
                   PROVE  call'[d] = Idle
        BY <2>1
      <4> QED
        BY <3>1 DEF Waits, Idle
    <3> QED
      BY <3>1, <3>2, WaitingSound DEF HandlersInv
  <2> QED
    BY <2>1 DEF HandlersInv
<1>1. ASSUME call' = call, UNCHANGED <<on, sla, owner>>, policies \subseteq policies',
             rows' \subseteq rows, copies' \subseteq copies,
             call[d] # Idle /\ Asset(d) \in assets' => Asset(d) \in assets
      PROVE  Waits(d) /\ (call[d] # Idle => Spared(d))
  <2>1. /\ RowsOf(Asset(d))' \subseteq RowsOf(Asset(d))
        /\ CopiesOf(Asset(d))' \subseteq CopiesOf(Asset(d))
    BY <1>1 DEF RowsOf, CopiesOf, Asset
  <2> QED
    BY <1>1, <2>1 DEF Spared, Waits
<1>2. ASSUME NEW a \in Assets, CreateAsset(a)
      PROVE  Waits(d) /\ (call[d] # Idle => Spared(d))
  BY <1>1, <1>2 DEF CreateAsset, jobVars
<1>3. ASSUME NEW p \in Policies, CreatePolicy(p)
      PROVE  Waits(d) /\ (call[d] # Idle => Spared(d))
  BY <1>1, <1>3 DEF CreatePolicy, jobVars
<1>4. ASSUME NEW j \in Jobs, DeleteJob(j) \/ DeleteCopy(j)
      PROVE  Waits(d) /\ (call[d] # Idle => Spared(d))
  BY <1>1, <1>4 DEF DeleteJob, DeleteCopy, assetVars
<1>5. CASE UNCHANGED <<recordVars, call>>
  BY <1>1, <1>5 DEF recordVars, assetVars, jobVars
<1>6. ASSUME NEW j \in Jobs, EndJob(j)
      PROVE  Waits(d) /\ Spared(d)
  <2>1. UNCHANGED <<assets, on, sla, policies, owner, rows>>
    BY <1>6 DEF EndJob, assetVars
  <2>2. CASE copies' = copies /\ call' = call
    <3>1. \A b : RowsOf(b)' \subseteq RowsOf(b) /\ CopiesOf(b)' \subseteq CopiesOf(b)
      BY <2>1, <2>2 DEF RowsOf, CopiesOf
    <3> QED
      BY <2>1, <2>2, <3>1 DEF Spared, Waits, Asset
  <2>3. CASE copies' = copies \cup {j} /\ call' = AddRows(owner[j])
    <3>1. \A b : b # owner[j] => RowsOf(b)' \subseteq RowsOf(b) /\ CopiesOf(b)' \subseteq CopiesOf(b)
      BY <2>1, <2>3 DEF RowsOf, CopiesOf
    <3>2. /\ Waits(d)
          /\ Midway(d) /\ call[d].op = "delete" /\ Asset(d) = owner[j] => call'[d].raced
      BY <2>3, RaceNotes DEF Waits, AddRows
    <3> QED
      BY <2>1, <3>1, <3>2, AddingSpares
  <2> QED
    BY <1>6, <2>2, <2>3 DEF EndJob
<1>7. ASSUME NEW j \in Jobs, NEW a \in Assets, NEW k \in Jobs, SubmitRestore(j, a, k)
      PROVE  Waits(d) /\ Spared(d)
  <2>1. /\ UNCHANGED <<assets, on, sla, policies, copies>>
        /\ owner[j] = None /\ owner' = [owner EXCEPT ![j] = a]
        /\ rows' = rows \cup {j} /\ call' = AddRows(a)
    BY <1>7 DEF SubmitRestore, assetVars
  <2>2. j \notin copies
    BY <2>1, ProtectionAssumption DEF RecordsInv, NothingDangles, ProtectionTypeOK
  <2>3. \A b : b # a => RowsOf(b)' \subseteq RowsOf(b) /\ CopiesOf(b)' \subseteq CopiesOf(b)
    BY <2>1, <2>2 DEF RowsOf, CopiesOf, ProtectionTypeOK
  <2>4. /\ Waits(d)
        /\ Midway(d) /\ call[d].op = "delete" /\ Asset(d) = a => call'[d].raced
    BY <2>1, RaceNotes DEF Waits, AddRows
  <2> QED
    BY <2>1, <2>3, <2>4, AddingSpares
<1> QED
  BY <1>2, <1>3, <1>4, <1>5, <1>6, <1>7

-----------------------------------------------------------------------------
(* Theorems                                                                *)

\* Every step keeps the inductive invariant.
LEMMA NextHandlers ==
    ASSUME ProtectionInv, [ProtectionNext]_<<recordVars, call>>
    PROVE  HandlersInv'
<1> USE DEF ProtectionInv
<1>1. ASSUME NEW c \in Calls, Request(c) \/ HandlerStep(c) \/ Answer(c)
      PROVE  HandlersInv'
  BY <1>1, BindSound, ToggleSound, LookingSound, DeleteSound, DropPolicySound, SubmitSound
     DEF HandlerStep
<1> QED
  BY <1>1, OutsideSound DEF ProtectionNext

\* The records and the handlers in flight stay in their invariant.
THEOREM ProtectionInvariant == ProtectionSpec => []ProtectionInv
<1>1. ProtectionInit => ProtectionInv
  BY InitTypes, InitRecords DEF ProtectionInv
<1>2. ProtectionInv /\ [ProtectionNext]_<<recordVars, call>> => ProtectionInv'
  BY NextTypes, NextRecords, NextHandlers DEF ProtectionInv
<1> QED
  BY <1>1, <1>2, PTL DEF ProtectionSpec

\* Every variable keeps its type, and only rows of assets are enabled, for
\* any number of handlers at once.
THEOREM ProtectionTypeOKAlways == ProtectionSpec => []ProtectionTypeOK
BY ProtectionInvariant, PTL DEF ProtectionInv

\* No interleaving of the handlers leaves a row that names one that is gone.
THEOREM NothingDanglesAlways == ProtectionSpec => []NothingDangles
BY ProtectionInvariant, PTL DEF ProtectionInv, RecordsInv

\* An enabled asset has a policy that exists, whatever binds, toggles,
\* updates and removals of policies are under way.
THEOREM ProtectedHasPolicyAlways == ProtectionSpec => []ProtectedHasPolicy
BY ProtectionInvariant, PTL DEF ProtectionInv, RecordsInv

\* Only a job or a copy added meanwhile makes a delete fail.
THEOREM RefusedDeleteHasReasonAlways == ProtectionSpec => []RefusedDeleteHasReason
<1>1. ProtectionInv => RefusedDeleteHasReason
  BY BusySound DEF ProtectionInv, RefusedDeleteHasReason, At, Sound, HasCleared
<1> QED
  BY <1>1, ProtectionInvariant, PTL

\* An update that nobody overtook leaves protection as it was.
THEOREM UpdateKeepsProtectionAlways == ProtectionSpec => UpdateKeepsProtection
<1>1. ASSUME ProtectionInv, NEW c \in Calls, WriteAsset(c)
      PROVE  on' = on \/ call[c].raced
  <2>1. KnowsSwitch(call[c])
    BY <1>1, BusySound DEF ProtectionInv, WriteAsset, At, Sound
  <2> QED
    BY <1>1, <2>1
       DEF WriteAsset, At, KnowsSwitch, Asset, ProtectionInv, ProtectionTypeOK
<1>2. ProtectionInv => [\A c \in Calls : WriteAsset(c) => on' = on \/ call[c].raced]_<<recordVars, call>>
  BY <1>1
<1> QED
  BY <1>2, ProtectionInvariant, PTL DEF UpdateKeepsProtection

\* A backup that nobody overtook is of a protected asset.
THEOREM JobsStartProtectedAlways == ProtectionSpec => JobsStartProtected
<1>1. ASSUME ProtectionInv, NEW c \in Calls, NEW j \in Jobs, SubmitJob(c, j), j \in rows'
      PROVE  Active(Asset(c)) \/ call[c].raced
  <2>1. KnowsSwitch(call[c])
    BY <1>1, BusySound DEF ProtectionInv, SubmitJob, At, Sound
  <2>2. j \notin rows
    BY <1>1, ProtectionAssumption
       DEF SubmitJob, ProtectionInv, RecordsInv, NothingDangles, ProtectionTypeOK
  <2>3. Asset(c) \in assets
    BY <1>1, <2>2 DEF SubmitJob
  <2> QED
    BY <1>1, <2>1, <2>3 DEF SubmitJob, At, KnowsSwitch, Asset
<1>2. ProtectionInv => [\A c \in Calls, j \in Jobs : SubmitJob(c, j) /\ j \in rows'
            => Active(Asset(c)) \/ call[c].raced]_<<recordVars, call>>
  BY <1>1
<1> QED
  BY <1>2, ProtectionInvariant, PTL DEF JobsStartProtected

=============================================================================
