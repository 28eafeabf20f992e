--------------------------- MODULE JobQueueProofs ---------------------------
(***************************************************************************)
(* Theorems about JobQueue for every set of jobs, every mix of operations  *)
(* and configurations and every MaxConcurrent: type correctness, the       *)
(* inductive invariant, the properties that follow from it, and that the   *)
(* queue implements JobLifecycle.                                          *)
(***************************************************************************)
EXTENDS JobQueue, FiniteSetTheorems, TLAPS

-----------------------------------------------------------------------------
(* Type correctness                                                        *)

\* The initial state is in its type.
LEMMA InitType == Init => TypeOK
BY QueueAssumption DEF Init, TypeOK, RowStatus, NoJob, Place, Submitting, Final

\* Every step keeps every variable in its type.
LEMMA NextType == TypeOK /\ [Next]_vars => TypeOK'
<1> SUFFICES ASSUME TypeOK, [Next]_vars
             PROVE  TypeOK'
  OBVIOUS
<1> USE DEF TypeOK, Goto, UpdateRow, Broadcast, db, sema, toks, RowStatus, Final,
        Place, Submitting, Waiting, Holding, Executing, Leaving
<1>1. ASSUME NEW j \in Jobs, Submit(j) \/ Cancel(j) \/ TaskStep(j) \/ EngineReturns(j)
      PROVE  TypeOK'
  <2>1. CASE Submit(j)
    BY <2>1 DEF Submit, InsertRow
  <2>2. CASE Track(j)
    BY <2>2 DEF Track
  <2>3. CASE Cancel(j)
    BY <2>3 DEF Cancel
  <2>4. CASE Enqueue(j)
    BY <2>4 DEF Enqueue
  <2>5. CASE Acquire(j)
    BY <2>5 DEF Acquire
  <2>6. CASE DropCancelled(j)
    BY <2>6 DEF DropCancelled
  <2>7. CASE AnnounceCancelled(j)
    BY <2>7 DEF AnnounceCancelled
  <2>8. CASE AnnounceRunning(j)
    BY <2>8 DEF AnnounceRunning
  <2>9. CASE MarkRunning(j)
    BY <2>9 DEF MarkRunning
  <2>10. CASE LoadAsset(j)
    BY <2>10 DEF LoadAsset
  <2>11. CASE SetupFails(j)
    BY <2>11 DEF SetupFails
  <2>12. CASE SkipSnapshot(j)
    BY <2>12 DEF SkipSnapshot
  <2>13. CASE RefuseCancelled(j)
    BY <2>13 DEF RefuseCancelled
  <2>14. CASE StartEngine(j)
    BY <2>14 DEF StartEngine
  <2>15. CASE EngineReturns(j)
    BY <2>15 DEF EngineReturns
  <2>16. CASE RecordCopy(j)
    BY <2>16 DEF RecordCopy
  <2>17. CASE RecordFails(j)
    BY <2>17 DEF RecordFails
  <2>18. CASE AnnounceCompleted(j)
    BY <2>18 DEF AnnounceCompleted
  <2>19. CASE MarkCompleted(j)
    BY <2>19 DEF MarkCompleted
  <2>20. CASE AnnounceFailed(j)
    BY <2>20 DEF AnnounceFailed
  <2>21. CASE MarkFailed(j)
    BY <2>21 DEF MarkFailed
  <2>22. CASE Untrack(j)
    BY <2>22 DEF Untrack
  <2>23. CASE Release(j)
    BY <2>23 DEF Release
  <2> QED
    BY <1>1, <2>1, <2>2, <2>3, <2>4, <2>5, <2>6, <2>7, <2>8, <2>9, <2>10, <2>11, <2>12,
       <2>13, <2>14, <2>15, <2>16, <2>17, <2>18, <2>19, <2>20, <2>21, <2>22, <2>23 DEF TaskStep
<1>2. CASE UNCHANGED vars
  BY <1>2 DEF vars
<1> QED
  BY <1>1, <1>2 DEF Next

\* TypeOK holds in every state the queue reaches.
THEOREM TypeCorrect == Spec => []TypeOK
BY InitType, NextType, PTL DEF Spec

-----------------------------------------------------------------------------
(* The invariant that ties each task to its row, its event and its copy    *)

\* Before anything is submitted no job has a row, an event or a copy.
LEMMA InitTasksFixRows == Init => TasksFixRows
BY
   DEF Init, TasksFixRows, NotStarted, Waiting, Started, Executing, Through, Leaving, RecordsCopy, NoJob

\* A step of one job keeps the invariant for that job and for the others.
LEMMA NextTasksFixRows == TypeOK /\ TasksFixRows /\ [Next]_vars => TasksFixRows'
<1> SUFFICES ASSUME TypeOK, TasksFixRows, [Next]_vars
             PROVE  TasksFixRows'
  OBVIOUS
<1> USE DEF TypeOK, TasksFixRows, Goto, UpdateRow, Broadcast, db, sema, toks, NoJob,
        NotStarted, Waiting, Started, Executing, Through, Leaving, Final, RecordsCopy
<1>1. ASSUME NEW j \in Jobs, Submit(j) \/ Cancel(j) \/ TaskStep(j) \/ EngineReturns(j)
      PROVE  TasksFixRows'
  <2>1. CASE Submit(j)
    BY <2>1 DEF Submit, InsertRow
  <2>2. CASE Cancel(j)
    BY <2>2 DEF Cancel
  <2>3. CASE Track(j)
    BY <2>3 DEF Track
  <2>4. CASE Enqueue(j)
    BY <2>4 DEF Enqueue
  <2>5. CASE Acquire(j)
    BY <2>5 DEF Acquire
  <2>6. CASE DropCancelled(j)
    BY <2>6 DEF DropCancelled
  <2>7. CASE AnnounceCancelled(j)
    BY <2>7 DEF AnnounceCancelled
  <2>8. CASE AnnounceRunning(j)
    BY <2>8 DEF AnnounceRunning
  <2>9. CASE MarkRunning(j)
    BY <2>9 DEF MarkRunning
  <2>10. CASE LoadAsset(j)
    BY <2>10 DEF LoadAsset
  <2>11. CASE SetupFails(j)
    BY <2>11 DEF SetupFails
  <2>12. CASE SkipSnapshot(j)
    BY <2>12 DEF SkipSnapshot, RunsEngine
  <2>13. CASE RefuseCancelled(j)
    BY <2>13 DEF RefuseCancelled
  <2>14. CASE StartEngine(j)
    BY <2>14 DEF StartEngine
  <2>15. CASE EngineReturns(j)
    BY <2>15 DEF EngineReturns
  <2>16. CASE RecordCopy(j)
    BY <2>16 DEF RecordCopy
  <2>17. CASE RecordFails(j)
    BY <2>17 DEF RecordFails
  <2>18. CASE AnnounceCompleted(j)
    BY <2>18 DEF AnnounceCompleted
  <2>19. CASE MarkCompleted(j)
    BY <2>19 DEF MarkCompleted
  <2>20. CASE AnnounceFailed(j)
    BY <2>20 DEF AnnounceFailed
  <2>21. CASE MarkFailed(j)
    BY <2>21 DEF MarkFailed
  <2>22. CASE Untrack(j)
    BY <2>22 DEF Untrack
  <2>23. CASE Release(j)
    BY <2>23 DEF Release
  <2> QED
    BY <1>1, <2>1, <2>2, <2>3, <2>4, <2>5, <2>6, <2>7, <2>8, <2>9, <2>10, <2>11, <2>12,
       <2>13, <2>14, <2>15, <2>16, <2>17, <2>18, <2>19, <2>20, <2>21, <2>22, <2>23 DEF TaskStep
<1>2. CASE UNCHANGED vars
  BY <1>2 DEF vars
<1> QED
  BY <1>1, <1>2 DEF Next

\* However the tasks interleave, how far a task has come fixes its row and its copy.
THEOREM TasksFixRowsAlways == Spec => []TasksFixRows
BY InitTasksFixRows, NextTasksFixRows, TypeCorrect, PTL DEF Spec

\* A task that is through and its last event agree; the rest follows at once.
THEOREM OutcomeAgreesAlways == Spec => []OutcomeAgrees
<1>1. TasksFixRows => OutcomeAgrees
  BY DEF TasksFixRows, OutcomeAgrees
<1> QED
  BY <1>1, TasksFixRowsAlways, PTL

\* A copy is recorded before its completion is announced, and only then.
THEOREM CopyMatchesOutcomeAlways == Spec => []CopyMatchesOutcome
<1>1. TypeOK /\ TasksFixRows => CopyMatchesOutcome
  BY DEF TypeOK, TasksFixRows, CopyMatchesOutcome, Through, Leaving, Started, Executing
<1> QED
  BY <1>1, TypeCorrect, TasksFixRowsAlways, PTL

-----------------------------------------------------------------------------
(* The permits of the semaphore                                            *)

\* Only Acquire and Release change who holds a permit, or how many are free.
LEMMA HoldersKept ==
    ASSUME TypeOK, NEW j \in Jobs,
           Submit(j) \/ Cancel(j) \/ TaskStep(j) \/ EngineReturns(j),
           ~Acquire(j), ~Release(j)
    PROVE  Holders' = Holders /\ permits' = permits
<1> USE DEF TypeOK, Holders, Goto, sema, Holding, Executing, Leaving
<1>1. CASE Submit(j)
  BY <1>1 DEF Submit, InsertRow
<1>2. CASE Cancel(j)
  BY <1>2 DEF Cancel
<1>3. CASE Track(j)
  BY <1>3 DEF Track
<1>4. CASE Enqueue(j)
  BY <1>4 DEF Enqueue
<1>5. CASE DropCancelled(j)
  BY <1>5 DEF DropCancelled
<1>6. CASE AnnounceCancelled(j)
  BY <1>6 DEF AnnounceCancelled
<1>7. CASE AnnounceRunning(j)
  BY <1>7 DEF AnnounceRunning
<1>8. CASE MarkRunning(j)
  BY <1>8 DEF MarkRunning
<1>9. CASE LoadAsset(j)
  BY <1>9 DEF LoadAsset
<1>10. CASE SetupFails(j)
  BY <1>10 DEF SetupFails
<1>11. CASE SkipSnapshot(j)
  BY <1>11 DEF SkipSnapshot
<1>12. CASE RefuseCancelled(j)
  BY <1>12 DEF RefuseCancelled
<1>13. CASE StartEngine(j)
  BY <1>13 DEF StartEngine
<1>14. CASE EngineReturns(j)
  BY <1>14 DEF EngineReturns
<1>15. CASE RecordCopy(j)
  BY <1>15 DEF RecordCopy
<1>16. CASE RecordFails(j)
  BY <1>16 DEF RecordFails
<1>17. CASE AnnounceCompleted(j)
  BY <1>17 DEF AnnounceCompleted
<1>18. CASE MarkCompleted(j)
  BY <1>18 DEF MarkCompleted
<1>19. CASE AnnounceFailed(j)
  BY <1>19 DEF AnnounceFailed
<1>20. CASE MarkFailed(j)
  BY <1>20 DEF MarkFailed
<1>21. CASE Untrack(j)
  BY <1>21 DEF Untrack
<1> QED
  BY <1>1, <1>2, <1>3, <1>4, <1>5, <1>6, <1>7, <1>8, <1>9, <1>10, <1>11, <1>12, <1>13,
     <1>14, <1>15, <1>16, <1>17, <1>18, <1>19, <1>20, <1>21 DEF TaskStep

\* At first every permit is free.
LEMMA InitPermits == Init => PermitsConserved
<1> SUFFICES ASSUME Init
             PROVE  PermitsConserved
  OBVIOUS
<1>1. Holders = {}
  BY DEF Init, Holders, Holding, Executing, Leaving
<1>2. permits = MaxConcurrent /\ MaxConcurrent \in Nat
  BY QueueAssumption DEF Init
<1> QED
  BY <1>1, <1>2, FS_EmptySet DEF PermitsConserved

\* Acquire moves one permit from the semaphore to a task, Release moves it back.
LEMMA NextPermits == TypeOK /\ PermitsConserved /\ [Next]_vars => PermitsConserved'
<1> SUFFICES ASSUME TypeOK, PermitsConserved, [Next]_vars
             PROVE  PermitsConserved'
  OBVIOUS
<1> USE DEF PermitsConserved
<1>0. Cardinality(Holders) \in Nat /\ permits \in Nat /\ MaxConcurrent \in Nat
  BY FS_CardinalityType, QueueAssumption DEF TypeOK
<1>1. ASSUME NEW j \in Jobs, Acquire(j)
      PROVE  PermitsConserved'
  <2>1. j \notin Holders /\ Holders' = Holders \cup {j}
    BY <1>1 DEF Acquire, Goto, Holders, Holding, Executing, Leaving, TypeOK
  <2>2. IsFiniteSet(Holders') /\ Cardinality(Holders') = Cardinality(Holders) + 1
    BY <2>1, FS_AddElement
  <2>3. permits > 0 /\ permits' = permits - 1
    BY <1>1 DEF Acquire
  <2> QED
    BY <2>2, <2>3, <1>0
<1>2. ASSUME NEW j \in Jobs, Release(j)
      PROVE  PermitsConserved'
  <2>1. j \in Holders /\ Holders' = Holders \ {j}
    BY <1>2 DEF Release, Goto, Holders, Holding, Executing, Leaving, TypeOK
  <2>2. IsFiniteSet(Holders') /\ Cardinality(Holders') = Cardinality(Holders) - 1
    BY <2>1, FS_RemoveElement
  <2>3. permits' = permits + 1
    BY <1>2 DEF Release
  <2> QED
    BY <2>2, <2>3, <1>0
<1>3. ASSUME NEW j \in Jobs,
             Submit(j) \/ Cancel(j) \/ TaskStep(j) \/ EngineReturns(j),
             ~Acquire(j), ~Release(j)
      PROVE  PermitsConserved'
  BY <1>3, HoldersKept
<1>4. CASE UNCHANGED vars
  BY <1>4 DEF vars, Holders
<1> QED
  BY <1>1, <1>2, <1>3, <1>4 DEF Next

\* The free permits and the tasks that hold one always add up to MaxConcurrent.
THEOREM PermitsConservedAlways == Spec => []PermitsConserved
BY InitPermits, NextPermits, TypeCorrect, PTL DEF Spec

\* A row that says running belongs to a task that holds a permit.
LEMMA RunningHoldsPermit ==
    ASSUME TypeOK, TasksFixRows
    PROVE  RunningRows \subseteq {j \in Jobs : task[j] \in Started}
BY DEF TypeOK, TasksFixRows, RunningRows, Started, Executing, Place, Submitting,
       Waiting, Holding, Leaving, NotStarted, Through, Final

\* As every running row has a holder, the permits bound the running rows.
LEMMA RunningBounded ==
    ASSUME TypeOK, TasksFixRows, PermitsConserved
    PROVE  RunningWithinLimit
<1>1. RunningRows \subseteq Holders
  BY RunningHoldsPermit DEF Started, Holders, Holding
<1>2. IsFiniteSet(RunningRows) /\ Cardinality(RunningRows) <= Cardinality(Holders)
  BY <1>1, FS_Subset DEF PermitsConserved
<1>3. Cardinality(Holders) \in Nat /\ Cardinality(RunningRows) \in Nat /\ permits \in Nat
  BY <1>2, FS_CardinalityType DEF PermitsConserved, TypeOK
<1> QED
  BY <1>2, <1>3 DEF PermitsConserved, RunningWithinLimit

\* However many jobs are submitted, at most MaxConcurrent rows say running.
THEOREM RunningWithinLimitAlways == Spec => []RunningWithinLimit
BY TypeCorrect, TasksFixRowsAlways, PermitsConservedAlways, RunningBounded, PTL

-----------------------------------------------------------------------------
(* The active map                                                          *)

\* No token is cancelled before its job is in the map.
ActiveInv ==
    /\ ActiveMapExact
    /\ \A j \in Jobs : task[j] \in Submitting => j \notin cancelled

\* At first the map is empty and no token is cancelled.
LEMMA InitActive == Init => ActiveInv
BY DEF Init, ActiveInv, ActiveMapExact, Tracked, Waiting, Holding, Executing, Leaving

\* A task enters the map before it is spawned and leaves it once, by its own
\* last steps or by a cancel.
LEMMA NextActive == TypeOK /\ ActiveInv /\ [Next]_vars => ActiveInv'
<1> SUFFICES ASSUME TypeOK, ActiveInv, [Next]_vars
             PROVE  ActiveInv'
  OBVIOUS
<1> USE DEF TypeOK, ActiveInv, ActiveMapExact, Goto, toks, Tracked, Submitting,
        Waiting, Holding, Executing, Leaving
<1>1. ASSUME NEW j \in Jobs, Submit(j) \/ Cancel(j) \/ TaskStep(j) \/ EngineReturns(j)
      PROVE  ActiveInv'
  <2>1. CASE Submit(j)
    BY <2>1 DEF Submit, InsertRow
  <2>2. CASE Cancel(j)
    BY <2>2 DEF Cancel
  <2>3. CASE Track(j)
    BY <2>3 DEF Track
  <2>4. CASE Enqueue(j)
    BY <2>4 DEF Enqueue
  <2>5. CASE Acquire(j)
    BY <2>5 DEF Acquire
  <2>6. CASE DropCancelled(j)
    BY <2>6 DEF DropCancelled
  <2>7. CASE AnnounceCancelled(j)
    BY <2>7 DEF AnnounceCancelled
  <2>8. CASE AnnounceRunning(j)
    BY <2>8 DEF AnnounceRunning
  <2>9. CASE MarkRunning(j)
    BY <2>9 DEF MarkRunning
  <2>10. CASE LoadAsset(j)
    BY <2>10 DEF LoadAsset
  <2>11. CASE SetupFails(j)
    BY <2>11 DEF SetupFails
  <2>12. CASE SkipSnapshot(j)
    BY <2>12 DEF SkipSnapshot
  <2>13. CASE RefuseCancelled(j)
    BY <2>13 DEF RefuseCancelled
  <2>14. CASE StartEngine(j)
    BY <2>14 DEF StartEngine
  <2>15. CASE EngineReturns(j)
    BY <2>15 DEF EngineReturns
  <2>16. CASE RecordCopy(j)
    BY <2>16 DEF RecordCopy
  <2>17. CASE RecordFails(j)
    BY <2>17 DEF RecordFails
  <2>18. CASE AnnounceCompleted(j)
    BY <2>18 DEF AnnounceCompleted
  <2>19. CASE MarkCompleted(j)
    BY <2>19 DEF MarkCompleted
  <2>20. CASE AnnounceFailed(j)
    BY <2>20 DEF AnnounceFailed
  <2>21. CASE MarkFailed(j)
    BY <2>21 DEF MarkFailed
  <2>22. CASE Untrack(j)
    BY <2>22 DEF Untrack
  <2>23. CASE Release(j)
    BY <2>23 DEF Release
  <2> QED
    BY <1>1, <2>1, <2>2, <2>3, <2>4, <2>5, <2>6, <2>7, <2>8, <2>9, <2>10, <2>11, <2>12,
       <2>13, <2>14, <2>15, <2>16, <2>17, <2>18, <2>19, <2>20, <2>21, <2>22, <2>23 DEF TaskStep
<1>2. CASE UNCHANGED vars
  BY <1>2 DEF vars
<1> QED
  BY <1>1, <1>2 DEF Next

\* cancel finds exactly the jobs whose task has not yet left the map.
THEOREM ActiveMapExactAlways == Spec => []ActiveMapExact
<1>1. ActiveInv => ActiveMapExact
  BY DEF ActiveInv
<1> QED
  BY <1>1, InitActive, NextActive, TypeCorrect, PTL DEF Spec

-----------------------------------------------------------------------------
(* The queue implements the job life cycle                                 *)

\* At first every job is absent.
LEMMA InitLifecycle == Init => Lifecycle!Init
BY DEF Init, Lifecycle!Init

\* A task that is about to mark its row running holds a permit and its row is
\* still pending, so fewer than MaxConcurrent rows are running.
LEMMA StartHasRoom ==
    ASSUME TypeOK, TasksFixRows, PermitsConserved,
           NEW j \in Jobs, task[j] = "announced"
    PROVE  Cardinality(Lifecycle!Running) < MaxConcurrent
<1>1. Lifecycle!Running \subseteq Holders \ {j}
  BY RunningHoldsPermit
     DEF Lifecycle!Running, RunningRows, Started, Holders, Holding, Executing
<1>2. /\ IsFiniteSet(Holders \ {j})
      /\ Cardinality(Holders \ {j}) = Cardinality(Holders) - 1
  <2>1. j \in Holders
    BY DEF Holders, Holding, Executing
  <2> QED
    BY <2>1, FS_RemoveElement DEF PermitsConserved
<1>3. /\ IsFiniteSet(Lifecycle!Running)
      /\ Cardinality(Lifecycle!Running) <= Cardinality(Holders \ {j})
  BY <1>1, <1>2, FS_Subset
<1>4. /\ Cardinality(Lifecycle!Running) \in Nat
      /\ Cardinality(Holders) \in Nat
      /\ permits \in Nat
  BY <1>3, FS_CardinalityType DEF PermitsConserved, TypeOK
<1> QED
  BY <1>2, <1>3, <1>4 DEF PermitsConserved

\* Five actions of the queue are steps of the life cycle; all others stutter.
LEMMA NextLifecycle ==
    TypeOK /\ TasksFixRows /\ PermitsConserved /\ [Next]_vars => [Lifecycle!Next]_rows
<1> SUFFICES ASSUME TypeOK, TasksFixRows, PermitsConserved, [Next]_vars
             PROVE  [Lifecycle!Next]_rows
  OBVIOUS
<1> USE DEF Lifecycle!Become
<1>1. ASSUME NEW j \in Jobs, Submit(j)
      PROVE  Lifecycle!Accept(j)
  BY <1>1 DEF Submit, InsertRow, Goto, Lifecycle!Accept, TasksFixRows
<1>2. ASSUME NEW j \in Jobs, DropCancelled(j)
      PROVE  Lifecycle!CancelPending(j)
  BY <1>2 DEF DropCancelled, Goto, UpdateRow, Lifecycle!CancelPending, TasksFixRows, NotStarted
<1>3. ASSUME NEW j \in Jobs, MarkRunning(j)
      PROVE  Lifecycle!Start(j)
  <2>1. task[j] = "announced" /\ rows[j] = "pending"
    BY <1>3 DEF MarkRunning, Goto, TasksFixRows, NotStarted
  <2>2. Cardinality(Lifecycle!Running) < MaxConcurrent
    BY <2>1, StartHasRoom
  <2>3. rows' = [rows EXCEPT ![j] = "running"]
    BY <1>3, <2>1 DEF MarkRunning, UpdateRow
  <2>4. Lifecycle!Cardinality(Lifecycle!Running) = Cardinality(Lifecycle!Running)
    BY DEF Lifecycle!Cardinality, Cardinality
  <2> QED
    BY <2>1, <2>2, <2>3, <2>4 DEF Lifecycle!Start
<1>4. ASSUME NEW j \in Jobs, MarkCompleted(j) \/ MarkFailed(j)
      PROVE  Lifecycle!End(j)
  BY <1>4 DEF MarkCompleted, MarkFailed, Goto, UpdateRow, Lifecycle!End, Lifecycle!Outcomes,
              TasksFixRows, Started, Executing
<1>5. ASSUME NEW j \in Jobs, Cancel(j) \/ TaskStep(j) \/ EngineReturns(j),
             ~DropCancelled(j), ~MarkRunning(j), ~MarkCompleted(j), ~MarkFailed(j)
      PROVE  UNCHANGED rows
  BY <1>5 DEF TaskStep, db, Cancel, Track, Enqueue, Acquire, AnnounceCancelled,
              AnnounceRunning, LoadAsset, SetupFails, SkipSnapshot, RefuseCancelled,
              StartEngine, EngineReturns, RecordCopy, RecordFails, AnnounceCompleted,
              AnnounceFailed, Untrack, Release
<1>6. CASE UNCHANGED vars
  BY <1>6 DEF vars
<1> QED
  BY <1>1, <1>2, <1>3, <1>4, <1>5, <1>6 DEF Next, TaskStep, Lifecycle!Next

\* Every behaviour of the queue shows its clients a behaviour of JobLifecycle.
THEOREM ImplementsLifecycle == Spec => RowsFollowLifecycle
BY InitLifecycle, NextLifecycle, TypeCorrect, TasksFixRowsAlways, PermitsConservedAlways,
   PTL DEF Spec, RowsFollowLifecycle, Lifecycle!Spec

\* In particular a row that shows a final status keeps it.
THEOREM FinalStaysAlways == Spec => FinalStays
<1>1. TypeOK /\ TasksFixRows /\ PermitsConserved /\ [Next]_vars
      => [\A j \in Jobs : rows[j] \in Final => rows'[j] = rows[j]]_vars
  BY NextLifecycle
     DEF TypeOK, RowStatus, Final, Lifecycle!Next, Lifecycle!Become, Lifecycle!Accept,
         Lifecycle!Start, Lifecycle!End, Lifecycle!CancelPending, Lifecycle!Outcomes
<1> QED
  BY <1>1, TypeCorrect, TasksFixRowsAlways, PermitsConservedAlways, PTL DEF Spec, FinalStays

-----------------------------------------------------------------------------
(* Cancelled before the start                                              *)

\* No step starts a job whose token is cancelled: the only way out of the line
\* is the one that drops it.
LEMMA CancelledStep ==
    ASSUME TypeOK, TasksFixRows, Next, NEW j \in Jobs,
           task[j] \in Waiting \cup {"holding"}, j \in cancelled
    PROVE  \/ task'[j] \in Waiting \cup {"holding"} /\ j \in cancelled'
           \/ task'[j] = "dropping" /\ rows'[j] = "cancelled"
<1> USE DEF TypeOK, Waiting, Goto, toks
<1>1. rows[j] = "pending"
  BY DEF TasksFixRows, NotStarted
<1>2. ASSUME NEW i \in Jobs, Submit(i)
      PROVE  task'[j] = task[j] /\ cancelled' = cancelled
  BY <1>2 DEF Submit, InsertRow
<1>3. ASSUME NEW i \in Jobs, Cancel(i)
      PROVE  task'[j] = task[j] /\ j \in cancelled'
  BY <1>3 DEF Cancel
<1>4. ASSUME NEW i \in Jobs, EngineReturns(i)
      PROVE  task'[j] = task[j] /\ cancelled' = cancelled
  BY <1>4 DEF EngineReturns
<1>5. ASSUME NEW i \in Jobs, Track(i) \/ Enqueue(i) \/ Acquire(i)
      PROVE  task'[j] \in Waiting \cup {"holding"} /\ j \in cancelled'
  BY <1>5 DEF Track, Enqueue, Acquire
<1>6. ASSUME NEW i \in Jobs, DropCancelled(i)
      PROVE  \/ task'[j] = task[j] /\ cancelled' = cancelled
             \/ task'[j] = "dropping" /\ rows'[j] = "cancelled"
  BY <1>1, <1>6 DEF DropCancelled, UpdateRow
<1>7. ASSUME NEW i \in Jobs,
             \/ AnnounceCancelled(i) \/ AnnounceRunning(i) \/ MarkRunning(i)
             \/ LoadAsset(i) \/ SetupFails(i) \/ SkipSnapshot(i)
             \/ RefuseCancelled(i) \/ StartEngine(i)
      PROVE  task'[j] = task[j] /\ cancelled' = cancelled
  BY <1>7
     DEF AnnounceCancelled, AnnounceRunning, MarkRunning, LoadAsset, SetupFails, SkipSnapshot,
         RefuseCancelled, StartEngine
<1>8. ASSUME NEW i \in Jobs,
             \/ RecordCopy(i) \/ RecordFails(i)
             \/ AnnounceCompleted(i) \/ MarkCompleted(i)
             \/ AnnounceFailed(i) \/ MarkFailed(i)
             \/ Untrack(i) \/ Release(i)
      PROVE  task'[j] = task[j] /\ cancelled' = cancelled
  BY <1>8
     DEF RecordCopy, RecordFails, AnnounceCompleted, MarkCompleted, AnnounceFailed, MarkFailed,
         Untrack, Release
<1> QED
  BY <1>2, <1>3, <1>4, <1>5, <1>6, <1>7, <1>8 DEF Next, TaskStep

\* A job cancelled before it starts is never run: the safety half of
\* CancelledWhileWaiting.
THEOREM CancelledNotRunAlways == Spec => CancelledNotRun
<1>1. TypeOK /\ TasksFixRows /\ [Next]_vars
      => [\A j \in Jobs : task[j] \in Waiting \cup {"holding"} /\ j \in cancelled =>
            \/ task'[j] \in Waiting \cup {"holding"} /\ j \in cancelled'
            \/ task'[j] = "dropping" /\ rows'[j] = "cancelled"]_vars
  BY CancelledStep
<1> QED
  BY <1>1, TypeCorrect, TasksFixRowsAlways, PTL DEF Spec, CancelledNotRun
=============================================================================
