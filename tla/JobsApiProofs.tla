---------------------------- MODULE JobsApiProofs ----------------------------
(***************************************************************************)
(* Theorems about JobsApi for every set of jobs and requests, every        *)
(* MaxConcurrent and any number of restarts: what cancel, delete, restore  *)
(* and a kill of the process can never do to the rows, the copies and the  *)
(* permits of the queue.  Those about WriteFaults follow, for any number   *)
(* of failed writes too: a job none of whose writes failed keeps the       *)
(* invariant of JobsApi; the others keep what their copies rest on.        *)
(***************************************************************************)
EXTENDS WriteFaults, FiniteSetTheorems, TLAPS

-----------------------------------------------------------------------------
(* The permits of the semaphore                                            *)

\* Only Acquire, Release and Restart change who holds a permit, or how many
\* are free: no handler, restore or dropped submission does.
LEMMA ApiHoldersKept ==
    ASSUME ApiTypeOK, [ApiNext]_allVars, ~Restart,
           \A j \in Jobs : ~Acquire(j) /\ ~Release(j)
    PROVE  Holders' = Holders /\ permits' = permits
<1> USE DEF ApiTypeOK, Holders, sema, apiVars, Holding, Executing, Leaving
<1>1. ASSUME NEW j \in Jobs,
             StartJob(j) \/ DropSubmit(j) \/ QueueStep(j)
               \/ InsertRestore(j) \/ RestoreStep(j) \/ RestoreReturns(j)
      PROVE  Holders' = Holders /\ permits' = permits
  <2>1. CASE StartJob(j)
    BY <2>1 DEF StartJob, Unused, Submit, InsertRow, Goto
  <2>2. CASE DropSubmit(j)
    BY <2>2 DEF DropSubmit, Goto
  <2>3. CASE Track(j) /\ UNCHANGED apiVars
    BY <2>3 DEF Track, Goto
  <2>4. CASE Enqueue(j) /\ UNCHANGED apiVars
    BY <2>4 DEF Enqueue, Goto
  <2>5. CASE Acquire(j) /\ UNCHANGED apiVars
    BY <2>5 DEF Acquire, Goto
  <2>6. CASE AnnounceRunning(j) /\ UNCHANGED apiVars
    BY <2>6 DEF AnnounceRunning, Goto
  <2>7. CASE MarkRunning(j) /\ UNCHANGED apiVars
    BY <2>7 DEF MarkRunning, Goto
  <2>8. CASE LoadAsset(j) /\ UNCHANGED apiVars
    BY <2>8 DEF LoadAsset, Goto
  <2>9. CASE SetupFails(j) /\ UNCHANGED apiVars
    BY <2>9 DEF SetupFails, Goto
  <2>10. CASE SkipSnapshot(j) /\ UNCHANGED apiVars
    BY <2>10 DEF SkipSnapshot, Goto, RunsEngine
  <2>11. CASE RefuseCancelled(j) /\ UNCHANGED apiVars
    BY <2>11 DEF RefuseCancelled, Goto
  <2>12. CASE StartEngine(j) /\ UNCHANGED apiVars
    BY <2>12 DEF StartEngine, Goto
  <2>13. CASE RecordCopy(j) /\ UNCHANGED apiVars
    BY <2>13 DEF RecordCopy, Goto
  <2>14. CASE RecordFails(j) /\ UNCHANGED apiVars
    BY <2>14 DEF RecordFails, Goto
  <2>15. CASE AnnounceCompleted(j) /\ UNCHANGED apiVars
    BY <2>15 DEF AnnounceCompleted, Goto
  <2>16. CASE MarkCompleted(j) /\ UNCHANGED apiVars
    BY <2>16 DEF MarkCompleted, Goto
  <2>17. CASE AnnounceFailed(j) /\ UNCHANGED apiVars
    BY <2>17 DEF AnnounceFailed, Goto
  <2>18. CASE MarkFailed(j) /\ UNCHANGED apiVars
    BY <2>18 DEF MarkFailed, Goto
  <2>19. CASE Untrack(j) /\ UNCHANGED apiVars
    BY <2>19 DEF Untrack, Goto
  <2>20. CASE Release(j) /\ UNCHANGED apiVars
    BY <2>20 DEF Release, Goto
  <2>21. CASE DropCancelled(j) /\ UNCHANGED apiVars
    BY <2>21 DEF DropCancelled, Goto
  <2>22. CASE AnnounceCancelled(j) /\ UNCHANGED apiVars
    BY <2>22 DEF AnnounceCancelled, Goto
  <2>23. CASE EngineReturns(j) /\ UNCHANGED apiVars
    BY <2>23 DEF EngineReturns, Goto
  <2>24. CASE AnnouncePending(j)
    BY <2>24 DEF AnnouncePending, RestoreGoto
  <2>25. CASE AnnounceRestoring(j)
    BY <2>25 DEF AnnounceRestoring, RestoreGoto
  <2>26. CASE RestoreSetupFails(j)
    BY <2>26 DEF RestoreSetupFails, RestoreGoto
  <2>27. CASE StartRestoring(j)
    BY <2>27 DEF StartRestoring, RestoreGoto
  <2>28. CASE AnnounceRestored(j)
    BY <2>28 DEF AnnounceRestored, RestoreGoto
  <2>29. CASE MarkRestored(j)
    BY <2>29 DEF MarkRestored, RestoreGoto
  <2>30. CASE RestoreReturns(j)
    BY <2>30 DEF RestoreReturns, RestoreGoto
  <2>31. CASE InsertRestore(j)
    BY <2>31 DEF InsertRestore, RestoreGoto, Unused
  <2> QED
    BY <1>1, <2>1, <2>2, <2>3, <2>4, <2>5, <2>6, <2>7, <2>8, <2>9, <2>10, <2>11, <2>12,
       <2>13, <2>14, <2>15, <2>16, <2>17, <2>18, <2>19, <2>20, <2>21, <2>22, <2>23, <2>24,
       <2>25, <2>26, <2>27, <2>28, <2>29, <2>30, <2>31 DEF QueueStep, TaskStep, RestoreStep
<1>2. ASSUME NEW r \in Requests, NEW j \in Jobs, ReadForCancel(r, j) \/ ReadForDelete(r, j)
      PROVE  Holders' = Holders /\ permits' = permits
  BY <1>2 DEF ReadForCancel, ReadForDelete, Proceed
<1>3. ASSUME NEW r \in Requests, HandlerStep(r)
      PROVE  Holders' = Holders /\ permits' = permits
  BY <1>3 DEF HandlerStep, WriteCancelled, AnnounceApiCancel, DeleteRow, Proceed
<1>4. CASE UNCHANGED allVars
  BY <1>4 DEF allVars, vars
<1> QED
  BY <1>1, <1>2, <1>3, <1>4 DEF ApiNext

\* At first every permit is free.
LEMMA ApiInitPermits == ApiInit => PermitsConserved
<1> SUFFICES ASSUME ApiInit
             PROVE  PermitsConserved
  OBVIOUS
<1>1. Holders = {}
  BY DEF ApiInit, Init, Holders, Holding, Executing, Leaving
<1>2. permits = MaxConcurrent /\ MaxConcurrent \in Nat
  BY QueueAssumption DEF ApiInit, Init
<1> QED
  BY <1>1, <1>2, FS_EmptySet DEF PermitsConserved

\* A permit moves between the semaphore and a task; a restart frees them all.
LEMMA ApiNextPermits ==
    ASSUME ApiTypeOK, PermitsConserved, [ApiNext]_allVars
    PROVE  PermitsConserved' /\ permits' \in 0..MaxConcurrent
<1> USE DEF PermitsConserved
<1>0. Cardinality(Holders) \in Nat /\ permits \in Nat /\ MaxConcurrent \in Nat
  BY FS_CardinalityType, QueueAssumption DEF ApiTypeOK
<1>1. ASSUME NEW j \in Jobs, Acquire(j)
      PROVE  PermitsConserved' /\ permits' \in 0..MaxConcurrent
  <2>1. j \notin Holders /\ Holders' = Holders \cup {j}
    BY <1>1 DEF Acquire, Goto, Holders, Holding, Executing, Leaving, ApiTypeOK
  <2>2. IsFiniteSet(Holders') /\ Cardinality(Holders') = Cardinality(Holders) + 1
    BY <2>1, FS_AddElement
  <2>3. permits > 0 /\ permits' = permits - 1
    BY <1>1 DEF Acquire
  <2> QED
    BY <2>2, <2>3, <1>0
<1>2. ASSUME NEW j \in Jobs, Release(j)
      PROVE  PermitsConserved' /\ permits' \in 0..MaxConcurrent
  <2>1. j \in Holders /\ Holders' = Holders \ {j}
    BY <1>2 DEF Release, Goto, Holders, Holding, Executing, Leaving, ApiTypeOK
  <2>2. IsFiniteSet(Holders') /\ Cardinality(Holders') = Cardinality(Holders) - 1
    BY <2>1, FS_RemoveElement
  <2>3. Cardinality(Holders') \in Nat
    BY <2>2, FS_CardinalityType
  <2>4. permits' = permits + 1
    BY <1>2 DEF Release
  <2> QED
    BY <2>2, <2>3, <2>4, <1>0
<1>3. CASE Restart
  <2>1. Holders' = {}
    BY <1>3 DEF Restart, Lose, Holders, Holding, Executing, Leaving
  <2>2. permits' = MaxConcurrent
    BY <1>3 DEF Restart
  <2> QED
    BY <2>1, <2>2, <1>0, FS_EmptySet
<1>4. CASE ~Restart /\ \A j \in Jobs : ~Acquire(j) /\ ~Release(j)
  <2>1. Holders' = Holders /\ permits' = permits
    BY <1>4, ApiHoldersKept
  <2> QED
    BY <2>1, <1>0
<1> QED
  BY <1>1, <1>2, <1>3, <1>4

-----------------------------------------------------------------------------
(* Type correctness                                                        *)

\* The initial state is in its type.
LEMMA ApiInitType == ApiInit => ApiTypeOK
BY QueueAssumption, ApiAssumption
   DEF ApiInit, Init, ApiTypeOK, RowStatus, Final, Place, Submitting, RestorePlace

\* Every step keeps every variable in its type, given that it keeps the permits in theirs.
LEMMA NextTypes == ApiTypeOK /\ permits' \in 0..MaxConcurrent /\ [ApiNext]_allVars => ApiTypeOK'
<1> SUFFICES ASSUME ApiTypeOK /\ permits' \in 0..MaxConcurrent, [ApiNext]_allVars
             PROVE  ApiTypeOK'
  OBVIOUS
<1> USE DEF ApiTypeOK, UpdateRow, Broadcast, db, sema, toks, apiVars, RowStatus, Final,
        Place, Submitting, Waiting, Holding, Executing, Leaving, RestorePlace, RestoreLive, Idle
<1>1. ASSUME NEW j \in Jobs,
             StartJob(j) \/ DropSubmit(j) \/ QueueStep(j)
               \/ InsertRestore(j) \/ RestoreStep(j) \/ RestoreReturns(j)
      PROVE  ApiTypeOK'
  <2>1. CASE StartJob(j)
    BY <2>1 DEF StartJob, Unused, Submit, InsertRow, Goto
  <2>2. CASE DropSubmit(j)
    BY <2>2 DEF DropSubmit, Goto
  <2>3. CASE Track(j) /\ UNCHANGED apiVars
    BY <2>3 DEF Track, Goto
  <2>4. CASE Enqueue(j) /\ UNCHANGED apiVars
    BY <2>4 DEF Enqueue, Goto
  <2>5. CASE Acquire(j) /\ UNCHANGED apiVars
    BY <2>5 DEF Acquire, Goto
  <2>6. CASE AnnounceRunning(j) /\ UNCHANGED apiVars
    BY <2>6 DEF AnnounceRunning, Goto
  <2>7. CASE MarkRunning(j) /\ UNCHANGED apiVars
    BY <2>7 DEF MarkRunning, Goto
  <2>8. CASE LoadAsset(j) /\ UNCHANGED apiVars
    BY <2>8 DEF LoadAsset, Goto
  <2>9. CASE SetupFails(j) /\ UNCHANGED apiVars
    BY <2>9 DEF SetupFails, Goto
  <2>10. CASE SkipSnapshot(j) /\ UNCHANGED apiVars
    BY <2>10 DEF SkipSnapshot, Goto, RunsEngine
  <2>11. CASE RefuseCancelled(j) /\ UNCHANGED apiVars
    BY <2>11 DEF RefuseCancelled, Goto
  <2>12. CASE StartEngine(j) /\ UNCHANGED apiVars
    BY <2>12 DEF StartEngine, Goto
  <2>13. CASE RecordCopy(j) /\ UNCHANGED apiVars
    BY <2>13 DEF RecordCopy, Goto
  <2>14. CASE RecordFails(j) /\ UNCHANGED apiVars
    BY <2>14 DEF RecordFails, Goto
  <2>15. CASE AnnounceCompleted(j) /\ UNCHANGED apiVars
    BY <2>15 DEF AnnounceCompleted, Goto
  <2>16. CASE MarkCompleted(j) /\ UNCHANGED apiVars
    BY <2>16 DEF MarkCompleted, Goto
  <2>17. CASE AnnounceFailed(j) /\ UNCHANGED apiVars
    BY <2>17 DEF AnnounceFailed, Goto
  <2>18. CASE MarkFailed(j) /\ UNCHANGED apiVars
    BY <2>18 DEF MarkFailed, Goto
  <2>19. CASE Untrack(j) /\ UNCHANGED apiVars
    BY <2>19 DEF Untrack, Goto
  <2>20. CASE Release(j) /\ UNCHANGED apiVars
    BY <2>20 DEF Release, Goto
  <2>21. CASE DropCancelled(j) /\ UNCHANGED apiVars
    BY <2>21 DEF DropCancelled, Goto
  <2>22. CASE AnnounceCancelled(j) /\ UNCHANGED apiVars
    BY <2>22 DEF AnnounceCancelled, Goto
  <2>23. CASE EngineReturns(j) /\ UNCHANGED apiVars
    BY <2>23 DEF EngineReturns, Goto
  <2>24. CASE AnnouncePending(j)
    BY <2>24 DEF AnnouncePending, RestoreGoto
  <2>25. CASE AnnounceRestoring(j)
    BY <2>25 DEF AnnounceRestoring, RestoreGoto
  <2>26. CASE RestoreSetupFails(j)
    BY <2>26 DEF RestoreSetupFails, RestoreGoto
  <2>27. CASE StartRestoring(j)
    BY <2>27 DEF StartRestoring, RestoreGoto
  <2>28. CASE AnnounceRestored(j)
    <3>1. CASE RestoreGoto(j, "succeeding", "completing") /\ Broadcast(j, "completed") /\ UNCHANGED rows
      BY <3>1 DEF RestoreGoto
    <3>2. CASE RestoreGoto(j, "failing", "aborting") /\ Broadcast(j, "failed") /\ UNCHANGED rows
      BY <3>2 DEF RestoreGoto
    <3> QED
      BY <2>28, <3>1, <3>2 DEF AnnounceRestored
  <2>29. CASE MarkRestored(j)
    BY <2>29 DEF MarkRestored, RestoreGoto
  <2>30. CASE RestoreReturns(j)
    BY <2>30 DEF RestoreReturns, RestoreGoto
  <2>31. CASE InsertRestore(j)
    BY <2>31 DEF InsertRestore, RestoreGoto, Unused
  <2> QED
    BY <1>1, <2>1, <2>2, <2>3, <2>4, <2>5, <2>6, <2>7, <2>8, <2>9, <2>10, <2>11, <2>12,
       <2>13, <2>14, <2>15, <2>16, <2>17, <2>18, <2>19, <2>20, <2>21, <2>22, <2>23, <2>24,
       <2>25, <2>26, <2>27, <2>28, <2>29, <2>30, <2>31 DEF QueueStep, TaskStep, RestoreStep
<1>2. ASSUME NEW r \in Requests, NEW j \in Jobs, ReadForCancel(r, j) \/ ReadForDelete(r, j)
      PROVE  ApiTypeOK'
  BY <1>2 DEF ReadForCancel, ReadForDelete, Proceed
<1>3. ASSUME NEW r \in Requests, HandlerStep(r)
      PROVE  ApiTypeOK'
  <2>0. call[r].step # "idle" => call[r].job \in Jobs
    BY DEF ApiTypeOK, Idle
  <2>1. CASE WriteCancelled(r)
    BY <2>0, <2>1 DEF WriteCancelled, Proceed
  <2>2. CASE AnnounceApiCancel(r)
    BY <2>0, <2>2 DEF AnnounceApiCancel, Proceed
  <2>3. CASE DeleteRow(r)
    BY <2>0, <2>3 DEF DeleteRow, Proceed
  <2> QED
    BY <1>3, <2>1, <2>2, <2>3 DEF HandlerStep
<1>4. CASE Restart
  <2>1. task' \in [Jobs -> Place \cup {"lost"}] /\ restore' \in [Jobs -> RestorePlace]
    BY <1>4 DEF Restart, Lose
  <2>2. /\ call' \in [Requests -> {Idle}]
        /\ event' \in [Jobs -> {"none"}]
        /\ waiters' \in Seq(Jobs)
        /\ active' = {} /\ cancelled' = {}
        /\ restarts' \in 0..MaxRestarts
    BY <1>4, ApiAssumption DEF Restart
  <2>3. UNCHANGED <<rows, copies, job>>
    BY <1>4 DEF Restart
  <2> QED
    BY <2>1, <2>2, <2>3
<1>5. CASE UNCHANGED allVars
  BY <1>5 DEF allVars, vars, apiVars
<1> QED
  BY <1>1, <1>2, <1>3, <1>4, <1>5 DEF ApiNext

\* With cancels, deletes, restores and restarts, too, every variable keeps its
\* type, and no restart or dropped submission makes or loses a permit.
THEOREM ApiTypeCorrect == ApiSpec => [](ApiTypeOK /\ PermitsConserved)
<1>1. ApiInit => ApiTypeOK /\ PermitsConserved
  BY ApiInitType, ApiInitPermits
<1>2. ApiTypeOK /\ PermitsConserved /\ [ApiNext]_allVars => (ApiTypeOK /\ PermitsConserved)'
  BY ApiNextPermits, NextTypes
<1> QED
  BY <1>1, <1>2, PTL DEF ApiSpec

\* However often the process is killed, no permit is lost or made.
THEOREM ApiPermitsConserved == ApiSpec => []PermitsConserved
BY ApiTypeCorrect, PTL

\* The type invariant of the composition, for every number of restarts.
THEOREM ApiTypeOKAlways == ApiSpec => []ApiTypeOK
BY ApiTypeCorrect, PTL

-----------------------------------------------------------------------------
(* The invariant that survives the handlers and the restarts               *)

\* The last event agrees with the row, or a cancel came in between.
Settled(j) ==
    rows[j] # "absent" /\ event[j] \notin {"none", rows[j]} => "cancelled" \in {rows[j], event[j]}

\* A job is the queue's or a restore of the API; no token is ever cancelled.
OneTask(j) ==
    /\ task[j] = "none" \/ restore[j] = "none"
    /\ task[j] = "none" => job[j] = NoJob
    /\ task[j] # "dropping"

\* A task writes its outcome before it ends.
EndWritten(j) ==
    /\ task[j] \in Through \/ restore[j] = "done" => rows[j] \notin {"pending", "running"}
    /\ rows[j] \in {"pending", "running"} => HasTask(j) \/ Lost(j)

\* What was announced last, a cancel aside, is what the task is about to write.
EventFits(j) ==
    /\ "completing" \in {task[j], restore[j]} => event[j] \in {"completed", "cancelled"}
    /\ "aborting" \in {task[j], restore[j]} => event[j] \in {"failed", "cancelled"}
    /\ task[j] \in Submitting /\ restore[j] = "none" => event[j] \in {"none", "cancelled"}
    /\ task[j] \in Through => Settled(j)
    /\ ~HasTask(j) => Settled(j)

\* The copy is recorded first.
CopyFirst(j) ==
    RecordsCopy(j) /\ (task[j] \in {"succeeding", "completing"} \/ rows[j] = "completed")
    => j \in copies

JobInv(j) == OneTask(j) /\ EndWritten(j) /\ EventFits(j) /\ CopyFirst(j)

ApiInv == \A j \in Jobs : JobInv(j)

\* Before anything is submitted there is no row, no event and no task.
LEMMA InitApiInv == ApiInit => ApiInv
BY DEF ApiInit, Init, ApiInv, JobInv, OneTask, EndWritten, EventFits, CopyFirst, Settled, Through,
       Leaving, Submitting, HasTask, RestoreLive, RecordsCopy, NoJob

\* A step for one job keeps that job's part of the invariant.
LEMMA OwnStep ==
    ASSUME ApiTypeOK, NEW j \in Jobs, JobInv(j),
           StartJob(j) \/ DropSubmit(j) \/ QueueStep(j)
             \/ InsertRestore(j) \/ RestoreStep(j) \/ RestoreReturns(j)
    PROVE  JobInv(j)'
<1> USE DEF ApiTypeOK, JobInv, OneTask, EndWritten, EventFits, CopyFirst, Settled,
        UpdateRow, Broadcast, db, sema,
        toks, apiVars, Final, Through, Leaving, Submitting, RestoreLive, HasTask, Lost, NoJob, RecordsCopy
<1>1. CASE StartJob(j)
  BY <1>1 DEF StartJob, Unused, Submit, InsertRow, Goto
<1>2. CASE DropSubmit(j)
  BY <1>2 DEF DropSubmit, Goto
<1>3. CASE Track(j) /\ UNCHANGED apiVars
  BY <1>3 DEF Track, Goto
<1>4. CASE Enqueue(j) /\ UNCHANGED apiVars
  BY <1>4 DEF Enqueue, Goto
<1>5. CASE Acquire(j) /\ UNCHANGED apiVars
  BY <1>5 DEF Acquire, Goto
<1>6. CASE AnnounceRunning(j) /\ UNCHANGED apiVars
  BY <1>6 DEF AnnounceRunning, Goto
<1>7. CASE MarkRunning(j) /\ UNCHANGED apiVars
  BY <1>7 DEF MarkRunning, Goto
<1>8. CASE LoadAsset(j) /\ UNCHANGED apiVars
  BY <1>8 DEF LoadAsset, Goto
<1>9. CASE SetupFails(j) /\ UNCHANGED apiVars
  BY <1>9 DEF SetupFails, Goto
<1>10. CASE SkipSnapshot(j) /\ UNCHANGED apiVars
  BY <1>10 DEF SkipSnapshot, Goto, RunsEngine
<1>11. CASE RefuseCancelled(j) /\ UNCHANGED apiVars
  BY <1>11 DEF RefuseCancelled, Goto
<1>12. CASE StartEngine(j) /\ UNCHANGED apiVars
  BY <1>12 DEF StartEngine, Goto
<1>13. CASE RecordCopy(j) /\ UNCHANGED apiVars
  BY <1>13 DEF RecordCopy, Goto
<1>14. CASE RecordFails(j) /\ UNCHANGED apiVars
  BY <1>14 DEF RecordFails, Goto
<1>15. CASE AnnounceCompleted(j) /\ UNCHANGED apiVars
  BY <1>15 DEF AnnounceCompleted, Goto
<1>16. CASE MarkCompleted(j) /\ UNCHANGED apiVars
  BY <1>16 DEF MarkCompleted, Goto
<1>17. CASE AnnounceFailed(j) /\ UNCHANGED apiVars
  BY <1>17 DEF AnnounceFailed, Goto
<1>18. CASE MarkFailed(j) /\ UNCHANGED apiVars
  BY <1>18 DEF MarkFailed, Goto
<1>19. CASE Untrack(j) /\ UNCHANGED apiVars
  BY <1>19 DEF Untrack, Goto
<1>20. CASE Release(j) /\ UNCHANGED apiVars
  BY <1>20 DEF Release, Goto
<1>21. CASE DropCancelled(j) /\ UNCHANGED apiVars
  BY <1>21 DEF DropCancelled, Goto
<1>22. CASE AnnounceCancelled(j) /\ UNCHANGED apiVars
  BY <1>22 DEF AnnounceCancelled, Goto
<1>23. CASE EngineReturns(j) /\ UNCHANGED apiVars
  BY <1>23 DEF EngineReturns, Goto
<1>24. CASE AnnouncePending(j)
  BY <1>24 DEF AnnouncePending, RestoreGoto
<1>25. CASE AnnounceRestoring(j)
  BY <1>25 DEF AnnounceRestoring, RestoreGoto
<1>26. CASE RestoreSetupFails(j)
  BY <1>26 DEF RestoreSetupFails, RestoreGoto
<1>27. CASE StartRestoring(j)
  BY <1>27 DEF StartRestoring, RestoreGoto
<1>28. CASE AnnounceRestored(j)
  BY <1>28 DEF AnnounceRestored, RestoreGoto
<1>29. CASE MarkRestored(j)
  BY <1>29 DEF MarkRestored, RestoreGoto
<1>30. CASE RestoreReturns(j)
  BY <1>30 DEF RestoreReturns, RestoreGoto
<1>31. CASE InsertRestore(j)
  BY <1>31 DEF InsertRestore, RestoreGoto, Unused
<1> QED
  BY <1>1, <1>2, <1>3, <1>4, <1>5, <1>6, <1>7, <1>8, <1>9, <1>10, <1>11, <1>12, <1>13,
     <1>14, <1>15, <1>16, <1>17, <1>18, <1>19, <1>20, <1>21, <1>22, <1>23, <1>24, <1>25,
     <1>26, <1>27, <1>28, <1>29, <1>30, <1>31 DEF QueueStep, TaskStep, RestoreStep

\* What JobInv(k) reads.
Same(k) ==
    /\ UNCHANGED <<rows[k], event[k], job[k], task[k], restore[k]>>
    /\ k \in copies' <=> k \in copies

\* A step for one job leaves every other job as it was.
LEMMA OthersSame ==
    ASSUME ApiTypeOK, NEW j \in Jobs, NEW k \in Jobs, k # j,
           StartJob(j) \/ DropSubmit(j) \/ QueueStep(j)
             \/ InsertRestore(j) \/ RestoreStep(j) \/ RestoreReturns(j)
    PROVE  Same(k)
<1> USE DEF ApiTypeOK, Same, UpdateRow, Broadcast, db, sema, toks, apiVars
<1>1. CASE StartJob(j)
  BY <1>1 DEF StartJob, Unused, Submit, InsertRow, Goto
<1>2. CASE DropSubmit(j)
  BY <1>2 DEF DropSubmit, Goto
<1>3. CASE Track(j) /\ UNCHANGED apiVars
  BY <1>3 DEF Track, Goto
<1>4. CASE Enqueue(j) /\ UNCHANGED apiVars
  BY <1>4 DEF Enqueue, Goto
<1>5. CASE Acquire(j) /\ UNCHANGED apiVars
  BY <1>5 DEF Acquire, Goto
<1>6. CASE AnnounceRunning(j) /\ UNCHANGED apiVars
  BY <1>6 DEF AnnounceRunning, Goto
<1>7. CASE MarkRunning(j) /\ UNCHANGED apiVars
  BY <1>7 DEF MarkRunning, Goto
<1>8. CASE LoadAsset(j) /\ UNCHANGED apiVars
  BY <1>8 DEF LoadAsset, Goto
<1>9. CASE SetupFails(j) /\ UNCHANGED apiVars
  BY <1>9 DEF SetupFails, Goto
<1>10. CASE SkipSnapshot(j) /\ UNCHANGED apiVars
  BY <1>10 DEF SkipSnapshot, Goto, RunsEngine
<1>11. CASE RefuseCancelled(j) /\ UNCHANGED apiVars
  BY <1>11 DEF RefuseCancelled, Goto
<1>12. CASE StartEngine(j) /\ UNCHANGED apiVars
  BY <1>12 DEF StartEngine, Goto
<1>13. CASE RecordCopy(j) /\ UNCHANGED apiVars
  BY <1>13 DEF RecordCopy, Goto
<1>14. CASE RecordFails(j) /\ UNCHANGED apiVars
  BY <1>14 DEF RecordFails, Goto
<1>15. CASE AnnounceCompleted(j) /\ UNCHANGED apiVars
  BY <1>15 DEF AnnounceCompleted, Goto
<1>16. CASE MarkCompleted(j) /\ UNCHANGED apiVars
  BY <1>16 DEF MarkCompleted, Goto
<1>17. CASE AnnounceFailed(j) /\ UNCHANGED apiVars
  BY <1>17 DEF AnnounceFailed, Goto
<1>18. CASE MarkFailed(j) /\ UNCHANGED apiVars
  BY <1>18 DEF MarkFailed, Goto
<1>19. CASE Untrack(j) /\ UNCHANGED apiVars
  BY <1>19 DEF Untrack, Goto
<1>20. CASE Release(j) /\ UNCHANGED apiVars
  BY <1>20 DEF Release, Goto
<1>21. CASE DropCancelled(j) /\ UNCHANGED apiVars
  BY <1>21 DEF DropCancelled, Goto
<1>22. CASE AnnounceCancelled(j) /\ UNCHANGED apiVars
  BY <1>22 DEF AnnounceCancelled, Goto
<1>23. CASE EngineReturns(j) /\ UNCHANGED apiVars
  BY <1>23 DEF EngineReturns, Goto
<1>24. CASE AnnouncePending(j)
  BY <1>24 DEF AnnouncePending, RestoreGoto
<1>25. CASE AnnounceRestoring(j)
  BY <1>25 DEF AnnounceRestoring, RestoreGoto
<1>26. CASE RestoreSetupFails(j)
  BY <1>26 DEF RestoreSetupFails, RestoreGoto
<1>27. CASE StartRestoring(j)
  BY <1>27 DEF StartRestoring, RestoreGoto
<1>28. CASE AnnounceRestored(j)
  BY <1>28 DEF AnnounceRestored, RestoreGoto
<1>29. CASE MarkRestored(j)
  BY <1>29 DEF MarkRestored, RestoreGoto
<1>30. CASE RestoreReturns(j)
  BY <1>30 DEF RestoreReturns, RestoreGoto
<1>31. CASE InsertRestore(j)
  BY <1>31 DEF InsertRestore, RestoreGoto, Unused
<1> QED
  BY <1>1, <1>2, <1>3, <1>4, <1>5, <1>6, <1>7, <1>8, <1>9, <1>10, <1>11, <1>12, <1>13,
     <1>14, <1>15, <1>16, <1>17, <1>18, <1>19, <1>20, <1>21, <1>22, <1>23, <1>24, <1>25,
     <1>26, <1>27, <1>28, <1>29, <1>30, <1>31 DEF QueueStep, TaskStep, RestoreStep

\* A job that is left as it was keeps its part of the invariant.
LEMMA SameKeeps == ASSUME NEW k \in Jobs, JobInv(k), Same(k) PROVE JobInv(k)'
BY DEF JobInv, Same, OneTask, EndWritten, EventFits, CopyFirst, Settled, HasTask, Lost, RecordsCopy

\* A handler writes only 'cancelled' to a row, removes it, or announces 'cancelled'.
LEMMA HandlerKeeps ==
    ASSUME ApiTypeOK, NEW r \in Requests, HandlerStep(r), NEW k \in Jobs, JobInv(k)
    PROVE  JobInv(k)'
<1> USE DEF ApiTypeOK, JobInv, OneTask, EndWritten, EventFits, CopyFirst, Settled, HasTask, Lost,
        RecordsCopy, UpdateRow, Broadcast, sema, toks, RestoreLive, Through, Leaving, Submitting
<1>1. CASE WriteCancelled(r)
  BY <1>1 DEF WriteCancelled, Proceed
<1>2. CASE AnnounceApiCancel(r)
  BY <1>2 DEF AnnounceApiCancel, Proceed
<1>3. CASE DeleteRow(r)
  BY <1>3 DEF DeleteRow, Proceed
<1> QED
  BY <1>1, <1>2, <1>3 DEF HandlerStep

\* A restart loses every task at work, and no event is left to disagree.
LEMMA RestartKeeps ==
    ASSUME ApiTypeOK, Restart, NEW k \in Jobs, JobInv(k)
    PROVE  JobInv(k)'
<1>1. /\ task'[k] = IF task[k] \in {"none", "done"} THEN task[k] ELSE "lost"
      /\ restore'[k] = IF restore[k] \in {"none", "done"} THEN restore[k] ELSE "lost"
      /\ event'[k] = "none"
      /\ UNCHANGED <<rows, copies, job>>
  BY DEF Restart, Lose, db
<1> QED
  BY <1>1 DEF ApiTypeOK, JobInv, OneTask, EndWritten, EventFits, CopyFirst, Settled, HasTask, Lost,
         RecordsCopy, RestoreLive, Through, Leaving, Submitting, RestorePlace

\* Every step keeps the invariant.
LEMMA NextApiInv == ApiTypeOK /\ ApiInv /\ [ApiNext]_allVars => ApiInv'
<1> SUFFICES ASSUME ApiTypeOK, ApiInv, [ApiNext]_allVars, NEW k \in Jobs
             PROVE  JobInv(k)'
  BY DEF ApiInv
<1>0. JobInv(k)
  BY DEF ApiInv
<1>1. ASSUME NEW j \in Jobs,
             StartJob(j) \/ DropSubmit(j) \/ QueueStep(j)
             \/ InsertRestore(j) \/ RestoreStep(j) \/ RestoreReturns(j)
      PROVE  JobInv(k)'
  BY <1>0, <1>1, OwnStep, OthersSame, SameKeeps
<1>2. ASSUME NEW r \in Requests, NEW j \in Jobs, ReadForCancel(r, j) \/ ReadForDelete(r, j)
      PROVE  JobInv(k)'
  <2>1. Same(k)
    BY <1>2 DEF Same, ReadForCancel, ReadForDelete, Proceed
  <2> QED
    BY <1>0, <2>1, SameKeeps
<1>3. ASSUME NEW r \in Requests, HandlerStep(r)
      PROVE  JobInv(k)'
  BY <1>0, <1>3, HandlerKeeps
<1>4. CASE Restart
  BY <1>0, <1>4, RestartKeeps
<1>5. CASE UNCHANGED allVars
  <2>1. Same(k)
    BY <1>5 DEF Same, allVars, vars, apiVars
  <2> QED
    BY <1>0, <2>1, SameKeeps
<1> QED
  BY <1>1, <1>2, <1>3, <1>4, <1>5 DEF ApiNext

\* The invariant holds in every reachable state.
LEMMA ApiInvAlways == ApiSpec => []ApiInv
BY InitApiInv, NextApiInv, ApiTypeCorrect, PTL DEF ApiSpec

\* As long as the process lives, an unfinished row has a task to finish it.
THEOREM UnfinishedHasTaskAlways == ApiSpec => []UnfinishedHasTask
<1>1. ApiInv => UnfinishedHasTask
  BY DEF ApiInv, JobInv, EndWritten, UnfinishedHasTask
<1> QED
  BY <1>1, ApiInvAlways, PTL

\* Neither a cancel nor a kill leaves a completed backup without its copy.
THEOREM CompletedHasCopyAlways == ApiSpec => []CompletedHasCopy
<1>1. ApiInv => CompletedHasCopy
  BY DEF ApiInv, JobInv, CopyFirst, CompletedHasCopy
<1> QED
  BY <1>1, ApiInvAlways, PTL

\* Only a cancel can leave the last event and the row of a job apart.
THEOREM DisagreeOnlyByCancelAlways == ApiSpec => []DisagreeOnlyByCancel
<1>1. ApiInv => DisagreeOnlyByCancel
  BY DEF ApiInv, JobInv, EventFits, Settled, DisagreeOnlyByCancel
<1> QED
  BY <1>1, ApiInvAlways, PTL

-----------------------------------------------------------------------------
(* A row that is gone stays gone                                           *)

\* The step predicate of DeletedStaysDeleted.
AbsentKept == \A j \in Jobs : rows[j] = "absent" /\ ~Unused(j) => rows'[j] = "absent"

\* No step writes a row that is absent, but the insert of a job not yet used.
LEMMA AbsentStays == ApiTypeOK /\ [ApiNext]_allVars => AbsentKept
<1> SUFFICES ASSUME ApiTypeOK, [ApiNext]_allVars
             PROVE  AbsentKept
  OBVIOUS
<1> USE DEF ApiTypeOK, AbsentKept, UpdateRow, db, apiVars, toks, sema
<1>1. ASSUME NEW j \in Jobs,
             StartJob(j) \/ DropSubmit(j) \/ QueueStep(j)
               \/ InsertRestore(j) \/ RestoreStep(j) \/ RestoreReturns(j)
      PROVE  AbsentKept
  <2>1. CASE StartJob(j)
    BY <2>1 DEF StartJob, Unused, Submit, InsertRow, Goto
  <2>2. CASE DropSubmit(j)
    BY <2>2 DEF DropSubmit, Goto
  <2>3. CASE Track(j) /\ UNCHANGED apiVars
    BY <2>3 DEF Track, Goto
  <2>4. CASE Enqueue(j) /\ UNCHANGED apiVars
    BY <2>4 DEF Enqueue, Goto
  <2>5. CASE Acquire(j) /\ UNCHANGED apiVars
    BY <2>5 DEF Acquire, Goto
  <2>6. CASE AnnounceRunning(j) /\ UNCHANGED apiVars
    BY <2>6 DEF AnnounceRunning, Goto
  <2>7. CASE MarkRunning(j) /\ UNCHANGED apiVars
    BY <2>7 DEF MarkRunning, Goto
  <2>8. CASE LoadAsset(j) /\ UNCHANGED apiVars
    BY <2>8 DEF LoadAsset, Goto
  <2>9. CASE SetupFails(j) /\ UNCHANGED apiVars
    BY <2>9 DEF SetupFails, Goto
  <2>10. CASE SkipSnapshot(j) /\ UNCHANGED apiVars
    BY <2>10 DEF SkipSnapshot, Goto, RunsEngine
  <2>11. CASE RefuseCancelled(j) /\ UNCHANGED apiVars
    BY <2>11 DEF RefuseCancelled, Goto
  <2>12. CASE StartEngine(j) /\ UNCHANGED apiVars
    BY <2>12 DEF StartEngine, Goto
  <2>13. CASE RecordCopy(j) /\ UNCHANGED apiVars
    BY <2>13 DEF RecordCopy, Goto
  <2>14. CASE RecordFails(j) /\ UNCHANGED apiVars
    BY <2>14 DEF RecordFails, Goto
  <2>15. CASE AnnounceCompleted(j) /\ UNCHANGED apiVars
    BY <2>15 DEF AnnounceCompleted, Goto
  <2>16. CASE MarkCompleted(j) /\ UNCHANGED apiVars
    BY <2>16 DEF MarkCompleted, Goto
  <2>17. CASE AnnounceFailed(j) /\ UNCHANGED apiVars
    BY <2>17 DEF AnnounceFailed, Goto
  <2>18. CASE MarkFailed(j) /\ UNCHANGED apiVars
    BY <2>18 DEF MarkFailed, Goto
  <2>19. CASE Untrack(j) /\ UNCHANGED apiVars
    BY <2>19 DEF Untrack, Goto
  <2>20. CASE Release(j) /\ UNCHANGED apiVars
    BY <2>20 DEF Release, Goto
  <2>21. CASE DropCancelled(j) /\ UNCHANGED apiVars
    BY <2>21 DEF DropCancelled, Goto
  <2>22. CASE AnnounceCancelled(j) /\ UNCHANGED apiVars
    BY <2>22 DEF AnnounceCancelled, Goto
  <2>23. CASE EngineReturns(j) /\ UNCHANGED apiVars
    BY <2>23 DEF EngineReturns, Goto
  <2>24. CASE AnnouncePending(j)
    BY <2>24 DEF AnnouncePending, RestoreGoto
  <2>25. CASE AnnounceRestoring(j)
    BY <2>25 DEF AnnounceRestoring, RestoreGoto
  <2>26. CASE RestoreSetupFails(j)
    BY <2>26 DEF RestoreSetupFails, RestoreGoto
  <2>27. CASE StartRestoring(j)
    BY <2>27 DEF StartRestoring, RestoreGoto
  <2>28. CASE AnnounceRestored(j)
    BY <2>28 DEF AnnounceRestored, RestoreGoto
  <2>29. CASE MarkRestored(j)
    BY <2>29 DEF MarkRestored, RestoreGoto
  <2>30. CASE RestoreReturns(j)
    BY <2>30 DEF RestoreReturns, RestoreGoto
  <2>31. CASE InsertRestore(j)
    BY <2>31 DEF InsertRestore, RestoreGoto, Unused
  <2> QED
    BY <1>1, <2>1, <2>2, <2>3, <2>4, <2>5, <2>6, <2>7, <2>8, <2>9, <2>10, <2>11, <2>12,
       <2>13, <2>14, <2>15, <2>16, <2>17, <2>18, <2>19, <2>20, <2>21, <2>22, <2>23, <2>24,
       <2>25, <2>26, <2>27, <2>28, <2>29, <2>30, <2>31 DEF QueueStep, TaskStep, RestoreStep
<1>2. ASSUME NEW r \in Requests, NEW j \in Jobs, ReadForCancel(r, j) \/ ReadForDelete(r, j)
      PROVE  AbsentKept
  BY <1>2 DEF ReadForCancel, ReadForDelete, Proceed
<1>3. ASSUME NEW r \in Requests, HandlerStep(r)
      PROVE  AbsentKept
  <2>0. call[r].step # "idle" => call[r].job \in Jobs
    BY DEF ApiTypeOK, Idle
  <2>1. CASE WriteCancelled(r)
    BY <2>0, <2>1 DEF WriteCancelled, Proceed
  <2>2. CASE AnnounceApiCancel(r)
    BY <2>0, <2>2 DEF AnnounceApiCancel, Proceed
  <2>3. CASE DeleteRow(r)
    BY <2>0, <2>3 DEF DeleteRow, Proceed
  <2> QED
    BY <1>3, <2>1, <2>2, <2>3 DEF HandlerStep
<1>4. CASE Restart
  BY <1>4 DEF Restart, Lose
<1>5. CASE UNCHANGED allVars
  BY <1>5 DEF allVars, vars, apiVars
<1> QED
  BY <1>1, <1>2, <1>3, <1>4, <1>5 DEF ApiNext

\* A deleted row is never written again, by whatever task is still at work.
THEOREM DeletedStaysDeletedAlways == ApiSpec => DeletedStaysDeleted
<1>1. ApiTypeOK /\ [ApiNext]_allVars => [AbsentKept]_allVars
  BY AbsentStays
<1> QED
  BY <1>1, ApiTypeOKAlways, PTL DEF ApiSpec, DeletedStaysDeleted, AbsentKept

-----------------------------------------------------------------------------
(* WriteFaults: the inductive invariant                                    *)

\* A task that only has its outcome left to write has announced it.
Told(j) ==
    \/ task[j] \in {"completing", "aborting"} \cup Leaving
    \/ restore[j] \in {"completing", "aborting"}
    => event[j] \in Final

\* What holds of a job whatever writes fail: the copy is recorded first, and
\* only a job of the queue ever records one; a task tells its outcome first.
Sure(j) ==
    /\ OneTask(j) /\ CopyFirst(j) /\ Told(j)
    /\ RecordsCopy(j) /\ event[j] = "completed" => j \in copies
    /\ Unused(j) => event[j] # "completed"

FaultInv ==
    /\ FaultTypeOK /\ PermitsConserved
    /\ \A j \in Jobs : Sure(j) /\ (j \notin lost => JobInv(j))

\* At first no write was lost.
LEMMA FaultInitHolds == FaultInit => FaultInv
<1> SUFFICES ASSUME FaultInit
             PROVE  FaultInv
  OBVIOUS
<1>1. ApiTypeOK /\ PermitsConserved /\ ApiInv
  BY ApiInitType, ApiInitPermits, InitApiInv DEF FaultInit
<1>2. \A j \in Jobs : event[j] = "none"
  BY DEF FaultInit, ApiInit, Init
<1> QED
  BY <1>1, <1>2 DEF FaultInit, FaultInv, FaultTypeOK, ApiInv, JobInv, Sure, Told, Leaving,
                     ApiInit, Init

-----------------------------------------------------------------------------
(* Steps of the agent                                                      *)

\* A step for one job keeps what is sure of it.
LEMMA SureOwnStep ==
    ASSUME ApiTypeOK, NEW j \in Jobs, Sure(j),
           StartJob(j) \/ DropSubmit(j) \/ QueueStep(j)
             \/ InsertRestore(j) \/ RestoreStep(j) \/ RestoreReturns(j)
    PROVE  Sure(j)'
<1> USE DEF ApiTypeOK, Sure, Told, Leaving, Final, OneTask, CopyFirst, Unused, UpdateRow, Broadcast,
        db, sema, toks, apiVars, NoJob, RecordsCopy
<1>1. CASE StartJob(j)
  BY <1>1 DEF StartJob, Unused, Submit, InsertRow, Goto
<1>2. CASE DropSubmit(j)
  BY <1>2 DEF DropSubmit, Goto
<1>3. CASE Track(j) /\ UNCHANGED apiVars
  BY <1>3 DEF Track, Goto
<1>4. CASE Enqueue(j) /\ UNCHANGED apiVars
  BY <1>4 DEF Enqueue, Goto
<1>5. CASE Acquire(j) /\ UNCHANGED apiVars
  BY <1>5 DEF Acquire, Goto
<1>6. CASE AnnounceRunning(j) /\ UNCHANGED apiVars
  BY <1>6 DEF AnnounceRunning, Goto
<1>7. CASE MarkRunning(j) /\ UNCHANGED apiVars
  BY <1>7 DEF MarkRunning, Goto
<1>8. CASE LoadAsset(j) /\ UNCHANGED apiVars
  BY <1>8 DEF LoadAsset, Goto
<1>9. CASE SetupFails(j) /\ UNCHANGED apiVars
  BY <1>9 DEF SetupFails, Goto
<1>10. CASE SkipSnapshot(j) /\ UNCHANGED apiVars
  BY <1>10 DEF SkipSnapshot, Goto, RunsEngine
<1>11. CASE RefuseCancelled(j) /\ UNCHANGED apiVars
  BY <1>11 DEF RefuseCancelled, Goto
<1>12. CASE StartEngine(j) /\ UNCHANGED apiVars
  BY <1>12 DEF StartEngine, Goto
<1>13. CASE RecordCopy(j) /\ UNCHANGED apiVars
  BY <1>13 DEF RecordCopy, Goto
<1>14. CASE RecordFails(j) /\ UNCHANGED apiVars
  BY <1>14 DEF RecordFails, Goto
<1>15. CASE AnnounceCompleted(j) /\ UNCHANGED apiVars
  BY <1>15 DEF AnnounceCompleted, Goto
<1>16. CASE MarkCompleted(j) /\ UNCHANGED apiVars
  BY <1>16 DEF MarkCompleted, Goto
<1>17. CASE AnnounceFailed(j) /\ UNCHANGED apiVars
  BY <1>17 DEF AnnounceFailed, Goto
<1>18. CASE MarkFailed(j) /\ UNCHANGED apiVars
  BY <1>18 DEF MarkFailed, Goto
<1>19. CASE Untrack(j) /\ UNCHANGED apiVars
  BY <1>19 DEF Untrack, Goto
<1>20. CASE Release(j) /\ UNCHANGED apiVars
  BY <1>20 DEF Release, Goto
<1>21. CASE DropCancelled(j) /\ UNCHANGED apiVars
  BY <1>21 DEF DropCancelled, Goto
<1>22. CASE AnnounceCancelled(j) /\ UNCHANGED apiVars
  BY <1>22 DEF AnnounceCancelled, Goto
<1>23. CASE EngineReturns(j) /\ UNCHANGED apiVars
  BY <1>23 DEF EngineReturns, Goto
<1>24. CASE AnnouncePending(j)
  BY <1>24 DEF AnnouncePending, RestoreGoto
<1>25. CASE AnnounceRestoring(j)
  BY <1>25 DEF AnnounceRestoring, RestoreGoto
<1>26. CASE RestoreSetupFails(j)
  BY <1>26 DEF RestoreSetupFails, RestoreGoto
<1>27. CASE StartRestoring(j)
  BY <1>27 DEF StartRestoring, RestoreGoto
<1>28. CASE AnnounceRestored(j)
  BY <1>28 DEF AnnounceRestored, RestoreGoto
<1>29. CASE MarkRestored(j)
  BY <1>29 DEF MarkRestored, RestoreGoto
<1>30. CASE RestoreReturns(j)
  BY <1>30 DEF RestoreReturns, RestoreGoto
<1>31. CASE InsertRestore(j)
  BY <1>31 DEF InsertRestore, RestoreGoto, Unused
<1> QED
  BY <1>1, <1>2, <1>3, <1>4, <1>5, <1>6, <1>7, <1>8, <1>9, <1>10, <1>11, <1>12, <1>13,
     <1>14, <1>15, <1>16, <1>17, <1>18, <1>19, <1>20, <1>21, <1>22, <1>23, <1>24, <1>25,
     <1>26, <1>27, <1>28, <1>29, <1>30, <1>31 DEF QueueStep, TaskStep, RestoreStep

\* A job that is left as it was keeps it.
LEMMA SureSameKeeps == ASSUME NEW k \in Jobs, Sure(k), Same(k) PROVE Sure(k)'
BY DEF Sure, Told, Same, OneTask, CopyFirst, Unused, RecordsCopy

\* A handler writes or announces 'cancelled', or removes a row.
LEMMA SureHandlerKeeps ==
    ASSUME ApiTypeOK, NEW r \in Requests, HandlerStep(r), NEW k \in Jobs, Sure(k)
    PROVE  Sure(k)'
<1> USE DEF ApiTypeOK, Sure, Told, Leaving, Final, OneTask, CopyFirst, Unused, RecordsCopy,
        UpdateRow, Broadcast, sema, toks
<1>1. CASE WriteCancelled(r)
  BY <1>1 DEF WriteCancelled, Proceed
<1>2. CASE AnnounceApiCancel(r)
  BY <1>2 DEF AnnounceApiCancel, Proceed
<1>3. CASE DeleteRow(r)
  BY <1>3 DEF DeleteRow, Proceed
<1> QED
  BY <1>1, <1>2, <1>3 DEF HandlerStep

\* A restart announces nothing and leaves rows and copies as they are.
LEMMA SureRestartKeeps ==
    ASSUME ApiTypeOK, Restart, NEW k \in Jobs, Sure(k)
    PROVE  Sure(k)'
<1>1. /\ task'[k] = IF task[k] \in {"none", "done"} THEN task[k] ELSE "lost"
      /\ restore'[k] = IF restore[k] \in {"none", "done"} THEN restore[k] ELSE "lost"
      /\ event'[k] = "none"
      /\ UNCHANGED <<rows, copies, job>>
  BY DEF Restart, Lose, db
<1> QED
  BY <1>1 DEF ApiTypeOK, Sure, Told, Leaving, Final, OneTask, CopyFirst, Unused, RecordsCopy

\* Every step of the agent keeps both parts, each job's by itself.
LEMMA ApiStepKeeps ==
    ASSUME ApiTypeOK, [ApiNext]_allVars, NEW k \in Jobs
    PROVE  (Sure(k) => Sure(k)') /\ (JobInv(k) => JobInv(k)')
<1>1. ASSUME NEW j \in Jobs,
             StartJob(j) \/ DropSubmit(j) \/ QueueStep(j)
             \/ InsertRestore(j) \/ RestoreStep(j) \/ RestoreReturns(j)
      PROVE  (Sure(k) => Sure(k)') /\ (JobInv(k) => JobInv(k)')
  BY <1>1, OwnStep, SureOwnStep, OthersSame, SameKeeps, SureSameKeeps
<1>2. ASSUME NEW r \in Requests, NEW j \in Jobs, ReadForCancel(r, j) \/ ReadForDelete(r, j)
      PROVE  (Sure(k) => Sure(k)') /\ (JobInv(k) => JobInv(k)')
  <2>1. Same(k)
    BY <1>2 DEF Same, ReadForCancel, ReadForDelete, Proceed
  <2> QED
    BY <2>1, SameKeeps, SureSameKeeps
<1>3. ASSUME NEW r \in Requests, HandlerStep(r)
      PROVE  (Sure(k) => Sure(k)') /\ (JobInv(k) => JobInv(k)')
  BY <1>3, HandlerKeeps, SureHandlerKeeps
<1>4. CASE Restart
  BY <1>4, RestartKeeps, SureRestartKeeps
<1>5. CASE UNCHANGED allVars
  <2>1. Same(k)
    BY <1>5 DEF Same, allVars, vars, apiVars
  <2> QED
    BY <2>1, SameKeeps, SureSameKeeps
<1> QED
  BY <1>1, <1>2, <1>3, <1>4, <1>5 DEF ApiNext

-----------------------------------------------------------------------------
(* Writes that fail                                                        *)

\* A lost write moves its task on and changes nothing else.
LEMMA LostWriteMoves ==
    ASSUME ApiTypeOK, NEW j \in Jobs, LoseWrite(j)
    PROVE  /\ ApiTypeOK' /\ Holders' = Holders /\ permits' = permits
           /\ lost' = lost \cup {j}
           /\ Sure(j) => Sure(j)'
           /\ \A k \in Jobs : k # j => Same(k)
<1> USE DEF ApiTypeOK, Same, Sure, Told, OneTask, CopyFirst, Unused, RecordsCopy, db, sema, toks, apiVars,
        Holders, Holding, Executing, Leaving, Waiting, Submitting, Place, RestorePlace, RestoreLive
<1>1. CASE LoseTaskWrite(j)
  BY <1>1 DEF LoseWrite, LoseTaskWrite, Goto
<1>2. CASE LoseRestoreWrite(j)
  BY <1>2 DEF LoseWrite, LoseRestoreWrite, RestoreGoto
<1> QED
  BY <1>1, <1>2 DEF LoseWrite

\* A handler that fails only ends.
LEMMA FailedHandlerEnds ==
    ASSUME ApiTypeOK, NEW r \in Requests, HandlerFails(r)
    PROVE  /\ ApiTypeOK' /\ Holders' = Holders /\ permits' = permits
           /\ \A k \in Jobs : Same(k)
BY DEF HandlerFails, Proceed, ApiTypeOK, Same, sema, toks, Idle, Holders

\* Every step keeps the invariant.
LEMMA FaultNextKeeps == FaultInv /\ [FaultNext]_faultVars => FaultInv'
<1> SUFFICES ASSUME FaultInv, [FaultNext]_faultVars
             PROVE  FaultInv'
  OBVIOUS
<1>0. ApiTypeOK /\ lost \subseteq Jobs /\ PermitsConserved
  BY DEF FaultInv, FaultTypeOK
<1>1. CASE [ApiNext]_allVars /\ UNCHANGED lost
  <2>1. ApiTypeOK' /\ PermitsConserved'
    BY <1>0, <1>1, ApiNextPermits, NextTypes
  <2>2. ASSUME NEW k \in Jobs
        PROVE  Sure(k)' /\ (k \notin lost' => JobInv(k)')
    BY <1>0, <1>1, ApiStepKeeps DEF FaultInv
  <2> QED
    BY <1>0, <1>1, <2>1, <2>2 DEF FaultInv, FaultTypeOK
<1>2. ASSUME NEW j \in Jobs, LoseWrite(j)
      PROVE  FaultInv'
  <2>1. /\ ApiTypeOK' /\ Holders' = Holders /\ permits' = permits
        /\ lost' = lost \cup {j}
        /\ Sure(j) => Sure(j)'
        /\ \A k \in Jobs : k # j => Same(k)
    BY <1>0, <1>2, LostWriteMoves
  <2>2. ASSUME NEW k \in Jobs
        PROVE  Sure(k)' /\ (k \notin lost' => JobInv(k)')
    BY <2>1, SameKeeps, SureSameKeeps DEF FaultInv
  <2> QED
    BY <1>0, <2>1, <2>2 DEF FaultInv, FaultTypeOK, PermitsConserved
<1>3. ASSUME NEW r \in Requests, HandlerFails(r), UNCHANGED lost
      PROVE  FaultInv'
  <2>1. /\ ApiTypeOK' /\ Holders' = Holders /\ permits' = permits
        /\ \A k \in Jobs : Same(k)
    BY <1>0, <1>3, FailedHandlerEnds
  <2>2. ASSUME NEW k \in Jobs
        PROVE  Sure(k)' /\ (k \notin lost' => JobInv(k)')
    BY <1>3, <2>1, SameKeeps, SureSameKeeps DEF FaultInv
  <2> QED
    BY <1>0, <1>3, <2>1, <2>2 DEF FaultInv, FaultTypeOK, PermitsConserved
<1> QED
  BY <1>1, <1>2, <1>3 DEF FaultNext, faultVars

\* Whatever writes fail, a job keeps the invariant of JobsApi until one of its
\* own is lost, and what its copy rests on even then.
THEOREM FaultInvariant == FaultSpec => []FaultInv
BY FaultInitHolds, FaultNextKeeps, PTL DEF FaultSpec

\* Types are kept whatever writes fail.
THEOREM FaultTypeOKAlways == FaultSpec => []FaultTypeOK
<1>1. FaultInv => FaultTypeOK
  BY DEF FaultInv
<1> QED
  BY <1>1, FaultInvariant, PTL

\* A task whose write fails gives its permit back like any other.
THEOREM FaultPermitsConserved == FaultSpec => []PermitsConserved
<1>1. FaultInv => PermitsConserved
  BY DEF FaultInv
<1> QED
  BY <1>1, FaultInvariant, PTL

\* A failed write strands the row of its own job and no other.
THEOREM StrandedByOwnWriteAlways == FaultSpec => []StrandedByOwnWrite
<1>1. FaultInv => StrandedByOwnWrite
  BY DEF FaultInv, JobInv, EndWritten, StrandedByOwnWrite
<1> QED
  BY <1>1, FaultInvariant, PTL

\* Row and last event come apart only by a cancel or a lost write.
THEOREM DisagreeOnlyByLossAlways == FaultSpec => []DisagreeOnlyByLoss
<1>1. FaultInv => DisagreeOnlyByLoss
  BY DEF FaultInv, JobInv, EventFits, Settled, DisagreeOnlyByLoss
<1> QED
  BY <1>1, FaultInvariant, PTL

\* The copy is there whichever of the row and the event tells of the success.
THEOREM SuccessHasCopyAlways == FaultSpec => []SuccessHasCopy
<1>1. FaultInv => SuccessHasCopy
  BY DEF FaultInv, Sure, CopyFirst, SuccessHasCopy
<1> QED
  BY <1>1, FaultInvariant, PTL

-----------------------------------------------------------------------------
(* The outcome is told before the task ends                                *)

\* Only the release of its permit ends a task of the queue.
LEMMA QueueTaskEnds ==
    ASSUME ApiTypeOK, NEW j \in Jobs, Sure(j), QueueStep(j), HasTask(j), ~HasTask(j)'
    PROVE  event'[j] \in Final
<1> USE DEF ApiTypeOK, HasTask, Goto, apiVars
<1>1. ASSUME \/ Track(j) \/ Enqueue(j) \/ Acquire(j)
             \/ DropCancelled(j) \/ AnnounceCancelled(j)
             \/ AnnounceRunning(j) \/ MarkRunning(j)
      PROVE  FALSE
  BY <1>1
     DEF Track, Enqueue, Acquire, DropCancelled, AnnounceCancelled, AnnounceRunning, MarkRunning
<1>2. ASSUME \/ LoadAsset(j) \/ SetupFails(j) \/ SkipSnapshot(j)
             \/ RefuseCancelled(j) \/ StartEngine(j) \/ EngineReturns(j)
      PROVE  FALSE
  BY <1>2 DEF LoadAsset, SetupFails, SkipSnapshot, RefuseCancelled, StartEngine, EngineReturns
<1>3. ASSUME \/ RecordCopy(j) \/ RecordFails(j)
             \/ AnnounceCompleted(j) \/ MarkCompleted(j)
             \/ AnnounceFailed(j) \/ MarkFailed(j) \/ Untrack(j)
      PROVE  FALSE
  BY <1>3
     DEF RecordCopy, RecordFails, AnnounceCompleted, MarkCompleted, AnnounceFailed, MarkFailed,
         Untrack
<1>4. CASE Release(j)
  BY <1>4 DEF Release, Sure, Told, Leaving
<1> QED
  BY <1>1, <1>2, <1>3, <1>4 DEF QueueStep, TaskStep

\* Only the write of its outcome ends the task of a restore.
LEMMA RestoreTaskEnds ==
    ASSUME ApiTypeOK, NEW j \in Jobs, Sure(j), RestoreStep(j) \/ RestoreReturns(j),
           HasTask(j), ~HasTask(j)'
    PROVE  event'[j] \in Final
<1> USE DEF ApiTypeOK, HasTask, RestoreLive, RestoreGoto
<1>1. ASSUME \/ AnnouncePending(j) \/ AnnounceRestoring(j) \/ RestoreSetupFails(j)
             \/ StartRestoring(j) \/ RestoreReturns(j) \/ AnnounceRestored(j)
      PROVE  FALSE
  BY <1>1
     DEF AnnouncePending, AnnounceRestoring, RestoreSetupFails, StartRestoring, RestoreReturns,
         AnnounceRestored
<1>2. CASE MarkRestored(j)
  BY <1>2 DEF MarkRestored, Sure, Told
<1> QED
  BY <1>1, <1>2 DEF RestoreStep

\* A job that is left as it was keeps its task.
LEMMA SameKeepsTask == ASSUME NEW k \in Jobs, Same(k) PROVE HasTask(k)' <=> HasTask(k)
BY DEF Same, HasTask

\* Whatever ends a task of the agent, the outcome was told or the task lost.
LEMMA ApiTaskEnds ==
    ASSUME ApiTypeOK, [ApiNext]_allVars, NEW k \in Jobs, Sure(k), HasTask(k), ~HasTask(k)'
    PROVE  event'[k] \in Final \/ Lost(k)'
<1>1. ASSUME NEW j \in Jobs, k # j,
             StartJob(j) \/ DropSubmit(j) \/ QueueStep(j)
             \/ InsertRestore(j) \/ RestoreStep(j) \/ RestoreReturns(j)
      PROVE  FALSE
  BY <1>1, OthersSame, SameKeepsTask
<1>2. CASE StartJob(k) \/ InsertRestore(k)
  <2>1. task[k] = "none" /\ restore[k] = "none"
    BY <1>2 DEF StartJob, InsertRestore, Unused
  <2> QED
    BY <2>1 DEF HasTask, RestoreLive
<1>3. CASE DropSubmit(k)
  BY <1>3 DEF DropSubmit, Goto, Lost, ApiTypeOK
<1>4. CASE QueueStep(k)
  BY <1>4, QueueTaskEnds
<1>5. CASE RestoreStep(k) \/ RestoreReturns(k)
  BY <1>5, RestoreTaskEnds
<1>6. ASSUME \/ \E r \in Requests, j \in Jobs : ReadForCancel(r, j) \/ ReadForDelete(r, j)
             \/ \E r \in Requests : HandlerStep(r)
             \/ UNCHANGED allVars
      PROVE  FALSE
  <2>1. task' = task /\ restore' = restore
    BY <1>6 DEF ReadForCancel, ReadForDelete, HandlerStep, WriteCancelled, AnnounceApiCancel,
                DeleteRow, Proceed, allVars, vars, apiVars
  <2> QED
    BY <2>1 DEF HasTask
<1>7. CASE Restart
  BY <1>7 DEF Restart, Lose, HasTask, Lost, RestoreLive
<1> QED
  BY <1>1, <1>2, <1>3, <1>4, <1>5, <1>6, <1>7 DEF ApiNext

\* A task whose last write is lost had told its outcome before.
LEMMA LosingTaskEnds ==
    ASSUME ApiTypeOK, NEW j \in Jobs, LoseWrite(j),
           NEW k \in Jobs, Sure(k), HasTask(k), ~HasTask(k)'
    PROVE  event'[k] \in Final
<1>1. CASE k # j
  BY <1>1, LostWriteMoves, SameKeepsTask
<1>2. CASE LoseTaskWrite(k)
  BY <1>2 DEF LoseTaskWrite, Goto, HasTask, ApiTypeOK
<1>3. CASE LoseRestoreWrite(k)
  BY <1>3 DEF LoseRestoreWrite, RestoreGoto, HasTask, ApiTypeOK, Sure, Told
<1> QED
  BY <1>1, <1>2, <1>3 DEF LoseWrite

\* No task ends without having told its outcome, however many writes fail: the
\* safety half of OutcomeAlwaysTold.
THEOREM OutcomeToldAlways == FaultSpec => OutcomeTold
<1>1. ASSUME FaultInv, [FaultNext]_faultVars, NEW k \in Jobs, HasTask(k), ~HasTask(k)'
      PROVE  event'[k] \in Final \/ Lost(k)'
  <2>0. ApiTypeOK /\ Sure(k)
    BY <1>1 DEF FaultInv, FaultTypeOK
  <2>1. CASE [ApiNext]_allVars
    BY <1>1, <2>0, <2>1, ApiTaskEnds
  <2>2. ASSUME NEW j \in Jobs, LoseWrite(j)
        PROVE  event'[k] \in Final
    BY <1>1, <2>0, <2>2, LosingTaskEnds
  <2>3. ASSUME NEW r \in Requests, HandlerFails(r)
        PROVE  FALSE
    BY <1>1, <2>0, <2>3, FailedHandlerEnds, SameKeepsTask
  <2> QED
    BY <1>1, <2>1, <2>2, <2>3 DEF FaultNext, faultVars
<1>2. FaultInv /\ [FaultNext]_faultVars
      => [\A j \in Jobs : HasTask(j) /\ ~HasTask(j)' => event'[j] \in Final \/ Lost(j)']_faultVars
  BY <1>1
<1> QED
  BY <1>2, FaultInvariant, PTL DEF FaultSpec, OutcomeTold

\* A deleted row is never written again, whichever writes fail.
THEOREM FaultDeletedStaysDeleted == FaultSpec => DeletedStaysDeleted
<1>1. ApiTypeOK /\ [FaultNext]_faultVars => [AbsentKept]_allVars
  <2> SUFFICES ASSUME ApiTypeOK, [FaultNext]_faultVars
               PROVE  [AbsentKept]_allVars
    OBVIOUS
  <2>1. CASE [ApiNext]_allVars
    BY <2>1, AbsentStays
  <2>2. CASE UNCHANGED rows
    BY <2>2 DEF AbsentKept
  <2> QED
    BY <2>1, <2>2 DEF FaultNext, LoseWrite, LoseTaskWrite, LoseRestoreWrite, HandlerFails, faultVars, db
<1>2. FaultTypeOK => ApiTypeOK
  BY DEF FaultTypeOK
<1>3. FaultTypeOK /\ [FaultNext]_faultVars => [AbsentKept]_allVars
  BY <1>1, <1>2
<1> QED
  BY <1>3, FaultTypeOKAlways, PTL DEF FaultSpec, DeletedStaysDeleted, AbsentKept
=============================================================================
