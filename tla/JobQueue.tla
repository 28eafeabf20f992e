------------------------------ MODULE JobQueue ------------------------------
(***************************************************************************)
(* The agent's job queue (runner/queue.rs) and the body of the task it     *)
(* spawns for every job (runner/execute.rs): submit inserts a pending row, *)
(* records a cancellation token in the active map and spawns a task; the   *)
(* task waits for a permit of a counting semaphore, runs the job and       *)
(* writes the row's final status.  Every call of Database::with_conn holds *)
(* the one connection's mutex and is one atomic step; so is every event    *)
(* broadcast on the progress bus.  Steps of different tasks interleave     *)
(* freely.                                                                 *)
(*                                                                         *)
(* The asset, SLA and configuration a task reads belong to other           *)
(* components: here any such read may succeed or fail.                     *)
(***************************************************************************)
EXTENDS Naturals, Sequences, FiniteSets

CONSTANTS
    Jobs,           \* job identifiers (uuids); each is submitted at most once
    Operations,     \* operations that are submitted
    Configs,        \* kinds of asset configuration that are submitted
    MaxConcurrent   \* AgentConfig::max_concurrent_jobs

ASSUME QueueAssumption ==
    /\ Operations \subseteq {"backup", "restore", "snapshot"}
    /\ Configs \subseteq {"fileset", "consistent", "nas", "volume"}
    /\ MaxConcurrent \in Nat

VARIABLES
    rows,       \* status of each row of job_executions, or "absent"
    copies,     \* the jobs with a row in backup_copies
    job,        \* operation and configuration of each job
    event,      \* the status broadcast last for each job, or "none"
    active,     \* keys of JobQueue::active
    cancelled,  \* jobs whose CancellationToken is cancelled
    permits,    \* free permits of JobQueue::semaphore
    waiters,    \* tasks waiting for a permit, first come first served
    task        \* how far the submission or the task of each job has come

db   == <<rows, copies>>
sema == <<permits, waiters>>
toks == <<active, cancelled>>
vars == <<rows, copies, job, event, active, cancelled, permits, waiters, task>>

Final     == {"completed", "failed", "cancelled"}
RowStatus == {"absent", "pending", "running"} \cup Final

\* Places of a submission, then of a task before, with and after a permit.
Submitting == {"none", "inserted"}
Waiting    == {"spawned", "queued"}
Executing  == {"announced", "marked", "loaded", "engine", "recording",
               "succeeding", "failing", "completing", "aborting"}
Leaving    == {"finished", "leaving"}
Holding    == {"holding", "dropping"} \cup Executing \cup Leaving
Place      == Submitting \cup Waiting \cup Holding \cup {"done"}

NotStarted == {"inserted", "holding", "announced"} \cup Waiting
Started    == Executing \ {"announced"}
Through    == Leaving \cup {"done"}

\* Tasks that still have their entry in the active map to give back.
Tracked == (Waiting \cup Holding) \ {"leaving"}

NoJob == [op |-> "none", config |-> "none"]

RecordsCopy(j) == job[j].op = "backup" /\ job[j].config # "volume"
ChecksToken(j) == ~(job[j].op = "backup" /\ job[j].config = "volume")
RunsEngine(j)  == job[j].op # "snapshot"

\* The file adapter broadcasts "running" again when it starts.
Reannounces(j) == \/ job[j].op = "backup" /\ job[j].config = "fileset"
                  \/ job[j].op = "restore" /\ job[j].config # "volume"

Init ==
    /\ rows = [j \in Jobs |-> "absent"]
    /\ copies = {}
    /\ job = [j \in Jobs |-> NoJob]
    /\ event = [j \in Jobs |-> "none"]
    /\ active = {}
    /\ cancelled = {}
    /\ permits = MaxConcurrent
    /\ waiters = <<>>
    /\ task = [j \in Jobs |-> "none"]

Goto(j, from, to) ==
    /\ task[j] = from
    /\ task' = [task EXCEPT ![j] = to]

\* Mutant of UpdateRow: INSERT OR REPLACE instead of UPDATE.
UpsertRow(j, status) ==
    /\ rows' = [rows EXCEPT ![j] = status]
    /\ UNCHANGED copies

\* UPDATE ... WHERE id = j: a row that is gone stays gone.
UpdateRow(j, status) ==
    /\ rows' = IF rows[j] = "absent" THEN rows ELSE [rows EXCEPT ![j] = status]
    /\ UNCHANGED copies

Broadcast(j, status) == event' = [event EXCEPT ![j] = status]

-----------------------------------------------------------------------------
(* JobQueue::submit                                                        *)

\* A failed insert returns an error and leaves nothing behind.
InsertRow(j, o, c) ==
    /\ Goto(j, "none", "inserted")
    /\ rows' = [rows EXCEPT ![j] = "pending"]
    /\ job' = [job EXCEPT ![j] = [op |-> o, config |-> c]]
    /\ UNCHANGED <<copies, event, toks, sema>>

\* The token enters the map under its lock; the spawn follows with no await.
Track(j) ==
    /\ Goto(j, "inserted", "spawned")
    /\ active' = active \cup {j}
    /\ UNCHANGED <<db, job, event, cancelled, sema>>

(* JobQueue::cancel: a job that is not in the map is refused.              *)
Cancel(j) ==
    /\ j \in active
    /\ active' = active \ {j}
    /\ cancelled' = cancelled \cup {j}
    /\ UNCHANGED <<db, job, event, sema, task>>

-----------------------------------------------------------------------------
(* The spawned task                                                        *)

\* semaphore.acquire(): tokio's semaphore serves its waiters in order.
Enqueue(j) ==
    /\ Goto(j, "spawned", "queued")
    /\ waiters' = Append(waiters, j)
    /\ UNCHANGED <<db, job, event, toks, permits>>

\* Mutant of Acquire: the permit is dropped at once (let _ = ... instead of
\* let _permit = ...).
AcquireDropsPermit(j) ==
    /\ permits > 0
    /\ waiters # <<>> /\ Head(waiters) = j
    /\ Goto(j, "queued", "holding")
    /\ waiters' = Tail(waiters)
    /\ UNCHANGED <<db, job, event, toks, permits>>

Acquire(j) ==
    /\ permits > 0
    /\ waiters # <<>> /\ Head(waiters) = j
    /\ Goto(j, "queued", "holding")
    /\ permits' = permits - 1
    /\ waiters' = Tail(waiters)
    /\ UNCHANGED <<db, job, event, toks>>

\* Mutant of DropCancelled: no return after the row was written.
DropCancelledFallsThrough(j) ==
    /\ j \in cancelled
    /\ Goto(j, "holding", "announced")
    /\ UpdateRow(j, "cancelled")
    /\ UNCHANGED <<job, event, toks, sema>>

\* The token is checked once the permit is there.
DropCancelled(j) ==
    /\ j \in cancelled
    /\ Goto(j, "holding", "dropping")
    /\ UpdateRow(j, "cancelled")
    /\ UNCHANGED <<job, event, toks, sema>>

AnnounceCancelled(j) ==
    /\ Goto(j, "dropping", "finished")
    /\ Broadcast(j, "cancelled")
    /\ UNCHANGED <<db, job, toks, sema>>

\* Mutant of AnnounceRunning: the token is not checked.
AnnounceRunningUnchecked(j) ==
    /\ Goto(j, "holding", "announced")
    /\ Broadcast(j, "running")
    /\ UNCHANGED <<db, job, toks, sema>>

AnnounceRunning(j) ==
    /\ j \notin cancelled
    /\ Goto(j, "holding", "announced")
    /\ Broadcast(j, "running")
    /\ UNCHANGED <<db, job, toks, sema>>

\* Mutant of MarkRunning: only started_at is written, the status is not.
MarkRunningTimeOnly(j) ==
    /\ Goto(j, "announced", "marked")
    /\ UNCHANGED <<db, job, event, toks, sema>>

\* update_started_at writes 'running' whatever the row's status is.
MarkRunning(j) ==
    /\ Goto(j, "announced", "marked")
    /\ UpdateRow(j, "running")
    /\ UNCHANGED <<job, event, toks, sema>>

LoadAsset(j) ==
    /\ Goto(j, "marked", "loaded")
    /\ UNCHANGED <<db, job, event, toks, sema>>

\* The asset, its SLA, its target directory or the copy to restore is missing.
SetupFails(j) ==
    /\ \/ Goto(j, "marked", "failing")
       \/ RunsEngine(j) /\ Goto(j, "loaded", "failing")
    /\ UNCHANGED <<db, job, event, toks, sema>>

\* A snapshot only logs that it is not implemented, and succeeds.
SkipSnapshot(j) ==
    /\ ~RunsEngine(j)
    /\ Goto(j, "loaded", "succeeding")
    /\ UNCHANGED <<db, job, event, toks, sema>>

RefuseCancelled(j) ==
    /\ RunsEngine(j) /\ ChecksToken(j) /\ j \in cancelled
    /\ Goto(j, "loaded", "failing")
    /\ UNCHANGED <<db, job, event, toks, sema>>

StartEngine(j) ==
    /\ RunsEngine(j)
    /\ ChecksToken(j) => j \notin cancelled
    /\ Goto(j, "loaded", "engine")
    /\ IF Reannounces(j) THEN Broadcast(j, "running") ELSE UNCHANGED event
    /\ UNCHANGED <<db, job, toks, sema>>

\* The blocking call of the engine returns; it never sees the token.
EngineReturns(j) ==
    /\ \/ RecordsCopy(j) /\ Goto(j, "engine", "recording")
       \/ ~RecordsCopy(j) /\ Goto(j, "engine", "succeeding")
       \/ Goto(j, "engine", "failing")
    /\ UNCHANGED <<db, job, event, toks, sema>>

RecordCopy(j) ==
    /\ Goto(j, "recording", "succeeding")
    /\ copies' = copies \cup {j}
    /\ UNCHANGED <<rows, job, event, toks, sema>>

\* Mutant of RecordFails: the insert's error is swallowed.
RecordFailsSilently(j) ==
    /\ Goto(j, "recording", "succeeding")
    /\ UNCHANGED <<db, job, event, toks, sema>>

RecordFails(j) ==
    /\ Goto(j, "recording", "failing")
    /\ UNCHANGED <<db, job, event, toks, sema>>

\* Clients hear of the outcome before the row shows it.
AnnounceCompleted(j) ==
    /\ Goto(j, "succeeding", "completing")
    /\ Broadcast(j, "completed")
    /\ UNCHANGED <<db, job, toks, sema>>

MarkCompleted(j) ==
    /\ Goto(j, "completing", "finished")
    /\ UpdateRow(j, "completed")
    /\ UNCHANGED <<job, event, toks, sema>>

\* Mutant of AnnounceFailed: the task returns after the event.
AnnounceFailedReturns(j) ==
    /\ Goto(j, "failing", "finished")
    /\ Broadcast(j, "failed")
    /\ UNCHANGED <<db, job, toks, sema>>

AnnounceFailed(j) ==
    /\ Goto(j, "failing", "aborting")
    /\ Broadcast(j, "failed")
    /\ UNCHANGED <<db, job, toks, sema>>

MarkFailed(j) ==
    /\ Goto(j, "aborting", "finished")
    /\ UpdateRow(j, "failed")
    /\ UNCHANGED <<job, event, toks, sema>>

\* Mutant of Untrack: the job stays in the active map.
UntrackNot(j) ==
    /\ Goto(j, "finished", "leaving")
    /\ UNCHANGED <<db, job, event, toks, sema>>

Untrack(j) ==
    /\ Goto(j, "finished", "leaving")
    /\ active' = active \ {j}
    /\ UNCHANGED <<db, job, event, cancelled, sema>>

\* Mutant of Release: the permit is forgotten.
ReleaseForgets(j) ==
    /\ Goto(j, "leaving", "done")
    /\ UNCHANGED <<db, job, event, toks, sema>>

\* The permit is given back when the task's closure ends.
Release(j) ==
    /\ Goto(j, "leaving", "done")
    /\ permits' = permits + 1
    /\ UNCHANGED <<db, job, event, toks, waiters>>

-----------------------------------------------------------------------------

Submit(j) == \E o \in Operations, c \in Configs : InsertRow(j, o, c)

\* What the runtime does of itself for the job, the engine's part excepted.
TaskStep(j) ==
    \/ Track(j) \/ Enqueue(j) \/ Acquire(j)
    \/ DropCancelled(j) \/ AnnounceCancelled(j)
    \/ AnnounceRunning(j) \/ MarkRunning(j)
    \/ LoadAsset(j) \/ SetupFails(j) \/ SkipSnapshot(j)
    \/ RefuseCancelled(j) \/ StartEngine(j)
    \/ RecordCopy(j) \/ RecordFails(j)
    \/ AnnounceCompleted(j) \/ MarkCompleted(j)
    \/ AnnounceFailed(j) \/ MarkFailed(j)
    \/ Untrack(j) \/ Release(j)

Next == \E j \in Jobs : Submit(j) \/ Cancel(j) \/ TaskStep(j) \/ EngineReturns(j)

Spec == Init /\ [][Next]_vars

\* The runtime polls every ready task; nothing is assumed of the engine.
TasksScheduled == \A j \in Jobs : WF_vars(TaskStep(j))

\* ... and every call of the engine returns.
FairSpec == Spec /\ TasksScheduled /\ \A j \in Jobs : WF_vars(EngineReturns(j))

-----------------------------------------------------------------------------
(* Properties                                                              *)

\* Every variable keeps its type.
TypeOK ==
    /\ rows \in [Jobs -> RowStatus]
    /\ copies \subseteq Jobs
    /\ job \in [Jobs -> [op : Operations, config : Configs] \cup {NoJob}]
    /\ event \in [Jobs -> {"none", "running"} \cup Final]
    /\ active \subseteq Jobs
    /\ cancelled \subseteq Jobs
    /\ permits \in Nat
    /\ waiters \in Seq(Jobs)
    /\ task \in [Jobs -> Place]

Holders     == {j \in Jobs : task[j] \in Holding}
RunningRows == {j \in Jobs : rows[j] = "running"}

\* No path out of the task loses or duplicates a permit of the semaphore.
PermitsConserved ==
    IsFiniteSet(Holders) /\ permits + Cardinality(Holders) = MaxConcurrent

\* Never more rows show 'running' than --max-concurrent-jobs allows.
RunningWithinLimit ==
    IsFiniteSet(RunningRows) /\ Cardinality(RunningRows) <= MaxConcurrent

\* The active map holds exactly the jobs whose task can still be reached by
\* cancel: none is forgotten there, none is missing.
ActiveMapExact == active = {j \in Jobs : task[j] \in Tracked} \ cancelled

\* How far a task has come fixes its row, and its event once that is final; a
\* copy is on record exactly between its recording and a completed end.  The
\* properties below follow from this invariant, which is inductive.
TasksFixRows ==
    \A j \in Jobs :
        /\ task[j] = "none" => rows[j] = "absent"
        /\ task[j] \in NotStarted => rows[j] = "pending"
        /\ task[j] \in Started => rows[j] = "running"
        /\ task[j] = "dropping" => rows[j] = "cancelled"
        /\ task[j] = "completing" => event[j] = "completed"
        /\ task[j] = "aborting" => event[j] = "failed"
        /\ task[j] \in Through => rows[j] \in Final /\ event[j] = rows[j]
        /\ event[j] = "completed" => task[j] \in {"completing"} \cup Through
        /\ task[j] = "recording" => RecordsCopy(j)
        /\ j \in copies <=> /\ RecordsCopy(j)
                           /\ \/ task[j] \in {"succeeding", "completing"}
                              \/ task[j] \in Through /\ rows[j] = "completed"

\* When a task is through, the row and the last event tell the same outcome.
OutcomeAgrees ==
    \A j \in Jobs : task[j] \in Through =>
        rows[j] \in Final /\ event[j] = rows[j]

\* A copy is on record before anyone is told that its backup completed, and
\* a backup that ended otherwise leaves no copy on record.
CopyMatchesOutcome ==
    \A j \in Jobs :
        /\ event[j] = "completed" /\ RecordsCopy(j) => j \in copies
        /\ rows[j] \in {"failed", "cancelled"} => j \notin copies

\* A row with a final status keeps it.
FinalStays == [][\A j \in Jobs : rows[j] \in Final => rows'[j] = rows[j]]_vars

\* A job cancelled before it starts is cancelled for good: it waits on, or its
\* task drops it and writes 'cancelled'; no step runs it.
CancelledNotRun ==
    [][\A j \in Jobs : task[j] \in Waiting \cup {"holding"} /\ j \in cancelled =>
          \/ task'[j] \in Waiting \cup {"holding"} /\ j \in cancelled'
          \/ task'[j] = "dropping" /\ rows'[j] = "cancelled"]_vars

\* A job cancelled while it waits for a permit ends cancelled, not run.
CancelledWhileWaiting ==
    \A j \in Jobs : task[j] \in Waiting /\ j \in cancelled ~> rows[j] = "cancelled"

Lifecycle == INSTANCE JobLifecycle WITH status <- rows

\* The rows go through the life cycle the clients are promised.
RowsFollowLifecycle     == Lifecycle!Spec
RowsFollowFairLifecycle == Lifecycle!FairSpec
=============================================================================
