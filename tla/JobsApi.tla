------------------------------- MODULE JobsApi -------------------------------
(***************************************************************************)
(* The job queue as the agent wires it: the HTTP handlers of api/jobs.rs   *)
(* and api/restore.rs run beside the queue's tasks, and the process may be *)
(* killed and started again.  A handler reads the row in one database call *)
(* and writes it in another; nothing it decided on is held in between.     *)
(* cancel_job only writes the row: no code calls JobQueue::cancel, so that *)
(* action of JobQueue is no part of this specification.  start_restore     *)
(* spawns a task of its own, beside the queue and its semaphore.           *)
(***************************************************************************)
EXTENDS JobQueue

CONSTANTS
    Requests,       \* cancel and delete requests in flight at once
    MaxRestarts     \* bound: how often the process is killed

ASSUME ApiAssumption == MaxRestarts \in Nat

VARIABLES
    call,       \* the job each request has decided on, and its next step
    restore,    \* how far the task of each restore of api/restore.rs has come
    restarts    \* how often the process was started again

apiVars == <<call, restore, restarts>>
allVars == <<vars, apiVars>>

Idle == [step |-> "idle"]

\* "lost": the process was killed, or the submission dropped, with no task left.
RestoreLive  == {"accepted", "spawned", "announced", "engine", "succeeding",
                 "failing", "completing", "aborting"}
RestorePlace == RestoreLive \cup {"none", "done", "lost"}

ApiInit ==
    /\ Init
    /\ call = [r \in Requests |-> Idle]
    /\ restore = [j \in Jobs |-> "none"]
    /\ restarts = 0

Unused(j) == task[j] = "none" /\ restore[j] = "none"

-----------------------------------------------------------------------------
(* POST /jobs: start_job submits; the queue's tasks do the rest.           *)

StartJob(j) == Unused(j) /\ Submit(j) /\ UNCHANGED apiVars

\* The client goes away while submit waits for the active map's lock: the
\* handler's future is dropped between the insert and the spawn.
DropSubmit(j) ==
    /\ Goto(j, "inserted", "lost")
    /\ UNCHANGED <<db, job, event, toks, sema, apiVars>>

QueueStep(j) == (TaskStep(j) \/ EngineReturns(j)) /\ UNCHANGED apiVars

-----------------------------------------------------------------------------
(* POST /jobs/:id/cancel                                                   *)

Proceed(r, from, to) ==
    /\ call[r].step = from
    /\ call' = [call EXCEPT ![r] = to]
    /\ UNCHANGED <<copies, job, toks, sema, task, restore, restarts>>

ReadForCancel(r, j) ==
    /\ rows[j] \in {"pending", "running"}
    /\ Proceed(r, "idle", [step |-> "cancel", job |-> j])
    /\ UNCHANGED <<rows, event>>

WriteCancelled(r) ==
    /\ Proceed(r, "cancel", [step |-> "announce", job |-> call[r].job])
    /\ UpdateRow(call[r].job, "cancelled")
    /\ UNCHANGED event

AnnounceApiCancel(r) ==
    /\ Proceed(r, "announce", Idle)
    /\ Broadcast(call[r].job, "cancelled")
    /\ UNCHANGED rows

(* DELETE /jobs/:id                                                        *)

ReadForDelete(r, j) ==
    /\ rows[j] \in Final
    /\ Proceed(r, "idle", [step |-> "delete", job |-> j])
    /\ UNCHANGED <<rows, event>>

DeleteRow(r) ==
    /\ Proceed(r, "delete", Idle)
    /\ rows' = [rows EXCEPT ![call[r].job] = "absent"]
    /\ UNCHANGED event

HandlerStep(r) == WriteCancelled(r) \/ AnnounceApiCancel(r) \/ DeleteRow(r)

-----------------------------------------------------------------------------
(* POST /restore                                                           *)

RestoreGoto(j, from, to) ==
    /\ restore[j] = from
    /\ restore' = [restore EXCEPT ![j] = to]
    /\ UNCHANGED <<copies, job, toks, sema, task, call, restarts>>

\* The insert fails, and leaves nothing, unless the asset and the copy exist.
InsertRestore(j) ==
    /\ Unused(j)
    /\ RestoreGoto(j, "none", "accepted")
    /\ rows' = [rows EXCEPT ![j] = "pending"]
    /\ UNCHANGED event

AnnouncePending(j) ==
    /\ RestoreGoto(j, "accepted", "spawned")
    /\ Broadcast(j, "pending")
    /\ UNCHANGED rows

\* Only the event says 'running'; the row stays 'pending'.
AnnounceRestoring(j) ==
    /\ RestoreGoto(j, "spawned", "announced")
    /\ Broadcast(j, "running")
    /\ UNCHANGED rows

\* The asset or the copy is gone, or its data cannot be found.
RestoreSetupFails(j) ==
    /\ RestoreGoto(j, "announced", "failing")
    /\ UNCHANGED <<rows, event>>

\* The file adapter announces the job again, the volume adapter does not.
StartRestoring(j) ==
    /\ RestoreGoto(j, "announced", "engine")
    /\ Broadcast(j, "running") \/ UNCHANGED event
    /\ UNCHANGED rows

RestoreReturns(j) ==
    /\ RestoreGoto(j, "engine", "succeeding") \/ RestoreGoto(j, "engine", "failing")
    /\ UNCHANGED <<rows, event>>

\* Mutant of AnnounceRestored: the outcome is announced without looking at it.
AnnounceRestoredBlindly(j) ==
    /\ RestoreGoto(j, "succeeding", "completing") \/ RestoreGoto(j, "failing", "aborting")
    /\ Broadcast(j, "completed")
    /\ UNCHANGED rows

AnnounceRestored(j) ==
    /\ \/ RestoreGoto(j, "succeeding", "completing") /\ Broadcast(j, "completed")
       \/ RestoreGoto(j, "failing", "aborting") /\ Broadcast(j, "failed")
    /\ UNCHANGED rows

\* Mutant of MarkRestored: the row is not written.
MarkRestoredNot(j) ==
    /\ RestoreGoto(j, "completing", "done") \/ RestoreGoto(j, "aborting", "done")
    /\ UNCHANGED <<rows, event>>

MarkRestored(j) ==
    /\ \/ RestoreGoto(j, "completing", "done") /\ UpdateRow(j, "completed")
       \/ RestoreGoto(j, "aborting", "done") /\ UpdateRow(j, "failed")
    /\ UNCHANGED event

RestoreStep(j) ==
    \/ AnnouncePending(j) \/ AnnounceRestoring(j) \/ RestoreSetupFails(j)
    \/ StartRestoring(j) \/ AnnounceRestored(j) \/ MarkRestored(j)

-----------------------------------------------------------------------------
(* The process is killed and main() runs again: the database is all that   *)
(* is left, and nothing at startup looks at the rows it finds there.       *)

Lose(places) == [j \in Jobs |-> IF places[j] \in {"none", "done"} THEN places[j] ELSE "lost"]

Restart ==
    /\ restarts < MaxRestarts
    /\ restarts' = restarts + 1
    /\ task' = Lose(task)
    /\ restore' = Lose(restore)
    /\ call' = [r \in Requests |-> Idle]
    /\ event' = [j \in Jobs |-> "none"]
    /\ active' = {} /\ cancelled' = {}
    /\ permits' = MaxConcurrent /\ waiters' = <<>>
    /\ UNCHANGED <<db, job>>

ApiNext ==
    \/ \E j \in Jobs : \/ StartJob(j) \/ DropSubmit(j) \/ QueueStep(j)
                       \/ InsertRestore(j) \/ RestoreStep(j) \/ RestoreReturns(j)
    \/ \E r \in Requests : \/ \E j \in Jobs : ReadForCancel(r, j) \/ ReadForDelete(r, j)
                           \/ HandlerStep(r)
    \/ Restart

ApiSpec == ApiInit /\ [][ApiNext]_allVars

-----------------------------------------------------------------------------
(* Properties                                                              *)

\* Every variable keeps its type; no code cancels a token, and no restart or
\* dropped submission makes more permits than there were.
ApiTypeOK ==
    /\ rows \in [Jobs -> RowStatus]
    /\ copies \subseteq Jobs
    /\ job \in [Jobs -> [op : Operations, config : Configs] \cup {NoJob}]
    /\ event \in [Jobs -> {"none", "pending", "running"} \cup Final]
    /\ active \subseteq Jobs
    /\ cancelled = {}
    /\ permits \in 0..MaxConcurrent
    /\ waiters \in Seq(Jobs)
    /\ task \in [Jobs -> Place \cup {"lost"}]
    /\ call \in [Requests -> {Idle} \cup [step : {"cancel", "announce", "delete"}, job : Jobs]]
    /\ restore \in [Jobs -> RestorePlace]
    /\ restarts \in 0..MaxRestarts

HasTask(j) == task[j] \notin {"none", "done", "lost"} \/ restore[j] \in RestoreLive
Lost(j)    == task[j] = "lost" \/ restore[j] = "lost"

\* Whatever the handlers write in between, a row left pending or running has a
\* task that will still write its outcome, or the process lost that task.
UnfinishedHasTask ==
    \A j \in Jobs : rows[j] \in {"pending", "running"} => HasTask(j) \/ Lost(j)

\* A backup whose row says completed has its copy on record, also after a
\* cancel in its midst or a restart.
CompletedHasCopy ==
    \A j \in Jobs : rows[j] = "completed" /\ RecordsCopy(j) => j \in copies

\* Once no task is at work for a job, its last event and its row differ only
\* when a cancel raced the task: one of the two then says cancelled.
DisagreeOnlyByCancel ==
    \A j \in Jobs :
        ~HasTask(j) /\ rows[j] # "absent" /\ event[j] \notin {"none", rows[j]}
        => "cancelled" \in {rows[j], event[j]}

\* A task that ends after its row was deleted does not bring the row back.
DeletedStaysDeleted ==
    [][\A j \in Jobs : rows[j] = "absent" /\ ~Unused(j) => rows'[j] = "absent"]_allVars

\* README.md, "Cancel a running job": a job that was cancelled is not run.
CancelledIsNotRun ==
    [][\A j \in Jobs : rows[j] = "cancelled" => rows'[j] # "running"]_allVars
=============================================================================
