----------------------------- MODULE WriteFaults -----------------------------
(***************************************************************************)
(* JobsApi on a database whose writes may fail (a full disk, a file system *)
(* gone read-only).  A task ignores the result of every status write       *)
(* (let _ = db.with_conn(...) in runner/execute.rs and api/restore.rs) and *)
(* goes on as if the row had been written; a handler answers with an error *)
(* and leaves the row and the event as they were.  An insert that fails    *)
(* leaves nothing, and a copy that cannot be recorded fails its job:       *)
(* JobQueue!RecordFails.                                                   *)
(***************************************************************************)
EXTENDS JobsApi

VARIABLE lost   \* history: the jobs a task of which lost a status write

faultVars == <<allVars, lost>>

FaultInit == ApiInit /\ lost = {}

\* update_started_at, update_completion or update_status fails.
LoseTaskWrite(j) ==
    /\ \/ Goto(j, "announced", "marked")
       \/ Goto(j, "completing", "finished")
       \/ Goto(j, "aborting", "finished")
    /\ UNCHANGED <<db, job, event, toks, sema, apiVars>>

\* Mutant of LoseRestoreWrite: an error before the end is lost as well.
LoseRestoreEarly(j) ==
    /\ \/ RestoreGoto(j, "engine", "done")
       \/ RestoreGoto(j, "completing", "done")
       \/ RestoreGoto(j, "aborting", "done")
    /\ UNCHANGED <<rows, event>>

\* The outcome of a restore is written by update_status alone.
LoseRestoreWrite(j) ==
    /\ RestoreGoto(j, "completing", "done") \/ RestoreGoto(j, "aborting", "done")
    /\ UNCHANGED <<rows, event>>

\* cancel_job and delete_job return before they announce anything.
HandlerFails(r) ==
    /\ Proceed(r, "cancel", Idle) \/ Proceed(r, "delete", Idle)
    /\ UNCHANGED <<rows, event>>

LoseWrite(j) ==
    /\ LoseTaskWrite(j) \/ LoseRestoreWrite(j)
    /\ lost' = lost \cup {j}

FaultNext ==
    \/ ApiNext /\ UNCHANGED lost
    \/ \E j \in Jobs : LoseWrite(j)
    \/ \E r \in Requests : HandlerFails(r) /\ UNCHANGED lost

FaultSpec == FaultInit /\ [][FaultNext]_faultVars

\* The runtime polls every ready task, and engine calls return; whether a
\* write succeeds is left open.
FaultFairSpec ==
    /\ FaultSpec
    /\ \A j \in Jobs :
        /\ WF_faultVars(TaskStep(j) /\ UNCHANGED <<apiVars, lost>>)
        /\ WF_faultVars(EngineReturns(j) /\ UNCHANGED <<apiVars, lost>>)
        /\ WF_faultVars(RestoreStep(j) /\ UNCHANGED lost)
        /\ WF_faultVars(RestoreReturns(j) /\ UNCHANGED lost)

-----------------------------------------------------------------------------
(* Properties                                                              *)

\* Every variable keeps its type.
FaultTypeOK == ApiTypeOK /\ lost \subseteq Jobs

\* A row stays unfinished without a task only if a write of its own job failed,
\* its submission was dropped or the process was killed: one job's failed
\* write strands no other job.
StrandedByOwnWrite ==
    \A j \in Jobs : rows[j] \in {"pending", "running"} /\ ~HasTask(j) => j \in lost \/ Lost(j)

\* What a task announced and what its row says come apart only by a cancel or
\* by a write of that job that failed.
DisagreeOnlyByLoss ==
    \A j \in Jobs :
        ~HasTask(j) /\ rows[j] # "absent" /\ event[j] \notin {"none", rows[j]}
        => "cancelled" \in {rows[j], event[j]} \/ j \in lost

\* Whichever of the two tells of a backup's success, its copy is on record,
\* though the write that should have shown the success was lost.
SuccessHasCopy ==
    \A j \in Jobs : RecordsCopy(j) /\ "completed" \in {rows[j], event[j]} => j \in copies

\* However many writes fail, a task ends only once it has told the clients an
\* outcome, unless the process was killed or the submission dropped.
OutcomeTold ==
    [][\A j \in Jobs : HasTask(j) /\ ~HasTask(j)' => event'[j] \in Final \/ Lost(j)']_faultVars

\* However many writes fail, every task ends, gives its permit back and has
\* told the clients an outcome, unless the process was killed or its
\* submission dropped.
OutcomeAlwaysTold ==
    \A j \in Jobs : HasTask(j) ~> (~HasTask(j) /\ event[j] \in Final) \/ Lost(j)
=============================================================================
