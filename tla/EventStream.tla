----------------------------- MODULE EventStream -----------------------------
(***************************************************************************)
(* What the agent tells one desktop client about its jobs.  A task writes  *)
(* its row and announces what it does on the ProgressBus (progress.rs); it *)
(* announces 'running' and its outcome before the row says so, and a job   *)
(* of the queue reports 100 per cent between the two.  The task of a       *)
(* restore announces 'pending' first and never writes 'running'.  The bus  *)
(* is a broadcast channel of bounded capacity: a client that reads too     *)
(* slowly loses the oldest events (server/ws.rs).  Rows are abstracted     *)
(* from JobQueue and JobsApi: a cancel over HTTP writes the row of a job   *)
(* whose task goes on.                                                     *)
(***************************************************************************)
EXTENDS Naturals, Sequences, FiniteSets

CONSTANTS
    Jobs,       \* identifiers of jobs
    Old,        \* bound: the jobs that had completed before the agent started
    Capacity,   \* events the channel keeps for a client (256 in main.rs)
    LogLimit,   \* MAX_LOG_LINES_PER_JOB
    MaxLines    \* bound: log lines one job writes

ASSUME StreamAssumption ==
    /\ IsFiniteSet(Jobs) /\ Old \subseteq Jobs
    /\ Capacity \in Nat \ {0} /\ LogLimit \in Nat \ {0} /\ MaxLines \in Nat

VARIABLES
    row,        \* the job's status in the database
    begun,      \* the job's place in the order of started_at, 0 if it has none
    restores,   \* jobs of POST /restore
    told,       \* the last step the job's task has announced
    owed,       \* jobs whose last announced status is not in the row yet
    closing,    \* jobs of the queue that completed, with the last report to send
    cancelling, \* cancel handlers, by job and by what they do next
    deleting,   \* jobs a delete handler has read, and has yet to delete
    ring,       \* the log buffer: the job's last LogLimit lines
    logged,     \* how many lines the job has logged
    wire,       \* events sent to the client and not handled by it yet
    up,         \* whether the client's event stream is still open
    missed      \* history: an event did not reach the view that is open

jobVars    == <<row, begun, restores, told, owed, closing, cancelling, deleting>>
logVars    == <<ring, logged>>
streamVars == <<wire, up, missed>>
agentVars  == <<jobVars, logVars, streamVars>>

Outcomes == {"completed", "failed"}
Final    == Outcomes \cup {"cancelled"}
Active   == {"pending", "running"}
Told     == {"none", "accepted", "working", "lost"} \cup Active \cup Outcomes
Status   == {"absent"} \cup Active \cup Final

Line     == 1..MaxLines

Event == [kind : {"status"}, job : Jobs, status : Active \cup Final]
    \cup [kind : {"progress"}, job : Jobs, phase : {"work", "done"}]
    \cup [kind : {"log"}, job : Jobs, line : Line]

StreamInit ==
    /\ row = [j \in Jobs |-> IF j \in Old THEN "completed" ELSE "absent"]
    /\ begun = [j \in Jobs |-> IF j \in Old THEN 1 ELSE 0]
    /\ restores = {}
    /\ told = [j \in Jobs |-> IF j \in Old THEN "lost" ELSE "none"]
    /\ owed = {} /\ closing = {} /\ cancelling = {} /\ deleting = {}
    /\ ring = [j \in Jobs |-> <<>>]
    /\ logged = [j \in Jobs |-> 0]
    /\ wire = <<>> /\ up = TRUE /\ missed = FALSE

-----------------------------------------------------------------------------
Full == Len(wire) = Capacity

\* A full channel drops its oldest event; the receiver learns that it lagged.
Send(e) ==
    /\ wire' = IF up THEN Append(IF Full THEN Tail(wire) ELSE wire, e) ELSE <<>>
    /\ missed' = (missed \/ Full \/ ~up)
    /\ UNCHANGED up

SendStatus(j, s) == Send([kind |-> "status", job |-> j, status |-> s])

\* An UPDATE by key: a deleted row stays deleted.
SetRow(j, s) == row' = [row EXCEPT ![j] = IF @ = "absent" THEN @ ELSE s]

TaskLives(j) == told[j] \in {"accepted", "working"} \cup Active \/ j \in owed

\* JobQueue::submit, or start_restore for a restore.
Submit(j) ==
    /\ told[j] = "none"
    /\ row' = [row EXCEPT ![j] = "pending"]
    /\ told' = [told EXCEPT ![j] = "accepted"]
    /\ restores' \in {restores, restores \cup {j}}
    /\ UNCHANGED <<begun, owed, closing, cancelling, deleting, logVars, streamVars>>

\* What the task says next: only a restore says that it is pending.
NextStatus(j) ==
    CASE told[j] = "accepted" -> IF j \in restores THEN {"pending"} ELSE {"running"}
      [] told[j] = "pending" -> {"running"}
      [] told[j] \in {"running", "working"} -> Outcomes
      [] OTHER -> {}

Announce(j, s) ==
    /\ j \notin owed /\ s \in NextStatus(j)
    /\ told' = [told EXCEPT ![j] = s]
    /\ owed' = IF j \in restores /\ s \in Active THEN owed ELSE owed \cup {j}
    /\ closing' = IF j \notin restores /\ s = "completed" THEN closing \cup {j} ELSE closing
    /\ SendStatus(j, s)
    /\ UNCHANGED <<row, begun, restores, cancelling, deleting, logVars>>

\* execute_job says that all is done after it has announced 'completed'.
ReportDone(j) ==
    /\ j \in closing
    /\ closing' = closing \ {j}
    /\ Send([kind |-> "progress", job |-> j, phase |-> "done"])
    /\ UNCHANGED <<row, begun, restores, told, owed, cancelling, deleting, logVars>>

Begun == {j \in Jobs : begun[j] # 0}

\* update_started_at, update_completion or update_status.
Write(j) ==
    /\ j \in owed \ closing
    /\ SetRow(j, told[j])
    /\ begun' = IF told[j] = "running" THEN [begun EXCEPT ![j] = Cardinality(Begun) + 1] ELSE begun
    /\ owed' = owed \ {j}
    /\ UNCHANGED <<restores, told, closing, cancelling, deleting, logVars, streamVars>>

\* The file adapter says 'running' once more, the volume adapter does not.
StartEngine(j) ==
    /\ told[j] = "running" /\ j \notin owed
    /\ told' = [told EXCEPT ![j] = "working"]
    /\ SendStatus(j, "running") \/ UNCHANGED streamVars
    /\ UNCHANGED <<row, begun, restores, owed, closing, cancelling, deleting, logVars>>

\* Progress of the work: before, during and after the engine's run.
Report(j) ==
    /\ told[j] \in {"running", "working"} /\ j \notin owed
    /\ Send([kind |-> "progress", job |-> j, phase |-> "work"])
    /\ UNCHANGED <<jobVars, logVars>>

\* The line goes into the ring first and to the clients after it.
Log(j) ==
    LET kept == IF Len(ring[j]) >= LogLimit THEN Tail(ring[j]) ELSE ring[j]
        line == logged[j] + 1
    IN  /\ TaskLives(j) /\ line <= MaxLines
        /\ ring' = [ring EXCEPT ![j] = Append(kept, line)]
        /\ logged' = [logged EXCEPT ![j] = line]
        /\ Send([kind |-> "log", job |-> j, line |-> line])
        /\ UNCHANGED jobVars

-----------------------------------------------------------------------------
(* POST /jobs/:id/cancel reads the row, writes it and announces that; DELETE *)
(* /jobs/:id reads the row and deletes it.                                   *)

ReadForCancel(j) ==
    /\ row[j] \in Active
    /\ cancelling' = cancelling \cup {<<j, "write">>}
    /\ UNCHANGED <<row, begun, restores, told, owed, closing, deleting, logVars, streamVars>>

WriteCancelled(j) ==
    /\ <<j, "write">> \in cancelling
    /\ cancelling' = (cancelling \ {<<j, "write">>}) \cup {<<j, "announce">>}
    /\ SetRow(j, "cancelled")
    /\ UNCHANGED <<begun, restores, told, owed, closing, deleting, logVars, streamVars>>

AnnounceCancelled(j) ==
    /\ <<j, "announce">> \in cancelling
    /\ cancelling' = cancelling \ {<<j, "announce">>}
    /\ SendStatus(j, "cancelled")
    /\ UNCHANGED <<row, begun, restores, told, owed, closing, deleting, logVars>>

ReadForDelete(j) ==
    /\ row[j] \in Final
    /\ deleting' = deleting \cup {j}
    /\ UNCHANGED <<row, begun, restores, told, owed, closing, cancelling, logVars, streamVars>>

DeleteRow(j) ==
    /\ j \in deleting
    /\ deleting' = deleting \ {j}
    /\ SetRow(j, "absent")
    /\ UNCHANGED <<begun, restores, told, owed, closing, cancelling, logVars, streamVars>>

-----------------------------------------------------------------------------
\* connect_ws returns when the stream ends, and nothing opens another.
StreamEnds ==
    /\ up
    /\ up' = FALSE /\ wire' = <<>> /\ missed' = TRUE
    /\ UNCHANGED <<jobVars, logVars>>

\* Rows survive a restart of the agent; tasks and the log buffer do not.
AgentRestarts ==
    /\ up
    /\ up' = FALSE /\ wire' = <<>> /\ missed' = TRUE
    /\ told' = [j \in Jobs |-> IF TaskLives(j) THEN "lost" ELSE told[j]]
    /\ owed' = {} /\ closing' = {} /\ cancelling' = {} /\ deleting' = {}
    /\ ring' = [j \in Jobs |-> <<>>]
    /\ UNCHANGED <<row, begun, restores, logged>>

AgentStep ==
    \/ \E j \in Jobs : \/ Submit(j) \/ \E s \in Active \cup Final : Announce(j, s)
                       \/ ReportDone(j) \/ Write(j) \/ StartEngine(j) \/ Report(j) \/ Log(j)
                       \/ WriteCancelled(j) \/ AnnounceCancelled(j) \/ DeleteRow(j)
    \/ StreamEnds \/ AgentRestarts

StreamTypeOK ==
    /\ row \in [Jobs -> Status]
    /\ begun \in [Jobs -> Nat] /\ restores \subseteq Jobs
    /\ told \in [Jobs -> Told]
    /\ owed \subseteq Jobs /\ closing \subseteq Jobs /\ deleting \subseteq Jobs
    /\ cancelling \subseteq Jobs \X {"write", "announce"}
    /\ ring \in [Jobs -> Seq(Line)]
    /\ logged \in [Jobs -> 0..MaxLines]
    /\ wire \in Seq(Event) /\ Len(wire) <= Capacity
    /\ up \in BOOLEAN /\ missed \in BOOLEAN
=============================================================================
