---------------------------- MODULE JobLifecycle ----------------------------
(***************************************************************************)
(* What the agent promises of a submitted job, whatever executes it: the   *)
(* status a client reads from the job's database row goes from pending to  *)
(* running to completed or failed, or from pending to cancelled; a final   *)
(* status never changes; and at most MaxConcurrent jobs run at a time.     *)
(* JobQueue implements this specification.                                 *)
(***************************************************************************)
EXTENDS Naturals, FiniteSets

CONSTANTS
    Jobs,           \* job identifiers
    MaxConcurrent   \* --max-concurrent-jobs

VARIABLE status     \* the status column of each job's row, or "absent"

Outcomes == {"completed", "failed"}
Final    == Outcomes \cup {"cancelled"}
Status   == {"absent", "pending", "running"} \cup Final

Running == {j \in Jobs : status[j] = "running"}

Init == status = [j \in Jobs |-> "absent"]

Become(j, from, to) ==
    /\ status[j] = from
    /\ status' = [status EXCEPT ![j] = to]

Accept(j) == Become(j, "absent", "pending")

Start(j) ==
    /\ Cardinality(Running) < MaxConcurrent
    /\ Become(j, "pending", "running")

End(j) == \E outcome \in Outcomes : Become(j, "running", outcome)

CancelPending(j) == Become(j, "pending", "cancelled")

Next == \E j \in Jobs : Accept(j) \/ Start(j) \/ End(j) \/ CancelPending(j)

Spec == Init /\ [][Next]_status

(***************************************************************************)
(* A pending job gets its turn however many others compete for it, and a   *)
(* running job comes to an end.                                            *)
(***************************************************************************)
FairSpec ==
    /\ Spec
    /\ \A j \in Jobs : /\ SF_status(Start(j) \/ CancelPending(j))
                       /\ WF_status(End(j))
=============================================================================
