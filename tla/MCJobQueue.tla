----------------------------- MODULE MCJobQueue -----------------------------
(* Model-checking instance of JobQueue: three jobs, each of the kinds it may *)
(* be submitted as.  The bound is on submissions only.                       *)
EXTENDS JobQueue, TLC

CONSTANTS j1, j2, j3

As(o, c) == [op |-> o, config |-> c]

Kinds == j1 :> {As("backup", "fileset"), As("restore", "fileset")}
      @@ j2 :> {As("backup", "volume"), As("backup", "consistent")}
      @@ j3 :> {As("snapshot", "fileset")}

MCSubmit(j) == Submit(j) /\ job'[j] \in Kinds[j]

MCNext == \E j \in Jobs : MCSubmit(j) \/ Cancel(j) \/ TaskStep(j) \/ EngineReturns(j)

MCSpec ==
    /\ Init /\ [][MCNext]_vars
    /\ TasksScheduled /\ \A j \in Jobs : WF_vars(EngineReturns(j))
=============================================================================
