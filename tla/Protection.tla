------------------------------ MODULE Protection ------------------------------
(***************************************************************************)
(* The agent's records of assets, SLA policies, jobs and backup copies,    *)
(* under the handlers of api/assets.rs, api/slas.rs, api/copies.rs, of     *)
(* POST /jobs and POST /restore.  Every with_conn call is one step; the    *)
(* longer handlers make several, and other handlers' steps come between.   *)
(* What holds the records together is the schema's foreign keys: a delete  *)
(* or an insert that would break one fails.                                *)
(***************************************************************************)
EXTENDS FiniteSets

CONSTANTS
    Assets, Policies, Jobs,     \* identifiers; a copy is named by its job
    Builtin,                    \* the policies seeded at first start
    Calls,                      \* bound: handlers of several steps at once
    Targets,                    \* bound: the assets those are called for
    None

ASSUME ProtectionAssumption ==
    Builtin \subseteq Policies /\ Targets \subseteq Assets /\ None \notin Assets \cup Policies \cup Jobs

VARIABLES
    assets,     \* rows of protected_assets
    on,         \* those with enabled = 1
    sla,        \* their sla_policy_id
    policies,   \* rows of sla_policies
    owner,      \* the asset a job was started for
    uses,       \* the copy a restore job reads, of whatever asset
    rows,       \* rows of job_executions
    tasks,      \* jobs whose task is still at work
    copies,     \* rows of backup_copies
    call        \* the handlers in flight

assetVars  == <<assets, on, sla, policies>>
jobVars    == <<owner, uses, rows, tasks, copies>>
recordVars == <<assetVars, jobVars>>

Idle == [step |-> "idle"]
Answers == {"ok", "refused"}

CopiesOf(a) == {k \in copies : owner[k] = a}
RowsOf(a)   == {j \in rows : owner[j] = a}
Active(a)   == a \in on /\ sla[a] # None        \* protection_active

ProtectionInit ==
    /\ assets = {} /\ on = {} /\ sla = [a \in Assets |-> None]
    /\ policies = Builtin
    /\ owner = [j \in Jobs |-> None] /\ uses = [j \in Jobs |-> None]
    /\ rows = {} /\ tasks = {} /\ copies = {}
    /\ call = [c \in Calls |-> Idle]

-----------------------------------------------------------------------------
(* A request arrives, its handler goes from step to step, the answer goes  *)
(* back.  "flag" is what update_asset read, "left" the copies delete_asset *)
(* listed; two histories: "raced", since the request came another handler  *)
(* has changed what this one goes by; "held", a restore into another asset *)
(* reads a copy it was to delete.                                          *)

Arrive(c, op, a, p) ==
    /\ call[c] = Idle
    /\ call' = [call EXCEPT ![c] = [op |-> op, step |-> "start", asset |-> a, policy |-> p,
                                    flag |-> FALSE, left |-> {}, raced |-> FALSE, held |-> FALSE]]

At(c, op, step) == call[c].step = step /\ call[c].op = op
To(c, step)     == call' = [call EXCEPT ![c].step = step]
End(c, good)    == To(c, IF good THEN "ok" ELSE "refused")
Asset(c)  == call[c].asset
Policy(c) == call[c].policy

\* history: the handlers of these operations on asset a have been overtaken.
Midway(c)    == call[c].step \notin {"idle", "start"} \cup Answers
Race(ops, a) == [c \in Calls |-> IF Midway(c) /\ call[c].op \in ops /\ Asset(c) = a
                                 THEN [call[c] EXCEPT !.raced = TRUE] ELSE call[c]]
Toggle(c)   == call' = [Race({"update", "backup"}, Asset(c))
                            EXCEPT ![c].step = IF Asset(c) \in assets THEN "ok" ELSE "refused"]
AddRows(a)  == Race({"delete"}, a)

\* The first step of most handlers: 404 unless the row is there.
Find(c, found, next) == To(c, IF found THEN next ELSE "refused") /\ UNCHANGED recordVars

-----------------------------------------------------------------------------
(* POST /assets/:id/activate, PUT /assets/:id/sla, POST .../deactivate     *)

Binds == {"activate", "change"}

\* Mutant of BindFindPolicy: protection is switched on before the policy is
\* looked up.
EnableFirst(c, op) ==
    /\ At(c, op, "asset")
    /\ on' = on \cup ({Asset(c)} \cap assets)
    /\ To(c, IF Policy(c) \in policies THEN "policy" ELSE "refused")
    /\ UNCHANGED <<assets, sla, policies, jobVars>>

BindFindAsset(c, op)  == At(c, op, "start") /\ Find(c, Asset(c) \in assets, "asset")
BindFindPolicy(c, op) == At(c, op, "asset") /\ Find(c, Policy(c) \in policies, "policy")

\* The foreign key refuses a policy that was deleted since it was looked up;
\* an asset deleted since is an UPDATE of no row.
Bind(c, op) ==
    /\ At(c, op, "policy")
    /\ IF Asset(c) \in assets /\ Policy(c) \notin policies
       THEN End(c, FALSE) /\ UNCHANGED sla
       ELSE /\ sla' = [a \in Assets |-> IF a \in {Asset(c)} \cap assets THEN Policy(c) ELSE sla[a]]
            /\ IF op = "activate" THEN To(c, "bound") ELSE End(c, Asset(c) \in assets)
    /\ UNCHANGED <<assets, on, policies, jobVars>>

\* Mutant of Enable: an asset that is gone is inserted anew.
EnableUpserts(c) ==
    /\ At(c, "activate", "bound")
    /\ on' = on \cup {Asset(c)}
    /\ Toggle(c)
    /\ UNCHANGED <<assets, sla, policies, jobVars>>

Enable(c) ==
    /\ At(c, "activate", "bound")
    /\ on' = on \cup ({Asset(c)} \cap assets)
    /\ Toggle(c)
    /\ UNCHANGED <<assets, sla, policies, jobVars>>

DeactivateFind(c) == At(c, "deactivate", "start") /\ Find(c, Asset(c) \in assets, "asset")

Disable(c) ==
    /\ At(c, "deactivate", "asset")
    /\ on' = on \ {Asset(c)}
    /\ Toggle(c)
    /\ UNCHANGED <<assets, sla, policies, jobVars>>

-----------------------------------------------------------------------------
(* POST /assets, PUT /assets/:id                                           *)

\* A new asset's id is fresh: nothing refers to it yet.
CreateAsset(a) ==
    /\ a \notin assets /\ (\A j \in Jobs : owner[j] # a)
    /\ \A c \in Calls : call[c] # Idle => Asset(c) # a
    /\ assets' = assets \cup {a}
    /\ UNCHANGED <<on, sla, policies, jobVars, call>>

\* Mutant of ReadEnabled: the flag is the request's, which defaults to TRUE.
ReadNothing(c) ==
    /\ At(c, "update", "start")
    /\ call' = [call EXCEPT ![c].step = IF Asset(c) \in assets THEN "read" ELSE "refused",
                            ![c].flag = TRUE]
    /\ UNCHANGED recordVars

ReadEnabled(c) ==
    /\ At(c, "update", "start")
    /\ call' = [call EXCEPT ![c].step = IF Asset(c) \in assets THEN "read" ELSE "refused",
                            ![c].flag = Asset(c) \in on]
    /\ UNCHANGED recordVars

\* The name, the configuration and the enabled flag that was read.
WriteAsset(c) ==
    /\ At(c, "update", "read")
    /\ on' = IF call[c].flag THEN on \cup ({Asset(c)} \cap assets) ELSE on \ {Asset(c)}
    /\ Toggle(c)
    /\ UNCHANGED <<assets, sla, policies, jobVars>>

-----------------------------------------------------------------------------
(* DELETE /assets/:id: jobs, then copies, then the asset; the results of   *)
(* all but the last step are ignored.                                      *)

CanDropCopy(k)  == \A j \in rows : uses[j] # k
CanDropAsset(a) == RowsOf(a) = {} /\ CopiesOf(a) = {}

\* Mutant of DropJobs: the jobs are left to the foreign keys.
DropJobsNot(c) == At(c, "delete", "start") /\ To(c, "jobs") /\ UNCHANGED recordVars

DropJobs(c) ==
    /\ At(c, "delete", "start")
    /\ rows' = rows \ RowsOf(Asset(c))
    /\ To(c, "jobs")
    /\ UNCHANGED <<assetVars, owner, uses, tasks, copies>>

\* With keep_copies the copies are neither listed nor deleted.
ListCopies(c) ==
    /\ \/ At(c, "delete", "jobs") /\ call' = [call EXCEPT ![c].step = "listed",
                                                          ![c].left = CopiesOf(Asset(c))]
       \/ At(c, "delete keeping copies", "start") /\ To(c, "listed")
    /\ UNCHANGED recordVars

DropCopy(c, k) ==
    /\ At(c, "delete", "listed") /\ k \in call[c].left
    /\ copies' = IF CanDropCopy(k) THEN copies \ {k} ELSE copies
    /\ call' = [call EXCEPT ![c].left = @ \ {k},
                            ![c].held = @ \/ \E j \in rows : uses[j] = k /\ owner[j] # Asset(c)]
    /\ UNCHANGED <<assetVars, owner, uses, rows, tasks>>

DropAsset(c) ==
    /\ call[c].step = "listed" /\ call[c].left = {}
    /\ IF CanDropAsset(Asset(c))
       THEN /\ assets' = assets \ {Asset(c)} /\ on' = on \ {Asset(c)}
            /\ sla' = [sla EXCEPT ![Asset(c)] = None]
       ELSE UNCHANGED <<assets, on, sla>>
    /\ End(c, CanDropAsset(Asset(c)))
    /\ UNCHANGED <<policies, jobVars>>

-----------------------------------------------------------------------------
(* POST and DELETE /sla-policies                                           *)

CreatePolicy(p) ==
    /\ p \notin policies /\ \A c \in Calls : call[c] # Idle => Policy(c) # p
    /\ policies' = policies \cup {p}
    /\ UNCHANGED <<assets, on, sla, jobVars, call>>

FindPolicy(c) == At(c, "remove", "start") /\ Find(c, Policy(c) \in policies \ Builtin, "policy")

FindReferences(c) ==
    /\ At(c, "remove", "policy")
    /\ Find(c, \A a \in assets : sla[a] # Policy(c), "unused")

\* Mutant of DropPolicy: the check of the references is relied upon.
DropPolicyUnchecked(c) ==
    /\ At(c, "remove", "unused")
    /\ policies' = policies \ {Policy(c)}
    /\ End(c, TRUE)
    /\ UNCHANGED <<assets, on, sla, jobVars>>

DropPolicy(c) ==
    LET free == \A a \in assets : sla[a] # Policy(c)
    IN  /\ At(c, "remove", "unused")
        /\ policies' = IF free THEN policies \ {Policy(c)} ELSE policies
        /\ End(c, free)
        /\ UNCHANGED <<assets, on, sla, jobVars>>

-----------------------------------------------------------------------------
(* POST /jobs, POST /restore, the jobs' tasks, DELETE /backup-copies/:id   *)

\* Mutant of FindProtected: only the asset is looked up.
FindAsset(c) == At(c, "backup", "start") /\ Find(c, Asset(c) \in assets, "active")

FindProtected(c) == At(c, "backup", "start") /\ Find(c, Asset(c) \in assets /\ Active(Asset(c)), "active")

\* The queue's insert; only the asset's row is required by then.
SubmitJob(c, j) ==
    /\ At(c, "backup", "active") /\ owner[j] = None
    /\ IF Asset(c) \in assets
       THEN /\ owner' = [owner EXCEPT ![j] = Asset(c)]
            /\ rows' = rows \cup {j} /\ tasks' = tasks \cup {j}
            /\ call' = [AddRows(Asset(c)) EXCEPT ![c].step = "ok"]
       ELSE End(c, FALSE) /\ UNCHANGED <<owner, rows, tasks>>
    /\ UNCHANGED <<assetVars, uses, copies>>

\* The insert fails.
SubmitFails(c) == At(c, "backup", "active") /\ End(c, FALSE) /\ UNCHANGED recordVars

\* start_restore takes the asset and the copy as the client names them; only
\* the foreign keys look at them, and the copy may be of another asset.
SubmitRestore(j, a, k) ==
    /\ a \in assets /\ k \in copies /\ owner[j] = None
    /\ owner' = [owner EXCEPT ![j] = a]
    /\ uses' = [uses EXCEPT ![j] = k]
    /\ rows' = rows \cup {j} /\ tasks' = tasks \cup {j}
    /\ call' = AddRows(a)
    /\ UNCHANGED <<assetVars, copies>>

\* A backup's task records its copy, if the asset is still there, and ends.
EndJob(j) ==
    /\ j \in tasks
    /\ tasks' = tasks \ {j}
    /\ \/ copies' = copies /\ call' = call
       \/ /\ uses[j] = None /\ owner[j] \in assets
          /\ copies' = copies \cup {j} /\ call' = AddRows(owner[j])
    /\ UNCHANGED <<assetVars, owner, uses, rows>>

\* Only the row's status is looked at, which a cancel over HTTP makes final
\* while the task goes on.
DeleteJob(j) ==
    /\ j \in rows
    /\ rows' = rows \ {j}
    /\ UNCHANGED <<assetVars, owner, uses, tasks, copies, call>>

DeleteCopy(k) ==
    /\ k \in copies /\ CanDropCopy(k)
    /\ copies' = copies \ {k}
    /\ UNCHANGED <<assetVars, owner, uses, rows, tasks, call>>

-----------------------------------------------------------------------------
(* Any client may call anything at any time.                               *)

Ops == Binds \cup {"deactivate", "update", "delete", "delete keeping copies", "backup"}

Request(c) ==
    \/ \E a \in Targets, op \in Ops \ Binds : Arrive(c, op, a, None) /\ UNCHANGED recordVars
    \/ \E a \in Targets, p \in Policies, op \in Binds : Arrive(c, op, a, p) /\ UNCHANGED recordVars
    \/ \E p \in Policies : Arrive(c, "remove", None, p) /\ UNCHANGED recordVars

Answer(c) ==
    /\ call[c].step \in Answers
    /\ call' = [call EXCEPT ![c] = Idle]
    /\ UNCHANGED recordVars

HandlerStep(c) ==
    \/ \E op \in Binds : BindFindAsset(c, op) \/ BindFindPolicy(c, op) \/ Bind(c, op)
    \/ Enable(c)
    \/ DeactivateFind(c) \/ Disable(c)
    \/ ReadEnabled(c) \/ WriteAsset(c)
    \/ DropJobs(c) \/ ListCopies(c) \/ DropAsset(c)
    \/ FindPolicy(c) \/ FindReferences(c) \/ DropPolicy(c)
    \/ FindProtected(c) \/ SubmitFails(c)
    \/ \E k \in Jobs : DropCopy(c, k) \/ SubmitJob(c, k)

ProtectionNext ==
    \/ \E c \in Calls : Request(c) \/ HandlerStep(c) \/ Answer(c)
    \/ \E a \in Assets : CreateAsset(a)
    \/ \E p \in Policies : CreatePolicy(p)
    \/ \E j \in Jobs : EndJob(j) \/ DeleteJob(j) \/ DeleteCopy(j)
                       \/ \E a \in Assets, k \in Jobs : SubmitRestore(j, a, k)

ProtectionSpec == ProtectionInit /\ [][ProtectionNext]_<<recordVars, call>>

-----------------------------------------------------------------------------
(* Properties                                                              *)

Steps == {"start", "asset", "policy", "bound", "read", "jobs", "listed", "unused", "active"}
Handlers ==
    [op : Ops \cup {"remove"}, step : Steps \cup Answers, asset : Assets \cup {None},
     policy : Policies \cup {None}, flag : BOOLEAN, left : SUBSET Jobs, raced : BOOLEAN, held : BOOLEAN]

\* Every variable keeps its type, only rows of assets are enabled, and the
\* seeded policies stay.
ProtectionTypeOK ==
    /\ assets \subseteq Assets /\ on \subseteq assets
    /\ sla \in [Assets -> Policies \cup {None}]
    /\ Builtin \subseteq policies /\ policies \subseteq Policies
    /\ owner \in [Jobs -> Assets \cup {None}] /\ uses \in [Jobs -> Jobs \cup {None}]
    /\ rows \subseteq Jobs /\ tasks \subseteq Jobs /\ copies \subseteq Jobs
    /\ call \in [Calls -> {Idle} \cup Handlers]

\* No handler leaves a row behind that names a row which is gone, however
\* the steps of a delete and of what adds to the asset interleave.
NothingDangles ==
    /\ \A a \in assets : sla[a] \in policies \cup {None}
    /\ \A j \in rows : owner[j] \in assets /\ uses[j] \in copies \cup {None}
    /\ \A k \in copies : owner[k] \in assets

\* A protected asset has a policy, although activating takes two writes, an
\* update writes back the flag it read, and policies are removed meanwhile.
ProtectedHasPolicy == \A a \in on : sla[a] \in policies

\* delete_asset ignores the results of its first deletes, which clear all that
\* stands in the way of the last: it is refused only if a job or a copy was
\* added meanwhile, or for a restore into another asset, whose row outlives
\* the delete of this asset's jobs and holds the copy.
RefusedDeleteHasReason ==
    \A c \in Calls : At(c, "delete", "refused") => call[c].raced \/ call[c].held

\* An update, which has no business with protection, changes it only if it
\* was switched on or off between the update's read and its write.
UpdateKeepsProtection ==
    [][\A c \in Calls : WriteAsset(c) => on' = on \/ call[c].raced]_<<recordVars, call>>

\* A backup is accepted for an asset without protection only if protection
\* was switched between the check and the insert.
JobsStartProtected ==
    [][\A c \in Calls, j \in Jobs : SubmitJob(c, j) /\ j \in rows'
            => Active(Asset(c)) \/ call[c].raced]_<<recordVars, call>>
=============================================================================
