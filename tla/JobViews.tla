------------------------------- MODULE JobViews -------------------------------
(***************************************************************************)
(* The desktop's three views of jobs, fed by EventStream and by requests:  *)
(*   "jobs"    pages/Jobs.tsx, which polls and has a filter,               *)
(*   "detail"  pages/JobDetail.tsx, which loads once and after an outcome, *)
(*   "log"     components/LogViewer.tsx, which polls the log of one job.   *)
(* A load asks, the agent reads each part when it comes to it, and the     *)
(* answer is applied when the last part is there: answers overtake one     *)
(* another and events.  hooks/useAgentEvents.ts hands a view the events    *)
(* that arrive once its listener is registered.  A view that is left takes *)
(* its state with it; the log viewer lies over the jobs page and shares    *)
(* nothing with it, so it is a view of its own here.                       *)
(***************************************************************************)
EXTENDS EventStream

CONSTANTS
    Filters,    \* the status filters the user tries; "" is all
    PageSize,   \* rows the jobs page asks for (50)
    Views,      \* bound: the views the user opens
    Commands,   \* bound: what the user does there
    Requests,   \* bound: loads in flight at once
    None        \* no job

ASSUME ViewAssumption ==
    /\ "" \in Filters /\ Filters \subseteq {""} \cup Status /\ None \notin Jobs
    /\ PageSize \in Nat \ {0} /\ Views \subseteq {"jobs", "detail", "log"} /\ Commands \subseteq {"cancel", "delete"}

VARIABLES
    view,       \* the view that is open
    at,         \* the job it is about, None for the jobs page
    listening,  \* whether listen() has resolved for it
    filter,     \* the jobs page's status filter
    shown,      \* the status each job is shown with, "hidden" if it is not
    bar,        \* the phase of each job's last progress report, if not cleared
    lines,      \* the log lines shown
    timers,     \* the filters of the reloads set for later (one each: a bound)
    req,        \* the loads in flight
    removing,   \* jobs whose DELETE the page waits for
    behind      \* history: the last load failed, or missed a write of the row

viewVars == <<view, at, listening, filter, shown, bar, lines, timers, req, removing, behind>>
allVars  == <<agentVars, viewVars>>

Free    == [state |-> "free"]
Asked(f) == [filter |-> f, rows |-> {}, log |-> {}]   \* no part answered yet
Hidden  == [j \in Jobs |-> "hidden"]
NoBar   == [j \in Jobs |-> "none"]

\* What the load of each view fetches.
Parts == [none |-> {}, jobs |-> {"rows"}, detail |-> {"rows", "log"}, log |-> {"log"}]

\* What GET /jobs may answer: the rows that began last, up to the limit; rows
\* that have not begun come after them, in any order.
Matching(f) == {j \in Jobs : row[j] # "absent" /\ f \in {"", row[j]}}
LastBegun(f) ==
    {S \in SUBSET Matching(f) :
        /\ Cardinality(S) <= PageSize /\ (S = Matching(f) \/ Cardinality(S) = PageSize)
        /\ \A j \in S, k \in Matching(f) \ S : begun[j] >= begun[k]}
RowsOf(S) == [j \in Jobs |-> IF j \in S THEN row[j] ELSE "hidden"]
Pages(f)  == {RowsOf(S) : S \in LastBegun(f)}

\* GET /jobs/:id, which has no limit.
RowOf(j) == RowsOf({j} \cap Matching(""))

ViewInit ==
    /\ StreamInit
    /\ view = "none" /\ at = None /\ listening = FALSE /\ filter = ""
    /\ shown = Hidden /\ bar = NoBar /\ lines = <<>>
    /\ timers = {} /\ removing = {}
    /\ req = [r \in Requests |-> Free]
    /\ behind = FALSE

-----------------------------------------------------------------------------
(* Loads                                                                   *)

Ask(f) == \E r \in Requests : req[r] = Free /\ req' = [req EXCEPT ![r] = Asked(f)]

Missing(r) == IF req[r] = Free THEN {} ELSE {p \in Parts[view] : req[r][p] = {}}

ReadRows(r) ==
    /\ "rows" \in Missing(r)
    /\ \E rows \in IF view = "jobs" THEN Pages(req[r].filter) ELSE {RowOf(at)} :
          req' = [req EXCEPT ![r].rows = {rows}]
    /\ UNCHANGED <<agentVars, view, at, listening, filter, shown, bar, lines, timers, removing, behind>>

ReadLog(r) ==
    /\ "log" \in Missing(r)
    /\ req' = [req EXCEPT ![r].log = {ring[at]}]
    /\ UNCHANGED <<agentVars, view, at, listening, filter, shown, bar, lines, timers, removing, behind>>

Answered(r) == req[r] # Free /\ Missing(r) = {}

Finish(r) ==
    /\ req' = [req EXCEPT ![r] = Free]
    /\ UNCHANGED <<agentVars, view, at, listening, filter, bar, timers, removing>>

ApplyJobs(r) ==
    /\ view = "jobs" /\ Answered(r)
    /\ shown' \in req[r].rows
    /\ Finish(r)
    /\ UNCHANGED <<lines, behind>>

\* A job that is not found any more leaves the page as it is.
ApplyDetail(r) ==
    /\ view = "detail" /\ Answered(r)
    /\ \E rows \in req[r].rows :
          /\ shown' = [shown EXCEPT ![at] = IF rows[at] = "hidden" THEN @ ELSE rows[at]]
          /\ behind' = (rows[at] # row[at] \/ at \in owed)
    /\ lines' \in req[r].log
    /\ Finish(r)

ApplyLog(r) ==
    /\ view = "log" /\ Answered(r)
    /\ lines' \in req[r].log
    /\ Finish(r)
    /\ UNCHANGED <<shown, behind>>

Apply(r) == ApplyJobs(r) \/ ApplyDetail(r) \/ ApplyLog(r)

\* The agent cannot be reached; only the console and a toast say so.
LoadFails(r) ==
    /\ Missing(r) # {}
    /\ behind' = (view = "detail")
    /\ Finish(r)
    /\ UNCHANGED <<shown, lines>>

-----------------------------------------------------------------------------
(* Opening, leaving, polling                                               *)

Open(v, j) ==
    /\ view = "none" /\ v \in Views
    /\ view' = v /\ at' = j
    /\ missed' = ~up
    /\ Ask("")
    /\ UNCHANGED <<jobVars, logVars, wire, up, listening, filter, shown, bar, lines, timers, removing, behind>>

\* Mutant of Leave: the next view starts with the state of the last.
LeaveKeepsState ==
    /\ view # "none"
    /\ view' = "none" /\ at' = None /\ listening' = FALSE /\ filter' = ""
    /\ timers' = {} /\ removing' = {}
    /\ req' = [r \in Requests |-> Free]
    /\ behind' = FALSE
    /\ UNCHANGED <<agentVars, shown, bar, lines>>

Leave ==
    /\ view # "none"
    /\ view' = "none" /\ at' = None /\ listening' = FALSE /\ filter' = ""
    /\ shown' = Hidden /\ bar' = NoBar /\ lines' = <<>>
    /\ timers' = {} /\ removing' = {}
    /\ req' = [r \in Requests |-> Free]
    /\ behind' = FALSE
    /\ UNCHANGED agentVars

Listen ==
    /\ view # "none" /\ ~listening
    /\ listening' = TRUE
    /\ UNCHANGED <<agentVars, view, at, filter, shown, bar, lines, timers, req, removing, behind>>

\* Mutant of Poll: the interval keeps the load of the first render.
PollFirstFilter ==
    /\ view \in {"jobs", "log"}
    /\ Ask("")
    /\ UNCHANGED <<agentVars, view, at, listening, filter, shown, bar, lines, timers, removing, behind>>

\* Mutant of Poll: the log viewer only loads once.
PollJobsOnly ==
    /\ view = "jobs"
    /\ Ask(filter)
    /\ UNCHANGED <<agentVars, view, at, listening, filter, shown, bar, lines, timers, removing, behind>>

\* setInterval: 15 s for the jobs page, 10 s for the log viewer.  The loads
\* after a cancel are loads of the same kind.
Poll ==
    /\ view \in {"jobs", "log"}
    /\ Ask(filter)
    /\ UNCHANGED <<agentVars, view, at, listening, filter, shown, bar, lines, timers, removing, behind>>

SetFilter(f) ==
    /\ view = "jobs" /\ f # filter
    /\ filter' = f
    /\ Ask(f)
    /\ UNCHANGED <<agentVars, view, at, listening, shown, bar, lines, timers, removing, behind>>

TimerFires(f) ==
    /\ f \in timers
    /\ timers' = timers \ {f}
    /\ Ask(f)
    /\ UNCHANGED <<agentVars, view, at, listening, filter, shown, bar, lines, removing, behind>>

-----------------------------------------------------------------------------
(* Events                                                                  *)

Concerns(e) == view = "jobs" \/ e.job = at

\* Mutant of OnStatus: an outcome leaves the last progress report in place.
OnStatusKeepsBar(e) ==
    /\ e.kind = "status"
    /\ shown' = [shown EXCEPT ![e.job] = IF @ = "hidden" \/ view = "log" THEN @ ELSE e.status]
    /\ timers' = IF e.status \in Final /\ view # "log" THEN timers \cup {filter} ELSE timers
    /\ UNCHANGED <<bar, lines>>

\* Mutant of OnStatus: the page does not read the job again after its outcome.
OnStatusKeeps(e) ==
    /\ e.kind = "status"
    /\ shown' = [shown EXCEPT ![e.job] = IF @ = "hidden" \/ view = "log" THEN @ ELSE e.status]
    /\ bar' = [bar EXCEPT ![e.job] = IF e.status \in Final THEN "none" ELSE @]
    /\ UNCHANGED <<timers, lines>>

OnStatus(e) ==
    /\ e.kind = "status"
    /\ shown' = [shown EXCEPT ![e.job] = IF @ = "hidden" \/ view = "log" THEN @ ELSE e.status]
    /\ bar' = [bar EXCEPT ![e.job] = IF e.status \in Final THEN "none" ELSE @]
    /\ timers' = IF e.status \in Final /\ view # "log" THEN timers \cup {filter} ELSE timers
    /\ UNCHANGED lines

OnProgress(e) ==
    /\ e.kind = "progress"
    /\ bar' = [bar EXCEPT ![e.job] = e.phase]
    /\ UNCHANGED <<shown, timers, lines>>

OnLog(e) ==
    /\ e.kind = "log"
    /\ lines' = IF view = "jobs" THEN lines ELSE Append(lines, e.line)
    /\ UNCHANGED <<shown, bar, timers>>

Deliver ==
    /\ wire # <<>>
    /\ wire' = Tail(wire)
    /\ LET e == Head(wire)
       IN  IF listening /\ Concerns(e)
           THEN (OnStatus(e) \/ OnProgress(e) \/ OnLog(e)) /\ UNCHANGED missed
           ELSE /\ missed' = (missed \/ (view # "none" /\ ~listening))
                /\ UNCHANGED <<shown, bar, timers, lines>>
    /\ UNCHANGED <<jobVars, logVars, up, view, at, listening, filter, req, removing, behind>>

-----------------------------------------------------------------------------
(* What each card and page offers, and what the user does with it          *)

Card(j) == [progress |-> shown[j] = "running" /\ bar[j] # "none",
            cancel   |-> shown[j] \in Active,
            delete   |-> shown[j] \in Final]

Detail == [found    |-> shown[at] # "hidden",
           cancel   |-> shown[at] \in Active,
           progress |-> bar[at] # "none"]

CancelFromCard(j) ==
    /\ view = "jobs" /\ Card(j).cancel /\ "cancel" \in Commands
    /\ ReadForCancel(j)
    /\ UNCHANGED viewVars

CancelFromDetail ==
    /\ view = "detail" /\ Detail.cancel /\ "cancel" \in Commands
    /\ ReadForCancel(at)
    /\ UNCHANGED viewVars

DeleteFromCard(j) ==
    /\ view = "jobs" /\ Card(j).delete /\ "delete" \in Commands
    /\ ReadForDelete(j)
    /\ removing' = removing \cup {j}
    /\ UNCHANGED <<view, at, listening, filter, shown, bar, lines, timers, req, behind>>

\* The page drops the card, or the answer is lost and only a toast says so.
DeleteAnswered(j) ==
    /\ view = "jobs" /\ j \in removing \ deleting
    /\ removing' = removing \ {j}
    /\ \/ row[j] = "absent" /\ shown' = [shown EXCEPT ![j] = "hidden"]
       \/ UNCHANGED shown
    /\ UNCHANGED <<agentVars, view, at, listening, filter, bar, lines, timers, req, behind>>

-----------------------------------------------------------------------------
ViewNext ==
    \/ AgentStep /\ UNCHANGED viewVars
    \/ Open("jobs", None)
    \/ \E j \in Jobs : Open("detail", j) \/ Open("log", j)
    \/ \E j \in Jobs : CancelFromCard(j) \/ DeleteFromCard(j) \/ DeleteAnswered(j)
    \/ CancelFromDetail
    \/ Leave \/ Listen \/ Poll \/ Deliver
    \/ \E f \in Filters : SetFilter(f) \/ TimerFires(f)
    \/ \E r \in Requests : ReadRows(r) \/ ReadLog(r) \/ Apply(r) \/ LoadFails(r)

ViewSpec == ViewInit /\ [][ViewNext]_allVars

\* Intervals go on firing, callbacks run, and of the requests sent again and
\* again some are answered.
ViewFairSpec ==
    /\ ViewSpec
    /\ WF_allVars(Deliver) /\ WF_allVars(Poll)
    /\ \A r \in Requests : SF_allVars(ReadRows(r) \/ ReadLog(r)) /\ WF_allVars(Apply(r))

-----------------------------------------------------------------------------
(* Properties                                                              *)

\* Every variable keeps its type; a view has no timer, request or progress
\* once it is left.
ViewTypeOK ==
    /\ StreamTypeOK
    /\ view \in DOMAIN Parts
    /\ at \in Jobs \cup {None} /\ (at = None <=> view \in {"none", "jobs"})
    /\ listening \in BOOLEAN /\ filter \in Filters /\ behind \in BOOLEAN
    /\ shown \in [Jobs -> {"hidden"} \cup Active \cup Final]
    /\ bar \in [Jobs -> {"none", "work", "done"}]
    /\ removing \subseteq Jobs
    /\ lines \in Seq(Line)
    /\ timers \subseteq Filters
    /\ req \in [Requests -> {Free} \cup [filter : Filters, log : SUBSET Seq(Line),
                    rows : SUBSET [Jobs -> {"hidden"} \cup Active \cup Final]]]
    /\ view = "none" => /\ ~listening /\ filter = "" /\ shown = Hidden /\ bar = NoBar
                        /\ lines = <<>> /\ timers = {} /\ removing = {} /\ \A r \in Requests : req[r] = Free

\* Nothing is under way that could still change what the view shows.
Settled == /\ wire = <<>> /\ timers = {} /\ cancelling = {}
           /\ \A r \in Requests : req[r] = Free

\* The detail page has no poll: what it shows of a job that has ended is the
\* row, unless it missed an event or its last load was answered too early.
DetailAgrees ==
    view = "detail" /\ Settled /\ told[at] \in Outcomes /\ at \notin owed
        => \/ shown[at] \in {row[at], "hidden"} \/ row[at] = "absent"
           \/ missed \/ behind

\* A bar that shows work under way is left over only if an event got lost,
\* also where the work goes on after a cancel over HTTP.  A bar that says all
\* is done, which execute.rs:101 puts back after the outcome has cleared it,
\* belongs to a job that has announced that it completed.
BarEndsWithJob ==
    \A j \in Jobs :
        /\ bar[j] = "work" /\ wire = <<>> /\ told[j] \in Outcomes => missed
        /\ bar[j] = "done" => told[j] \in {"completed", "lost"}

\* The jobs page polls: whatever events were lost and whatever answers came
\* late, with the filter the user left it on it shows the rows that began
\* last, as many as it asks for.
JobsPageCatchesUp ==
    <>[](view = "jobs") /\ <>[][FALSE]_filter => <>[](shown \in Pages(filter))

\* Lines that an event appended twice, or a late answer took away, are put
\* right by the log viewer's poll.
LogCatchesUp ==
    \A j \in Jobs : <>[](view = "log" /\ at = j) => <>[](lines = ring[j])
=============================================================================
