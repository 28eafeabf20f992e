--------------------------------- MODULE Shell ---------------------------------
(***************************************************************************)
(* What surrounds the desktop's pages while it is connected: the           *)
(* notifications of App.tsx and their page, the toasts of                  *)
(* components/Toast.tsx, and components/CommandPalette.tsx.                *)
(***************************************************************************)
EXTENDS Integers, Sequences, FiniteSets, Filters

CONSTANTS
    Cap,        \* notifications kept (50 in App.tsx)
    MaxNotes, MaxToasts,    \* bound: notifications and toasts of one session
    Messages,   \* texts of toasts, with their type
    Pages, Assets, Jobs,    \* entries of the palette
    Queries, Everything,    \* what is typed; Everything is the empty query
    Matches     \* the entries each query matches

ASSUME ShellAssumption ==
    /\ Cap \in Nat \ {0} /\ MaxNotes \in Nat /\ MaxToasts \in Nat
    /\ Everything \in Queries /\ IsFiniteSet(Pages \cup Assets \cup Jobs)
    /\ Matches \in [Queries -> SUBSET (Pages \cup Assets \cup Jobs)]

VARIABLES
    notes, lastNote,    \* notifications, newest first, and the last one's id
    toasts, lastToast,  \* toasts, oldest first, and the last one's id
    timers,     \* the toasts that a timeout is going to remove
    open, query,    \* the palette
    assets, jobs,   \* what the agent's last answers listed
    asked,      \* the answers the palette is waiting for
    selected,   \* the index of the entry it highlights, from 0
    arrived     \* history: an answer came after selected was last fitted to the list

noteVars    == <<notes, lastNote>>
toastVars   == <<toasts, lastToast, timers>>
paletteVars == <<open, query, assets, jobs, asked, selected, arrived>>

ShellInit ==
    /\ notes = <<>> /\ lastNote = 0
    /\ toasts = <<>> /\ lastToast = 0 /\ timers = {}
    /\ open = FALSE /\ query = Everything
    /\ assets = {} /\ jobs = {} /\ asked = {} /\ selected = 0 /\ arrived = FALSE

-----------------------------------------------------------------------------
(* Notifications                                                           *)

\* Mutant of AddNotification: it is numbered by its place in the list.
AddNotificationByPlace ==
    /\ lastNote < MaxNotes /\ lastNote' = lastNote + 1
    /\ notes' = SubSeq(<<[id |-> Len(notes) + 1, read |-> FALSE]>> \o notes, 1,
                       IF Len(notes) < Cap THEN Len(notes) + 1 ELSE Cap)
    /\ UNCHANGED <<toastVars, paletteVars>>

\* A job has completed or failed.
AddNotification ==
    /\ lastNote < MaxNotes /\ lastNote' = lastNote + 1
    /\ notes' = SubSeq(<<[id |-> lastNote', read |-> FALSE]>> \o notes, 1,
                       IF Len(notes) < Cap THEN Len(notes) + 1 ELSE Cap)
    /\ UNCHANGED <<toastVars, paletteVars>>

\* A click on a notification, which the page shows as read from then on.
MarkRead(id) ==
    /\ \E i \in DOMAIN notes : notes[i].id = id
    /\ notes' = [i \in DOMAIN notes |-> [notes[i] EXCEPT !.read = @ \/ notes[i].id = id]]
    /\ UNCHANGED <<lastNote, toastVars, paletteVars>>

ClearAll ==
    /\ notes # <<>> /\ notes' = <<>>
    /\ UNCHANGED <<lastNote, toastVars, paletteVars>>

-----------------------------------------------------------------------------
(* Toasts                                                                  *)

\* A message that is shown already changes nothing, not even its timeout.
PushToast(m, persistent) ==
    /\ lastToast < MaxToasts
    /\ \A i \in DOMAIN toasts : toasts[i].message # m
    /\ lastToast' = lastToast + 1
    /\ toasts' = Append(toasts, [id |-> lastToast', message |-> m, persistent |-> persistent])
    /\ timers' = timers \cup (IF persistent THEN {} ELSE {lastToast'})
    /\ UNCHANGED <<noteVars, paletteVars>>

Without(id) == Keep(toasts, {toasts[i] : i \in {k \in DOMAIN toasts : toasts[k].id # id}})

Timeout(id) ==
    /\ id \in timers /\ timers' = timers \ {id}
    /\ toasts' = Without(id)
    /\ UNCHANGED <<lastToast, noteVars, paletteVars>>

\* Only a persistent toast has a button for it.
DismissToast(id) ==
    /\ \E i \in DOMAIN toasts : toasts[i].id = id /\ toasts[i].persistent
    /\ toasts' = Without(id)
    /\ UNCHANGED <<lastToast, timers, noteVars, paletteVars>>

-----------------------------------------------------------------------------
(* The command palette                                                     *)

\* The entries shown: pages, and what was found so far.
Results == Cardinality(Matches[query] \cap (Pages \cup assets \cup jobs))

Select(i) == selected' = i /\ arrived' = FALSE

\* It asks for assets and jobs each time it opens; what it knew before stays
\* until an answer is there.  (Bound: it opens again after the answers.)
Open ==
    /\ ~open /\ asked = {}
    /\ open' = TRUE /\ query' = Everything /\ Select(0)
    /\ asked' = {"assets", "jobs"}
    /\ UNCHANGED <<assets, jobs, noteVars, toastVars>>

\* A request that fails leaves nothing.
AssetsArrive(s) ==
    /\ "assets" \in asked /\ asked' = asked \ {"assets"}
    /\ assets' = s /\ arrived' = TRUE
    /\ UNCHANGED <<open, query, jobs, selected, noteVars, toastVars>>

JobsArrive(s) ==
    /\ "jobs" \in asked /\ asked' = asked \ {"jobs"}
    /\ jobs' = s /\ arrived' = TRUE
    /\ UNCHANGED <<open, query, assets, selected, noteVars, toastVars>>

\* Mutant of TypeQuery: the selection stays where it was.
TypeQueryOnly(q) ==
    /\ open /\ q # query /\ query' = q
    /\ UNCHANGED <<open, assets, jobs, asked, selected, arrived, noteVars, toastVars>>

TypeQuery(q) ==
    /\ open /\ q # query /\ query' = q /\ Select(0)
    /\ UNCHANGED <<open, assets, jobs, asked, noteVars, toastVars>>

\* The arrow keys; only the one down looks at the end of the list.
MoveKey ==
    /\ open
    /\ \/ Select(IF selected + 1 < Results - 1 THEN selected + 1 ELSE Results - 1)
       \/ selected' = (IF selected > 0 THEN selected - 1 ELSE 0) /\ UNCHANGED arrived
    /\ UNCHANGED <<open, query, assets, jobs, asked, noteVars, toastVars>>

Hover ==
    /\ open /\ \E i \in 0..(Results - 1) : Select(i)
    /\ UNCHANGED <<open, query, assets, jobs, asked, noteVars, toastVars>>

\* Enter on the highlighted entry or a click on any of them, which navigate,
\* Escape, a click beside it, or Ctrl-K again.
Close ==
    /\ open /\ open' = FALSE
    /\ UNCHANGED <<query, assets, jobs, asked, selected, arrived, noteVars, toastVars>>

\* Disconnecting unmounts all of it.
UnmountShell ==
    /\ notes' = <<>> /\ lastNote' = 0 /\ toasts' = <<>> /\ lastToast' = 0 /\ timers' = {}
    /\ open' = FALSE /\ query' = Everything /\ assets' = {} /\ jobs' = {}
    /\ asked' = {} /\ selected' = 0 /\ arrived' = FALSE

-----------------------------------------------------------------------------
ShellNext ==
    \/ AddNotification \/ ClearAll
    \/ \E id \in 1..MaxNotes : MarkRead(id)
    \/ \E m \in Messages, p \in BOOLEAN : PushToast(m, p)
    \/ \E id \in 1..MaxToasts : Timeout(id) \/ DismissToast(id)
    \/ Open \/ MoveKey \/ Hover \/ Close
    \/ \E s \in SUBSET Assets : AssetsArrive(s)
    \/ \E s \in SUBSET Jobs : JobsArrive(s)
    \/ \E q \in Queries : TypeQuery(q)
    \/ UnmountShell

ShellSpec == ShellInit /\ [][ShellNext]_<<noteVars, toastVars, paletteVars>>

-----------------------------------------------------------------------------
(* Properties                                                              *)

\* Every variable keeps its type.  The ids that a click, a timeout or the
\* renderer's keys rely on fall along the list of notifications, and rise
\* along the toasts; no two toasts are alike, and those that are not
\* persistent have a timeout, which is not another's.
ShellTypeOK ==
    /\ Len(notes) <= Cap
    /\ \A i \in DOMAIN notes : notes[i].id <= lastNote /\ notes[i].read \in BOOLEAN
    /\ \A i, k \in DOMAIN notes : i < k => notes[i].id > notes[k].id
    /\ \A i, k \in DOMAIN toasts : i < k =>
          toasts[i].id < toasts[k].id /\ toasts[i].message # toasts[k].message
    /\ timers = {toasts[i].id : i \in {k \in DOMAIN toasts : ~toasts[k].persistent}}
    /\ lastToast \in 0..MaxToasts /\ \A i \in DOMAIN toasts : toasts[i].id <= lastToast
    /\ open \in BOOLEAN /\ query \in Queries /\ assets \subseteq Assets /\ jobs \subseteq Jobs
    /\ asked \subseteq {"assets", "jobs"} /\ selected \in Int

\* An open palette with entries highlights one of them, and so Enter does
\* what is seen, whatever was typed and moved; only an answer that comes later
\* may leave the highlight outside the list.
PaletteHighlights ==
    open /\ ~arrived /\ Results > 0 => selected \in 0..(Results - 1)
=============================================================================
