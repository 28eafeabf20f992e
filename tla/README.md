# A TLA+ model of the Bifrost agent

The Bifrost agent (`src/crates/agentd`) is a daemon that backs files, volumes and
NAS shares up on request: an HTTP API over one SQLite connection, a queue of
asynchronous tasks bounded by a semaphore, adapters around two blocking engines, and
a broadcast bus of progress events. The desktop application (`src/desktop`) is a
Tauri process that talks to it over HTTP and a WebSocket, and React pages. This
directory holds TLA+ specifications of that code, the TLC runs that check them on
small instances, and proofs checked by TLAPS.

`PROJECT.json` maps each definition to the source lines it models and lists runs,
mutants, findings, hazards and theorems. This file explains them.

## 1. Inventory

### Agent (`src/crates/agentd/src`)

| component | state | operations | interacts with | what makes it correct |
|---|---|---|---|---|
| job queue, `runner/queue.rs` | active map job -> token, semaphore permits and waiters | `submit`, the spawned task, `cancel` | inserts and updates rows, broadcasts status, runs `execute_job` | permits conserved; map exact; every job gets its turn |
| job execution, `runner/execute.rs` | none of its own | `execute_job` and the bodies for file, volume, NAS and restore | reads asset, SLA, configuration; calls an engine through `spawn_blocking`; inserts a copy; writes the outcome | row, last event and copy agree |
| jobs API, `api/jobs.rs` | none | `start_job`, `cancel_job`, `delete_job`, reads | row read and row write are separate database calls beside the task | only legal changes of status; only final rows deleted |
| restore API, `api/restore.rs` | none | `start_restore` and the task it spawns | does not use the queue | bounded like other jobs; outcome on row and event |
| database, `db/` | 8 SQLite tables, one mutex | `with_conn(closure)` | everything | foreign keys hold; each closure is atomic, two closures are not |
| startup, `main.rs`, `db/migrations.rs`, `auth.rs` | schema version, token file | migrations, token | what a kill leaves behind | each start works from whatever the last one left |
| assets and SLA API, `api/assets.rs`, `api/slas.rs` | none | create, update, activate, deactivate, change SLA, delete (several steps) | jobs, copies and policies by foreign key | nothing dangles; what is protected has a policy; no update undone |
| copies and browse API | none | list, delete, expire; list a directory | rows and directories retention also removes | a copy on record has its data |
| scheduler, `scheduler/cron.rs` | last run of each asset | `tick` | submits jobs | each due schedule fires once. Not constructed by `main.rs` |
| retention, `retention.rs` | none | `evaluate_all`, the three selections | expires, logs and removes copies | keeps what the policy keeps. Not constructed by `main.rs` |
| adapters, `adapters/` | open snapshot sessions | file backup and restore, volume, consistency | external engines `bifrost` and `vpt-rs` | every session is closed |
| progress bus, `progress.rs`, `server/ws.rs` | bounded broadcast channel, a log ring per job | send, subscribe, lag | WebSocket clients | a client ends up with the true status |
| router, middleware, privilege, agent configuration | none, or one key-value row | wiring, single reads and writes | | |

### Desktop (`src/desktop`)

| component | state | operations | interacts with | what makes it correct |
|---|---|---|---|---|
| Tauri commands, `commands.rs`, `settings.rs` | agent in use, settings in memory and in a file | connect, disconnect, add, remove and switch profile, start stream | agent by HTTP; overlapping commands | file and memory agree; no saved profile is lost |
| WebSocket client, `agent_client/ws.rs` | one spawned task per start | stream, end of stream | `ws.rs` of the agent, listeners | events come from the agent that is shown |
| event hooks, `useAgentEvents.ts` | listeners | subscribe, clean up | pages | a view hears what arrives while it is open |
| job pages, log viewer | job list, progress bars, log lines, timers | poll, load, event, cancel, delete | agent, events | the view comes to show the agent's state |
| asset and policy pages | what the last load fetched, dialogs, selection | load, commands, batches, navigation | agent | after every answer, what is shown is what is there |
| asset forms, path picker | fields, directory listing | wizard steps, take a configuration apart, build it | agent, `browse_local` | editing keeps what was stored |
| app shell: connection, notifications, toasts, palette | connection, lists, timers, highlight | connect, event, timeout, keys | all pages | ids unique, caps kept, Enter does what is seen |
| translations, theme, dashboards | | show | | presentation |

### Hard behaviours

* Two handlers, or a handler and a task, write the same row; each decides on a
  read made in an earlier database call (section 5 lists the races that lose).
* Many ways out of a task: each must give back the permit, leave the active map
  and write the outcome once.
* A kill of the process loses the queue and leaves rows pending or running; a
  kill of the desktop may cut the settings file short.
* Client disconnects drop a handler's future at an `await`.
* Events and rows are written one after the other, never together; a slow client
  loses events; a stream that ends is not opened again.
* In the desktop answers come late: after an event, after a newer answer, after
  the user has gone to another page or opened a dialog.

Each one is a hazard in `PROJECT.json`, with its line and the properties that would
catch it; a hazard without a property says why.

## 2. Modules

| module | models | kind |
|---|---|---|
| `JobLifecycle` | what a client is promised about a row's status and about how many run | abstract specification |
| `JobQueue` | `runner/queue.rs`, `runner/execute.rs`, `db/jobs.rs` | component; implements `JobLifecycle` |
| `JobsApi` | `api/jobs.rs`, `api/restore.rs`, restart of the process, composed with `JobQueue` | composition |
| `WriteFaults` | the same with status writes that fail and are ignored | composition |
| `SlaPolicies` | create and update of `api/slas.rs`, `db/slas.rs`, the dialogs of `SLAPolicies.tsx` | component |
| `Protection` | `api/assets.rs`, the delete of `api/slas.rs`, `api/copies.rs`, the looks `POST /jobs` and `POST /restore` take at those records, the schema's foreign keys | component |
| `EventStream` | `progress.rs`, `server/ws.rs`, `agent_client/ws.rs`, and the rows and events behind them | component |
| `JobViews` | `Jobs.tsx`, `JobDetail.tsx`, `LogViewer.tsx`, `useAgentEvents.ts`, composed with `EventStream` | composition |
| `AssetPages` | `Assets.tsx`, `AssetDetail.tsx`, `SLAPolicies.tsx`, routes, `ErrorBoundary.tsx`, and when the forms save | component |
| `Session` | `commands.rs`, `settings.rs`, the connection state of `App.tsx`, the connection tab of `Settings.tsx` | component |
| `Forms` | `NewAsset.tsx`, `EditAsset.tsx`, `PathPicker.tsx` | component |
| `Shell` | notifications of `App.tsx`, `Toast.tsx`, `CommandPalette.tsx` | component |
| `Filters` | JavaScript's `Array.prototype.filter`, as `Forms` and `Shell` use it | operators |
| `MCJobQueue`, `MCSlaPolicies`, `MCProtection`, `MCJobViews`, `MCAssetPages`, `MCSession`, `MCDialogs` | symmetry sets and instances for TLC | model checking |
| `JobQueueProofs`, `JobsApiProofs` (with `WriteFaults`), `ProtectionProofs`, `SlaPoliciesProofs`, `JobViewsProofs` (with `EventStream`), `AssetPagesProofs`, `SessionProofs`, `DialogsProofs` (`Forms`, `Shell`) | theorems | TLAPS |

What composes what: `JobsApi` extends `JobQueue`, which refines `JobLifecycle`, and
`WriteFaults` extends `JobsApi`;
`JobViews` extends `EventStream`, whose rows are the rows of `JobsApi` seen from outside
(a task announces, then writes; a cancel writes behind its back). `Protection` holds the
other tables and takes of a job only that its row exists and its task is at work;
`AssetPages` takes the handlers of `Protection` as one step each, because what a page can
see of one is its answer.

### JobQueue

| variable | code |
|---|---|
| `rows` | column `status` of `job_executions`, `"absent"` without a row |
| `copies` | jobs with a row in `backup_copies` |
| `job` | operation and kind of asset configuration of each job |
| `event` | last status broadcast on the progress bus for each job |
| `active` | keys of `JobQueue::active` |
| `cancelled` | tokens on which `cancel()` was called |
| `permits`, `waiters` | `JobQueue::semaphore` (tokio's semaphore is fair: first in, first out) |
| `task` | program counter of `submit`, then of the spawned task |

Each action is what happens between two points where another task or thread can be
seen: one `with_conn` closure (the mutex makes it atomic), one broadcast, one
acquisition of the active map's lock, one await. Their order in the code is the
order of the places in `task`: `inserted`, `spawned`, `queued`, `holding`,
`announced`, `marked`, `loaded`, `engine`, `recording`, then `succeeding`,
`completing` or `failing`, `aborting`, then `finished`, `leaving`, `done`; a job
found cancelled goes `holding`, `dropping`, `finished`. `Cancel` is `JobQueue::cancel`,
which no code of the agent calls: `JobQueue` models it as the interface it is, and `JobsApi`,
the running agent, never takes it. All early returns of
`execute_job` and of the functions it calls end in `failing`; the four before the
dispatch broadcast and write the same event and row as the last one.

Abstractions: the content of assets, policies and settings (any read may fail,
`SetupFails`); the engines (a call returns or fails, `EngineReturns`); progress and log
events; the other columns of a row. A configuration is one of `fileset`, `consistent`
(a fileset with `consistency_mode`), `nas`, `volume`: they differ in whether a copy is
recorded, whether the token is looked at, and whether the adapter announces
`running` again.

Assumption: an `UPDATE` by key on the open connection succeeds. The code ignores the
result of those updates; `WriteFaults` drops the assumption. An insert that the code
checks with `?` may fail here too.

### JobsApi

Adds `call` (what each cancel or delete request has decided on), `restore` (program
counter of the task of `start_restore`) and `restarts`. `JobQueue!Cancel` is no step
of it, because no code calls `JobQueue::cancel`; `ApiTypeOK` says so
(`cancelled = {}`). `Restart` keeps `rows` and `copies` and resets everything
that lives in memory. A task that a kill, or a dropped `submit`, took away is `"lost"`
(`DropSubmit`: the client goes away while `submit` awaits the lock at `queue.rs:74`).

### WriteFaults

Adds to `JobsApi` the writes that fail, on a full disk for example. A task that loses one
(`LoseTaskWrite`, `LoseRestoreWrite`) goes on as if it had been made: it has announced the
status before, and gives its permit back after. A handler whose write fails answers with the
error and announces nothing (`HandlerFails`). `lost` is history: the jobs that lost a write.
What `JobsApi` promises of every job, `WriteFaults` promises of those that lost none.

### SlaPolicies

`row` is the table `sla_policies`, with two of its columns: the name, which is unique and which
the handlers look up, and the retention kind, which only the schema's CHECK looks at. `call`
holds the dialogs that are open and the handlers in flight. Creating is `PostPolicy`,
`LookUpName`, `InsertPolicy`; updating is `PutPolicy` (any client, any subset of the fields) or
`OpenDialog` and `SaveDialog` (every field), then `ReadPolicy`, `LookUpNewName` if the name is
a new one, `UpdatePolicy`; each handler step is one `with_conn` call. A dialog whose save was
refused stays open with what it was opened with. `since` is history: the policies that others
have written since a request came or its dialog was opened. `DeletePolicy` is the last step of
the removal that `Protection` has in full; the made-up name of a policy that is sent without
one is a name like others.

### Protection

| variable | code |
|---|---|
| `assets`, `on`, `sla` | rows of `protected_assets`, those with `enabled = 1`, their `sla_policy_id` |
| `policies` | rows of `sla_policies` |
| `rows`, `owner`, `uses` | rows of `job_executions`, their `asset_id` and `backup_copy_id` |
| `tasks` | jobs whose task is still at work |
| `copies` | rows of `backup_copies`, named by the job that made them |
| `call` | the handlers in flight: operation, how far it has come, what it has read |

One action is one `with_conn` call. Handlers of several calls stop between them:
`activate` is `BindFindAsset`, `BindFindPolicy`, `Bind`, `Enable`; `delete` is `DropJobs`,
`ListCopies`, `DropCopy` for each copy listed, `DropAsset`; removing a policy is
`FindPolicy`, `FindReferences`, `DropPolicy`; a backup is `FindProtected`, then `SubmitJob`
or `SubmitFails`. A write that would break a foreign key fails, and the handler does what
the code does with the error: most answer it, `delete_asset` ignores all but the last.
`start_restore` compares neither the asset nor the copy it is sent, so `SubmitRestore` takes any
asset that is there and any copy, of whatever asset; a job is deleted whether its task is
at work or not, because the handler looks only at a row that an HTTP cancel makes final.
Two history bits of a handler: `raced`, something it has already looked at was changed by
somebody else; `held`, a copy it was to delete is read by a restore into another asset. Creating an asset or a policy, deleting a copy and deleting a job are one
call that writes, and need no place in `call`. Names, configurations and schedules are
left out.

### EventStream and JobViews

`EventStream` has, for each job, the row, its place in the order of `started_at` (`begun`), the
last step announced (`told`), whether the row is behind it (`owed`), whether the last report is
still to be sent (`closing`), the ring of log lines, and, for the one client there is, the
`wire` of events that are sent and not handled, whether the stream is `up`, and whether
events were `missed`. A job of the queue announces 'completed', reports 100 per cent, and then
writes its row: `Announce`, `ReportDone`, `Write`. A restore announces 'pending' first and
reports nothing. A cancel and a delete read the row, write it, and a cancel then announces, in
steps of their own (`ReadForCancel`, `WriteCancelled`, `AnnounceCancelled`; `ReadForDelete`,
`DeleteRow`). A send to a full channel drops the oldest event, as tokio's broadcast
channel does, and the forwarding task of `ws.rs` goes on after the gap. `LogLimit` stands for
the 500 lines of `progress.rs`. Lines are numbered; of a progress event only its phase counts,
work or done.

`JobViews` adds the view that is open, what it shows, its timers and its loads. A load is
several requests; each is read at a moment of its own (`ReadRows`, `ReadLog`), and the answer
is applied when all are there (`Promise.all`, `Promise.allSettled`). The jobs page gets at most
`PageSize` rows, those that began last; rows that have not begun come after them in any order
(`LastBegun`, the ORDER BY of `db/jobs.rs`). Events reach a view only
after its `listen()` has resolved (`Listen`). `SetFilter` replaces the function the interval
calls, but not the one a timer set earlier will call. The detail page has no poll.

### AssetPages

`known`, `bound`, `on`, `policies`, `held` are the agent's records; `page` and `at` are the route;
`seen` is what the last load put on the page; `dialogs`, `picking`, `picked`, `busy` are
the page's own state; `broken` says that the error boundary shows. `call` holds the requests
in flight, each with the visit it was sent on (`here`), since an answer to a page that was
left still runs what comes after the `await`, `navigate` included. Navigating to the route
that is open already mounts nothing again; it loads only when the asset is another one.

`fresh` is history: the loads that were read since the agent's last change.

Abstractions: the load of an asset asks for the asset and for its copies, which are read at
one moment here, but fail each on its own (`Lost`, `Part`, `Shown`: `Promise.allSettled`). A
delete of an asset may fail after its first deletes, alone or in a batch. The error texts and toasts are left out; the forms are `Forms`. Bound: two
saves of a policy dialog of one kind do not overlap, although a dialog that is cancelled and
opened again would let them.

### Session

`agent` is `AppState.agent_url` with its token, `memory` is `AppState.settings`, `disk` the file
(`None` when it cannot be read), `streams` the agents that have a stream task; `connected` and
`shown` are `App.tsx`, `tab` the connection tab. A command takes a clone of the settings
(`Take`), writes the file (`Save` or `Fail`, which may leave the file cut short) and stores
the clone (`Keep`); `connect_agent` stops after `Save`. Commands overlap, as async Tauri
commands do. A restart reads the file with the migration of `load_settings`. Histories: `moved`,
the agent was switched or left since the last connect; `again`, in this run of the program;
`edited`, a profile command has saved settings since the connect; `raced`, two commands
overlapped; `ended`, a stream is over.

### Forms and Shell

`Forms` keeps the fields of the wizard and of the edit form for each kind of asset, the stored
configuration, and the path picker with its loads. `Url` and `ParseUrl` are `buildNasUrl` and
`parseNasUrl` over a record of protocol, host, port, path and login; what
`PopulateConfig` reads and `BuildConfig` writes are functions of the kind. `Shell` keeps the
notifications with their cap, the toasts with the timers that remove them, and the palette:
the results are the entries that match the query, out of the pages, the assets and the jobs
that have arrived. Rows left empty and toasts that go are filtered out with `Keep` of
`Filters`, a recursive function, so that theorems can speak of it.

## 3. Runs

| run | instance | checks |
|---|---|---|
| `JobQueue` | 3 jobs, 2 permits, all operations and kinds of configuration but `nas`; 154 k states | permits and map are exact, tasks fix their rows, the queue implements `JobLifecycle`, its fairness included, and a waiting job that is cancelled is not run |
| `WriteFaults` | 2 jobs and their restores, 1 permit, 1 request, 1 restart; 329 k states | what cancels, deletes, failing writes and a kill can and cannot spoil, and that every task ends and announces an outcome |
| `JobViewsSafety` | 1 job, a channel of 2 events, all three views, 2 loads, symmetry; 1.4 M states | the detail page agrees with the row, a bar that shows work ends with its job |
| `JobsPage` | 2 jobs, one of them completed before, 1 row asked for, a channel of 1 event, filters all, running and completed, deletes, 1 load; 136 k states | the jobs page catches up with the rows that began last, whatever was lost |
| `LogWindow` | 1 job of 3 lines, a ring of 2, a channel of 1 event, 2 loads; 153 k states | the log window catches up with the ring |
| `Protection` | 2 assets, handlers of several steps on the first, a seeded and a created policy, 2 jobs, 2 handlers, symmetry; 1.3 M states | foreign keys, protection and policy, what overlapping handlers may undo |
| `SlaPolicies` | a seeded and a created policy, 2 names, 2 kinds and 1 the schema refuses, 2 dialogs or requests, symmetry; 1.2 M states | unique names, and what an update that writes every column may change |
| `AssetPages` | 2 assets, 1 policy, 1 copy, 2 requests, policies or assets, symmetry; 1.9 M states | a page with no request in flight shows what the agent has; one batch of a visit at a time |
| `Session` | 2 agents (one on this machine), 2 profile names, 2 commands, 2 edits, symmetry; 2.6 M states | what a restart brings back; which agent commands go to and events come from |
| `Dialogs` | 3 directories, 2 paths, a share path of up to 3 segments, 2 loads; 2 notifications kept of 4, 2 toasts, 3 queries; 737 k states | forms keep what they edit, the picker hands over what it lists, the palette highlights an entry |
| `JobsApiCancel`, `AssetPagesEdit` | 1 job; 1 asset | each finds one documented statement violated (section 5) |

Why the bounds are enough.

* Queue: a permit can be contended for only by more jobs than permits, and two holders at
  once need two permits: 3 and 2 are the least that have both.
* API and failing writes: a request races the task of its job; a second job takes part
  through the semaphore and as a restore beside the queue, and shows that it takes no harm
  from the first one's loss. Two requests at once are left to the theorems. One restart shows every place
  a kill can hit; a second one starts from rows of the same kinds. Job identifiers are
  fresh uuids, so a job is submitted once.
* Policies: two policies and two names are the least that can clash; two requests can
  overtake each other between a look and a write. The theorems of section 4 hold for all
  numbers.
* Views: the detail page and the log window are about one job. A channel of 2
  (256 in the code) keeps an event and the one that pushed it out; two loads can overtake
  each other. On the jobs page, one row more than it asks for makes the limit bite. Liveness of
  the jobs page needs one load: that answers are late is already part of it. Log lines are
  events of their own, and are left to `LogWindow` (`MaxLines` is 0 in the other two).
* Protection: handlers of two requests race on one asset; foreign keys tie it to a policy, to
  a job and to the job of a restore that reads the first one's copy; a second asset is what a
  restore of a foreign copy needs (`Targets`: no handler of several steps is about it). The theorems of section
  4 hold for all numbers.
* Pages: two assets are the least that make leaving a page for another of its kind
  different from staying; two requests can overtake each other. No page shows both assets and
  policies, so `MCAssetPages` lets the agent have policies of its own only while it has no assets; the
  theorems of section 4 are about all pairs.
* Session: two overlapping commands, two agents and two names tell a switch from a stay; two
  edits fill the list and empty it, or switch and remove.
* Dialogs: two paths and two loads are the least that can be mixed up. `Forms` and `Shell`
  share no state, so `MCDialogs` lets one move only while the other is in its initial
  state: all states of each, not all pairs.

Bounds that are not in the code: `Old`, `Views`, `Commands`, `Targets`, `MaxRestarts`, `Requests`, `MaxLines`, `Calls`, `MaxEdits`,
`MaxPaths`, `MaxDepth`, `Loads`, `MaxNotes`, `MaxToasts`, and the finite sets of identifiers. `Capacity`,
`LogLimit`, `PageSize` and `Cap` stand for 256, 500, 50 and 50. Deadlock is not checked in the runs of the
queue, the API with its failing writes, and the job views: when all jobs are done the system rightly stops.

Each property that passes has a mutant (`ReleaseForgets`, `DropPolicyUnchecked`, ...): a
definition next to the one it alters, with the change a plausible bug would make; TLC
finds the property violated when it stands in for the original.

### Properties worth a word

* `TasksFixRows` ties place, row, event and copy of a job together. It is the
  inductive invariant behind the proofs.
* `CopyMatchesOutcome`: before anyone hears that a backup completed its copy is on
  record, and a job that failed or was cancelled leaves none.
* `ActiveMapExact`: the map's entry is removed by `cancel`, the dropped task or the
  finished one; whoever comes first, the map never keeps a finished job nor forgets a
  live one.
* `UnfinishedHasTask` (proved for `ApiSpec`): although a cancel or a delete may write the row at any moment,
  as long as the process lives an unfinished row always has a task that will write
  its outcome.
* `DisagreeOnlyByCancel` (proved for `ApiSpec`): the only way for a client's last event and the row to stay
  different is a cancel that raced the task.
* `StrandedByOwnWrite`, `DisagreeOnlyByLoss`: nothing repairs a status that could not be
  written, so a row may say running for good; what can be said is that only the job whose
  write failed pays, in a queue that all jobs share.
* `UpdateChangesOnlyWanted`: an update writes every column from what it read in an earlier
  call, and a dialog asks for every column from what it showed when it opened. Unless another
  request wrote the policy in between, the columns that change are the ones the user changed.
* `FailsOnlyIfRaced`: the handlers' look-ups are meant to answer 409 where the schema would
  answer with an error; this says when they do.
* `DetailAgrees`: the detail page loads once and after a final event, and the agent
  announces before it writes. What it shows of a job that is over is the row all the
  same, unless an event was lost, or the last load failed or was read before the row was
  written: the two ways the code really has of staying wrong.
* `BarEndsWithJob`: of a job that is over the bar of work under way is gone unless an event was
  lost, although cancels and outcomes cross. The bar that says done stays: the agent reports it after
  the outcome that cleared the bar (section 5).
* `JobsPageCatchesUp`, `LogCatchesUp`: polls repair everything the stream loses and every
  late answer, but only if the interval asks with the filter that is set now.
* `RefusedDeleteHasReason`: `delete_asset` throws the errors of its first deletes away; that
  its last one fails only because something was added meanwhile, or because another asset's
  restore reads one of its copies, says that they had removed enough.
* `UpdateKeepsProtection`, `JobsStartProtected`: what a handler decides on a read of an
  earlier call is wrong only if the protection was switched in between. The code has no
  transaction around the two, so this is the most it can promise.
* `PageAgrees`: after every command comes a load or a change of page. `behind` names the
  exceptions: the load shown last was read before the agent's last change, was of another
  asset (section 5) or lost a part, a load failed, or a change was another client's, or one
  whose answer came to another page. It is set from where a load came from (`fresh`, its asset,
  what it lost), never from what it carries: a load that carries the wrong thing is a violation.
* `EditKeepsConfig`: opening the edit form and saving changes nothing, the login of an smb
  share with a path excepted (section 5).
* `RestartKeepsProfiles`: once no command runs, what a restart makes of the file is what memory
  has, although `connect_agent` never stores what it saved. Every way the code has of losing something
  is an exception by name: commands that overlapped, a file that was cut short (all is lost),
  an empty list (a profile is made up), and, for the agent, a profile command saved after the connect,
  which puts the older one back.
* `AgentShownIsUsed`: commands go to the agent the window shows, its stream is open, and no other
  is. The exceptions: the agent was switched or left since it was connected (`moved`), a stream ended
  (`ended`), and, for the streams of former agents, which nothing ever stops, that an agent was left or
  switched at any time in this run of the program (`again`).

### Fairness

`TasksScheduled` is weak fairness of every job's task: the tokio runtime polls each
ready task. `FairSpec` adds that each blocking engine call returns; the code has no
timeout, so liveness rests on it. Nothing is assumed of clients: `Submit`, `Cancel`, new
requests, restarts and dropped submissions may never happen. `JobLifecycle` needs strong
fairness of `Start`, since a full queue disables it again and again; the queue achieves it
with weak fairness only, because its semaphore serves waiters in order.
`FaultFairSpec` assumes the same of the tasks of the API, and nothing of writes: each may fail.

`ViewFairSpec` assumes of the desktop that the browser delivers events and fires intervals
(`WF` of `Deliver` and `Poll`) and applies answers that are there (`WF` of `Apply`), and of the
agent that, of requests sent again and again, some are answered and do not fail (`SF` of
`ReadRows` and `ReadLog`; a single load may always fail). Nothing is assumed of
the stream, which may end at any time, nor of the user: the properties speak of a view
that is, from some moment on, left open.

## 4. Proofs

`JobQueueProofs` proves, for every set of jobs, every mix of operations and
configurations, and every `MaxConcurrent` in Nat (`QueueAssumption`):

| theorem | statement |
|---|---|
| `TypeCorrect` | `Spec => []TypeOK` |
| `TasksFixRowsAlways` | `Spec => []TasksFixRows` |
| `OutcomeAgreesAlways`, `CopyMatchesOutcomeAlways` | consequences of it |
| `PermitsConservedAlways` | `permits + Cardinality(Holders) = MaxConcurrent` |
| `RunningWithinLimitAlways` | at most `MaxConcurrent` rows say running |
| `ActiveMapExactAlways` | `Spec => []ActiveMapExact` |
| `ImplementsLifecycle` | `Spec => RowsFollowLifecycle`, the refinement |
| `FinalStaysAlways` | a final status never changes, from the refinement |
| `CancelledNotRunAlways` | the action property `CancelledNotRun`: no step runs a job cancelled before its start |

The argument: neither `RunningWithinLimit` nor the refinement is inductive, since a row
says nothing about the task behind it. `TasksFixRows` gives the place of the task for
each row; `PermitsConserved` counts the tasks that hold a permit, and is kept because
`Acquire` and `Release` alone move a permit (`HoldersKept`); a running row's task holds
one (`RunningHoldsPermit`), so the permits bound the running rows, strictly when a
task about to start holds one as well (`StartHasRoom`). `ActiveMapExact` needs that no
token is cancelled before its job is in the map (`ActiveInv`).

`JobsApiProofs` proves, in addition for every set of requests and every `MaxRestarts`
in Nat (`ApiAssumption`):

| theorem | statement |
|---|---|
| `ApiTypeOKAlways`, `ApiPermitsConserved` | types; the permits add up across restarts too |
| `UnfinishedHasTaskAlways` | `ApiSpec => []UnfinishedHasTask` |
| `CompletedHasCopyAlways` | `ApiSpec => []CompletedHasCopy` |
| `DisagreeOnlyByCancelAlways` | `ApiSpec => []DisagreeOnlyByCancel` |
| `DeletedStaysDeletedAlways` | the action property `DeletedStaysDeleted` |

`TasksFixRows` does not survive the handlers: they write rows behind the tasks' backs.
What survives is `ApiInv`, stated job by job: a job has a task of the queue or of a
restore, never both (`OneTask`); a task writes its outcome before it ends
(`EndWritten`); what was announced last, a cancel aside, is what is about to be written
(`EventFits`); and the copy is recorded first (`CopyFirst`). A step for one job keeps
its own part (`OwnStep`) and leaves what every other job's part reads alone
(`OthersSame`, `SameKeeps`); handlers and restarts are `HandlerKeeps` and `RestartKeeps`.

Of `WriteFaults` it proves, for the same parameters (the run checks these with `FaultSpec`'s
fairness, and the theorems above are the case in which nothing is lost):

| theorem | statement |
|---|---|
| `FaultInvariant` | `FaultSpec => []FaultInv`, the inductive invariant |
| `FaultTypeOKAlways`, `StrandedByOwnWriteAlways`, `DisagreeOnlyByLossAlways`, `SuccessHasCopyAlways` | the four invariants of the run |
| `FaultPermitsConserved` | the permits add up, however many writes fail |
| `FaultDeletedStaysDeleted` | the action property `DeletedStaysDeleted`: a deleted row is never written again |
| `OutcomeToldAlways` | the action property `OutcomeTold`: no task ends without having told an outcome |

`FaultInv` asks the whole of `ApiInv` only of jobs that lost no write, and of all jobs what no
write can spoil (`Sure`: at most one task, the copy before the success, a completed event only
with its copy, and an outcome announced by every task that has only to write it, `Told`). Its proof reuses the lemmas about `ApiSpec`, which are about one job each:
a step of a job that lost a write keeps every other job's part.

`ProtectionProofs` proves, for every set of assets, policies, jobs and handlers
(`ProtectionAssumption`: the seeded policies are policies, and `None` is no identifier):

| theorem | statement |
|---|---|
| `ProtectionInvariant` | `ProtectionSpec => []ProtectionInv`, the inductive invariant |
| `ProtectionTypeOKAlways`, `NothingDanglesAlways`, `ProtectedHasPolicyAlways`, `RefusedDeleteHasReasonAlways` | the four invariants of the run |
| `UpdateKeepsProtectionAlways`, `JobsStartProtectedAlways` | its two action properties |

None of these is inductive, since each depends on what handlers know. `ProtectionTypeOK`
says that the seeded policies stay, which rests on a removal past its first look naming
none of them. `ProtectionInv` adds to the records' own invariants (`RecordsInv`: also that a job that reads a copy was started, for whatever
asset, and that an asset that is gone is bound to nothing) that every handler in flight is `Sound`: it names what its operation needs
(`Named`), a policy is bound to the asset it is about to switch on (`WillProtect`), it knows
whether its asset is enabled unless overtaken (`KnowsSwitch`), and a delete that was not
overtaken, nor held by another asset's restore, has no job left and no copy but those listed
(`HasCleared`). A step of one
handler keeps its own soundness; what it changes in the records either leaves what the
others know alone or marks them as raced.

`SlaPoliciesProofs` proves, for every set of policies, names, kinds, dialogs and requests
(`PoliciesAssumption`: the seeded policies are policies, and `None` is no name and no kind):

| theorem | statement |
|---|---|
| `SlaInvariant` | `SlaSpec => []SlaInv`, the inductive invariant |
| `SlaTypeOKAlways`, `FailsOnlyIfRacedAlways`, `AnsweredIsStoredAlways` | the three invariants of the run |
| `UpdateChangesOnlyWantedAlways` | its action property |

`SlaInv` says of every request in flight that it is `Sound`: what it has read is the row of its
policy unless the policy was written since (`UpToDate`), and the name it is about to store is
free unless anything was written since (`NameFree`). A write leaves the rows that others have
read alone or marks them in `since` (`Overtaken`); a write that nothing overtook stores
`Merge` of the row that is there, which differs from it only where the request asked
(`MergeRow`).

`SessionProofs` proves, for every set of agents, profile names and commands and any number of
edits (`SessionAssumption` only):

| theorem | statement |
|---|---|
| `SessionInvariant` | `SessionSpec => []SessionInv`, the inductive invariant |
| `SessionTypeOKAlways`, `AgentShownIsUsedAlways`, `RestartKeepsProfilesAlways` | the three invariants of the run |

`SessionInv` follows the commands through their phases. `SessionTypeOK` is about an open tab,
and rests on a load being in flight only while the tab is open (`Fits`). The agent shown is the
agent used only because the connect screen never has two commands under way (`OneConnect`) and
a connect that has taken the state has set its agent (`Used`); that its stream is the only one
holds because none is there before the first connect, and none for another agent before one is
left or switched (`Alone`). What the file says of the agent is `Recorded`. `RestartKeepsProfiles` speaks of
a quiet session; while a command is at work the file is either what memory would be restored
from or the copy of the one command that has written it and not stored it yet (`FileFits`),
which holds until two commands overlap or a write is cut short.

`JobViewsProofs` proves, for every set of jobs, lines, requests and filters and every size of
the channel and of the log ring (`ViewAssumption`: `None` is no job):

| theorem | statement |
|---|---|
| `ViewInvariant` | `ViewSpec => []ViewInv`, the inductive invariant |
| `ViewTypeOKAlways`, `BarEndsWithJobAlways`, `DetailAgreesAlways` | the three invariants of `JobViewsSafety` |

Both of the last two come down to the order of events: whatever shows work of a job that is over
is followed on the wire by its outcome (`OutcomeIsLast`), which dropping the oldest events of a
full channel does not change; only the last report may come after it, and that comes from a job that
completed (`WireInv`). A bar belongs to a view that listens, and while its job is over and
no event was missed, that view has the outcome still to hear (`BarInv`). A detail page that shows
something else than the row has something to come, a timer, a load or the event of the outcome,
unless it missed one or is `behind` (`DetailInv`, `ToCome`): handling the outcome sets the timer that
loads the page again.

`AssetPagesProofs` proves, for every set of assets, policies, copies and requests
(`PagesAssumption`):

| theorem | statement |
|---|---|
| `PagesInvariant` | `PagesSpec => []PagesInv`, the inductive invariant |
| `PagesTypeOKAlways`, `PageAgreesAlways`, `OneBatchAlways` | the three invariants of the run |

`PageAgrees` speaks of a page at rest. `SeenInv` says what holds in between: a page that is neither
broken nor behind shows the agent's records, but for copies whose deletion is confirmed and not
shown yet (`Dropped`), or a request of its own is under way that will load it again or leave it
(`Renews`). A complete load that was read since the agent's last change has what the agent has (`FreshInv`).
That a request in flight belongs to the page it will come back to is `CallsInv`
(`Fits`), and that a batch keeps the page busy until its last answer is `BatchInv`. Navigation
needed care: an answer to a page that was left navigates, too, and
to the route that is open already it does nothing; the first version of the model loaded again
there, which React Router does not.

`DialogsProofs` proves, for every tree of directories that has the parents of its members, every
number of paths and loads, and for every cap, message, entry and query of the palette
(`FormsAssumption`, `ShellAssumption`: the palette has finitely many entries):

| theorem | statement |
|---|---|
| `FormsInvariant`, `ShellInvariant` | `FormsSpec => []FormsInv`, `ShellSpec => []ShellInv`, the inductive invariants |
| `FormsTypeOKAlways`, `EditKeepsConfigAlways`, `PickedIsListedAlways` | the three invariants of the run about forms |
| `ShellTypeOKAlways`, `PaletteHighlightsAlways` | the two about the shell |

(`DialogsSpec` interleaves the two components, which share no variable.)

`EditKeepsConfig` comes down to a fact about data: `ReadsWhatIsWritten`, of each configuration a
form can have written (`Configs`, closed under `BuildsConfig` and `PopulatesForm`). The paths of a
fileset go through a filter on the way, whose result a recursion computes. The library's induction
theorems take an operator as a parameter, which no installed prover can instantiate; so `SetInduction`
states induction for a set of naturals, derived from the well-foundedness of strict inclusion
of finite sets (`LeastNumber`). With it, `KeptDef` gives the recursion its
value, `KeepSelects` says that a filter leaves the elements of a set, each once and in their
order, and `KeepAll` that it leaves a sequence over the set as it is. `PickedIsListed` needs what
loads may overlap: until two of them have crossed, the picker loads at most one directory, shows
that it does, and no file is chosen meanwhile (`LoadsInv`); every prefix of a directory of the tree
is a directory of the tree (`TreePrefix`). For the toasts, ids that rise make the toast a
timeout removes the only one of its id, so that the timeouts left are those of the toasts
left (`ToastGoes`, from `KeepSelects`).

Every safety property of the runs is so proved for all values of the constants. Only
model-checked is liveness under fairness (`CancelledWhileWaiting` and `RowsFollowFairLifecycle` of
`JobQueue`, `OutcomeAlwaysTold` of `WriteFaults`, `JobsPageCatchesUp` and `LogCatchesUp` of the runs
`JobsPage` and `LogWindow`), which the prover does not reach, as it does not reach ENABLED. The safety
halves of the first and the third are theorems: a cancelled job that waits is never run
(`CancelledNotRunAlways`), and no task ends without having told its outcome
(`OutcomeToldAlways`).

## 5. Findings

Shown by a run:

* `JobsApiCancel`: cancelling over HTTP only writes the row; the job runs anyway.
* `AssetPagesEdit`: a policy's edit dialog, opened after the policy was deleted and before
  the list is loaded again, makes the page throw.

Met while modelling, each quoted in `PROJECT.json` with the line it contradicts:

* a delete can remove the row of a running job; restores over HTTP are not bounded by the
  semaphore; a completed volume backup has no copy on record; a running job never looks at
  its token again; `keep_copies=true` makes a delete of an asset with copies fail;
* the retention kinds of the form, the schema and the engine differ; the schedule preview is
  a stub; log lines are not persisted;
* the restore dialog's start button is always disabled; "Disable Selected" disables nothing and
  reports success; the edit form's check box is not sent, and an asset without a policy cannot
  be saved; an smb login is lost when its URL has a path;
* `main.rs` starts neither the scheduler nor the retention: no asset is backed up by its
  schedule, and no copy expires;
* `connect_agent` does not store the settings it saves; switching a profile leaves the window
  and the events with the former agent; the event stream is never opened again; a repeated
  toast does not extend the first one;
* the last report of a job follows the event of its outcome and puts its progress bar back;
* an asset's page that has gone on to another asset shows the first one's data when an activation
  or deactivation sent before is answered;
* a restore may name another asset's copy, and then makes the delete of that asset fail half-way;
* the settings file is written in place: cut short, it is replaced by the defaults.

## 6. Plan

Built, in the order of the plan: the queue with its life cycle, the API over it, failing
writes, protection of assets, policies, events and job views, asset pages, session, forms and
shell. What a next step would add, in order of importance:

1. The browse and restore dialogs of `AssetDetail.tsx`, in `AssetPages`.
2. The safety halves of `JobsPageCatchesUp` and `LogCatchesUp`, as theorems.
3. `Retention` and `Scheduler`, once `main.rs` constructs them.
4. A refinement of `AssetPages`' one-step handlers by `Protection`.
5. A crash within a migration, once there is a second migration to start from.

## 7. Not modelled, and why

* The engines `bifrost` and `vpt-rs` are other repositories; the snapshot sessions of a
  consistency backup live in them within one blocking call.
* `scheduler/cron.rs` and `retention.rs` are compiled, but `main.rs` constructs
  neither, and no policy the schema admits has a kind that retention matches: no behaviour
  of the agent reaches them.
* Authentication is one comparison per request and has no state; the router and wire types
  are wiring; agent configuration is single reads and writes; the browse API reads one
  row and a directory.
* Dashboard, report, translations and theme load and show. `pages/Connect.tsx`, `useAgent.ts`
  and the component of `NotificationCenter.tsx` are imported by nothing.
* A listener whose `listen()` resolves after its page is gone stays registered; it only calls
  setters of a page that is gone, so it is left out.

`PROJECT.json` gives the status of each part.
