------------------------------ MODULE AssetPages ------------------------------
(***************************************************************************)
(* The desktop's pages about assets and SLA policies: pages/Assets.tsx,    *)
(* AssetDetail.tsx, EditAsset.tsx, NewAsset.tsx and SLAPolicies.tsx.  A    *)
(* page shows what its last load fetched; a button sends a request and     *)
(* goes on when the answer is there: it loads again, or it navigates,      *)
(* whichever page is open by then.  Few buttons are disabled meanwhile.    *)
(* The agent's handlers, which Protection takes apart, answer in one step. *)
(***************************************************************************)
EXTENDS Naturals, FiniteSets

CONSTANTS
    Assets, Policies, Copies,
    Calls,      \* bound: requests at once
    None

ASSUME PagesAssumption == None \notin Assets \cup Policies \cup Copies

VARIABLES
    known,      \* the agent's assets,
    bound,      \* those that have a policy,
    on,         \* and those that are protected
    policies,   \* its policies that are not built in
    held,       \* the backup copies of each asset
    page, at,   \* the route: a page, and the asset it is about
    loading,    \* whether it shows nothing yet
    seen,       \* what the page shows
    dialogs,    \* the dialogs over it: kinds, with what they are about
    broken,     \* whether the ErrorBoundary shows instead of any page
    picking,    \* selectMode
    picked,     \* selected
    busy,       \* batchLoading
    call,       \* the requests
    behind,     \* history: the page is not told of the agent's last change
    fresh       \* history: the loads read since then

agentVars == <<known, bound, on, policies, held>>
pageVars  == <<page, at, broken, loading, seen, dialogs, picking, picked, busy>>

Blank == [asset |-> None, bound |-> FALSE, on |-> FALSE,
          copies |-> {}, list |-> {}, policies |-> {}]
\* A request; "here" while the page that sent it is open, "todo" and "good"
\* the assets a batch has yet to do and whether a backup was started, "lost"
\* the halves of a load that failed.
Sent(op, a, x) == [op |-> op, asset |-> a, about |-> x, phase |-> "sent", here |-> TRUE,
                   todo |-> {}, good |-> FALSE, data |-> Blank, lost |-> {}]
Idle == [Sent("none", None, None) EXCEPT !.phase = "none", !.here = FALSE]

PagesInit ==
    /\ known = {} /\ bound = {} /\ on = {} /\ policies = {}
    /\ held = [a \in Assets |-> {}]
    /\ page = "elsewhere" /\ at = None /\ loading = FALSE /\ seen = Blank
    /\ dialogs = {} /\ broken = FALSE /\ picking = FALSE /\ picked = {} /\ busy = FALSE
    /\ call = [c \in Calls |-> Idle]
    /\ behind = FALSE /\ fresh = {}

Send(c, r) == call[c] = Idle /\ call' = [call EXCEPT ![c] = r]
Here(ops)  == {c \in Calls : call[c].op \in ops /\ call[c].here}

-----------------------------------------------------------------------------
(* The agent                                                               *)

\* What the load of each page fetches; an asset and its copies at one moment.
Fetching == {"assets", "asset", "edit", "policies"}
Snapshot(p, a) ==
    CASE p = "assets"   -> [Blank EXCEPT !.list = known]
      [] p = "policies" -> [Blank EXCEPT !.policies = policies]
      [] p \in {"asset", "edit"} /\ a \in known
                        -> [Blank EXCEPT !.asset = a, !.bound = a \in bound, !.on = a \in on,
                                         !.copies = IF p = "asset" THEN held[a] ELSE {}]
      [] OTHER          -> Blank

\* New identifiers are fresh: neither the page nor a request knows them.
Fresh(x) ==
    /\ x \notin {at, seen.asset} \cup seen.copies \cup seen.list \cup seen.policies \cup picked
    /\ \A d \in dialogs : d.about # x
    /\ \A c \in Calls : x \notin {call[c].asset, call[c].about, call[c].data.asset}
            \cup call[c].todo \cup call[c].data.copies \cup call[c].data.list \cup call[c].data.policies

\* The effect of a request that is not refused.
Effect(op, a, x) ==
    CASE op = "activate" ->
            /\ a \in known /\ on' = on \cup {a} /\ bound' = bound \cup {a}
            /\ UNCHANGED <<known, policies, held>>
      [] op = "deactivate" -> a \in known /\ on' = on \ {a} /\ UNCHANGED <<known, bound, policies, held>>
      [] op = "delete" ->
            /\ known' = known \ {a} /\ bound' = bound \ {a} /\ on' = on \ {a}
            /\ held' = [held EXCEPT ![a] = {}] /\ UNCHANGED policies
      [] op = "dropCopy" -> /\ held' = [b \in Assets |-> held[b] \ {x}]
                            /\ UNCHANGED <<known, bound, on, policies>>
      [] op = "removePolicy" -> policies' = policies \ {x} /\ UNCHANGED <<known, bound, on, held>>
      [] op = "createPolicy" -> /\ \E p \in Policies \ policies : Fresh(p) /\ policies' = policies \cup {p}
                                /\ UNCHANGED <<known, bound, on, held>>
      [] op = "createAsset"  -> /\ \E b \in Assets \ known : Fresh(b) /\ known' = known \cup {b}
                                /\ UNCHANGED <<bound, on, policies, held>>
      [] op = "editPolicy"   -> x \in policies /\ UNCHANGED agentVars
      [] op = "update"       -> a \in known /\ UNCHANGED agentVars
      [] op = "backup"       -> a \in on /\ UNCHANGED agentVars

Queries == {"load", "offer"}
Batches == {"batchBackup", "batchDisable", "batchDelete"}
Reloading == {"activate", "deactivate", "removePolicy", "createPolicy", "editPolicy"}
Moving  == {"backup", "delete", "createAsset", "update"}
Commands == Reloading \cup Moving \cup {"dropCopy"}

Done(c)   == call' = [call EXCEPT ![c] = Idle]
Ages      == fresh' = IF UNCHANGED agentVars THEN fresh ELSE {}

\* AssetDetail.tsx asks for the asset and for its copies, and takes what it is
\* given of the two.
Lost(p, a) ==
    IF p # "asset" THEN {{}}
    ELSE IF a \in known THEN {{}, {"asset"}, {"copies"}} ELSE {{"asset"}}

Part(l, s) ==
    CASE "asset"  \in l -> [Blank EXCEPT !.copies = s.copies]
      [] "copies" \in l -> [s EXCEPT !.copies = {}]
      [] OTHER          -> s

Read(c) ==
    LET r == call[c]
    IN  /\ r.op \in Queries /\ r.phase = "sent"
        /\ \E l \in Lost(r.about, r.asset) :
              call' = [call EXCEPT
                  ![c].phase = "ok", ![c].lost = l,
                  ![c].data = IF r.op = "load" THEN Part(l, Snapshot(r.about, r.asset)) ELSE Blank]
        /\ fresh' = IF r.op = "load" THEN fresh \cup {c} ELSE fresh
        /\ UNCHANGED <<agentVars, pageVars, behind>>

Obey(c) ==
    LET r == call[c]
    IN  /\ r.op \in Commands /\ r.phase = "sent"
        /\ Effect(r.op, r.asset, r.about)
        /\ call' = [call EXCEPT ![c] = IF r.here \/ r.op \in Moving THEN [r EXCEPT !.phase = "ok"] ELSE Idle]
        /\ behind' = (behind \/ (~r.here /\ page \in Fetching))
        /\ Ages
        /\ UNCHANGED pageVars

\* The agent refuses or cannot be reached; a toast or the console says so.
Refuse(c) ==
    /\ call[c].op \in Queries \cup Commands /\ call[c].phase = "sent"
    /\ behind' = (behind \/ call[c].op = "load")
    /\ loading' = (loading /\ call[c].op # "load")
    /\ Done(c)
    /\ UNCHANGED <<agentVars, page, at, broken, seen, dialogs, picking, picked, busy, fresh>>

\* As much is said when an answer is lost, or when delete_asset fails after
\* its first deletes.
ObeyInVain(c) ==
    LET r == call[c]
    IN  /\ r.op \in Commands /\ r.phase = "sent"
        /\ \/ Effect(r.op, r.asset, r.about)
           \/ /\ r.op = "delete" /\ held' = [held EXCEPT ![r.asset] = {}]
              /\ UNCHANGED <<known, bound, on, policies>>
        /\ behind' = (page \in Fetching) /\ Ages
        /\ Done(c)
        /\ UNCHANGED pageVars

\* A backup that was started now or by the scheduler has ended.
BackupEnds(a, k) ==
    /\ a \in known /\ (\A b \in Assets : k \notin held[b]) /\ Fresh(k)
    /\ held' = [held EXCEPT ![a] = @ \cup {k}]
    /\ behind' = (page \in Fetching) /\ fresh' = {}
    /\ UNCHANGED <<known, bound, on, policies, pageVars, call>>

-----------------------------------------------------------------------------
(* Navigation                                                              *)

Fetch(p, a) == IF p \in Fetching THEN Sent("load", a, p) ELSE Idle

\* Mutant of Replace: the selection outlives its page.
ReplaceKeepsPicks(c, next) ==
    /\ seen' = Blank /\ dialogs' = {} /\ loading' = (next # Idle)
    /\ busy' = FALSE
    /\ UNCHANGED <<picking, picked>>
    /\ call' = [d \in Calls |->
          IF d = c THEN next
          ELSE IF call[d].op \in Queries \/ (call[d].phase = "ok" /\ call[d].op \notin Moving)
          THEN Idle ELSE [call[d] EXCEPT !.here = FALSE]]
    /\ behind' = FALSE /\ fresh' = {}

\* What was mounted goes, with its state; of its requests only the commands'
\* answers are still waited for.  In slot c the next page asks for its data.
Replace(c, next) ==
    /\ seen' = Blank /\ dialogs' = {} /\ loading' = (next # Idle)
    /\ picking' = FALSE /\ picked' = {} /\ busy' = FALSE
    /\ call' = [d \in Calls |->
          IF d = c THEN next
          ELSE IF call[d].op \in Queries \/ (call[d].phase = "ok" /\ call[d].op \notin Moving)
          THEN Idle ELSE [call[d] EXCEPT !.here = FALSE]]
    /\ behind' = FALSE /\ fresh' = {}

\* navigate(): a component whose route matches again goes on, from one asset to
\* another too, and loads if the asset is another.
Navigate(c, p, a) ==
    /\ page' = p /\ at' = a
    /\ IF broken \/ page = p
       THEN /\ call' = [call EXCEPT ![c] = IF broken \/ a = at THEN Idle ELSE Fetch(p, a)]
            /\ UNCHANGED <<loading, seen, dialogs, picking, picked, busy, behind, fresh>>
       ELSE Replace(c, Fetch(p, a))
    /\ UNCHANGED <<agentVars, broken>>

\* The sidebar, the command palette and the links between the pages.
Routes == ({"assets", "policies", "new", "elsewhere"} \X {None}) \cup ({"asset"} \X Assets)

GoTo(c, p, a) == call[c] = Idle /\ <<p, a>> # <<page, at>> /\ Navigate(c, p, a)

OpenEdit(c) == page = "asset" /\ seen.asset # None /\ dialogs = {} /\ GoTo(c, "edit", at)

\* The Retry button.
Retry(c) ==
    /\ broken /\ call[c] = Idle
    /\ broken' = FALSE
    /\ Replace(c, Fetch(page, at))
    /\ UNCHANGED <<agentVars, page, at>>

-----------------------------------------------------------------------------
(* Answers                                                                 *)

\* The dialog of a policy that is listed no more throws when it is rendered.
Throws(s) == \E d \in dialogs : d.kind = "editPolicy" /\ d.about \notin s.policies

\* Of what failed the page keeps what it has.
Shown(r) ==
    LET asset  == IF "asset" \in r.lost THEN seen ELSE r.data
        copies == IF "copies" \in r.lost THEN seen.copies ELSE r.data.copies
    IN  [asset EXCEPT !.copies = copies]

ShowLoad(c) ==
    LET r == call[c]
    IN  /\ r.op = "load" /\ r.phase = "ok" /\ ~Throws(r.data)
        /\ seen' = Shown(r) /\ loading' = FALSE
        /\ behind' = (c \notin fresh \/ r.asset # at \/ r.lost # {})
        /\ fresh' = fresh \ {c}
        /\ Done(c)
        /\ UNCHANGED <<agentVars, page, at, broken, dialogs, picking, picked, busy>>

LoadThrows(c) ==
    /\ call[c].op = "load" /\ call[c].phase = "ok" /\ Throws(call[c].data)
    /\ broken' = TRUE
    /\ Replace(c, Idle)
    /\ UNCHANGED <<agentVars, page, at>>

\* openActivateModal: the dialog appears when the policies are there, over
\* whatever is open by then.  Which of them is chosen is left out.
ShowOffer(c) ==
    /\ call[c].op = "offer" /\ call[c].phase = "ok"
    /\ dialogs' = dialogs \cup {[kind |-> "activate", about |-> None]}
    /\ Done(c)
    /\ UNCHANGED <<agentVars, page, at, broken, loading, seen, picking, picked, busy, behind, fresh>>

\* Mutant of LoadsAgain: the page is not loaded again after a deactivation.
LoadsNotAgain(c) ==
    LET r == call[c]
    IN  /\ r.op \in Reloading /\ r.phase = "ok" /\ r.here
        /\ dialogs' = {d \in dialogs : d.kind # r.op}
        /\ call' = [call EXCEPT ![c] = IF r.op = "deactivate" THEN Idle ELSE Fetch(page, r.asset)]
        /\ UNCHANGED <<agentVars, page, at, broken, loading, seen, picking, picked, busy, behind, fresh>>

\* The page closes the dialog the command came from, and loads again, the
\* asset the command was about.
LoadsAgain(c) ==
    LET r == call[c]
    IN  /\ r.op \in Reloading /\ r.phase = "ok" /\ r.here
        /\ dialogs' = {d \in dialogs : d.kind # r.op}
        /\ call' = [call EXCEPT ![c] = Fetch(page, r.asset)]
        /\ UNCHANGED <<agentVars, page, at, broken, loading, seen, picking, picked, busy, behind, fresh>>

DropsRow(c) ==
    LET r == call[c]
    IN  /\ r.op = "dropCopy" /\ r.phase = "ok"
        /\ seen' = [seen EXCEPT !.copies = @ \ {r.about}]
        /\ Done(c)
        /\ UNCHANGED <<agentVars, page, at, broken, loading, dialogs, picking, picked, busy, behind, fresh>>

\* These go to their page even if the user has left for another one.
MovesOn(c) ==
    LET r == call[c]
    IN  /\ r.phase = "ok"
        /\ \/ r.op = "backup" /\ Navigate(c, "elsewhere", None)
           \/ r.op \in {"delete", "createAsset"} /\ Navigate(c, "assets", None)
           \/ r.op = "update" /\ Navigate(c, "asset", r.asset)

-----------------------------------------------------------------------------
(* Batches: one request after the other for the assets selected; one that  *)
(* fails, in part too, is passed over.                                     *)

BatchStep(c, a) ==
    LET r == call[c]
    IN  /\ r.op \in Batches /\ a \in r.todo
        /\ \/ /\ r.op = "batchDelete"
              /\ \/ Effect("delete", a, None)
                 \/ held' = [held EXCEPT ![a] = {}] /\ UNCHANGED <<known, bound, on, policies>>
              /\ behind' = (behind \/ (~r.here /\ page \in Fetching)) /\ Ages
              /\ call' = [call EXCEPT ![c].todo = @ \ {a}]
           \/ /\ r.op = "batchBackup" /\ a \in on
              /\ call' = [call EXCEPT ![c].todo = @ \ {a}, ![c].good = TRUE]
              /\ UNCHANGED <<agentVars, behind, fresh>>
           \/ /\ call' = [call EXCEPT ![c].todo = @ \ {a}]
              /\ UNCHANGED <<agentVars, behind, fresh>>
        /\ UNCHANGED pageVars

BatchEnds(c) ==
    LET r == call[c]
    IN  /\ r.op \in Batches /\ r.todo = {}
        /\ IF r.op = "batchBackup" /\ r.good
           THEN Navigate(c, "elsewhere", None)
           ELSE /\ picking' = (picking /\ ~r.here) /\ busy' = (busy /\ ~r.here)
                /\ picked' = IF r.here THEN {} ELSE picked
                /\ call' = [call EXCEPT ![c] = IF r.here /\ r.op # "batchBackup"
                                               THEN Fetch(page, None) ELSE Idle]
                /\ UNCHANGED <<agentVars, page, at, broken, loading, seen, dialogs, behind, fresh>>

-----------------------------------------------------------------------------
(* Buttons.  A dialog covers the page's own.                               *)

On(p)  == page = p /\ ~broken /\ ~loading /\ dialogs = {}
Opens(k, x) ==
    /\ dialogs' = dialogs \cup {[kind |-> k, about |-> x]}
    /\ UNCHANGED <<agentVars, page, at, broken, loading, seen, picking, picked, busy, call, behind, fresh>>
Shuts(k) ==
    /\ dialogs' = {d \in dialogs : d.kind # k}
    /\ UNCHANGED <<agentVars, page, at, broken, loading, seen, picking, picked, busy, behind, fresh>>
Only(c, op, a, x) == Send(c, Sent(op, a, x)) /\ UNCHANGED <<agentVars, pageVars, behind, fresh>>

\* pages/Assets.tsx
BackupFromCard(c, a) == On("assets") /\ a \in seen.list /\ Only(c, "backup", a, None)

Pick ==
    /\ On("assets")
    /\ \/ ~picking /\ seen.list # {} /\ picking' = TRUE /\ picked' = {}
       \/ picking /\ picking' = TRUE /\ \E a \in seen.list :
              picked' \in {picked \ {a}, picked \cup {a}, {}, seen.list}
       \/ picking /\ picking' = FALSE /\ picked' = {}
    /\ UNCHANGED <<agentVars, page, at, broken, loading, seen, dialogs, busy, call, behind, fresh>>

\* Mutant of StartBatch: the buttons are not disabled while a batch runs.
StartBatchAgain(c, op) ==
    /\ On("assets") /\ picking /\ picked # {}
    /\ busy' = TRUE
    /\ Send(c, [Sent(op, None, None) EXCEPT !.todo = picked])
    /\ UNCHANGED <<agentVars, page, at, broken, loading, seen, dialogs, picking, picked, behind, fresh>>

StartBatch(c, op) ==
    /\ On("assets") /\ picking /\ picked # {} /\ ~busy
    /\ busy' = TRUE
    /\ Send(c, [Sent(op, None, None) EXCEPT !.todo = picked])
    /\ UNCHANGED <<agentVars, page, at, broken, loading, seen, dialogs, picking, picked, behind, fresh>>

\* pages/AssetDetail.tsx: the buttons go by what is shown, the requests are
\* about the route's asset.
Detail(c) ==
    /\ On("asset") /\ seen.asset # None
    /\ \/ seen.on /\ Only(c, "backup", at, None)
       \/ seen.on /\ Only(c, "deactivate", at, None)
       \/ ~seen.on /\ Only(c, "offer", None, None)

DetailDialog ==
    /\ On("asset") /\ seen.asset # None
    /\ Opens("delete", None) \/ \E k \in seen.copies : Opens("dropCopy", k)

Confirm(c) ==
    /\ page = "asset"
    /\ \E d \in dialogs :
          \/ d.kind \in {"delete", "dropCopy"} /\ Send(c, Sent(d.kind, at, d.about)) /\ Shuts(d.kind)
          \/ d.kind = "activate" /\ Only(c, "activate", at, None)

\* pages/EditAsset.tsx and NewAsset.tsx: the button is disabled meanwhile.
SaveAsset(c) ==
    /\ On("edit") /\ seen.asset # None /\ seen.bound /\ Here({"update"}) = {}
    /\ Only(c, "update", at, None)

CreateAsset(c) == On("new") /\ Here({"createAsset"}) = {} /\ Only(c, "createAsset", None, None)

\* pages/SLAPolicies.tsx; built-in policies have no buttons.
DeletePolicy(c) == On("policies") /\ \E p \in seen.policies : Only(c, "removePolicy", None, p)

PolicyDialog ==
    /\ On("policies")
    /\ Opens("createPolicy", None) \/ \E p \in seen.policies : Opens("editPolicy", p)

\* The button is disabled meanwhile.  A dialog cancelled and opened again has a
\* fresh "submitting": that a second save then waits for the first is a bound.
SavePolicy(c) ==
    /\ page = "policies"
    /\ \E d \in dialogs : Here({d.kind}) = {} /\ Only(c, d.kind, None, d.about)

Cancel == dialogs # {} /\ (\E d \in dialogs : Shuts(d.kind)) /\ UNCHANGED call

-----------------------------------------------------------------------------
PagesNext ==
    \/ \E c \in Calls :
          \/ Read(c) \/ Obey(c) \/ ObeyInVain(c) \/ Refuse(c)
          \/ ShowLoad(c) \/ LoadThrows(c) \/ ShowOffer(c)
          \/ LoadsAgain(c) \/ DropsRow(c) \/ MovesOn(c)
          \/ (\E a \in Assets : BatchStep(c, a) \/ BackupFromCard(c, a)) \/ BatchEnds(c)
          \/ (\E op \in Batches : StartBatch(c, op))
          \/ Detail(c) \/ Confirm(c) \/ SaveAsset(c) \/ CreateAsset(c)
          \/ DeletePolicy(c) \/ SavePolicy(c)
          \/ (\E r \in Routes : GoTo(c, r[1], r[2])) \/ OpenEdit(c) \/ Retry(c)
    \/ Pick \/ DetailDialog \/ PolicyDialog \/ Cancel
    \/ \E a \in Assets, k \in Copies : BackupEnds(a, k)

PagesSpec == PagesInit /\ [][PagesNext]_<<agentVars, pageVars, call, behind, fresh>>

-----------------------------------------------------------------------------
(* Properties                                                              *)

\* Every variable keeps its type.
PagesTypeOK ==
    /\ on \subseteq bound /\ bound \subseteq known /\ known \subseteq Assets
    /\ policies \subseteq Policies /\ held \in [Assets -> SUBSET Copies]
    /\ <<page, at>> \in Routes \cup ({"edit"} \X Assets)
    /\ seen.list \subseteq Assets /\ seen.copies \subseteq Copies /\ seen.policies \subseteq Policies
    /\ picked \subseteq Assets /\ (picked # {} => picking) /\ (picking \/ busy => page = "assets")
    /\ \A d \in dialogs : d.about \in Copies \cup Policies \cup {None}
    /\ \A c \in Calls : call[c] = Idle \/ call[c].op \in Queries \cup Commands \cup Batches

\* Once all its requests are answered a page shows what the agent has: every
\* command that succeeds is followed by a load or a change of the page.  Not
\* so when the last load it showed was read before the agent's last change,
\* failed in part or was about another asset; when that load failed; or when
\* the change was not this page's.
PageAgrees ==
    /\ page \in Fetching /\ ~broken /\ ~behind
    /\ \A c \in Calls : ~call[c].here
    => seen = Snapshot(page, at)

\* Of the batches started on one visit of the assets page one runs at a
\* time, although the selection may be dropped and made again meanwhile.
OneBatch == Cardinality(Here(Batches)) <= 1

\* pages/SLAPolicies.tsx: "policies.find((p) => p.id === editPolicyId)!", the
\* policy whose dialog is open is in the list.
EditedPolicyIsFound == ~broken
=============================================================================
