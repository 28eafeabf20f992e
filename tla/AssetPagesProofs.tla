--------------------------- MODULE AssetPagesProofs ---------------------------
(***************************************************************************)
(* Theorems about AssetPages for every set of assets, policies and copies  *)
(* and any number of requests at once.                                     *)
(***************************************************************************)
EXTENDS AssetPages, FiniteSetTheorems, TLAPS

-----------------------------------------------------------------------------
(* The inductive invariant                                                 *)

Shots == [asset : Assets \cup {None}, bound : BOOLEAN, on : BOOLEAN,
          copies : SUBSET Copies, list : SUBSET Assets, policies : SUBSET Policies]
Abouts   == Copies \cup Policies \cup {None}
Requests == [op : Queries \cup Commands \cup Batches, asset : Assets \cup {None},
             about : Abouts \cup Fetching, phase : {"sent", "ok"}, here : BOOLEAN,
             todo : SUBSET Assets, good : BOOLEAN, data : Shots,
             lost : SUBSET {"asset", "copies"}]

AgentTypes ==
    /\ on \subseteq bound /\ bound \subseteq known /\ known \subseteq Assets
    /\ policies \subseteq Policies /\ held \in [Assets -> SUBSET Copies]

\* Only the pages about an asset have one.
OnRoute(p, a) ==
    \/ p \in {"assets", "policies", "new", "elsewhere"} /\ a = None
    \/ p \in {"asset", "edit"} /\ a \in Assets

PageTypes ==
    /\ OnRoute(page, at)
    /\ seen \in Shots
    /\ picked \subseteq Assets /\ (picked # {} => picking) /\ (picking \/ busy => page = "assets")
    /\ \A d \in dialogs : d.about \in Abouts

TypesInv == AgentTypes /\ PageTypes /\ call \in [Calls -> Requests \cup {Idle}]

\* The dialogs each page opens.
Opened(p) == CASE p = "asset"    -> {"delete", "dropCopy", "activate"}
               [] p = "policies" -> {"createPolicy", "editPolicy"}
               [] OTHER          -> {}

\* Behind the ErrorBoundary nothing is mounted.
PageInv ==
    /\ \A d \in dialogs : d.kind \in Opened(page)
    /\ broken => /\ dialogs = {} /\ ~picking /\ picked = {} /\ ~busy
                 /\ \A c \in Calls : ~call[c].here

\* Where a request comes from, and what is known of the answer, on page p whose
\* batch is under way if b, with the copies h.
Fits(r, p, b, h) ==
    /\ r.op = "update" => r.asset \in Assets
    /\ r.op \in Queries => r.here
    /\ r.op = "load" => r.about = p
    /\ r.phase = "ok" /\ r.op \notin Moving => r.here
    /\ r.here /\ r.op \in {"offer", "delete"} => p = "asset"
    /\ r.here /\ r.op = "createAsset" => p = "new"
    /\ r.here /\ r.op \in Batches => p = "assets" /\ b
    /\ r.op = "dropCopy" /\ r.phase = "ok" => \A a \in Assets : r.about \notin h[a]

CallsInv == \A c \in Calls : call[c] # Idle => Fits(call[c], page, busy, held)

BatchInv == \A c, d \in Here(Batches) : c = d

\* A request that is followed by a load of the page, or by another page.
Renews(r) == r.here /\ \/ r.op = "load" \/ r.op \in {"batchDisable", "batchDelete"}
                       \/ r.phase = "ok" /\ r.op \in Reloading \cup {"delete", "createAsset"}

\* The copies that are deleted and whose rows are about to go.
Cut(s, ks) == [s EXCEPT !.copies = @ \ ks]
Drops(r)   == r.op = "dropCopy" /\ r.phase = "ok"
Dropped    == {call[c].about : c \in {d \in Calls : Drops(call[d])}}

SeenInv ==
    page \in Fetching /\ ~broken /\ ~behind =>
        \/ \E c \in Calls : Renews(call[c])
        \/ Cut(seen, Dropped) = Snapshot(page, at)

\* A load that was read since the agent's last change has what the agent has.
Got(r) == r.op = "load" /\ r.phase = "ok"

FreshInv ==
    /\ fresh \subseteq Calls
    /\ \A c \in fresh :
          /\ Got(call[c])
          /\ call[c].lost = {} => call[c].data = Snapshot(call[c].about, call[c].asset)

PagesInv == TypesInv /\ PageInv /\ CallsInv /\ BatchInv /\ FreshInv /\ SeenInv

-----------------------------------------------------------------------------
(* Lemmas about the operators                                              *)

LEMMA IdleFields ==
    /\ Idle.op = "none" /\ Idle.phase = "none" /\ ~Idle.here /\ Idle.asset = None
    /\ Idle \notin Requests /\ [Idle EXCEPT !.here = FALSE] = Idle
    /\ Idle.op \notin Queries \cup Commands \cup Batches
BY DEF Idle, Sent, Requests, Queries, Commands, Reloading, Moving, Batches

LEMMA SentFields ==
    ASSUME NEW op \in Queries \cup Commands \cup Batches, NEW a \in Assets \cup {None}, NEW x \in Abouts \cup Fetching
    PROVE  /\ Sent(op, a, x) \in Requests /\ Sent(op, a, x) # Idle
           /\ Sent(op, a, x).op = op /\ Sent(op, a, x).phase = "sent" /\ Sent(op, a, x).here
           /\ Sent(op, a, x).asset = a /\ Sent(op, a, x).about = x
<1>1. Blank \in Shots
  BY DEF Blank, Shots
<1> DEFINE s == Sent(op, a, x)
<1>2. s \in Requests
  BY <1>1 DEF Sent, Requests
<1>3. s.op = op /\ s.phase = "sent" /\ s.here /\ s.asset = a /\ s.about = x
  BY DEF Sent
<1> QED
  BY <1>2, <1>3, IdleFields

\* The next page's load, if it has one.
LEMMA FetchFields ==
    ASSUME NEW p, NEW a \in Assets \cup {None}
    PROVE  /\ Fetch(p, a) \in Requests \cup {Idle}
           /\ p \notin Fetching => Fetch(p, a) = Idle
           /\ p \in Fetching => /\ Fetch(p, a) \in Requests /\ Fetch(p, a).op = "load" /\ Fetch(p, a).here
                                /\ Fetch(p, a).phase = "sent" /\ Fetch(p, a).about = p
                                /\ Renews(Fetch(p, a))
<1>1. CASE p \in Fetching
  <2>1. Fetch(p, a) = Sent("load", a, p)
    BY <1>1 DEF Fetch
  <2>2. "load" \in Queries
    BY DEF Queries
  <2> QED
    BY <1>1, <2>1, <2>2, SentFields DEF Renews
<1>2. CASE p \notin Fetching
  BY <1>2 DEF Fetch
<1> QED
  BY <1>1, <1>2

LEMMA SnapshotShots ==
    ASSUME AgentTypes, NEW p, NEW a
    PROVE  Snapshot(p, a) \in Shots
<1>1. Blank \in Shots
  BY DEF Blank, Shots
<1>2. CASE p = "assets"
  BY <1>1, <1>2 DEF AgentTypes, Snapshot, Shots
<1>3. CASE p = "policies"
  BY <1>1, <1>3 DEF AgentTypes, Snapshot, Shots
<1>4. CASE p \in {"asset", "edit"} /\ a \in known
  <2> DEFINE ks == IF p = "asset" THEN held[a] ELSE {}
             s  == [Blank EXCEPT !.asset = a, !.bound = a \in bound, !.on = a \in on, !.copies = ks]
  <2>1. Snapshot(p, a) = s
    BY <1>4 DEF Snapshot
  <2>2. a \in Assets /\ ks \subseteq Copies /\ (a \in bound) \in BOOLEAN /\ (a \in on) \in BOOLEAN
    BY <1>4 DEF AgentTypes
  <2>3. s \in Shots
    <3> HIDE DEF ks
    <3> QED
      BY <2>2 DEF Shots, Blank
  <2> QED
    BY <2>1, <2>3
<1>5. CASE ~(p = "assets" \/ p = "policies" \/ (p \in {"asset", "edit"} /\ a \in known))
  <2>1. Snapshot(p, a) = Blank
    BY <1>5 DEF Snapshot
  <2> QED
    BY <1>1, <2>1
<1> QED
  BY <1>2, <1>3, <1>4, <1>5

\* A command keeps the agent's types, and no copy comes back.
LEMMA EffectTypes ==
    ASSUME AgentTypes, NEW op \in Commands, NEW a, NEW x, Effect(op, a, x)
    PROVE  AgentTypes' /\ \A b \in Assets : held'[b] \subseteq held[b]
<1> USE DEF AgentTypes
<1>1. CASE op = "activate"
  BY <1>1 DEF Effect
<1>2. CASE op = "deactivate"
  BY <1>2 DEF Effect
<1>3. CASE op = "delete"
  BY <1>3 DEF Effect
<1>4. CASE op = "dropCopy"
  BY <1>4 DEF Effect
<1>5. CASE op = "removePolicy"
  BY <1>5 DEF Effect
<1>6. CASE op = "createPolicy"
  BY <1>6 DEF Effect
<1>7. CASE op = "createAsset"
  BY <1>7 DEF Effect
<1>8. CASE op \in {"editPolicy", "update", "backup"}
  BY <1>8 DEF Effect, agentVars
<1> QED
  BY <1>1, <1>2, <1>3, <1>4, <1>5, <1>6, <1>7, <1>8 DEF Commands, Reloading, Moving

-----------------------------------------------------------------------------
(* Lemmas about the requests                                               *)

\* A request of the batch that runs on the page.
InBatch(r) == r.op \in Batches /\ r.here

\* A batch that is of the page keeps it busy.
LEMMA BatchRuns ==
    ASSUME CallsInv, NEW d \in Calls, InBatch(call[d])
    PROVE  page = "assets" /\ busy
<1>1. call[d] # Idle
  BY IdleFields DEF InBatch
<1>2. Fits(call[d], page, busy, held)
  BY <1>1 DEF CallsInv
<1> QED
  BY <1>2 DEF Fits, InBatch

\* A step of one call on the same page, that may take copies away.
LEMMA OneCall ==
    ASSUME TypesInv, CallsInv, BatchInv, NEW c \in Calls, NEW h \in Requests \cup {Idle},
           call' = [call EXCEPT ![c] = h], page' = page \/ \A d \in Calls : ~call[d].here,
           h = Idle \/ Fits(h, page', busy', held'),
           \A a \in Assets : held'[a] \subseteq held[a],
           \A d \in Calls : d # c /\ InBatch(call[d]) => busy' /\ ~InBatch(h)
    PROVE  call' \in [Calls -> Requests \cup {Idle}] /\ CallsInv' /\ BatchInv'
<1>1. call' \in [Calls -> Requests \cup {Idle}] /\ call'[c] = h /\ \A d \in Calls : d # c => call'[d] = call[d]
  BY DEF TypesInv
<1>2. CallsInv'
  <2> SUFFICES ASSUME NEW d \in Calls, call'[d] # Idle PROVE Fits(call'[d], page', busy', held')
    BY DEF CallsInv
  <2>1. CASE d = c
    BY <1>1, <2>1
  <2>2. CASE d # c
    <3>1. call'[d] = call[d] /\ Fits(call[d], page, busy, held)
      BY <1>1, <2>2 DEF CallsInv
    <3>2. call[d].here /\ call[d].op \in Batches => busy'
      BY <2>2 DEF InBatch
    <3> QED
      BY <3>1, <3>2 DEF Fits, Queries
  <2> QED
    BY <2>1, <2>2
<1>3. BatchInv'
  <2> SUFFICES ASSUME NEW d \in Calls, NEW e \in Calls, InBatch(call'[d]), InBatch(call'[e]) PROVE d = e
    BY DEF BatchInv, Here, InBatch
  <2>1. CASE d # c /\ e # c
    BY <1>1, <2>1 DEF BatchInv, Here, InBatch
  <2>2. CASE d = c \/ e = c
    BY <1>1, <2>2
  <2> QED
    BY <2>1, <2>2
<1> QED
  BY <1>1, <1>2, <1>3

\* What is mounted in another place asks for its data anew, and of the requests
\* of the last page none is here.
LEMMA ReplaceKeeps ==
    ASSUME PagesInv, NEW c \in Calls, NEW next, Replace(c, next), UNCHANGED agentVars,
           OnRoute(page', at'), (~broken' /\ next = Fetch(page', at')) \/ (broken' /\ next = Idle)
    PROVE  PagesInv'
<1>1. AgentTypes' /\ at' \in Assets \cup {None} /\ held' = held
  BY DEF PagesInv, TypesInv, AgentTypes, agentVars, OnRoute
<1>2. /\ next \in Requests \cup {Idle}
      /\ next # Idle => next.op = "load" /\ next.here /\ next.phase = "sent" /\ next.about = page'
      /\ page' \in Fetching /\ ~broken' => Renews(next)
  BY <1>1, FetchFields
<1>3. /\ seen' = Blank /\ dialogs' = {} /\ ~picking' /\ picked' = {} /\ ~busy'
      /\ call' = [d \in Calls |->
            IF d = c THEN next
            ELSE IF call[d].op \in Queries \/ (call[d].phase = "ok" /\ call[d].op \notin Moving)
            THEN Idle ELSE [call[d] EXCEPT !.here = FALSE]]
  BY DEF Replace
<1>4. PageTypes'
  BY <1>3 DEF PageTypes, Shots, Blank
<1>5. ASSUME NEW d \in Calls
      PROVE  /\ call'[d] \in Requests \cup {Idle}
             /\ call'[d] # Idle => Fits(call'[d], page', busy', held')
             /\ d # c => ~call'[d].here
  <2>1. CASE d = c
    <3>1. next # Idle => Fits(next, page', busy', held')
      BY <1>2 DEF Fits, Queries, Batches
    <3> QED
      BY <1>2, <1>3, <2>1, <3>1
  <2>2. CASE d # c /\ (call[d].op \in Queries \/ (call[d].phase = "ok" /\ call[d].op \notin Moving))
    BY <1>3, <2>2, IdleFields
  <2>3. CASE d # c /\ call[d] = Idle
    BY <1>3, <2>2, <2>3, IdleFields
  <2>4. CASE d # c /\ call[d] \in Requests /\ ~(call[d].op \in Queries \/ (call[d].phase = "ok" /\ call[d].op \notin Moving))
    <3> DEFINE r == call[d]
               q == [r EXCEPT !.here = FALSE]
    <3>1. call'[d] = q
      BY <1>3, <2>4
    <3>2. q \in Requests /\ q.op = r.op /\ q.asset = r.asset /\ q.phase = r.phase /\ ~q.here /\ q.op # "load"
      BY <2>4 DEF Requests, Queries
    <3>3. Fits(r, page, busy, held)
      BY <2>4, IdleFields DEF PagesInv, CallsInv
    <3>4. r.op = "dropCopy" => r.op \notin Moving
      BY DEF Moving
    <3> HIDE DEF q, r
    <3>5. Fits(q, page', busy', held')
      BY <2>4, <3>2, <3>3, <3>4 DEF Fits, r
    <3> QED
      BY <2>4, <3>1, <3>2, <3>5
  <2> QED
    BY <2>1, <2>2, <2>3, <2>4 DEF PagesInv, TypesInv
<1>6. TypesInv'
  BY <1>1, <1>3, <1>4, <1>5 DEF TypesInv
<1>7. CallsInv'
  BY <1>5 DEF CallsInv
<1>8. ~InBatch(next)
  BY <1>2, IdleFields DEF InBatch, Batches
<1>9. BatchInv'
  BY <1>3, <1>5, <1>8 DEF BatchInv, Here, InBatch
<1>10. PageInv'
  BY <1>2, <1>3, <1>5, IdleFields DEF PageInv
<1>11. SeenInv'
  BY <1>2, <1>3 DEF SeenInv
<1>12. FreshInv'
  BY DEF Replace, FreshInv
<1> QED
  BY <1>6, <1>7, <1>9, <1>10, <1>11, <1>12 DEF PagesInv

\* The loads that are read stay so while the agent does not change; a change
\* outdates them all.
LEMMA FreshSame ==
    ASSUME TypesInv, FreshInv, NEW c \in Calls, NEW h, call' = [call EXCEPT ![c] = h],
           ~Got(call[c]), (UNCHANGED agentVars /\ fresh' = fresh) \/ fresh' = {}
    PROVE  FreshInv'
<1>1. CASE fresh' = {}
  BY <1>1 DEF FreshInv
<1>2. CASE UNCHANGED agentVars /\ fresh' = fresh
  <2>1. c \notin fresh
    BY DEF FreshInv
  <2>2. \A d \in fresh : call'[d] = call[d]
    BY <2>1 DEF FreshInv, TypesInv
  <2>3. \A q, a : Snapshot(q, a)' = Snapshot(q, a)
    BY <1>2 DEF Snapshot, agentVars
  <2> QED
    BY <1>2, <2>2, <2>3 DEF FreshInv
<1> QED
  BY <1>1, <1>2

\* A step of one call that is not about a copy deleted, and after which the page
\* is loaded again if it was to be before.
LEMMA SeenSame ==
    ASSUME TypesInv, SeenInv, NEW c \in Calls, NEW h, call' = [call EXCEPT ![c] = h],
           UNCHANGED <<agentVars, page, at, broken, seen>>, behind => behind',
           page \in Fetching /\ ~broken /\ ~behind' /\ Renews(call[c]) => Renews(h),
           ~Drops(call[c]), ~Drops(h)
    PROVE  SeenInv'
<1>1. call'[c] = h /\ \A d \in Calls : d # c => call'[d] = call[d]
  BY DEF TypesInv
<1>2. page \in Fetching /\ ~broken /\ ~behind' /\ (\E d \in Calls : Renews(call[d]))
          => \E d \in Calls : Renews(call'[d])
  BY <1>1
<1>3. Dropped' = Dropped
  <2>1. \A d \in Calls : Drops(call'[d]) <=> Drops(call[d])
    BY <1>1
  <2>2. \A d \in Calls : Drops(call[d]) => call'[d] = call[d]
    BY <1>1
  <2> QED
    BY <2>1, <2>2 DEF Dropped
<1>4. Snapshot(page, at)' = Snapshot(page, at)
  BY DEF Snapshot, agentVars
<1> QED
  BY <1>2, <1>3, <1>4 DEF SeenInv

LEMMA NavigateKeeps ==
    ASSUME PagesInv, NEW c \in Calls, NEW p, NEW a, Navigate(c, p, a), OnRoute(p, a),
           ~Drops(call[c]), ~Got(call[c]), p = page /\ ~broken => ~Renews(call[c])
    PROVE  PagesInv'
<1> USE DEF PagesInv
<1>1. UNCHANGED agentVars /\ page' = p /\ at' = a /\ broken' = broken /\ held' = held
  BY DEF Navigate, agentVars
<1>2. CASE ~broken /\ page # p
  BY <1>1, <1>2, ReplaceKeeps DEF Navigate
<1>3. CASE broken \/ page = p
  <2> DEFINE h == IF broken \/ a = at THEN Idle ELSE Fetch(p, a)
  <2>1. call' = [call EXCEPT ![c] = h] /\ UNCHANGED <<loading, seen, dialogs, picking, picked, busy, behind, fresh>>
    BY <1>3 DEF Navigate
  <2>2. a \in Assets \cup {None}
    BY DEF OnRoute
  <2>3. /\ h \in Requests \cup {Idle}
        /\ h # Idle => h.op = "load" /\ h.here /\ h.phase = "sent" /\ h.about = page'
    BY <1>1, <2>2, FetchFields
  <2>4. /\ h = Idle \/ Fits(h, page', busy', held')
        /\ ~Drops(h) /\ ~InBatch(h)
    BY <2>3, IdleFields DEF Fits, Drops, InBatch, Queries, Batches
  <2>5. broken => h = Idle
    OBVIOUS
  <2>6. ~broken /\ at' # at /\ page \in Fetching => Renews(h)
    BY <1>1, <1>3, <2>2, FetchFields
  <2> HIDE DEF h
  <2>7. \A d \in Calls : InBatch(call[d]) => busy'
    BY <2>1, BatchRuns
  <2>8. page' = page \/ \A d \in Calls : ~call[d].here
    BY <1>1, <1>3 DEF PageInv
  <2>9. call' \in [Calls -> Requests \cup {Idle}] /\ CallsInv' /\ BatchInv'
    BY <1>1, <2>1, <2>3, <2>4, <2>7, <2>8, OneCall
  <2>10. TypesInv'
    <3>1. AgentTypes'
      BY <1>1 DEF TypesInv, AgentTypes, agentVars
    <3>2. PageTypes'
      BY <1>1, <1>3, <2>1 DEF TypesInv, PageTypes, PageInv
    <3> QED
      BY <2>9, <3>1, <3>2 DEF TypesInv
  <2>11. PageInv'
    <3>1. \A d \in dialogs : d.kind \in Opened(page')
      BY <1>1, <1>3 DEF PageInv
    <3>2. broken => \A d \in Calls : ~call'[d].here
      BY <2>1, <2>5, IdleFields DEF PageInv, TypesInv
    <3> QED
      BY <1>1, <2>1, <3>1, <3>2 DEF PageInv
  <2>12. SeenInv'
    <3>1. CASE broken
      BY <1>1, <3>1 DEF SeenInv
    <3>2. CASE ~broken /\ a # at
      BY <1>1, <1>3, <2>1, <2>6, <3>2 DEF SeenInv, TypesInv
    <3>3. CASE ~broken /\ a = at
      BY <1>1, <1>3, <2>1, <2>4, <3>3, SeenSame
    <3> QED
      BY <3>1, <3>2, <3>3
  <2>13. FreshInv'
    BY <1>1, <2>1, FreshSame
  <2> QED
    BY <2>9, <2>10, <2>11, <2>12, <2>13
<1> QED
  BY <1>2, <1>3

\* What is over the page and selected on it.
Overlay ==
    /\ \A d \in dialogs : d.kind \in Opened(page)
    /\ broken => dialogs = {} /\ ~picking /\ picked = {} /\ ~busy

\* A step of one call that changes neither the agent nor what is shown.
LEMMA CallKeeps ==
    ASSUME PagesInv, NEW c \in Calls, NEW h \in Requests \cup {Idle}, call' = [call EXCEPT ![c] = h],
           UNCHANGED <<agentVars, page, at, broken, seen>>, behind => behind', PageTypes', Overlay',
           FreshInv' \/ (fresh' = fresh /\ ~Got(call[c])),
           h = Idle \/ Fits(h, page, busy', held), h.here => ~broken,
           page \in Fetching /\ ~broken /\ ~behind' /\ Renews(call[c]) => Renews(h),
           ~Drops(call[c]), ~Drops(h),
           \A d \in Calls : d # c /\ InBatch(call[d]) => busy' /\ ~InBatch(h)
    PROVE  PagesInv'
<1> USE DEF PagesInv
<1>1. held' = held /\ AgentTypes'
  BY DEF TypesInv, AgentTypes, agentVars
<1>2. call' \in [Calls -> Requests \cup {Idle}] /\ CallsInv' /\ BatchInv'
  BY <1>1, OneCall
<1>3. TypesInv'
  BY <1>1, <1>2 DEF TypesInv
<1>4. PageInv'
  <2>1. broken => \A d \in Calls : ~call'[d].here
    BY DEF PageInv, TypesInv
  <2> QED
    BY <2>1 DEF PageInv, Overlay
<1>5. SeenInv'
  BY SeenSame
<1>6. FreshInv'
  BY FreshSame
<1> QED
  BY <1>2, <1>3, <1>4, <1>5, <1>6

LEMMA OverlaySame ==
    ASSUME PagesInv, UNCHANGED <<page, at, broken, seen, dialogs, picking, picked, busy>>
    PROVE  PageTypes' /\ Overlay'
BY DEF PagesInv, TypesInv, PageTypes, PageInv, Overlay

\* A free slot owes nothing to the page.
LEMMA IdleOwes == ~Renews(Idle) /\ ~Drops(Idle) /\ ~InBatch(Idle) /\ ~Got(Idle)
BY IdleFields DEF Renews, Drops, InBatch, Got, Queries

\* Nor does a request that was just sent and that is neither a load nor a batch.
LEMMA SentOwes ==
    ASSUME NEW r, r.phase = "sent", r.op \in Queries \cup Commands, r.op # "load"
    PROVE  ~Renews(r) /\ ~Drops(r)
BY DEF Renews, Drops, Queries, Commands, Reloading, Moving

LEMMA NoBatch ==
    ASSUME NEW r, r.op \in Queries \cup Commands
    PROVE  ~InBatch(r)
BY DEF InBatch, Queries, Commands, Reloading, Moving, Batches

\* A button, that sends one request.
LEMMA SendKeeps ==
    ASSUME PagesInv, NEW c \in Calls, NEW op \in Commands \cup {"offer"}, NEW x \in Abouts, NEW a \in Assets \cup {None},
           Send(c, Sent(op, a, x)), UNCHANGED <<agentVars, page, at, broken, seen, behind, fresh, busy>>, PageTypes', Overlay',
           ~broken,
           op = "update" => a \in Assets,
           op \in {"offer", "delete"} => page = "asset",
           op = "createAsset" => page = "new"
    PROVE  PagesInv'
<1> DEFINE h == Sent(op, a, x)
<1>0. op \in Queries \cup Commands /\ op # "load" /\ x \in Abouts \cup Fetching
  BY DEF Queries, Commands, Reloading, Moving
<1>1. h \in Requests /\ h.op = op /\ h.phase = "sent" /\ h.here /\ h.asset = a
  BY <1>0, SentFields
<1>2. call[c] = Idle /\ call' = [call EXCEPT ![c] = h]
  BY DEF Send
<1> HIDE DEF h
<1>3. /\ ~InBatch(h) /\ ~Renews(h) /\ ~Drops(h)
      /\ ~Renews(call[c]) /\ ~Drops(call[c]) /\ ~Got(call[c])
  <2>1. h.op \in Queries \cup Commands /\ h.op # "load"
    BY <1>0, <1>1
  <2>2. ~InBatch(h)
    BY <2>1, NoBatch
  <2>3. ~Renews(h) /\ ~Drops(h)
    BY <1>1, <2>1, SentOwes
  <2>4. ~Renews(call[c]) /\ ~Drops(call[c]) /\ ~Got(call[c])
    BY <1>2, IdleOwes
  <2> QED
    BY <2>2, <2>3, <2>4
<1>4. Fits(h, page, busy', held)
  BY <1>0, <1>1 DEF Fits, Queries, Batches, Commands, Reloading, Moving
<1>5. \A d \in Calls : InBatch(call[d]) => busy'
  BY BatchRuns DEF PagesInv
<1> QED
  BY <1>1, <1>2, <1>3, <1>4, <1>5, CallKeeps

\* A step that changes neither the agent, nor the requests, nor what is shown.
LEMMA OverlayKeeps ==
    ASSUME PagesInv, UNCHANGED <<agentVars, page, at, broken, seen, behind, fresh, call, busy>>, PageTypes', Overlay'
    PROVE  PagesInv'
<1> USE DEF PagesInv
<1>1. TypesInv'
  BY DEF TypesInv, AgentTypes, agentVars
<1>2. PageInv'
  BY DEF PageInv, Overlay
<1>3. CallsInv'
  BY DEF CallsInv, agentVars
<1>4. BatchInv'
  BY DEF BatchInv, Here
<1>5. SeenInv'
  <2>1. Snapshot(page, at)' = Snapshot(page, at)
    BY DEF Snapshot, agentVars
  <2>2. Dropped' = Dropped
    BY DEF Dropped
  <2> QED
    BY <2>1, <2>2 DEF SeenInv
<1>6. FreshInv'
  <2>1. \A q, a : Snapshot(q, a)' = Snapshot(q, a)
    BY DEF Snapshot, agentVars
  <2> QED
    BY <2>1 DEF FreshInv
<1> QED
  BY <1>1, <1>2, <1>3, <1>4, <1>5, <1>6

-----------------------------------------------------------------------------
(* Buttons                                                                 *)

LEMMA ButtonKeeps ==
    ASSUME PagesInv, NEW c \in Calls,
           \/ \E a \in Assets : BackupFromCard(c, a)
           \/ Detail(c) \/ SaveAsset(c) \/ CreateAsset(c) \/ DeletePolicy(c) \/ SavePolicy(c)
    PROVE  PagesInv'
<1>1. PageTypes /\ PageInv
  BY DEF PagesInv, TypesInv
<1>2. ASSUME NEW op \in Commands \cup {"offer"}, NEW a \in Assets \cup {None}, NEW x \in Abouts,
             Only(c, op, a, x), ~broken,
             op = "update" => a \in Assets,
             op \in {"offer", "delete"} => page = "asset",
             op = "createAsset" => page = "new"
      PROVE  PagesInv'
  <2>1. Send(c, Sent(op, a, x)) /\ UNCHANGED <<agentVars, pageVars, behind, fresh>>
    BY <1>2 DEF Only
  <2>2. PageTypes' /\ Overlay'
    BY <2>1, OverlaySame DEF pageVars
  <2>3. UNCHANGED <<page, at, broken, seen, busy>>
    BY <2>1 DEF pageVars
  <2> QED
    BY <1>2, <2>1, <2>2, <2>3, SendKeeps
<1>3. None \in Abouts /\ {"backup", "deactivate", "update", "createAsset", "removePolicy"} \subseteq Commands
  BY DEF Abouts, Commands, Reloading, Moving
<1>4. at \in Assets \cup {None} /\ (page \in {"asset", "edit"} => at \in Assets)
  BY <1>1 DEF PageTypes, OnRoute
<1>5. ASSUME NEW a \in Assets, BackupFromCard(c, a) PROVE PagesInv'
  BY <1>2, <1>3, <1>5 DEF BackupFromCard, On
<1>6. CASE Detail(c)
  BY <1>2, <1>3, <1>4, <1>6 DEF Detail, On
<1>7. CASE SaveAsset(c)
  BY <1>2, <1>3, <1>4, <1>7 DEF SaveAsset, On
<1>8. CASE CreateAsset(c)
  BY <1>2, <1>3, <1>8 DEF CreateAsset, On
<1>9. CASE DeletePolicy(c)
  <2>1. PICK p \in seen.policies : Only(c, "removePolicy", None, p)
    BY <1>9 DEF DeletePolicy
  <2>2. p \in Abouts /\ ~broken
    BY <1>1, <1>9 DEF PageTypes, Shots, Abouts, DeletePolicy, On
  <2> QED
    BY <1>2, <1>3, <2>1, <2>2
<1>10. CASE SavePolicy(c)
  <2>1. PICK d \in dialogs : Only(c, d.kind, None, d.about)
    BY <1>10 DEF SavePolicy
  <2>2. d.about \in Abouts /\ ~broken
    BY <1>1 DEF PageTypes, PageInv
  <2>3. d.kind \in {"createPolicy", "editPolicy"}
    BY <1>1, <1>10 DEF PageInv, Opened, SavePolicy
  <2>4. d.kind \in Commands /\ d.kind \notin {"update", "offer", "delete", "createAsset"}
    BY <2>3 DEF Commands, Reloading
  <2> QED
    BY <1>2, <2>1, <2>2, <2>4
<1> QED
  BY <1>5, <1>6, <1>7, <1>8, <1>9, <1>10

LEMMA ConfirmKeeps ==
    ASSUME PagesInv, NEW c \in Calls, Confirm(c)
    PROVE  PagesInv'
<1>1. PageTypes /\ PageInv
  BY DEF PagesInv, TypesInv
<1>2. PICK d \in dialogs :
          \/ d.kind \in {"delete", "dropCopy"} /\ Send(c, Sent(d.kind, at, d.about)) /\ Shuts(d.kind)
          \/ d.kind = "activate" /\ Only(c, "activate", at, None)
  BY DEF Confirm
<1>3. d.about \in Abouts /\ None \in Abouts /\ ~broken /\ page = "asset" /\ at \in Assets
  BY <1>1 DEF PageTypes, PageInv, OnRoute, Confirm, Abouts
<1>4. CASE d.kind \in {"delete", "dropCopy"} /\ Send(c, Sent(d.kind, at, d.about)) /\ Shuts(d.kind)
  <2>1. /\ dialogs' = {e \in dialogs : e.kind # d.kind}
        /\ UNCHANGED <<agentVars, page, at, broken, loading, seen, picking, picked, busy, behind, fresh>>
    BY <1>4 DEF Shuts
  <2>2. PageTypes' /\ Overlay'
    BY <1>1, <1>3, <2>1 DEF PageTypes, PageInv, Overlay
  <2>3. d.kind \in Commands
    BY <1>4 DEF Commands, Moving
  <2> QED
    BY <1>3, <1>4, <2>1, <2>2, <2>3, SendKeeps
<1>5. CASE d.kind = "activate" /\ Only(c, "activate", at, None)
  <2>1. Send(c, Sent("activate", at, None)) /\ UNCHANGED <<agentVars, pageVars, behind, fresh>>
    BY <1>5 DEF Only
  <2>2. PageTypes' /\ Overlay'
    BY <2>1, OverlaySame DEF pageVars
  <2>3. UNCHANGED <<page, at, broken, seen, busy>> /\ "activate" \in Commands
    BY <2>1 DEF pageVars, Commands, Reloading
  <2> QED
    BY <1>3, <2>1, <2>2, <2>3, SendKeeps
<1> QED
  BY <1>2, <1>4, <1>5

LEMMA StartBatchKeeps ==
    ASSUME PagesInv, NEW c \in Calls, NEW op \in Batches, StartBatch(c, op)
    PROVE  PagesInv'
<1>1. PageTypes /\ PageInv
  BY DEF PagesInv, TypesInv
<1>2. /\ page = "assets" /\ ~broken /\ picking /\ ~busy /\ busy'
      /\ UNCHANGED <<agentVars, page, at, broken, loading, seen, dialogs, picking, picked, behind, fresh>>
  BY DEF StartBatch, On
<1> DEFINE h == [Sent(op, None, None) EXCEPT !.todo = picked]
<1>3. call[c] = Idle /\ call' = [call EXCEPT ![c] = h]
  BY DEF StartBatch, Send
<1>4. h \in Requests /\ h.op = op /\ h.phase = "sent" /\ h.here
  <2>1. Sent(op, None, None) \in Requests
    BY SentFields DEF Abouts
  <2>2. picked \subseteq Assets
    BY <1>1 DEF PageTypes
  <2>3. h \in Requests
    BY <2>1, <2>2 DEF Requests
  <2> QED
    BY <2>3 DEF Sent
<1> HIDE DEF h
<1>5. Fits(h, page, busy', held)
  BY <1>2, <1>4 DEF Fits, Batches, Queries
<1>6. ~Drops(h) /\ ~Drops(call[c]) /\ ~Renews(call[c]) /\ ~Got(call[c])
  BY <1>3, <1>4, IdleOwes DEF Drops, Batches
<1>7. \A d \in Calls : ~InBatch(call[d])
  BY <1>2, BatchRuns DEF PagesInv
<1>8. PageTypes' /\ Overlay'
  BY <1>1, <1>2 DEF PageTypes, PageInv, Overlay
<1> QED
  BY <1>2, <1>3, <1>4, <1>5, <1>6, <1>7, <1>8, CallKeeps

\* Selecting, and opening and cancelling a dialog.
LEMMA DialogKeeps ==
    ASSUME PagesInv, Pick \/ DetailDialog \/ PolicyDialog \/ Cancel
    PROVE  PagesInv'
<1>1. PageTypes /\ PageInv
  BY DEF PagesInv, TypesInv
<1>2. UNCHANGED <<agentVars, page, at, broken, loading, seen, busy, call, behind, fresh>>
  BY DEF Pick, DetailDialog, PolicyDialog, Cancel, Opens, Shuts
<1>3. CASE Pick
  <2>1. dialogs' = dialogs /\ ~broken /\ page = "assets" /\ seen.list \subseteq Assets
    BY <1>1, <1>3 DEF Pick, On, PageTypes, Shots
  <2>2. picked' \subseteq Assets /\ (picked' # {} => picking')
    BY <1>1, <1>3, <2>1 DEF Pick, PageTypes
  <2>3. PageTypes' /\ Overlay'
    BY <1>1, <1>2, <2>1, <2>2 DEF PageTypes, PageInv, Overlay
  <2> QED
    BY <1>2, <2>3, OverlayKeeps
<1>4. ASSUME NEW k \in Opened(page), NEW x \in Abouts, Opens(k, x), ~broken PROVE PagesInv'
  <2>1. dialogs' = dialogs \cup {[kind |-> k, about |-> x]} /\ UNCHANGED <<picking, picked>>
    BY <1>4 DEF Opens
  <2>2. PageTypes' /\ Overlay'
    BY <1>1, <1>2, <1>4, <2>1 DEF PageTypes, PageInv, Overlay
  <2> QED
    BY <1>2, <2>2, OverlayKeeps
<1>5. CASE DetailDialog
  <2>1. ~broken /\ {"delete", "dropCopy"} \subseteq Opened(page) /\ seen.copies \subseteq Abouts /\ None \in Abouts
    BY <1>1, <1>5 DEF DetailDialog, On, Opened, PageTypes, Shots, Abouts
  <2> QED
    BY <1>4, <1>5, <2>1 DEF DetailDialog
<1>6. CASE PolicyDialog
  <2>1. ~broken /\ {"createPolicy", "editPolicy"} \subseteq Opened(page) /\ seen.policies \subseteq Abouts /\ None \in Abouts
    BY <1>1, <1>6 DEF PolicyDialog, On, Opened, PageTypes, Shots, Abouts
  <2> QED
    BY <1>4, <1>6, <2>1 DEF PolicyDialog
<1>7. CASE Cancel
  <2>1. dialogs' \subseteq dialogs /\ UNCHANGED <<picking, picked>>
    BY <1>7 DEF Cancel, Shuts
  <2>2. PageTypes' /\ Overlay'
    BY <1>1, <1>2, <2>1 DEF PageTypes, PageInv, Overlay
  <2> QED
    BY <1>2, <2>2, OverlayKeeps
<1> QED
  BY <1>3, <1>5, <1>6, <1>7

-----------------------------------------------------------------------------
(* What is shown without the copies deleted                                *)

LEMMA CutShots ==
    ASSUME NEW s \in Shots, NEW ks
    PROVE  /\ Cut(s, ks) \in Shots
           /\ \A js : Cut(Cut(s, ks), js) = Cut(s, ks \cup js)
           /\ s.copies \cap ks = {} => Cut(s, ks) = s
<1>1. ASSUME NEW js PROVE Cut(s, js) = [asset |-> s.asset, bound |-> s.bound, on |-> s.on,
                                       copies |-> s.copies \ js, list |-> s.list, policies |-> s.policies]
  BY DEF Cut, Shots
<1>2. Cut(s, ks) \in Shots
  BY <1>1 DEF Shots
<1>3. ASSUME NEW js PROVE Cut(Cut(s, ks), js) = Cut(s, ks \cup js)
  <2>1. (s.copies \ ks) \ js = s.copies \ (ks \cup js)
    OBVIOUS
  <2> DEFINE t == Cut(s, ks)
  <2>2. t \in Shots
    BY <1>2
  <2>3. /\ t.asset = s.asset /\ t.bound = s.bound /\ t.on = s.on /\ t.list = s.list
        /\ t.policies = s.policies /\ t.copies = s.copies \ ks
    BY <1>1
  <2> HIDE DEF t
  <2>4. Cut(t, js) = [asset |-> t.asset, bound |-> t.bound, on |-> t.on,
                      copies |-> t.copies \ js, list |-> t.list, policies |-> t.policies]
    BY <2>2 DEF Cut, Shots
  <2>5. Cut(t, js) = [asset |-> s.asset, bound |-> s.bound, on |-> s.on,
                      copies |-> s.copies \ (ks \cup js), list |-> s.list, policies |-> s.policies]
    BY <2>1, <2>3, <2>4
  <2>6. Cut(t, js) = Cut(s, ks \cup js)
    BY <1>1, <2>5
  <2> QED
    BY <2>6 DEF t
<1>4. ASSUME s.copies \cap ks = {} PROVE Cut(s, ks) = s
  <2>1. s.copies \ ks = s.copies
    BY <1>4
  <2> QED
    BY <1>1, <2>1 DEF Shots
<1> QED
  BY <1>2, <1>3, <1>4

\* What the agent has holds no copy deleted.
LEMMA NoneDropped ==
    ASSUME PagesInv
    PROVE  Snapshot(page, at).copies \cap Dropped = {}
<1>1. Snapshot(page, at).copies = {} \/ (at \in Assets /\ Snapshot(page, at).copies = held[at])
  <2>1. CASE page = "asset" /\ at \in known
    BY <2>1 DEF PagesInv, TypesInv, AgentTypes, Snapshot, Blank
  <2>2. CASE page = "edit" /\ at \in known
    BY <2>2 DEF Snapshot, Blank
  <2>3. CASE page = "assets"
    BY <2>3 DEF Snapshot, Blank
  <2>4. CASE page = "policies"
    BY <2>4 DEF Snapshot, Blank
  <2>5. CASE ~(page = "assets" \/ page = "policies" \/ (page \in {"asset", "edit"} /\ at \in known))
    BY <2>5 DEF Snapshot, Blank
  <2> QED
    BY <2>1, <2>2, <2>3, <2>4, <2>5
<1>2. \A c \in Calls, a \in Assets : Drops(call[c]) => call[c].about \notin held[a]
  <2> SUFFICES ASSUME NEW c \in Calls, NEW a \in Assets, Drops(call[c]) PROVE call[c].about \notin held[a]
    OBVIOUS
  <2>1. call[c] # Idle
    BY IdleOwes
  <2>2. Fits(call[c], page, busy, held)
    BY <2>1 DEF PagesInv, CallsInv
  <2> QED
    BY <2>2 DEF Fits, Drops
<1> QED
  BY <1>1, <1>2 DEF Dropped

LEMMA SnapshotSame ==
    ASSUME UNCHANGED <<agentVars, page, at>>
    PROVE  Snapshot(page, at)' = Snapshot(page, at)
BY DEF Snapshot, agentVars

\* A copy goes from what the agent has of any asset.
LEMMA SnapshotCut ==
    ASSUME AgentTypes, NEW x, held' = [b \in Assets |-> held[b] \ {x}],
           UNCHANGED <<known, bound, on, policies, page, at>>
    PROVE  Snapshot(page, at)' = Cut(Snapshot(page, at), {x})
<1>1. CASE page = "asset" /\ at \in known
  <2>1. at \in Assets /\ held'[at] = held[at] \ {x}
    BY <1>1 DEF AgentTypes
  <2> QED
    BY <1>1, <2>1 DEF Snapshot, Blank, Cut
<1>2. ASSUME Snapshot(page, at)' = Snapshot(page, at), Snapshot(page, at).copies = {}
      PROVE  Snapshot(page, at)' = Cut(Snapshot(page, at), {x})
  BY <1>2, SnapshotShots, CutShots
<1>3. CASE page = "edit" /\ at \in known
  BY <1>2, <1>3 DEF Snapshot, Blank
<1>4. CASE page = "assets"
  BY <1>2, <1>4 DEF Snapshot, Blank
<1>5. CASE page = "policies"
  BY <1>2, <1>5 DEF Snapshot, Blank
<1>6. CASE ~(page = "assets" \/ page = "policies" \/ (page \in {"asset", "edit"} /\ at \in known))
  BY <1>2, <1>6 DEF Snapshot, Blank
<1> QED
  BY <1>1, <1>3, <1>4, <1>5, <1>6

-----------------------------------------------------------------------------
(* Requests on their way                                                   *)

\* What is known of a request.
LEMMA Asked ==
    ASSUME PagesInv, NEW c \in Calls, call[c] # Idle
    PROVE  /\ call[c] \in Requests /\ Fits(call[c], page, busy, held)
           /\ call[c].here => ~broken
BY DEF PagesInv, TypesInv, CallsInv, PageInv

\* A batch of the page is the only one.
LEMMA Alone ==
    ASSUME PagesInv, NEW c \in Calls, NEW h, InBatch(h) => InBatch(call[c])
    PROVE  \A d \in Calls : d # c /\ InBatch(call[d]) => busy /\ ~InBatch(h)
BY BatchRuns DEF PagesInv, BatchInv, Here, InBatch

LEMMA ReadKeeps ==
    ASSUME PagesInv, NEW c \in Calls, Read(c)
    PROVE  PagesInv'
<1> DEFINE r == call[c]
<1>1. r.op \in Queries /\ r.phase = "sent" /\ r # Idle
  BY IdleFields DEF Read
<1>2. PICK l \in Lost(r.about, r.asset) :
          call' = [call EXCEPT
              ![c].phase = "ok", ![c].lost = l,
              ![c].data = IF r.op = "load" THEN Part(l, Snapshot(r.about, r.asset)) ELSE Blank]
  BY DEF Read
<1>d. /\ UNCHANGED <<agentVars, pageVars, behind>>
      /\ fresh' = IF r.op = "load" THEN fresh \cup {c} ELSE fresh
  BY DEF Read
<1> DEFINE x == IF r.op = "load" THEN Part(l, Snapshot(r.about, r.asset)) ELSE Blank
           h == [r EXCEPT !.phase = "ok", !.lost = l, !.data = x]
<1>h. call' = [call EXCEPT ![c] = h]
  BY <1>2 DEF PagesInv, TypesInv
<1>3. r \in Requests /\ Fits(r, page, busy, held) /\ (r.here => ~broken)
  BY <1>1, Asked
<1>l. l \in SUBSET {"asset", "copies"}
  BY <1>2 DEF Lost
<1>4. x \in Shots
  <2>1. Snapshot(r.about, r.asset) \in Shots
    BY SnapshotShots DEF PagesInv, TypesInv
  <2>2. Blank \in Shots
    BY DEF Blank, Shots
  <2>3. ASSUME NEW s \in Shots
        PROVE  [Blank EXCEPT !.copies = s.copies] \in Shots /\ [s EXCEPT !.copies = {}] \in Shots
    BY DEF Blank, Shots
  <2>4. Part(l, Snapshot(r.about, r.asset)) \in Shots
    BY <2>1, <2>3 DEF Part
  <2> QED
    BY <2>2, <2>4
<1>p. r.op = "load" /\ l = {} => x = Snapshot(r.about, r.asset)
  BY DEF Part
<1> HIDE DEF x
<1>5. /\ h \in Requests /\ h.op = r.op /\ h.here = r.here /\ h.phase = "ok" /\ h.asset = r.asset
      /\ h.about = r.about /\ h.lost = l /\ h.data = x
  BY <1>3, <1>4, <1>l DEF Requests
<1> HIDE DEF h
<1>6. Fits(h, page, busy, held)
  BY <1>1, <1>3, <1>5 DEF Fits, Queries, Batches
<1>7. Renews(r) => Renews(h)
  BY <1>1, <1>5 DEF Renews, Queries, Reloading
<1>8. ~Drops(r) /\ ~Drops(h) /\ ~InBatch(h) /\ ~Got(r)
  BY <1>1, <1>5 DEF Drops, InBatch, Queries, Batches, Got
<1>9. PageTypes' /\ Overlay' /\ UNCHANGED <<page, at, broken, seen, busy>>
  BY <1>d, OverlaySame DEF pageVars
<1>10. \A d \in Calls : d # c /\ InBatch(call[d]) => busy' /\ ~InBatch(h)
  BY <1>8, <1>9, Alone
<1>11. FreshInv'
  <2>1. \A q, a : Snapshot(q, a)' = Snapshot(q, a)
    BY <1>d DEF Snapshot, agentVars
  <2>2. c \notin fresh /\ fresh \subseteq Calls
    BY <1>8 DEF PagesInv, FreshInv
  <2>3. call'[c] = h /\ \A d \in fresh : call'[d] = call[d]
    BY <1>h, <2>2 DEF PagesInv, TypesInv
  <2>4. r.op = "load" => Got(h) /\ (h.lost = {} => h.data = Snapshot(h.about, h.asset))
    BY <1>5, <1>p DEF Got
  <2> QED
    BY <1>d, <2>1, <2>2, <2>3, <2>4 DEF PagesInv, FreshInv
<1> QED
  BY <1>d, <1>h, <1>3, <1>5, <1>6, <1>7, <1>8, <1>9, <1>10, <1>11, CallKeeps

LEMMA RefuseKeeps ==
    ASSUME PagesInv, NEW c \in Calls, Refuse(c)
    PROVE  PagesInv'
<1> DEFINE r == call[c]
<1>1. /\ r.op \in Queries \cup Commands /\ r.phase = "sent" /\ call' = [call EXCEPT ![c] = Idle]
      /\ behind' = (behind \/ r.op = "load")
      /\ UNCHANGED <<agentVars, page, at, broken, seen, dialogs, picking, picked, busy, fresh>>
  BY DEF Refuse, Done
<1>2. PageTypes' /\ Overlay'
  BY <1>1, OverlaySame
<1>3. ~behind' => ~Renews(r)
  BY <1>1, SentOwes
<1>4. ~Drops(r) /\ ~Drops(Idle) /\ ~InBatch(Idle) /\ ~Idle.here /\ ~Got(r)
  BY <1>1, IdleOwes, IdleFields DEF Drops, Got
<1>5. \A d \in Calls : d # c /\ InBatch(call[d]) => busy' /\ ~InBatch(Idle)
  BY <1>1, <1>4, Alone
<1> QED
  BY <1>1, <1>2, <1>3, <1>4, <1>5, CallKeeps

\* The agent changes, the page does not.
LEMMA PageSame ==
    ASSUME PagesInv, NEW c \in Calls, NEW h \in Requests \cup {Idle}, call' = [call EXCEPT ![c] = h],
           UNCHANGED pageVars, AgentTypes', \A a \in Assets : held'[a] \subseteq held[a],
           h = Idle \/ Fits(h, page, busy, held'), h.here => call[c].here,
           InBatch(h) => InBatch(call[c]), Ages, ~Got(call[c])
    PROVE  TypesInv' /\ PageInv' /\ CallsInv' /\ BatchInv' /\ FreshInv'
<1>1. UNCHANGED <<page, at, broken, seen, dialogs, picking, picked, busy>>
  BY DEF pageVars
<1>2. \A d \in Calls : d # c /\ InBatch(call[d]) => busy' /\ ~InBatch(h)
  BY <1>1, Alone
<1>3. call' \in [Calls -> Requests \cup {Idle}] /\ CallsInv' /\ BatchInv'
  BY <1>1, <1>2, OneCall DEF PagesInv
<1>4. TypesInv'
  BY <1>1, <1>3, OverlaySame DEF TypesInv
<1>5. PageInv'
  BY <1>1 DEF PagesInv, PageInv, TypesInv
<1>6. FreshInv'
  BY FreshSame DEF PagesInv, Ages
<1> QED
  BY <1>3, <1>4, <1>5, <1>6

LEMMA ObeyKeeps ==
    ASSUME PagesInv, NEW c \in Calls, Obey(c)
    PROVE  PagesInv'
<1> DEFINE r == call[c]
           q == [r EXCEPT !.phase = "ok"]
           h == IF r.here \/ r.op \in Moving THEN q ELSE Idle
<1>1. /\ r.op \in Commands /\ r.phase = "sent" /\ r # Idle /\ Effect(r.op, r.asset, r.about)
      /\ call' = [call EXCEPT ![c] = h] /\ behind' = (behind \/ (~r.here /\ page \in Fetching))
      /\ UNCHANGED pageVars /\ Ages /\ ~Got(r)
  BY IdleFields DEF Obey, Got
<1>2. r \in Requests /\ Fits(r, page, busy, held)
  BY <1>1, Asked
<1>3. AgentTypes' /\ \A a \in Assets : held'[a] \subseteq held[a]
  BY <1>1, EffectTypes DEF PagesInv, TypesInv
<1>4. /\ q \in Requests /\ q.op = r.op /\ q.here = r.here /\ q.phase = "ok"
      /\ q.asset = r.asset /\ q.about = r.about
  BY <1>2 DEF Requests
<1> HIDE DEF q
<1>5. r.op = "dropCopy" => held' = [b \in Assets |-> held[b] \ {r.about}] /\ UNCHANGED <<known, bound, on, policies>>
  BY <1>1 DEF Effect
<1>6. h = Idle \/ Fits(h, page, busy, held')
  <2> SUFFICES ASSUME r.here \/ r.op \in Moving PROVE Fits(q, page, busy, held')
    OBVIOUS
  <2>1. q.op = "dropCopy" => \A a \in Assets : q.about \notin held'[a]
    BY <1>4, <1>5
  <2>2. q.op \notin Queries /\ q.op # "load"
    BY <1>1, <1>4 DEF Queries, Commands, Reloading, Moving
  <2> QED
    BY <1>2, <1>4, <2>1, <2>2 DEF Fits
<1>7. h \in Requests \cup {Idle} /\ (h.here => r.here) /\ ~InBatch(h)
  <2>1. ~InBatch(q)
    BY <1>1, <1>4, NoBatch
  <2> QED
    BY <1>4, <2>1, IdleFields, IdleOwes
<1>8. TypesInv' /\ PageInv' /\ CallsInv' /\ BatchInv' /\ FreshInv'
  BY <1>1, <1>3, <1>6, <1>7, PageSame
<1>9. SeenInv'
  <2> SUFFICES ASSUME page' \in Fetching, ~broken', ~behind',
                      \A d \in Calls : ~Renews(call'[d])
               PROVE  Cut(seen, Dropped)' = Snapshot(page, at)'
    BY DEF SeenInv
  <2>1. UNCHANGED <<page, at, broken, seen>> /\ r.here /\ ~behind /\ h = q
    BY <1>1 DEF pageVars
  <2>2. call'[c] = q /\ \A d \in Calls : d # c => call'[d] = call[d]
    BY <1>1, <2>1 DEF PagesInv, TypesInv
  <2>3. ~Renews(r) /\ ~Drops(r)
    <3>1. r.op # "load"
      BY <1>1 DEF Commands, Reloading, Moving
    <3> QED
      BY <1>1, <3>1, SentOwes
  <2>4. Cut(seen, Dropped) = Snapshot(page, at)
    BY <2>1, <2>2, <2>3 DEF PagesInv, SeenInv
  <2>5. CASE r.op = "dropCopy"
    <3>1. Dropped' = Dropped \cup {r.about}
      <4>1. Drops(call'[c]) /\ call'[c].about = r.about
        BY <1>4, <2>2, <2>5 DEF Drops
      <4> QED
        BY <2>2, <2>3, <4>1 DEF Dropped
    <3>2. Snapshot(page, at)' = Cut(Snapshot(page, at), {r.about})
      BY <1>5, <2>1, <2>5, SnapshotCut DEF PagesInv, TypesInv
    <3>3. seen \in Shots
      BY DEF PagesInv, TypesInv, PageTypes
    <3>4. Cut(Cut(seen, Dropped), {r.about}) = Cut(seen, Dropped \cup {r.about})
      BY <3>3, CutShots
    <3> QED
      BY <2>1, <2>4, <3>1, <3>2, <3>4 DEF Cut
  <2>6. CASE r.op \in Reloading \cup {"delete", "createAsset"}
    BY <1>4, <2>1, <2>2, <2>6 DEF Renews
  <2>7. CASE r.op \in {"backup", "update"}
    <3>1. UNCHANGED agentVars
      BY <1>1, <2>7 DEF Effect
    <3>2. ~Drops(q)
      BY <1>4, <2>7 DEF Drops
    <3>3. SeenInv'
      BY <1>1, <2>1, <2>3, <3>1, <3>2, SeenSame DEF PagesInv
    <3> QED
      BY <2>1, <3>3 DEF SeenInv
  <2> QED
    BY <1>1, <2>5, <2>6, <2>7 DEF Commands, Moving
<1> QED
  BY <1>8, <1>9 DEF PagesInv

LEMMA ObeyInVainKeeps ==
    ASSUME PagesInv, NEW c \in Calls, ObeyInVain(c)
    PROVE  PagesInv'
<1> DEFINE r == call[c]
<1>1. /\ r.op \in Commands /\ call' = [call EXCEPT ![c] = Idle] /\ behind' = (page \in Fetching)
      /\ UNCHANGED pageVars /\ Ages /\ ~Got(r)
  BY DEF ObeyInVain, Done, Got
<1>2. AgentTypes' /\ \A a \in Assets : held'[a] \subseteq held[a]
  <2>1. CASE Effect(r.op, r.asset, r.about)
    BY <1>1, <2>1, EffectTypes DEF PagesInv, TypesInv
  <2>2. CASE held' = [held EXCEPT ![r.asset] = {}] /\ UNCHANGED <<known, bound, on, policies>>
    BY <2>2 DEF PagesInv, TypesInv, AgentTypes
  <2> QED
    BY <2>1, <2>2 DEF ObeyInVain
<1>3. TypesInv' /\ PageInv' /\ CallsInv' /\ BatchInv' /\ FreshInv'
  BY <1>1, <1>2, IdleFields, IdleOwes, PageSame
<1>4. SeenInv'
  BY <1>1 DEF SeenInv, pageVars
<1> QED
  BY <1>3, <1>4 DEF PagesInv

LEMMA BackupEndsKeeps ==
    ASSUME PagesInv, NEW a \in Assets, NEW k \in Copies, BackupEnds(a, k)
    PROVE  PagesInv'
<1>1. /\ Fresh(k) /\ held' = [held EXCEPT ![a] = @ \cup {k}] /\ behind' = (page \in Fetching)
      /\ fresh' = {}
      /\ UNCHANGED <<known, bound, on, policies, pageVars, call>>
  BY DEF BackupEnds
<1>2. UNCHANGED <<page, at, broken, seen, dialogs, picking, picked, busy>>
  BY <1>1 DEF pageVars
<1>3. TypesInv'
  BY <1>1, <1>2, OverlaySame DEF PagesInv, TypesInv, AgentTypes
<1>4. PageInv' /\ BatchInv'
  BY <1>1, <1>2 DEF PagesInv, PageInv, BatchInv, Here
<1>5. CallsInv'
  <2> SUFFICES ASSUME NEW d \in Calls, call[d] # Idle PROVE Fits(call[d], page, busy, held')
    BY <1>1, <1>2 DEF CallsInv
  <2>1. Fits(call[d], page, busy, held) /\ call[d].about # k
    BY <1>1 DEF PagesInv, CallsInv, Fresh
  <2>2. \A b \in Assets : held'[b] \subseteq held[b] \cup {k}
    BY <1>1 DEF PagesInv, TypesInv, AgentTypes
  <2> QED
    BY <2>1, <2>2 DEF Fits
<1>6. SeenInv' /\ FreshInv'
  BY <1>1, <1>2 DEF SeenInv, FreshInv
<1> QED
  BY <1>3, <1>4, <1>5, <1>6 DEF PagesInv

-----------------------------------------------------------------------------
(* Batches                                                                 *)

LEMMA BatchStepKeeps ==
    ASSUME PagesInv, NEW c \in Calls, NEW a \in Assets, BatchStep(c, a)
    PROVE  PagesInv'
<1> DEFINE r == call[c]
<1>1. r.op \in Batches /\ r # Idle /\ UNCHANGED pageVars /\ UNCHANGED <<page, at, broken, seen, dialogs, picking, picked, busy>>
  BY IdleFields DEF BatchStep, pageVars
<1>2. r \in Requests /\ Fits(r, page, busy, held) /\ (r.here => ~broken)
  BY <1>1, Asked
<1>3. PICK h : /\ call' = [call EXCEPT ![c] = h] /\ h \in Requests
               /\ h.op = r.op /\ h.here = r.here /\ h.phase = r.phase /\ h.asset = r.asset /\ h.about = r.about
               /\ \/ /\ r.op = "batchDelete" /\ behind' = (behind \/ (~r.here /\ page \in Fetching)) /\ Ages
                     /\ \/ Effect("delete", a, None)
                        \/ held' = [held EXCEPT ![a] = {}] /\ UNCHANGED <<known, bound, on, policies>>
                  \/ UNCHANGED <<agentVars, behind, fresh>>
  <2> DEFINE u == [r EXCEPT !.todo = @ \ {a}]
             v == [r EXCEPT !.todo = @ \ {a}, !.good = TRUE]
  <2>1. /\ u \in Requests /\ u.op = r.op /\ u.here = r.here /\ u.phase = r.phase /\ u.asset = r.asset /\ u.about = r.about
        /\ v \in Requests /\ v.op = r.op /\ v.here = r.here /\ v.phase = r.phase /\ v.asset = r.asset /\ v.about = r.about
    BY <1>2 DEF Requests
  <2>2. /\ [call EXCEPT ![c].todo = @ \ {a}] = [call EXCEPT ![c] = u]
        /\ [call EXCEPT ![c].todo = @ \ {a}, ![c].good = TRUE] = [call EXCEPT ![c] = v]
    BY DEF PagesInv, TypesInv
  <2> HIDE DEF u, v
  <2> QED
    BY <2>1, <2>2 DEF BatchStep
<1>4. Renews(h) <=> Renews(r)
  BY <1>3 DEF Renews
<1>5. ~Drops(r) /\ ~Drops(h) /\ (InBatch(h) => InBatch(r)) /\ ~Got(r) /\ h.op # "load"
  BY <1>1, <1>3 DEF Drops, Batches, InBatch, Got
<1>6. CASE UNCHANGED <<agentVars, behind, fresh>>
  <2>1. PageTypes' /\ Overlay'
    BY <1>1, OverlaySame
  <2>2. Fits(h, page, busy', held)
    BY <1>1, <1>2, <1>3, <1>5 DEF Fits
  <2>3. \A d \in Calls : d # c /\ InBatch(call[d]) => busy' /\ ~InBatch(h)
    BY <1>1, <1>5, Alone
  <2> QED
    BY <1>1, <1>2, <1>3, <1>4, <1>5, <1>6, <2>1, <2>2, <2>3, CallKeeps
<1>7. CASE /\ r.op = "batchDelete" /\ behind' = (behind \/ (~r.here /\ page \in Fetching)) /\ Ages
           /\ \/ Effect("delete", a, None)
              \/ held' = [held EXCEPT ![a] = {}] /\ UNCHANGED <<known, bound, on, policies>>
  <2>1. AgentTypes' /\ \A b \in Assets : held'[b] \subseteq held[b]
    <3>1. CASE Effect("delete", a, None)
      BY <3>1, EffectTypes DEF PagesInv, TypesInv, Commands, Moving
    <3>2. CASE held' = [held EXCEPT ![a] = {}] /\ UNCHANGED <<known, bound, on, policies>>
      BY <3>2 DEF PagesInv, TypesInv, AgentTypes
    <3> QED
      BY <1>7, <3>1, <3>2
  <2>2. Fits(h, page, busy, held')
    BY <1>2, <1>3, <1>5, <2>1, <1>7 DEF Fits
  <2>3. TypesInv' /\ PageInv' /\ CallsInv' /\ BatchInv' /\ FreshInv'
    BY <1>1, <1>3, <1>5, <1>7, <2>1, <2>2, PageSame
  <2>4. page \in Fetching /\ ~behind' => Renews(h)
    BY <1>3, <1>7 DEF Renews
  <2>5. call'[c] = h
    BY <1>3 DEF PagesInv, TypesInv
  <2>6. SeenInv'
    BY <1>1, <2>4, <2>5 DEF SeenInv
  <2> QED
    BY <2>3, <2>6 DEF PagesInv
<1> QED
  BY <1>3, <1>6, <1>7

LEMMA BatchEndsKeeps ==
    ASSUME PagesInv, NEW c \in Calls, BatchEnds(c)
    PROVE  PagesInv'
<1> DEFINE r == call[c]
<1>1. r.op \in Batches /\ r # Idle
  BY IdleFields DEF BatchEnds
<1>2. r \in Requests /\ Fits(r, page, busy, held) /\ (r.here => ~broken)
  BY <1>1, Asked
<1>3. ~Drops(r) /\ ~Got(r)
  BY <1>1 DEF Drops, Batches, Got
<1>4. CASE r.op = "batchBackup" /\ r.good
  <2>1. Navigate(c, "elsewhere", None)
    BY <1>4 DEF BatchEnds
  <2>2. ~Renews(r)
    BY <1>4 DEF Renews, Reloading
  <2>3. OnRoute("elsewhere", None)
    BY DEF OnRoute
  <2> QED
    BY <1>3, <2>1, <2>2, <2>3, NavigateKeeps
<1>5. CASE ~(r.op = "batchBackup" /\ r.good)
  <2> DEFINE h == IF r.here /\ r.op # "batchBackup" THEN Fetch(page, None) ELSE Idle
  <2>1. /\ picking' = (picking /\ ~r.here) /\ busy' = (busy /\ ~r.here)
        /\ picked' = IF r.here THEN {} ELSE picked
        /\ call' = [call EXCEPT ![c] = h]
        /\ UNCHANGED <<agentVars, page, at, broken, loading, seen, dialogs, behind, fresh>>
    BY <1>5 DEF BatchEnds
  <2>2. /\ h \in Requests \cup {Idle}
        /\ h # Idle => h.op = "load" /\ h.here /\ h.phase = "sent" /\ h.about = page
    BY FetchFields
  <2>3. h.here => r.here
    BY IdleFields
  <2>4. Renews(r) => Renews(h)
    <3> SUFFICES ASSUME Renews(r) PROVE Renews(h)
      OBVIOUS
    <3>1. r.here /\ r.op # "batchBackup"
      BY <1>1 DEF Renews, Batches, Reloading
    <3>2. page = "assets"
      BY <1>1, <1>2, <3>1 DEF Fits
    <3>3. Renews(Fetch(page, None))
      BY <3>2, FetchFields DEF Fetching
    <3> QED
      BY <3>1, <3>3
  <2> HIDE DEF h
  <2>5. /\ h = Idle \/ Fits(h, page, busy', held)
        /\ ~Drops(h) /\ ~InBatch(h)
    BY <2>2, IdleFields DEF Fits, Drops, InBatch, Queries, Batches
  <2>6. PageTypes' /\ Overlay'
    <3>1. PageTypes /\ PageInv
      BY DEF PagesInv, TypesInv
    <3> QED
      BY <2>1, <3>1 DEF PageTypes, PageInv, Overlay
  <2>7. \A d \in Calls : d # c /\ InBatch(call[d]) => busy' /\ ~InBatch(h)
    <3>1. CASE r.here
      BY <1>1, <2>5, <3>1 DEF PagesInv, BatchInv, Here, InBatch
    <3>2. CASE ~r.here
      BY <2>1, <2>5, <3>2, Alone
    <3> QED
      BY <3>1, <3>2
  <2> QED
    BY <1>2, <1>3, <2>1, <2>2, <2>3, <2>4, <2>5, <2>6, <2>7, CallKeeps
<1> QED
  BY <1>4, <1>5

-----------------------------------------------------------------------------
(* Answers                                                                 *)

\* A load of which nothing was lost is shown as it is.
LEMMA ShownTypes ==
    ASSUME NEW r \in Requests, seen \in Shots
    PROVE  Shown(r) \in Shots /\ (r.lost = {} => Shown(r) = r.data)
<1>1. r.data \in Shots
  BY DEF Requests
<1>2. ASSUME NEW s \in Shots, NEW ks \in SUBSET Copies
      PROVE  [s EXCEPT !.copies = ks] \in Shots /\ [s EXCEPT !.copies = s.copies] = s
  BY DEF Shots
<1>3. seen.copies \in SUBSET Copies /\ r.data.copies \in SUBSET Copies
  BY <1>1 DEF Shots
<1>4. Shown(r) \in Shots
  BY <1>1, <1>2, <1>3 DEF Shown
<1>5. r.lost = {} => Shown(r) = [r.data EXCEPT !.copies = r.data.copies]
  BY DEF Shown
<1> QED
  BY <1>1, <1>2, <1>3, <1>4, <1>5

LEMMA ShowLoadKeeps ==
    ASSUME PagesInv, NEW c \in Calls, ShowLoad(c)
    PROVE  PagesInv'
<1> DEFINE r == call[c]
           new == Shown(r)
<1>1. /\ r.op = "load" /\ r.phase = "ok" /\ r # Idle
      /\ seen' = new /\ behind' = (c \notin fresh \/ r.asset # at \/ r.lost # {})
      /\ fresh' = fresh \ {c} /\ call' = [call EXCEPT ![c] = Idle]
      /\ UNCHANGED <<agentVars, page, at, broken, dialogs, picking, picked, busy>>
  BY IdleFields DEF ShowLoad, Done
<1>2. r \in Requests /\ r.about = page
  BY <1>1, Asked DEF Fits
<1>3. new \in Shots /\ (r.lost = {} => new = r.data)
  BY <1>2, ShownTypes DEF PagesInv, TypesInv, PageTypes
<1> HIDE DEF new
<1>4. AgentTypes' /\ held' = held
  BY <1>1 DEF PagesInv, TypesInv, AgentTypes, agentVars
<1>5. PageTypes'
  BY <1>1, <1>3 DEF PagesInv, TypesInv, PageTypes
<1>6. \A d \in Calls : d # c /\ InBatch(call[d]) => busy' /\ ~InBatch(Idle)
  BY <1>1, IdleOwes, Alone
<1>7. call' \in [Calls -> Requests \cup {Idle}] /\ CallsInv' /\ BatchInv'
  BY <1>1, <1>4, <1>6, OneCall DEF PagesInv
<1>8. PageInv'
  BY <1>1, IdleFields DEF PagesInv, PageInv, TypesInv
<1>9. SeenInv'
  <2> SUFFICES ASSUME ~behind' PROVE Cut(seen, Dropped)' = Snapshot(page, at)'
    BY DEF SeenInv
  <2>1. Snapshot(page, at)' = Snapshot(page, at) /\ seen' = Snapshot(page, at)
    <3>1. c \in fresh /\ r.asset = at /\ r.lost = {}
      BY <1>1
    <3>2. r.data = Snapshot(page, at)
      BY <1>2, <3>1 DEF PagesInv, FreshInv
    <3> QED
      BY <1>1, <1>3, <3>1, <3>2, SnapshotSame
  <2>2. Dropped' = Dropped
    <3>1. call'[c] = Idle /\ \A d \in Calls : d # c => call'[d] = call[d]
      BY <1>1 DEF PagesInv, TypesInv
    <3>2. ~Drops(Idle) /\ ~Drops(r)
      BY <1>1, IdleOwes DEF Drops
    <3> QED
      BY <3>1, <3>2 DEF Dropped
  <2>3. Cut(Snapshot(page, at), Dropped) = Snapshot(page, at)
    <3>1. Snapshot(page, at) \in Shots
      BY SnapshotShots DEF PagesInv, TypesInv
    <3> QED
      BY <3>1, NoneDropped, CutShots
  <2> QED
    BY <2>1, <2>2, <2>3 DEF Cut
<1>10. FreshInv'
  <2>1. \A q, a : Snapshot(q, a)' = Snapshot(q, a)
    BY <1>1 DEF Snapshot, agentVars
  <2>2. \A d \in fresh' : d \in fresh /\ d \in Calls /\ call'[d] = call[d]
    BY <1>1 DEF PagesInv, FreshInv, TypesInv
  <2> QED
    BY <2>1, <2>2 DEF PagesInv, FreshInv
<1> QED
  BY <1>4, <1>5, <1>7, <1>8, <1>9, <1>10 DEF PagesInv, TypesInv

\* The page that is open is mounted again, or the ErrorBoundary takes its place.
LEMMA BoundaryKeeps ==
    ASSUME PagesInv, NEW c \in Calls, LoadThrows(c) \/ Retry(c)
    PROVE  PagesInv'
<1>1. OnRoute(page, at)
  BY DEF PagesInv, TypesInv, PageTypes
<1>2. UNCHANGED <<agentVars, page, at>> /\ OnRoute(page', at')
  BY <1>1 DEF LoadThrows, Retry
<1>3. CASE LoadThrows(c)
  BY <1>2, <1>3, ReplaceKeeps DEF LoadThrows
<1>4. CASE Retry(c)
  <2>1. Replace(c, Fetch(page, at)) /\ ~broken' /\ Fetch(page, at) = Fetch(page', at')
    BY <1>2, <1>4 DEF Retry
  <2> QED
    BY <1>2, <2>1, ReplaceKeeps
<1> QED
  BY <1>3, <1>4

LEMMA ShowOfferKeeps ==
    ASSUME PagesInv, NEW c \in Calls, ShowOffer(c)
    PROVE  PagesInv'
<1> DEFINE r == call[c]
<1>1. /\ r.op = "offer" /\ r.phase = "ok" /\ r # Idle /\ call' = [call EXCEPT ![c] = Idle]
      /\ dialogs' = dialogs \cup {[kind |-> "activate", about |-> None]}
      /\ UNCHANGED <<agentVars, page, at, broken, seen, picking, picked, busy, behind, fresh>>
  BY IdleFields DEF ShowOffer, Done
<1>2. page = "asset" /\ ~broken
  BY <1>1, Asked DEF Fits, Queries
<1>3. PageTypes' /\ Overlay'
  <2>1. PageTypes /\ PageInv
    BY DEF PagesInv, TypesInv
  <2> QED
    BY <1>1, <1>2, <2>1 DEF PageTypes, PageInv, Overlay, Opened, Abouts
<1>4. ~Renews(r) /\ ~Drops(r) /\ ~Drops(Idle) /\ ~InBatch(Idle) /\ ~Idle.here /\ ~Got(r)
  BY <1>1, IdleOwes, IdleFields DEF Drops, Renews, Reloading, Got
<1>5. \A d \in Calls : d # c /\ InBatch(call[d]) => busy' /\ ~InBatch(Idle)
  BY <1>1, <1>4, Alone
<1> QED
  BY <1>1, <1>3, <1>4, <1>5, CallKeeps

LEMMA LoadsAgainKeeps ==
    ASSUME PagesInv, NEW c \in Calls, LoadsAgain(c)
    PROVE  PagesInv'
<1> DEFINE r == call[c]
           h == Fetch(page, r.asset)
<1>1. /\ r.op \in Reloading /\ r.phase = "ok" /\ r.here /\ r # Idle /\ call' = [call EXCEPT ![c] = h]
      /\ dialogs' = {d \in dialogs : d.kind # r.op}
      /\ UNCHANGED <<agentVars, page, at, broken, seen, picking, picked, busy, behind, fresh>>
  BY IdleFields DEF LoadsAgain
<1>2. r \in Requests /\ ~broken
  BY <1>1, Asked
<1>3. r.asset \in Assets \cup {None}
  BY <1>2 DEF Requests
<1>4. /\ h \in Requests \cup {Idle}
      /\ h # Idle => h.op = "load" /\ h.here /\ h.phase = "sent" /\ h.about = page
      /\ page \in Fetching => Renews(h)
  BY <1>3, FetchFields
<1> HIDE DEF h
<1>5. /\ h = Idle \/ Fits(h, page, busy', held)
      /\ ~Drops(h) /\ ~InBatch(h)
  BY <1>4, IdleFields DEF Fits, Drops, InBatch, Queries, Batches
<1>6. PageTypes' /\ Overlay'
  <2>1. PageTypes /\ PageInv
    BY DEF PagesInv, TypesInv
  <2> QED
    BY <1>1, <1>2, <2>1 DEF PageTypes, PageInv, Overlay
<1>7. ~Drops(r) /\ ~Got(r)
  BY <1>1 DEF Drops, Reloading, Got
<1>8. \A d \in Calls : d # c /\ InBatch(call[d]) => busy' /\ ~InBatch(h)
  BY <1>1, <1>5, Alone
<1> QED
  BY <1>1, <1>2, <1>4, <1>5, <1>6, <1>7, <1>8, CallKeeps

LEMMA DropsRowKeeps ==
    ASSUME PagesInv, NEW c \in Calls, DropsRow(c)
    PROVE  PagesInv'
<1> DEFINE r == call[c]
<1>1. /\ r.op = "dropCopy" /\ r.phase = "ok" /\ r # Idle /\ call' = [call EXCEPT ![c] = Idle]
      /\ seen' = [seen EXCEPT !.copies = @ \ {r.about}]
      /\ UNCHANGED <<agentVars, page, at, broken, dialogs, picking, picked, busy, behind, fresh>>
  BY IdleFields DEF DropsRow, Done
<1>2. seen \in Shots /\ seen' = Cut(seen, {r.about}) /\ seen' \in Shots
  <2>1. seen \in Shots
    BY DEF PagesInv, TypesInv, PageTypes
  <2>2. seen' = Cut(seen, {r.about})
    BY <1>1 DEF Cut
  <2> QED
    BY <2>1, <2>2, CutShots
<1>3. AgentTypes' /\ held' = held
  BY <1>1 DEF PagesInv, TypesInv, AgentTypes, agentVars
<1>4. PageTypes'
  BY <1>1, <1>2 DEF PagesInv, TypesInv, PageTypes
<1>5. \A d \in Calls : d # c /\ InBatch(call[d]) => busy' /\ ~InBatch(Idle)
  BY <1>1, IdleOwes, Alone
<1>6. call' \in [Calls -> Requests \cup {Idle}] /\ CallsInv' /\ BatchInv'
  BY <1>1, <1>3, <1>5, OneCall DEF PagesInv
<1>7. PageInv'
  BY <1>1, IdleFields DEF PagesInv, PageInv, TypesInv
<1>8. SeenInv'
  <2> SUFFICES ASSUME page' \in Fetching, ~broken', ~behind', \A d \in Calls : ~Renews(call'[d])
               PROVE  Cut(seen, Dropped)' = Snapshot(page, at)'
    BY DEF SeenInv
  <2>1. call'[c] = Idle /\ \A d \in Calls : d # c => call'[d] = call[d]
    BY <1>1 DEF PagesInv, TypesInv
  <2>2. ~Renews(r)
    BY <1>1 DEF Renews, Reloading
  <2>3. Cut(seen, Dropped) = Snapshot(page, at)
    BY <1>1, <2>1, <2>2 DEF PagesInv, SeenInv
  <2>4. Dropped = {r.about} \cup Dropped'
    <3>1. Drops(r) /\ ~Drops(Idle)
      BY <1>1, IdleOwes DEF Drops
    <3> QED
      BY <2>1, <3>1 DEF Dropped
  <2>5. Snapshot(page, at)' = Snapshot(page, at)
    BY <1>1, SnapshotSame
  <2>6. Cut(Cut(seen, {r.about}), Dropped') = Cut(seen, {r.about} \cup Dropped')
    BY <1>2, CutShots
  <2> QED
    BY <1>2, <2>3, <2>4, <2>5, <2>6 DEF Cut
<1>9. FreshInv'
  <2>1. ~Got(r)
    BY <1>1 DEF Got
  <2> QED
    BY <1>1, <2>1, FreshSame DEF PagesInv
<1> QED
  BY <1>3, <1>4, <1>6, <1>7, <1>8, <1>9 DEF PagesInv, TypesInv

LEMMA MovesOnKeeps ==
    ASSUME PagesInv, NEW c \in Calls, MovesOn(c)
    PROVE  PagesInv'
<1> DEFINE r == call[c]
<1>1. r.phase = "ok" /\ r.op \in {"backup", "delete", "createAsset", "update"} /\ r # Idle
  BY IdleFields DEF MovesOn
<1>2. Fits(r, page, busy, held) /\ ~Drops(r) /\ ~Got(r)
  BY <1>1, Asked DEF Drops, Got
<1>3. CASE r.op = "backup" /\ Navigate(c, "elsewhere", None)
  BY <1>2, <1>3, NavigateKeeps DEF OnRoute, Renews, Reloading
<1>4. CASE r.op \in {"delete", "createAsset"} /\ Navigate(c, "assets", None)
  <2>1. r.here => page # "assets"
    BY <1>2, <1>4 DEF Fits
  <2>2. page = "assets" => ~Renews(r)
    BY <2>1 DEF Renews
  <2> QED
    BY <1>2, <1>4, <2>2, NavigateKeeps DEF OnRoute
<1>5. CASE r.op = "update" /\ Navigate(c, "asset", r.asset)
  <2>1. r.asset \in Assets
    BY <1>2, <1>5 DEF Fits
  <2> QED
    BY <1>2, <1>5, <2>1, NavigateKeeps DEF OnRoute, Renews, Reloading
<1> QED
  BY <1>3, <1>4, <1>5 DEF MovesOn

LEMMA GoToKeeps ==
    ASSUME PagesInv, NEW c \in Calls, (\E r \in Routes : GoTo(c, r[1], r[2])) \/ OpenEdit(c)
    PROVE  PagesInv'
<1>1. ASSUME NEW p, NEW a, GoTo(c, p, a), OnRoute(p, a) PROVE PagesInv'
  <2>1. call[c] = Idle /\ Navigate(c, p, a)
    BY <1>1 DEF GoTo
  <2> QED
    BY <1>1, <2>1, IdleOwes, NavigateKeeps
<1>2. \A r \in Routes : OnRoute(r[1], r[2])
  BY DEF Routes, OnRoute
<1>3. CASE OpenEdit(c)
  <2>1. OnRoute("edit", at)
    BY <1>3 DEF OpenEdit, OnRoute, PagesInv, TypesInv, PageTypes
  <2> QED
    BY <1>1, <1>3, <2>1 DEF OpenEdit
<1> QED
  BY <1>1, <1>2, <1>3

-----------------------------------------------------------------------------
(* Theorems                                                                *)

LEMMA PagesInitInv == PagesInit => PagesInv
<1> SUFFICES ASSUME PagesInit PROVE PagesInv
  OBVIOUS
<1> USE DEF PagesInit
<1>1. TypesInv
  BY DEF TypesInv, AgentTypes, PageTypes, OnRoute, Shots, Blank
<1>2. PageInv
  BY DEF PageInv
<1>3. CallsInv
  BY DEF CallsInv
<1>4. BatchInv
  BY IdleFields DEF BatchInv, Here
<1>5. SeenInv /\ FreshInv
  BY DEF SeenInv, Fetching, FreshInv
<1> QED
  BY <1>1, <1>2, <1>3, <1>4, <1>5 DEF PagesInv

LEMMA PagesStepInv == PagesInv /\ [PagesNext]_<<agentVars, pageVars, call, behind, fresh>> => PagesInv'
<1> SUFFICES ASSUME PagesInv, [PagesNext]_<<agentVars, pageVars, call, behind, fresh>> PROVE PagesInv'
  OBVIOUS
<1>1. CASE UNCHANGED <<agentVars, pageVars, call, behind, fresh>>
  <2>1. UNCHANGED <<agentVars, page, at, broken, seen, dialogs, picking, picked, busy, call, behind, fresh>>
    BY <1>1 DEF pageVars
  <2> QED
    BY <2>1, OverlaySame, OverlayKeeps
<1>2. ASSUME NEW c \in Calls,
             \/ Read(c) \/ Obey(c) \/ ObeyInVain(c) \/ Refuse(c)
             \/ ShowLoad(c) \/ LoadThrows(c) \/ ShowOffer(c)
             \/ LoadsAgain(c) \/ DropsRow(c) \/ MovesOn(c)
      PROVE  PagesInv'
  BY <1>2, ReadKeeps, ObeyKeeps, ObeyInVainKeeps, RefuseKeeps, ShowLoadKeeps, BoundaryKeeps,
     ShowOfferKeeps, LoadsAgainKeeps, DropsRowKeeps, MovesOnKeeps
<1>3. ASSUME NEW c \in Calls,
             \/ (\E a \in Assets : BatchStep(c, a) \/ BackupFromCard(c, a)) \/ BatchEnds(c)
             \/ (\E op \in Batches : StartBatch(c, op))
             \/ Detail(c) \/ Confirm(c) \/ SaveAsset(c) \/ CreateAsset(c)
             \/ DeletePolicy(c) \/ SavePolicy(c)
             \/ (\E r \in Routes : GoTo(c, r[1], r[2])) \/ OpenEdit(c) \/ Retry(c)
      PROVE  PagesInv'
  BY <1>3, BatchStepKeeps, BatchEndsKeeps, StartBatchKeeps, ButtonKeeps, ConfirmKeeps, GoToKeeps, BoundaryKeeps
<1>4. CASE Pick \/ DetailDialog \/ PolicyDialog \/ Cancel
  BY <1>4, DialogKeeps
<1>5. ASSUME NEW a \in Assets, NEW k \in Copies, BackupEnds(a, k) PROVE PagesInv'
  BY <1>5, BackupEndsKeeps
<1> QED
  BY <1>1, <1>2, <1>3, <1>4, <1>5 DEF PagesNext

\* The pages, their dialogs and requests, and what the agent has, always fit
\* together.
THEOREM PagesInvariant == PagesSpec => []PagesInv
<1>1. PagesInit => PagesInv
  BY PagesInitInv
<1>2. PagesInv /\ [PagesNext]_<<agentVars, pageVars, call, behind, fresh>> => PagesInv'
  BY PagesStepInv
<1> QED
  BY <1>1, <1>2, PTL DEF PagesSpec

\* Every variable of the pages keeps its type: a route has an asset if and only
\* if its page is about one, and only the assets page has a selection.
THEOREM PagesTypeOKAlways == PagesSpec => []PagesTypeOK
<1>1. PagesInv => PagesTypeOK
  <2> SUFFICES ASSUME PagesInv PROVE PagesTypeOK
    OBVIOUS
  <2>1. AgentTypes /\ PageTypes /\ call \in [Calls -> Requests \cup {Idle}]
    BY DEF PagesInv, TypesInv
  <2>2. <<page, at>> \in Routes \cup ({"edit"} \X Assets)
    BY <2>1 DEF PageTypes, OnRoute, Routes
  <2>3. seen.list \subseteq Assets /\ seen.copies \subseteq Copies /\ seen.policies \subseteq Policies
    BY <2>1 DEF PageTypes, Shots
  <2>4. \A c \in Calls : call[c] = Idle \/ call[c].op \in Queries \cup Commands \cup Batches
    BY <2>1 DEF Requests
  <2> QED
    BY <2>1, <2>2, <2>3, <2>4 DEF PagesTypeOK, AgentTypes, PageTypes, Abouts
<1> QED
  BY <1>1, PagesInvariant, PTL

\* A page that was told of all the agent's changes and whose requests are all
\* answered shows what the agent has, whatever was sent, answered late or
\* refused, and however often the user went from page to page meanwhile.
THEOREM PageAgreesAlways == PagesSpec => []PageAgrees
<1>1. PagesInv => PageAgrees
  <2> SUFFICES ASSUME PagesInv, page \in Fetching, ~broken, ~behind, \A c \in Calls : ~call[c].here
               PROVE  seen = Snapshot(page, at)
    BY DEF PageAgrees
  <2>1. \A c \in Calls : ~Renews(call[c])
    BY DEF Renews
  <2>2. Dropped = {}
    <3> SUFFICES ASSUME NEW c \in Calls, Drops(call[c]) PROVE FALSE
      BY DEF Dropped
    <3>1. Fits(call[c], page, busy, held)
      BY IdleOwes, Asked
    <3> QED
      BY <3>1 DEF Fits, Drops, Moving
  <2>3. Cut(seen, Dropped) = seen
    BY <2>2, CutShots DEF PagesInv, TypesInv, PageTypes
  <2> QED
    BY <2>1, <2>3 DEF PagesInv, SeenInv
<1> QED
  BY <1>1, PagesInvariant, PTL

\* Of the batches started on one visit of the assets page never two are under
\* way, however many requests there are.
THEOREM OneBatchAlways == PagesSpec => []OneBatch
<1>1. PagesInv => OneBatch
  <2> SUFFICES ASSUME PagesInv PROVE Cardinality(Here(Batches)) <= 1
    BY DEF OneBatch
  <2>1. CASE Here(Batches) = {}
    BY <2>1, FS_EmptySet
  <2>2. CASE Here(Batches) # {}
    <3>1. PICK c \in Here(Batches) : Here(Batches) = {c}
      BY <2>2 DEF PagesInv, BatchInv
    <3>2. Cardinality({c}) = 1
      BY FS_Singleton
    <3> QED
      BY <3>1, <3>2
  <2> QED
    BY <2>1, <2>2
<1> QED
  BY <1>1, PagesInvariant, PTL
=============================================================================
