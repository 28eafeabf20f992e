-------------------------- MODULE SlaPoliciesProofs --------------------------
(***************************************************************************)
(* Theorems about SlaPolicies for every set of policies and names and any  *)
(* number of dialogs and requests at once.                                 *)
(***************************************************************************)
EXTENDS SlaPolicies, TLAPS

-----------------------------------------------------------------------------
(* The inductive invariant                                                 *)

\* The row a handler is about to write.
Result(h) == IF h.op = "create" THEN h.new ELSE Merge(h.had, h.new)

\* A request is complete enough for its operation.
Complete(h) ==
    /\ h.op = "create" => h.new \in Full
    /\ h.op = "update" /\ h.step \in {"look", "write"} => h.had \in Row
    /\ h.step = "look" => h.new.name # None
    /\ h.op = "update" /\ h.step # "dialog" => h.wanted = Differs(h.shown, h.new)

\* What was read of a policy that no other request wrote since is its row.
UpToDate(h, rows) ==
    h.policy \notin h.since =>
        /\ h.shown # NoRow /\ h.step # "ok" => h.shown = rows[h.policy]
        /\ h.op = "update" /\ h.step \in {"look", "write"} => h.had = rows[h.policy]
        /\ h.step = "ok" => Differs(rows[h.policy], h.new) = {}

\* A handler that nothing was written past finds its name free.
NameFree(h, rows) ==
    h.since = {} =>
        /\ h.step = "write" =>
               \A q \in Policies \ {h.policy} : rows[q].name # Result(h).name
        /\ h.step = "failed" => h.new.kind \in OtherKinds \ Kinds

Sound(h, rows) == Complete(h) /\ UpToDate(h, rows) /\ NameFree(h, rows)

CallsSound == \A c \in Calls : call[c] # Idle => Sound(call[c], row)

SlaInv == SlaTypeOK /\ CallsSound

-----------------------------------------------------------------------------
(* Lemmas                                                                  *)

\* Fields that are left out keep what was read, so that the result is a row
\* of the right name, and differs from it only where a field was given.
LEMMA MergeRow ==
    ASSUME NEW old \in Row, NEW new \in Asked
    PROVE  /\ Merge(old, new) \in [name : Names, kind : Kinds \cup OtherKinds]
           /\ Merge(old, new).name = (IF new.name = None THEN old.name ELSE new.name)
           /\ Merge(old, new).kind = (IF new.kind = None THEN old.kind ELSE new.kind)
           /\ Differs(Merge(old, new), new) = {}
           /\ Differs(old, Merge(old, new)) = Differs(old, new)
<1> USE DEF Row, Asked
<1>1. /\ Merge(old, new) \in [name : Names, kind : Kinds \cup OtherKinds]
      /\ Merge(old, new).name = (IF new.name = None THEN old.name ELSE new.name)
      /\ Merge(old, new).kind = (IF new.kind = None THEN old.kind ELSE new.kind)
  BY DEF Merge
<1>2. None \notin Names \cup Kinds \cup OtherKinds
  BY PoliciesAssumption
<1>3. Differs(Merge(old, new), new) = {}
  BY <1>1 DEF Differs
<1>4. Differs(old, Merge(old, new)) = Differs(old, new)
  BY <1>1, <1>2 DEF Differs
<1> QED
  BY <1>1, <1>3, <1>4

\* Nothing differs from a request all of whose fields it has.
LEMMA DiffersSelf ==
    ASSUME NEW r PROVE Differs(r, r) = {}
BY DEF Differs

\* A step of one call that writes no row keeps the invariant if the call does.
LEMMA OneCall ==
    ASSUME SlaInv, NEW c \in Calls, NEW h, Go(c, h),
           h = Idle \/ (h \in Requests /\ Sound(h, row))
    PROVE  SlaInv'
<1>1. row' = row /\ call' = [call EXCEPT ![c] = h]
  BY DEF Go
<1>2. call' \in [Calls -> {Idle} \cup Requests]
  BY <1>1 DEF SlaInv, SlaTypeOK
<1>3. SlaTypeOK'
  BY <1>1, <1>2 DEF SlaInv, SlaTypeOK
<1>4. ASSUME NEW d \in Calls, call'[d] # Idle
      PROVE  Sound(call'[d], row')
  <2>1. CASE d = c
    <3>1. call'[d] = h
      BY <1>1, <2>1 DEF SlaInv, SlaTypeOK
    <3> QED
      BY <1>1, <1>4, <3>1
  <2>2. CASE d # c
    <3>1. call'[d] = call[d]
      BY <1>1, <2>2 DEF SlaInv, SlaTypeOK
    <3> QED
      BY <1>1, <1>4, <3>1 DEF SlaInv, CallsSound
  <2> QED
    BY <2>1, <2>2
<1> QED
  BY <1>3, <1>4 DEF SlaInv, CallsSound

\* A write of one policy leaves the requests of the others sound, and those
\* of the policy itself know that they were overtaken.
LEMMA Overtaken ==
    ASSUME NEW h \in Requests, NEW q \in Policies, NEW rows, NEW later,
           \A p \in Policies \ {q} : later[p] = rows[p],
           Sound(h, rows)
    PROVE  /\ [h EXCEPT !.since = @ \cup {q}] \in Requests
           /\ Sound([h EXCEPT !.since = @ \cup {q}], later)
<1> DEFINE g == [h EXCEPT !.since = @ \cup {q}]
<1>1. g \in Requests
  BY DEF Requests
<1>2. /\ g.since = h.since \cup {q} /\ g.op = h.op /\ g.step = h.step
      /\ g.policy = h.policy /\ g.new = h.new /\ g.shown = h.shown
      /\ g.had = h.had /\ g.wanted = h.wanted /\ h.policy \in Policies
  BY DEF Requests
<1> HIDE DEF g
<1>3. Complete(g)
  BY <1>2 DEF Sound, Complete
<1>4. UpToDate(g, later)
  <2>1. ASSUME g.policy \notin g.since
        PROVE  h.policy \notin h.since /\ later[h.policy] = rows[h.policy]
    BY <1>2, <2>1
  <2> QED
    BY <1>2, <2>1 DEF Sound, UpToDate
<1>5. NameFree(g, later)
  BY <1>2 DEF NameFree
<1> QED
  BY <1>1, <1>3, <1>4, <1>5 DEF Sound, g

\* Writing the row of one policy keeps the invariant when the call that
\* wrote it, if any, is sound with the new row, and the schema allows it.
LEMMA OneRow ==
    ASSUME SlaInv, NEW p \in Policies, NEW r \in Row \cup {NoRow}, NEW calls,
           row' = [row EXCEPT ![p] = r], call' = Changed(p, calls),
           r # NoRow => ~Taken(r.name, Policies \ {p}),
           \A c \in Calls : calls[c] # call[c] =>
               calls[c] \in Requests /\ Sound(calls[c], row')
    PROVE  SlaInv'
<1> USE DEF SlaInv
<1>1. row' \in [Policies -> Row \cup {NoRow}]
  BY DEF SlaTypeOK
<1>2. /\ \A q \in Policies \ {p} : row'[q] = row[q]
      /\ row'[p] = r
  BY DEF SlaTypeOK
<1>3. \A q \in Policies \ {p} : r # NoRow => row[q].name # r.name
  BY DEF Taken
<1>4. \A q \in Policies : row[q] # NoRow => row[q].name # None
  BY PoliciesAssumption DEF SlaTypeOK, Row
<1>5. ASSUME NEW q \in Policies, NEW s \in Policies, q # s, row'[q] # NoRow
      PROVE  row'[q].name # row'[s].name
  <2>1. CASE q # p /\ s # p
    BY <1>2, <1>5, <2>1 DEF SlaTypeOK
  <2>2. CASE q = p
    BY <1>2, <1>3, <1>5, <2>2
  <2>3. CASE s = p
    <3>1. row'[q] = row[q] /\ row'[s] = r
      BY <1>2, <1>5, <2>3
    <3>2. CASE r = NoRow
      BY <1>4, <1>5, <3>1, <3>2 DEF NoRow
    <3>3. CASE r # NoRow
      BY <1>3, <1>5, <2>3, <3>1, <3>3
    <3> QED
      BY <3>2, <3>3
  <2> QED
    BY <2>1, <2>2, <2>3
<1>6. ASSUME NEW c \in Calls
      PROVE  call'[c] = Idle \/ (call'[c] \in Requests /\ Sound(call'[c], row'))
  <2>0. call'[c] = IF call[c] = Idle \/ calls[c] # call[c] THEN calls[c]
                   ELSE [call[c] EXCEPT !.since = @ \cup {p}]
    BY DEF Changed
  <2>1. CASE calls[c] # call[c]
    BY <2>0, <2>1
  <2>2. CASE calls[c] = call[c] /\ call[c] = Idle
    BY <2>0, <2>2
  <2>3. CASE calls[c] = call[c] /\ call[c] # Idle
    <3>1. call[c] \in Requests /\ Sound(call[c], row)
      BY <2>3 DEF SlaTypeOK, CallsSound
    <3>2. \A q \in Policies \ {p} : row'[q] = row[q]
      BY <1>2
    <3>3. call'[c] = [call[c] EXCEPT !.since = @ \cup {p}]
      BY <2>0, <2>3
    <3>4. /\ [call[c] EXCEPT !.since = @ \cup {p}] \in Requests
          /\ Sound([call[c] EXCEPT !.since = @ \cup {p}], row')
      BY <3>1, <3>2, Overtaken
    <3> QED
      BY <3>3, <3>4
  <2> QED
    BY <2>1, <2>2, <2>3
<1>7. call' \in [Calls -> {Idle} \cup Requests]
  BY <1>6 DEF Changed
<1> QED
  BY <1>1, <1>5, <1>6, <1>7 DEF SlaTypeOK, CallsSound

-----------------------------------------------------------------------------
(* Requests and dialogs                                                    *)

\* Whatever begins has seen nothing but what its dialog was opened with.
LEMMA BeginKeeps ==
    ASSUME SlaInv, NEW c \in Calls, NEW p \in Policies, NEW op \in {"create", "update"},
           NEW step \in {"dialog", "start"}, NEW new \in Asked, NEW shown \in {NoRow, row[p]},
           NEW wanted \in SUBSET {"name", "kind"},
           Begin(c, op, step, p, new, shown, wanted),
           op = "create" => new \in Full,
           op = "update" /\ step # "dialog" => wanted = Differs(shown, new)
    PROVE  SlaInv'
<1> DEFINE h == [op |-> op, step |-> step, policy |-> p, new |-> new, shown |-> shown,
                 had |-> NoRow, wanted |-> wanted, since |-> {}]
<1>1. Go(c, h)
  BY DEF Begin, Go
<1>2. h \in Requests
  BY DEF Requests, SlaInv, SlaTypeOK
<1>3. Sound(h, row)
  <2>1. Complete(h)
    BY DEF Complete
  <2>2. UpToDate(h, row)
    BY DEF UpToDate
  <2>3. NameFree(h, row)
    BY DEF NameFree
  <2> QED
    BY <2>1, <2>2, <2>3 DEF Sound
<1> QED
  BY <1>1, <1>2, <1>3, OneCall

\* Differs names columns.
LEMMA DiffersColumns ==
    ASSUME NEW old, NEW new PROVE Differs(old, new) \in SUBSET {"name", "kind"}
BY DEF Differs

\* Every request begins sound.
LEMMA ClientKeeps ==
    ASSUME SlaInv, NEW c \in Calls, NEW p \in Policies, NEW new \in Asked,
           PostPolicy(c, p, new) \/ PutPolicy(c, p, new) \/ OpenDialog(c, p)
    PROVE  SlaInv'
<1>1. CASE PostPolicy(c, p, new)
  BY <1>1, BeginKeeps DEF PostPolicy
<1>2. CASE PutPolicy(c, p, new)
  BY <1>2, BeginKeeps, DiffersColumns DEF PutPolicy
<1>3. CASE OpenDialog(c, p)
  <2>1. NoRow \in Asked
    BY DEF NoRow, Asked
  <2> QED
    BY <1>3, <2>1, BeginKeeps DEF OpenDialog
<1> QED
  BY <1>1, <1>2, <1>3

\* A dialog is saved with what its user has changed, the first time or again.
LEMMA SaveKeeps ==
    ASSUME SlaInv, NEW c \in Calls, NEW new \in Asked, SaveDialog(c, new)
    PROVE  SlaInv'
<1> DEFINE h == call[c]
           g == [h EXCEPT !.step = "start", !.new = new, !.had = NoRow,
                          !.wanted = Differs(h.shown, new)]
<1>1. h \in Requests /\ Sound(h, row)
  <2>1. h # Idle
    BY DEF SaveDialog, Idle
  <2> QED
    BY <2>1 DEF SlaInv, SlaTypeOK, CallsSound
<1>2. /\ g \in Requests /\ g.op = h.op /\ g.step = "start" /\ g.new = new
      /\ g.policy = h.policy /\ g.shown = h.shown /\ g.since = h.since
      /\ g.wanted = Differs(h.shown, new)
  BY <1>1, DiffersColumns DEF Requests
<1>3. new \in Full /\ Go(c, g) /\ h.step # "ok"
  BY DEF SaveDialog
<1> HIDE DEF h, g
<1>4. Sound(g, row)
  BY <1>1, <1>2, <1>3 DEF Sound, Complete, UpToDate, NameFree
<1> QED
  BY <1>2, <1>3, <1>4, OneCall DEF g, h

-----------------------------------------------------------------------------
(* Handlers                                                                *)

\* LookUpName and LookUpNewName let a handler write only when no row has its
\* name.
LEMMA LookUpKeeps ==
    ASSUME SlaInv, NEW c \in Calls, LookUpName(c) \/ LookUpNewName(c)
    PROVE  SlaInv'
<1> DEFINE h == call[c]
           s == IF Taken(h.new.name, Policies) THEN "refused" ELSE "write"
           g == [h EXCEPT !.step = s]
<1>1. /\ Go(c, g)
      /\ (h.op = "create" /\ h.step = "start") \/ (h.op = "update" /\ h.step = "look")
  BY DEF LookUpName, LookUpNewName, At
<1>2. h # Idle
  BY <1>1 DEF Idle
<1>3. h \in Requests /\ Sound(h, row)
  BY <1>2 DEF SlaInv, SlaTypeOK, CallsSound
<1>4. s \in {"refused", "write"}
  OBVIOUS
<1>5. /\ g \in Requests /\ g.op = h.op /\ g.step = s /\ g.policy = h.policy
      /\ g.new = h.new /\ g.shown = h.shown /\ g.had = h.had
      /\ g.wanted = h.wanted /\ g.since = h.since
  BY <1>3, <1>4 DEF Requests, Answers
<1>6. s = "write" => \A q \in Policies : row[q].name # h.new.name
  BY DEF Taken
<1>7. h.new \in Asked
  BY <1>3 DEF Requests
<1> HIDE DEF g, s
<1>8. Complete(g)
  BY <1>1, <1>3, <1>4, <1>5 DEF Sound, Complete
<1>9. UpToDate(g, row)
  BY <1>1, <1>3, <1>4, <1>5 DEF Sound, UpToDate
<1>10. NameFree(g, row)
  <2>1. CASE h.op = "create"
    BY <1>4, <1>5, <1>6, <2>1 DEF NameFree, Result
  <2>2. CASE h.op = "update" /\ h.step = "look"
    <3>1. Merge(h.had, h.new).name = h.new.name
      BY <1>3, <1>7, <2>2, MergeRow DEF Sound, Complete
    <3> QED
      BY <1>4, <1>5, <1>6, <2>2, <3>1 DEF NameFree, Result
  <2> QED
    BY <1>1, <2>1, <2>2
<1>11. g = [call[c] EXCEPT !.step = s]
  BY DEF g
<1> QED
  BY <1>1, <1>5, <1>8, <1>9, <1>10, OneCall DEF Sound

\* ReadPolicy goes on to write only with the name the policy has.
LEMMA ReadKeeps ==
    ASSUME SlaInv, NEW c \in Calls, ReadPolicy(c)
    PROVE  SlaInv'
<1> DEFINE h == call[c]
           old == row[h.policy]
           s == CASE old = NoRow -> "refused"
                  [] old # NoRow /\ "name" \in Differs(old, h.new) -> "look"
                  [] OTHER -> "write"
           g == [h EXCEPT !.had = old, !.step = s]
<1>1. Go(c, g) /\ h.op = "update" /\ h.step = "start"
  BY DEF ReadPolicy, At
<1>2. h \in Requests /\ Sound(h, row)
  <2>1. h # Idle
    BY <1>1 DEF Idle
  <2> QED
    BY <2>1 DEF SlaInv, SlaTypeOK, CallsSound
<1>3. h.policy \in Policies /\ h.new \in Asked /\ old \in Row \cup {NoRow}
  BY <1>2 DEF Requests, SlaInv, SlaTypeOK
<1>4. /\ s \in {"refused", "look", "write"}
      /\ s = "refused" <=> old = NoRow
      /\ s = "look" => "name" \in Differs(old, h.new)
      /\ s = "write" => "name" \notin Differs(old, h.new)
  <2> HIDE DEF old
  <2>1. CASE old = NoRow
    <3>1. s = "refused"
      BY <2>1
    <3> QED
      BY <2>1, <3>1
  <2>2. CASE old # NoRow /\ "name" \in Differs(old, h.new)
    <3>1. s = "look"
      BY <2>2
    <3> QED
      BY <2>2, <3>1
  <2>3. CASE old # NoRow /\ "name" \notin Differs(old, h.new)
    <3>1. s = "write"
      BY <2>3
    <3> QED
      BY <2>3, <3>1
  <2> QED
    BY <2>1, <2>2, <2>3
<1>5. /\ g \in Requests /\ g.op = h.op /\ g.step = s /\ g.policy = h.policy
      /\ g.new = h.new /\ g.shown = h.shown /\ g.had = old
      /\ g.wanted = h.wanted /\ g.since = h.since
  <2> HIDE DEF s, old
  <2> QED
    BY <1>2, <1>3, <1>4 DEF Requests, Answers
<1> HIDE DEF g, s, old
<1>6. Complete(g)
  <2>1. s = "look" => h.new.name # None
    BY <1>4 DEF Differs
  <2> QED
    BY <1>1, <1>2, <1>3, <1>4, <1>5, <2>1 DEF Sound, Complete
<1>7. UpToDate(g, row)
  BY <1>1, <1>2, <1>4, <1>5 DEF Sound, UpToDate, old
<1>8. NameFree(g, row)
  <2>1. ASSUME s = "write", NEW q \in Policies \ {h.policy}
        PROVE  row[q].name # Merge(old, h.new).name
    <3>1. old \in Row /\ h.new.name \in {None, old.name}
      BY <1>3, <1>4, <2>1 DEF Differs
    <3>2. Merge(old, h.new).name = old.name
      BY <1>3, <3>1, MergeRow
    <3>3. old # NoRow
      BY <1>4, <2>1
    <3>4. row[h.policy].name # row[q].name
      BY <1>3, <3>3 DEF SlaInv, SlaTypeOK, old
    <3> QED
      BY <3>2, <3>4 DEF old
  <2> QED
    BY <1>1, <1>4, <1>5, <2>1 DEF NameFree, Result
<1> QED
  BY <1>1, <1>5, <1>6, <1>7, <1>8, OneCall DEF Sound

\* A policy is stored as its handler means it, or the handler fails; if
\* nothing was written past it, only for a kind the schema does not know.
LEMMA StoreKeeps ==
    ASSUME SlaInv, NEW c \in Calls, call[c].step = "write",
           call[c].op \in {"create", "update"},
           Store(c, call[c].policy, Result(call[c]))
    PROVE  SlaInv'
<1> DEFINE h == call[c]
           r == Result(h)
           ok == [h EXCEPT !.step = "ok"]
           no == [h EXCEPT !.step = "failed"]
<1>1. h \in Requests /\ Sound(h, row) /\ h.policy \in Policies /\ h.new \in Asked
  <2>1. h # Idle
    BY DEF Idle
  <2> QED
    BY <2>1 DEF SlaInv, SlaTypeOK, CallsSound, Requests
<1>2. /\ r \in [name : Names, kind : Kinds \cup OtherKinds]
      /\ Differs(r, h.new) = {}
      /\ r.kind \notin Kinds => h.new.kind \in OtherKinds \ Kinds
  <2>1. CASE h.op = "create"
    <3>1. r = h.new /\ h.new \in Full
      BY <1>1, <2>1 DEF Result, Sound, Complete
    <3> QED
      BY <3>1, DiffersSelf DEF Full, Asked
  <2>2. CASE h.op = "update"
    <3>1. r = Merge(h.had, h.new) /\ h.had \in Row
      BY <1>1, <2>2 DEF Result, Sound, Complete
    <3> QED
      BY <1>1, <3>1, MergeRow DEF Row, Asked
  <2> QED
    BY <2>1, <2>2
<1> HIDE DEF r
<1>3. /\ ok \in Requests /\ ok.op = h.op /\ ok.step = "ok" /\ ok.policy = h.policy
      /\ ok.new = h.new /\ ok.shown = h.shown /\ ok.had = h.had
      /\ ok.wanted = h.wanted /\ ok.since = h.since
  BY <1>1 DEF Requests, Answers
<1>4. /\ no \in Requests /\ no.op = h.op /\ no.step = "failed" /\ no.policy = h.policy
      /\ no.new = h.new /\ no.shown = h.shown /\ no.had = h.had
      /\ no.wanted = h.wanted /\ no.since = h.since
  BY <1>1 DEF Requests, Answers
<1>5. CASE Admits(h.policy, r)
  <2>1. r \in Row /\ ~Taken(r.name, Policies \ {h.policy})
    BY <1>2, <1>5 DEF Admits, Row
  <2>2. /\ row' = [row EXCEPT ![h.policy] = r]
        /\ call' = Changed(h.policy, Answer(c, "ok"))
    BY <1>5 DEF Store, r
  <2>3. row'[h.policy] = r
    BY <1>1, <2>2 DEF SlaInv, SlaTypeOK
  <2>4. /\ Answer(c, "ok")[c] = ok
        /\ \A d \in Calls \ {c} : Answer(c, "ok")[d] = call[d]
    BY DEF SlaInv, SlaTypeOK, Answer
  <2>5. UpToDate(ok, row')
    BY <1>1, <1>2, <1>3, <2>3 DEF Sound, UpToDate
  <2>6. Complete(ok) /\ NameFree(ok, row')
    BY <1>1, <1>3 DEF Sound, Complete, NameFree
  <2>7. \A d \in Calls : Answer(c, "ok")[d] # call[d] =>
            Answer(c, "ok")[d] \in Requests /\ Sound(Answer(c, "ok")[d], row')
    BY <1>3, <2>4, <2>5, <2>6 DEF Sound
  <2> QED
    BY <1>1, <2>1, <2>2, <2>7, OneRow
<1>6. CASE ~Admits(h.policy, r)
  <2>1. Go(c, no)
    BY <1>6 DEF Store, Go, Answer, r
  <2>2. h.since = {} => h.new.kind \in OtherKinds \ Kinds
    BY <1>1, <1>2, <1>6 DEF Admits, Taken, Sound, NameFree, r
  <2>3. Complete(no) /\ UpToDate(no, row) /\ NameFree(no, row)
    BY <1>1, <1>4, <2>2 DEF Sound, Complete, UpToDate, NameFree
  <2> QED
    BY <1>4, <2>1, <2>3, OneCall DEF Sound
<1> QED
  BY <1>5, <1>6

LEMMA WriteKeeps ==
    ASSUME SlaInv, NEW c \in Calls, InsertPolicy(c) \/ UpdatePolicy(c)
    PROVE  SlaInv'
<1>1. CASE InsertPolicy(c)
  BY <1>1, StoreKeeps DEF InsertPolicy, At, Result
<1>2. CASE UpdatePolicy(c)
  <2>1. CASE row[call[c].policy] # NoRow
    BY <1>2, <2>1, StoreKeeps DEF UpdatePolicy, At, Result
  <2>2. CASE row[call[c].policy] = NoRow
    <3> DEFINE h == call[c]
               g == [h EXCEPT !.step = "ok"]
    <3>1. Go(c, g) /\ h.op = "update" /\ h.step = "write"
      BY <1>2, <2>2 DEF UpdatePolicy, At, Go, Answer
    <3>2. h \in Requests /\ Sound(h, row)
      <4>1. h # Idle
        BY <3>1 DEF Idle
      <4> QED
        BY <4>1 DEF SlaInv, SlaTypeOK, CallsSound
    <3>3. /\ g \in Requests /\ g.op = h.op /\ g.step = "ok" /\ g.policy = h.policy
          /\ g.new = h.new /\ g.shown = h.shown /\ g.had = h.had
          /\ g.wanted = h.wanted /\ g.since = h.since
      BY <3>2 DEF Requests, Answers
    <3>4. h.policy \in h.since
      <4>1. NoRow \notin Row
        BY PoliciesAssumption DEF NoRow, Row
      <4> QED
        BY <2>2, <3>1, <3>2, <4>1 DEF Sound, Complete, UpToDate
    <3> HIDE DEF g
    <3>5. Complete(g) /\ UpToDate(g, row) /\ NameFree(g, row)
      BY <3>1, <3>2, <3>3, <3>4 DEF Sound, Complete, UpToDate, NameFree
    <3> QED
      BY <3>1, <3>3, <3>5, OneCall DEF Sound
  <2> QED
    BY <2>1, <2>2
<1> QED
  BY <1>1, <1>2

LEMMA DeleteKeeps ==
    ASSUME SlaInv, NEW p \in Policies, DeletePolicy(p)
    PROVE  SlaInv'
BY OneRow DEF DeletePolicy

-----------------------------------------------------------------------------
(* Theorems                                                                *)

\* The invariant holds at the start: no call is in flight.
LEMMA InitSound == SlaInit => SlaInv
<1> SUFFICES ASSUME SlaInit PROVE SlaInv
  OBVIOUS
<1>1. \A p, q \in Policies : p # q /\ row[p] # NoRow => row[p].name # row[q].name
  <2>1. ASSUME NEW p \in Policies, NEW q \in Policies, p # q, row[p] # NoRow,
               row[q] = NoRow
        PROVE  row[p].name # row[q].name
    BY <2>1, PoliciesAssumption DEF SlaInit, Row, NoRow
  <2> QED
    BY <2>1 DEF SlaInit
<1>2. \A c \in Calls : call[c] = Idle
  BY DEF SlaInit
<1>3. call \in [Calls -> {Idle} \cup Requests]
  BY DEF SlaInit
<1> QED
  BY <1>1, <1>2, <1>3 DEF SlaInit, SlaInv, SlaTypeOK, CallsSound

\* Every step keeps the invariant.
LEMMA NextSound == SlaInv /\ [SlaNext]_policyVars => SlaInv'
<1> SUFFICES ASSUME SlaInv, [SlaNext]_policyVars PROVE SlaInv'
  OBVIOUS
<1>1. CASE UNCHANGED policyVars
  BY <1>1 DEF policyVars, SlaInv, SlaTypeOK, CallsSound, Sound, Complete, UpToDate,
              NameFree, Result
<1>2. ASSUME NEW c \in Calls, NEW p \in Policies, NEW new \in Asked,
             PostPolicy(c, p, new) \/ PutPolicy(c, p, new)
      PROVE  SlaInv'
  BY <1>2, ClientKeeps
<1>3. ASSUME NEW c \in Calls, NEW p \in Policies, OpenDialog(c, p)
      PROVE  SlaInv'
  <2>1. NoRow \in Asked
    BY DEF NoRow, Asked
  <2> QED
    BY <1>3, <2>1, ClientKeeps
<1>4. ASSUME NEW c \in Calls, Close(c) PROVE SlaInv'
  BY <1>4, OneCall DEF Close
<1>5. ASSUME NEW c \in Calls, NEW new \in Asked, SaveDialog(c, new)
      PROVE  SlaInv'
  BY <1>5, SaveKeeps
<1>6. ASSUME NEW c \in Calls,
             LookUpName(c) \/ InsertPolicy(c) \/ ReadPolicy(c) \/ LookUpNewName(c)
             \/ UpdatePolicy(c)
      PROVE  SlaInv'
  BY <1>6, LookUpKeeps, ReadKeeps, WriteKeeps
<1>7. ASSUME NEW p \in Policies, DeletePolicy(p) PROVE SlaInv'
  BY <1>7, DeleteKeeps
<1> QED
  BY <1>1, <1>2, <1>3, <1>4, <1>5, <1>6, <1>7 DEF SlaNext

\* In every reachable state the rows are as the schema wants them and every
\* request is sound.
THEOREM SlaInvariant == SlaSpec => []SlaInv
BY InitSound, NextSound, PTL DEF SlaSpec

\* Types, the schema's CHECK and its UNIQUE name.
THEOREM SlaTypeOKAlways == SlaSpec => []SlaTypeOK
<1>1. SlaInv => SlaTypeOK
  BY DEF SlaInv
<1> QED
  BY <1>1, SlaInvariant, PTL

\* A save fails in the database only for an unknown kind or when it was raced.
THEOREM FailsOnlyIfRacedAlways == SlaSpec => []FailsOnlyIfRaced
<1>1. SlaInv => FailsOnlyIfRaced
  BY DEF SlaInv, CallsSound, Sound, NameFree, FailsOnlyIfRaced, Idle
<1> QED
  BY <1>1, SlaInvariant, PTL

\* What was answered with success is what is stored.
THEOREM AnsweredIsStoredAlways == SlaSpec => []AnsweredIsStored
<1>1. SlaInv => AnsweredIsStored
  BY DEF SlaInv, CallsSound, Sound, UpToDate, AnsweredIsStored, Idle
<1> QED
  BY <1>1, SlaInvariant, PTL

\* An update that was not overtaken changes only what it was asked to change.
LEMMA UpdateWanted ==
    ASSUME SlaInv, NEW c \in Calls, UpdatePolicy(c), call[c].policy \notin call[c].since
    PROVE  Differs(row[call[c].policy], row'[call[c].policy]) \subseteq call[c].wanted
<1> DEFINE h == call[c]
           old == row[h.policy]
<1>1. h.op = "update" /\ h.step = "write"
  BY DEF UpdatePolicy, At
<1>2. h \in Requests /\ Sound(h, row)
  <2>1. h # Idle
    BY <1>1 DEF Idle
  <2> QED
    BY <2>1 DEF SlaInv, SlaTypeOK, CallsSound
<1>3. /\ h.policy \in Policies /\ h.new \in Asked
      /\ h.had = old /\ old \in Row /\ h.wanted = Differs(h.shown, h.new)
      /\ h.shown = NoRow \/ h.shown = old
  BY <1>1, <1>2 DEF Requests, Sound, Complete, UpToDate
<1>4. row'[h.policy] \in {old, Merge(old, h.new)}
  BY <1>3 DEF UpdatePolicy, Store, SlaInv, SlaTypeOK
<1>5. Differs(old, h.new) \subseteq h.wanted
  BY <1>3 DEF Differs, NoRow
<1>6. CASE row'[h.policy] = old
  BY <1>6, DiffersSelf
<1>7. CASE row'[h.policy] = Merge(old, h.new)
  BY <1>3, <1>5, <1>7, MergeRow
<1> QED
  BY <1>4, <1>6, <1>7

THEOREM UpdateChangesOnlyWantedAlways == SlaSpec => UpdateChangesOnlyWanted
<1> DEFINE Wanted == \A c \in Calls :
               UpdatePolicy(c) /\ call[c].policy \notin call[c].since =>
               Differs(row[call[c].policy], row'[call[c].policy]) \subseteq call[c].wanted
<1>1. SlaInv => Wanted
  BY UpdateWanted
<1>2. SlaInv => [Wanted]_policyVars
  BY <1>1
<1>3. SlaSpec => [][Wanted]_policyVars
  <2> HIDE DEF Wanted
  <2> QED
    BY <1>2, SlaInvariant, PTL
<1> QED
  BY <1>3 DEF UpdateChangesOnlyWanted
=============================================================================
