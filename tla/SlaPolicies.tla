----------------------------- MODULE SlaPolicies -----------------------------
(***************************************************************************)
(* The rows of sla_policies under POST and PUT of api/slas.rs and the      *)
(* dialogs of pages/SLAPolicies.tsx.  A handler looks names up in one      *)
(* database call and writes in another; update_policy writes every column, *)
(* those it was not asked for as it has read them; the edit dialog asks    *)
(* for all of them, those its user left alone as they were when it opened. *)
(* Of the columns, the name (UNIQUE) and the retention kind (CHECK) are    *)
(* kept: one that the handlers look at, and one that they do not.          *)
(* Who may delete a policy is told in Protection.                          *)
(***************************************************************************)
EXTENDS FiniteSets

CONSTANTS
    Policies, Builtin,  \* identifiers, those of the seeded policies
    Names,
    Kinds,              \* the retention kinds the schema admits
    OtherKinds,         \* one the dialogs offer besides ("by_days")
    Calls,              \* bound: dialogs and requests at once
    None

ASSUME PoliciesAssumption ==
    Builtin \subseteq Policies /\ None \notin Names \cup Kinds \cup OtherKinds

VARIABLES
    row,    \* sla_policies; NoRow for an identifier without a row
    call    \* dialogs that are open and handlers in flight

policyVars == <<row, call>>

Row   == [name : Names, kind : Kinds]
NoRow == [name |-> None, kind |-> None]
Idle  == [step |-> "idle"]
Answers == {"ok", "refused", "failed"}      \* 200; 404 or 409; 500

\* What a request asks for; None stands for a field it leaves out.
Asked == [name : Names \cup {None}, kind : Kinds \cup OtherKinds \cup {None}]
Full  == {new \in Asked : new.name # None /\ new.kind # None}

Taken(n, others) == \E q \in others : row[q].name = n
Admits(p, r)     == r.kind \in Kinds /\ ~Taken(r.name, Policies \ {p})

SlaInit ==
    /\ row \in [Policies -> Row \cup {NoRow}]
    /\ \A p \in Policies : row[p] # NoRow <=> p \in Builtin
    /\ \A p, q \in Builtin : p # q => row[p].name # row[q].name
    /\ call = [c \in Calls |-> Idle]

-----------------------------------------------------------------------------
(* Requests and dialogs.  "shown" is the row the dialog was opened with,   *)
(* "had" the one the handler has read, "wanted" the columns to be changed, *)
(* "since" a history: the policies others have written since the request   *)
(* came or its dialog was opened.                                          *)

Begin(c, op, step, p, new, shown, wanted) ==
    /\ call[c] = Idle
    /\ call' = [call EXCEPT ![c] = [op |-> op, step |-> step, policy |-> p, new |-> new,
                                    shown |-> shown, had |-> NoRow, wanted |-> wanted,
                                    since |-> {}]]
    /\ UNCHANGED row

Differs(old, new) ==
    {f \in {"name"} : new.name \notin {None, old.name}} \cup
    {f \in {"kind"} : new.kind \notin {None, old.kind}}

\* The dialog sends every field; a name left empty is made up by the agent.
\* The identifier is fresh.
PostPolicy(c, p, new) ==
    /\ row[p] = NoRow /\ new \in Full
    /\ \A d \in Calls : call[d] # Idle => call[d].policy # p
    /\ Begin(c, "create", "start", p, new, NoRow, {"name", "kind"})

\* Any field of a request may be left out.
PutPolicy(c, p, new) ==
    /\ row[p] # NoRow
    /\ Begin(c, "update", "start", p, new, NoRow, Differs(NoRow, new))

\* The list the dialog is opened from is loaded then or before: until it is
\* saved the dialog shows what it was opened with.
OpenDialog(c, p) ==
    /\ row[p] # NoRow
    /\ Begin(c, "update", "dialog", p, NoRow, row[p], {})

Go(c, r) == call' = [call EXCEPT ![c] = r] /\ UNCHANGED row

\* A save that goes wrong leaves the dialog open.
SaveDialog(c, new) ==
    /\ call[c].step \in {"dialog", "refused", "failed"} /\ call[c].shown # NoRow
    /\ new \in Full
    /\ Go(c, [call[c] EXCEPT !.step = "start", !.new = new, !.had = NoRow,
                             !.wanted = Differs(call[c].shown, new)])

Close(c) == call[c].step \in Answers \cup {"dialog"} /\ Go(c, Idle)

-----------------------------------------------------------------------------
(* The handlers                                                            *)

At(c, op, step) == call[c].step = step /\ call[c].op = op

LookUpName(c) ==
    /\ At(c, "create", "start")
    /\ Go(c, [call[c] EXCEPT !.step = IF Taken(call[c].new.name, Policies)
                                      THEN "refused" ELSE "write"])

\* Mutant of ReadPolicy: a new name is not looked up.
ReadPolicyOnly(c) ==
    /\ At(c, "update", "start")
    /\ LET old == row[call[c].policy]
       IN  Go(c, [call[c] EXCEPT !.had = old,
                                 !.step = IF old = NoRow THEN "refused" ELSE "write"])

ReadPolicy(c) ==
    /\ At(c, "update", "start")
    /\ LET old == row[call[c].policy]
           step == CASE old = NoRow -> "refused"
                     [] old # NoRow /\ "name" \in Differs(old, call[c].new) -> "look"
                     [] OTHER -> "write"
       IN  Go(c, [call[c] EXCEPT !.had = old, !.step = step])

LookUpNewName(c) ==
    /\ At(c, "update", "look")
    /\ Go(c, [call[c] EXCEPT !.step = IF Taken(call[c].new.name, Policies)
                                      THEN "refused" ELSE "write"])

\* history: what the others have seen of policy p is out of date.
Answer(c, step)   == [call EXCEPT ![c].step = step]
Changed(p, calls) == [c \in Calls |-> IF call[c] = Idle \/ calls[c] # call[c] THEN calls[c]
                                      ELSE [call[c] EXCEPT !.since = @ \cup {p}]]

\* The row as the schema lets it be written, or an error.
Store(c, p, r) ==
    IF Admits(p, r)
    THEN row' = [row EXCEPT ![p] = r] /\ call' = Changed(p, Answer(c, "ok"))
    ELSE call' = Answer(c, "failed") /\ UNCHANGED row

\* Mutant of InsertPolicy: the columns go unchecked.
InsertPolicyUnchecked(c) ==
    /\ At(c, "create", "write")
    /\ row' = [row EXCEPT ![call[c].policy] = call[c].new]
    /\ call' = Changed(call[c].policy, Answer(c, "ok"))

InsertPolicy(c) == At(c, "create", "write") /\ Store(c, call[c].policy, call[c].new)

\* Mutants of Merge: a field that is left out gets its default; the name
\* cannot be changed.
MergeDefault(old, new) ==
    [name |-> IF new.name = None THEN old.name ELSE new.name,
     kind |-> IF new.kind = None THEN CHOOSE k \in Kinds : TRUE ELSE new.kind]
MergeKindOnly(old, new) ==
    [name |-> old.name,
     kind |-> IF new.kind = None THEN old.kind ELSE new.kind]

\* What was left out stays as it was read.
Merge(old, new) ==
    [name |-> IF new.name = None THEN old.name ELSE new.name,
     kind |-> IF new.kind = None THEN old.kind ELSE new.kind]

\* An UPDATE of a row that was deleted meanwhile changes nothing, and is
\* answered like any other.
UpdatePolicy(c) ==
    /\ At(c, "update", "write")
    /\ IF row[call[c].policy] = NoRow
       THEN call' = Answer(c, "ok") /\ UNCHANGED row
       ELSE Store(c, call[c].policy, Merge(call[c].had, call[c].new))

DeletePolicy(p) ==
    /\ p \notin Builtin /\ row[p] # NoRow
    /\ row' = [row EXCEPT ![p] = NoRow]
    /\ call' = Changed(p, call)

SlaNext ==
    \/ \E c \in Calls, p \in Policies :
           \/ \E new \in Asked : PostPolicy(c, p, new) \/ PutPolicy(c, p, new)
           \/ OpenDialog(c, p)
    \/ \E c \in Calls : \/ \E new \in Asked : SaveDialog(c, new)
                        \/ Close(c)
                        \/ LookUpName(c) \/ InsertPolicy(c)
                        \/ ReadPolicy(c) \/ LookUpNewName(c) \/ UpdatePolicy(c)
    \/ \E p \in Policies : DeletePolicy(p)

SlaSpec == SlaInit /\ [][SlaNext]_policyVars

-----------------------------------------------------------------------------
(* Properties                                                              *)

Requests ==
    [op : {"create", "update"}, step : {"dialog", "start", "look", "write"} \cup Answers,
     policy : Policies, new : Asked, shown : Row \cup {NoRow}, had : Row \cup {NoRow},
     wanted : SUBSET {"name", "kind"}, since : SUBSET Policies]

\* Every variable keeps its type: rows are as the schema wants them, and no
\* two have one name.
SlaTypeOK ==
    /\ row \in [Policies -> Row \cup {NoRow}]
    /\ \A p, q \in Policies : p # q /\ row[p] # NoRow => row[p].name # row[q].name
    /\ call \in [Calls -> {Idle} \cup Requests]

\* The handlers' own look-ups leave the schema nothing to refuse but a kind it
\* does not know, or a name that another request has taken since.
FailsOnlyIfRaced ==
    \A c \in Calls : call[c].step = "failed" =>
        call[c].new.kind \in OtherKinds \ Kinds \/ call[c].since # {}

\* A save that is answered with success is what is stored, until another
\* request writes the policy.
AnsweredIsStored ==
    \A c \in Calls : call[c].step = "ok" =>
        \/ call[c].policy \in call[c].since
        \/ Differs(row[call[c].policy], call[c].new) = {}

\* An update changes no column its user or client has not changed, although it
\* writes all of them, unless another request wrote the policy since it was
\* read: by the handler, or by the dialog when it was opened.
UpdateChangesOnlyWanted ==
    [][\A c \in Calls : UpdatePolicy(c) /\ call[c].policy \notin call[c].since =>
           Differs(row[call[c].policy], row'[call[c].policy]) \subseteq call[c].wanted]_policyVars
=============================================================================
