---------------------------------- MODULE Forms ----------------------------------
(***************************************************************************)
(* The forms of an asset: the wizard of pages/NewAsset.tsx, the form of    *)
(* pages/EditAsset.tsx, and the dialog of components/PathPicker.tsx that   *)
(* both open to choose a directory.  The wizard writes the fields into a   *)
(* configuration, a share's into a url; the edit form reads them back from *)
(* what is stored.  A username and password are one login here, a uid and  *)
(* gid one owner; a path is the sequence of its segments, and of a form    *)
(* only the fields of the chosen kind are kept.                            *)
(***************************************************************************)
EXTENDS Naturals, Sequences, Filters

CONSTANTS
    Tree,       \* the directories of this machine, that browse_local lists
    MaxPaths,   \* bound: backup paths of an asset
    MaxDepth,   \* bound: segments of a path on a share
    Loads,      \* bound: loads of the path picker at once
    None

Parent(d) == SubSeq(d, 1, Len(d) - 1)

ASSUME FormsAssumption ==
    /\ MaxPaths \in Nat \ {0}
    /\ None \notin Tree \cup {"new", "edit"}
    /\ Tree \subseteq Seq(STRING) /\ <<>> \in Tree /\ \A d \in Tree \ {<<>>} : Parent(d) \in Tree

Kinds == {"fileset", "volume", "nas_share"}

VARIABLES
    page,       \* "new", "edit", or neither
    step,       \* of the wizard: 0 the type, 1 the configuration
    form,       \* the fields
    stored,     \* the agent's asset: its configuration
    picker,     \* the path picker
    loads,      \* the directories it is loading
    crossed     \* history: two of its loads were under way at once

formVars   == <<page, step, form, stored>>
pickerVars == <<picker, loads, crossed>>

-----------------------------------------------------------------------------
(* Fields and configurations                                               *)

Ports   == {"", "445", "2049", "8000"}
Exports == {<<>>, <<"export">>, <<"export", "data">>}

Blank(k) ==
    CASE k = "fileset"   -> [kind |-> k, name |-> FALSE, paths |-> <<None>>, quiesce |-> FALSE]
      [] k = "volume"    -> [kind |-> k, name |-> FALSE, backend |-> "btrfs", id |-> ""]
      [] k = "nas_share" -> [kind |-> k, name |-> FALSE, protocol |-> "smb", host |-> "", port |-> "",
                             share |-> "", export |-> <<>>, sub |-> <<>>, login |-> "", owner |-> "0"]

\* The values that the fields take.
Values ==
    [quiesce  |-> BOOLEAN, backend |-> {"btrfs", "lvm", "zfs"}, id |-> {"", "pool"},
     protocol |-> {"smb", "nfs"}, host |-> {"", "nas"}, port |-> Ports, share |-> {"", "share"},
     export   |-> Exports, sub |-> {<<>>, <<"data">>}, login |-> {"", "user"}, owner |-> {"0", "33"}]

\* The url of a share; the default port is left out.
Url(f) ==
    IF f.protocol = "smb"
    THEN [protocol |-> "smb", host |-> f.host, port |-> IF f.port = "445" THEN "" ELSE f.port,
          share |-> f.share, path |-> f.sub, login |-> f.login, owner |-> "0"]
    ELSE [protocol |-> "nfs", host |-> f.host, port |-> IF f.port = "2049" THEN "" ELSE f.port,
          share |-> "", path |-> f.export \o f.sub, login |-> "", owner |-> f.owner]

Filled(p) == Keep(p, Tree)

BuildConfig(f) ==
    CASE f.kind = "fileset"   -> [kind |-> f.kind, paths |-> Filled(f.paths), quiesce |-> f.quiesce]
      [] f.kind = "volume"    -> [kind |-> f.kind, backend |-> f.backend, id |-> f.id]
      [] f.kind = "nas_share" -> [kind |-> f.kind, url |-> Url(f)]

\* The export is the first segment of a path; the subpath is what follows.
Top(p)   == IF p = <<>> THEN <<>> ELSE <<Head(p)>>
Below(p) == IF p = <<>> THEN <<>> ELSE Tail(p)

\* Mutant of ParseUrl: what follows the first segment of an nfs path is dropped.
ParseUrlFirst(u) ==
    IF u.protocol = "smb"
    THEN [Blank("nas_share") EXCEPT
            !.protocol = "smb", !.host = u.host, !.port = u.port, !.share = u.share, !.sub = u.path,
            !.login = IF u.path = <<>> THEN u.login ELSE ""]
    ELSE [Blank("nas_share") EXCEPT
            !.protocol = "nfs", !.host = u.host, !.port = u.port, !.owner = u.owner,
            !.export = Top(u.path)]

\* The login is read only from a url without a path below the share.
ParseUrl(u) ==
    IF u.protocol = "smb"
    THEN [Blank("nas_share") EXCEPT
            !.protocol = "smb", !.host = u.host, !.port = u.port, !.share = u.share, !.sub = u.path,
            !.login = IF u.path = <<>> THEN u.login ELSE ""]
    ELSE [Blank("nas_share") EXCEPT
            !.protocol = "nfs", !.host = u.host, !.port = u.port, !.owner = u.owner,
            !.export = Top(u.path), !.sub = Below(u.path)]

PopulateConfig(c) ==
    CASE c.kind = "fileset"   -> [Blank(c.kind) EXCEPT !.name = TRUE, !.quiesce = c.quiesce,
                                    !.paths = IF c.paths = <<>> THEN <<None>> ELSE c.paths]
      [] c.kind = "volume"    -> [Blank(c.kind) EXCEPT !.name = TRUE, !.backend = c.backend, !.id = c.id]
      [] c.kind = "nas_share" -> [ParseUrl(c.url) EXCEPT !.name = TRUE]

-----------------------------------------------------------------------------
(* The pages                                                               *)

Shut == [at |-> 0, path |-> <<>>, listed |-> None, chosen |-> None, loading |-> FALSE, error |-> FALSE]

FormsInit ==
    /\ page = None /\ step = 0 /\ form = Blank("fileset")
    /\ stored = None
    /\ picker = Shut /\ loads = [l \in Loads |-> None] /\ crossed = FALSE

\* The route decides; without an asset there is a page that says so.
OpenNew ==
    /\ page = None /\ stored = None
    /\ page' = "new" /\ step' = 0 /\ form' = Blank("fileset")
    /\ UNCHANGED <<stored, pickerVars>>

OpenEdit ==
    /\ page = None /\ stored # None
    /\ page' = "edit" /\ form' = PopulateConfig(stored)
    /\ UNCHANGED <<step, stored, pickerVars>>

\* The page goes, and with it the fields and the picker.
Unmount ==
    /\ page' = None /\ step' = 0 /\ form' = Blank("fileset")
    /\ picker' = Shut /\ loads' = [l \in Loads |-> None] /\ crossed' = FALSE

LeaveForm == page # None /\ Unmount /\ UNCHANGED stored

\* The picker covers the page's own buttons.
On(p) == page = p /\ picker.at = 0

StepType(k) ==
    /\ On("new") /\ step = 0 /\ form.kind # k
    /\ form' = [Blank(k) EXCEPT !.name = form.name]
    /\ UNCHANGED <<page, step, stored, pickerVars>>

CanProceed ==
    \/ step = 0
    \/ /\ form.name
       /\ CASE form.kind = "fileset"   -> Filled(form.paths) # <<>>
            [] form.kind = "volume"    -> form.id # ""
            [] form.kind = "nas_share" -> /\ form.host # ""
                                          /\ IF form.protocol = "smb" THEN form.share # "" ELSE form.export # <<>>

NextStep ==
    /\ On("new") /\ step = 0 /\ CanProceed /\ step' = 1
    /\ UNCHANGED <<page, form, stored, pickerVars>>

BackStep ==
    /\ On("new") /\ step > 0 /\ step' = 0
    /\ UNCHANGED <<page, form, stored, pickerVars>>

\* Where a configuration's fields are: the wizard's second step, the edit form.
ConfigStep == On("new") /\ step = 1
ShowsFields == ConfigStep \/ On("edit")

\* Typing into a field, or choosing its value.
Type ==
    /\ \/ form' = [form EXCEPT !.name = ~@]
       \/ \E x \in DOMAIN form \cap DOMAIN Values :
             \E v \in Values[x] : form' = [form EXCEPT ![x] = v]
    /\ form.kind = "nas_share" => Len(form'.export \o form'.sub) <= MaxDepth
    /\ UNCHANGED <<page, step, stored, pickerVars>>

StepConfig == ConfigStep /\ Type
EditConfig == On("edit") /\ Type

\* Mutant of RemovePath: the last row goes too.
RemovePathAny(i) ==
    /\ ShowsFields /\ form.kind = "fileset" /\ i \in DOMAIN form.paths
    /\ form' = [form EXCEPT !.paths = SubSeq(@, 1, i - 1) \o SubSeq(@, i + 1, Len(@))]
    /\ UNCHANGED <<page, step, stored, pickerVars>>

\* The rows of backup paths; the last one stays.
RemovePath(i) ==
    /\ ShowsFields /\ form.kind = "fileset" /\ i \in DOMAIN form.paths
    /\ Len(form.paths) > 1
    /\ form' = [form EXCEPT !.paths = SubSeq(@, 1, i - 1) \o SubSeq(@, i + 1, Len(@))]
    /\ UNCHANGED <<page, step, stored, pickerVars>>

AddPath ==
    /\ ShowsFields /\ form.kind = "fileset" /\ Len(form.paths) < MaxPaths
    /\ form' = [form EXCEPT !.paths = Append(@, None)]
    /\ UNCHANGED <<page, step, stored, pickerVars>>

\* The agent stores what it is sent, and the page is left; if it refuses, the
\* page stays as it is.  What happens in between is AssetPages' concern.
Store ==
    /\ stored' = BuildConfig(form)
    /\ Unmount

HandleCreate == ConfigStep /\ CanProceed /\ Store

\* The paths are not checked again.
HandleSubmit == On("edit") /\ form.name /\ Store

-----------------------------------------------------------------------------
(* The path picker                                                         *)

\* Mutant of LoadDir: the file chosen before stays chosen.
LoadDirKeeps(p, l, d) ==
    /\ loads[l] = None /\ loads' = [loads EXCEPT ![l] = d]
    /\ crossed' = (crossed \/ \E m \in Loads : loads[m] # None)
    /\ picker' = [p EXCEPT !.loading = TRUE, !.error = FALSE]
    /\ UNCHANGED formVars

LoadDir(p, l, d) ==
    /\ loads[l] = None /\ loads' = [loads EXCEPT ![l] = d]
    /\ crossed' = (crossed \/ \E m \in Loads : loads[m] # None)
    /\ picker' = [p EXCEPT !.loading = TRUE, !.error = FALSE, !.chosen = None]
    /\ UNCHANGED formVars

OpenPicker(l) ==
    /\ ShowsFields /\ form.kind = "fileset"
    /\ \E i \in DOMAIN form.paths :
          LET d == IF form.paths[i] = None THEN <<>> ELSE form.paths[i]
          IN  LoadDir([Shut EXCEPT !.at = i, !.path = d], l, d)

\* A directory's row, the row of its parent, or the breadcrumb, which is there
\* while a directory loads too.
Listing == picker.at # 0 /\ ~picker.loading /\ ~picker.error

GoToDir(l) ==
    \/ /\ Listing
       /\ \E d \in Tree : /\ \/ d # <<>> /\ Parent(d) = picker.listed
                             \/ picker.path # <<>> /\ d = Parent(picker.path)
                          /\ LoadDir(picker, l, d)
    \/ /\ picker.at # 0
       /\ \E n \in 0..Len(picker.path) : LoadDir(picker, l, SubSeq(picker.path, 1, n))

\* Every directory has a file; a file stands for its directory here.
ClickFile ==
    /\ Listing /\ picker' = [picker EXCEPT !.chosen = picker.listed]
    /\ UNCHANGED <<formVars, loads, crossed>>

DirAnswered(l) ==
    /\ loads[l] # None /\ loads' = [loads EXCEPT ![l] = None]
    /\ \/ picker' = [picker EXCEPT !.listed = loads[l], !.path = loads[l], !.loading = FALSE]
       \/ picker' = [picker EXCEPT !.error = TRUE, !.loading = FALSE]
    /\ UNCHANGED <<formVars, crossed>>

\* What Select hands over.
Picked == IF picker.chosen # None THEN picker.chosen ELSE picker.path

ShutPicker ==
    /\ picker' = Shut /\ loads' = [l \in Loads |-> None] /\ crossed' = FALSE

HandleSelect ==
    /\ picker.at # 0
    /\ form' = [form EXCEPT !.paths[picker.at] = Picked]
    /\ ShutPicker
    /\ UNCHANGED <<page, step, stored>>

ClosePicker == picker.at # 0 /\ ShutPicker /\ UNCHANGED formVars

-----------------------------------------------------------------------------
FormsNext ==
    \/ OpenNew \/ OpenEdit \/ LeaveForm
    \/ \E k \in Kinds : StepType(k)
    \/ NextStep \/ BackStep \/ StepConfig \/ EditConfig \/ AddPath
    \/ \E i \in 1..MaxPaths : RemovePath(i)
    \/ HandleCreate \/ HandleSubmit \/ ClickFile \/ HandleSelect \/ ClosePicker
    \/ \E l \in Loads : OpenPicker(l) \/ GoToDir(l) \/ DirAnswered(l)

FormsSpec == FormsInit /\ [][FormsNext]_<<formVars, pickerVars>>

-----------------------------------------------------------------------------
(* Properties                                                              *)
Dirs == Tree \cup {None}

\* Every variable keeps its type.
FormsTypeOK ==
    /\ page \in {"new", "edit", None} /\ step \in 0..1
    /\ form.kind \in Kinds /\ DOMAIN form = DOMAIN Blank(form.kind)
    /\ form.kind = "fileset" => /\ Len(form.paths) \in 1..MaxPaths
                                /\ picker.at \in 0..Len(form.paths)
                                /\ \A i \in DOMAIN form.paths : form.paths[i] \in Dirs
    /\ page = "edit" => stored # None
    /\ picker.at # 0 => page # None /\ form.kind = "fileset"
    /\ picker.path \in Tree /\ picker.listed \in Dirs /\ picker.chosen \in Dirs
    /\ loads \in [Loads -> Dirs]

\* An asset that is opened for editing and saved as it is keeps its
\* configuration: what populateConfig reads is what buildConfig has written.
\* Only an smb share's login is lost, if its url has a path below the share.
EditKeepsConfig ==
    stored # None =>
        LET saved == BuildConfig(PopulateConfig(stored))
        IN  IF stored.kind = "nas_share" /\ stored.url.protocol = "smb" /\ stored.url.path # <<>>
            THEN saved = [stored EXCEPT !.url.login = ""]
            ELSE saved = stored

\* What the path picker hands over is the directory it lists, whichever loads
\* were under way, unless a file was chosen; then too, if no two loads were.
PickedIsListed ==
    Listing => /\ picker.path = picker.listed
               /\ picker.chosen # None /\ ~crossed => picker.chosen = picker.listed
=============================================================================
