----------------------------- MODULE SessionProofs -----------------------------
(***************************************************************************)
(* Theorems about Session for every set of agents, profile names and       *)
(* commands, and however many edits are sent.                              *)
(***************************************************************************)
EXTENDS Session, TLAPS

-----------------------------------------------------------------------------
(* The inductive invariant                                                 *)

\* Settings that name no active profile they do not have.
Settings == {s \in [profiles : [Names -> Agents \cup {None}],
                    active : Names \cup {None}, agent : Agents \cup {None}] : WellFormed(s)}
Tabs     == [open : BOOLEAN, listed : SUBSET Names, active : Names \cup {None}]
Ops      == Saving \cup {"none", "load", "start", "disconnect"}
Phases   == {"none", "sent", "taken", "saved", "done"}
Commands == [op : Ops, phase : Phases, name : Names \cup {None},
             agent : Agents \cup {None}, copy : Settings]

Typed ==
    /\ agent \in Agents \cup {None} /\ streams \subseteq Agents
    /\ memory \in Settings /\ disk \in Settings \cup {None}
    /\ connected \in BOOLEAN /\ shown \in Agents \cup {None} /\ tab \in Tabs
    /\ call \in [Calls -> Commands]

\* The window shows an agent while it is connected, and only then its tab.
Screen == (connected <=> shown # None) /\ (tab.open => connected)

\* A command carries what its operation needs, and only those that change
\* settings go through the phases of saving them.
Fits(r) ==
    /\ r.op \in {"connect", "add"} => r.agent \in Agents
    /\ r.op \in Saving \ {"connect"} /\ r.phase = "sent" => r.name \in Names
    /\ r.phase = "taken" => r.op \in Saving
    /\ r.phase = "saved" => r.op \in Saving \ {"connect"}
    /\ r.op = "load" => tab.open

\* While a connection is asked for there is none, and no second one is.
OneConnect ==
    \A c \in Calls : call[c].op = "connect" =>
        ~connected /\ \A d \in Calls : call[d].op = "connect" => d = c

\* Since the last connection the agent in use is the one that was asked for.
Used ==
    ~moved =>
        /\ connected => /\ agent = shown
                        /\ ended \/ shown \in streams \/ \E c \in Calls : call[c].op = "start"
        /\ \A c \in Calls : call[c].op = "connect" /\ call[c].phase \in {"taken", "saved", "done"}
                => agent = call[c].agent

\* Until an agent is left or switched there is no stream but the one to the
\* agent shown, and none before the window is connected.
Alone ==
    /\ \A c \in Calls : call[c].op = "disconnect" /\ call[c].phase = "done" => again
    /\ ~again => /\ ~moved
                 /\ connected => streams \subseteq {shown}
                 /\ ~connected => streams = {} /\ \A c \in Calls : call[c].op # "start"

\* Until a profile command saves settings, the file names the agent that was
\* connected to.
Recorded ==
    /\ \A c \in Calls : call[c].op = "connect" /\ call[c].phase = "taken"
            => call[c].copy.agent = call[c].agent
    /\ disk # None /\ ~edited =>
            /\ connected => disk.agent = shown
            /\ \A c \in Calls : call[c].op = "connect" /\ call[c].phase = "done"
                    => disk.agent = call[c].agent

Busy(c) == call[c].phase \in {"taken", "saved"}

\* What a restart would make of file d is what memory m has.
Kept(d, m) ==
    d # None => \/ Loaded(d).profiles = m.profiles /\ Loaded(d).active = m.active
                \/ m.profiles = Blank.profiles

\* Unless two overlapped, the file is the memory's or the copy of the one
\* command that has saved it and not kept it yet.
FileFits ==
    ~raced =>
        /\ \A c, d \in Calls : Busy(c) /\ Busy(d) => c = d
        /\ \A c \in Calls : call[c].op = "connect" /\ call[c].phase = "taken"
                => /\ call[c].copy.profiles = memory.profiles
                   /\ call[c].copy.active = memory.active
        /\ \A c \in Calls : call[c].phase = "saved" => disk = call[c].copy
        /\ (\A c \in Calls : call[c].phase # "saved") => Kept(disk, memory)

SessionInv ==
    /\ Typed /\ Screen
    /\ \A c \in Calls : Fits(call[c])
    /\ OneConnect /\ Used /\ Alone /\ Recorded /\ FileFits

-----------------------------------------------------------------------------
(* Settings and commands                                                   *)

LEMMA BlankTypes == Blank \in Settings /\ Closed \in Tabs /\ Idle \in Commands
<1>1. Blank \in Settings
  BY DEF Blank, Settings, WellFormed
<1> QED
  BY <1>1 DEF Closed, Tabs, Idle, Commands, Ops, Phases

\* A request is a command.
LEMMA SentTypes ==
    ASSUME NEW op \in Ops, NEW n \in Names \cup {None}, NEW a \in Agents \cup {None}
    PROVE  /\ Sent(op, n, a) \in Commands
           /\ Sent(op, n, a).op = op /\ Sent(op, n, a).phase = "sent"
           /\ Sent(op, n, a).name = n /\ Sent(op, n, a).agent = a
<1>1. Sent(op, n, a) = [op |-> op, phase |-> "sent", name |-> n, agent |-> a, copy |-> Blank]
  <2> DEFINE R(o, p, m, b) == [op |-> o, phase |-> p, name |-> m, agent |-> b, copy |-> Blank]
  <2>1. [R("none", "none", None, None) EXCEPT !.op = op] = R(op, "none", None, None)
    OBVIOUS
  <2>2. [R(op, "none", None, None) EXCEPT !.phase = "sent"] = R(op, "sent", None, None)
    OBVIOUS
  <2>3. [R(op, "sent", None, None) EXCEPT !.name = n] = R(op, "sent", n, None)
    OBVIOUS
  <2>4. [R(op, "sent", n, None) EXCEPT !.agent = a] = R(op, "sent", n, a)
    OBVIOUS
  <2>5. Idle = R("none", "none", None, None)
    BY DEF Idle
  <2> HIDE DEF R
  <2>6. Sent(op, n, a) = R(op, "sent", n, a)
    BY <2>1, <2>2, <2>3, <2>4, <2>5 DEF Sent
  <2> QED
    BY <2>6 DEF R
<1> QED
  BY <1>1, BlankTypes DEF Commands, Phases

\* Loading a file gives settings.
LEMMA LoadedTypes ==
    ASSUME NEW d \in Settings \cup {None}
    PROVE  Loaded(d) \in Settings
<1>1. CASE d = None
  BY <1>1, BlankTypes DEF Loaded
<1>2. CASE d # None /\ d.profiles = Blank.profiles
  <2> DEFINE a == IF d.agent = None THEN Local ELSE d.agent
  <2>1. d \in Settings
    BY <1>2
  <2>2. a \in Agents /\ Default \in Names /\ None \notin Agents
    BY <2>1, SessionAssumption DEF Settings
  <2>3. Loaded(d) = [d EXCEPT !.profiles[Default] = a, !.active = Default]
    BY <1>2 DEF Loaded
  <2> HIDE DEF a
  <2>4. d.profiles \in [Names -> Agents \cup {None}]
    BY <2>1 DEF Settings
  <2>5. /\ [d.profiles EXCEPT ![Default] = a] \in [Names -> Agents \cup {None}]
        /\ [d.profiles EXCEPT ![Default] = a][Default] # None
    BY <2>2, <2>4
  <2>6. Loaded(d) = [profiles |-> [d.profiles EXCEPT ![Default] = a],
                     active |-> Default, agent |-> d.agent]
    BY <2>1, <2>3 DEF Settings
  <2> QED
    BY <2>1, <2>2, <2>5, <2>6 DEF Settings, WellFormed
<1>3. CASE d # None /\ d.profiles # Blank.profiles
  BY <1>3 DEF Loaded
<1> QED
  BY <1>1, <1>2, <1>3

\* The clone a command saves is settings again.
LEMMA CloneTypes ==
    ASSUME memory \in Settings, NEW r \in Commands, Fits(r), r.op \in Saving, r.phase = "sent",
           r.op = "switch" => memory.profiles[r.name] # None
    PROVE  /\ Clone(r) \in Settings
           /\ r.op = "connect" => /\ Clone(r).agent = r.agent
                                  /\ Clone(r).profiles = memory.profiles
                                  /\ Clone(r).active = memory.active
<1>0. /\ memory = [profiles |-> memory.profiles, active |-> memory.active, agent |-> memory.agent]
      /\ memory.profiles \in [Names -> Agents \cup {None}]
      /\ memory.active \in Names \cup {None} /\ memory.agent \in Agents \cup {None}
      /\ memory.active # None => memory.profiles[memory.active] # None
  BY DEF Settings, WellFormed
<1>n. None \notin Agents \cup Names
  BY SessionAssumption
<1>1. CASE r.op = "connect"
  <2>1. Clone(r) = [profiles |-> memory.profiles, active |-> memory.active, agent |-> r.agent]
    BY <1>0, <1>1 DEF Clone
  <2>2. r.agent \in Agents
    BY <1>1 DEF Fits
  <2> QED
    BY <1>0, <2>1, <2>2 DEF Settings, WellFormed
<1>2. CASE r.op = "add"
  <2>1. Clone(r) = [profiles |-> [memory.profiles EXCEPT ![r.name] = r.agent],
                    active |-> memory.active, agent |-> memory.agent]
    BY <1>0, <1>2 DEF Clone
  <2>2. r.agent \in Agents /\ r.name \in Names
    BY <1>2 DEF Fits, Saving
  <2> QED
    BY <1>0, <1>n, <1>2, <2>1, <2>2 DEF Settings, WellFormed
<1>3. CASE r.op = "remove"
  <2>1. Clone(r) = [profiles |-> [memory.profiles EXCEPT ![r.name] = None],
                    active |-> IF memory.active = r.name THEN None ELSE memory.active,
                    agent |-> memory.agent]
    BY <1>0, <1>3 DEF Clone
  <2>2. r.name \in Names
    BY <1>3 DEF Fits, Saving
  <2> QED
    BY <1>0, <1>n, <1>3, <2>1, <2>2 DEF Settings, WellFormed
<1>4. CASE r.op = "switch"
  <2>1. Clone(r) = [profiles |-> memory.profiles, active |-> r.name,
                    agent |-> memory.profiles[r.name]]
    BY <1>0, <1>4 DEF Clone
  <2>2. r.name \in Names
    BY <1>4 DEF Fits, Saving
  <2> QED
    BY <1>0, <1>n, <1>4, <2>1, <2>2 DEF Settings, WellFormed
<1> QED
  BY <1>1, <1>2, <1>3, <1>4 DEF Saving

-----------------------------------------------------------------------------
(* Steps that settle, send or answer a command and leave the agent alone   *)

\* Requests, answers that are shown, and failures: command c becomes r, the
\* tab may open, and the file may be cut short if c was writing it.
LEMMA CalmKeeps ==
    ASSUME SessionInv, NEW c \in Calls, NEW r \in Commands,
           Fits(r)', r.phase \notin {"taken", "saved"}, r.op # "connect",
           call[c].phase # "saved", call[c].op # "start",
           r.op = "disconnect" => r.phase # "done", r.op = "start" => connected,
           call' = [call EXCEPT ![c] = r],
           disk' = disk \/ (disk' = None /\ call[c].phase = "taken"),
           tab' \in Tabs, tab.open => tab'.open, tab'.open => connected,
           UNCHANGED <<agent, memory, streams, connected, shown, moved, again, edited, raced, ended>>
    PROVE  SessionInv'
<1> USE DEF SessionInv
<1>c. /\ call' \in [Calls -> Commands] /\ call'[c] = r
      /\ \A d \in Calls : d # c => call'[d] = call[d]
  BY DEF Typed
<1>1. Typed'
  BY <1>c DEF Typed
<1>2. Screen'
  BY DEF Screen
<1>3. ASSUME NEW d \in Calls PROVE Fits(call[d])'
  BY <1>c DEF Fits
<1>4. OneConnect'
  BY <1>c DEF OneConnect
<1>5. Used'
  BY <1>c DEF Used
<1>7. Alone' /\ Recorded'
  BY <1>c DEF Alone, Recorded, OneConnect
<1>6. FileFits'
  <2> SUFFICES ASSUME ~raced PROVE FileFits'
    BY DEF FileFits
  <2>1. \A d, e \in Calls : Busy(d)' /\ Busy(e)' => d = e
    BY <1>c DEF FileFits, Busy
  <2>2. \A d \in Calls : call'[d].op = "connect" /\ call'[d].phase = "taken"
            => /\ call'[d].copy.profiles = memory'.profiles
               /\ call'[d].copy.active = memory'.active
    BY <1>c DEF FileFits
  <2>3. \A d \in Calls : call'[d].phase = "saved" => disk' = call'[d].copy
    BY <1>c DEF FileFits, Busy
  <2>4. (\A d \in Calls : call'[d].phase # "saved") => Kept(disk, memory)'
    BY <1>c DEF FileFits, Kept
  <2> QED
    BY <2>1, <2>2, <2>3, <2>4 DEF FileFits
<1> QED
  BY <1>1, <1>2, <1>3, <1>4, <1>5, <1>6, <1>7

LEMMA IdleFits == Fits(Idle)'
BY DEF Fits, Idle, Saving

\* The actions that are calm in this sense.
CalmStep(c) ==
    \/ Disconnect(c) \/ OpenTab(c) \/ Fail(c) \/ Changed(c) \/ Load(c)
    \/ \E n \in Names : RemoveProfile(c, n) \/ SwitchProfile(c, n)
                        \/ \E a \in Agents : AddProfile(c, n, a)

LEMMA CalmStepKeeps ==
    ASSUME SessionInv, NEW c \in Calls, CalmStep(c)
    PROVE  SessionInv'
<1>0. Typed /\ Screen /\ Fits(call[c]) /\ Idle \in Commands /\ call[c] \in Commands
  BY BlankTypes DEF SessionInv, Typed
<1>i. Idle.op = "none" /\ Idle.phase = "none"
  BY DEF Idle
<1>s. /\ Sent("load", None, None) \in Commands
      /\ Sent("load", None, None).op = "load" /\ Sent("load", None, None).phase = "sent"
  <2>1. "load" \in Ops /\ None \in Names \cup {None} /\ None \in Agents \cup {None}
    BY DEF Ops
  <2> QED
    BY <2>1, SentTypes
<1>1. CASE Disconnect(c)
  <2>1. /\ Sent("disconnect", None, None) \in Commands
        /\ Sent("disconnect", None, None).op = "disconnect"
        /\ Sent("disconnect", None, None).phase = "sent"
    BY SentTypes DEF Ops
  <2>2. Fits(Sent("disconnect", None, None))'
    BY <2>1 DEF Fits, Saving
  <2> QED
    BY <1>0, <1>1, <1>i, <2>1, <2>2, CalmKeeps
       DEF Disconnect, Send, agentVars, appVars, history, Typed, Screen
<1>2. CASE OpenTab(c)
  <2>2. tab' = [open |-> TRUE, listed |-> {}, active |-> None]
    BY <1>2 DEF OpenTab, Closed
  <2>3. tab' \in Tabs /\ tab'.open
    BY <2>2 DEF Tabs
  <2>4. Fits(Sent("load", None, None))'
    BY <1>s, <2>3 DEF Fits, Saving
  <2> QED
    BY <1>0, <1>2, <1>i, <1>s, <2>3, <2>4, CalmKeeps
       DEF OpenTab, Send, agentVars, history
<1>3. CASE Fail(c)
  <2>1. call[c].phase \in {"sent", "taken"} /\ call[c].op # "start"
    BY <1>0, <1>3 DEF Fail, Fits, Saving
  <2>2. disk' = disk \/ (disk' = None /\ call[c].phase = "taken")
    BY <1>3 DEF Fail
  <2>3. UNCHANGED <<agent, memory, streams, connected, shown, tab, moved, again, edited, raced, ended>>
    BY <1>3 DEF Fail, appVars, history
  <2>4. call' = [call EXCEPT ![c] = Idle]
    BY <1>3 DEF Fail
  <2> QED
    BY <1>0, <1>i, <2>1, <2>2, <2>3, <2>4, IdleFits, CalmKeeps DEF Typed, Screen
<1>4. CASE Changed(c)
  <2>1. UNCHANGED <<agent, memory, disk, streams, connected, shown, tab, moved, again, edited, raced, ended>>
    BY <1>4 DEF Changed, agentVars, appVars, history
  <2>2. call[c].phase = "done" /\ call[c].op # "start"
    BY <1>4 DEF Changed, Saving
  <2>3. CASE tab.open
    <3>1. call' = [call EXCEPT ![c] = Sent("load", None, None)]
      BY <1>4, <2>3 DEF Changed
    <3>2. Fits(Sent("load", None, None))'
      BY <1>s, <2>1, <2>3 DEF Fits, Saving
    <3> QED
      BY <1>0, <1>s, <2>1, <2>2, <3>1, <3>2, CalmKeeps DEF Typed, Screen
  <2>4. CASE ~tab.open
    <3>1. call' = [call EXCEPT ![c] = Idle]
      BY <1>4, <2>4 DEF Changed
    <3> QED
      BY <1>0, <1>i, <2>1, <2>2, <3>1, IdleFits, CalmKeeps DEF Typed, Screen
  <2> QED
    BY <2>3, <2>4
<1>5. CASE Load(c)
  <2>1. tab' = [open |-> TRUE, listed |-> {n \in Names : memory.profiles[n] # None},
                active |-> memory.active]
    BY <1>5 DEF Load
  <2>2. memory.active \in Names \cup {None}
    BY <1>0 DEF Typed, Settings
  <2>3. tab' \in Tabs /\ tab'.open
    BY <2>1, <2>2 DEF Tabs
  <2>4. tab.open /\ connected
    BY <1>0, <1>5 DEF Load, Fits, Screen
  <2>5. call[c].phase # "saved" /\ call[c].op # "start"
    BY <1>0, <1>5 DEF Load, Fits, Saving
  <2>6. UNCHANGED <<agent, memory, disk, streams, connected, shown, moved, again, edited, raced, ended>>
    BY <1>5 DEF Load, agentVars, history
  <2>7. call' = [call EXCEPT ![c] = Idle]
    BY <1>5 DEF Load
  <2> QED
    BY <1>0, <1>i, <2>3, <2>4, <2>5, <2>6, <2>7, IdleFits, CalmKeeps
<1>6. ASSUME NEW op \in {"add", "remove", "switch"}, NEW n \in Names, NEW a \in Agents \cup {None},
             op = "add" => a \in Agents, Edit(c, Sent(op, n, a))
      PROVE  SessionInv'
  <2>1. /\ Sent(op, n, a) \in Commands /\ Sent(op, n, a).op = op
        /\ Sent(op, n, a).phase = "sent" /\ Sent(op, n, a).name = n
        /\ Sent(op, n, a).agent = a
    BY SentTypes DEF Ops, Saving
  <2>2. Fits(Sent(op, n, a))'
    BY <1>6, <2>1 DEF Fits, Saving
  <2>3. call[c] = Idle /\ call' = [call EXCEPT ![c] = Sent(op, n, a)]
    BY <1>6 DEF Edit, Send
  <2>4. UNCHANGED <<agent, memory, disk, streams, connected, shown, tab, moved, again, edited, raced, ended>>
    BY <1>6 DEF Edit, agentVars, appVars
  <2> QED
    BY <1>0, <1>i, <2>1, <2>2, <2>3, <2>4, CalmKeeps DEF Typed, Screen
<1>7. ASSUME NEW n \in Names, RemoveProfile(c, n) PROVE SessionInv'
  BY <1>6, <1>7 DEF RemoveProfile
<1>8. ASSUME NEW n \in Names, SwitchProfile(c, n) PROVE SessionInv'
  BY <1>6, <1>8 DEF SwitchProfile
<1>9. ASSUME NEW n \in Names, NEW a \in Agents, AddProfile(c, n, a) PROVE SessionInv'
  BY <1>6, <1>9 DEF AddProfile
<1> QED
  BY <1>1, <1>2, <1>3, <1>4, <1>5, <1>7, <1>8, <1>9 DEF CalmStep

-----------------------------------------------------------------------------
(* Connecting and leaving                                                  *)

\* A connection is asked for only where there is none, nor another request.
LEMMA ConnectKeeps ==
    ASSUME SessionInv, NEW c \in Calls, NEW a \in Agents, Connect(c, a)
    PROVE  SessionInv'
<1> USE DEF SessionInv
<1> DEFINE r == Sent("connect", None, a)
<1>1. r \in Commands /\ r.op = "connect" /\ r.phase = "sent" /\ r.agent = a
  <2>1. "connect" \in Ops /\ None \in Names \cup {None} /\ a \in Agents \cup {None}
    BY DEF Ops, Saving
  <2> QED
    BY <2>1, SentTypes
<1>2. /\ call[c] = Idle /\ call' = [call EXCEPT ![c] = r]
      /\ ~connected /\ \A d \in Calls : call[d].op # "connect"
      /\ UNCHANGED <<agent, memory, disk, streams, connected, shown, tab, edits, moved, again, edited, raced, ended>>
  BY DEF Connect, Send, Flying, agentVars, appVars, history
<1> HIDE DEF r
<1>c. /\ call' \in [Calls -> Commands] /\ call'[c] = r
      /\ \A d \in Calls : d # c => call'[d] = call[d]
  BY <1>1, <1>2 DEF Typed
<1>i. call[c].op = "none" /\ call[c].phase = "none"
  BY <1>2 DEF Idle
<1>3. Typed' /\ Screen'
  BY <1>2, <1>c DEF Typed, Screen
<1>4. ASSUME NEW d \in Calls PROVE Fits(call[d])'
  BY <1>1, <1>2, <1>c DEF Fits
<1>5. OneConnect'
  BY <1>1, <1>2, <1>c DEF OneConnect
<1>6. Used'
  BY <1>1, <1>2, <1>c DEF Used
<1>7. FileFits'
  BY <1>1, <1>2, <1>c, <1>i DEF FileFits, Busy, Kept
<1>8. Alone' /\ Recorded'
  BY <1>1, <1>2, <1>c DEF Alone, Recorded
<1> QED
  BY <1>3, <1>4, <1>5, <1>6, <1>7, <1>8

\* The window shows the agent that was asked for, and asks for its events.
LEMMA ConnectedKeeps ==
    ASSUME SessionInv, NEW c \in Calls, Connected(c)
    PROVE  SessionInv'
<1> USE DEF SessionInv
<1> DEFINE r == Sent("start", None, None)
<1>1. r \in Commands /\ r.op = "start" /\ r.phase = "sent"
  <2>1. "start" \in Ops /\ None \in Names \cup {None} /\ None \in Agents \cup {None}
    BY DEF Ops
  <2> QED
    BY <2>1, SentTypes
<1>2. /\ call[c].op = "connect" /\ call[c].phase = "done" /\ call' = [call EXCEPT ![c] = r]
      /\ connected' = TRUE /\ shown' = call[c].agent /\ ended' = FALSE
      /\ UNCHANGED <<agent, memory, disk, streams, tab, moved, again, edited, raced>>
  BY DEF Connected, agentVars
<1> HIDE DEF r
<1>c. /\ call' \in [Calls -> Commands] /\ call'[c] = r
      /\ \A d \in Calls : d # c => call'[d] = call[d]
  BY <1>1, <1>2 DEF Typed
<1>a. call[c].agent \in Agents /\ None \notin Agents
  BY <1>2, SessionAssumption DEF Fits
<1>3. Typed' /\ Screen'
  BY <1>2, <1>a, <1>c DEF Typed, Screen
<1>4. ASSUME NEW d \in Calls PROVE Fits(call[d])'
  BY <1>1, <1>2, <1>c DEF Fits, Saving
<1>5. OneConnect' /\ \A d \in Calls : call'[d].op # "connect"
  BY <1>1, <1>2, <1>c DEF OneConnect
<1>6. Used'
  BY <1>1, <1>2, <1>5, <1>c DEF Used
<1>7. FileFits'
  BY <1>1, <1>2, <1>c DEF FileFits, Busy, Kept
<1>8. Alone'
  <2>1. ~connected
    BY <1>2 DEF OneConnect
  <2> QED
    BY <1>1, <1>2, <1>c, <2>1 DEF Alone
<1>9. Recorded'
  BY <1>2, <1>5, <1>c DEF Recorded
<1> QED
  BY <1>3, <1>4, <1>5, <1>6, <1>7, <1>8, <1>9

\* The agent is forgotten; the window goes on until the answer is there.
LEMMA LeaveKeeps ==
    ASSUME SessionInv, NEW c \in Calls, Leave(c)
    PROVE  SessionInv'
<1> USE DEF SessionInv
<1>1. /\ call[c].op = "disconnect" /\ call[c].phase = "sent"
      /\ agent' = None /\ moved' = TRUE /\ again' = TRUE
      /\ call' = [call EXCEPT ![c].phase = "done"]
      /\ UNCHANGED <<memory, disk, streams, connected, shown, tab, edited, raced, ended>>
  BY DEF Leave, appVars
<1>2. [call[c] EXCEPT !.phase = "done"] \in Commands
  BY DEF Typed, Commands, Phases
<1>c. /\ call' \in [Calls -> Commands] /\ call'[c] = [call[c] EXCEPT !.phase = "done"]
      /\ \A d \in Calls : d # c => call'[d] = call[d]
  BY <1>1, <1>2 DEF Typed
<1>r. call'[c].op = "disconnect" /\ call'[c].phase = "done"
  BY <1>1, <1>c DEF Typed, Commands
<1>3. Typed' /\ Screen'
  BY <1>1, <1>c DEF Typed, Screen
<1>4. ASSUME NEW d \in Calls PROVE Fits(call[d])'
  BY <1>1, <1>c, <1>r DEF Fits, Saving
<1>5. OneConnect' /\ Used'
  BY <1>1, <1>c, <1>r DEF OneConnect, Used
<1>6. FileFits'
  BY <1>1, <1>c, <1>r DEF FileFits, Busy, Kept
<1>7. Alone' /\ Recorded'
  BY <1>1, <1>c, <1>r DEF Alone, Recorded
<1> QED
  BY <1>3, <1>4, <1>5, <1>6, <1>7

\* Back on the connect page what the tab had asked for is dropped; so it is
\* when only the tab is closed.
LEMMA DropLoadsKeeps ==
    ASSUME SessionInv, NEW gone \in SUBSET Calls,
           \A d \in gone : call[d].op \in {"load", "disconnect"} /\ call[d].phase # "saved",
           \A d \in Calls : call[d].op = "load" => d \in gone,
           call' = [d \in Calls |-> IF d \in gone THEN Idle ELSE call[d]],
           tab' = Closed, connected' \in BOOLEAN, shown' \in Agents \cup {None},
           connected' <=> shown' # None,
           (~connected' /\ again) \/ (connected' = connected /\ shown' = shown),
           UNCHANGED <<agent, memory, disk, streams, moved, again, edited, raced, ended>>
    PROVE  SessionInv'
<1> USE DEF SessionInv
<1>i. Idle \in Commands /\ Idle.op = "none" /\ Idle.phase = "none" /\ Closed \in Tabs /\ ~Closed.open
  BY BlankTypes DEF Idle, Closed
<1>c. /\ call' \in [Calls -> Commands]
      /\ \A d \in gone : call'[d] = Idle
      /\ \A d \in Calls \ gone : call'[d] = call[d]
  BY <1>i DEF Typed
<1>1. Typed' /\ Screen'
  BY <1>c, <1>i DEF Typed, Screen
<1>2. ASSUME NEW d \in Calls PROVE Fits(call[d])'
  <2>1. CASE d \in gone
    BY <1>c, <2>1, IdleFits
  <2>2. CASE d \notin gone
    BY <1>c, <2>2 DEF Fits
  <2> QED
    BY <2>1, <2>2
<1>3. OneConnect'
  BY <1>c, <1>i DEF OneConnect
<1>4. Used'
  BY <1>c, <1>i DEF Used
<1>6. Alone' /\ Recorded'
  BY <1>c, <1>i DEF Alone, Recorded
<1>5. FileFits'
  <2> SUFFICES ASSUME ~raced PROVE FileFits'
    BY DEF FileFits
  <2>1. \A d, e \in Calls : Busy(d)' /\ Busy(e)' => d = e
    BY <1>c, <1>i DEF FileFits, Busy
  <2>2. \A d \in Calls : call'[d].op = "connect" /\ call'[d].phase = "taken"
            => /\ call'[d].copy.profiles = memory'.profiles
               /\ call'[d].copy.active = memory'.active
    BY <1>c, <1>i DEF FileFits
  <2>3. \A d \in Calls : call'[d].phase = "saved" => disk' = call'[d].copy
    BY <1>c, <1>i DEF FileFits
  <2>4. (\A d \in Calls : call'[d].phase # "saved") => Kept(disk, memory)'
    BY <1>c DEF FileFits, Kept
  <2> QED
    BY <2>1, <2>2, <2>3, <2>4 DEF FileFits
<1> QED
  BY <1>1, <1>2, <1>3, <1>4, <1>5, <1>6

LEMMA CloseTabKeeps ==
    ASSUME SessionInv, CloseTab
    PROVE  SessionInv'
<1> DEFINE gone == {c \in Calls : call[c].op = "load"}
<1>1. /\ call' = [d \in Calls |-> IF d \in gone THEN Idle ELSE call[d]]
      /\ tab' = Closed
      /\ UNCHANGED <<agent, memory, disk, streams, connected, shown, moved, again, edited, raced, ended>>
  BY DEF CloseTab, agentVars, history
<1>2. \A d \in gone : call[d].op \in {"load", "disconnect"} /\ call[d].phase # "saved"
  BY DEF SessionInv, Fits, Saving
<1>3. /\ connected' \in BOOLEAN /\ shown' \in Agents \cup {None}
      /\ (connected' <=> shown' # None)
  BY <1>1 DEF SessionInv, Typed, Screen
<1> QED
  BY <1>1, <1>2, <1>3, DropLoadsKeeps

LEMMA DisconnectedKeeps ==
    ASSUME SessionInv, NEW c \in Calls, Disconnected(c)
    PROVE  SessionInv'
<1> DEFINE gone == {d \in Calls : d = c \/ call[d].op = "load"}
<1>1. /\ call[c].op = "disconnect" /\ call[c].phase = "done"
      /\ call' = [d \in Calls |-> IF d \in gone THEN Idle ELSE call[d]]
      /\ tab' = Closed /\ connected' = FALSE /\ shown' = None
      /\ UNCHANGED <<agent, memory, disk, streams, moved, again, edited, raced, ended>>
  BY DEF Disconnected, agentVars, history
<1>2. \A d \in gone : call[d].op \in {"load", "disconnect"} /\ call[d].phase # "saved"
  BY <1>1 DEF SessionInv, Fits, Saving
<1>3. again
  BY <1>1 DEF SessionInv, Alone
<1> QED
  BY <1>1, <1>2, <1>3, DropLoadsKeeps

-----------------------------------------------------------------------------
(* Saving settings                                                         *)

\* A command takes its clone: unless another one is about to save or to keep
\* its own, the file is the memory's.
LEMMA TakeKeeps ==
    ASSUME SessionInv, NEW c \in Calls, Take(c)
    PROVE  SessionInv'
<1> USE DEF SessionInv
<1> DEFINE r == call[c]
           t == [r EXCEPT !.phase = "taken", !.copy = Clone(r), !.name = None]
<1>1. /\ r.op \in Saving /\ r.phase = "sent"
      /\ r.op = "switch" => memory.profiles[r.name] # None
      /\ agent' = IF r.op \in {"connect", "switch"} THEN Clone(r).agent ELSE agent
      /\ moved' = IF r.op = "connect" THEN FALSE ELSE moved \/ r.op = "switch"
      /\ again' = (again \/ r.op = "switch")
      /\ raced' = (raced \/ \E d \in Calls : Busy(d))
      /\ UNCHANGED <<memory, disk, streams, connected, shown, tab, edited, ended>>
  BY DEF Take, appVars, Busy
<1>2. /\ Clone(r) \in Settings
      /\ r.op = "connect" => /\ Clone(r).agent = r.agent
                             /\ Clone(r).profiles = memory.profiles
                             /\ Clone(r).active = memory.active
  <2>1. r \in Commands /\ Fits(r) /\ memory \in Settings
    BY DEF Typed
  <2> QED
    BY <1>1, <2>1, CloneTypes
<1>3. /\ t \in Commands /\ t.op = r.op /\ t.phase = "taken" /\ t.agent = r.agent
      /\ t.copy = Clone(r)
  <2>1. r \in Commands
    BY DEF Typed
  <2> QED
    BY <1>2, <2>1 DEF Commands, Phases
<1>c. /\ call' \in [Calls -> Commands] /\ call'[c] = t
      /\ \A d \in Calls : d # c => call'[d] = call[d]
  <2>1. call' = [call EXCEPT ![c] = t]
    BY DEF Take, Typed
  <2> QED
    BY <1>3, <2>1 DEF Typed
<1>a. Clone(r).agent \in Agents \cup {None}
  BY <1>2 DEF Settings
<1> HIDE DEF t
<1>4. Typed' /\ Screen'
  BY <1>1, <1>a, <1>c DEF Typed, Screen
<1>5. ASSUME NEW d \in Calls PROVE Fits(call[d])'
  BY <1>1, <1>3, <1>c DEF Fits
<1>6. OneConnect'
  BY <1>1, <1>3, <1>c DEF OneConnect
<1>7. Used'
  <2>1. CASE r.op = "connect"
    BY <1>1, <1>2, <1>3, <1>c, <2>1 DEF Used, OneConnect
  <2>2. CASE r.op = "switch"
    BY <1>1, <2>2 DEF Used
  <2>3. CASE r.op \in {"add", "remove"}
    BY <1>1, <1>3, <1>c, <2>3 DEF Used
  <2> QED
    BY <1>1, <2>1, <2>2, <2>3 DEF Saving
<1>8. FileFits'
  BY <1>1, <1>2, <1>3, <1>c DEF FileFits, Busy, Kept
<1>9. Alone' /\ Recorded'
  BY <1>1, <1>2, <1>3, <1>c DEF Alone, Recorded, Saving
<1> QED
  BY <1>4, <1>5, <1>6, <1>7, <1>8, <1>9

\* connect_agent is through once it has saved; the others keep their clone.
LEMMA SaveKeeps ==
    ASSUME SessionInv, NEW c \in Calls, Save(c)
    PROVE  SessionInv'
<1> USE DEF SessionInv
<1> DEFINE r == call[c]
           t == IF r.op = "connect" THEN [r EXCEPT !.phase = "done", !.copy = Blank]
                                    ELSE [r EXCEPT !.phase = "saved"]
<1>1. /\ r.phase = "taken" /\ disk' = r.copy
      /\ edited' = (r.op # "connect")
      /\ UNCHANGED <<agent, memory, streams, connected, shown, tab, moved, again, raced, ended>>
  BY DEF Save, appVars
<1>2. r \in Commands /\ r.op \in Saving /\ r.copy \in Settings
  BY <1>1 DEF Typed, Fits, Commands
<1>3. /\ t \in Commands /\ t.op = r.op /\ t.agent = r.agent
      /\ r.op = "connect" => t.phase = "done"
      /\ r.op # "connect" => t.phase = "saved" /\ t.copy = r.copy
  BY <1>2, BlankTypes DEF Commands, Phases
<1>c. /\ call' \in [Calls -> Commands] /\ call'[c] = t
      /\ \A d \in Calls : d # c => call'[d] = call[d]
  <2>1. call' = [call EXCEPT ![c] = t]
    BY DEF Save, Typed
  <2> QED
    BY <1>3, <2>1 DEF Typed
<1> HIDE DEF t
<1>4. Typed' /\ Screen'
  BY <1>1, <1>2, <1>c DEF Typed, Screen
<1>5. ASSUME NEW d \in Calls PROVE Fits(call[d])'
  BY <1>1, <1>2, <1>3, <1>c DEF Fits, Saving
<1>6. OneConnect' /\ Used'
  BY <1>1, <1>3, <1>c DEF OneConnect, Used
<1>8. Alone' /\ Recorded'
  BY <1>1, <1>2, <1>3, <1>c DEF Alone, Recorded, OneConnect, Saving
<1>7. FileFits'
  <2> SUFFICES ASSUME ~raced PROVE FileFits'
    BY <1>1 DEF FileFits
  <2>1. \A d \in Calls : Busy(d) => d = c
    BY <1>1 DEF FileFits, Busy
  <2>2. \A d \in Calls : Busy(d)' => d = c /\ call'[d].phase = "saved" /\ r.op # "connect"
    BY <1>2, <1>3, <1>c, <2>1 DEF Busy
  <2>3. (\A d \in Calls : call'[d].phase # "saved") => Kept(disk, memory)'
    <3> SUFFICES ASSUME r.op = "connect" PROVE Kept(disk, memory)'
      BY <1>3, <1>c
    <3>1. r.copy.profiles = memory.profiles /\ r.copy.active = memory.active
      BY <1>1 DEF FileFits
    <3> QED
      BY <1>1, <3>1 DEF Kept, Loaded
  <2>4. \A d \in Calls : call'[d].phase = "saved" => disk' = call'[d].copy
    BY <1>1, <1>3, <1>c, <2>2 DEF Busy
  <2> QED
    BY <2>2, <2>3, <2>4 DEF FileFits, Busy
<1> QED
  BY <1>4, <1>5, <1>6, <1>7, <1>8

\* The clone that was saved becomes the memory.
LEMMA KeepKeeps ==
    ASSUME SessionInv, NEW c \in Calls, Keep(c)
    PROVE  SessionInv'
<1> USE DEF SessionInv
<1> DEFINE r == call[c]
           t == [r EXCEPT !.phase = "done", !.copy = Blank]
<1>1. /\ r.phase = "saved" /\ memory' = r.copy
      /\ UNCHANGED <<agent, disk, streams, connected, shown, tab, moved, again, edited, raced, ended>>
  BY DEF Keep, appVars, history
<1>2. r \in Commands /\ r.op \in Saving \ {"connect"} /\ r.copy \in Settings
  BY <1>1 DEF Typed, Fits, Commands
<1>3. t \in Commands /\ t.op = r.op /\ t.agent = r.agent /\ t.phase = "done"
  BY <1>2, BlankTypes DEF Commands, Phases
<1>c. /\ call' \in [Calls -> Commands] /\ call'[c] = t
      /\ \A d \in Calls : d # c => call'[d] = call[d]
  <2>1. call' = [call EXCEPT ![c] = t]
    BY DEF Keep, Typed
  <2> QED
    BY <1>3, <2>1 DEF Typed
<1> HIDE DEF t
<1>4. Typed' /\ Screen'
  BY <1>1, <1>2, <1>c DEF Typed, Screen
<1>5. ASSUME NEW d \in Calls PROVE Fits(call[d])'
  BY <1>1, <1>2, <1>3, <1>c DEF Fits, Saving
<1>6. OneConnect' /\ Used'
  BY <1>1, <1>2, <1>3, <1>c DEF OneConnect, Used
<1>8. Alone' /\ Recorded'
  BY <1>1, <1>2, <1>3, <1>c DEF Alone, Recorded, Saving
<1>7. FileFits'
  <2> SUFFICES ASSUME ~raced PROVE FileFits'
    BY <1>1 DEF FileFits
  <2>1. \A d \in Calls : ~Busy(d)'
    BY <1>1, <1>3, <1>c DEF FileFits, Busy
  <2>2. disk = r.copy
    BY <1>1 DEF FileFits
  <2>3. Kept(disk, memory)'
    BY <1>1, <2>2 DEF Kept, Loaded
  <2> QED
    BY <2>1, <2>3 DEF FileFits, Busy
<1> QED
  BY <1>4, <1>5, <1>6, <1>7, <1>8

-----------------------------------------------------------------------------
(* Streams and restarts                                                    *)

\* A stream is opened to the agent in use, which is the one that is shown.
LEMMA StartStreamKeeps ==
    ASSUME SessionInv, NEW c \in Calls, StartStream(c)
    PROVE  SessionInv'
<1> USE DEF SessionInv
<1>1. /\ call[c].op = "start" /\ call' = [call EXCEPT ![c] = Idle]
      /\ \/ agent = None /\ ended' = TRUE /\ streams' = streams
         \/ agent # None /\ ended' = ended /\ streams' = streams \cup {agent}
      /\ UNCHANGED <<agent, memory, disk, connected, shown, tab, moved, again, edited, raced>>
  BY DEF StartStream, appVars
<1>i. Idle \in Commands /\ Idle.op = "none" /\ Idle.phase = "none"
  BY BlankTypes DEF Idle
<1>p. call[c].phase \notin {"taken", "saved"}
  BY <1>1 DEF Fits, Saving
<1>c. /\ call' \in [Calls -> Commands] /\ call'[c] = Idle
      /\ \A d \in Calls : d # c => call'[d] = call[d]
  BY <1>1, <1>i DEF Typed
<1>2. Typed' /\ Screen'
  BY <1>1, <1>c DEF Typed, Screen
<1>3. ASSUME NEW d \in Calls PROVE Fits(call[d])'
  BY <1>1, <1>c, IdleFits DEF Fits
<1>4. OneConnect'
  BY <1>1, <1>c, <1>i DEF OneConnect
<1>5. Used'
  BY <1>1, <1>c, <1>i DEF Used
<1>6. FileFits'
  BY <1>1, <1>c, <1>i, <1>p DEF FileFits, Busy, Kept
<1>7. Alone'
  <2>1. ~again => connected /\ agent = shown
    BY <1>1 DEF Alone, Used
  <2> QED
    BY <1>1, <1>c, <1>i, <2>1 DEF Alone
<1>8. Recorded'
  BY <1>1, <1>c, <1>i DEF Recorded
<1> QED
  BY <1>2, <1>3, <1>4, <1>5, <1>6, <1>7, <1>8

LEMMA StreamEndsKeeps ==
    ASSUME SessionInv, NEW a \in Agents, StreamEnds(a)
    PROVE  SessionInv'
<1> USE DEF SessionInv
<1>1. /\ streams' = streams \ {a} /\ ended' = TRUE
      /\ UNCHANGED <<agent, memory, disk, connected, shown, tab, call, moved, again, edited, raced>>
  BY DEF StreamEnds, appVars
<1>2. Typed' /\ Screen' /\ OneConnect' /\ Used' /\ Alone' /\ Recorded'
  BY <1>1 DEF Typed, Screen, OneConnect, Used, Alone, Recorded
<1>3. ASSUME NEW d \in Calls PROVE Fits(call[d])'
  BY <1>1 DEF Fits
<1>4. FileFits'
  BY <1>1 DEF FileFits, Busy, Kept
<1> QED
  BY <1>2, <1>3, <1>4

\* The memory is what the file gives.
LEMMA RestartKeeps ==
    ASSUME SessionInv, Restart
    PROVE  SessionInv'
<1> USE DEF SessionInv
<1>1. /\ disk' \in {disk, None}
      /\ memory' = Loaded(disk') /\ agent' = memory'.agent
      /\ streams' = {} /\ connected' = FALSE /\ shown' = None /\ tab' = Closed
      /\ call' = [c \in Calls |-> Idle] /\ moved' = FALSE
  BY DEF Restart
<1>2. disk' \in Settings \cup {None}
  BY <1>1 DEF Typed
<1>3. memory' \in Settings
  BY <1>1, <1>2, LoadedTypes
<1>4. agent' \in Agents \cup {None}
  BY <1>1, <1>3 DEF Settings
<1>i. Idle \in Commands /\ Idle.op = "none" /\ Idle.phase = "none" /\ Closed \in Tabs /\ ~Closed.open
  BY BlankTypes DEF Idle, Closed
<1>5. Typed' /\ Screen'
  BY <1>1, <1>2, <1>3, <1>4, <1>i DEF Typed, Screen
<1>6. ASSUME NEW d \in Calls PROVE Fits(call[d])'
  BY <1>1, IdleFits
<1>7. OneConnect' /\ Used' /\ Alone' /\ Recorded'
  BY <1>1, <1>i DEF OneConnect, Used, Alone, Recorded
<1>8. FileFits'
  BY <1>1, <1>i DEF FileFits, Busy, Kept
<1> QED
  BY <1>5, <1>6, <1>7, <1>8

-----------------------------------------------------------------------------
(* The theorems                                                            *)

LEMMA InitHolds == SessionInit => SessionInv
<1> SUFFICES ASSUME SessionInit PROVE SessionInv
  OBVIOUS
<1>1. /\ Blank \in Settings /\ Closed \in Tabs /\ Idle \in Commands
      /\ Idle.op = "none" /\ Idle.phase = "none" /\ ~Closed.open
  BY BlankTypes DEF Idle, Closed
<1>2. Typed /\ Screen
  BY <1>1 DEF SessionInit, Typed, Screen
<1>3. ASSUME NEW c \in Calls PROVE Fits(call[c])
  BY <1>1 DEF SessionInit, Fits, Saving
<1>4. OneConnect /\ Used /\ Alone /\ Recorded
  BY <1>1 DEF SessionInit, OneConnect, Used, Alone, Recorded
<1>5. Kept(disk, memory)
  BY DEF SessionInit, Kept
<1>6. FileFits
  BY <1>1, <1>5 DEF SessionInit, FileFits, Busy
<1> QED
  BY <1>2, <1>3, <1>4, <1>6 DEF SessionInv

LEMMA StepKeeps ==
    ASSUME SessionInv, [SessionNext]_sessionVars
    PROVE  SessionInv'
<1>1. CASE UNCHANGED sessionVars
  <2>1. UNCHANGED <<agent, memory, disk, streams, connected, shown, tab, call, moved, again, edited, raced, ended>>
    BY <1>1 DEF sessionVars, agentVars, appVars, history
  <2>2. Typed' /\ Screen' /\ OneConnect' /\ Used' /\ Alone' /\ Recorded'
    BY <2>1 DEF SessionInv, Typed, Screen, OneConnect, Used, Alone, Recorded
  <2>3. ASSUME NEW c \in Calls PROVE Fits(call[c])'
    BY <2>1 DEF SessionInv, Fits
  <2>4. FileFits'
    BY <2>1 DEF SessionInv, FileFits, Busy, Kept
  <2> QED
    BY <2>2, <2>3, <2>4 DEF SessionInv
<1>2. ASSUME NEW c \in Calls, Take(c) \/ Save(c) \/ Keep(c) \/ Connected(c) \/ StartStream(c)
                              \/ Leave(c) \/ Disconnected(c)
      PROVE  SessionInv'
  BY <1>2, TakeKeeps, SaveKeeps, KeepKeeps, ConnectedKeeps, StartStreamKeeps, LeaveKeeps,
     DisconnectedKeeps
<1>3. ASSUME NEW c \in Calls, CalmStep(c) PROVE SessionInv'
  BY <1>3, CalmStepKeeps
<1>4. ASSUME NEW c \in Calls, NEW a \in Agents, Connect(c, a) PROVE SessionInv'
  BY <1>4, ConnectKeeps
<1>5. ASSUME NEW a \in Agents, StreamEnds(a) PROVE SessionInv'
  BY <1>5, StreamEndsKeeps
<1>6. CASE CloseTab \/ Restart
  BY <1>6, CloseTabKeeps, RestartKeeps
<1> QED
  BY <1>1, <1>2, <1>3, <1>4, <1>5, <1>6 DEF SessionNext, CalmStep

\* The inductive invariant: the settings are well-formed in every place they
\* are in, and every command in flight fits the session it runs in.
THEOREM SessionInvariant == SessionSpec => []SessionInv
BY InitHolds, StepKeeps, PTL DEF SessionSpec

\* Settings never name an active profile they do not have, in memory, in the
\* file or in a command, and the tab is open only while the window is connected.
THEOREM SessionTypeOKAlways == SessionSpec => []SessionTypeOK
<1>1. SessionInv => SessionTypeOK
  <2> SUFFICES ASSUME SessionInv PROVE SessionTypeOK
    OBVIOUS
  <2>1. WellFormed(memory) /\ (disk = None \/ WellFormed(disk))
    BY DEF SessionInv, Typed, Settings
  <2>2. \A c \in Calls : WellFormed(call[c].copy)
    BY DEF SessionInv, Typed, Commands, Settings
  <2> QED
    BY <2>1, <2>2 DEF SessionInv, Typed, Screen, Tabs, SessionTypeOK
<1> QED
  BY <1>1, SessionInvariant, PTL

\* handleConnect and start_event_stream: unless it was left or switched since
\* the connect, the agent the window shows is the one that commands go to;
\* its stream is open unless it ended, and no other one is unless an agent
\* was left or switched in this run of the program.
THEOREM AgentShownIsUsedAlways == SessionSpec => []AgentShownIsUsed
<1>1. SessionInv => AgentShownIsUsed
  BY DEF SessionInv, Used, Alone, AgentShownIsUsed, Quiet, Idle
<1> QED
  BY <1>1, SessionInvariant, PTL

\* A file that was not cut short keeps the agent it names when it is loaded.
LEMMA LoadedAgent ==
    ASSUME NEW d \in Settings
    PROVE  d # None => Loaded(d).agent = d.agent
<1>1. CASE d.profiles = Blank.profiles
  BY <1>1 DEF Loaded, Settings
<1>2. CASE d.profiles # Blank.profiles
  BY <1>2 DEF Loaded
<1> QED
  BY <1>1, <1>2

\* load_settings gives the profiles and the active one that were in memory,
\* and the agent the window is connected to, unless commands overlapped, the
\* file was cut short, the list was empty, or a profile command that was saved
\* since the connect put back the agent that memory has.
THEOREM RestartKeepsProfilesAlways == SessionSpec => []RestartKeepsProfiles
<1>1. ASSUME SessionInv, Quiet, ~raced, disk # None
      PROVE  /\ \/ Loaded(disk).profiles = memory.profiles /\ Loaded(disk).active = memory.active
                \/ memory.profiles = Blank.profiles
             /\ connected => Loaded(disk).agent = shown \/ edited
  <2>1. disk \in Settings
    BY <1>1 DEF SessionInv, Typed
  <2>2. Loaded(disk).agent = disk.agent
    BY <1>1, <2>1, LoadedAgent
  <2>3. Kept(disk, memory)
    BY <1>1 DEF SessionInv, FileFits, Quiet, Idle
  <2> QED
    BY <1>1, <2>2, <2>3 DEF SessionInv, Recorded, Kept
<1>2. SessionInv => RestartKeepsProfiles
  BY <1>1 DEF RestartKeepsProfiles
<1> QED
  BY <1>2, SessionInvariant, PTL
=============================================================================
