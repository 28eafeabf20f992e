-------------------------------- MODULE Session --------------------------------
(***************************************************************************)
(* A desktop's session with its agents: App.tsx, the Connection tab of     *)
(* pages/Settings.tsx and the commands of src-tauri they send.  Settings   *)
(* are kept twice, in memory and in a file; a command clones the ones in   *)
(* memory, saves its clone and then keeps it, and commands may overlap.    *)
(* connect_agent saves its clone and does not keep it.  An agent stands    *)
(* for a url with its token.                                               *)
(***************************************************************************)
EXTENDS Naturals, FiniteSets

CONSTANTS
    Agents, Local,  \* agents, the one of the default url and no token among them
    Names, Default, \* names of profiles, "Default" among them
    Calls,          \* bound: commands at once
    MaxEdits,       \* bound: commands that change profiles
    None

ASSUME SessionAssumption ==
    Default \in Names /\ Local \in Agents /\ None \notin Agents \cup Names

VARIABLES
    agent,      \* AppState: the agent commands go to
    memory,     \* AppState: the settings
    disk,       \* settings.json; None when a write of it was cut short
    streams,    \* the agents that an event stream is open to; none is ever stopped
    connected, shown,   \* App: whether, and to which agent
    tab,        \* the Connection tab: whether it is open, and what it lists
    call,       \* the commands
    edits,      \* how many profile commands were sent
    moved,      \* history: the agent was left or switched since the last connect
    again,      \* history: it was so at any time in this run of the program
    edited,     \* history: profile commands have saved settings since
    raced,      \* history: commands that change the settings overlapped
    ended       \* history: a stream ended by itself, or never began

agentVars == <<agent, memory, disk, streams>>
appVars   == <<connected, shown, tab>>
history   == <<edits, moved, again, edited, raced, ended>>
sessionVars == <<agentVars, appVars, call, history>>

Blank  == [profiles |-> [n \in Names |-> None], active |-> None, agent |-> None]
Closed == [open |-> FALSE, listed |-> {}, active |-> None]
Idle   == [op |-> "none", phase |-> "none", name |-> None, agent |-> None, copy |-> Blank]
Sent(op, n, a) == [Idle EXCEPT !.op = op, !.phase = "sent", !.name = n, !.agent = a]

\* A file without profiles yields one for the agent it names; None is the
\* default url, whose token is missing.
Loaded(d) ==
    CASE d = None -> Blank
      [] d # None /\ d.profiles = Blank.profiles
             -> [d EXCEPT !.profiles[Default] = IF d.agent = None THEN Local ELSE d.agent,
                          !.active = Default]
      [] OTHER -> d

\* The first start writes the default settings.
SessionInit ==
    /\ agent = None /\ memory = Blank /\ disk = Blank
    /\ streams = {}
    /\ connected = FALSE /\ shown = None /\ tab = Closed
    /\ call = [c \in Calls |-> Idle]
    /\ edits = 0 /\ moved = FALSE /\ again = FALSE /\ edited = FALSE
    /\ raced = FALSE /\ ended = FALSE

Send(c, r)  == call[c] = Idle /\ call' = [call EXCEPT ![c] = r]
Flying(ops) == {c \in Calls : call[c].op \in ops}

-----------------------------------------------------------------------------
(* What the user does                                                      *)

\* ConnectPage: the button is disabled until the answer is there.
Connect(c, a) ==
    /\ ~connected /\ Flying({"connect"}) = {}
    /\ Send(c, Sent("connect", None, a))
    /\ UNCHANGED <<agentVars, appVars, history>>

Disconnect(c) ==
    /\ connected /\ tab.open
    /\ Send(c, Sent("disconnect", None, None))
    /\ UNCHANGED <<agentVars, appVars, history>>

OpenTab(c) ==
    /\ connected /\ ~tab.open
    /\ tab' = [Closed EXCEPT !.open = TRUE]
    /\ Send(c, Sent("load", None, None))
    /\ UNCHANGED <<agentVars, connected, shown, history>>

\* What the tab had asked for is not shown any more.
CloseTab ==
    /\ tab.open
    /\ tab' = Closed
    /\ call' = [c \in Calls |-> IF call[c].op = "load" THEN Idle ELSE call[c]]
    /\ UNCHANGED <<agentVars, connected, shown, history>>

Edit(c, r) ==
    /\ tab.open /\ edits < MaxEdits /\ edits' = edits + 1
    /\ Send(c, r)
    /\ UNCHANGED <<agentVars, appVars, moved, again, edited, raced, ended>>

AddProfile(c, n, a) == Edit(c, Sent("add", n, a))
RemoveProfile(c, n) == n \in tab.listed /\ Edit(c, Sent("remove", n, None))
SwitchProfile(c, n) == n \in tab.listed /\ tab.active # n /\ Edit(c, Sent("switch", n, None))

-----------------------------------------------------------------------------
(* The commands that change settings                                       *)

Saving == {"connect", "add", "remove", "switch"}

\* Mutant of Clone: the profile that is removed stays the active one.
CloneKeepsActive(r) ==
    CASE r.op = "connect" -> [memory EXCEPT !.agent = r.agent]
      [] r.op = "add"     -> [memory EXCEPT !.profiles[r.name] = r.agent]
      [] r.op = "remove"  -> [memory EXCEPT !.profiles[r.name] = None]
      [] r.op = "switch"  -> [memory EXCEPT !.active = r.name, !.agent = memory.profiles[r.name]]

\* The clone of the settings a command is going to save.  Removing the active
\* profile leaves the agent as it is.
Clone(r) ==
    CASE r.op = "connect" -> [memory EXCEPT !.agent = r.agent]
      [] r.op = "add"     -> [memory EXCEPT !.profiles[r.name] = r.agent]
      [] r.op = "remove"  -> [memory EXCEPT !.profiles[r.name] = None,
                                            !.active = IF @ = r.name THEN None ELSE @]
      [] r.op = "switch"  -> [memory EXCEPT !.active = r.name, !.agent = memory.profiles[r.name]]

\* connect_agent has reached the agent, set_active_agent found the profile:
\* the agent changes before the settings are saved.
Take(c) ==
    LET r == call[c]
    IN  /\ r.op \in Saving /\ r.phase = "sent"
        /\ r.op = "switch" => memory.profiles[r.name] # None
        /\ call' = [call EXCEPT ![c].phase = "taken", ![c].copy = Clone(r), ![c].name = None]
        /\ agent' = IF r.op \in {"connect", "switch"} THEN Clone(r).agent ELSE agent
        /\ moved' = IF r.op = "connect" THEN FALSE ELSE moved \/ r.op = "switch"
        /\ again' = (again \/ r.op = "switch")
        /\ raced' = (raced \/ \E d \in Calls : call[d].phase \in {"taken", "saved"})
        /\ UNCHANGED <<memory, disk, streams, appVars, edits, edited, ended>>

Save(c) ==
    LET r == call[c]
    IN  /\ r.phase = "taken"
        /\ disk' = r.copy
        /\ call' = [call EXCEPT ![c] = IF r.op = "connect" THEN [@ EXCEPT !.phase = "done", !.copy = Blank]
                                                     ELSE [@ EXCEPT !.phase = "saved"]]
        /\ edited' = (r.op # "connect")
        /\ UNCHANGED <<agent, memory, streams, appVars, edits, moved, again, raced, ended>>

Keep(c) ==
    /\ call[c].phase = "saved"
    /\ memory' = call[c].copy
    /\ call' = [call EXCEPT ![c].phase = "done", ![c].copy = Blank]
    /\ UNCHANGED <<agent, disk, streams, appVars, history>>

\* Mutant of Fail: the settings are kept although they could not be saved.
FailKeeps(c) ==
    LET r == call[c]
    IN  /\ \/ r.op \in {"connect", "load"} /\ r.phase = "sent" /\ UNCHANGED disk
           \/ r.op = "switch" /\ r.phase = "sent" /\ memory.profiles[r.name] = None /\ UNCHANGED disk
           \/ r.phase = "taken" /\ disk' \in {disk, None}
        /\ call' = [call EXCEPT ![c] = Idle]
        /\ memory' = IF r.phase = "taken" THEN r.copy ELSE memory
        /\ UNCHANGED <<agent, streams, appVars, history>>

\* The agent does not answer, the profile is gone, or the file cannot be
\* written, if not cut short; an error is shown.
Fail(c) ==
    LET r == call[c]
    IN  /\ \/ r.op \in {"connect", "load"} /\ r.phase = "sent" /\ UNCHANGED disk
           \/ r.op = "switch" /\ r.phase = "sent" /\ memory.profiles[r.name] = None /\ UNCHANGED disk
           \/ r.phase = "taken" /\ disk' \in {disk, None}
        /\ call' = [call EXCEPT ![c] = Idle]
        /\ UNCHANGED <<agent, memory, streams, appVars, history>>

\* handleConnect: the stream is asked for, and not waited for.
Connected(c) ==
    LET r == call[c]
    IN  /\ r.op = "connect" /\ r.phase = "done"
        /\ connected' = TRUE /\ shown' = r.agent
        /\ call' = [call EXCEPT ![c] = Sent("start", None, None)]
        /\ ended' = FALSE
        /\ UNCHANGED <<agentVars, tab, edits, moved, again, edited, raced>>

\* The tab loads again after each profile command.
Changed(c) ==
    /\ call[c].op \in Saving \ {"connect"} /\ call[c].phase = "done"
    /\ call' = [call EXCEPT ![c] = IF tab.open THEN Sent("load", None, None) ELSE Idle]
    /\ UNCHANGED <<agentVars, appVars, history>>

-----------------------------------------------------------------------------
(* The other commands                                                      *)

\* Mutant of StartStream: the stream is opened to the agent of the settings.
StartStreamOfSettings(c) ==
    /\ call[c].op = "start"
    /\ call' = [call EXCEPT ![c] = Idle]
    /\ IF memory.agent = None
       THEN ended' = TRUE /\ UNCHANGED streams
       ELSE streams' = streams \cup {memory.agent} /\ UNCHANGED ended
    /\ UNCHANGED <<agent, memory, disk, appVars, edits, moved, again, edited, raced>>

\* start_event_stream: the task it spawns lives until its stream ends.
StartStream(c) ==
    /\ call[c].op = "start"
    /\ call' = [call EXCEPT ![c] = Idle]
    /\ IF agent = None
       THEN ended' = TRUE /\ UNCHANGED streams
       ELSE streams' = streams \cup {agent} /\ UNCHANGED ended
    /\ UNCHANGED <<agent, memory, disk, appVars, edits, moved, again, edited, raced>>

StreamEnds(a) ==
    /\ a \in streams /\ streams' = streams \ {a}
    /\ ended' = TRUE
    /\ UNCHANGED <<agent, memory, disk, appVars, call, edits, moved, again, edited, raced>>

\* disconnect_agent forgets the agent, for this run of the program.
Leave(c) ==
    /\ call[c].op = "disconnect" /\ call[c].phase = "sent"
    /\ agent' = None /\ moved' = TRUE /\ again' = TRUE
    /\ call' = [call EXCEPT ![c].phase = "done"]
    /\ UNCHANGED <<memory, disk, streams, appVars, edits, edited, raced, ended>>

Disconnected(c) ==
    /\ call[c].op = "disconnect" /\ call[c].phase = "done"
    /\ connected' = FALSE /\ shown' = None /\ tab' = Closed
    /\ call' = [d \in Calls |-> IF d = c \/ call[d].op = "load" THEN Idle ELSE call[d]]
    /\ UNCHANGED <<agentVars, history>>

\* The tab is filled only if the agent answers too.
Load(c) ==
    /\ call[c].op = "load" /\ agent # None
    /\ tab' = [open |-> TRUE, listed |-> {n \in Names : memory.profiles[n] # None},
               active |-> memory.active]
    /\ call' = [call EXCEPT ![c] = Idle]
    /\ UNCHANGED <<agentVars, connected, shown, history>>

\* The program is closed, or dies while it writes the file, and starts again.
Restart ==
    /\ disk' \in {disk} \cup (IF \E c \in Calls : call[c].phase = "taken" THEN {None} ELSE {})
    /\ memory' = Loaded(disk') /\ agent' = memory'.agent
    /\ streams' = {}
    /\ connected' = FALSE /\ shown' = None /\ tab' = Closed
    /\ call' = [c \in Calls |-> Idle]
    /\ moved' = FALSE /\ again' = FALSE /\ edited' = FALSE
    /\ raced' = FALSE /\ ended' = FALSE /\ UNCHANGED edits

-----------------------------------------------------------------------------
SessionNext ==
    \/ \E c \in Calls :
          \/ Take(c) \/ Save(c) \/ Keep(c) \/ Fail(c) \/ Connected(c) \/ Changed(c)
          \/ StartStream(c) \/ Disconnect(c) \/ Leave(c) \/ Disconnected(c)
          \/ OpenTab(c) \/ Load(c)
          \/ \E a \in Agents : Connect(c, a) \/ \E n \in Names : AddProfile(c, n, a)
          \/ \E n \in Names : RemoveProfile(c, n) \/ SwitchProfile(c, n)
    \/ \E a \in Agents : StreamEnds(a)
    \/ CloseTab \/ Restart

SessionSpec == SessionInit /\ [][SessionNext]_sessionVars

-----------------------------------------------------------------------------
(* Properties                                                              *)

\* Settings name an active profile only if they have it: add, remove, switch
\* and load replace the whole record.
WellFormed(s) ==
    /\ s.profiles \in [Names -> Agents \cup {None}]
    /\ s.agent \in Agents \cup {None}
    /\ s.active # None => s.active \in Names /\ s.profiles[s.active] # None

\* Every variable keeps its type; the settings in memory and in the file
\* name no active profile that they do not have.
SessionTypeOK ==
    /\ agent \in Agents \cup {None}
    /\ WellFormed(memory) /\ (disk = None \/ WellFormed(disk))
    /\ streams \subseteq Agents
    /\ connected \in BOOLEAN /\ shown \in Agents \cup {None} /\ (connected <=> shown # None)
    /\ tab.open \in BOOLEAN /\ (tab.open => connected)
    /\ tab.listed \subseteq Names /\ tab.active \in Names \cup {None}
    /\ \A c \in Calls : WellFormed(call[c].copy)

Quiet == \A c \in Calls : call[c] = Idle

\* While no command runs, a restart brings back the profiles and the active
\* one, and goes to the agent the window is connected to.  The exceptions:
\* two commands overlapped; the last write of the file was cut short, and all
\* is lost; an empty list may get the profile load_settings makes up; and a
\* profile command that was saved after the connect has put back the agent in
\* memory, which connect_agent does not change.
RestartKeepsProfiles ==
    Quiet /\ ~raced =>
        \/ disk = None
        \/ /\ \/ Loaded(disk).profiles = memory.profiles /\ Loaded(disk).active = memory.active
              \/ memory.profiles = Blank.profiles
           /\ connected => Loaded(disk).agent = shown \/ edited

\* While no command runs, and unless a profile was switched or the Disconnect
\* button used since the connect, commands go to the agent the window shows.
\* Events come from it, unless its stream ended, and from no other, unless one
\* was left or switched in this run: no stream is ever stopped.
AgentShownIsUsed ==
    Quiet /\ connected /\ ~moved =>
        /\ agent = shown
        /\ shown \in streams \/ ended
        /\ streams \subseteq {shown} \/ again
=============================================================================
