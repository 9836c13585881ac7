---------------------------- MODULE SessionFiles ----------------------------
(***************************************************************************)
(* What an application keeps of its windows over restarts: session.json,   *)
(* written whenever a window changes and read when it starts               *)
(* (src/session.rs, with its callers in src/main.rs and                    *)
(* src/ui/root_view.rs), and the workspace that the user saves from a      *)
(* window and restores into any (src/session_manager.rs); it is written on *)
(* a thread of its own.                                                    *)
(*                                                                         *)
(* A tab stands for its sessions in the host.  A window is the set of its  *)
(* tabs, a saved session a set of windows, which keep their names when     *)
(* they are restored: the order of both, which is active and where they    *)
(* are decides nothing here.  Windows are the GUI thread's, which waits    *)
(* for a save to end; the application, or the machine, may stop between    *)
(* any two file operations.                                                *)
(***************************************************************************)
EXTENDS Integers

CONSTANTS Windows, NoWindow, \* WindowIds of one run; None
          Tabs,              \* bound: tabs ever made that something still knows
          MaxStarts,         \* bound: starts of the application
          MaxSaves           \* bound: workspaces saved, in all starts

ASSUME WindowsAssumption == NoWindow \notin Windows
ASSUME BoundsAssumption == MaxStarts \in Nat /\ MaxSaves \in Nat

VARIABLES
  phase,           \* of the application: see Phases
  tabs,            \* RootView.tabs of each window, {}: no such window
  opening,         \* the window being restored
  left,            \* tabs of it not yet restored
  moving,          \* a tab that left its window and has none yet
  to_register,     \* windows that on_app_quit has yet to register
  entries,         \* WindowSnapshots.windows; live: those with a WindowId
  last_closed,     \* WindowSnapshots.last_closed, as a set; {}: None
  saving,          \* the session that save() writes, {}: no save under way
  synced,          \* its temporary file is written and synced
  session_file,    \* session.json
  session_durable, \* what a power loss may bring back
  save,            \* how far the thread of each saved workspace is
  saved_revision,  \* SAVED_REVISIONS, 0: none
  workspace,       \* the workspace file: its tabs, {}: it cannot be read; which save
                   \* of this start it is of, 0: none
  captured,        \* the tabs that those threads are to save
  starts,          \* history: starts of the application
  failed,          \* history: the last save of the session failed
  gone,            \* history: tabs that were closed or given up in this run
  shared           \* history: tabs that a workspace brought to a second window

windowVars == <<phase, tabs, opening, left, moving, to_register>>
snapshotVars == <<entries, last_closed>>
savingVars == <<saving, synced, failed>>
fileVars == <<session_file, session_durable>>
threadVars == <<save, saved_revision, captured>>
historyVars == <<starts, gone, shared>>
vars == <<windowVars, snapshotVars, savingVars, fileVars, threadVars, workspace, historyVars>>

Phases == {"off", "first", "restoring", "open", "leaving", "left"}
Saves == 1..MaxSaves
NoFile == [windows |-> {}, state |-> "synced"]
TornFile == [windows |-> {}, state |-> "torn"]

TabsIn(session) == UNION {window.tabs : window \in session}
Saved(w, ts) == [id |-> w, tabs |-> ts]
Live(w, ts) == [id |-> w, live |-> TRUE, tabs |-> ts]
KeptIn(es) == {Saved(e.id, e.tabs) : e \in es}
Open == {w \in Windows : tabs[w] # {}}
Fresh == Tabs \ (gone \cup shared \cup left \cup moving
                 \cup TabsIn(last_closed) \cup TabsIn(entries)
                 \cup TabsIn(session_file.windows) \cup TabsIn(session_durable.windows)
                 \cup workspace.tabs \cup UNION {captured[n] : n \in Saves})

NoTabs == [w \in Windows |-> {}]
NoThreads == [n \in Saves |-> "none"]
NothingCaptured == [n \in Saves |-> {}]

Init == /\ phase = "off" /\ tabs = NoTabs
        /\ opening = NoWindow /\ left = {} /\ moving = {} /\ to_register = {}
        /\ entries = {} /\ last_closed = {}
        /\ saving = {} /\ synced = FALSE /\ failed = FALSE
        /\ save = NoThreads /\ saved_revision = 0
        /\ session_file = NoFile /\ session_durable = NoFile
        /\ workspace = [stamp |-> 0, tabs |-> {}]
        /\ captured = NothingCaptured /\ starts = 0 /\ gone = {} /\ shared = {}

-----------------------------------------------------------------------------
(* The snapshots of all windows, and their save *)

Session(es, closed) == IF es = {} THEN closed ELSE KeptIn(es)

\* Every change of the snapshots is saved before the lock is released.
Persist(es, closed) ==
  /\ entries' = es /\ last_closed' = closed
  /\ saving' = Session(es, closed) /\ synced' = FALSE
  /\ UNCHANGED <<failed, fileVars, threadVars, workspace>>

\* Mutant: a window that is known already is added once more.
AddedAgain(w, ts) == entries \cup {Live(w, ts)}
Registered(w, ts) == {e \in entries : e.id # w} \cup {Live(w, ts)}
Register(w, ts) == /\ tabs' = [tabs EXCEPT ![w] = ts]
                   /\ Persist(Registered(w, ts), {})

WriteTemp == /\ saving # {} /\ ~synced /\ synced' = TRUE
             /\ UNCHANGED <<windowVars, snapshotVars, saving, failed, fileVars, threadVars,
                            workspace, historyVars>>
\* Mutant: the file is replaced before the new one is synced.
Unsynced == saving # {}
MayReplace == saving # {} /\ synced
ReplaceFile == /\ MayReplace
               /\ session_file' = [windows |-> saving,
                                   state |-> IF synced THEN "synced" ELSE "cached"]
               /\ saving' = {} /\ synced' = FALSE /\ failed' = FALSE
               /\ UNCHANGED <<windowVars, snapshotVars, session_durable, threadVars, workspace,
                              historyVars>>
SaveFails == /\ saving # {}
             /\ saving' = {} /\ synced' = FALSE /\ failed' = TRUE
             /\ UNCHANGED <<windowVars, snapshotVars, fileVars, threadVars, workspace, historyVars>>

-----------------------------------------------------------------------------
(* Start *)

\* A file that cannot be read or parsed counts as none.
Start == /\ phase = "off" /\ starts < MaxStarts
         /\ starts' = starts + 1
         /\ \E readable \in BOOLEAN :
              LET session == IF readable THEN session_file.windows ELSE {} IN
              /\ phase' = IF session = {} THEN "first" ELSE "restoring"
              /\ entries' = {[id |-> window.id, live |-> FALSE, tabs |-> window.tabs] :
                              window \in session}
              /\ gone' = TabsIn(session_file.windows) \ TabsIn(session)
         /\ UNCHANGED <<tabs, opening, left, moving, to_register, last_closed, savingVars,
                        fileVars, threadVars, workspace, shared>>

\* A window that is left without tabs gets a new one.
\* Mutant: it does not.
MayBeEmpty(ts) == {ts}
NeverEmpty(ts) == IF ts = {} THEN {{t} : t \in Fresh} ELSE {ts}

OpenFirst(w) == /\ phase = "first"
                /\ \E ts \in NeverEmpty({}) : Register(w, ts)
                /\ phase' = "open"
                /\ UNCHANGED <<opening, left, moving, to_register, historyVars>>

\* The window takes the place of the saved one that it restores.
OpenRestored(e) ==
  /\ phase = "restoring" /\ opening = NoWindow /\ saving = {}
  /\ e \in entries /\ ~e.live
  /\ opening' = e.id /\ left' = e.tabs
  /\ entries' = (entries \ {e}) \cup {Live(e.id, e.tabs)}
  /\ UNCHANGED <<phase, tabs, moving, to_register, last_closed, savingVars, fileVars, threadVars,
                 workspace, historyVars>>

\* create_restored_tab saves the window with the tabs that it has so far.
RestoreTab(t) == /\ opening # NoWindow /\ t \in left /\ saving = {}
                 /\ left' = left \ {t}
                 /\ Register(opening, tabs[opening] \cup {t})
                 /\ UNCHANGED <<phase, opening, moving, to_register, historyVars>>
\* None of its sessions is left.
DropTab(t) == /\ opening # NoWindow /\ t \in left /\ saving = {}
              /\ left' = left \ {t} /\ gone' = gone \cup {t}
              /\ UNCHANGED <<phase, tabs, opening, moving, to_register, snapshotVars, savingVars,
                             fileVars, threadVars, workspace, starts, shared>>
FinishWindow ==
  /\ opening # NoWindow /\ left = {} /\ saving = {}
  /\ \E ts \in NeverEmpty(tabs[opening]) : Register(opening, ts)
  /\ opening' = NoWindow
  /\ phase' = IF \E e \in entries : ~e.live THEN "restoring" ELSE "open"
  /\ UNCHANGED <<left, moving, to_register, historyVars>>

-----------------------------------------------------------------------------
(* The user *)

UsersTurn == phase = "open" /\ saving = {} /\ moving = {}

NewWindow(w) == /\ UsersTurn /\ Open # {} /\ tabs[w] = {}
                /\ \E ts \in NeverEmpty({}) : Register(w, ts)
                /\ UNCHANGED <<phase, opening, left, moving, to_register, historyVars>>

\* None for a window whose titles, directories or active tab change.
AddTabs(w, ts) == /\ UsersTurn /\ tabs[w] # {} /\ ts \subseteq Fresh
                  /\ Register(w, tabs[w] \cup ts)
                  /\ UNCHANGED <<phase, opening, left, moving, to_register, historyVars>>

CloseTabs(w, ts) == /\ UsersTurn /\ ts # {} /\ ts \subseteq tabs[w]
                    /\ \E kept \in NeverEmpty(tabs[w] \ ts) : Register(w, kept)
                    /\ gone' = gone \cup ts
                    /\ UNCHANGED <<phase, opening, left, moving, to_register, starts, shared>>

\* "Move to New Window" saves the window without the tab, then opens another.
LeaveWindow(w, t) == /\ UsersTurn /\ t \in tabs[w] /\ tabs[w] # {t}
                     /\ Register(w, tabs[w] \ {t}) /\ moving' = {t}
                     /\ UNCHANGED <<phase, opening, left, to_register, historyVars>>
EnterWindow(w) == /\ moving # {} /\ saving = {} /\ tabs[w] = {}
                  /\ Register(w, moving) /\ moving' = {}
                  /\ UNCHANGED <<phase, opening, left, to_register, historyVars>>
NoNewWindow == /\ moving # {} /\ saving = {}
               /\ gone' = gone \cup moving /\ moving' = {}
               /\ UNCHANGED <<phase, tabs, opening, left, to_register, snapshotVars, savingVars,
                              fileVars, threadVars, workspace, starts, shared>>

\* persist_window: the last window stays what a restart opens, and so do those
\* that go with the application.
\* Mutant: windows that close while the application quits are removed.
NeverQuits == FALSE
Quitting == phase = "left"
CloseWindow(w) ==
  /\ phase \in {"open", "left"} /\ saving = {} /\ moving = {} /\ tabs[w] # {}
  /\ tabs' = [tabs EXCEPT ![w] = {}]
  /\ gone' = IF phase = "open" THEN gone \cup tabs[w] ELSE gone
  /\ IF Quitting
     THEN UNCHANGED <<snapshotVars, savingVars, fileVars, threadVars, workspace>>
     ELSE \E e \in entries : /\ e.id = w
                             /\ Persist(entries \ {e}, IF entries = {e} THEN KeptIn({e}) ELSE last_closed)
  /\ UNCHANGED <<phase, opening, left, moving, to_register, starts, shared>>

-----------------------------------------------------------------------------
(* Stop *)

\* on_app_quit registers every window that it can read, then persist_before_quit
\* saves once more.
Quit == /\ UsersTurn
        /\ phase' = "leaving" /\ to_register' = Open
        /\ UNCHANGED <<tabs, opening, left, moving, snapshotVars, savingVars, fileVars, threadVars,
                       workspace, historyVars>>
RegisterForQuit(w) ==
  /\ phase = "leaving" /\ saving = {} /\ w \in to_register
  /\ \/ Register(w, tabs[w])
     \/ UNCHANGED <<tabs, snapshotVars, savingVars, fileVars, threadVars, workspace>>
  /\ to_register' = to_register \ {w}
  /\ UNCHANGED <<phase, opening, left, moving, historyVars>>
PersistBeforeQuit == /\ phase = "leaving" /\ saving = {} /\ to_register = {}
                     /\ phase' = "left" /\ Persist(entries, last_closed)
                     /\ UNCHANGED <<tabs, opening, left, moving, to_register, historyVars>>

MemoryLost ==
  /\ phase' = "off" /\ tabs' = NoTabs
  /\ opening' = NoWindow /\ left' = {} /\ moving' = {} /\ to_register' = {}
  /\ entries' = {} /\ last_closed' = {}
  /\ saving' = {} /\ synced' = FALSE /\ failed' = FALSE
  /\ save' = [n \in Saves |-> IF save[n] = "none" THEN "none" ELSE "over"]
  /\ captured' = NothingCaptured /\ saved_revision' = 0

\* The application exits, by itself or not; nothing waits for a workspace's thread.
Exit == /\ phase # "off" /\ MemoryLost
        /\ workspace' = [workspace EXCEPT !.stamp = 0]
        /\ UNCHANGED <<fileVars, historyVars>>

\* The directory is not synced: after a rename, either file may come back.  The
\* workspace's file is not synced either: it may be torn.  (An older one comes back
\* as if the thread that replaced it had been slower.)
Writeback == /\ session_durable # session_file
             /\ session_file' = [session_file EXCEPT !.state = "synced"]
             /\ session_durable' = session_file'
             /\ UNCHANGED <<windowVars, snapshotVars, savingVars, threadVars, workspace, historyVars>>
PowerLoss ==
  /\ MemoryLost
  /\ session_file' \in {session_file, session_durable}
                       \cup (IF session_file.state = "cached" THEN {TornFile} ELSE {})
  /\ session_durable' = session_file'
  /\ \E ts \in {{}, workspace.tabs} : workspace' = [stamp |-> 0, tabs |-> ts]
  /\ UNCHANGED historyVars

-----------------------------------------------------------------------------
(* Workspaces: save_session_with_snapshots holds SAVED_REVISIONS *)

\* The tabs are captured and the revision is taken on the GUI's thread.
SaveWorkspace(w) ==
  /\ UsersTurn /\ tabs[w] # {}
  /\ \E n \in Saves : /\ save[n] = "none" /\ \A m \in 1..(n - 1) : save[m] # "none"
                      /\ captured' = [captured EXCEPT ![n] = tabs[w]]
                      /\ save' = [save EXCEPT ![n] = "waiting"]
  /\ UNCHANGED <<windowVars, snapshotVars, savingVars, fileVars, saved_revision, workspace,
                 historyVars>>

\* restore_workspace_session: tabs whose sessions the window itself shows are left
\* out, and those whose sessions have stopped; a pane that never had a session gets
\* a shell.
RestoreWorkspace(w, ts) ==
  /\ UsersTurn /\ tabs[w] # {} /\ ts \subseteq (workspace.tabs \ tabs[w]) \cup Fresh
  /\ Register(w, tabs[w] \cup ts)
  /\ gone' = gone \ ts
  /\ shared' = shared \cup (ts \cap UNION {tabs[other] : other \in Windows})
  /\ UNCHANGED <<phase, opening, left, moving, to_register, starts>>

Writing == {n \in Saves : save[n] = "writing"}
\* Mutant: an older save is not held back.
NotHeldBack(n) == FALSE
IsOutdated(n) == saved_revision > n

BeginWorkspace(n) == /\ save[n] = "waiting" /\ Writing = {} /\ ~IsOutdated(n)
                     /\ save' = [save EXCEPT ![n] = "writing"]
                     /\ UNCHANGED <<windowVars, snapshotVars, savingVars, fileVars, captured,
                                    saved_revision, workspace, historyVars>>
EndThread(n, result) == /\ save' = [save EXCEPT ![n] = result]
                        /\ captured' = [captured EXCEPT ![n] = {}]
                        /\ UNCHANGED <<windowVars, snapshotVars, savingVars, fileVars, historyVars>>
SkipWorkspace(n) == /\ save[n] = "waiting" /\ Writing = {} /\ IsOutdated(n)
                    /\ EndThread(n, "saved") /\ UNCHANGED <<saved_revision, workspace>>
ReplaceWorkspace(n) == /\ save[n] = "writing" /\ EndThread(n, "saved")
                       /\ workspace' = [stamp |-> n, tabs |-> captured[n]]
                       /\ saved_revision' = n
\* A snapshot cannot be compressed, or a file operation fails.
FailWorkspace(n) == /\ save[n] = "writing" /\ EndThread(n, "over")
                    /\ UNCHANGED <<saved_revision, workspace>>

WindowStep(w) == \/ OpenFirst(w) \/ NewWindow(w) \/ EnterWindow(w) \/ CloseWindow(w)
                 \/ RegisterForQuit(w) \/ SaveWorkspace(w)
                 \/ \E ts \in SUBSET Tabs : \/ AddTabs(w, ts) \/ CloseTabs(w, ts)
                                             \/ RestoreWorkspace(w, ts)
                 \/ \E t \in Tabs : LeaveWindow(w, t)

Next == \/ \E w \in Windows : WindowStep(w)
        \/ \E e \in entries : OpenRestored(e)
        \/ \E t \in Tabs : RestoreTab(t) \/ DropTab(t)
        \/ FinishWindow \/ NoNewWindow
        \/ WriteTemp \/ ReplaceFile \/ SaveFails
        \/ Start \/ Quit \/ PersistBeforeQuit \/ Exit \/ Writeback \/ PowerLoss
        \/ \E n \in Saves : BeginWorkspace(n) \/ SkipWorkspace(n) \/ ReplaceWorkspace(n)
                            \/ FailWorkspace(n)

Spec == Init /\ [][Next]_vars

-----------------------------------------------------------------------------
(* Properties *)

Shown == (SUBSET Tabs) \ {{}}
Session_ == SUBSET [id : Windows, tabs : Shown]
File_ == [windows : Session_, state : {"synced", "cached", "torn"}]

\* Types of all variables.  A saved session has no window without tabs: one would
\* be restored as a window that shows nothing of what was closed.
TypeOK ==
  /\ phase \in Phases
  /\ tabs \in [Windows -> SUBSET Tabs]
  /\ opening \in Windows \cup {NoWindow} /\ left \in SUBSET Tabs
  /\ moving \in SUBSET Tabs /\ to_register \in SUBSET Windows
  /\ entries \in SUBSET [id : Windows, live : BOOLEAN, tabs : Shown]
  /\ last_closed \in Session_
  /\ saving \in Session_ /\ synced \in BOOLEAN /\ failed \in BOOLEAN
  /\ session_file \in File_ /\ session_durable \in File_
  /\ save \in [Saves -> {"none", "waiting", "writing", "saved", "over"}]
  /\ saved_revision \in Nat
  /\ captured \in [Saves -> SUBSET Tabs]
  /\ workspace \in [stamp : 0..MaxSaves, tabs : SUBSET Tabs]
  /\ starts \in Nat /\ gone \in SUBSET Tabs /\ shared \in SUBSET Tabs

\* While the application runs, a tab leaves session.json only when the user closed
\* it, its sessions are gone, or it is on its way into a window: neither the
\* restoration of several windows nor quitting loses one ("Keep all saved windows
\* until each restored window has a live WindowId", src/session.rs:54).
TabsLeaveByClosing ==
  [][(phase # "off" /\ phase' # "off") =>
       TabsIn(session_file.windows) \ TabsIn(session_file'.windows)
         \subseteq gone' \cup left' \cup moving']_vars

\* Between two changes session.json has the windows that are open with the tabs
\* they show, unless saving failed; when none is open, it has the one closed last
\* ("Keep the final window as the restart target", src/session.rs:103).
WindowsSaved ==
  (phase = "open" /\ saving = {} /\ ~failed) =>
    session_file.windows = IF Open = {} THEN last_closed ELSE {Saved(w, tabs[w]) : w \in Open}

\* After any exit or power loss the next start finds a whole session.json.  No tab
\* is in two of its windows, which would attach to the same sessions twice, unless
\* a workspace was restored in one window while another showed the tab.
SavedSessionUsable ==
  \A file \in {session_file, session_durable} :
    /\ file.state # "torn"
    /\ \A one, other \in file.windows : one # other => one.tabs \cap other.tabs \subseteq shared

\* A workspace that was reported saved is in the file, or a newer one is, in
\* whatever order the threads run and whichever of them fail.
SavedWorkspaceKept ==
  \A n \in Saves : save[n] = "saved" => workspace.stamp >= n
=============================================================================
