-------------------------- MODULE SessionFilesProofs --------------------------
(***************************************************************************)
(* Proofs about SessionFiles, for any windows, tabs and bounds.            *)
(***************************************************************************)
EXTENDS SessionFiles, TLAPS

Running == phase \notin {"off", "first"}

\* What is empty outside the phases that use it.
PhaseInv ==
  /\ ~Running => /\ \A w \in Windows : tabs[w] = {}
                 /\ entries = {} /\ last_closed = {} /\ saving = {} /\ failed = FALSE
  /\ Running => entries # {} \/ last_closed # {}
  /\ phase # "restoring" => opening = NoWindow /\ \A e \in entries : e.live
  /\ opening = NoWindow => left = {}
  /\ phase # "open" => moving = {}
  /\ phase = "leaving" => \A w \in to_register : tabs[w] # {}
  /\ TabsIn(last_closed) \subseteq gone
  /\ \A one, other \in last_closed : one = other

\* A window whose restoration has begun and which shows nothing yet.
Unseen(e) == e.live /\ e.id = opening /\ tabs[opening] = {} /\ e.tabs \subseteq left \cup gone

\* The snapshots are those of the windows that are open.
WindowInv ==
  /\ \A e, f \in entries : e.id = f.id => e = f
  /\ \A e \in entries : e.id = opening => e.live
  /\ phase # "left" =>
       /\ \A e \in entries : e.live => e.tabs = tabs[e.id] \/ Unseen(e)
       /\ \A w \in Open : \E e \in entries : e.id = w /\ e.live

\* No tab that is not shared is in two windows, nor both in a window and on its way
\* into one.
DisjointInv ==
  /\ \A e, f \in entries : e # f => e.tabs \cap f.tabs \subseteq shared
  /\ \A e \in entries : /\ e.tabs \cap moving \subseteq shared
                        /\ e.id # opening => e.tabs \cap left \subseteq shared

\* A save writes the snapshots as they are; when none is under way, the file has them.
NamedOnce(session) == \A one, other \in session : one.id = other.id => one = other
FileInv ==
  /\ SavedSessionUsable
  /\ NamedOnce(session_file.windows) /\ NamedOnce(session_durable.windows)
  /\ session_file.state = "synced" /\ session_durable.state = "synced"
  /\ saving # {} => saving = Session(entries, last_closed)
  /\ Running /\ saving = {} /\ ~failed => session_file.windows = Session(entries, last_closed)

\* The file has no tab that nothing else knows.
LagInv == phase # "off" =>
  TabsIn(session_file.windows) \subseteq TabsIn(KeptIn(entries)) \cup gone \cup left \cup moving

\* One thread writes at a time, and never an older workspace than is in the file.
WorkspaceInv ==
  /\ \A m, n \in Writing : m = n
  /\ \A n \in Saves : save[n] = "saved" => n <= saved_revision
  /\ \A n \in Writing : saved_revision <= n
  /\ saved_revision <= workspace.stamp

IInv == TypeOK /\ PhaseInv /\ WindowInv /\ DisjointInv /\ FileInv /\ LagInv /\ WorkspaceInv

USE WindowsAssumption, BoundsAssumption

-----------------------------------------------------------------------------
(* The snapshots and what is saved of them *)

LEMMA WindowTabs ==
  ASSUME TypeOK, NEW w \in Windows
  PROVE tabs[w] \in SUBSET Tabs
BY DEF TypeOK

LEMMA FreshTabs ==
  ASSUME NEW t \in Fresh
  PROVE /\ t \in Tabs /\ t \notin gone \cup shared \cup left \cup moving
        /\ \A e \in entries : t \notin e.tabs
BY DEF Fresh, TabsIn, KeptIn

LEMMA FilledWindow ==
  ASSUME NEW ts \in SUBSET Tabs, NEW kept \in NeverEmpty(ts)
  PROVE /\ kept \in Shown
        /\ kept = ts \/ (ts = {} /\ \E t \in Fresh : kept = {t})
<1>1. CASE ts = {}
  <2>1. PICK t \in Fresh : kept = {t}
    BY <1>1 DEF NeverEmpty
  <2> QED BY <1>1, <2>1, FreshTabs DEF Shown
<1>2. CASE ts # {}
  BY <1>2 DEF NeverEmpty, Shown
<1> QED BY <1>1, <1>2

LEMMA SavedSession ==
  ASSUME NEW es \in SUBSET [id : Windows, live : BOOLEAN, tabs : Shown],
         NEW closed \in Session_
  PROVE /\ Session(es, closed) \in Session_
        /\ es # {} => Session(es, closed) = KeptIn(es)
        /\ es # {} \/ closed # {} => Session(es, closed) # {}
<1>1. CASE es = {}
  BY <1>1 DEF Session
<1>2. CASE es # {}
  <2>1. \A e \in es : Saved(e.id, e.tabs) \in [id : Windows, tabs : Shown]
    BY DEF Saved
  <2>2. KeptIn(es) \subseteq [id : Windows, tabs : Shown] /\ KeptIn(es) # {}
    BY <1>2, <2>1 DEF KeptIn
  <2> QED BY <1>2, <2>2 DEF Session, Session_
<1> QED BY <1>1, <1>2

LEMMA KeptTabs ==
  ASSUME NEW es, NEW t
  PROVE t \in TabsIn(KeptIn(es)) <=> \E e \in es : t \in e.tabs
<1>1. \A e \in es : Saved(e.id, e.tabs).tabs = e.tabs
  BY DEF Saved
<1>2. t \in TabsIn(KeptIn(es)) <=> \E e \in es : t \in Saved(e.id, e.tabs).tabs
  BY DEF TabsIn, KeptIn
<1> QED BY <1>1, <1>2

\* Registering a window adds its snapshot or replaces the one it had.
LEMMA RegisteredWindow ==
  ASSUME TypeOK, NEW w \in Windows, NEW ts \in Shown, Register(w, ts)
  PROVE /\ tabs' \in [Windows -> SUBSET Tabs] /\ tabs'[w] = ts
        /\ \A v \in Windows \ {w} : tabs'[v] = tabs[v]
        /\ entries' = {e \in entries : e.id # w} \cup {Live(w, ts)}
        /\ entries' \in SUBSET [id : Windows, live : BOOLEAN, tabs : Shown]
        /\ entries' # {} /\ last_closed' = {} /\ saving' = KeptIn(entries') /\ saving' # {}
        /\ saving' \in Session_ /\ synced' = FALSE
        /\ UNCHANGED <<failed, fileVars, threadVars, workspace>>
<1>1. /\ entries' = {e \in entries : e.id # w} \cup {Live(w, ts)}
      /\ last_closed' = {} /\ saving' = Session(entries', {}) /\ synced' = FALSE
      /\ UNCHANGED <<failed, fileVars, threadVars, workspace>>
  BY DEF Register, Registered, Persist
<1>2. entries' \in SUBSET [id : Windows, live : BOOLEAN, tabs : Shown]
  <2>1. Live(w, ts) \in [id : Windows, live : BOOLEAN, tabs : Shown]
    BY DEF Live
  <2> QED BY <1>1, <2>1 DEF TypeOK
<1>3. entries' # {} /\ saving' = KeptIn(entries')
  BY <1>1 DEF Session
<1>4. saving' \in Session_ /\ saving' # {}
  <2>1. {} \in Session_
    BY DEF Session_
  <2> QED BY <1>2, <1>3, <2>1, SavedSession DEF Session
<1>5. /\ tabs' \in [Windows -> SUBSET Tabs] /\ tabs'[w] = ts
      /\ \A v \in Windows \ {w} : tabs'[v] = tabs[v]
  BY DEF Register, TypeOK, Shown
<1> QED BY <1>1, <1>2, <1>3, <1>4, <1>5

\* A step of a workspace's thread.
WorkspaceThread(n) == \/ BeginWorkspace(n) \/ SkipWorkspace(n) \/ ReplaceWorkspace(n)
                      \/ FailWorkspace(n)

LEMMA ThreadUnchanged ==
  ASSUME NEW n \in Saves, WorkspaceThread(n)
  PROVE UNCHANGED <<windowVars, snapshotVars, savingVars, fileVars, historyVars>>
BY DEF WorkspaceThread, BeginWorkspace, SkipWorkspace, ReplaceWorkspace, FailWorkspace, EndThread

LEMMA InitIInv == Init => IInv
<1> SUFFICES ASSUME Init PROVE IInv
  OBVIOUS
<1> USE DEF Init, NoTabs, NoFile, NoThreads, NothingCaptured
<1>1. TypeOK
  <2>1. NoFile \in File_ /\ {} \in Session_
    BY DEF File_, Session_
  <2>2. save \in [Saves -> {"none", "waiting", "writing", "saved", "over"}]
    OBVIOUS
  <2>3. workspace \in [stamp : 0..MaxSaves, tabs : SUBSET Tabs] /\ captured \in [Saves -> SUBSET Tabs]
    OBVIOUS
  <2>4. tabs \in [Windows -> SUBSET Tabs]
    OBVIOUS
  <2> QED BY <2>1, <2>2, <2>3, <2>4 DEF TypeOK, Phases
<1>2. PhaseInv /\ WindowInv /\ DisjointInv
  BY DEF PhaseInv, WindowInv, DisjointInv, Running, Open, TabsIn
<1>3. FileInv /\ LagInv
  BY DEF FileInv, NamedOnce, LagInv, SavedSessionUsable, Running
<1>4. WorkspaceInv
  BY DEF WorkspaceInv, Writing
<1> QED BY <1>1, <1>2, <1>3, <1>4 DEF IInv

-----------------------------------------------------------------------------
(* Types *)

LEMMA TypeStep == IInv /\ [Next]_vars => TypeOK'
<1> SUFFICES ASSUME IInv, [Next]_vars PROVE TypeOK'
  OBVIOUS
<1>t. TypeOK
  BY DEF IInv
<1> USE DEF windowVars, snapshotVars, savingVars, fileVars, threadVars, historyVars
<1>0. ASSUME NEW w \in Windows, NEW ts \in Shown, Register(w, ts),
             phase' \in Phases, opening' \in Windows \cup {NoWindow},
             left' \in SUBSET Tabs, moving' \in SUBSET Tabs, to_register' \in SUBSET Windows,
             starts' \in Nat, gone' \in SUBSET Tabs, shared' \in SUBSET Tabs
      PROVE TypeOK'
  <2>1. /\ tabs' \in [Windows -> SUBSET Tabs]
        /\ entries' \in SUBSET [id : Windows, live : BOOLEAN, tabs : Shown]
        /\ last_closed' = {} /\ saving' \in Session_ /\ synced' = FALSE
        /\ UNCHANGED <<failed, fileVars, threadVars, workspace>>
    BY <1>0, <1>t, RegisteredWindow
  <2>2. last_closed' \in Session_
    BY <2>1 DEF Session_
  <2> QED BY <1>0, <1>t, <2>1, <2>2 DEF TypeOK, Saves
<1>1. CASE UNCHANGED vars
  BY <1>1, <1>t DEF vars, TypeOK, Saves
<1>2. ASSUME NEW w \in Windows, OpenFirst(w) PROVE TypeOK'
  <2>1. PICK ts \in NeverEmpty({}) : Register(w, ts)
    BY <1>2 DEF OpenFirst
  <2> QED BY <1>0, <1>2, <1>t, <2>1, FilledWindow DEF OpenFirst, TypeOK, Phases
<1>3. ASSUME NEW w \in Windows, NewWindow(w) PROVE TypeOK'
  <2>1. PICK ts \in NeverEmpty({}) : Register(w, ts)
    BY <1>3 DEF NewWindow
  <2> QED BY <1>0, <1>3, <1>t, <2>1, FilledWindow DEF NewWindow, TypeOK
<1>4. ASSUME NEW w \in Windows, EnterWindow(w) PROVE TypeOK'
  <2>1. moving \in Shown
    BY <1>4, <1>t DEF EnterWindow, TypeOK, Shown
  <2> QED BY <1>0, <1>4, <1>t, <2>1 DEF EnterWindow, TypeOK
<1>5. ASSUME NEW w \in Windows, CloseWindow(w) PROVE TypeOK'
  <2>1. tabs' \in [Windows -> SUBSET Tabs] /\ gone' \in SUBSET Tabs
    BY <1>5, <1>t DEF CloseWindow, TypeOK
  <2>2. CASE Quitting
    BY <1>5, <1>t, <2>1, <2>2 DEF CloseWindow, TypeOK, Saves
  <2>3. CASE ~Quitting
    <3>1. PICK e \in entries :
            Persist(entries \ {e}, IF entries = {e} THEN KeptIn({e}) ELSE last_closed)
      BY <1>5, <2>3 DEF CloseWindow
    <3>2. KeptIn({e}) \in Session_
      BY <1>t DEF KeptIn, Saved, Session_, TypeOK
    <3>3. /\ entries' = entries \ {e} /\ last_closed' \in Session_
          /\ saving' = Session(entries', last_closed') /\ synced' = FALSE
          /\ UNCHANGED <<failed, fileVars, threadVars, workspace>>
      BY <3>1, <3>2, <1>t DEF Persist, TypeOK
    <3>4. saving' \in Session_
      BY <3>3, <1>t, SavedSession DEF TypeOK
    <3> QED BY <1>5, <1>t, <2>1, <3>3, <3>4 DEF CloseWindow, TypeOK, Saves
  <2> QED BY <2>2, <2>3
<1>6. ASSUME NEW w \in Windows, RegisterForQuit(w) PROVE TypeOK'
  <2>1. tabs[w] \in Shown
    BY <1>6, <1>t, WindowTabs DEF RegisterForQuit, IInv, PhaseInv, Shown
  <2>2. CASE Register(w, tabs[w])
    BY <1>0, <1>6, <1>t, <2>1, <2>2 DEF RegisterForQuit, TypeOK
  <2>3. CASE UNCHANGED <<tabs, snapshotVars, savingVars, fileVars, threadVars, workspace>>
    BY <1>6, <1>t, <2>3 DEF RegisterForQuit, TypeOK, Saves
  <2> QED BY <1>6, <2>2, <2>3 DEF RegisterForQuit
<1>7. ASSUME NEW e \in entries, OpenRestored(e) PROVE TypeOK'
  <2>1. Live(e.id, e.tabs) \in [id : Windows, live : BOOLEAN, tabs : Shown]
    BY <1>t DEF TypeOK, Live
  <2>2. entries' \in SUBSET [id : Windows, live : BOOLEAN, tabs : Shown]
    BY <1>7, <1>t, <2>1 DEF OpenRestored, TypeOK
  <2>3. left' \in SUBSET Tabs /\ opening' \in Windows
    BY <1>7, <1>t DEF OpenRestored, TypeOK, Shown
  <2> QED BY <1>7, <1>t, <2>2, <2>3 DEF OpenRestored, TypeOK, Saves
<1>8. ASSUME NEW w \in Windows, NEW ts \in SUBSET Tabs, AddTabs(w, ts) PROVE TypeOK'
  <2>1. tabs[w] \cup ts \in Shown
    BY <1>8, <1>t, WindowTabs DEF AddTabs, Shown
  <2> QED BY <1>0, <1>8, <1>t, <2>1 DEF AddTabs, TypeOK
<1>9. ASSUME NEW w \in Windows, NEW ts \in SUBSET Tabs, CloseTabs(w, ts) PROVE TypeOK'
  <2>1. PICK kept \in NeverEmpty(tabs[w] \ ts) : Register(w, kept)
    BY <1>9 DEF CloseTabs
  <2>2. tabs[w] \ ts \in SUBSET Tabs
    BY <1>t DEF TypeOK
  <2> QED BY <1>0, <1>9, <1>t, <2>1, <2>2, FilledWindow DEF CloseTabs, TypeOK
<1>10. ASSUME NEW w \in Windows, NEW t \in Tabs, LeaveWindow(w, t) PROVE TypeOK'
  <2>1. tabs[w] \ {t} \in Shown
    BY <1>10, <1>t, WindowTabs DEF LeaveWindow, Shown
  <2> QED BY <1>0, <1>10, <1>t, <2>1 DEF LeaveWindow, TypeOK
<1>11. ASSUME NEW t \in Tabs, RestoreTab(t) PROVE TypeOK'
  <2>1. opening \in Windows
    BY <1>11, <1>t DEF RestoreTab, TypeOK
  <2>2. tabs[opening] \cup {t} \in Shown
    BY <1>t, <2>1, WindowTabs DEF Shown
  <2> QED BY <1>0, <1>11, <1>t, <2>1, <2>2 DEF RestoreTab, TypeOK
<1>12. ASSUME NEW t \in Tabs, DropTab(t) PROVE TypeOK'
  BY <1>12, <1>t DEF DropTab, TypeOK, Saves
<1>13. CASE FinishWindow
  <2>1. opening \in Windows /\ tabs[opening] \in SUBSET Tabs
    BY <1>13, <1>t DEF FinishWindow, TypeOK
  <2>2. PICK kept \in NeverEmpty(tabs[opening]) : Register(opening, kept)
    BY <1>13 DEF FinishWindow
  <2> QED BY <1>0, <1>13, <1>t, <2>1, <2>2, FilledWindow DEF FinishWindow, TypeOK, Phases
<1>14. CASE NoNewWindow
  BY <1>14, <1>t DEF NoNewWindow, TypeOK, Saves
<1>15. CASE WriteTemp
  BY <1>15, <1>t DEF WriteTemp, TypeOK, Saves
<1>16. CASE ReplaceFile
  BY <1>16, <1>t DEF ReplaceFile, MayReplace, TypeOK, File_, Session_, Saves
<1>17. CASE SaveFails
  BY <1>17, <1>t DEF SaveFails, TypeOK, Session_, Saves
<1>18. CASE Start
  <2>1. PICK readable \in BOOLEAN :
          LET session == IF readable THEN session_file.windows ELSE {} IN
          /\ phase' = IF session = {} THEN "first" ELSE "restoring"
          /\ entries' = {[id |-> window.id, live |-> FALSE, tabs |-> window.tabs] :
                          window \in session}
          /\ gone' = TabsIn(session_file.windows) \ TabsIn(session)
    BY <1>18 DEF Start
  <2>2. session_file.windows \in SUBSET [id : Windows, tabs : Shown]
    BY <1>t DEF TypeOK, File_, Session_
  <2>3. entries' \in SUBSET [id : Windows, live : BOOLEAN, tabs : Shown]
    <3>1. \A window \in session_file.windows :
            [id |-> window.id, live |-> FALSE, tabs |-> window.tabs]
              \in [id : Windows, live : BOOLEAN, tabs : Shown]
      BY <2>2
    <3> QED BY <2>1, <3>1
  <2>4. gone' \in SUBSET Tabs /\ phase' \in Phases
    <3>1. TabsIn(session_file.windows) \in SUBSET Tabs
      BY <2>2 DEF TabsIn, Shown
    <3> QED BY <2>1, <3>1 DEF Phases
  <2> QED BY <1>18, <1>t, <2>3, <2>4 DEF Start, TypeOK, Saves
<1>19. CASE Quit
  BY <1>19, <1>t DEF Quit, TypeOK, Phases, Open, Saves
<1>20. CASE PersistBeforeQuit
  <2>1. saving' \in Session_
    BY <1>20, <1>t, SavedSession DEF PersistBeforeQuit, Persist, TypeOK
  <2> QED BY <1>20, <1>t, <2>1 DEF PersistBeforeQuit, Persist, TypeOK, Phases, Saves
<1>21. CASE Exit
  <2>1. workspace' \in [stamp : 0..MaxSaves, tabs : SUBSET Tabs]
    BY <1>21, <1>t DEF Exit, TypeOK
  <2> QED BY <1>21, <1>t, <2>1
          DEF Exit, MemoryLost, NoTabs, NothingCaptured, TypeOK, Phases, Session_, Saves
<1>22. CASE Writeback
  BY <1>22, <1>t DEF Writeback, TypeOK, File_, Saves
<1>23. CASE PowerLoss
  <2>1. TornFile \in File_
    BY DEF TornFile, File_, Session_
  <2>2. session_file' \in File_ /\ session_durable' \in File_
    BY <1>23, <1>t, <2>1 DEF PowerLoss, TypeOK
  <2>3. workspace' \in [stamp : 0..MaxSaves, tabs : SUBSET Tabs]
    BY <1>23, <1>t DEF PowerLoss, TypeOK
  <2> QED BY <1>23, <1>t, <2>2, <2>3
          DEF PowerLoss, MemoryLost, NoTabs, NothingCaptured, TypeOK, Phases, Session_, Saves
<1>24. ASSUME NEW w \in Windows, SaveWorkspace(w) PROVE TypeOK'
  <2>1. /\ save' \in [Saves -> {"none", "waiting", "writing", "saved", "over"}]
        /\ captured' \in [Saves -> SUBSET Tabs]
    BY <1>24, <1>t, WindowTabs DEF SaveWorkspace, TypeOK
  <2> QED BY <1>24, <1>t, <2>1 DEF SaveWorkspace, TypeOK
<1>25. ASSUME NEW n \in Saves, WorkspaceThread(n) PROVE TypeOK'
  <2>1. n \in Nat /\ n \in 0..MaxSaves
    BY DEF Saves
  <2>2. /\ save' \in [Saves -> {"none", "waiting", "writing", "saved", "over"}]
        /\ captured' \in [Saves -> SUBSET Tabs]
        /\ UNCHANGED <<windowVars, snapshotVars, savingVars, fileVars, historyVars>>
    BY <1>25, <1>t
       DEF WorkspaceThread, BeginWorkspace, SkipWorkspace, ReplaceWorkspace, FailWorkspace,
           EndThread, TypeOK
  <2>3. saved_revision' \in Nat /\ workspace' \in [stamp : 0..MaxSaves, tabs : SUBSET Tabs]
    <3>1. CASE ReplaceWorkspace(n)
      BY <3>1, <2>1, <1>t DEF ReplaceWorkspace, TypeOK
    <3>2. CASE UNCHANGED <<saved_revision, workspace>>
      BY <3>2, <1>t DEF TypeOK
    <3> QED BY <1>25, <3>1, <3>2
            DEF WorkspaceThread, BeginWorkspace, SkipWorkspace, FailWorkspace
  <2> QED BY <1>t, <2>2, <2>3 DEF TypeOK
<1>26. ASSUME NEW w \in Windows, NEW ts \in SUBSET Tabs, RestoreWorkspace(w, ts) PROVE TypeOK'
  <2>1. tabs[w] \cup ts \in Shown
    BY <1>26, <1>t, WindowTabs DEF RestoreWorkspace, Shown
  <2>2. gone' \in SUBSET Tabs /\ shared' \in SUBSET Tabs
    BY <1>26, <1>t DEF RestoreWorkspace, TypeOK
  <2> QED BY <1>0, <1>26, <1>t, <2>1, <2>2 DEF RestoreWorkspace, TypeOK
<1> QED BY <1>1, <1>2, <1>3, <1>4, <1>5, <1>6, <1>7, <1>8, <1>9, <1>10, <1>11, <1>12, <1>13,
           <1>14, <1>15, <1>16, <1>17, <1>18, <1>19, <1>20, <1>21, <1>22, <1>23, <1>24, <1>25, <1>26
        DEF Next, WindowStep, WorkspaceThread

-----------------------------------------------------------------------------
(* The phases *)

LEMMA PhaseStep == IInv /\ [Next]_vars => PhaseInv'
<1> SUFFICES ASSUME IInv, [Next]_vars PROVE PhaseInv'
  OBVIOUS
<1>t. TypeOK /\ PhaseInv
  BY DEF IInv
<1> USE DEF windowVars, snapshotVars, savingVars, fileVars, threadVars, historyVars
\* Registering a window leaves the phases as they are, but for the one it ends.
<1>0. ASSUME NEW w \in Windows, NEW ts \in Shown, Register(w, ts),
             phase \in {"first", "restoring", "open", "leaving"},
             phase' \in {"restoring", "open", "leaving"},
             phase' # "restoring" => /\ opening' = NoWindow
                                     /\ \A e \in entries : e.id = w \/ e.live,
             opening' = NoWindow => left' = {}, phase' # "open" => moving' = {},
             phase' = "leaving" => phase = "leaving" /\ to_register' \subseteq to_register
      PROVE PhaseInv'
  <2>1. /\ entries' = {e \in entries : e.id # w} \cup {Live(w, ts)}
        /\ entries' # {} /\ last_closed' = {} /\ tabs'[w] = ts /\ ts # {}
        /\ \A v \in Windows \ {w} : tabs'[v] = tabs[v]
    BY <1>0, <1>t, RegisteredWindow DEF Shown
  <2>2. phase' # "restoring" => opening' = NoWindow /\ \A e \in entries' : e.live
    <3>1. Live(w, ts).live
      BY DEF Live
    <3> QED BY <1>0, <2>1, <3>1
  <2>3. phase' = "leaving" => \A v \in to_register' : tabs'[v] # {}
    BY <1>0, <1>t, <2>1 DEF PhaseInv, TypeOK
  <2> QED BY <1>0, <2>1, <2>2, <2>3 DEF PhaseInv, Running, TabsIn
<1>1. CASE UNCHANGED vars
  BY <1>1, <1>t DEF vars, PhaseInv, Running
<1>2. ASSUME NEW w \in Windows, OpenFirst(w) PROVE PhaseInv'
  <2>1. PICK ts \in NeverEmpty({}) : Register(w, ts)
    BY <1>2 DEF OpenFirst
  <2>2. ts \in Shown
    BY <2>1, FilledWindow
  <2>3. entries = {} /\ opening = NoWindow /\ left = {} /\ moving = {}
    BY <1>2, <1>t DEF OpenFirst, PhaseInv, Running
  <2> QED BY <1>0, <1>2, <2>1, <2>2, <2>3 DEF OpenFirst
<1>3. ASSUME NEW w \in Windows, NewWindow(w) PROVE PhaseInv'
  <2>1. PICK ts \in NeverEmpty({}) : Register(w, ts)
    BY <1>3 DEF NewWindow
  <2>2. ts \in Shown
    BY <2>1, FilledWindow
  <2> QED BY <1>0, <1>3, <1>t, <2>1, <2>2 DEF NewWindow, UsersTurn, PhaseInv
<1>4. ASSUME NEW w \in Windows, EnterWindow(w) PROVE PhaseInv'
  <2>1. moving \in Shown
    BY <1>4, <1>t DEF EnterWindow, TypeOK, Shown
  <2>2. phase = "open"
    BY <1>4, <1>t DEF EnterWindow, PhaseInv
  <2> QED BY <1>0, <1>4, <1>t, <2>1, <2>2 DEF EnterWindow, PhaseInv
<1>5. ASSUME NEW w \in Windows, CloseWindow(w) PROVE PhaseInv'
  <2>1. CASE Quitting
    BY <1>5, <1>t, <2>1 DEF CloseWindow, Quitting, PhaseInv, Running
  <2>2. CASE ~Quitting
    <3>1. PICK e \in entries :
            /\ e.id = w
            /\ Persist(entries \ {e}, IF entries = {e} THEN KeptIn({e}) ELSE last_closed)
      BY <1>5, <2>2 DEF CloseWindow
    <3>2. phase = "open"
      BY <1>5, <2>2 DEF CloseWindow, Quitting
    <3>3. e.tabs = tabs[w]
      BY <1>t, <3>1, <3>2 DEF IInv, WindowInv, Unseen, PhaseInv, TypeOK
    <3>4. KeptIn({e}) = {Saved(w, tabs[w])} /\ TabsIn(KeptIn({e})) = tabs[w]
      BY <3>1, <3>3, KeptTabs DEF KeptIn
    <3>5. /\ TabsIn(last_closed') \subseteq gone' /\ (entries' # {} \/ last_closed' # {})
          /\ \A one, other \in last_closed' : one = other
      BY <1>5, <1>t, <3>1, <3>2, <3>4 DEF CloseWindow, Persist, PhaseInv
    <3> QED BY <1>5, <1>t, <3>1, <3>2, <3>5 DEF CloseWindow, Persist, PhaseInv, Running
  <2> QED BY <2>1, <2>2
<1>6. ASSUME NEW w \in Windows, RegisterForQuit(w) PROVE PhaseInv'
  <2>1. tabs[w] \in Shown
    BY <1>6, <1>t, WindowTabs DEF RegisterForQuit, PhaseInv, Shown
  <2>2. CASE Register(w, tabs[w])
    BY <1>0, <1>6, <1>t, <2>1, <2>2 DEF RegisterForQuit, PhaseInv
  <2>3. CASE UNCHANGED <<tabs, snapshotVars, savingVars, fileVars, threadVars, workspace>>
    BY <1>6, <1>t, <2>3 DEF RegisterForQuit, PhaseInv, Running
  <2> QED BY <1>6, <2>2, <2>3 DEF RegisterForQuit
<1>7. ASSUME NEW e \in entries, OpenRestored(e) PROVE PhaseInv'
  <2>1. /\ phase = "restoring" /\ opening' = e.id /\ e.id \in Windows /\ entries' # {}
        /\ UNCHANGED <<phase, tabs, moving, to_register, last_closed, savingVars, gone>>
    BY <1>7, <1>t DEF OpenRestored, TypeOK
  <2> QED BY <1>t, <2>1 DEF PhaseInv, Running
<1>8. ASSUME NEW w \in Windows, NEW ts \in SUBSET Tabs, AddTabs(w, ts) PROVE PhaseInv'
  <2>1. tabs[w] \cup ts \in Shown
    BY <1>8, <1>t, WindowTabs DEF AddTabs, Shown
  <2> QED BY <1>0, <1>8, <1>t, <2>1 DEF AddTabs, UsersTurn, PhaseInv
<1>9. ASSUME NEW w \in Windows, NEW ts \in SUBSET Tabs, CloseTabs(w, ts) PROVE PhaseInv'
  <2>1. PICK kept \in NeverEmpty(tabs[w] \ ts) : Register(w, kept)
    BY <1>9 DEF CloseTabs
  <2>2. tabs[w] \ ts \in SUBSET Tabs
    BY <1>t DEF TypeOK
  <2>3. kept \in Shown
    BY <2>1, <2>2, FilledWindow
  <2> QED BY <1>0, <1>9, <1>t, <2>1, <2>3 DEF CloseTabs, UsersTurn, PhaseInv
<1>10. ASSUME NEW w \in Windows, NEW t \in Tabs, LeaveWindow(w, t) PROVE PhaseInv'
  <2>1. tabs[w] \ {t} \in Shown
    BY <1>10, <1>t, WindowTabs DEF LeaveWindow, Shown
  <2> QED BY <1>0, <1>10, <1>t, <2>1 DEF LeaveWindow, UsersTurn, PhaseInv
<1>11. ASSUME NEW t \in Tabs, RestoreTab(t) PROVE PhaseInv'
  <2>1. opening \in Windows
    BY <1>11, <1>t DEF RestoreTab, TypeOK
  <2>2. tabs[opening] \cup {t} \in Shown
    BY <1>t, <2>1, WindowTabs DEF Shown
  <2>3. phase = "restoring"
    BY <1>11, <1>t DEF RestoreTab, PhaseInv
  <2> QED BY <1>0, <1>11, <1>t, <2>1, <2>2, <2>3 DEF RestoreTab, PhaseInv
<1>12. ASSUME NEW t \in Tabs, DropTab(t) PROVE PhaseInv'
  BY <1>12, <1>t DEF DropTab, PhaseInv, Running
<1>13. CASE FinishWindow
  <2>1. opening \in Windows /\ tabs[opening] \in SUBSET Tabs
    BY <1>13, <1>t DEF FinishWindow, TypeOK
  <2>2. PICK kept \in NeverEmpty(tabs[opening]) : Register(opening, kept)
    BY <1>13 DEF FinishWindow
  <2>3. kept \in Shown
    BY <2>1, <2>2, FilledWindow
  <2>4. phase = "restoring"
    BY <1>13, <1>t DEF FinishWindow, PhaseInv
  <2> QED BY <1>0, <1>13, <1>t, <2>1, <2>2, <2>3, <2>4 DEF FinishWindow, PhaseInv
<1>14. CASE NoNewWindow
  BY <1>14, <1>t DEF NoNewWindow, PhaseInv, Running
<1>15. CASE WriteTemp \/ ReplaceFile \/ SaveFails \/ Writeback
  BY <1>15, <1>t DEF WriteTemp, ReplaceFile, MayReplace, SaveFails, Writeback, PhaseInv, Running
<1>16. CASE Start
  <2>1. PICK readable \in BOOLEAN :
          LET session == IF readable THEN session_file.windows ELSE {} IN
          /\ phase' = IF session = {} THEN "first" ELSE "restoring"
          /\ entries' = {[id |-> window.id, live |-> FALSE, tabs |-> window.tabs] :
                          window \in session}
    BY <1>16 DEF Start
  <2>3. (phase' = "first" /\ entries' = {}) \/ (phase' = "restoring" /\ entries' # {})
    BY <2>1
  <2>4. /\ \A w \in Windows : tabs'[w] = {}
        /\ last_closed' = {} /\ saving' = {} /\ failed' = FALSE
        /\ opening' = NoWindow /\ left' = {} /\ moving' = {}
    BY <1>16, <1>t DEF Start, PhaseInv, Running
  <2> QED BY <2>3, <2>4 DEF PhaseInv, Running, TabsIn
<1>17. CASE Quit
  BY <1>17, <1>t DEF Quit, UsersTurn, Open, PhaseInv, Running
<1>18. CASE PersistBeforeQuit
  BY <1>18, <1>t DEF PersistBeforeQuit, Persist, PhaseInv, Running
<1>19. CASE Exit \/ PowerLoss
  BY <1>19 DEF Exit, PowerLoss, MemoryLost, NoTabs, PhaseInv, Running, TabsIn
<1>20. ASSUME NEW w \in Windows, SaveWorkspace(w) PROVE PhaseInv'
  BY <1>20, <1>t DEF SaveWorkspace, PhaseInv, Running
<1>21. ASSUME NEW n \in Saves, WorkspaceThread(n) PROVE PhaseInv'
  <2>1. UNCHANGED <<windowVars, snapshotVars, savingVars, gone>>
    BY <1>21, ThreadUnchanged DEF historyVars
  <2> QED BY <1>t, <2>1 DEF PhaseInv, Running
<1>22. ASSUME NEW w \in Windows, NEW ts \in SUBSET Tabs, RestoreWorkspace(w, ts) PROVE PhaseInv'
  <2>1. tabs[w] \cup ts \in Shown
    BY <1>22, <1>t, WindowTabs DEF RestoreWorkspace, Shown
  <2> QED BY <1>0, <1>22, <1>t, <2>1 DEF RestoreWorkspace, UsersTurn, PhaseInv
<1> QED BY <1>1, <1>2, <1>3, <1>4, <1>5, <1>6, <1>7, <1>8, <1>9, <1>10, <1>11, <1>12, <1>13,
           <1>14, <1>15, <1>16, <1>17, <1>18, <1>19, <1>20, <1>21, <1>22
        DEF Next, WindowStep, WorkspaceThread

-----------------------------------------------------------------------------
(* The workspace *)

LEMMA WorkspaceStep == IInv /\ [Next]_vars => WorkspaceInv'
<1> SUFFICES ASSUME IInv, [Next]_vars PROVE WorkspaceInv'
  OBVIOUS
<1>t. /\ save \in [Saves -> {"none", "waiting", "writing", "saved", "over"}]
      /\ saved_revision \in Nat /\ workspace.stamp \in Nat
      /\ WorkspaceInv
  BY DEF IInv, TypeOK
<1>0. ASSUME UNCHANGED <<threadVars, workspace>> PROVE WorkspaceInv'
  BY <1>0, <1>t DEF WorkspaceInv, Writing, threadVars
<1>1. CASE Exit \/ PowerLoss
  <2>1. \A n \in Saves : save'[n] \in {"none", "over"}
    BY <1>1 DEF Exit, PowerLoss, MemoryLost
  <2>2. saved_revision' = 0 /\ workspace'.stamp = 0
    BY <1>1, <1>t DEF Exit, PowerLoss, MemoryLost, IInv, TypeOK
  <2> QED BY <2>1, <2>2 DEF WorkspaceInv, Writing
<1>2. ASSUME NEW w \in Windows, SaveWorkspace(w) PROVE WorkspaceInv'
  <2>1. PICK n \in Saves : save' = [save EXCEPT ![n] = "waiting"]
    BY <1>2 DEF SaveWorkspace
  <2>2. UNCHANGED <<saved_revision, workspace>>
    BY <1>2 DEF SaveWorkspace
  <2> QED BY <1>t, <2>1, <2>2 DEF WorkspaceInv, Writing
<1>3. ASSUME NEW n \in Saves, WorkspaceThread(n) PROVE WorkspaceInv'
  <2>1. n \in Nat /\ Saves \subseteq Nat
    BY DEF Saves
  <2>2. CASE BeginWorkspace(n)
    BY <1>t, <2>1, <2>2 DEF BeginWorkspace, IsOutdated, WorkspaceInv, Writing
  <2>3. CASE SkipWorkspace(n)
    BY <1>t, <2>1, <2>3 DEF SkipWorkspace, EndThread, IsOutdated, WorkspaceInv, Writing
  <2>4. CASE ReplaceWorkspace(n)
    <3>1. /\ save' = [save EXCEPT ![n] = "saved"] /\ saved_revision' = n
          /\ workspace'.stamp = n /\ n \in Writing
      BY <2>4 DEF ReplaceWorkspace, EndThread, Writing
    <3> QED BY <1>t, <2>1, <3>1 DEF WorkspaceInv, Writing
  <2>5. CASE FailWorkspace(n)
    BY <1>t, <2>1, <2>5 DEF FailWorkspace, EndThread, WorkspaceInv, Writing
  <2> QED BY <1>3, <2>2, <2>3, <2>4, <2>5 DEF WorkspaceThread
<1>4. ASSUME NEW w \in Windows, WindowStep(w), ~SaveWorkspace(w) PROVE WorkspaceInv'
  <2>1. UNCHANGED <<threadVars, workspace>>
    BY <1>4 DEF WindowStep, OpenFirst, NewWindow, EnterWindow, CloseWindow, RegisterForQuit,
                AddTabs, CloseTabs, LeaveWindow, RestoreWorkspace, Register, Persist
  <2> QED BY <1>0, <2>1
<1>5. CASE \/ \E t \in Tabs : RestoreTab(t) \/ DropTab(t)
           \/ \E e \in entries : OpenRestored(e)
           \/ FinishWindow \/ NoNewWindow \/ WriteTemp \/ ReplaceFile \/ SaveFails
           \/ Start \/ Quit \/ PersistBeforeQuit \/ Writeback
  <2>1. UNCHANGED <<threadVars, workspace>>
    BY <1>5 DEF RestoreTab, DropTab, OpenRestored, FinishWindow, NoNewWindow, WriteTemp,
                ReplaceFile, SaveFails, Start, Quit, PersistBeforeQuit, Writeback, Register,
                Persist
  <2> QED BY <1>0, <2>1
<1>6. CASE UNCHANGED vars
  BY <1>0, <1>6 DEF vars
<1> QED BY <1>1, <1>2, <1>3, <1>4, <1>5, <1>6 DEF Next, WorkspaceThread

-----------------------------------------------------------------------------
(* The windows, what is saved of them, and the file *)

\* No tab of a window is in the snapshot of another, but for those that are shared.
LEMMA OtherWindows ==
  ASSUME IInv, phase # "left", NEW w \in Windows, NEW e \in entries, e.id # w
  PROVE e.tabs \cap tabs[w] \subseteq shared
<1>1. CASE tabs[w] = {}
  BY <1>1
<1>2. CASE tabs[w] # {}
  <2>1. PICK f \in entries : f.id = w /\ f.live
    BY <1>2 DEF IInv, WindowInv, Open
  <2>2. f.tabs = tabs[w]
    BY <1>2, <2>1 DEF IInv, WindowInv, Unseen
  <2> QED BY <2>1, <2>2 DEF IInv, DisjointInv
<1> QED BY <1>1, <1>2

\* What a window's own snapshot has is in the window, or still to be restored.
LEMMA OwnWindow ==
  ASSUME IInv, phase # "left", NEW w \in Windows, phase # "restoring" \/ opening = w,
         NEW e \in entries, e.id = w
  PROVE e.tabs = tabs[w] \/ (tabs[w] = {} /\ opening = w /\ e.tabs \subseteq left \cup gone)
<1>1. e.live
  BY DEF IInv, WindowInv, PhaseInv
<1> QED BY <1>1 DEF IInv, WindowInv, Unseen

\* A window that is not open has no snapshot, unless it is to be restored.
LEMMA ClosedWindow ==
  ASSUME IInv, phase = "open", NEW w \in Windows, tabs[w] = {}, NEW e \in entries
  PROVE e.id # w
<1>1. e.tabs # {} /\ e.live /\ opening # w
  BY DEF IInv, TypeOK, Shown, PhaseInv
<1> QED BY <1>1, OwnWindow

\* A window is registered with tabs that no other has, but for those that are shared,
\* and forgets none of its own.
LEMMA RegisterStep ==
  ASSUME IInv, NEW w \in Windows, NEW ts \in Shown, Register(w, ts),
         phase \notin {"off", "left"}, phase' # "off", opening \in {NoWindow, w},
         opening' \in {opening, NoWindow},
         shared \subseteq shared', ts \cap moving' \subseteq shared', w = opening' \/ left' = {},
         \A e \in entries : e.id # w => e.tabs \cap (ts \cup moving' \cup left') \subseteq shared',
         gone \cup left \cup moving \subseteq ts \cup gone' \cup left' \cup moving',
         \A e \in entries : e.id = w => e.tabs \subseteq ts \cup gone' \cup left' \cup moving'
  PROVE WindowInv' /\ DisjointInv' /\ FileInv' /\ LagInv'
<1> DEFINE new == Live(w, ts)
<1>0. new.id = w /\ new.live /\ new.tabs = ts
  BY DEF Live
<1>t. TypeOK
  BY DEF IInv
<1>1. /\ entries' = {e \in entries : e.id # w} \cup {new}
      /\ tabs'[w] = ts /\ \A v \in Windows \ {w} : tabs'[v] = tabs[v]
      /\ entries' # {} /\ last_closed' = {} /\ saving' = KeptIn(entries') /\ saving' # {}
      /\ UNCHANGED fileVars
  BY <1>t, RegisteredWindow
<1>2. ts # {}
  BY DEF Shown
<1>3. WindowInv'
  <2>1. /\ \A e, f \in entries' : e.id = f.id => e = f
        /\ \A e \in entries' : e.id = opening' => e.live
    <3>1. \A e \in entries' : e = new \/ (e \in entries /\ e.id # w /\ e.id # opening)
      BY <1>1, <1>t DEF TypeOK
    <3>2. w = opening' \/ opening' = opening \/ opening' = NoWindow
      OBVIOUS
    <3>3. \A e \in entries : e.id \in Windows
      BY <1>t DEF TypeOK
    <3> QED BY <1>0, <3>1, <3>2, <3>3 DEF IInv, WindowInv
  <2>2. ASSUME NEW e \in entries', e.live
        PROVE e.tabs = tabs'[e.id]
    <3>1. CASE e = new
      BY <3>1, <1>0, <1>1
    <3>2. CASE e # new
      <4>1. e \in entries /\ e.id # w /\ e.id # opening /\ e.id \in Windows
        BY <1>1, <1>t, <3>2 DEF TypeOK
      <4>2. e.tabs = tabs[e.id]
        BY <2>2, <4>1 DEF IInv, WindowInv, Unseen
      <4> QED BY <1>1, <4>1, <4>2
    <3> QED BY <3>1, <3>2
  <2>3. ASSUME NEW v \in Windows, tabs'[v] # {}
        PROVE \E e \in entries' : e.id = v /\ e.live
    <3>1. CASE v = w
      <4>1. new \in entries' /\ new.id = w /\ new.live
        BY <1>0, <1>1
      <4> QED BY <3>1, <4>1
    <3>2. CASE v # w
      <4>1. PICK e \in entries : e.id = v /\ e.live
        BY <1>1, <2>3, <3>2 DEF IInv, WindowInv, Open
      <4> QED BY <1>1, <3>2, <4>1
    <3> QED BY <3>1, <3>2
  <2> QED BY <2>1, <2>2, <2>3 DEF WindowInv, Open
<1>4. DisjointInv'
  <2>1. \A e \in entries' : e = new \/ (e \in entries /\ e.id # w)
    BY <1>1
  <2>3. \A e, f \in entries' : e # f => e.tabs \cap f.tabs \subseteq shared'
    BY <1>0, <2>1 DEF IInv, DisjointInv
  <2>4. \A e \in entries' : /\ e.tabs \cap moving' \subseteq shared'
                            /\ e.id # opening' => e.tabs \cap left' \subseteq shared'
    BY <1>0, <2>1
  <2> QED BY <2>3, <2>4 DEF DisjointInv
<1>5. FileInv'
  BY <1>1 DEF IInv, FileInv, NamedOnce, SavedSessionUsable, Session, fileVars
<1>6. LagInv'
  <2>1. ts \subseteq TabsIn(KeptIn(entries'))
    <3>1. new \in entries' /\ new.tabs = ts
      BY <1>0, <1>1
    <3> QED BY <3>1, KeptTabs
  <2>2. ASSUME NEW t, NEW e \in entries, t \in e.tabs
        PROVE t \in TabsIn(KeptIn(entries')) \cup gone' \cup left' \cup moving'
    <3>1. CASE e.id = w
      BY <2>1, <2>2, <3>1
    <3>2. CASE e.id # w
      <4>1. e \in entries'
        BY <1>1, <3>2
      <4> QED BY <2>2, <4>1, KeptTabs
    <3> QED BY <3>1, <3>2
  <2>3. TabsIn(session_file'.windows) = TabsIn(session_file.windows)
    BY <1>1 DEF fileVars
  <2>4. \A t \in TabsIn(KeptIn(entries)) : \E e \in entries : t \in e.tabs
    BY KeptTabs
  <2>5. TabsIn(session_file.windows)
          \subseteq TabsIn(KeptIn(entries)) \cup gone \cup left \cup moving
    BY DEF IInv, LagInv
  <2> QED BY <2>1, <2>2, <2>3, <2>4, <2>5 DEF LagInv
<1> QED BY <1>3, <1>4, <1>5, <1>6

\* What changes neither the snapshots, the windows, the save nor the file.
LEMMA OtherStep ==
  ASSUME IInv, UNCHANGED <<entries, last_closed, tabs, opening, phase, saving, failed, fileVars>>,
         moving' \subseteq moving, left' \subseteq left, shared' = shared,
         gone \cup left \cup moving \subseteq gone' \cup left' \cup moving', gone \subseteq gone'
  PROVE WindowInv' /\ DisjointInv' /\ FileInv' /\ LagInv'
<1>1. WindowInv'
  <2>1. \A e \in entries : Unseen(e) => Unseen(e)'
    <3>1. phase # "open" \/ \A e \in entries : ~Unseen(e)
      BY DEF IInv, PhaseInv, Unseen, TypeOK
    <3>2. CASE phase # "open"
      BY <3>2 DEF IInv, PhaseInv, Unseen
    <3> QED BY <3>1, <3>2
  <2> QED BY <2>1 DEF IInv, WindowInv, Open
<1>2. DisjointInv'
  <2>1. /\ \A e, f \in entries : e # f => e.tabs \cap f.tabs \subseteq shared
        /\ \A e \in entries : e.tabs \cap moving \subseteq shared
        /\ \A e \in entries : e.id # opening => e.tabs \cap left \subseteq shared
    BY DEF IInv, DisjointInv
  <2>2. \A e \in entries : /\ e.tabs \cap moving' \subseteq shared
                           /\ e.id # opening => e.tabs \cap left' \subseteq shared
    BY <2>1
  <2> QED BY <2>1, <2>2 DEF DisjointInv
<1>3. FileInv'
  BY DEF IInv, FileInv, NamedOnce, SavedSessionUsable, Running, fileVars
<1>4. LagInv'
  BY DEF IInv, LagInv, fileVars
<1> QED BY <1>1, <1>2, <1>3, <1>4

LEMMA WindowsSaveStep == IInv /\ [Next]_vars => WindowInv' /\ DisjointInv' /\ FileInv' /\ LagInv'
<1> DEFINE Goal == WindowInv' /\ DisjointInv' /\ FileInv' /\ LagInv'
<1> SUFFICES ASSUME IInv, [Next]_vars PROVE Goal
  OBVIOUS
<1>t. TypeOK /\ PhaseInv
  BY DEF IInv
<1>1. CASE UNCHANGED vars
  BY <1>1, OtherStep DEF vars, windowVars, snapshotVars, savingVars, historyVars
<1>2. ASSUME NEW w \in Windows, OpenFirst(w) PROVE Goal
  <2>1. PICK ts \in NeverEmpty({}) : Register(w, ts)
    BY <1>2 DEF OpenFirst
  <2>2. ts \in Shown
    BY <2>1, FilledWindow
  <2>3. entries = {} /\ opening = NoWindow /\ left = {} /\ moving = {}
    BY <1>2, <1>t DEF OpenFirst, PhaseInv, Running
  <2> QED BY <1>2, <2>1, <2>2, <2>3, RegisterStep DEF OpenFirst, historyVars
<1>3. ASSUME NEW w \in Windows, NewWindow(w) PROVE Goal
  <2>1. PICK ts \in NeverEmpty({}) : Register(w, ts)
    BY <1>3 DEF NewWindow
  <2>2. ts \in Shown /\ \E t \in Fresh : ts = {t}
    BY <2>1, FilledWindow DEF Shown
  <2>3. phase = "open" /\ opening = NoWindow /\ left = {} /\ moving = {} /\ tabs[w] = {}
    BY <1>3, <1>t DEF NewWindow, UsersTurn, PhaseInv
  <2>4. \A e \in entries : e.tabs \cap ts = {} /\ e.id # w /\ ts \cap gone = {}
    BY <2>2, <2>3, FreshTabs, ClosedWindow
  <2> QED BY <1>3, <2>1, <2>2, <2>3, <2>4, RegisterStep DEF NewWindow, historyVars
<1>4. ASSUME NEW w \in Windows, EnterWindow(w) PROVE Goal
  <2>1. moving \in Shown
    BY <1>4, <1>t DEF EnterWindow, TypeOK, Shown
  <2>2. phase = "open" /\ opening = NoWindow /\ left = {} /\ tabs[w] = {}
    BY <1>4, <1>t DEF EnterWindow, PhaseInv
  <2>3. \A e \in entries : e.tabs \cap moving \subseteq shared /\ e.id # w
    <3>1. \A e \in entries : e.id # w
      BY <2>2, ClosedWindow
    <3>2. \A e \in entries : e.tabs \cap moving \subseteq shared
      BY DEF IInv, DisjointInv
    <3> QED BY <3>1, <3>2
  <2> QED BY <1>4, <2>1, <2>2, <2>3, RegisterStep DEF EnterWindow, historyVars
<1>5. ASSUME NEW w \in Windows, RegisterForQuit(w) PROVE Goal
  <2>1. tabs[w] \in Shown
    BY <1>5, <1>t, WindowTabs DEF RegisterForQuit, PhaseInv, Shown
  <2>2. phase = "leaving" /\ opening = NoWindow /\ left = {} /\ moving = {}
    BY <1>5, <1>t DEF RegisterForQuit, PhaseInv
  <2>3. \A e \in entries : IF e.id = w THEN e.tabs = tabs[w]
                                       ELSE e.tabs \cap tabs[w] \subseteq shared
    BY <2>2, OwnWindow, OtherWindows
  <2>4. CASE Register(w, tabs[w])
    BY <1>5, <2>1, <2>2, <2>3, <2>4, RegisterStep DEF RegisterForQuit, historyVars
  <2>5. CASE UNCHANGED <<tabs, snapshotVars, savingVars, fileVars, threadVars, workspace>>
    BY <1>5, <2>5, OtherStep DEF RegisterForQuit, snapshotVars, savingVars, historyVars
  <2> QED BY <1>5, <2>4, <2>5 DEF RegisterForQuit
<1>6. ASSUME NEW w \in Windows, NEW ts \in SUBSET Tabs, AddTabs(w, ts) PROVE Goal
  <2>1. tabs[w] \cup ts \in Shown
    BY <1>6, <1>t, WindowTabs DEF AddTabs, Shown
  <2>2. phase = "open" /\ opening = NoWindow /\ left = {} /\ moving = {}
    BY <1>6, <1>t DEF AddTabs, UsersTurn, PhaseInv
  <2>3. \A e \in entries : /\ e.tabs \cap ts = {}
                           /\ IF e.id = w THEN e.tabs = tabs[w]
                                       ELSE e.tabs \cap tabs[w] \subseteq shared
    BY <1>6, <2>2, FreshTabs, OwnWindow, OtherWindows DEF AddTabs
  <2> QED BY <1>6, <2>1, <2>2, <2>3, RegisterStep DEF AddTabs, historyVars
<1>7. ASSUME NEW w \in Windows, NEW ts \in SUBSET Tabs, CloseTabs(w, ts) PROVE Goal
  <2>1. PICK kept \in NeverEmpty(tabs[w] \ ts) : Register(w, kept)
    BY <1>7 DEF CloseTabs
  <2>2. tabs[w] \ ts \in SUBSET Tabs
    BY <1>t DEF TypeOK
  <2>3. /\ kept \in Shown
        /\ kept = tabs[w] \ ts \/ (tabs[w] \ ts = {} /\ \E t \in Fresh : kept = {t})
    BY <2>1, <2>2, FilledWindow
  <2>4. phase = "open" /\ opening = NoWindow /\ left = {} /\ moving = {}
    BY <1>7, <1>t DEF CloseTabs, UsersTurn, PhaseInv
  <2>5. \A e \in entries : IF e.id = w THEN e.tabs = tabs[w]
                                       ELSE e.tabs \cap tabs[w] \subseteq shared
    BY <2>4, OwnWindow, OtherWindows
  <2>6. \A e \in entries : e.id # w => e.tabs \cap kept \subseteq shared
    BY <2>3, <2>5, FreshTabs
  <2>7. \A e \in entries : e.id = w => e.tabs \subseteq kept \cup gone'
    BY <1>7, <2>3, <2>5 DEF CloseTabs
  <2> QED BY <1>7, <2>1, <2>3, <2>4, <2>6, <2>7, RegisterStep DEF CloseTabs
<1>8. ASSUME NEW w \in Windows, NEW t \in Tabs, LeaveWindow(w, t) PROVE Goal
  <2>1. tabs[w] \ {t} \in Shown
    BY <1>8, <1>t, WindowTabs DEF LeaveWindow, Shown
  <2>2. phase = "open" /\ opening = NoWindow /\ left = {} /\ moving = {}
    BY <1>8, <1>t DEF LeaveWindow, UsersTurn, PhaseInv
  <2>3. \A e \in entries : IF e.id = w THEN e.tabs = tabs[w]
                                       ELSE e.tabs \cap tabs[w] \subseteq shared
    BY <2>2, OwnWindow, OtherWindows
  <2>4. t \in tabs[w] /\ moving' = {t}
    BY <1>8 DEF LeaveWindow
  <2> QED BY <1>8, <2>1, <2>2, <2>3, <2>4, RegisterStep DEF LeaveWindow, historyVars
<1>9. ASSUME NEW t \in Tabs, RestoreTab(t) PROVE Goal
  <2>1. opening \in Windows /\ opening # NoWindow
    BY <1>9, <1>t DEF RestoreTab, TypeOK
  <2>2. tabs[opening] \cup {t} \in Shown
    BY <1>t, <2>1, WindowTabs DEF Shown
  <2>3. phase = "restoring" /\ moving = {}
    BY <1>9, <1>t DEF RestoreTab, PhaseInv
  <2>4. \A e \in entries : e.id # opening => e.tabs \cap (tabs[opening] \cup left) \subseteq shared
    BY <2>1, <2>3, OtherWindows DEF IInv, DisjointInv
  <2>5. \A e \in entries : e.id = opening => e.tabs \subseteq tabs[opening] \cup left \cup gone
    BY <2>1, <2>3, OwnWindow
  <2> QED BY <1>9, <2>1, <2>2, <2>3, <2>4, <2>5, RegisterStep DEF RestoreTab, historyVars
<1>10. ASSUME NEW t \in Tabs, DropTab(t) PROVE Goal
  BY <1>10, OtherStep DEF DropTab, snapshotVars, savingVars
<1>11. CASE FinishWindow
  <2>1. opening \in Windows /\ opening # NoWindow /\ tabs[opening] \in SUBSET Tabs
    BY <1>11, <1>t DEF FinishWindow, TypeOK
  <2>2. PICK kept \in NeverEmpty(tabs[opening]) : Register(opening, kept)
    BY <1>11 DEF FinishWindow
  <2>3. /\ kept \in Shown
        /\ kept = tabs[opening] \/ (tabs[opening] = {} /\ \E t \in Fresh : kept = {t})
    BY <2>1, <2>2, FilledWindow
  <2>4. phase = "restoring" /\ moving = {} /\ left = {}
    BY <1>11, <1>t DEF FinishWindow, PhaseInv
  <2>5. \A e \in entries : e.id # opening => e.tabs \cap kept \subseteq shared
    BY <2>1, <2>3, <2>4, FreshTabs, OtherWindows
  <2>6. \A e \in entries : e.id = opening => e.tabs \subseteq kept \cup gone
    BY <2>1, <2>3, <2>4, OwnWindow
  <2>7. phase' # "off" /\ opening' = NoWindow /\ UNCHANGED <<left, moving, gone, shared>>
    BY <1>11 DEF FinishWindow, historyVars
  <2> QED BY <2>1, <2>2, <2>3, <2>4, <2>5, <2>6, <2>7, RegisterStep
<1>12. CASE NoNewWindow
  BY <1>12, OtherStep DEF NoNewWindow, snapshotVars, savingVars
<1>13. ASSUME NEW w \in Windows, CloseWindow(w) PROVE Goal
  <2>1. CASE Quitting
    <3>1. UNCHANGED <<entries, last_closed, opening, left, moving, gone, shared, phase,
                      savingVars, fileVars>>
      BY <1>13, <2>1 DEF CloseWindow, Quitting, snapshotVars
    <3>2. phase = "left"
      BY <2>1 DEF Quitting
    <3>3. WindowInv' /\ DisjointInv'
      BY <3>1, <3>2 DEF IInv, WindowInv, DisjointInv
    <3>4. FileInv' /\ LagInv'
      BY <3>1 DEF IInv, FileInv, NamedOnce, LagInv, SavedSessionUsable, Running, savingVars,
                  fileVars
    <3> QED BY <3>3, <3>4
  <2>2. CASE ~Quitting
    <3>1. PICK e \in entries :
            /\ e.id = w
            /\ Persist(entries \ {e}, IF entries = {e} THEN KeptIn({e}) ELSE last_closed)
      BY <1>13, <2>2 DEF CloseWindow
    <3>2. phase = "open" /\ opening = NoWindow /\ left = {} /\ moving = {}
      BY <1>13, <1>t, <2>2 DEF CloseWindow, Quitting, PhaseInv
    <3>3. e.tabs = tabs[w] /\ gone' = gone \cup e.tabs
      BY <1>13, <3>1, <3>2, OwnWindow DEF CloseWindow
    <3>4. /\ entries' = entries \ {e} /\ UNCHANGED fileVars
          /\ last_closed' = IF entries = {e} THEN KeptIn({e}) ELSE last_closed
          /\ saving' = Session(entries', last_closed')
      BY <3>1 DEF Persist
    <3>5. /\ UNCHANGED <<phase, opening, left, moving, shared>>
          /\ tabs'[w] = {} /\ \A v \in Windows \ {w} : tabs'[v] = tabs[v]
      BY <1>13, <1>t DEF CloseWindow, TypeOK
    <3>6. WindowInv'
      <4>1. \A f \in entries' : f \in entries /\ f.id # w /\ f.id \in Windows /\ f.live
        BY <1>t, <3>1, <3>2, <3>4 DEF IInv, WindowInv, PhaseInv, TypeOK
      <4>2. \A f \in entries' : f.tabs = tabs'[f.id]
        BY <3>2, <3>5, <4>1, OwnWindow
      <4>3. ASSUME NEW v \in Windows, tabs'[v] # {}
            PROVE \E f \in entries' : f.id = v /\ f.live
        <5>1. PICK f \in entries : f.id = v /\ f.live
          BY <3>2, <3>5, <4>3 DEF IInv, WindowInv, Open
        <5> QED BY <3>1, <3>4, <3>5, <4>3, <5>1
      <4> QED BY <4>1, <4>2, <4>3 DEF IInv, WindowInv, Open
    <3>7. DisjointInv'
      BY <3>4, <3>5 DEF IInv, DisjointInv
    <3>8. FileInv'
      <4>1. entries' # {} \/ last_closed' # {}
        BY <3>4 DEF KeptIn
      <4>2. entries' \in SUBSET [id : Windows, live : BOOLEAN, tabs : Shown]
        BY <1>t, <3>4 DEF TypeOK
      <4>3. last_closed' \in Session_
        <5>1. {e} \in SUBSET [id : Windows, live : BOOLEAN, tabs : Shown] /\ {} \in Session_
          BY <1>t DEF TypeOK, Session_
        <5>2. KeptIn({e}) \in Session_
          BY <5>1, SavedSession
        <5> QED BY <1>t, <3>4, <5>2 DEF TypeOK
      <4>4. saving' # {}
        BY <3>4, <4>1, <4>2, <4>3, SavedSession
      <4> QED BY <3>4, <3>5, <4>4 DEF IInv, FileInv, NamedOnce, SavedSessionUsable, fileVars
    <3>9. LagInv'
      <4>1. TabsIn(KeptIn(entries)) \subseteq TabsIn(KeptIn(entries')) \cup gone'
        BY <3>3, <3>4, KeptTabs
      <4> QED BY <3>2, <3>3, <3>4, <3>5, <4>1 DEF IInv, LagInv, fileVars
    <3> QED BY <3>6, <3>7, <3>8, <3>9
  <2> QED BY <2>1, <2>2
<1>14. ASSUME NEW e \in entries, OpenRestored(e) PROVE Goal
  <2> DEFINE new == Live(e.id, e.tabs)
  <2>1. /\ new \in [id : Windows, live : BOOLEAN, tabs : Shown]
        /\ new.id = e.id /\ new.live /\ new.tabs = e.tabs /\ e.id \in Windows
    BY <1>t DEF TypeOK, Live
  <2>2. /\ phase = "restoring" /\ opening = NoWindow /\ ~e.live
        /\ entries' = (entries \ {e}) \cup {new} /\ opening' = e.id /\ left' = e.tabs
        /\ UNCHANGED <<phase, tabs, moving, gone, shared, last_closed, savingVars, fileVars>>
    BY <1>14 DEF OpenRestored, historyVars
  <2>3. moving = {} /\ left = {}
    BY <1>t, <2>2 DEF PhaseInv
  <2>4. tabs[e.id] = {} /\ \A f \in entries : f.id = e.id => f = e
    BY <2>1, <2>2 DEF IInv, WindowInv, Open
  <2>5. KeptIn(entries') = KeptIn(entries)
    BY <2>1, <2>2 DEF KeptIn
  <2>6. WindowInv'
    <3>1. /\ \A f, g \in entries' : f.id = g.id => f = g
          /\ \A f \in entries' : f.id = opening' => f.live
      BY <2>1, <2>2, <2>4 DEF IInv, WindowInv
    <3>2. ASSUME NEW f \in entries', f.live
          PROVE f.tabs = tabs'[f.id] \/ Unseen(f)'
      <4>1. CASE f = new
        BY <2>1, <2>2, <2>4, <4>1 DEF Unseen
      <4>2. CASE f # new
        BY <1>t, <2>2, <3>2, <4>2 DEF IInv, WindowInv, Unseen, TypeOK
      <4> QED BY <4>1, <4>2
    <3>3. ASSUME NEW v \in Windows, tabs'[v] # {}
          PROVE \E f \in entries' : f.id = v /\ f.live
      <4>1. PICK f \in entries : f.id = v /\ f.live
        BY <2>2, <3>3 DEF IInv, WindowInv, Open
      <4> QED BY <2>2, <4>1
    <3> QED BY <3>1, <3>2, <3>3 DEF WindowInv, Open
  <2>7. DisjointInv'
    <3>1. \A f \in entries' : f = new \/ (f \in entries /\ f # e)
      BY <2>2
    <3> QED BY <2>1, <2>2, <2>3, <3>1 DEF IInv, DisjointInv
  <2>8. FileInv' /\ LagInv'
    <3>1. entries # {} /\ entries' # {}
      BY <2>2
    <3>2. Session(entries', last_closed') = Session(entries, last_closed)
      BY <2>5, <3>1 DEF Session
    <3>3. FileInv'
      BY <2>2, <3>2
         DEF IInv, FileInv, NamedOnce, SavedSessionUsable, Running, savingVars, fileVars
    <3> QED BY <2>2, <2>3, <2>5, <3>3 DEF IInv, LagInv, fileVars
  <2> QED BY <2>6, <2>7, <2>8
<1>15. CASE WriteTemp
  BY <1>15, OtherStep DEF WriteTemp, windowVars, snapshotVars, historyVars
<1>16. CASE ReplaceFile
  <2>1. /\ saving # {} /\ session_file' = [windows |-> saving, state |-> "synced"]
        /\ saving' = {} /\ failed' = FALSE
        /\ UNCHANGED <<windowVars, snapshotVars, session_durable, historyVars>>
    BY <1>16 DEF ReplaceFile, MayReplace
  <2>2. saving = Session(entries, last_closed) /\ Running
    BY <1>t, <2>1 DEF IInv, FileInv, PhaseInv
  <2>3. WindowInv' /\ DisjointInv'
    BY <2>1 DEF IInv, WindowInv, DisjointInv, Unseen, Open, windowVars, snapshotVars, historyVars
  <2>4. /\ \A one, other \in saving : one # other => one.tabs \cap other.tabs \subseteq shared
        /\ NamedOnce(saving)
    <3>1. CASE entries = {}
      BY <1>t, <2>2, <3>1 DEF PhaseInv, Session, NamedOnce
    <3>2. CASE entries # {}
      <4>1. ASSUME NEW one \in saving
            PROVE \E e \in entries : one = Saved(e.id, e.tabs) /\ one.id = e.id /\ one.tabs = e.tabs
        BY <2>2, <3>2, <4>1 DEF Session, KeptIn, Saved
      <4> QED BY <4>1 DEF IInv, DisjointInv, WindowInv, NamedOnce
    <3> QED BY <3>1, <3>2
  <2>5. FileInv'
    BY <2>1, <2>2, <2>4
       DEF IInv, FileInv, NamedOnce, SavedSessionUsable, Running, windowVars, snapshotVars,
           historyVars
  <2>6. TabsIn(saving) \subseteq TabsIn(KeptIn(entries)) \cup gone
    BY <1>t, <2>2 DEF PhaseInv, Session
  <2>7. LagInv'
    BY <2>1, <2>6 DEF LagInv, windowVars, snapshotVars, historyVars
  <2> QED BY <2>3, <2>5, <2>7
<1>17. CASE SaveFails
  <2>1. /\ saving' = {} /\ failed' = TRUE
        /\ UNCHANGED <<windowVars, snapshotVars, fileVars, historyVars>>
    BY <1>17 DEF SaveFails
  <2>2. WindowInv' /\ DisjointInv'
    BY <2>1 DEF IInv, WindowInv, DisjointInv, Unseen, Open, windowVars, snapshotVars, historyVars
  <2>3. FileInv' /\ LagInv'
    BY <2>1
       DEF IInv, FileInv, NamedOnce, LagInv, SavedSessionUsable, windowVars, snapshotVars,
           fileVars, historyVars
  <2> QED BY <2>2, <2>3
<1>18. CASE Start
  <2> DEFINE Restored(window) == [id |-> window.id, live |-> FALSE, tabs |-> window.tabs]
  <2>1. /\ phase = "off"
        /\ UNCHANGED <<tabs, opening, left, moving, shared, last_closed, savingVars, fileVars>>
    BY <1>18 DEF Start
  <2>2. PICK readable \in BOOLEAN :
          LET session == IF readable THEN session_file.windows ELSE {} IN
          /\ phase' = IF session = {} THEN "first" ELSE "restoring"
          /\ entries' = {[id |-> window.id, live |-> FALSE, tabs |-> window.tabs] :
                          window \in session}
          /\ gone' = TabsIn(session_file.windows) \ TabsIn(session)
    BY <1>18 DEF Start
  <2> DEFINE session == IF readable THEN session_file.windows ELSE {}
  <2>3. entries' = {Restored(window) : window \in session}
    BY <2>2
  <2>4. /\ session \subseteq [id : Windows, tabs : Shown] /\ NamedOnce(session)
        /\ \A one, other \in session : one # other => one.tabs \cap other.tabs \subseteq shared
    BY <1>t DEF IInv, FileInv, SavedSessionUsable, NamedOnce, TypeOK, File_, Session_
  <2> HIDE DEF session
  <2>5. \A e \in entries' : \E window \in session : /\ e = Restored(window) /\ ~e.live
                                                    /\ e.id = window.id /\ e.tabs = window.tabs
    BY <2>3
  <2>6. KeptIn(entries') = session
    <3>1. \A window \in session : Saved(Restored(window).id, Restored(window).tabs) = window
      BY <2>4 DEF Saved
    <3>2. \A window \in session : Restored(window) \in entries'
      BY <2>3
    <3>3. \A e \in entries' : \E window \in session : e = Restored(window)
      BY <2>3
    <3> HIDE DEF Restored
    <3> QED BY <3>1, <3>2, <3>3 DEF KeptIn
  <2>7. /\ \A w \in Windows : tabs'[w] = {}
        /\ left' = {} /\ moving' = {} /\ saving' = {} /\ failed' = FALSE /\ opening' = NoWindow
    BY <1>t, <2>1 DEF PhaseInv, Running, savingVars
  <2>8. WindowInv'
    <3>1. \A e \in entries' : e.id \in Windows /\ ~e.live
      BY <2>4, <2>5
    <3>2. ASSUME NEW e \in entries', NEW f \in entries', e.id = f.id PROVE e = f
      <4>1. PICK one \in session : e = Restored(one) /\ e.id = one.id
        BY <2>5
      <4>2. PICK other \in session : f = Restored(other) /\ f.id = other.id
        BY <2>5
      <4> QED BY <2>4, <3>2, <4>1, <4>2 DEF NamedOnce
    <3> QED BY <2>7, <3>1, <3>2 DEF WindowInv, Open
  <2>9. DisjointInv'
    <3>1. \A e, f \in entries' : e # f => e.tabs \cap f.tabs \subseteq shared'
      BY <2>1, <2>4, <2>5
    <3> QED BY <2>7, <3>1 DEF DisjointInv
  <2>10. FileInv'
    <3>1. Running' => session # {} /\ session = session_file.windows
      BY <2>2 DEF Running, session
    <3>2. session # {} => Session(entries', last_closed') = session
      <4>1. session # {} => entries' # {}
        BY <2>3
      <4> QED BY <2>6, <4>1 DEF Session
    <3> QED BY <2>1, <2>7, <3>1, <3>2
            DEF IInv, FileInv, NamedOnce, SavedSessionUsable, fileVars
  <2>11. LagInv'
    BY <2>1, <2>2, <2>6 DEF LagInv, fileVars, session
  <2> QED BY <2>8, <2>9, <2>10, <2>11
<1>19. CASE Quit
  <2>1. /\ phase = "open" /\ phase' = "leaving"
        /\ UNCHANGED <<tabs, opening, left, moving, snapshotVars, savingVars, fileVars,
                       historyVars>>
    BY <1>19 DEF Quit, UsersTurn
  <2>2. WindowInv' /\ DisjointInv'
    BY <2>1 DEF IInv, WindowInv, DisjointInv, Unseen, Open, snapshotVars, historyVars
  <2>3. FileInv' /\ LagInv'
    BY <2>1 DEF IInv, FileInv, NamedOnce, LagInv, SavedSessionUsable, Running, snapshotVars,
                savingVars, fileVars, historyVars
  <2> QED BY <2>2, <2>3
<1>20. CASE PersistBeforeQuit
  <2>1. /\ phase = "leaving" /\ phase' = "left" /\ saving' = Session(entries, last_closed)
        /\ UNCHANGED <<entries, last_closed, tabs, opening, left, moving, failed, fileVars,
                       historyVars>>
    BY <1>20 DEF PersistBeforeQuit, Persist
  <2>2. WindowInv' /\ DisjointInv'
    BY <2>1 DEF IInv, WindowInv, DisjointInv, Unseen, Open, historyVars
  <2>3. saving' # {}
    BY <1>t, <2>1, SavedSession DEF PhaseInv, Running, TypeOK
  <2>4. FileInv' /\ LagInv'
    BY <2>1, <2>3 DEF IInv, FileInv, NamedOnce, LagInv, SavedSessionUsable, fileVars, historyVars
  <2> QED BY <2>2, <2>4
<1>21. CASE Exit \/ PowerLoss
  <2>1. MemoryLost
    BY <1>21 DEF Exit, PowerLoss
  <2>2. WindowInv' /\ DisjointInv' /\ LagInv'
    BY <2>1 DEF MemoryLost, NoTabs, WindowInv, DisjointInv, LagInv, Open
  <2>3. {session_file', session_durable'} \subseteq {session_file, session_durable}
    BY <1>21 DEF Exit, PowerLoss, fileVars, IInv, FileInv
  <2>4. shared' = shared
    BY <1>21 DEF Exit, PowerLoss, historyVars
  <2>5. FileInv'
    BY <2>1, <2>3, <2>4 DEF MemoryLost, IInv, FileInv, NamedOnce, SavedSessionUsable, Running
  <2> QED BY <2>2, <2>5
<1>22. CASE Writeback
  <2>1. /\ session_file' = session_file /\ session_durable' = session_file
        /\ UNCHANGED <<windowVars, snapshotVars, savingVars, historyVars>>
    BY <1>22, <1>t DEF Writeback, IInv, FileInv, TypeOK, File_
  <2>2. WindowInv' /\ DisjointInv' /\ LagInv'
    BY <2>1 DEF IInv, WindowInv, DisjointInv, LagInv, Unseen, Open, windowVars, snapshotVars,
                historyVars
  <2>3. FileInv'
    BY <2>1 DEF IInv, FileInv, NamedOnce, SavedSessionUsable, Running, windowVars, snapshotVars,
                savingVars, historyVars
  <2> QED BY <2>2, <2>3
<1>23. ASSUME NEW w \in Windows, SaveWorkspace(w) PROVE Goal
  BY <1>23, OtherStep DEF SaveWorkspace, windowVars, snapshotVars, savingVars, historyVars
<1>24. ASSUME NEW n \in Saves, WorkspaceThread(n) PROVE Goal
  BY <1>24, ThreadUnchanged, OtherStep DEF windowVars, snapshotVars, savingVars, historyVars
<1>25. ASSUME NEW w \in Windows, NEW ts \in SUBSET Tabs, RestoreWorkspace(w, ts) PROVE Goal
  <2>1. tabs[w] \cup ts \in Shown
    BY <1>25, <1>t, WindowTabs DEF RestoreWorkspace, Shown
  <2>2. phase = "open" /\ opening = NoWindow /\ left = {} /\ moving = {}
    BY <1>25, <1>t DEF RestoreWorkspace, UsersTurn, PhaseInv
  <2>3. \A e \in entries : IF e.id = w THEN e.tabs = tabs[w]
                                       ELSE e.tabs \cap tabs[w] \subseteq shared
    BY <2>2, OwnWindow, OtherWindows
  <2>4. \A e \in entries : e.tabs \cap ts \subseteq shared'
    <3>1. \A e \in entries : e.id \in Windows /\ e.live
      BY <1>t, <2>2 DEF PhaseInv, TypeOK
    <3>2. \A e \in entries : e.tabs = tabs[e.id]
      BY <2>2, <3>1, OwnWindow
    <3> QED BY <1>25, <3>1, <3>2 DEF RestoreWorkspace
  <2>5. /\ shared \subseteq shared' /\ gone \subseteq gone' \cup ts
        /\ UNCHANGED <<phase, opening, left, moving>>
    BY <1>25 DEF RestoreWorkspace
  <2> QED BY <1>25, <2>1, <2>2, <2>3, <2>4, <2>5, RegisterStep DEF RestoreWorkspace
<1> QED BY <1>1, <1>2, <1>3, <1>4, <1>5, <1>6, <1>7, <1>8, <1>9, <1>10, <1>11, <1>12, <1>13,
           <1>14, <1>15, <1>16, <1>17, <1>18, <1>19, <1>20, <1>21, <1>22, <1>23, <1>24, <1>25
        DEF Next, WindowStep, WorkspaceThread

-----------------------------------------------------------------------------
(* Theorems *)

LEMMA Invariance == Spec => []IInv
<1>1. IInv /\ [Next]_vars => IInv'
  BY TypeStep, PhaseStep, WindowsSaveStep, WorkspaceStep DEF IInv
<1> QED BY <1>1, InitIInv, PTL DEF Spec

\* The state is always of its type; no saved session has a window without tabs.
THEOREM SessionTypes == Spec => []TypeOK
<1>1. IInv => TypeOK
  BY DEF IInv
<1> QED BY <1>1, Invariance, PTL

\* Between two changes session.json has the windows that are open with their
\* tabs, unless saving failed, and the one closed last when none is open.
THEOREM SessionSaved == Spec => []WindowsSaved
<1>1. IInv => WindowsSaved
  <2> SUFFICES ASSUME IInv, phase = "open", saving = {}, ~failed
               PROVE session_file.windows =
                       IF Open = {} THEN last_closed ELSE {Saved(w, tabs[w]) : w \in Open}
    BY DEF WindowsSaved
  <2>1. /\ session_file.windows = Session(entries, last_closed)
        /\ entries # {} \/ last_closed # {}
    BY DEF IInv, FileInv, PhaseInv, Running
  <2>2. \A e \in entries : e.id \in Windows /\ e.tabs = tabs[e.id] /\ e.id \in Open
    BY DEF IInv, WindowInv, PhaseInv, Unseen, TypeOK, Open, Shown
  <2>3. \A w \in Open : \E e \in entries : e.id = w
    BY DEF IInv, WindowInv
  <2>4. KeptIn(entries) = {Saved(w, tabs[w]) : w \in Open}
    BY <2>2, <2>3 DEF KeptIn
  <2>5. Open = {} <=> entries = {}
    BY <2>2, <2>3
  <2> QED BY <2>1, <2>4, <2>5 DEF Session
<1> QED BY <1>1, Invariance, PTL

\* What the next start finds is whole, and no tab is in two of its windows but those
\* that a workspace brought to a second window.
THEOREM SessionUsable == Spec => []SavedSessionUsable
<1>1. IInv => SavedSessionUsable
  BY DEF IInv, FileInv
<1> QED BY <1>1, Invariance, PTL

\* While the application runs, a tab leaves session.json only when it was closed or
\* given up, or is on its way into a window.
THEOREM SessionKeepsTabs == Spec => TabsLeaveByClosing
<1> DEFINE Kept == (phase # "off" /\ phase' # "off") =>
                     TabsIn(session_file.windows) \ TabsIn(session_file'.windows)
                       \subseteq gone' \cup left' \cup moving'
<1>1. IInv /\ [Next]_vars => [Kept]_vars
  <2> SUFFICES ASSUME IInv, [Next]_vars, phase # "off", phase' # "off"
               PROVE TabsIn(session_file.windows) \ TabsIn(session_file'.windows)
                       \subseteq gone' \cup left' \cup moving'
    OBVIOUS
  <2>1. CASE ReplaceFile
    <3>1. /\ session_file'.windows = saving /\ saving = Session(entries, last_closed)
          /\ UNCHANGED <<gone, left, moving>>
      BY <2>1 DEF ReplaceFile, MayReplace, IInv, FileInv, windowVars, historyVars
    <3>2. TabsIn(KeptIn(entries)) \subseteq TabsIn(saving)
      BY <3>1 DEF Session, TabsIn, KeptIn
    <3> QED BY <3>1, <3>2 DEF IInv, LagInv
  <2>2. CASE session_file'.windows = session_file.windows
    BY <2>2
  <2>3. CASE UNCHANGED fileVars
    BY <2>3 DEF fileVars
  <2>4. ASSUME NEW w \in Windows, WindowStep(w) PROVE UNCHANGED fileVars
    BY <2>4 DEF WindowStep, OpenFirst, NewWindow, EnterWindow, CloseWindow, RegisterForQuit,
                AddTabs, CloseTabs, LeaveWindow, SaveWorkspace, RestoreWorkspace, Register,
                Persist
  <2>5. CASE \/ \E t \in Tabs : RestoreTab(t) \/ DropTab(t)
             \/ FinishWindow \/ NoNewWindow \/ WriteTemp \/ SaveFails
             \/ Start \/ Quit \/ PersistBeforeQuit \/ \E e \in entries : OpenRestored(e)
    <3>1. UNCHANGED fileVars
      BY <2>5 DEF RestoreTab, DropTab, OpenRestored, FinishWindow, NoNewWindow, WriteTemp,
                  SaveFails, Start, Quit, PersistBeforeQuit, Register, Persist
    <3> QED BY <2>3, <3>1
  <2>6. CASE \E n \in Saves : WorkspaceThread(n)
    <3>1. UNCHANGED fileVars
      BY <2>6, ThreadUnchanged
    <3> QED BY <2>3, <3>1
  <2>7. CASE Exit \/ PowerLoss
    BY <2>7 DEF Exit, PowerLoss, MemoryLost
  <2>8. CASE Writeback
    <3>1. session_file'.windows = session_file.windows
      BY <2>8 DEF Writeback, IInv, TypeOK, File_
    <3> QED BY <2>2, <3>1
  <2>9. CASE UNCHANGED vars
    BY <2>3, <2>9 DEF vars
  <2> QED BY <2>1, <2>3, <2>4, <2>5, <2>6, <2>7, <2>8, <2>9 DEF Next, WorkspaceThread
<1> QED BY <1>1, Invariance, PTL DEF Spec, TabsLeaveByClosing

\* A workspace that was reported saved is in the file, or a newer one is.
THEOREM WorkspaceKept == Spec => []SavedWorkspaceKept
<1>1. IInv => SavedWorkspaceKept
  <2> SUFFICES ASSUME IInv, NEW n \in Saves, save[n] = "saved"
               PROVE workspace.stamp >= n
    BY DEF SavedWorkspaceKept
  <2>1. n \in Nat /\ saved_revision \in Nat /\ workspace.stamp \in Nat
    BY DEF Saves, IInv, TypeOK
  <2>2. n <= saved_revision /\ saved_revision <= workspace.stamp
    BY DEF IInv, WorkspaceInv
  <2> QED BY <2>1, <2>2
<1> QED BY <1>1, Invariance, PTL
=============================================================================
