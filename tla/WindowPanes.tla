---------------------------- MODULE WindowPanes ----------------------------
(***************************************************************************)
(* The panes of a window and the sessions they show (src/ui/root_view.rs). *)
(* The window runs one closure at a time; what asks the host (the check of *)
(* a close, the status of a session whose stream ended, the attempts to    *)
(* attach again) runs elsewhere, and its answer is a later closure.        *)
(*                                                                         *)
(* A pane's sessions are numbered: <<p, k>> is the k-th shell started for  *)
(* p.  A session whose shell exited counts as gone: what finds its entry   *)
(* closes it.  A host that is gone, or another instance, has none of them. *)
(* Any request may fail, also after it was carried out.  The window keeps  *)
(* a tab that is not modelled, so that it never has to open one.           *)
(***************************************************************************)
EXTENDS Integers, FiniteSets, Sequences

CONSTANTS Panes, Tabs,
          Layouts,        \* the tabs that panes may be in at first; none: a pane to come
          MaxShells,      \* bound: shells started for a pane
          MaxChecks,      \* bound: closes that are checked at once
          MaxEvents,      \* bound: shells started, reconnections begun, and closes
                          \* checked while another is
          Retries         \* number of HOST_ATTACH_RETRY_DELAYS_MS

ASSUME LayoutsAssumption ==
  Layouts \subseteq [Panes -> Tabs \cup {"unborn"}] /\ {"unborn", "gone"} \cap Tabs = {}
ASSUME PanesAssumption == IsFiniteSet(Panes)
ASSUME BoundsAssumption == {MaxShells, MaxChecks, MaxEvents, Retries} \subseteq Nat /\ MaxShells > 0

Shells == Panes \X (1..MaxShells)

VARIABLES
  session,    \* what the host has of each session
  left,       \* sessions the user chose to leave behind
  tabs,       \* open tabs
  tab,        \* the tab of each pane
  ref,        \* host_session_id; 0: none
  identified, \* panes with a host_session_identity
  retryable,  \* panes with terminal_retry_allowed
  term,       \* the terminal of each pane, and where its Exit event is
  retry,      \* host_attach_retry_state: <<attempt, generation>>, or none
  generation, \* host_attach_retry_generation
  tasks,      \* timers and attachments under way, and their answers
  pending,    \* pending_close
  checks,     \* checks of closes under way: what is to be closed, what came of it
  events      \* counted for the bound

hostVars == <<session, left>>
paneVars == <<tabs, tab, ref, identified, retryable, term>>
retryVars == <<retry, generation, tasks>>
closeVars == <<pending, checks>>
vars == <<hostVars, paneVars, retryVars, closeVars, events>>
notTerm == <<hostVars, tabs, tab, ref, identified, retryable, retryVars, closeVars, events>>

None == [state |-> "none"]
NoRetry == <<>>
InWindow(p) == tab[p] \in tabs
In(t) == {p \in Panes : InWindow(p) /\ tab[p] = t}
Shell(p) == <<p, ref[p]>>
Hosted(p) == ref[p] # 0 /\ p \in identified
Gone(s) == session[s] = "gone"

Init ==
  /\ tab \in Layouts
  /\ tabs = {tab[p] : p \in Panes} \ {"unborn"}
  /\ session = [s \in Shells |-> IF s[2] = 1 /\ InWindow(s[1]) THEN "running" ELSE "free"]
  /\ left = {} /\ retryable = Panes
  /\ ref = [p \in Panes |-> IF InWindow(p) THEN 1 ELSE 0]
  /\ identified = {p \in Panes : InWindow(p)}
  /\ term = [p \in Panes |-> IF InWindow(p) THEN "open" ELSE "none"]
  /\ retry = [p \in Panes |-> NoRetry] /\ generation = 0
  /\ tasks = {} /\ pending = None /\ checks = <<>> /\ events = 0

-----------------------------------------------------------------------------
(* Starting a shell *)

Count(n) == events + n <= MaxEvents /\ events' = events + n

Started(p) == {k \in 1..MaxShells : session[<<p, k>>] # "free"}
NewShell(p) == Cardinality(Started(p)) + 1

\* A shell is started for pane p, which shows it or tells why not: the start
\* failed; it is not known whether there is a session; there is, but it could be
\* neither attached nor closed, and the pane knows its number only.  Sessions of a
\* host that does not tell its instance have no identity.
StartShell(p) ==
  LET k == NewShell(p)
      Put(state) == session' = [session EXCEPT ![<<p, k>>] = state] IN
  /\ k <= MaxShells /\ Count(1)
  /\ \/ /\ Put("running") /\ ref' = [ref EXCEPT ![p] = k]
        /\ term' = [term EXCEPT ![p] = "open"]
        /\ identified' \in {identified \cup {p}, identified \ {p}}
        /\ retryable' = retryable \cup {p}
     \/ /\ UNCHANGED session /\ ref' = [ref EXCEPT ![p] = 0]
        /\ term' = [term EXCEPT ![p] = "none"]
        /\ identified' = identified \ {p} /\ retryable' = retryable \cup {p}
     \/ /\ Put("running") /\ ref' = [ref EXCEPT ![p] = 0]
        /\ term' = [term EXCEPT ![p] = "none"]
        /\ identified' = identified \ {p} /\ retryable' = retryable \ {p}
     \/ /\ Put("running") /\ ref' = [ref EXCEPT ![p] = k]
        /\ term' = [term EXCEPT ![p] = "none"]
        /\ identified' = identified \ {p}
        /\ retryable' \in {retryable \cup {p}, retryable \ {p}}

Split(t, p) ==
  /\ t \in tabs /\ In(t) # {} /\ tab[p] = "unborn"
  /\ tab' = [tab EXCEPT ![p] = t]
  /\ StartShell(p) /\ UNCHANGED <<left, tabs, retryVars, closeVars>>

\* "Start new shell" in a pane that cannot show its session.
StartNewShell(p) ==
  /\ InWindow(p) /\ term[p] = "none" /\ ref[p] # 0
  /\ retry' = [retry EXCEPT ![p] = NoRetry]
  /\ StartShell(p) /\ left' = left \cup {Shell(p)}
  /\ UNCHANGED <<tabs, tab, generation, tasks, closeVars>>

\* Mutant: a start whose outcome is not known may be repeated.
RetryAnyway(p) == InWindow(p) /\ term[p] = "none"
MayRetry(p) == InWindow(p) /\ term[p] = "none" /\ p \in retryable
\* "Retry" in a pane whose start failed.
RetryStart(p) == /\ MayRetry(p) /\ ref[p] = 0 /\ StartShell(p)
                 /\ UNCHANGED <<left, tabs, tab, retryVars, closeVars>>

-----------------------------------------------------------------------------
(* Removing panes *)

\* Tabs ts go with their panes, and panes ps; the last pane of a tab leaves an
\* empty tab behind (remove_tab_after_stop, remove_stopped_pane).  A pane that
\* left has no state.
Remove(ts, ps) ==
  LET out == ps \cup UNION {In(t) : t \in ts} IN
  /\ tabs' = tabs \ ts
  /\ tab' = [p \in Panes |-> IF p \in out THEN "gone" ELSE tab[p]]
  /\ retry' = [p \in Panes |-> IF p \in out THEN NoRetry ELSE retry[p]]
  /\ ref' = [p \in Panes |-> IF p \in out THEN 0 ELSE ref[p]]
  /\ term' = [p \in Panes |-> IF p \in out THEN "none" ELSE term[p]]

\* remove_exited_pane: a removed tab takes any pending close with it.
\* Mutant: the count starts at the pane itself.
AnyBeside(p) == Cardinality(In(tab[p])) >= 1
Beside(p) == Cardinality(In(tab[p])) > 1
RemoveExited(p) ==
  IF Beside(p) THEN Remove({}, {p}) /\ UNCHANGED pending
                                 ELSE Remove({tab[p]}, {}) /\ pending' = None

-----------------------------------------------------------------------------
(* Sessions that end, and panes that hear of it *)

\* Those of panes that left are not followed further.
SessionEnds(s) == /\ session[s] = "running" /\ InWindow(s[1])
                  /\ session' = [session EXCEPT ![s] = "gone"]
                  /\ UNCHANGED <<left, paneVars, retryVars, closeVars, events>>

SetTerm(p, from, to) == term[p] = from /\ InWindow(p) /\ term' = [term EXCEPT ![p] = to]

\* The stream ends, with the session or because the client lost output: the
\* terminal sends its one Exit event.  A terminal is only replaced after it.
StreamEnds(p) == /\ SetTerm(p, "open", "ended")
                 /\ UNCHANGED notTerm

Targeted(target) == CASE target[1] = "pane"   -> {target[2]} \cap {p \in Panes : InWindow(p)}
                      [] target[1] = "tab"    -> In(target[2])
                      [] target[1] = "others" -> {p \in Panes : InWindow(p)}
\* close_owns_pane: the check of a close takes care of the pane.
CloseOwns(p) == pending.state = "checking" /\ p \in Targeted(pending.target)

HandleExit(p) ==
  /\ SetTerm(p, "ended", IF CloseOwns(p) THEN "ignored" ELSE "asking")
  /\ UNCHANGED notTerm

\* The host says that the session is gone, or something else, or nothing.
AskStatus(p) == /\ \/ SetTerm(p, "asking", "unknown")
                   \/ SetTerm(p, "asking", "absent") /\ p \in identified /\ Gone(Shell(p))
                /\ UNCHANGED notTerm

\* retry_host_session: a new entry, whose attachment starts at once.
Reconnect(p) ==
  /\ Count(1) /\ generation' = generation + 1
  /\ retry' = [retry EXCEPT ![p] = <<0, generation + 1>>]
  /\ tasks' = tasks \cup {<<p, ref[p], generation + 1, "asking">>}

HandleAnswer(p) ==
  /\ InWindow(p) /\ term[p] \in {"absent", "unknown"}
  /\ \/ /\ CloseOwns(p) /\ term' = [term EXCEPT ![p] = "ignored"]
        /\ UNCHANGED <<tabs, tab, ref, retryVars, pending, events>>
     \/ /\ ~CloseOwns(p) /\ term[p] = "absent"
        /\ RemoveExited(p) /\ UNCHANGED <<generation, tasks, events>>
     \/ /\ ~CloseOwns(p) /\ term[p] # "absent"
        /\ term' = [term EXCEPT ![p] = "none"] /\ Reconnect(p)
        /\ UNCHANGED <<tabs, tab, ref, pending>>
  /\ UNCHANGED <<hostVars, identified, retryable, checks>>

-----------------------------------------------------------------------------
(* Attaching again *)

Unavailable(p) == InWindow(p) /\ term[p] = "none" /\ ref[p] # 0
RetryReconnect(p) == /\ MayRetry(p) /\ ref[p] # 0 /\ Reconnect(p)
                     /\ UNCHANGED <<hostVars, paneVars, closeVars>>

Current(task) == retry[task[1]] # NoRetry /\ task[3] = retry[task[1]][2]
Fits(task) == Unavailable(task[1]) /\ ref[task[1]] = task[2]
Drop(p) == retry' = [retry EXCEPT ![p] = NoRetry]
Move(task, phase) == tasks' = (tasks \ {task}) \cup {<<task[1], task[2], task[3], phase>>}

\* A delay has passed.
TimerFires(task) ==
  /\ task[4] = "timer"
  /\ \/ Current(task) /\ Fits(task) /\ Move(task, "asking") /\ UNCHANGED retry
     \/ Current(task) /\ ~Fits(task) /\ tasks' = tasks \ {task} /\ Drop(task[1])
     \/ ~Current(task) /\ tasks' = tasks \ {task} /\ UNCHANGED retry
  /\ UNCHANGED <<hostVars, paneVars, generation, closeVars, events>>

\* The status is asked, then the session is attached; a pane without identity
\* cannot do either.
AskAttach(task) ==
  /\ task[4] = "asking"
  /\ \/ Move(task, "unknown")
     \/ task[1] \in identified /\ Move(task, IF Gone(<<task[1], task[2]>>) THEN "absent" ELSE "present")
  /\ UNCHANGED <<hostVars, paneVars, retry, generation, closeVars, events>>

\* schedule_host_attach_retry
\* Mutant: one delay too many is looked for.
GaveUpLate(p) == retry[p][1] > Retries
GaveUp(p) == retry[p][1] >= Retries
\* Mutant: the entry is made and no timer.
NoTimer(p) == {}
Timer(p) == {<<p, ref[p], generation + 1, "timer">>}
Schedule(p, rest) ==
  IF GaveUp(p) THEN Drop(p) /\ tasks' = rest /\ UNCHANGED generation
  ELSE /\ generation' = generation + 1
       /\ retry' = [retry EXCEPT ![p] = <<@[1] + 1, generation + 1>>]
       /\ tasks' = rest \cup Timer(p)

\* finish_host_attach_retry
Attached(task) == LET p == task[1] rest == tasks \ {task} IN
  /\ task[4] \in {"present", "absent", "unknown"}
  /\ \/ ~Current(task) /\ tasks' = rest /\ UNCHANGED <<paneVars, retry, generation, pending>>
     \/ /\ Current(task) /\ ~Fits(task) /\ tasks' = rest /\ Drop(p)
        /\ UNCHANGED <<paneVars, generation, pending>>
     \/ /\ Current(task) /\ Fits(task)
        /\ \/ /\ task[4] = "present" /\ tasks' = rest /\ Drop(p)
              /\ term' = [term EXCEPT ![p] = "open"] /\ identified' = identified \cup {p}
              /\ retryable' = retryable \cup {p}
              /\ UNCHANGED <<tabs, tab, ref, generation, pending>>
           \/ /\ task[4] = "absent" /\ tasks' = rest /\ RemoveExited(p)
              /\ UNCHANGED <<identified, retryable, generation>>
           \/ task[4] = "unknown" /\ Schedule(p, rest) /\ UNCHANGED <<paneVars, pending>>
  /\ UNCHANGED <<hostVars, checks, events>>

-----------------------------------------------------------------------------
(* Closing *)

Failed(target) == [state |-> "failed", target |-> target]

TargetTabs(target) == CASE target[1] = "pane"   -> {}
                        [] target[1] = "tab"    -> {target[2]} \cap tabs
                        [] target[1] = "others" -> tabs
Targets == {<<"pane", p>> : p \in {q \in Panes : InWindow(q) /\ Cardinality(In(tab[q])) > 1}}
             \cup {<<"tab", t>> : t \in tabs}
             \cup IF Cardinality(tabs) > 1 THEN {<<"others">>} ELSE {}

\* The host cannot be asked about the session of the pane's terminal.
Nameless(p) == term[p] # "none" /\ p \notin identified

Over == [state |-> "over"]
\* Ids may be used again when none is under way.
Settled(cs) == IF \A i \in DOMAIN cs : cs[i] = Over THEN <<>> ELSE cs

Copied(target) == [target |-> target, tabs |-> TargetTabs(target), state |-> "asking",
                   nameless |-> \E p \in Targeted(target) : Nameless(p),
                   shells |-> [p \in Targeted(target) |-> IF Hosted(p) THEN ref[p] ELSE 0]]

\* check_close_processes: the panes are copied for a thread that closes their
\* sessions if no program runs in them.
Close ==
  /\ pending.state # "checking" /\ Len(checks) < MaxChecks /\ Count(Len(checks))
  /\ \E target \in Targets :
       /\ checks' = Append(checks, Copied(target))
       /\ pending' = [state |-> "checking", id |-> Len(checks) + 1, target |-> target]
  /\ UNCHANGED <<hostVars, paneVars, retryVars>>

Goes(ss) == session' = [s \in Shells |-> IF s \in ss THEN "gone" ELSE session[s]]

\* stop_panes_if_idle: all are closed; or a program runs (or that could not be
\* asked) and none is; or closing failed, or its answer was lost.
Reports(c, shells) == IF c.nameless THEN {"blocked"}
                      ELSE {"closed"} \cup IF shells = {} THEN {} ELSE {"blocked", "failed"}
CloseWork(i) ==
  LET shells == {<<p, checks[i].shells[p]>> : p \in DOMAIN checks[i].shells} \cap Shells IN
  /\ checks[i].state = "asking"
  /\ \E report \in Reports(checks[i], shells) :
       /\ checks' = [checks EXCEPT ![i].state = report]
       /\ CASE report = "closed"  -> Goes(shells)
            [] report = "blocked" -> UNCHANGED session
            [] report = "failed"  -> Goes(shells) \/ UNCHANGED session
  /\ UNCHANGED <<left, paneVars, retryVars, pending, events>>

\* force_close_pane, force_close_tab, force_close_other_tabs: a pane of whose
\* session nothing is known cannot be stopped, others may fail to; whether a
\* terminal without identity stops its session is not asked.
ForceClose(target) ==
  LET all == Targeted(target)
      stubborn == {p \in all : ref[p] = 0 /\ p \notin retryable}
      hosted == {p \in all : Hosted(p)} IN
  \E failing \in {stubborn \cup ps : ps \in SUBSET hosted},
     gone \in SUBSET (hosted \cup {p \in all : Nameless(p)}) :
    /\ hosted \ failing \subseteq gone
    /\ Goes({Shell(p) : p \in gone})
    /\ Remove({t \in TargetTabs(target) : In(t) \cap failing = {}}, all \ failing)
    /\ pending' = IF failing = {} THEN None ELSE Failed(target)

\* close_snapshot_matches
\* Mutant: it is not asked whether there are other panes now.
MatchesAnyway(c) == c.target[1] = "pane" \/ TargetTabs(c.target) # {}
Matches(c) == IF c.target[1] = "pane"
              THEN \E p \in Targeted(c.target) : Cardinality(In(tab[p])) > 1
              ELSE /\ TargetTabs(c.target) = c.tabs /\ c.tabs # {}
                   /\ Targeted(c.target) = DOMAIN c.shells

\* The panes changed meanwhile: those whose sessions were closed go.
RemoveStopped(c) ==
  LET stopped == IF c.state = "closed" THEN DOMAIN c.shells ELSE {} IN
  /\ Remove({t \in {tab[p] : p \in stopped} \cap tabs : In(t) \subseteq stopped}, stopped)
  /\ pending' = IF \/ c.target[1] = "pane" /\ tab'[c.target[2]] # "gone"
                   \/ c.target[1] = "tab" /\ c.target[2] \in tabs'
                   \/ c.target[1] = "others"
                THEN Failed(c.target) ELSE None
  /\ UNCHANGED session

Awaited(i) == pending.state = "checking" /\ pending.id = i

\* finish_idle_close, unless the pending close is another one now, or none.
CloseResult(i) ==
  LET c == checks[i] IN
  /\ c.state \in {"closed", "blocked", "failed"}
  /\ checks' = Settled([checks EXCEPT ![i] = Over])
  /\ \/ ~Awaited(i) /\ UNCHANGED <<session, tabs, tab, ref, term, retry, pending>>
     \/ Awaited(i) /\ ~Matches(c) /\ RemoveStopped(c)
     \/ /\ Awaited(i) /\ Matches(c) /\ c.state = "closed"
        /\ Remove(TargetTabs(c.target), Targeted(c.target)) /\ pending' = None
        /\ UNCHANGED session
     \/ Awaited(i) /\ Matches(c) /\ c.state = "blocked" /\ ForceClose(c.target)
     \/ /\ Awaited(i) /\ Matches(c) /\ c.state = "failed" /\ pending' = Failed(c.target)
        /\ UNCHANGED <<session, tabs, tab, ref, term, retry>>
  /\ UNCHANGED <<left, identified, retryable, generation, tasks, events>>

TargetExists(target) == target[1] = "others" \/ Targeted(target) # {} \/ TargetTabs(target) # {}
\* "Terminate & Close" in the dialog of a close that failed.
Confirm ==
  /\ pending.state = "failed"
  /\ IF TargetExists(pending.target) THEN ForceClose(pending.target)
     ELSE pending' = None /\ UNCHANGED <<session, tabs, tab, ref, term, retry>>
  /\ UNCHANGED <<left, identified, retryable, generation, tasks, checks, events>>
Dismiss == /\ pending.state = "failed" /\ pending' = None
           /\ UNCHANGED <<hostVars, paneVars, retryVars, checks, events>>

-----------------------------------------------------------------------------
(* Specification *)

PaneStep(p) == HandleExit(p) \/ AskStatus(p) \/ HandleAnswer(p)
TaskStep(p) == \E task \in tasks : task[1] = p /\ (TimerFires(task) \/ AskAttach(task) \/ Attached(task))
CheckStep(i) == i \in DOMAIN checks /\ (CloseWork(i) \/ CloseResult(i))

Next == \/ \E s \in Shells : SessionEnds(s)
        \/ \E t \in Tabs, p \in Panes : Split(t, p)
        \/ \E p \in Panes : \/ StartNewShell(p) \/ RetryStart(p) \/ RetryReconnect(p)
                            \/ StreamEnds(p) \/ PaneStep(p) \/ TaskStep(p)
        \/ Close \/ Confirm \/ Dismiss
        \/ \E i \in 1..MaxChecks : CheckStep(i)

Spec == Init /\ [][Next]_vars

-----------------------------------------------------------------------------
(* Properties *)

AllTargets == ({"pane"} \X Panes) \cup ({"tab"} \X Tabs) \cup {<<"others">>}
Checks == {Over} \cup [target : AllTargets, tabs : SUBSET Tabs, nameless : BOOLEAN,
                      shells : UNION {[ps -> 0..MaxShells] : ps \in SUBSET Panes},
                      state : {"asking", "closed", "blocked", "failed"}]
Phases == {"timer", "asking", "present", "absent", "unknown"}
TypeOK ==
  /\ session \in [Shells -> {"free", "running", "gone"}] /\ left \subseteq Shells
  /\ tabs \subseteq Tabs /\ tab \in [Panes -> Tabs \cup {"unborn", "gone"}]
  /\ ref \in [Panes -> 0..MaxShells] /\ identified \subseteq Panes /\ retryable \subseteq Panes
  /\ term \in [Panes -> {"none", "open", "ended", "ignored", "asking", "absent", "unknown"}]
  /\ retry \in [Panes -> {NoRetry} \cup (0..Retries) \X (1..generation)]
  /\ generation \in Nat
  /\ tasks \subseteq Panes \X (0..MaxShells) \X (1..generation) \X Phases
  /\ pending \in {None} \cup [state : {"checking"}, id : 1..MaxChecks, target : AllTargets]
                \cup [state : {"failed"}, target : AllTargets]
  /\ checks \in Seq(Checks) /\ Len(checks) <= MaxChecks

Own(p) == {s \in Shells \ left : s[1] = p /\ session[s] = "running"}
Leaves(p) == InWindow(p) /\ ~InWindow(p)'
LeavesRunning(p) == Leaves(p) /\ \E s \in Own(p) : session'[s] = "running"
FoundIdle(p) == \E i \in DOMAIN checks :
                  Awaited(i) /\ checks[i].state = "closed" /\ p \in DOMAIN checks[i].shells
\* A pane whose session runs leaves the window only when the user closes it, and
\* only if its session is out of reach: it has no identity; or nothing is known of
\* it, then never by a forced close; or it was started in this pane after the
\* check of the close began.
PanesLeaveStopped ==
  [][\A p \in Panes : LeavesRunning(p) =>
       CASE p \in identified -> FoundIdle(p) /\ checks[pending.id].shells[p] # ref[p]
         [] p \notin identified /\ ref[p] # 0 -> pending # None
         [] p \notin identified /\ ref[p] = 0 -> p \notin retryable /\ FoundIdle(p)]_vars

\* "Recover from uncertain session starts without creating duplicate sessions"
\* (CHANGELOG.md:331): a pane of the window has one running shell, and those the
\* user chose to leave.
OneShellPerPane == \A p \in Panes : InWindow(p) => Cardinality(Own(p)) <= 1

\* What keeps the user waiting is under way: the check of a close, as long as no
\* other can begin, and a timer or an attachment for each pane that shows
\* "reconnecting".
WaitsAreAnswered ==
  /\ pending.state = "checking" =>
       pending.id \in DOMAIN checks /\ checks[pending.id].state # "over"
  /\ \A p \in Panes : retry[p] # NoRetry => \E task \in tasks : task[1] = p /\ Current(task)

\* Only the forced close of a pane that became the last of its tab leaves the tab
\* without panes.
OnlyForcedCloseEmptiesTabs ==
  [][\A t \in tabs \cap tabs' : In(t) # {} /\ In(t)' = {} =>
       pending.state = "failed" /\ \E p \in In(t) : pending.target = <<"pane", p>>]_vars
=============================================================================
