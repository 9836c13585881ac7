------------------------- MODULE WindowPanesProofs -------------------------
(***************************************************************************)
(* Proofs about WindowPanes, for any panes, tabs, layouts and bounds.      *)
(***************************************************************************)
EXTENDS WindowPanes, FiniteSetTheorems, SequenceTheorems, TLAPS

\* A pane that knows a session has no other; one that knows none and may start
\* one has none; one that does not know may have one.
OwnInv ==
  \A p \in Panes :
    /\ tab[p] = "unborn" => Own(p) = {}
    /\ InWindow(p) => IF ref[p] # 0 THEN Own(p) \subseteq {Shell(p)}
                      ELSE IF p \in retryable THEN Own(p) = {} ELSE \E s : Own(p) \subseteq {s}

\* The check that a close waits for has an answer to come.
CloseInv == pending.state = "checking" => pending.id \in DOMAIN checks /\ checks[pending.id].state # "over"

\* A timer or an attachment goes on for each pane that is attached again.
RetryInv == \A p \in Panes : retry[p] # NoRetry => \E task \in tasks : task[1] = p /\ Current(task)

IInv == TypeOK /\ OwnInv /\ CloseInv /\ RetryInv

USE LayoutsAssumption, PanesAssumption, BoundsAssumption

-----------------------------------------------------------------------------
(* Types *)

RetryType(g) == [Panes -> {NoRetry} \cup (0..Retries) \X (1..g)]
TaskType(g) == Panes \X (0..MaxShells) \X (1..g) \X Phases

LEMMA GenerationGrows ==
  ASSUME NEW g \in Nat, NEW h \in Nat, g <= h
  PROVE  RetryType(g) \subseteq RetryType(h) /\ TaskType(g) \subseteq TaskType(h)
<1>1. 1..g \subseteq 1..h
  OBVIOUS
<1>2. (0..Retries) \X (1..g) \subseteq (0..Retries) \X (1..h)
  BY <1>1
<1>3. RetryType(g) \subseteq RetryType(h)
  BY <1>2 DEF RetryType
<1>4. TaskType(g) \subseteq TaskType(h)
  BY <1>1 DEF TaskType
<1> QED BY <1>3, <1>4

\* Panes and tabs only leave, and what stays keeps its session.
Shrinks ==
  /\ tabs' \subseteq tabs /\ tab' \in [Panes -> Tabs \cup {"unborn", "gone"}]
  /\ ref' \in [Panes -> 0..MaxShells]
  /\ term' \in [Panes -> {"none", "open", "ended", "ignored", "asking", "absent", "unknown"}]
  /\ retry' \in RetryType(generation)
  /\ \A p \in Panes : /\ InWindow(p)' => InWindow(p) /\ UNCHANGED <<tab[p], ref[p]>>
                      /\ tab'[p] = "unborn" => tab[p] = "unborn"
                      /\ retry'[p] \in {retry[p], NoRetry}
                      /\ \/ UNCHANGED <<ref[p], term[p]>>
                         \/ ref'[p] = 0 /\ term'[p] = "none"

LEMMA SameShrinks ==
  ASSUME TypeOK, UNCHANGED <<tabs, tab, ref, term, retry>>
  PROVE  Shrinks
BY DEF TypeOK, Shrinks, RetryType, InWindow

LEMMA RemoveFacts ==
  ASSUME TypeOK, NEW ts, NEW ps, Remove(ts, ps)
  PROVE  Shrinks
<1> USE DEF Shrinks
<1>1. tabs' \subseteq tabs
  BY DEF Remove
<1>2. \A p \in Panes : \/ tab'[p] = "gone" /\ ref'[p] = 0 /\ term'[p] = "none" /\ retry'[p] = NoRetry
                       \/ UNCHANGED <<tab[p], ref[p], term[p], retry[p]>>
  BY DEF Remove, TypeOK
<1>3. /\ tab' \in [Panes -> Tabs \cup {"unborn", "gone"}] /\ ref' \in [Panes -> 0..MaxShells]
      /\ term' \in [Panes -> {"none", "open", "ended", "ignored", "asking", "absent", "unknown"}]
  BY DEF Remove, TypeOK
<1>4. retry' \in RetryType(generation)
  BY DEF Remove, TypeOK, RetryType
<1>5. \A p \in Panes : InWindow(p)' => InWindow(p) /\ UNCHANGED <<tab[p], ref[p]>>
  BY <1>1, <1>2 DEF InWindow, TypeOK
<1> QED BY <1>1, <1>2, <1>3, <1>4, <1>5

\* A shell is started for a pane that has none of its own.
LEMMA StartFacts ==
  ASSUME TypeOK, NEW p \in Panes, StartShell(p)
  PROVE  /\ session' \in [Shells -> {"free", "running", "gone"}]
         /\ ref' \in [Panes -> 0..MaxShells]
         /\ term' \in [Panes -> {"none", "open", "ended", "ignored", "asking", "absent", "unknown"}]
         /\ identified' \subseteq Panes /\ retryable' \subseteq Panes
         /\ \A q \in Panes \ {p} : ref'[q] = ref[q] /\ (q \in retryable' <=> q \in retryable)
         /\ \E k \in 1..MaxShells :
              /\ \A s \in Shells : session'[s] = "running" => session[s] = "running" \/ s = <<p, k>>
              /\ \/ ref'[p] = k
                 \/ ref'[p] = 0 /\ p \notin retryable'
                 \/ ref'[p] = 0 /\ session' = session
<1> DEFINE k == NewShell(p)
<1>1. k \in 1..MaxShells
  <2>1. IsFiniteSet(Started(p))
    <3>1. IsFiniteSet(1..MaxShells) /\ Started(p) \subseteq 1..MaxShells
      BY FS_Interval DEF Started
    <3> QED BY <3>1, FS_Subset
  <2>2. Cardinality(Started(p)) \in Nat
    BY <2>1, FS_CardinalityType
  <2> QED BY <2>2 DEF StartShell, NewShell
<1> HIDE DEF k
<1>2. <<p, k>> \in Shells
  BY <1>1 DEF Shells
<1>3. session' = session \/ session' = [session EXCEPT ![<<p, k>>] = "running"]
  BY DEF StartShell, k
<1>4. session' \in [Shells -> {"free", "running", "gone"}]
      /\ \A s \in Shells : session'[s] = "running" => session[s] = "running" \/ s = <<p, k>>
  BY <1>2, <1>3 DEF TypeOK
<1>5. ref' = [ref EXCEPT ![p] = k] \/ (ref' = [ref EXCEPT ![p] = 0] /\ p \notin retryable')
        \/ (ref' = [ref EXCEPT ![p] = 0] /\ session' = session)
  BY DEF StartShell, k
<1>6. ref' \in [Panes -> 0..MaxShells] /\ \A q \in Panes \ {p} : ref'[q] = ref[q]
  BY <1>1, <1>5 DEF TypeOK
<1>7. ref'[p] = k \/ (ref'[p] = 0 /\ p \notin retryable') \/ (ref'[p] = 0 /\ session' = session)
  BY <1>5 DEF TypeOK
<1>8. /\ term' \in [Panes -> {"none", "open", "ended", "ignored", "asking", "absent", "unknown"}]
      /\ identified' \subseteq Panes
  BY DEF StartShell, TypeOK
<1>9. retryable' \subseteq Panes /\ \A q \in Panes \ {p} : q \in retryable' <=> q \in retryable
  BY DEF StartShell, TypeOK
<1> QED BY <1>1, <1>4, <1>6, <1>7, <1>8, <1>9

LEMMA ReconnectFacts ==
  ASSUME TypeOK, NEW p \in Panes, Reconnect(p)
  PROVE  /\ generation' \in Nat /\ retry' \in RetryType(generation') /\ tasks' \subseteq TaskType(generation')
         /\ \A q \in Panes \ {p} : retry'[q] = retry[q]
         /\ tasks \subseteq tasks'
         /\ \E task \in tasks' : task[1] = p /\ Current(task)'
<1> DEFINE new == <<p, ref[p], generation + 1, "asking">>
<1>1. generation \in Nat /\ generation' = generation + 1 /\ generation <= generation'
  BY DEF Reconnect, TypeOK
<1>2. retry \in RetryType(generation') /\ tasks \subseteq TaskType(generation')
  BY <1>1, GenerationGrows DEF TypeOK, RetryType, TaskType
<1>3. <<0, generation + 1>> \in (0..Retries) \X (1..generation')
  BY <1>1
<1>4. retry' \in RetryType(generation')
  BY <1>2, <1>3 DEF Reconnect, RetryType
<1>5. new \in TaskType(generation')
  BY <1>1 DEF TypeOK, TaskType, Phases
<1>6. tasks' = tasks \cup {new}
  BY DEF Reconnect
<1>7. retry'[p] = <<0, generation + 1>> /\ \A q \in Panes \ {p} : retry'[q] = retry[q]
  BY DEF Reconnect, TypeOK
<1>8. \E task \in tasks' : task[1] = p /\ Current(task)'
  <2>1. new \in tasks' /\ new[1] = p /\ new[3] = generation + 1
    BY <1>6
  <2>2. <<0, generation + 1>> # NoRetry /\ <<0, generation + 1>>[2] = generation + 1
    BY DEF NoRetry
  <2> QED BY <1>7, <2>1, <2>2 DEF Current
<1> QED BY <1>1, <1>2, <1>4, <1>5, <1>6, <1>7, <1>8

LEMMA ScheduleFacts ==
  ASSUME TypeOK, NEW p \in Panes, retry[p] # NoRetry,
         NEW rest \in SUBSET tasks, Schedule(p, rest)
  PROVE  /\ generation' \in Nat /\ retry' \in RetryType(generation') /\ tasks' \subseteq TaskType(generation')
         /\ \A q \in Panes \ {p} : retry'[q] = retry[q]
         /\ rest \subseteq tasks'
         /\ retry'[p] # NoRetry => \E task \in tasks' : task[1] = p /\ Current(task)'
<1>1. CASE GaveUp(p)
  <2>1. UNCHANGED generation /\ tasks' = rest /\ retry' = [retry EXCEPT ![p] = NoRetry]
    BY <1>1 DEF Schedule, Drop
  <2> QED BY <2>1 DEF TypeOK, RetryType, TaskType
<1>2. CASE ~GaveUp(p)
  <2> DEFINE new == <<p, ref[p], generation + 1, "timer">>
  <2>1. generation \in Nat /\ generation' = generation + 1 /\ generation <= generation'
    BY <1>2 DEF Schedule, TypeOK
  <2>2. retry \in RetryType(generation') /\ tasks \subseteq TaskType(generation')
    BY <2>1, GenerationGrows DEF TypeOK, RetryType, TaskType
  <2>3. retry[p] \in (0..Retries) \X (1..generation)
    BY DEF TypeOK
  <2>4. <<retry[p][1] + 1, generation + 1>> \in (0..Retries) \X (1..generation')
    BY <1>2, <2>1, <2>3 DEF GaveUp
  <2>5. retry' = [retry EXCEPT ![p] = <<retry[p][1] + 1, generation + 1>>]
    BY <1>2 DEF Schedule
  <2>6. retry' \in RetryType(generation')
    BY <2>2, <2>4, <2>5 DEF RetryType
  <2>7. new \in TaskType(generation')
    BY <2>1 DEF TypeOK, TaskType, Phases
  <2>8. tasks' = rest \cup {new}
    BY <1>2 DEF Schedule, Timer
  <2>9. retry'[p] = <<retry[p][1] + 1, generation + 1>> /\ \A q \in Panes \ {p} : retry'[q] = retry[q]
    BY <2>5 DEF TypeOK
  <2>10. \E task \in tasks' : task[1] = p /\ Current(task)'
    <3>1. new \in tasks' /\ new[1] = p /\ new[3] = generation + 1
      BY <2>8
    <3>2. retry'[p] # NoRetry /\ retry'[p][2] = generation + 1
      BY <2>9 DEF NoRetry
    <3> QED BY <3>1, <3>2 DEF Current
  <2> QED BY <2>1, <2>2, <2>6, <2>7, <2>8, <2>9, <2>10
<1> QED BY <1>1, <1>2

LEMMA RemoveExitedFacts ==
  ASSUME TypeOK, NEW p \in Panes, RemoveExited(p)
  PROVE  Shrinks /\ pending' \in {pending, None}
<1>1. \E ts, ps : Remove(ts, ps)
  BY DEF RemoveExited
<1>2. pending' \in {pending, None}
  BY DEF RemoveExited
<1> QED BY <1>1, <1>2, RemoveFacts

\* What is gone stays gone.
Keeps == \A s \in Shells : /\ session[s] = "gone" => session'[s] = "gone"
                           /\ session[s] # "free" => session'[s] # "free"

\* No shell starts.
NoneStarts == /\ session' \in [Shells -> {"free", "running", "gone"}]
              /\ \A s \in Shells : session'[s] = "running" => session[s] = "running"
              /\ Keeps

LEMMA GoesFacts ==
  ASSUME TypeOK, NEW ss, Goes(ss)
  PROVE  NoneStarts
BY DEF TypeOK, Goes, NoneStarts, Keeps

Failures == [state : {"failed"}, target : AllTargets]

LEMMA ForceCloseFacts ==
  ASSUME TypeOK, NEW target \in AllTargets, ForceClose(target)
  PROVE  Shrinks /\ NoneStarts /\ pending' \in {None} \cup Failures
<1>1. \E ss : Goes(ss)
  BY DEF ForceClose
<1>2. \E ts, ps : Remove(ts, ps)
  BY DEF ForceClose
<1>3. pending' \in {None, Failed(target)}
  BY DEF ForceClose
<1>4. Failed(target) \in Failures
  BY DEF Failed, Failures
<1> QED BY <1>1, <1>2, <1>3, <1>4, GoesFacts, RemoveFacts

\* What the result of a check does.
LEMMA CloseResultFacts ==
  ASSUME TypeOK, NEW i \in 1..MaxChecks, i \in DOMAIN checks, CloseResult(i)
  PROVE  /\ Shrinks /\ NoneStarts
         /\ (~Awaited(i) /\ pending' = pending) \/ pending' \in {None} \cup Failures
         /\ checks' = Settled([checks EXCEPT ![i] = Over])
         /\ UNCHANGED <<left, identified, retryable, generation, tasks, events>>
<1> DEFINE c == checks[i]
<1>1. c.target \in AllTargets
  <2>1. c \in Checks /\ c.state # "over"
    BY ElementOfSeq DEF TypeOK, CloseResult
  <2> QED BY <2>1 DEF Checks, Over
<1>2. checks' = Settled([checks EXCEPT ![i] = Over])
      /\ UNCHANGED <<left, identified, retryable, generation, tasks, events>>
  BY DEF CloseResult
<1>3. NoneStarts \/ session' # session
  BY DEF NoneStarts, Keeps, TypeOK
<1>4. Failed(c.target) \in Failures
  BY <1>1 DEF Failed, Failures
<1> HIDE DEF c
<1>5. CASE ~Awaited(i) /\ UNCHANGED <<session, tabs, tab, ref, term, retry, pending>>
  BY <1>2, <1>3, <1>5, SameShrinks
<1>6. CASE RemoveStopped(c)
  <2>1. \E ts, ps : Remove(ts, ps)
    BY <1>6 DEF RemoveStopped
  <2>2. pending' \in {None, Failed(c.target)} /\ session' = session
    BY <1>6 DEF RemoveStopped
  <2> QED BY <1>2, <1>3, <1>4, <2>1, <2>2, RemoveFacts
<1>7. CASE (\E ts, ps : Remove(ts, ps)) /\ pending' = None /\ session' = session
  BY <1>2, <1>3, <1>7, RemoveFacts
<1>8. CASE ForceClose(c.target)
  BY <1>1, <1>2, <1>8, ForceCloseFacts
<1>9. CASE pending' = Failed(c.target) /\ UNCHANGED <<session, tabs, tab, ref, term, retry>>
  BY <1>2, <1>3, <1>4, <1>9, SameShrinks
<1> QED BY <1>5, <1>6, <1>7, <1>8, <1>9 DEF CloseResult, c

LEMMA ConfirmFacts ==
  ASSUME TypeOK, Confirm
  PROVE  Shrinks /\ NoneStarts /\ pending' \in {None} \cup Failures
         /\ UNCHANGED <<left, identified, retryable, generation, tasks, checks, events>>
<1>1. pending.target \in AllTargets
  BY DEF Confirm, TypeOK, None
<1>2. CASE ForceClose(pending.target)
  BY <1>1, <1>2, ForceCloseFacts DEF Confirm
<1>3. CASE pending' = None /\ UNCHANGED <<session, tabs, tab, ref, term, retry>>
  BY <1>3, SameShrinks DEF Confirm, NoneStarts, Keeps, TypeOK
<1> QED BY <1>2, <1>3 DEF Confirm

LEMMA CloseFacts ==
  ASSUME TypeOK, Close
  PROVE  /\ \E c \in Checks : checks' = Append(checks, c) /\ c.state = "asking"
         /\ pending'.state = "checking" /\ pending'.id = Len(checks) + 1
         /\ pending' \in [state : {"checking"}, id : 1..MaxChecks, target : AllTargets]
         /\ Len(checks) < MaxChecks
<1>1. PICK target \in Targets :
        /\ checks' = Append(checks, Copied(target))
        /\ pending' = [state |-> "checking", id |-> Len(checks) + 1, target |-> target]
  BY DEF Close
<1>2. target \in AllTargets
  BY <1>1 DEF Targets, AllTargets, TypeOK
<1>3. target[1] \in {"pane", "tab", "others"}
  BY <1>2 DEF AllTargets
<1>4. Targeted(target) \subseteq Panes /\ TargetTabs(target) \subseteq Tabs
  BY <1>3 DEF Targeted, TargetTabs, In, TypeOK
<1>5. [p \in Targeted(target) |-> IF Hosted(p) THEN ref[p] ELSE 0] \in UNION {[ps -> 0..MaxShells] : ps \in SUBSET Panes}
  <2>1. [p \in Targeted(target) |-> IF Hosted(p) THEN ref[p] ELSE 0] \in [Targeted(target) -> 0..MaxShells]
    BY <1>4 DEF TypeOK
  <2> QED BY <1>4, <2>1
<1>6. Copied(target) \in Checks /\ Copied(target).state = "asking"
  BY <1>2, <1>4, <1>5 DEF Checks, Copied
<1>7. Len(checks) < MaxChecks /\ Len(checks) + 1 \in 1..MaxChecks
  BY LenProperties DEF Close, TypeOK
<1> QED BY <1>1, <1>2, <1>6, <1>7

LEMMA AttachedFacts ==
  ASSUME TypeOK, NEW p \in Panes, NEW task \in tasks, task[1] = p, Attached(task)
  PROVE  /\ tabs' \subseteq tabs /\ tab' \in [Panes -> Tabs \cup {"unborn", "gone"}]
         /\ ref' \in [Panes -> 0..MaxShells]
         /\ term' \in [Panes -> {"none", "open", "ended", "ignored", "asking", "absent", "unknown"}]
         /\ \A q \in Panes : /\ InWindow(q)' => InWindow(q) /\ UNCHANGED <<tab[q], ref[q]>>
                             /\ tab'[q] = "unborn" => tab[q] = "unborn"
                             /\ \/ UNCHANGED <<ref[q], term[q]>>
                                \/ ref'[q] = 0 /\ term'[q] = "none"
                                \/ ref'[q] = ref[q] /\ ref[q] # 0 /\ term'[q] = "open"
         /\ identified' \subseteq Panes /\ retryable' \subseteq Panes
         /\ \A q \in retryable' : q \in retryable \/ ref[q] # 0
         /\ pending' \in {pending, None} /\ UNCHANGED <<session, left, checks, events>>
         /\ generation' \in Nat /\ retry' \in RetryType(generation') /\ tasks' \subseteq TaskType(generation')
         /\ tasks \ {task} \subseteq tasks'
         /\ \A q \in Panes : \/ retry'[q] = NoRetry
                             \/ retry'[q] = retry[q] /\ (q = p => ~Current(task))
                             \/ \E t \in tasks' : t[1] = q /\ Current(t)'
<1> DEFINE rest == tasks \ {task}
<1> USE DEF paneVars, hostVars
<1>0. retry \in RetryType(generation) /\ tasks \subseteq TaskType(generation) /\ generation \in Nat
  BY DEF TypeOK, RetryType, TaskType
<1>1. UNCHANGED <<session, left, checks, events>>
  BY DEF Attached
<1>2. ASSUME Drop(p) PROVE retry' \in RetryType(generation) /\ retry'[p] = NoRetry /\ \A q \in Panes \ {p} : retry'[q] = retry[q]
  BY <1>0, <1>2 DEF Drop, RetryType, TypeOK
<1>3. CASE ~Current(task) /\ tasks' = rest /\ UNCHANGED <<paneVars, retry, generation, pending>>
  BY <1>0, <1>1, <1>3, SameShrinks DEF Shrinks, TypeOK
<1>4. CASE Current(task) /\ ~Fits(task) /\ tasks' = rest /\ Drop(p) /\ UNCHANGED <<paneVars, generation, pending>>
  <2>1. UNCHANGED <<tabs, tab, ref, term, identified, retryable, pending, generation>>
    BY <1>4
  <2> QED BY <1>0, <1>1, <1>2, <1>4, <2>1 DEF TypeOK, InWindow
<1>5. CASE /\ Current(task) /\ Fits(task) /\ tasks' = rest /\ Drop(p)
           /\ term' = [term EXCEPT ![p] = "open"] /\ identified' = identified \cup {p}
           /\ retryable' = retryable \cup {p}
           /\ UNCHANGED <<tabs, tab, ref, generation, pending>>
  <2>1. ref[p] # 0
    BY <1>5 DEF Fits, Unavailable
  <2> QED BY <1>0, <1>1, <1>2, <1>5, <2>1 DEF TypeOK, InWindow
<1>6. CASE /\ Current(task) /\ Fits(task) /\ tasks' = rest /\ RemoveExited(p)
           /\ UNCHANGED <<identified, retryable, generation>>
  <2>1. Shrinks /\ pending' \in {pending, None}
    BY <1>6, RemoveExitedFacts
  <2>2. retry'[p] = NoRetry
    <3>1. p \in In(tab[p]) /\ tab[p] \in tabs
      BY <1>6 DEF Fits, Unavailable, In, InWindow
    <3> QED BY <1>6, <3>1 DEF RemoveExited, Remove
  <2> QED BY <1>0, <1>1, <1>6, <2>1, <2>2 DEF Shrinks, TypeOK
<1>7. CASE Current(task) /\ Fits(task) /\ Schedule(p, rest) /\ UNCHANGED <<paneVars, pending>>
  <2>1. retry[p] # NoRetry
    BY <1>7 DEF Current
  <2>2. UNCHANGED <<tabs, tab, ref, term, identified, retryable, pending>>
    BY <1>7
  <2>3. /\ generation' \in Nat /\ retry' \in RetryType(generation') /\ tasks' \subseteq TaskType(generation')
        /\ \A q \in Panes \ {p} : retry'[q] = retry[q]
        /\ rest \subseteq tasks'
        /\ retry'[p] # NoRetry => \E t \in tasks' : t[1] = p /\ Current(t)'
    <3>1. rest \in SUBSET tasks
      OBVIOUS
    <3> HIDE DEF rest
    <3> QED BY <1>7, <2>1, <3>1, ScheduleFacts
  <2>4. \A q \in Panes : /\ InWindow(q)' => InWindow(q) /\ UNCHANGED <<tab[q], ref[q]>>
                         /\ tab'[q] = "unborn" => tab[q] = "unborn"
    BY <2>2 DEF InWindow
  <2> QED BY <1>1, <2>2, <2>3, <2>4 DEF TypeOK
<1> QED BY <1>3, <1>4, <1>5, <1>6, <1>7 DEF Attached

LEMMA TypeStep == TypeOK /\ [Next]_vars => TypeOK'
<1> SUFFICES ASSUME TypeOK, [Next]_vars PROVE TypeOK'
  OBVIOUS
<1> USE DEF hostVars, paneVars, retryVars, closeVars, notTerm
<1>0. retry \in RetryType(generation) /\ tasks \subseteq TaskType(generation) /\ generation \in Nat
  BY DEF TypeOK, RetryType, TaskType
<1>1. CASE UNCHANGED vars
  BY <1>1 DEF vars, TypeOK
<1>2. ASSUME NEW s \in Shells, SessionEnds(s) PROVE TypeOK'
  BY <1>2 DEF SessionEnds, TypeOK
<1>3. ASSUME NEW p \in Panes, StartShell(p), left' \subseteq Shells,
             tab' \in [Panes -> Tabs \cup {"unborn", "gone"}], retry' \in RetryType(generation),
             UNCHANGED <<tabs, generation, tasks, closeVars>>
      PROVE  TypeOK'
  <2>1. /\ session' \in [Shells -> {"free", "running", "gone"}]
        /\ ref' \in [Panes -> 0..MaxShells]
        /\ term' \in [Panes -> {"none", "open", "ended", "ignored", "asking", "absent", "unknown"}]
        /\ identified' \subseteq Panes /\ retryable' \subseteq Panes
    BY <1>3, StartFacts
  <2> QED BY <1>3, <2>1 DEF TypeOK, RetryType
<1>4. ASSUME NEW t \in Tabs, NEW p \in Panes, Split(t, p) PROVE TypeOK'
  <2>1. left' \subseteq Shells /\ tab' \in [Panes -> Tabs \cup {"unborn", "gone"}] /\ retry' = retry
    BY <1>4 DEF Split, TypeOK
  <2> QED BY <1>0, <1>3, <1>4, <2>1 DEF Split
<1>5. ASSUME NEW p \in Panes, StartNewShell(p) PROVE TypeOK'
  <2>1. Shell(p) \in Shells
    BY <1>5 DEF StartNewShell, Shell, Shells, TypeOK
  <2>2. left' \subseteq Shells /\ retry' \in RetryType(generation)
    BY <1>0, <1>5, <2>1 DEF StartNewShell, TypeOK, RetryType
  <2> QED BY <1>3, <1>5, <2>2 DEF StartNewShell, TypeOK
<1>6. ASSUME NEW p \in Panes, RetryStart(p) PROVE TypeOK'
  BY <1>0, <1>3, <1>6 DEF RetryStart, TypeOK
<1>7. ASSUME NEW p \in Panes, RetryReconnect(p) PROVE TypeOK'
  <2>1. generation' \in Nat /\ retry' \in RetryType(generation') /\ tasks' \subseteq TaskType(generation')
    BY <1>7, ReconnectFacts DEF RetryReconnect
  <2> QED BY <1>7, <2>1 DEF RetryReconnect, TypeOK, RetryType, TaskType
<1>8. ASSUME NEW p \in Panes, StreamEnds(p) \/ HandleExit(p) \/ AskStatus(p) PROVE TypeOK'
  <2>1. term' \in [Panes -> {"none", "open", "ended", "ignored", "asking", "absent", "unknown"}]
    <3>1. \E from, to : /\ SetTerm(p, from, to)
                        /\ to \in {"ended", "ignored", "asking", "unknown", "absent"}
      BY <1>8 DEF StreamEnds, HandleExit, AskStatus
    <3> QED BY <3>1 DEF SetTerm, TypeOK
  <2> QED BY <1>8, <2>1 DEF StreamEnds, HandleExit, AskStatus, TypeOK
<1>9. ASSUME NEW p \in Panes, HandleAnswer(p) PROVE TypeOK'
  <2>1. CASE term' = [term EXCEPT ![p] = "ignored"] /\ UNCHANGED <<tabs, tab, ref, retryVars, pending, events>>
    BY <1>9, <2>1 DEF HandleAnswer, TypeOK
  <2>2. CASE RemoveExited(p) /\ UNCHANGED <<generation, tasks, events>>
    <3>1. Shrinks /\ pending' \in {pending, None}
      BY <2>2, RemoveExitedFacts
    <3> QED BY <1>9, <2>2, <3>1 DEF HandleAnswer, TypeOK, Shrinks, RetryType
  <2>3. CASE term' = [term EXCEPT ![p] = "none"] /\ Reconnect(p) /\ UNCHANGED <<tabs, tab, ref, pending>>
    <3>1. generation' \in Nat /\ retry' \in RetryType(generation') /\ tasks' \subseteq TaskType(generation')
      BY <2>3, ReconnectFacts
    <3> QED BY <1>9, <2>3, <3>1 DEF HandleAnswer, TypeOK, RetryType, TaskType
  <2> QED BY <1>9, <2>1, <2>2, <2>3 DEF HandleAnswer
<1>10. ASSUME NEW task \in tasks, NEW phase \in Phases
       PROVE  <<task[1], task[2], task[3], phase>> \in TaskType(generation)
  BY <1>0 DEF TaskType
<1>11. ASSUME NEW p \in Panes, NEW task \in tasks, task[1] = p, TimerFires(task) PROVE TypeOK'
  <2>1. tasks' \subseteq TaskType(generation)
    <3>1. "asking" \in Phases
      BY DEF Phases
    <3>2. tasks' \subseteq tasks \/ Move(task, "asking")
      BY <1>11 DEF TimerFires
    <3> QED BY <1>0, <1>10, <3>1, <3>2 DEF Move
  <2>2. retry' \in RetryType(generation)
    BY <1>0, <1>11 DEF TimerFires, Drop, RetryType
  <2> QED BY <1>11, <2>1, <2>2 DEF TimerFires, TypeOK, RetryType, TaskType
<1>12. ASSUME NEW task \in tasks, AskAttach(task) PROVE TypeOK'
  <2>1. tasks' \subseteq TaskType(generation)
    <3>1. PICK phase \in {"unknown", "absent", "present"} : Move(task, phase)
      BY <1>12 DEF AskAttach
    <3> QED BY <1>0, <1>10, <3>1 DEF Move, Phases
  <2> QED BY <1>12, <2>1 DEF AskAttach, TypeOK, TaskType
<1>13. ASSUME NEW p \in Panes, NEW task \in tasks, task[1] = p, Attached(task) PROVE TypeOK'
  <2>1. /\ tabs' \subseteq tabs /\ tab' \in [Panes -> Tabs \cup {"unborn", "gone"}]
        /\ ref' \in [Panes -> 0..MaxShells]
        /\ term' \in [Panes -> {"none", "open", "ended", "ignored", "asking", "absent", "unknown"}]
        /\ identified' \subseteq Panes /\ retryable' \subseteq Panes
        /\ pending' \in {pending, None} /\ UNCHANGED <<session, left, checks>>
        /\ generation' \in Nat /\ retry' \in RetryType(generation') /\ tasks' \subseteq TaskType(generation')
    BY <1>13, AttachedFacts
  <2> QED BY <2>1 DEF TypeOK, RetryType, TaskType
<1>14. CASE Close
  <2>1. PICK c \in Checks : checks' = Append(checks, c)
    BY <1>14, CloseFacts
  <2>2. checks \in Seq(Checks) /\ Len(checks) < MaxChecks /\ Len(checks) \in Nat
        /\ pending' \in [state : {"checking"}, id : 1..MaxChecks, target : AllTargets]
    BY <1>14, CloseFacts, LenProperties DEF TypeOK
  <2>3. checks' \in Seq(Checks) /\ Len(checks') = Len(checks) + 1
    BY <2>1, <2>2, AppendProperties
  <2>4. Len(checks') <= MaxChecks
    BY <2>2, <2>3
  <2> QED BY <1>14, <2>2, <2>3, <2>4 DEF Close, TypeOK
<1>15. CASE Confirm
  BY <1>15, ConfirmFacts DEF TypeOK, Shrinks, NoneStarts, Failures, RetryType
<1>16. CASE Dismiss
  BY <1>16 DEF Dismiss, TypeOK
<1>17. ASSUME NEW i \in DOMAIN checks, NEW c \in Checks
       PROVE  [checks EXCEPT ![i] = c] \in Seq(Checks) /\ Len([checks EXCEPT ![i] = c]) = Len(checks)
  BY ExceptSeq DEF TypeOK
<1>18. ASSUME NEW i \in DOMAIN checks, CloseWork(i) PROVE TypeOK'
  <2>1. PICK report \in {"closed", "blocked", "failed"} : checks' = [checks EXCEPT ![i].state = report]
    BY <1>18 DEF CloseWork, Reports
  <2>2. [checks[i] EXCEPT !.state = report] \in Checks
    <3>1. checks[i] \in Checks /\ checks[i].state = "asking"
      BY <1>18, ElementOfSeq DEF CloseWork, TypeOK
    <3>2. checks[i] \in [target : AllTargets, tabs : SUBSET Tabs, nameless : BOOLEAN,
                      shells : UNION {[ps -> 0..MaxShells] : ps \in SUBSET Panes},
                      state : {"asking", "closed", "blocked", "failed"}]
      BY <3>1 DEF Checks, Over
    <3> QED BY <3>2 DEF Checks
  <2>3. checks' = [checks EXCEPT ![i] = [checks[i] EXCEPT !.state = report]]
    BY <2>1
  <2>4. checks' \in Seq(Checks) /\ Len(checks') = Len(checks)
    BY <1>17, <2>2, <2>3
  <2>5. session' \in [Shells -> {"free", "running", "gone"}]
    BY <1>18 DEF CloseWork, Reports, Goes, TypeOK
  <2> QED BY <1>18, <2>4, <2>5 DEF CloseWork, TypeOK
<1>19. ASSUME NEW i \in 1..MaxChecks, i \in DOMAIN checks, CloseResult(i) PROVE TypeOK'
  <2>1. [checks EXCEPT ![i] = Over] \in Seq(Checks) /\ Len([checks EXCEPT ![i] = Over]) = Len(checks)
    BY <1>17, <1>19 DEF Checks
  <2>2. <<>> \in Seq(Checks) /\ Len(<<>>) = 0
    BY EmptySeq
  <2>3. checks' \in Seq(Checks) /\ Len(checks') <= MaxChecks
    <3>1. checks' = Settled([checks EXCEPT ![i] = Over])
      BY <1>19, CloseResultFacts
    <3>2. checks' \in {<<>>, [checks EXCEPT ![i] = Over]}
      BY <3>1 DEF Settled
    <3>3. Len(checks) <= MaxChecks /\ MaxChecks \in Nat
      BY DEF TypeOK
    <3>4. CASE checks' = <<>>
      BY <2>2, <3>3, <3>4
    <3>5. CASE checks' = [checks EXCEPT ![i] = Over]
      <4>1. checks' \in Seq(Checks) /\ Len(checks') = Len(checks)
        BY <2>1, <3>5
      <4> QED BY <3>3, <4>1
    <3> QED BY <3>2, <3>4, <3>5
  <2> QED BY <1>19, <2>3, CloseResultFacts DEF TypeOK, Shrinks, NoneStarts, Failures, RetryType
<1> QED BY <1>1, <1>2, <1>4, <1>5, <1>6, <1>7, <1>8, <1>9, <1>11, <1>12, <1>13, <1>14, <1>15, <1>16, <1>18, <1>19
        DEF Next, PaneStep, TaskStep, CheckStep, TypeOK

-----------------------------------------------------------------------------
(* Shells *)

\* A step that starts no shell and forgets none.
LEMMA OwnCalm ==
  ASSUME TypeOK, OwnInv, \A s \in Shells : session'[s] = "running" => session[s] = "running",
         left \subseteq left',
         \A p \in Panes : /\ InWindow(p)' => InWindow(p) /\ ref'[p] = ref[p]
                          /\ tab'[p] = "unborn" => tab[p] = "unborn"
                          /\ p \in retryable' => p \in retryable \/ ref[p] # 0
  PROVE  OwnInv'
<1> SUFFICES ASSUME NEW p \in Panes
             PROVE  /\ tab'[p] = "unborn" => Own(p)' = {}
                    /\ InWindow(p)' => IF ref'[p] # 0 THEN Own(p)' \subseteq {Shell(p)'}
                          ELSE IF p \in retryable' THEN Own(p)' = {} ELSE \E s : Own(p)' \subseteq {s}
  BY DEF OwnInv
<1>1. Own(p)' \subseteq Own(p)
  BY DEF Own
<1>2. CASE tab'[p] = "unborn"
  <2>1. Own(p)' = {}
    BY <1>1, <1>2 DEF OwnInv
  <2> QED BY <2>1
<1>3. CASE InWindow(p)'
  <2>1. InWindow(p) /\ ref'[p] = ref[p] /\ Shell(p)' = Shell(p)
    BY <1>3 DEF Shell
  <2> QED BY <1>1, <1>2, <2>1 DEF OwnInv
<1> QED BY <1>2, <1>3

LEMMA OwnStart ==
  ASSUME TypeOK, OwnInv, NEW p \in Panes, StartShell(p), left \subseteq left', tabs' = tabs,
         \A q \in Panes \ {p} : tab'[q] = tab[q], tab'[p] # "unborn",
         \A s \in Own(p) : s \in left'
  PROVE  OwnInv'
<1>1. PICK k \in 1..MaxShells :
        /\ \A s \in Shells : session'[s] = "running" => session[s] = "running" \/ s = <<p, k>>
        /\ \/ ref'[p] = k
           \/ ref'[p] = 0 /\ p \notin retryable'
           \/ ref'[p] = 0 /\ session' = session
  BY StartFacts
<1>2. Own(p)' \subseteq {<<p, k>>} /\ (session' = session => Own(p)' = {})
  BY <1>1 DEF Own
<1>3. ASSUME NEW q \in Panes, q # p
      PROVE  Own(q)' \subseteq Own(q) /\ UNCHANGED <<ref[q], tab[q]>> /\ (q \in retryable' <=> q \in retryable)
  BY <1>1, <1>3, StartFacts DEF Own
<1>4. /\ tab'[p] = "unborn" => Own(p)' = {}
      /\ InWindow(p)' => IF ref'[p] # 0 THEN Own(p)' \subseteq {Shell(p)'}
              ELSE IF p \in retryable' THEN Own(p)' = {} ELSE \E s : Own(p)' \subseteq {s}
  BY <1>1, <1>2 DEF Shell
<1>5. ASSUME NEW q \in Panes, q # p
      PROVE  /\ tab'[q] = "unborn" => Own(q)' = {}
             /\ InWindow(q)' => IF ref'[q] # 0 THEN Own(q)' \subseteq {Shell(q)'}
                     ELSE IF q \in retryable' THEN Own(q)' = {} ELSE \E s : Own(q)' \subseteq {s}
  <2>1. (InWindow(q)' <=> InWindow(q)) /\ Shell(q)' = Shell(q)
    BY <1>3, <1>5 DEF InWindow, Shell
  <2> QED BY <1>3, <1>5, <2>1 DEF OwnInv
<1> QED BY <1>4, <1>5 DEF OwnInv

LEMMA OwnStep == TypeOK /\ OwnInv /\ [Next]_vars => OwnInv'
<1> SUFFICES ASSUME TypeOK, OwnInv, [Next]_vars PROVE OwnInv'
  OBVIOUS
<1> USE DEF hostVars, paneVars, retryVars, closeVars, notTerm
<1>1. CASE UNCHANGED <<session, left, tabs, tab, ref, retryable>>
  BY <1>1, OwnCalm DEF InWindow
<1>2. ASSUME NEW s \in Shells, SessionEnds(s) PROVE OwnInv'
  <2>1. \A r \in Shells : session'[r] = "running" => session[r] = "running"
    BY <1>2 DEF SessionEnds, TypeOK
  <2> QED BY <1>2, <2>1, OwnCalm DEF SessionEnds, InWindow
<1>3. ASSUME NEW t \in Tabs, NEW p \in Panes, Split(t, p) PROVE OwnInv'
  <2>1. Own(p) = {}
    BY <1>3 DEF Split, OwnInv
  <2>2. tab'[p] = t /\ t # "unborn" /\ \A q \in Panes \ {p} : tab'[q] = tab[q]
    BY <1>3 DEF Split, TypeOK
  <2> QED BY <1>3, <2>1, <2>2, OwnStart DEF Split
<1>4. ASSUME NEW p \in Panes, StartNewShell(p) PROVE OwnInv'
  <2>1. Own(p) \subseteq {Shell(p)} /\ tab[p] # "unborn"
    BY <1>4 DEF StartNewShell, OwnInv, InWindow, TypeOK
  <2> QED BY <1>4, <2>1, OwnStart DEF StartNewShell
<1>5. ASSUME NEW p \in Panes, RetryStart(p) PROVE OwnInv'
  <2>1. Own(p) = {} /\ tab[p] # "unborn"
    BY <1>5 DEF RetryStart, MayRetry, OwnInv, InWindow, TypeOK
  <2> QED BY <1>5, <2>1, OwnStart DEF RetryStart
<1>6. ASSUME NEW p \in Panes, RetryReconnect(p) \/ StreamEnds(p) \/ HandleExit(p) \/ AskStatus(p)
      PROVE  UNCHANGED <<session, left, tabs, tab, ref, retryable>>
  BY <1>6 DEF RetryReconnect, StreamEnds, HandleExit, AskStatus
<1>7. ASSUME Shrinks, NoneStarts, UNCHANGED <<left, retryable>> PROVE OwnInv'
  BY <1>7, OwnCalm DEF Shrinks, NoneStarts
<1>8. ASSUME NEW p \in Panes, HandleAnswer(p) PROVE OwnInv'
  <2>1. CASE UNCHANGED <<tabs, tab, ref>>
    BY <1>1, <1>8, <2>1 DEF HandleAnswer
  <2>2. CASE RemoveExited(p)
    BY <1>7, <1>8, <2>2, RemoveExitedFacts DEF HandleAnswer, NoneStarts, Keeps, TypeOK
  <2> QED BY <1>8, <2>1, <2>2 DEF HandleAnswer
<1>9. ASSUME NEW task \in tasks, TimerFires(task) \/ AskAttach(task)
      PROVE  UNCHANGED <<session, left, tabs, tab, ref, retryable>>
  BY <1>9 DEF TimerFires, AskAttach
<1>10. ASSUME NEW p \in Panes, NEW task \in tasks, task[1] = p, Attached(task) PROVE OwnInv'
  <2>1. /\ UNCHANGED <<session, left>>
        /\ \A q \in Panes : /\ InWindow(q)' => InWindow(q) /\ ref'[q] = ref[q]
                            /\ tab'[q] = "unborn" => tab[q] = "unborn"
                            /\ q \in retryable' => q \in retryable \/ ref[q] # 0
    BY <1>10, AttachedFacts
  <2> QED BY <2>1, OwnCalm
<1>11. CASE Close \/ Dismiss
  BY <1>1, <1>11 DEF Close, Dismiss
<1>12. CASE Confirm
  BY <1>7, <1>12, ConfirmFacts
<1>13. ASSUME NEW i \in DOMAIN checks, CloseWork(i) PROVE OwnInv'
  <2>1. \A r \in Shells : session'[r] = "running" => session[r] = "running"
    BY <1>13 DEF CloseWork, Reports, Goes
  <2> QED BY <1>13, <2>1, OwnCalm DEF CloseWork, InWindow
<1>14. ASSUME NEW i \in 1..MaxChecks, i \in DOMAIN checks, CloseResult(i) PROVE OwnInv'
  BY <1>7, <1>14, CloseResultFacts
<1> QED BY <1>1, <1>2, <1>3, <1>4, <1>5, <1>6, <1>8, <1>9, <1>10, <1>11, <1>12, <1>13, <1>14
        DEF Next, vars, PaneStep, TaskStep, CheckStep, TypeOK

-----------------------------------------------------------------------------
(* What is waited for *)

LEMMA CloseStep == TypeOK /\ CloseInv /\ [Next]_vars => CloseInv'
<1> SUFFICES ASSUME TypeOK, CloseInv, [Next]_vars, pending'.state = "checking"
             PROVE  pending'.id \in DOMAIN checks' /\ checks'[pending'.id].state # "over"
  BY DEF CloseInv
<1> USE DEF hostVars, paneVars, retryVars, closeVars, notTerm
<1>0. None.state # "checking" /\ \A f \in Failures : f.state # "checking"
  BY DEF None, Failures
<1>1. CASE UNCHANGED checks /\ (pending' \in {pending, None} \/ pending' \in Failures)
  BY <1>0, <1>1 DEF CloseInv
<1>2. ASSUME NEW p \in Panes, StartNewShell(p) \/ RetryStart(p) \/ RetryReconnect(p) \/ StreamEnds(p)
                              \/ HandleExit(p) \/ AskStatus(p)
      PROVE  UNCHANGED closeVars
  BY <1>2 DEF StartNewShell, RetryStart, RetryReconnect, StreamEnds, HandleExit, AskStatus
<1>3. ASSUME NEW p \in Panes, HandleAnswer(p) PROVE UNCHANGED checks /\ pending' \in {pending, None}
  BY <1>3, RemoveExitedFacts DEF HandleAnswer
<1>4. ASSUME NEW p \in Panes, NEW task \in tasks, task[1] = p, TimerFires(task) \/ AskAttach(task) \/ Attached(task)
      PROVE  UNCHANGED checks /\ pending' \in {pending, None}
  BY <1>4, AttachedFacts DEF TimerFires, AskAttach
<1>5. CASE (\E s \in Shells : SessionEnds(s)) \/ (\E t \in Tabs, p \in Panes : Split(t, p))
  BY <1>1, <1>5 DEF SessionEnds, Split
<1>6. CASE Close
  <2>1. PICK c \in Checks : checks' = Append(checks, c) /\ c.state = "asking"
    BY <1>6, CloseFacts
  <2>2. pending'.id = Len(checks) + 1
    BY <1>6, CloseFacts
  <2>3. checks \in Seq(Checks) /\ Len(checks) \in Nat
    BY LenProperties DEF TypeOK
  <2>4. Len(checks') = Len(checks) + 1 /\ checks'[Len(checks) + 1] = c /\ DOMAIN checks' = 1..(Len(checks) + 1)
    BY <2>1, <2>3, AppendProperties, LenProperties
  <2> QED BY <2>1, <2>2, <2>3, <2>4
<1>7. CASE Confirm \/ Dismiss
  BY <1>1, <1>7, ConfirmFacts DEF Dismiss
<1>8. ASSUME NEW i \in DOMAIN checks, CloseWork(i)
      PROVE  pending'.id \in DOMAIN checks' /\ checks'[pending'.id].state # "over"
  <2>1. PICK report \in {"closed", "blocked", "failed"} : checks' = [checks EXCEPT ![i].state = report]
    BY <1>8 DEF CloseWork, Reports
  <2>2. pending' = pending /\ pending.id \in DOMAIN checks /\ checks[pending.id].state # "over"
    BY <1>8 DEF CloseWork, CloseInv
  <2>3. checks[i] \in Checks /\ checks[i].state = "asking"
    BY <1>8, ElementOfSeq DEF CloseWork, TypeOK
  <2>4. [checks[i] EXCEPT !.state = report].state = report
    BY <2>3 DEF Checks, Over
  <2>5. DOMAIN checks' = DOMAIN checks
        /\ \A j \in DOMAIN checks : checks'[j] = IF j = i THEN [checks[i] EXCEPT !.state = report] ELSE checks[j]
    BY <2>1 DEF TypeOK
  <2> QED BY <2>2, <2>4, <2>5
<1>9. ASSUME NEW i \in 1..MaxChecks, i \in DOMAIN checks, CloseResult(i)
      PROVE  pending'.id \in DOMAIN checks' /\ checks'[pending'.id].state # "over"
  <2>1. /\ ~Awaited(i) /\ pending' = pending
        /\ checks' = Settled([checks EXCEPT ![i] = Over])
    BY <1>0, <1>9, CloseResultFacts
  <2>2. pending.id \in DOMAIN checks /\ checks[pending.id].state # "over" /\ pending.id # i
    BY <2>1 DEF CloseInv, Awaited
  <2> DEFINE cs == [checks EXCEPT ![i] = Over]
  <2>3. DOMAIN cs = DOMAIN checks /\ cs[pending.id] = checks[pending.id]
    BY <2>2
  <2>4. cs[pending.id] # Over
    BY <2>2, <2>3 DEF Over
  <2>5. checks' = cs
    BY <2>1, <2>2, <2>3, <2>4 DEF Settled
  <2> QED BY <2>1, <2>2, <2>3, <2>5
<1>10. CASE UNCHANGED vars
  BY <1>1, <1>10 DEF vars
<1> QED BY <1>1, <1>2, <1>3, <1>4, <1>5, <1>6, <1>7, <1>8, <1>9, <1>10
        DEF Next, PaneStep, TaskStep, CheckStep

\* A step after which each task that counts goes on under the same number.
LEMMA RetryCalm ==
  ASSUME RetryInv, \A p \in Panes : retry'[p] \in {retry[p], NoRetry}, tasks \subseteq tasks'
  PROVE  RetryInv'
<1> SUFFICES ASSUME NEW p \in Panes, retry'[p] # NoRetry
             PROVE  \E task \in tasks' : task[1] = p /\ Current(task)'
  BY DEF RetryInv
<1>1. retry'[p] = retry[p]
  OBVIOUS
<1>2. PICK task \in tasks : task[1] = p /\ Current(task)
  BY <1>1 DEF RetryInv
<1> QED BY <1>1, <1>2 DEF Current

LEMMA RetryStep == TypeOK /\ RetryInv /\ [Next]_vars => RetryInv'
<1> SUFFICES ASSUME TypeOK, RetryInv, [Next]_vars PROVE RetryInv'
  OBVIOUS
<1> USE DEF hostVars, paneVars, retryVars, closeVars, notTerm
<1>1. CASE UNCHANGED <<retry, tasks>>
  BY <1>1, RetryCalm
<1>2. ASSUME Shrinks, UNCHANGED tasks PROVE RetryInv'
  BY <1>2, RetryCalm DEF Shrinks
<1>3. ASSUME NEW p \in Panes, StartNewShell(p) PROVE RetryInv'
  <2>1. \A q \in Panes : retry'[q] \in {retry[q], NoRetry}
    BY <1>3 DEF StartNewShell, TypeOK
  <2> QED BY <1>3, <2>1, RetryCalm DEF StartNewShell
<1>4. ASSUME NEW p \in Panes, Reconnect(p) PROVE RetryInv'
  <2>1. /\ \A q \in Panes \ {p} : retry'[q] = retry[q]
        /\ tasks \subseteq tasks'
        /\ \E task \in tasks' : task[1] = p /\ Current(task)'
    BY <1>4, ReconnectFacts
  <2>2. ASSUME NEW q \in Panes, q # p, retry'[q] # NoRetry
        PROVE  \E task \in tasks' : task[1] = q /\ Current(task)'
    <3>1. PICK task \in tasks : task[1] = q /\ Current(task)
      BY <2>1, <2>2 DEF RetryInv
    <3> QED BY <2>1, <2>2, <3>1 DEF Current
  <2> QED BY <2>1, <2>2 DEF RetryInv
<1>5. ASSUME NEW p \in Panes, StreamEnds(p) \/ HandleExit(p) \/ AskStatus(p) \/ RetryStart(p)
      PROVE  UNCHANGED <<retry, tasks>>
  BY <1>5 DEF StreamEnds, HandleExit, AskStatus, RetryStart
<1>6. ASSUME NEW p \in Panes, HandleAnswer(p) PROVE RetryInv'
  <2>1. CASE UNCHANGED <<retry, tasks>>
    BY <1>1, <2>1
  <2>2. CASE RemoveExited(p) /\ UNCHANGED tasks
    BY <1>2, <2>2, RemoveExitedFacts
  <2>3. CASE Reconnect(p)
    BY <1>4, <2>3
  <2> QED BY <1>6, <2>1, <2>2, <2>3 DEF HandleAnswer
<1>7. ASSUME NEW task \in tasks, NEW phase, Move(task, phase), UNCHANGED retry PROVE RetryInv'
  <2> SUFFICES ASSUME NEW q \in Panes, retry'[q] # NoRetry
               PROVE  \E t \in tasks' : t[1] = q /\ Current(t)'
    BY DEF RetryInv
  <2>1. PICK t \in tasks : t[1] = q /\ Current(t)
    BY <1>7 DEF RetryInv
  <2> DEFINE moved == <<task[1], task[2], task[3], phase>>
  <2>2. moved \in tasks' /\ moved[1] = task[1] /\ moved[3] = task[3]
    BY <1>7 DEF Move
  <2>3. CASE t = task
    <3>1. moved[1] = q /\ Current(moved)'
      BY <1>7, <2>1, <2>2, <2>3 DEF Current
    <3> QED BY <2>2, <3>1
  <2>4. CASE t # task
    BY <1>7, <2>1, <2>4 DEF Move, Current
  <2> QED BY <2>3, <2>4
<1>8. ASSUME NEW p \in Panes, NEW task \in tasks, task[1] = p, tasks \ {task} \subseteq tasks',
             \A q \in Panes : \/ retry'[q] = NoRetry
                              \/ retry'[q] = retry[q] /\ (q = p => ~Current(task))
                              \/ \E t \in tasks' : t[1] = q /\ Current(t)'
      PROVE  RetryInv'
  <2> SUFFICES ASSUME NEW q \in Panes, retry'[q] # NoRetry, retry'[q] = retry[q], q = p => ~Current(task)
               PROVE  \E t \in tasks' : t[1] = q /\ Current(t)'
    BY <1>8 DEF RetryInv
  <2>1. PICK t \in tasks : t[1] = q /\ Current(t)
    BY DEF RetryInv
  <2>2. t \in tasks'
    BY <1>8, <2>1
  <2> QED BY <2>1, <2>2 DEF Current
<1>9. ASSUME NEW p \in Panes, NEW task \in tasks, task[1] = p, TimerFires(task) PROVE RetryInv'
  <2>1. CASE Move(task, "asking") /\ UNCHANGED retry
    BY <1>7, <2>1
  <2>2. CASE tasks' = tasks \ {task} /\ Drop(p)
    BY <1>8, <1>9, <2>2 DEF Drop, TypeOK
  <2>3. CASE ~Current(task) /\ tasks' = tasks \ {task} /\ UNCHANGED retry
    BY <1>8, <1>9, <2>3
  <2> QED BY <1>9, <2>1, <2>2, <2>3 DEF TimerFires
<1>10. ASSUME NEW task \in tasks, AskAttach(task) PROVE RetryInv'
  <2>1. (\E phase : Move(task, phase)) /\ UNCHANGED retry
    BY <1>10 DEF AskAttach
  <2> QED BY <1>7, <2>1
<1>11. ASSUME NEW p \in Panes, NEW task \in tasks, task[1] = p, Attached(task) PROVE RetryInv'
  <2>1. /\ tasks \ {task} \subseteq tasks'
        /\ \A q \in Panes : \/ retry'[q] = NoRetry
                            \/ retry'[q] = retry[q] /\ (q = p => ~Current(task))
                            \/ \E t \in tasks' : t[1] = q /\ Current(t)'
    BY <1>11, AttachedFacts
  <2> QED BY <1>8, <1>11, <2>1
<1>12. CASE (\E s \in Shells : SessionEnds(s)) \/ (\E t \in Tabs, p \in Panes : Split(t, p))
            \/ Close \/ Dismiss \/ \E i \in DOMAIN checks : CloseWork(i)
  BY <1>1, <1>12 DEF SessionEnds, Split, Close, Dismiss, CloseWork
<1>13. CASE Confirm
  BY <1>2, <1>13, ConfirmFacts
<1>14. ASSUME NEW i \in 1..MaxChecks, i \in DOMAIN checks, CloseResult(i) PROVE RetryInv'
  BY <1>2, <1>14, CloseResultFacts
<1>15. ASSUME NEW p \in Panes, RetryReconnect(p) PROVE RetryInv'
  BY <1>4, <1>15 DEF RetryReconnect
<1>16. CASE UNCHANGED vars
  BY <1>1, <1>16 DEF vars
<1> QED BY <1>1, <1>3, <1>5, <1>6, <1>9, <1>10, <1>11, <1>12, <1>13, <1>14, <1>15, <1>16
        DEF Next, PaneStep, TaskStep, CheckStep, TypeOK

-----------------------------------------------------------------------------
(* Sessions and what is known of them *)

\* Shells are started one after the other.
FreshInv == \A p \in Panes : \E n \in 0..MaxShells : Started(p) = 1..n

\* A pane refers to a session that was started; it has a terminal of one, and is
\* told that it is gone only then.
RefInv ==
  \A p \in Panes : /\ ref[p] # 0 => session[Shell(p)] # "free"
                   /\ term[p] # "none" => ref[p] # 0
                   /\ term[p] = "absent" => session[Shell(p)] = "gone"
TaskInv ==
  \A task \in tasks : /\ task[2] # 0
                      /\ task[4] = "absent" => session[<<task[1], task[2]>>] = "gone"

\* What a check knows stays true of its panes as long as they are in the window.
CheckOK(c) ==
  /\ \A p \in DOMAIN c.shells :
       /\ c.shells[p] # 0 => session[<<p, c.shells[p]>>] # "free"
       /\ c.shells[p] # 0 /\ c.state = "closed" => session[<<p, c.shells[p]>>] = "gone"
       /\ tab[p] # "unborn"
       /\ c.target[1] = "tab" /\ InWindow(p) => tab[p] = c.target[2]
  /\ c.target[1] = "pane" => DOMAIN c.shells = {c.target[2]}
CheckInv ==
  /\ \A i \in DOMAIN checks : checks[i].state # "over" => CheckOK(checks[i])
  /\ pending.state = "checking" => pending.target = checks[pending.id].target

\* The identity of a pane in the window is that of the session it refers to.
IdentityInv == \A p \in identified : InWindow(p) => ref[p] # 0

LeaveInv == IInv /\ FreshInv /\ RefInv /\ TaskInv /\ CheckInv /\ IdentityInv

\* Panes move only from unborn into a tab, and out of the window.
TabsMove == \A p \in Panes : /\ tab'[p] = "unborn" => tab[p] = "unborn"
                             /\ InWindow(p)' => (InWindow(p) /\ tab'[p] = tab[p]) \/ tab[p] = "unborn"

LEMMA NewShellIsFree ==
  ASSUME TypeOK, FreshInv, NEW p \in Panes, NewShell(p) <= MaxShells
  PROVE  /\ NewShell(p) \in 1..MaxShells /\ session[<<p, NewShell(p)>>] = "free"
         /\ Started(p) = 1..(NewShell(p) - 1)
<1>1. PICK n \in 0..MaxShells : Started(p) = 1..n
  BY DEF FreshInv
<1>2. Cardinality(1..n) = n
  BY FS_Interval
<1>3. NewShell(p) = n + 1
  BY <1>1, <1>2 DEF NewShell
<1>4. n + 1 \in 1..MaxShells /\ n + 1 \notin Started(p)
  BY <1>1, <1>3
<1> QED BY <1>1, <1>3, <1>4 DEF Started

LEMMA StartKeeps ==
  ASSUME TypeOK, FreshInv, NEW p \in Panes, StartShell(p)
  PROVE  /\ Keeps /\ FreshInv'
         /\ ref'[p] = 0 \/ (<<p, ref'[p]>> \in Shells /\ session'[<<p, ref'[p]>>] # "free")
         /\ term'[p] \in {"open", "none"} /\ (term'[p] = "open" => ref'[p] # 0)
         /\ \A q \in Panes \ {p} : UNCHANGED <<ref[q], term[q]>>
<1> DEFINE k == NewShell(p)
<1>1. k \in 1..MaxShells /\ session[<<p, k>>] = "free" /\ Started(p) = 1..(k - 1)
  BY NewShellIsFree DEF StartShell
<1>2. <<p, k>> \in Shells
  BY <1>1 DEF Shells
<1>3. session' = session \/ session' = [session EXCEPT ![<<p, k>>] = "running"]
  BY DEF StartShell
<1>4. \/ ref' = [ref EXCEPT ![p] = 0]
      \/ ref' = [ref EXCEPT ![p] = k] /\ session' = [session EXCEPT ![<<p, k>>] = "running"]
  BY DEF StartShell
<1>5. \/ term' = [term EXCEPT ![p] = "open"] /\ ref' = [ref EXCEPT ![p] = k]
      \/ term' = [term EXCEPT ![p] = "none"]
  BY DEF StartShell
<1> HIDE DEF k
<1>6. Keeps
  BY <1>1, <1>2, <1>3 DEF Keeps, TypeOK
<1>7. FreshInv'
  <2>1. CASE session' = session
    BY <2>1 DEF FreshInv, Started
  <2>2. CASE session' = [session EXCEPT ![<<p, k>>] = "running"]
    <3>1. Started(p)' = 1..k
      <4>1. Started(p)' = Started(p) \cup {k}
        BY <1>1, <1>2, <2>2 DEF Started, Shells, TypeOK
      <4> QED BY <1>1, <4>1
    <3>2. ASSUME NEW q \in Panes, q # p PROVE Started(q)' = Started(q)
      BY <1>2, <2>2, <3>2 DEF Started, Shells, TypeOK
    <3>3. k \in 0..MaxShells
      BY <1>1
    <3> QED BY <3>1, <3>2, <3>3 DEF FreshInv
  <2> QED BY <1>3, <2>1, <2>2
<1>8. ref'[p] = 0 \/ (<<p, ref'[p]>> \in Shells /\ session'[<<p, ref'[p]>>] # "free")
  BY <1>2, <1>4 DEF TypeOK
<1>9. term'[p] \in {"open", "none"} /\ (term'[p] = "open" => ref'[p] # 0)
      /\ \A q \in Panes \ {p} : UNCHANGED <<ref[q], term[q]>>
  BY <1>1, <1>4, <1>5 DEF TypeOK
<1> QED BY <1>6, <1>7, <1>8, <1>9

\* No shell starts and none is gone before it was.
LEMMA FreshSame ==
  ASSUME FreshInv, \A s \in Shells : session'[s] = "free" <=> session[s] = "free"
  PROVE  FreshInv'
<1>1. ASSUME NEW p \in Panes PROVE Started(p)' = Started(p)
  BY DEF Started, Shells
<1> QED BY <1>1 DEF FreshInv

LEMMA GoesFresh ==
  ASSUME TypeOK, FreshInv, NEW ss, Goes(ss), \A s \in ss \cap Shells : session[s] # "free"
  PROVE  FreshInv'
<1>1. \A s \in Shells : session'[s] = "free" <=> session[s] = "free"
  BY DEF Goes, TypeOK
<1> QED BY <1>1, FreshSame

LEMMA ForceCloseFresh ==
  ASSUME TypeOK, FreshInv, RefInv, NEW target, ForceClose(target)
  PROVE  FreshInv'
<1>1. PICK gone \in SUBSET {p \in Targeted(target) : Hosted(p) \/ Nameless(p)} : Goes({Shell(p) : p \in gone})
  BY DEF ForceClose
<1>2. ASSUME NEW s \in {Shell(p) : p \in gone} \cap Shells PROVE session[s] # "free"
  <2>1. PICK p \in gone : s = Shell(p)
    OBVIOUS
  <2>2. ref[p] # 0 /\ p \in Panes
    BY <1>1, <1>2, <2>1 DEF Hosted, Nameless, RefInv, Shell, Shells
  <2> QED BY <2>1, <2>2 DEF RefInv
<1> QED BY <1>1, <1>2, GoesFresh

\* Every step keeps what is gone, and starts shells in order.
LEMMA MoveStep == TypeOK /\ FreshInv /\ RefInv /\ CheckInv /\ [Next]_vars => Keeps /\ TabsMove /\ FreshInv'
<1> SUFFICES ASSUME TypeOK, FreshInv, RefInv, CheckInv, [Next]_vars PROVE Keeps /\ TabsMove /\ FreshInv'
  OBVIOUS
<1> USE DEF hostVars, paneVars, retryVars, closeVars, notTerm
<1>1. CASE UNCHANGED <<session, tabs, tab>>
  BY <1>1, FreshSame DEF Keeps, TabsMove, InWindow
<1>2. ASSUME Shrinks PROVE TabsMove
  BY <1>2 DEF Shrinks, TabsMove
<1>3. ASSUME UNCHANGED <<tabs, tab>> PROVE TabsMove
  BY <1>3 DEF TabsMove, InWindow
<1>4. ASSUME UNCHANGED session PROVE Keeps /\ FreshInv'
  BY <1>4, FreshSame DEF Keeps
<1>5. ASSUME NEW s \in Shells, SessionEnds(s) PROVE Keeps /\ TabsMove /\ FreshInv'
  <2>1. \A r \in Shells : session'[r] = "free" <=> session[r] = "free"
    BY <1>5 DEF SessionEnds, TypeOK
  <2>2. Keeps
    BY <1>5 DEF SessionEnds, Keeps, TypeOK
  <2> QED BY <1>3, <1>5, <2>1, <2>2, FreshSame DEF SessionEnds
<1>6. ASSUME NEW t \in Tabs, NEW p \in Panes, Split(t, p) PROVE Keeps /\ TabsMove /\ FreshInv'
  <2>1. TabsMove
    BY <1>6 DEF Split, TabsMove, InWindow, TypeOK
  <2> QED BY <1>6, <2>1, StartKeeps DEF Split
<1>7. ASSUME NEW p \in Panes, StartNewShell(p) \/ RetryStart(p) PROVE Keeps /\ TabsMove /\ FreshInv'
  <2>1. StartShell(p) /\ UNCHANGED <<tabs, tab>>
    BY <1>7 DEF StartNewShell, RetryStart
  <2> QED BY <1>3, <2>1, StartKeeps
<1>8. ASSUME NEW p \in Panes, RetryReconnect(p) \/ StreamEnds(p) \/ HandleExit(p) \/ AskStatus(p)
      PROVE  UNCHANGED <<session, tabs, tab>>
  BY <1>8 DEF RetryReconnect, StreamEnds, HandleExit, AskStatus
<1>9. ASSUME NEW p \in Panes, HandleAnswer(p) PROVE Keeps /\ TabsMove /\ FreshInv'
  BY <1>2, <1>3, <1>4, <1>9, RemoveExitedFacts DEF HandleAnswer
<1>10. ASSUME NEW task \in tasks, TimerFires(task) \/ AskAttach(task) PROVE UNCHANGED <<session, tabs, tab>>
  BY <1>10 DEF TimerFires, AskAttach
<1>11. ASSUME NEW p \in Panes, NEW task \in tasks, task[1] = p, Attached(task) PROVE Keeps /\ TabsMove /\ FreshInv'
  <2>1. /\ UNCHANGED session
        /\ \A q \in Panes : /\ InWindow(q)' => InWindow(q) /\ UNCHANGED <<tab[q], ref[q]>>
                            /\ tab'[q] = "unborn" => tab[q] = "unborn"
    BY <1>11, AttachedFacts
  <2> QED BY <1>4, <2>1 DEF TabsMove
<1>12. CASE Close \/ Dismiss
  BY <1>1, <1>12 DEF Close, Dismiss
<1>13. CASE Confirm
  <2>1. Keeps /\ TabsMove
    BY <1>2, <1>13, ConfirmFacts DEF NoneStarts
  <2>2. FreshInv'
    BY <1>4, <1>13, ForceCloseFresh DEF Confirm
  <2> QED BY <2>1, <2>2
<1>14. ASSUME NEW i \in DOMAIN checks, CloseWork(i) PROVE Keeps /\ TabsMove /\ FreshInv'
  <2> DEFINE shells == {<<p, checks[i].shells[p]>> : p \in DOMAIN checks[i].shells} \cap Shells
  <2>1. Goes(shells) \/ UNCHANGED session
    BY <1>14 DEF CloseWork, Reports
  <2>2. UNCHANGED <<tabs, tab>>
    BY <1>14 DEF CloseWork
  <2>3. ASSUME NEW s \in shells PROVE session[s] # "free"
    <3>1. PICK p \in DOMAIN checks[i].shells : s = <<p, checks[i].shells[p]>>
      OBVIOUS
    <3>2. checks[i].shells[p] # 0
      BY <3>1 DEF Shells
    <3>3. CheckOK(checks[i])
      BY <1>14 DEF CheckInv, CloseWork
    <3> QED BY <3>1, <3>2, <3>3 DEF CheckOK
  <2> HIDE DEF shells
  <2>4. Keeps /\ FreshInv'
    BY <1>4, <2>1, <2>3, GoesFacts, GoesFresh DEF NoneStarts
  <2> QED BY <1>3, <2>2, <2>4
<1>15. ASSUME NEW i \in 1..MaxChecks, i \in DOMAIN checks, CloseResult(i) PROVE Keeps /\ TabsMove /\ FreshInv'
  <2>1. Keeps /\ TabsMove
    BY <1>2, <1>15, CloseResultFacts DEF NoneStarts
  <2>2. FreshInv'
    BY <1>4, <1>15, ForceCloseFresh DEF CloseResult, RemoveStopped
  <2> QED BY <2>1, <2>2
<1>16. CASE UNCHANGED vars
  BY <1>1, <1>16 DEF vars
<1> QED BY <1>1, <1>5, <1>6, <1>7, <1>8, <1>9, <1>10, <1>11, <1>12, <1>13, <1>14, <1>15, <1>16
        DEF Next, PaneStep, TaskStep, CheckStep, TypeOK

\* What is known of a pane whose reference and terminal did not change, or that
\* left, or has a terminal again.
LEMMA RefKeeps ==
  ASSUME TypeOK, RefInv, Keeps, NEW p \in Panes,
         \/ UNCHANGED <<ref[p], term[p]>>
         \/ ref'[p] = 0 /\ term'[p] = "none"
         \/ ref'[p] = ref[p] /\ ref[p] # 0 /\ term'[p] # "absent"
         \/ ref'[p] = ref[p] /\ ref[p] # 0 /\ session[Shell(p)] = "gone"
  PROVE  /\ ref'[p] # 0 => session'[Shell(p)'] # "free"
         /\ term'[p] # "none" => ref'[p] # 0
         /\ term'[p] = "absent" => session'[Shell(p)'] = "gone"
<1>1. CASE ref'[p] = 0 /\ term'[p] = "none"
  BY <1>1
<1>2. CASE ref'[p] = ref[p] /\ ref[p] = 0
  BY <1>2 DEF RefInv
<1>3. CASE ref'[p] = ref[p] /\ ref[p] # 0
  <2>1. Shell(p)' = Shell(p) /\ Shell(p) \in Shells
    BY <1>3 DEF Shell, Shells, TypeOK
  <2>2. session'[Shell(p)] # "free" /\ (session[Shell(p)] = "gone" => session'[Shell(p)] = "gone")
    BY <1>3, <2>1 DEF RefInv, Keeps
  <2>3. term'[p] = "absent" => session[Shell(p)] = "gone"
    BY <1>3 DEF RefInv
  <2> QED BY <1>3, <2>1, <2>2, <2>3
<1> QED BY <1>1, <1>2, <1>3

LEMMA RefStep == TypeOK /\ FreshInv /\ RefInv /\ TaskInv /\ CheckInv /\ [Next]_vars => RefInv'
<1> SUFFICES ASSUME TypeOK, FreshInv, RefInv, TaskInv, CheckInv, [Next]_vars, NEW q \in Panes
             PROVE  /\ ref'[q] # 0 => session'[Shell(q)'] # "free"
                    /\ term'[q] # "none" => ref'[q] # 0
                    /\ term'[q] = "absent" => session'[Shell(q)'] = "gone"
  BY DEF RefInv
<1> DEFINE Goal == /\ ref'[q] # 0 => session'[Shell(q)'] # "free"
                   /\ term'[q] # "none" => ref'[q] # 0
                   /\ term'[q] = "absent" => session'[Shell(q)'] = "gone"
<1> USE DEF hostVars, paneVars, retryVars, closeVars, notTerm
<1>0. Keeps
  BY MoveStep
<1>1. ASSUME UNCHANGED <<ref[q], term[q]>> PROVE Goal
  BY <1>0, <1>1, RefKeeps
<1>2. ASSUME Shrinks PROVE Goal
  <2>1. UNCHANGED <<ref[q], term[q]>> \/ (ref'[q] = 0 /\ term'[q] = "none")
    BY <1>2 DEF Shrinks
  <2> QED BY <1>0, <2>1, RefKeeps
<1>3. ASSUME NEW p \in Panes, StartShell(p) PROVE Goal
  <2>1. CASE q = p
    <3>1. /\ ref'[q] = 0 \/ session'[<<q, ref'[q]>>] # "free"
          /\ term'[q] \in {"open", "none"} /\ (term'[q] = "open" => ref'[q] # 0)
      BY <1>3, <2>1, StartKeeps
    <3> QED BY <3>1 DEF Shell
  <2>2. CASE q # p
    BY <1>1, <1>3, <2>2, StartKeeps
  <2> QED BY <2>1, <2>2
<1>4. CASE (\E t \in Tabs, p \in Panes : Split(t, p)) \/ \E p \in Panes : StartNewShell(p) \/ RetryStart(p)
  BY <1>3, <1>4 DEF Split, StartNewShell, RetryStart
<1>5. ASSUME NEW p \in Panes, StreamEnds(p) \/ HandleExit(p) \/ AskStatus(p) PROVE Goal
  <2>1. UNCHANGED ref
    BY <1>5 DEF StreamEnds, HandleExit, AskStatus
  <2>2. CASE q # p
    BY <1>1, <1>5, <2>1, <2>2 DEF StreamEnds, HandleExit, AskStatus, SetTerm, TypeOK
  <2>3. CASE q = p
    <3>1. /\ term[q] # "none"
          /\ term'[q] # "absent" \/ session[Shell(q)] = "gone"
      BY <1>5, <2>3 DEF StreamEnds, HandleExit, AskStatus, SetTerm, Gone, TypeOK
    <3>2. ref[q] # 0
      BY <3>1 DEF RefInv
    <3> QED BY <1>0, <2>1, <3>1, <3>2, RefKeeps
  <2> QED BY <2>2, <2>3
<1>6. ASSUME NEW p \in Panes, HandleAnswer(p) PROVE Goal
  <2>1. CASE RemoveExited(p)
    BY <1>2, <2>1, RemoveExitedFacts
  <2>2. CASE UNCHANGED ref /\ (term' = [term EXCEPT ![p] = "ignored"] \/ term' = [term EXCEPT ![p] = "none"])
    <3>1. CASE q # p
      BY <1>1, <2>2, <3>1 DEF TypeOK
    <3>2. CASE q = p
      <4>1. term[q] # "none" /\ term'[q] # "absent"
        BY <1>6, <2>2, <3>2 DEF HandleAnswer, TypeOK
      <4>2. ref[q] # 0
        BY <4>1 DEF RefInv
      <4> QED BY <1>0, <2>2, <4>1, <4>2, RefKeeps
    <3> QED BY <3>1, <3>2
  <2> QED BY <1>6, <2>1, <2>2 DEF HandleAnswer
<1>7. ASSUME NEW p \in Panes, NEW task \in tasks, task[1] = p, Attached(task) PROVE Goal
  <2>1. \/ UNCHANGED <<ref[q], term[q]>>
        \/ ref'[q] = 0 /\ term'[q] = "none"
        \/ ref'[q] = ref[q] /\ ref[q] # 0 /\ term'[q] = "open"
    BY <1>7, AttachedFacts
  <2> QED BY <1>0, <2>1, RefKeeps
<1>8. CASE \/ \E p \in Panes : RetryReconnect(p)
           \/ \E task \in tasks : TimerFires(task) \/ AskAttach(task)
           \/ Close \/ Dismiss \/ UNCHANGED vars
           \/ (\E s \in Shells : SessionEnds(s)) \/ \E i \in DOMAIN checks : CloseWork(i)
  <2>1. UNCHANGED <<ref, term>>
    BY <1>8 DEF RetryReconnect, TimerFires, AskAttach, Close, Dismiss, vars, SessionEnds, CloseWork
  <2> QED BY <1>1, <2>1
<1>9. CASE Confirm
  BY <1>2, <1>9, ConfirmFacts
<1>10. ASSUME NEW i \in 1..MaxChecks, i \in DOMAIN checks, CloseResult(i) PROVE Goal
  BY <1>2, <1>10, CloseResultFacts
<1> QED BY <1>4, <1>5, <1>6, <1>7, <1>8, <1>9, <1>10 DEF Next, PaneStep, TaskStep, CheckStep, TypeOK

LEMMA TaskInvStep == TypeOK /\ FreshInv /\ RefInv /\ TaskInv /\ CheckInv /\ [Next]_vars => TaskInv'
<1> SUFFICES ASSUME TypeOK, FreshInv, RefInv, TaskInv, CheckInv, [Next]_vars, NEW task \in tasks'
             PROVE  /\ task[2] # 0
                    /\ task[4] = "absent" => session'[<<task[1], task[2]>>] = "gone"
  BY DEF TaskInv
<1> DEFINE Goal == task[2] # 0 /\ (task[4] = "absent" => session'[<<task[1], task[2]>>] = "gone")
<1> USE DEF hostVars, paneVars, retryVars, closeVars, notTerm
<1>0. Keeps
  BY MoveStep
<1>1. ASSUME task \in tasks PROVE Goal
  <2>1. task[1] \in Panes /\ task[2] \in 0..MaxShells /\ task[2] # 0
    BY <1>1 DEF TypeOK, TaskInv
  <2>2. <<task[1], task[2]>> \in Shells
    BY <2>1 DEF Shells
  <2>3. session[<<task[1], task[2]>>] = "gone" => session'[<<task[1], task[2]>>] = "gone"
    BY <1>0, <2>2 DEF Keeps
  <2> QED BY <1>1, <2>1, <2>3 DEF TaskInv
<1>2. ASSUME NEW p \in Panes, ref[p] # 0, NEW g, NEW phase, phase # "absent", task = <<p, ref[p], g, phase>> PROVE Goal
  BY <1>2
<1>3. ASSUME NEW p \in Panes, Reconnect(p), ref[p] # 0 PROVE Goal
  <2>1. task \in tasks \/ task = <<p, ref[p], generation + 1, "asking">>
    BY <1>3 DEF Reconnect
  <2> QED BY <1>1, <1>2, <1>3, <2>1
<1>4. ASSUME NEW p \in Panes, HandleAnswer(p) PROVE Goal
  <2>1. ref[p] # 0
    BY <1>4 DEF HandleAnswer, RefInv
  <2>2. Reconnect(p) \/ UNCHANGED tasks
    BY <1>4 DEF HandleAnswer
  <2> QED BY <1>1, <1>3, <2>1, <2>2
<1>5. ASSUME NEW p \in Panes, RetryReconnect(p) PROVE Goal
  BY <1>3, <1>5 DEF RetryReconnect
<1>6. ASSUME NEW old \in tasks, AskAttach(old) PROVE Goal
  <2>1. PICK phase : Move(old, phase) /\ (phase = "absent" => Gone(<<old[1], old[2]>>))
    BY <1>6 DEF AskAttach
  <2>2. task \in tasks \/ task = <<old[1], old[2], old[3], phase>>
    BY <2>1 DEF Move
  <2>3. old[1] \in Panes /\ old[2] \in 0..MaxShells /\ old[2] # 0
    BY DEF TypeOK, TaskInv
  <2>4. <<old[1], old[2]>> \in Shells
    BY <2>3 DEF Shells
  <2>5. phase = "absent" => session'[<<old[1], old[2]>>] = "gone"
    BY <1>0, <2>1, <2>4 DEF Gone, Keeps
  <2> QED BY <1>1, <2>2, <2>3, <2>5
<1>7. ASSUME NEW old \in tasks, TimerFires(old) PROVE Goal
  <2>1. task \in tasks \/ task = <<old[1], old[2], old[3], "asking">>
    BY <1>7 DEF TimerFires, Move
  <2> QED BY <1>1, <2>1 DEF TaskInv
<1>8. ASSUME NEW p \in Panes, NEW old \in tasks, old[1] = p, Attached(old) PROVE Goal
  <2>1. tasks' \subseteq tasks \/ (Fits(old) /\ Schedule(p, tasks \ {old}))
    BY <1>8 DEF Attached
  <2>2. CASE Fits(old) /\ Schedule(p, tasks \ {old})
    <3>1. ref[p] # 0
      BY <1>8, <2>2 DEF Fits, Unavailable
    <3>2. task \in tasks \/ task = <<p, ref[p], generation + 1, "timer">>
      BY <2>2 DEF Schedule, Timer
    <3> QED BY <1>1, <1>2, <3>1, <3>2
  <2> QED BY <1>1, <2>1, <2>2
<1>9. CASE \/ \E p \in Panes : StartNewShell(p) \/ RetryStart(p) \/ StreamEnds(p) \/ HandleExit(p) \/ AskStatus(p)
           \/ Close \/ Dismiss \/ Confirm \/ UNCHANGED vars
           \/ (\E s \in Shells : SessionEnds(s)) \/ (\E t \in Tabs, p \in Panes : Split(t, p))
           \/ \E i \in DOMAIN checks : CloseWork(i) \/ CloseResult(i)
  <2>1. UNCHANGED tasks
    BY <1>9 DEF StartNewShell, RetryStart, StreamEnds, HandleExit, AskStatus, Close, Dismiss, Confirm, vars,
                SessionEnds, Split, CloseWork, CloseResult
  <2> QED BY <1>1, <2>1
<1> QED BY <1>4, <1>5, <1>6, <1>7, <1>8, <1>9 DEF Next, PaneStep, TaskStep, CheckStep, TypeOK

LEMMA CheckKeeps ==
  ASSUME TypeOK, Keeps, TabsMove, NEW c \in Checks, c.state # "over", CheckOK(c)
  PROVE  CheckOK(c)'
<1>1. c.shells \in UNION {[ps -> 0..MaxShells] : ps \in SUBSET Panes}
  BY DEF Checks, Over
<1>2. DOMAIN c.shells \subseteq Panes /\ \A p \in DOMAIN c.shells : c.shells[p] \in 0..MaxShells
  BY <1>1
<1>3. ASSUME NEW p \in DOMAIN c.shells, c.shells[p] # 0 PROVE <<p, c.shells[p]>> \in Shells
  BY <1>2, <1>3 DEF Shells
<1>4. ASSUME NEW p \in DOMAIN c.shells
      PROVE  /\ c.shells[p] # 0 => session'[<<p, c.shells[p]>>] # "free"
             /\ c.shells[p] # 0 /\ c.state = "closed" => session'[<<p, c.shells[p]>>] = "gone"
             /\ tab'[p] # "unborn"
             /\ c.target[1] = "tab" /\ InWindow(p)' => tab'[p] = c.target[2]
  <2>1. p \in Panes /\ (c.shells[p] # 0 => <<p, c.shells[p]>> \in Shells)
    BY <1>2, <1>3
  <2>2. /\ c.shells[p] # 0 => session'[<<p, c.shells[p]>>] # "free"
        /\ c.shells[p] # 0 /\ c.state = "closed" => session'[<<p, c.shells[p]>>] = "gone"
    BY <2>1 DEF CheckOK, Keeps
  <2>3. tab'[p] # "unborn" /\ (c.target[1] = "tab" /\ InWindow(p)' => tab'[p] = c.target[2])
    BY <2>1 DEF CheckOK, TabsMove
  <2> QED BY <2>2, <2>3
<1> QED BY <1>4 DEF CheckOK

\* What a close takes with it when it begins.
LEMMA NewCheckOK ==
  ASSUME TypeOK, RefInv, Close
  PROVE  \E c \in Checks : /\ checks' = Append(checks, c) /\ CheckOK(c)'
                           /\ pending'.id = Len(checks) + 1 /\ pending'.target = c.target
<1>1. PICK target \in Targets :
        /\ checks' = Append(checks, Copied(target))
        /\ pending' = [state |-> "checking", id |-> Len(checks) + 1, target |-> target]
  BY DEF Close
<1>2. PICK c : c = Copied(target)
  OBVIOUS
<1>3. c \in Checks
  <2>1. PICK d \in Checks : checks' = Append(checks, d)
    BY CloseFacts
  <2>2. checks' = Append(checks, c) /\ Len(checks) \in Nat
    BY <1>1, <1>2, LenProperties DEF TypeOK
  <2>3. Append(checks, d)[Len(checks) + 1] = d /\ Append(checks, c)[Len(checks) + 1] = c
    BY <2>2
  <2> QED BY <2>1, <2>2, <2>3
<1>4. target \in AllTargets
  BY <1>1 DEF Targets, AllTargets, TypeOK
<1>5. target[1] \in {"pane", "tab", "others"}
  BY <1>4 DEF AllTargets
<1>6. Targeted(target) \subseteq {p \in Panes : InWindow(p)}
      /\ (target[1] = "tab" => \A p \in Targeted(target) : tab[p] = target[2])
  BY <1>5 DEF Targeted, In
<1>7. target[1] = "pane" => Targeted(target) = {target[2]}
  BY <1>1 DEF Targets, Targeted
<1>8. UNCHANGED <<session, tab, tabs>>
  BY DEF Close, hostVars, paneVars
<1>9. ASSUME NEW p \in Targeted(target)
      PROVE  /\ c.shells[p] # 0 => session[<<p, c.shells[p]>>] # "free"
             /\ tab[p] # "unborn"
  <2>1. p \in Panes /\ tab[p] \in Tabs
    BY <1>6 DEF InWindow, TypeOK
  <2>2. c.shells[p] \in {0, ref[p]}
    BY <1>2 DEF Copied
  <2>3. ref[p] # 0 => session[<<p, ref[p]>>] # "free"
    BY <2>1 DEF RefInv, Shell
  <2> QED BY <2>1, <2>2, <2>3
<1>10. CheckOK(c)'
  <2>1. DOMAIN c.shells = Targeted(target) /\ c.state = "asking" /\ c.target = target
    BY <1>2 DEF Copied
  <2> QED BY <1>6, <1>7, <1>8, <1>9, <2>1 DEF CheckOK
<1> QED BY <1>1, <1>2, <1>3, <1>10 DEF Copied

LEMMA CheckInvStep == IInv /\ FreshInv /\ RefInv /\ TaskInv /\ CheckInv /\ [Next]_vars => CheckInv'
<1> SUFFICES ASSUME IInv, FreshInv, RefInv, TaskInv, CheckInv, [Next]_vars PROVE CheckInv'
  OBVIOUS
<1> USE DEF hostVars, paneVars, retryVars, closeVars, notTerm
<1>0. TypeOK /\ CloseInv /\ Keeps /\ TabsMove
  BY MoveStep DEF IInv
<1>1. \A i \in DOMAIN checks : checks[i] \in Checks
  BY <1>0, ElementOfSeq DEF TypeOK
<1>2. ASSUME NEW c \in Checks, c.state # "over", CheckOK(c) PROVE CheckOK(c)'
  BY <1>0, <1>2, CheckKeeps
<1>3. ASSUME NEW i \in DOMAIN checks, NEW d, d = checks[i], d.state # "over" PROVE CheckOK(d)'
  BY <1>1, <1>2, <1>3 DEF CheckInv
<1>4. None.state # "checking" /\ \A f \in Failures : f.state # "checking"
  BY DEF None, Failures
<1>5. ASSUME UNCHANGED checks, pending' \in {pending, None} \/ pending' \in Failures PROVE CheckInv'
  <2>1. ASSUME NEW i \in DOMAIN checks', NEW d, d = checks'[i], d.state # "over" PROVE CheckOK(d)'
    BY <1>3, <1>5, <2>1
  <2>2. pending'.state = "checking" => pending'.target = checks'[pending'.id].target
    BY <1>4, <1>5 DEF CheckInv
  <2> QED BY <2>1, <2>2 DEF CheckInv
<1>6. CASE Close
  <2>1. PICK c \in Checks : /\ checks' = Append(checks, c) /\ CheckOK(c)'
                            /\ pending'.id = Len(checks) + 1 /\ pending'.target = c.target
    BY <1>0, <1>6, NewCheckOK
  <2>2. checks \in Seq(Checks) /\ Len(checks) \in Nat /\ DOMAIN checks = 1..Len(checks)
    BY <1>0, LenProperties DEF TypeOK
  <2>3. /\ DOMAIN checks' = 1..(Len(checks) + 1) /\ checks'[Len(checks) + 1] = c
        /\ \A i \in 1..Len(checks) : checks'[i] = checks[i]
    BY <2>1, <2>2, AppendProperties, LenProperties
  <2>4. ASSUME NEW i \in DOMAIN checks', NEW d, d = checks'[i], d.state # "over" PROVE CheckOK(d)'
    <3>1. CASE i = Len(checks) + 1
      BY <2>1, <2>3, <2>4, <3>1
    <3>2. CASE i # Len(checks) + 1
      <4>1. i \in DOMAIN checks /\ d = checks[i]
        BY <2>2, <2>3, <2>4, <3>2
      <4> QED BY <1>3, <2>4, <4>1
    <3> QED BY <3>1, <3>2
  <2> QED BY <2>1, <2>3, <2>4 DEF CheckInv
<1>7. ASSUME NEW i \in DOMAIN checks, CloseWork(i) PROVE CheckInv'
  <2>1. PICK report \in {"closed", "blocked", "failed"} :
          /\ checks' = [checks EXCEPT ![i].state = report]
          /\ report = "closed" => Goes({<<p, checks[i].shells[p]>> : p \in DOMAIN checks[i].shells} \cap Shells)
    BY <1>7 DEF CloseWork, Reports
  <2>2. PICK c, r : c = checks[i] /\ r = [c EXCEPT !.state = report]
    OBVIOUS
  <2>3. c \in Checks /\ c.state = "asking" /\ CheckOK(c)'
    BY <1>1, <1>3, <1>7, <2>2 DEF CloseWork
  <2>4. r.shells = c.shells /\ r.target = c.target /\ r.state = report
    BY <2>2, <2>3 DEF Checks, Over
  <2>5. DOMAIN c.shells \subseteq Panes /\ \A p \in DOMAIN c.shells : c.shells[p] \in 0..MaxShells
    <3>1. c.shells \in UNION {[ps -> 0..MaxShells] : ps \in SUBSET Panes}
      BY <2>3 DEF Checks, Over
    <3> QED BY <3>1
  <2>6. ASSUME NEW p \in DOMAIN c.shells, c.shells[p] # 0, report = "closed"
        PROVE  session'[<<p, c.shells[p]>>] = "gone"
    <3>1. <<p, c.shells[p]>> \in Shells
      BY <2>5, <2>6 DEF Shells
    <3> QED BY <2>1, <2>2, <2>6, <3>1 DEF Goes
  <2>7. CheckOK(r)'
    BY <2>3, <2>4, <2>6 DEF CheckOK
  <2>8. DOMAIN checks' = DOMAIN checks /\ \A j \in DOMAIN checks : checks'[j] = IF j = i THEN r ELSE checks[j]
    BY <1>0, <2>1, <2>2 DEF TypeOK
  <2>9. ASSUME NEW j \in DOMAIN checks', NEW d, d = checks'[j], d.state # "over" PROVE CheckOK(d)'
    BY <1>3, <2>7, <2>8, <2>9
  <2>10. pending' = pending /\ (pending.state = "checking" => pending.id \in DOMAIN checks)
    BY <1>0, <1>7 DEF CloseWork, CloseInv
  <2>11. pending'.state = "checking" => pending'.target = checks'[pending'.id].target
    BY <2>2, <2>4, <2>8, <2>10 DEF CheckInv
  <2> QED BY <2>9, <2>11 DEF CheckInv
<1>8. ASSUME NEW i \in 1..MaxChecks, i \in DOMAIN checks, CloseResult(i) PROVE CheckInv'
  <2> DEFINE cs == [checks EXCEPT ![i] = Over]
  <2>1. /\ (~Awaited(i) /\ pending' = pending) \/ pending' \in {None} \cup Failures
        /\ checks' = Settled(cs)
    BY <1>0, <1>8, CloseResultFacts
  <2>2. DOMAIN cs = DOMAIN checks /\ \A j \in DOMAIN checks : cs[j] = IF j = i THEN Over ELSE checks[j]
    BY <1>0 DEF TypeOK
  <2>3. checks' \in {<<>>, cs}
    BY <2>1 DEF Settled
  <2> HIDE DEF cs
  <2>4. ASSUME NEW j \in DOMAIN checks', NEW d, d = checks'[j], d.state # "over" PROVE CheckOK(d)'
    <3>1. checks' = cs
      BY <2>3
    <3>2. j \in DOMAIN checks /\ j # i /\ d = checks[j]
      BY <2>2, <2>4, <3>1 DEF Over
    <3> QED BY <1>3, <2>4, <3>2
  <2>5. ASSUME pending'.state = "checking" PROVE pending'.target = checks'[pending'.id].target
    <3>1. ~Awaited(i) /\ pending' = pending
      BY <1>4, <2>1, <2>5
    <3>2. pending.id \in DOMAIN checks /\ checks[pending.id].state # "over" /\ pending.id # i
      BY <1>0, <2>5, <3>1 DEF CloseInv, Awaited
    <3>3. cs[pending.id] = checks[pending.id] /\ cs[pending.id] # Over
      BY <2>2, <3>2 DEF Over
    <3>4. checks' = cs
      BY <2>1, <2>2, <3>2, <3>3 DEF Settled
    <3> QED BY <2>5, <3>1, <3>3, <3>4 DEF CheckInv
  <2> QED BY <2>4, <2>5 DEF CheckInv
<1>9. ASSUME NEW p \in Panes, HandleAnswer(p) PROVE CheckInv'
  BY <1>0, <1>5, <1>9, RemoveExitedFacts DEF HandleAnswer
<1>10. ASSUME NEW p \in Panes, NEW task \in tasks, task[1] = p, Attached(task) PROVE CheckInv'
  <2>1. UNCHANGED checks /\ pending' \in {pending, None}
    BY <1>0, <1>10, AttachedFacts
  <2> QED BY <1>5, <2>1
<1>11. CASE Confirm \/ Dismiss
  BY <1>0, <1>5, <1>11, ConfirmFacts DEF Dismiss
<1>12. CASE \/ \E p \in Panes : StartNewShell(p) \/ RetryStart(p) \/ RetryReconnect(p) \/ StreamEnds(p)
                                \/ HandleExit(p) \/ AskStatus(p)
            \/ (\E s \in Shells : SessionEnds(s)) \/ (\E t \in Tabs, p \in Panes : Split(t, p))
            \/ (\E task \in tasks : TimerFires(task) \/ AskAttach(task)) \/ UNCHANGED vars
  <2>1. UNCHANGED <<checks, pending>>
    BY <1>12 DEF StartNewShell, RetryStart, RetryReconnect, StreamEnds, HandleExit, AskStatus, SessionEnds,
                 Split, TimerFires, AskAttach, vars
  <2> QED BY <1>5, <2>1
<1> QED BY <1>0, <1>6, <1>7, <1>8, <1>9, <1>10, <1>11, <1>12
        DEF Next, PaneStep, TaskStep, CheckStep, TypeOK

LEMMA IdentityStep == TypeOK /\ IdentityInv /\ [Next]_vars => IdentityInv'
<1> SUFFICES ASSUME TypeOK, IdentityInv, [Next]_vars PROVE IdentityInv'
  OBVIOUS
<1> USE DEF hostVars, paneVars, retryVars, closeVars, notTerm
<1>1. ASSUME UNCHANGED identified, \A q \in Panes : InWindow(q)' => InWindow(q) /\ ref'[q] = ref[q]
      PROVE  IdentityInv'
  BY <1>1 DEF IdentityInv, TypeOK
<1>2. ASSUME Shrinks, UNCHANGED identified PROVE IdentityInv'
  BY <1>1, <1>2 DEF Shrinks
<1>3. CASE UNCHANGED <<identified, tabs, tab, ref>>
  BY <1>3 DEF IdentityInv, InWindow
<1>4. ASSUME NEW p \in Panes, StartShell(p), UNCHANGED tabs, \A q \in Panes \ {p} : tab'[q] = tab[q]
      PROVE  IdentityInv'
  <2>1. p \in identified' => ref'[p] # 0
    <3>1. NewShell(p) # 0
      <4>1. IsFiniteSet(Started(p))
        <5>1. IsFiniteSet(1..MaxShells) /\ Started(p) \subseteq 1..MaxShells
          BY FS_Interval DEF Started
        <5> QED BY <5>1, FS_Subset
      <4>2. Cardinality(Started(p)) \in Nat
        BY <4>1, FS_CardinalityType
      <4> QED BY <4>2 DEF NewShell
    <3> QED BY <1>4, <3>1 DEF StartShell, TypeOK
  <2>2. ASSUME NEW q \in identified', InWindow(q)', q # p PROVE ref'[q] # 0
    <3>1. q \in identified /\ q \in Panes
      BY <1>4, <2>2 DEF StartShell, TypeOK
    <3>2. InWindow(q) /\ ref'[q] = ref[q]
      BY <1>4, <2>2, <3>1, StartFacts DEF InWindow
    <3> QED BY <3>1, <3>2 DEF IdentityInv
  <2> QED BY <2>1, <2>2 DEF IdentityInv
<1>5. ASSUME NEW t \in Tabs, NEW p \in Panes, Split(t, p) PROVE IdentityInv'
  BY <1>4, <1>5 DEF Split, TypeOK
<1>6. ASSUME NEW p \in Panes, StartNewShell(p) \/ RetryStart(p) PROVE IdentityInv'
  BY <1>4, <1>6 DEF StartNewShell, RetryStart
<1>7. ASSUME NEW p \in Panes, RetryReconnect(p) \/ StreamEnds(p) \/ HandleExit(p) \/ AskStatus(p)
      PROVE  UNCHANGED <<identified, tabs, tab, ref>>
  BY <1>7 DEF RetryReconnect, StreamEnds, HandleExit, AskStatus
<1>8. ASSUME NEW p \in Panes, HandleAnswer(p) PROVE IdentityInv'
  BY <1>2, <1>3, <1>8, RemoveExitedFacts DEF HandleAnswer
<1>9. ASSUME NEW p \in Panes, NEW task \in tasks, task[1] = p, Attached(task) PROVE IdentityInv'
  <2>1. \A q \in Panes : InWindow(q)' => InWindow(q) /\ ref'[q] = ref[q]
    BY <1>9, AttachedFacts
  <2>2. UNCHANGED identified \/ (identified' = identified \cup {p} /\ ref'[p] = ref[p] /\ ref[p] # 0)
    BY <1>9 DEF Attached, Fits, Unavailable
  <2> QED BY <1>1, <2>1, <2>2 DEF IdentityInv, TypeOK
<1>10. CASE \/ (\E s \in Shells : SessionEnds(s)) \/ (\E task \in tasks : TimerFires(task) \/ AskAttach(task))
            \/ Close \/ Dismiss \/ (\E i \in DOMAIN checks : CloseWork(i)) \/ UNCHANGED vars
  <2>1. UNCHANGED <<identified, tabs, tab, ref>>
    BY <1>10 DEF SessionEnds, TimerFires, AskAttach, Close, Dismiss, CloseWork, vars
  <2> QED BY <1>3, <2>1
<1>11. CASE Confirm
  BY <1>2, <1>11, ConfirmFacts
<1>12. ASSUME NEW i \in 1..MaxChecks, i \in DOMAIN checks, CloseResult(i) PROVE IdentityInv'
  BY <1>2, <1>12, CloseResultFacts
<1> QED BY <1>3, <1>5, <1>6, <1>7, <1>8, <1>9, <1>10, <1>11, <1>12
        DEF Next, PaneStep, TaskStep, CheckStep, TypeOK

-----------------------------------------------------------------------------
(* The invariants *)

LEMMA InitIInv == Init => IInv
<1> SUFFICES ASSUME Init PROVE IInv
  OBVIOUS
<1>1. tab \in [Panes -> Tabs \cup {"unborn"}]
  BY DEF Init
<1>2. tabs \subseteq Tabs
  BY <1>1 DEF Init
<1>3. TypeOK
  <2>1. <<>> \in Seq(Checks) /\ Len(<<>>) = 0
    BY EmptySeq
  <2>2. session \in [Shells -> {"free", "running", "gone"}]
    BY DEF Init
  <2> QED BY <1>1, <1>2, <2>1, <2>2 DEF Init, TypeOK
<1>4. OwnInv
  <2> SUFFICES ASSUME NEW p \in Panes
               PROVE  /\ tab[p] = "unborn" => Own(p) = {}
                      /\ InWindow(p) => ref[p] # 0 /\ Own(p) \subseteq {Shell(p)}
    BY DEF OwnInv
  <2>1. tab[p] = "unborn" => ~InWindow(p)
    BY DEF Init, InWindow
  <2>2. \A s \in Shells : s[1] = p /\ session[s] = "running" => s = <<p, 1>> /\ InWindow(p)
    BY DEF Init, Shells
  <2>3. InWindow(p) => ref[p] = 1
    BY DEF Init
  <2> QED BY <2>1, <2>2, <2>3 DEF Own, Shell
<1>5. CloseInv
  BY DEF Init, CloseInv, None
<1>6. RetryInv
  BY DEF Init, RetryInv
<1> QED BY <1>3, <1>4, <1>5, <1>6 DEF IInv

LEMMA InvHolds == Spec => []IInv
<1>1. IInv /\ [Next]_vars => IInv'
  BY TypeStep, OwnStep, CloseStep, RetryStep DEF IInv
<1> QED BY <1>1, InitIInv, PTL DEF Spec

\* Every variable of the window and its sessions keeps its type.
THEOREM PanesTypeCorrect == Spec => []TypeOK
<1>1. IInv => TypeOK
  BY DEF IInv
<1> QED BY <1>1, InvHolds, PTL

\* Whatever fails and in whatever order answers come, a pane of the window has at
\* most one running shell besides those the user chose to leave.
THEOREM NoDuplicateShells == Spec => []OneShellPerPane
<1>1. IInv => OneShellPerPane
  <2> SUFFICES ASSUME IInv, NEW p \in Panes, InWindow(p) PROVE Cardinality(Own(p)) <= 1
    BY DEF OneShellPerPane
  <2>1. \E s : Own(p) \subseteq {s}
    BY DEF IInv, OwnInv
  <2>2. PICK s : Own(p) \subseteq {s}
    BY <2>1
  <2>3. IsFiniteSet({s}) /\ Cardinality({s}) = 1
    BY FS_Singleton
  <2>4. Cardinality(Own(p)) <= Cardinality({s})
    BY <2>2, <2>3, FS_Subset
  <2> QED BY <2>3, <2>4
<1> QED BY <1>1, InvHolds, PTL

\* The window never waits for a check that is over, and no pane shows
\* "reconnecting" without a timer or an attachment that counts.
THEOREM NobodyWaitsForNothing == Spec => []WaitsAreAnswered
<1>1. IInv => WaitsAreAnswered
  BY DEF IInv, CloseInv, RetryInv, WaitsAreAnswered
<1> QED BY <1>1, InvHolds, PTL

-----------------------------------------------------------------------------
(* Panes that leave *)

LEMMA LeaveInit == Init => LeaveInv
<1> SUFFICES ASSUME Init PROVE LeaveInv
  OBVIOUS
<1>1. FreshInv
  <2> SUFFICES ASSUME NEW p \in Panes PROVE \E n \in 0..MaxShells : Started(p) = 1..n
    BY DEF FreshInv
  <2>1. CASE InWindow(p)
    <3>1. Started(p) = 1..1
      BY <2>1 DEF Init, Started, Shells
    <3> QED BY <3>1
  <2>2. CASE ~InWindow(p)
    <3>1. Started(p) = 1..0
      BY <2>2 DEF Init, Started, Shells
    <3> QED BY <3>1
  <2> QED BY <2>1, <2>2
<1>2. RefInv
  <2> SUFFICES ASSUME NEW p \in Panes
               PROVE  /\ ref[p] # 0 => session[Shell(p)] # "free"
                      /\ term[p] # "none" => ref[p] # 0
                      /\ term[p] # "absent"
    BY DEF RefInv
  <2>1. <<p, 1>> \in Shells
    BY DEF Shells
  <2> QED BY <2>1 DEF Init, Shell
<1>3. TaskInv /\ CheckInv
  BY DEF Init, TaskInv, CheckInv, None
<1>4. IdentityInv
  BY DEF Init, IdentityInv
<1> QED BY <1>1, <1>2, <1>3, <1>4, InitIInv DEF LeaveInv

LEMMA LeaveInvHolds == Spec => []LeaveInv
<1>1. LeaveInv /\ [Next]_vars => LeaveInv'
  BY TypeStep, OwnStep, CloseStep, RetryStep, MoveStep, RefStep, TaskInvStep, CheckInvStep, IdentityStep
     DEF LeaveInv, IInv
<1> QED BY <1>1, LeaveInit, PTL DEF Spec

LEMMA TabSizes ==
  ASSUME NEW t, NEW p
  PROVE  /\ p \in In(t) /\ ~(Cardinality(In(t)) > 1) => In(t) = {p}
         /\ Cardinality(In(t)) > 1 => \E q \in In(t) : q # p
<1>1. IsFiniteSet(In(t)) /\ Cardinality(In(t)) \in Nat
  <2>1. IsFiniteSet(In(t))
    BY FS_Subset DEF In
  <2> QED BY <2>1, FS_CardinalityType
<1>2. ASSUME p \in In(t), In(t) # {p} PROVE Cardinality(In(t)) > 1
  <2>1. PICK q \in In(t) : q # p
    BY <1>2
  <2>2. IsFiniteSet({p}) /\ Cardinality({p}) = 1
    BY FS_Singleton
  <2>3. IsFiniteSet({p} \cup {q}) /\ Cardinality({p} \cup {q}) = 2
    BY <2>1, <2>2, FS_AddElement
  <2>4. Cardinality({p} \cup {q}) <= Cardinality(In(t))
    BY <1>1, <1>2, <2>1, FS_Subset
  <2> QED BY <1>1, <2>3, <2>4
<1>3. ASSUME In(t) \subseteq {p} PROVE ~(Cardinality(In(t)) > 1)
  <2>1. IsFiniteSet({p}) /\ Cardinality({p}) = 1
    BY FS_Singleton
  <2>2. Cardinality(In(t)) <= 1
    BY <1>3, <2>1, FS_Subset
  <2> QED BY <1>1, <2>2
<1> QED BY <1>2, <1>3

\* Remove removes what it is told to.
LEMMA RemovedPanes ==
  ASSUME TypeOK, NEW ts, NEW ps, Remove(ts, ps), NEW p \in Panes, InWindow(p)
  PROVE  /\ ~InWindow(p)' => p \in ps \cup UNION {In(t) : t \in ts}
         /\ p \notin ps /\ tab[p] \notin ts => InWindow(p)' /\ tab'[p] = tab[p]
<1>1. p \in In(tab[p]) /\ tab[p] \in tabs
  BY DEF In, InWindow
<1>2. \A t \in ts : p \in In(t) => tab[p] = t
  BY DEF In
<1>3. p \notin ps \cup UNION {In(t) : t \in ts} => tab'[p] = tab[p] /\ tab[p] \notin ts
  BY <1>1 DEF Remove, TypeOK
<1>4. tabs' = tabs \ ts
  BY DEF Remove
<1> QED BY <1>1, <1>2, <1>3, <1>4 DEF InWindow

LEMMA RemoveExitedOnly ==
  ASSUME TypeOK, NEW p \in Panes, InWindow(p), RemoveExited(p), NEW q \in Panes, Leaves(q)
  PROVE  q = p
<1>1. InWindow(q) /\ ~InWindow(q)'
  BY DEF Leaves
<1>2. CASE Beside(p)
  <2>1. Remove({}, {p})
    BY <1>2 DEF RemoveExited
  <2> QED BY <1>1, <2>1, RemovedPanes
<1>3. CASE ~Beside(p)
  <2>1. Remove({tab[p]}, {})
    BY <1>3 DEF RemoveExited
  <2>2. q \in In(tab[p])
    BY <1>1, <2>1, RemovedPanes
  <2>3. p \in In(tab[p])
    BY DEF In
  <2> QED BY <1>3, <2>2, <2>3, TabSizes DEF Beside
<1> QED BY <1>2, <1>3

LEMMA TargetedPanes ==
  ASSUME TypeOK, NEW target \in AllTargets
  PROVE  /\ Targeted(target) \subseteq Panes
         /\ \A t \in TargetTabs(target) : In(t) \subseteq Targeted(target)
<1>1. target[1] \in {"pane", "tab", "others"}
  BY DEF AllTargets
<1>2. CASE target[1] = "pane"
  BY <1>2 DEF Targeted, TargetTabs
<1>3. CASE target[1] = "tab"
  BY <1>3 DEF Targeted, TargetTabs, In
<1>4. CASE target[1] = "others"
  BY <1>4 DEF Targeted, TargetTabs, In
<1> QED BY <1>1, <1>2, <1>3, <1>4

\* A forced close leaves the sessions of panes without identity only, and those
\* panes whose session is not known.
LEMMA ForceCloseStops ==
  ASSUME TypeOK, NEW target \in AllTargets, ForceClose(target), NEW p \in Panes, Leaves(p)
  PROVE  /\ ref[p] # 0 \/ p \in retryable
         /\ Hosted(p) => session'[Shell(p)] = "gone"
<1> DEFINE all == Targeted(target)
           stubborn == {q \in all : ref[q] = 0 /\ q \notin retryable}
           hosted == {q \in all : Hosted(q)}
<1>1. PICK failing \in {stubborn \cup ps : ps \in SUBSET hosted},
           gone \in SUBSET (hosted \cup {q \in all : Nameless(q)}) :
        /\ hosted \ failing \subseteq gone
        /\ Goes({Shell(q) : q \in gone})
        /\ Remove({t \in TargetTabs(target) : In(t) \cap failing = {}}, all \ failing)
  BY DEF ForceClose
<1>2. InWindow(p) /\ ~InWindow(p)'
  BY DEF Leaves
<1>3. p \in Targeted(target) \ failing
  <2>1. p \in (Targeted(target) \ failing) \cup UNION {In(t) : t \in {u \in TargetTabs(target) : In(u) \cap failing = {}}}
    BY <1>1, <1>2, RemovedPanes
  <2> QED BY <2>1, TargetedPanes
<1>4. ref[p] # 0 \/ p \in retryable
  BY <1>1, <1>3
<1>5. ASSUME Hosted(p) PROVE session'[Shell(p)] = "gone"
  <2>1. p \in gone /\ Shell(p) \in Shells
    BY <1>1, <1>3, <1>5 DEF Hosted, Shell, Shells, TypeOK
  <2> QED BY <1>1, <2>1 DEF Goes
<1> QED BY <1>4, <1>5

\* What is said of a pane that leaves with its shell.
LeftSo(p) ==
  CASE p \in identified -> FoundIdle(p) /\ checks[pending.id].shells[p] # ref[p]
    [] p \notin identified /\ ref[p] # 0 -> pending # None
    [] p \notin identified /\ ref[p] = 0 -> p \notin retryable /\ FoundIdle(p)

\* The shell that runs on is the pane's own, unless it knows of none.
LEMMA RunsOn ==
  ASSUME LeaveInv, NEW p \in Panes, LeavesRunning(p)
  PROVE  /\ ref[p] # 0 => session[Shell(p)] = "running" /\ session'[Shell(p)] = "running"
         /\ ref[p] = 0 => p \notin retryable /\ p \notin identified
<1>1. PICK s \in Own(p) : session'[s] = "running"
  BY DEF LeavesRunning
<1>2. session[s] = "running" /\ InWindow(p)
  BY <1>1 DEF Own, LeavesRunning, Leaves
<1>3. ref[p] # 0 => s = Shell(p)
  BY <1>1, <1>2 DEF LeaveInv, IInv, OwnInv
<1>4. ref[p] = 0 => p \notin retryable /\ p \notin identified
  BY <1>1, <1>2 DEF LeaveInv, IInv, OwnInv, IdentityInv
<1> QED BY <1>1, <1>2, <1>3, <1>4

\* The panes that the result of a check removes without force were checked, and
\* the sessions known then were closed.
LEMMA ClosedPanes ==
  ASSUME LeaveInv, NEW i \in DOMAIN checks, Awaited(i), NEW c, c = checks[i], c.state = "closed",
         NEW p \in Panes, LeavesRunning(p), p \in DOMAIN c.shells
  PROVE  LeftSo(p)
<1>1. pending.state = "checking" /\ pending.id = i /\ pending # None
  BY DEF Awaited, None
<1>2. FoundIdle(p)
  BY DEF FoundIdle
<1>3. ref[p] = 0 => p \notin retryable /\ p \notin identified
  BY RunsOn
<1>4. ref[p] # 0 => c.shells[p] # ref[p]
  <2>1. CheckOK(c)
    BY DEF LeaveInv, CheckInv
  <2>2. ref[p] # 0 => session[<<p, ref[p]>>] = "running"
    BY RunsOn DEF Shell
  <2> QED BY <2>1, <2>2 DEF CheckOK
<1>5. CASE p \in identified
  BY <1>1, <1>2, <1>3, <1>4, <1>5 DEF LeftSo
<1>6. CASE p \notin identified /\ ref[p] # 0
  BY <1>1, <1>6 DEF LeftSo
<1>7. CASE p \notin identified /\ ref[p] = 0
  BY <1>2, <1>3, <1>7 DEF LeftSo
<1> QED BY <1>5, <1>6, <1>7

LEMMA LeavesStopped ==
  ASSUME LeaveInv, [Next]_vars, NEW p \in Panes, LeavesRunning(p)
  PROVE  LeftSo(p)
<1> USE DEF hostVars, paneVars, retryVars, closeVars, notTerm
<1>0. TypeOK /\ FreshInv /\ RefInv /\ TaskInv /\ CheckInv
  BY DEF LeaveInv, IInv
<1>1. /\ Leaves(p) /\ InWindow(p) /\ ~InWindow(p)'
      /\ ref[p] # 0 => session[Shell(p)] = "running" /\ session'[Shell(p)] = "running"
  BY RunsOn DEF LeavesRunning, Leaves
<1>2. ~UNCHANGED <<tabs, tab>>
  BY <1>1 DEF InWindow
<1>3. ASSUME NEW t \in Tabs, NEW q \in Panes, Split(t, q) PROVE FALSE
  BY <1>0, <1>1, <1>3 DEF Split, InWindow, TypeOK
<1>4. ASSUME NEW q \in Panes, HandleAnswer(q) PROVE FALSE
  <2>1. InWindow(q) /\ term[q] = "absent" /\ RemoveExited(q)
    BY <1>2, <1>4 DEF HandleAnswer
  <2>2. p = q
    BY <1>0, <1>1, <2>1, RemoveExitedOnly
  <2> QED BY <1>0, <1>1, <2>1, <2>2 DEF RefInv
<1>5. ASSUME NEW q \in Panes, NEW task \in tasks, task[1] = q, Attached(task) PROVE FALSE
  <2>1. Fits(task) /\ task[4] = "absent" /\ RemoveExited(q)
    BY <1>2, <1>5 DEF Attached
  <2>2. InWindow(q) /\ ref[q] = task[2]
    BY <1>5, <2>1 DEF Fits, Unavailable
  <2>3. p = q
    BY <1>0, <1>1, <2>1, <2>2, RemoveExitedOnly
  <2> QED BY <1>0, <1>1, <1>5, <2>1, <2>2, <2>3 DEF TaskInv, Shell
<1>6. ASSUME NEW target \in AllTargets, ForceClose(target), pending # None PROVE LeftSo(p)
  <2>1. ref[p] # 0 /\ ~Hosted(p)
    <3>1. ref[p] # 0 \/ p \in retryable
      BY <1>0, <1>1, <1>6, ForceCloseStops
    <3>2. Hosted(p) => session'[Shell(p)] = "gone"
      BY <1>0, <1>1, <1>6, ForceCloseStops
    <3> QED BY <1>1, <3>1, <3>2, RunsOn DEF Hosted
  <2> QED BY <1>6, <2>1 DEF LeftSo, Hosted
<1>7. CASE Confirm
  <2>1. pending.target \in AllTargets /\ pending # None
    BY <1>0, <1>7 DEF Confirm, TypeOK, None
  <2> QED BY <1>2, <1>6, <1>7, <2>1 DEF Confirm
<1>8. ASSUME NEW i \in 1..MaxChecks, i \in DOMAIN checks, CloseResult(i)
      PROVE  LeftSo(p)
  <2> PICK c : c = checks[i]
    OBVIOUS
  <2>1. Awaited(i) /\ pending # None
    BY <1>2, <1>8 DEF CloseResult, Awaited, None
  <2>2. c.target \in AllTargets /\ CheckOK(c)
    <3>1. c \in Checks /\ c.state # "over"
      BY <1>0, <1>8, ElementOfSeq DEF TypeOK, CloseResult
    <3> QED BY <1>0, <1>8, <3>1 DEF Checks, Over, CheckInv
  <2>3. CASE ~Matches(c) /\ RemoveStopped(c)
    <3> DEFINE stopped == IF c.state = "closed" THEN DOMAIN c.shells ELSE {}
    <3>1. Remove({t \in {tab[q] : q \in stopped} \cap tabs : In(t) \subseteq stopped}, stopped)
      BY <2>3 DEF RemoveStopped
    <3>2. p \in stopped
      BY <1>0, <1>1, <3>1, RemovedPanes
    <3> QED BY <1>8, <2>1, <3>2, ClosedPanes
  <2>4. CASE /\ Matches(c) /\ c.state = "closed"
             /\ Remove(TargetTabs(c.target), Targeted(c.target))
    <3>1. p \in Targeted(c.target)
      BY <1>0, <1>1, <2>2, <2>4, RemovedPanes, TargetedPanes
    <3>2. p \in DOMAIN c.shells
      BY <2>2, <2>4, <3>1 DEF Matches, CheckOK, Targeted
    <3> QED BY <1>8, <2>1, <2>4, <3>2, ClosedPanes
  <2>5. CASE ForceClose(c.target)
    BY <1>6, <2>1, <2>2, <2>5
  <2> QED BY <1>2, <1>8, <2>1, <2>3, <2>4, <2>5 DEF CloseResult
<1>9. ASSUME \/ \E q \in Panes : StartNewShell(q) \/ RetryStart(q) \/ RetryReconnect(q) \/ StreamEnds(q)
                                 \/ HandleExit(q) \/ AskStatus(q)
             \/ (\E s \in Shells : SessionEnds(s)) \/ (\E i \in DOMAIN checks : CloseWork(i))
             \/ (\E task \in tasks : TimerFires(task) \/ AskAttach(task))
             \/ Close \/ Dismiss \/ UNCHANGED vars
      PROVE  UNCHANGED <<tabs, tab>>
  BY <1>9 DEF StartNewShell, RetryStart, RetryReconnect, StreamEnds, HandleExit, AskStatus, SessionEnds,
              TimerFires, AskAttach, CloseWork, Close, Dismiss, vars
<1> QED BY <1>0, <1>2, <1>3, <1>4, <1>5, <1>7, <1>8, <1>9
        DEF Next, PaneStep, TaskStep, CheckStep, TypeOK

\* Whatever fails and in whatever order answers come, a pane leaves the window
\* with its shell running only when the user closes it and the shell is out of the
\* window's reach: it has no identity; or nothing is known of it, and a check found
\* nothing else running; or it was started after the check of the close began.
THEOREM PanesOnlyLeaveStopped == Spec => PanesLeaveStopped
<1>1. LeaveInv /\ [Next]_vars => [\A p \in Panes : LeavesRunning(p) => LeftSo(p)]_vars
  BY LeavesStopped
<1>2. LeaveInv /\ [Next]_vars =>
        [\A p \in Panes : LeavesRunning(p) =>
           CASE p \in identified -> FoundIdle(p) /\ checks[pending.id].shells[p] # ref[p]
             [] p \notin identified /\ ref[p] # 0 -> pending # None
             [] p \notin identified /\ ref[p] = 0 -> p \notin retryable /\ FoundIdle(p)]_vars
  BY <1>1 DEF LeftSo
<1> QED BY <1>2, LeaveInvHolds, PTL DEF Spec, PanesLeaveStopped

-----------------------------------------------------------------------------
(* Tabs without panes *)

Emptied(t) == t \in tabs \cap tabs' /\ In(t) # {} /\ In(t)' = {}

\* A tab that stays is emptied by the removal of each of its panes.
LEMMA RemoveEmpties ==
  ASSUME TypeOK, NEW ts, NEW ps, Remove(ts, ps), NEW t, Emptied(t)
  PROVE  In(t) \subseteq ps /\ t \notin ts
<1>1. t \in tabs' /\ tabs' = tabs \ ts /\ In(t)' = {}
  BY DEF Emptied, Remove
<1>2. ASSUME NEW p \in In(t), p \notin ps PROVE FALSE
  <2>1. p \in Panes /\ InWindow(p) /\ tab[p] = t
    BY <1>2 DEF In
  <2>2. InWindow(p)' /\ tab'[p] = t
    BY <1>1, <1>2, <2>1, RemovedPanes
  <2> QED BY <1>1, <2>1, <2>2 DEF In
<1> QED BY <1>1, <1>2

LEMMA RemoveExitedEmptiesNone ==
  ASSUME TypeOK, NEW p \in Panes, InWindow(p), RemoveExited(p), NEW t, Emptied(t)
  PROVE  FALSE
<1>1. In(t) # {} /\ \A q \in In(t) : tab[q] = t
  BY DEF Emptied, In
<1>2. CASE Beside(p)
  <2>1. In(t) \subseteq {p}
    BY <1>2, RemoveEmpties DEF RemoveExited
  <2>2. tab[p] = t
    BY <1>1, <2>1
  <2> QED BY <1>2, <2>1, <2>2, TabSizes DEF Beside
<1>3. CASE ~Beside(p)
  BY <1>1, <1>3, RemoveEmpties DEF RemoveExited
<1> QED BY <1>2, <1>3

\* Where whole tabs are closed, a tab that loses all its panes goes.
LEMMA TargetEmpties ==
  ASSUME TypeOK, NEW target \in AllTargets, NEW failing, NEW t, Emptied(t),
         Remove({u \in TargetTabs(target) : In(u) \cap failing = {}}, Targeted(target) \ failing)
  PROVE  \E p \in In(t) : target = <<"pane", p>> /\ In(t) \subseteq {p}
<1>1. /\ In(t) \subseteq Targeted(target) \ failing
      /\ t \notin {u \in TargetTabs(target) : In(u) \cap failing = {}}
  BY RemoveEmpties
<1>2. t \in tabs /\ In(t) # {} /\ In(t) \cap failing = {} /\ t \notin TargetTabs(target)
  BY <1>1 DEF Emptied
<1>3. \A q \in In(t) : tab[q] = t
  BY DEF In
<1>4. target[1] \in {"pane", "tab", "others"}
  BY DEF AllTargets
<1>5. CASE target[1] = "pane"
  <2>1. target = <<"pane", target[2]>>
    BY <1>5 DEF AllTargets
  <2>2. In(t) \subseteq {target[2]}
    BY <1>1, <1>5 DEF Targeted
  <2> QED BY <1>2, <2>1, <2>2
<1>6. CASE target[1] = "tab"
  <2>1. In(t) \subseteq In(target[2]) /\ TargetTabs(target) = {target[2]} \cap tabs
    BY <1>1, <1>6 DEF Targeted, TargetTabs
  <2>2. t = target[2]
    BY <1>2, <1>3, <2>1 DEF In
  <2> QED BY <1>2, <2>1, <2>2
<1>7. CASE target[1] = "others"
  BY <1>2, <1>7 DEF TargetTabs
<1> QED BY <1>4, <1>5, <1>6, <1>7

LEMMA ForceCloseEmpties ==
  ASSUME TypeOK, NEW target \in AllTargets, ForceClose(target), NEW t, Emptied(t)
  PROVE  \E p \in In(t) : target = <<"pane", p>> /\ In(t) \subseteq {p}
<1>1. PICK failing : Remove({u \in TargetTabs(target) : In(u) \cap failing = {}}, Targeted(target) \ failing)
  BY DEF ForceClose
<1> QED BY <1>1, TargetEmpties

\* A pane that a checked close removes has others beside it.
LEMMA MatchedPaneHasOthers ==
  ASSUME TypeOK, NEW c, Matches(c), NEW t, NEW p \in In(t), c.target = <<"pane", p>>, In(t) \subseteq {p}
  PROVE  FALSE
<1>1. c.target[1] = "pane" /\ c.target[2] = p /\ tab[p] = t
  BY DEF In
<1>2. PICK q \in Targeted(c.target) : Cardinality(In(tab[q])) > 1
  BY <1>1 DEF Matches
<1>3. q = p
  BY <1>1, <1>2 DEF Targeted
<1> QED BY <1>1, <1>2, <1>3, TabSizes

LEMMA TabsKept ==
  ASSUME TypeOK, [Next]_vars, NEW t, Emptied(t)
  PROVE  pending.state = "failed" /\ \E p \in In(t) : pending.target = <<"pane", p>>
<1> USE DEF hostVars, paneVars, retryVars, closeVars, notTerm
<1>1. t \in tabs \cap tabs' /\ In(t) # {} /\ In(t)' = {}
  BY DEF Emptied
<1>2. ~UNCHANGED <<tabs, tab>>
  BY <1>1 DEF In, InWindow
<1>3. ASSUME NEW u \in Tabs, NEW q \in Panes, Split(u, q) PROVE FALSE
  <2>1. \A p \in In(t) : p \in In(t)'
    BY <1>3 DEF Split, In, InWindow, TypeOK
  <2> QED BY <1>1, <2>1
<1>4. ASSUME NEW q \in Panes, HandleAnswer(q) PROVE FALSE
  BY <1>2, <1>4, RemoveExitedEmptiesNone DEF HandleAnswer
<1>5. ASSUME NEW q \in Panes, NEW task \in tasks, task[1] = q, Attached(task) PROVE FALSE
  <2>1. Fits(task) /\ RemoveExited(q)
    BY <1>2, <1>5 DEF Attached
  <2>2. InWindow(q)
    BY <1>5, <2>1 DEF Fits, Unavailable
  <2> QED BY <2>1, <2>2, RemoveExitedEmptiesNone
<1>6. CASE Confirm
  <2>1. pending.target \in AllTargets /\ pending.state = "failed"
    BY <1>6 DEF Confirm, TypeOK, None
  <2>2. ForceClose(pending.target)
    BY <1>2, <1>6 DEF Confirm
  <2> QED BY <2>1, <2>2, ForceCloseEmpties
<1>7. ASSUME NEW i \in DOMAIN checks, CloseResult(i) PROVE FALSE
  <2> PICK c : c = checks[i]
    OBVIOUS
  <2>1. c.target \in AllTargets
    <3>1. c \in Checks /\ c.state # "over"
      BY <1>7, ElementOfSeq DEF TypeOK, CloseResult
    <3> QED BY <3>1 DEF Checks, Over
  <2>2. CASE ~Matches(c) /\ RemoveStopped(c)
    <3> DEFINE stopped == IF c.state = "closed" THEN DOMAIN c.shells ELSE {}
               ts == {u \in {tab[q] : q \in stopped} \cap tabs : In(u) \subseteq stopped}
    <3>1. Remove(ts, stopped)
      BY <2>2 DEF RemoveStopped
    <3> HIDE DEF stopped
    <3>2. In(t) \subseteq stopped /\ t \notin ts
      BY <3>1, RemoveEmpties
    <3>3. PICK p \in In(t) : p \in stopped /\ tab[p] = t
      BY <1>1, <3>2 DEF In
    <3> QED BY <1>1, <3>2, <3>3
  <2>3. CASE Matches(c) /\ Remove(TargetTabs(c.target), Targeted(c.target))
    <3>1. Remove({u \in TargetTabs(c.target) : In(u) \cap {} = {}}, Targeted(c.target) \ {})
      <4>1. /\ {u \in TargetTabs(c.target) : In(u) \cap {} = {}} = TargetTabs(c.target)
            /\ Targeted(c.target) \ {} = Targeted(c.target)
        OBVIOUS
      <4> QED BY <2>3, <4>1
    <3> QED BY <2>1, <2>3, <3>1, TargetEmpties, MatchedPaneHasOthers
  <2>4. CASE Matches(c) /\ ForceClose(c.target)
    BY <2>1, <2>4, ForceCloseEmpties, MatchedPaneHasOthers
  <2> QED BY <1>2, <1>7, <2>2, <2>3, <2>4 DEF CloseResult
<1>8. ASSUME \/ \E q \in Panes : StartNewShell(q) \/ RetryStart(q) \/ RetryReconnect(q) \/ StreamEnds(q)
                                 \/ HandleExit(q) \/ AskStatus(q)
             \/ (\E s \in Shells : SessionEnds(s)) \/ (\E i \in DOMAIN checks : CloseWork(i))
             \/ (\E task \in tasks : TimerFires(task) \/ AskAttach(task))
             \/ Close \/ Dismiss \/ UNCHANGED vars
      PROVE  UNCHANGED <<tabs, tab>>
  BY <1>8 DEF StartNewShell, RetryStart, RetryReconnect, StreamEnds, HandleExit, AskStatus, SessionEnds,
              TimerFires, AskAttach, CloseWork, Close, Dismiss, vars
<1> QED BY <1>2, <1>3, <1>4, <1>5, <1>6, <1>7, <1>8
        DEF Next, PaneStep, TaskStep, CheckStep

\* Only the forced close of a pane that became the last of its tab leaves the tab
\* without panes.
THEOREM OnlyForcedClosesLeaveEmptyTabs == Spec => OnlyForcedCloseEmptiesTabs
<1>1. TypeOK /\ [Next]_vars =>
        [\A t \in tabs \cap tabs' : In(t) # {} /\ In(t)' = {} =>
           pending.state = "failed" /\ \E p \in In(t) : pending.target = <<"pane", p>>]_vars
  BY TabsKept DEF Emptied
<1> QED BY <1>1, PanesTypeCorrect, PTL DEF Spec, OnlyForcedCloseEmptiesTabs
=============================================================================
