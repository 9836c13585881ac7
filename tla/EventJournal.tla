---------------------------- MODULE EventJournal ----------------------------
(***************************************************************************)
(* The event stream of a session host (src/daemon.rs): the journal that    *)
(* register and unregister write, one polling thread per subscriber, which *)
(* also writes what it sees change, and the process sampler.               *)
(*                                                                         *)
(* The journal's mutex is free in every step below but those from a change *)
(* of the registry to the event about it, when `journaling` names the      *)
(* session.  A session's SessionInfo, and what is seen of its processes,   *)
(* are opaque values; a sequence number never reaches its u64 limit.       *)
(***************************************************************************)
EXTENDS Integers, FiniteSets

CONSTANTS Ids,            \* ids of sessions, never used twice (see SessionIds)
          Infos, Absent,  \* values of SessionInfo; no entry
          Observations, Pending,  \* of processes; ProcessUnavailableReason's first
          Subscribers,    \* threads of subscribe_events
          ProcessEvents,  \* those that asked for process events
          Capacity,       \* EVENT_JOURNAL_CAPACITY
          LateSessions,   \* sessions may be registered beside subscribers
          MaxChanges,     \* bound: changes of terminals
          MaxGeneration   \* bound: process changes of a session

\* SessionProcessState, without the identity of its session.
States == [generation : 0..MaxGeneration, observation : Observations \cup {Pending}]

ASSUME CapacityAssumption == Capacity \in Nat \ {0}
ASSUME BoundsAssumption == MaxChanges \in Nat /\ MaxGeneration \in Nat
ASSUME ValuesAssumption == /\ Absent \notin Infos /\ Infos # {}
                           /\ Pending \notin Observations /\ Absent \notin States
ASSUME SubscribersAssumption == /\ ProcessEvents \subseteq Subscribers
                                /\ LateSessions \in BOOLEAN

VARIABLES
  registry,          \* the sessions registry() holds
  info,              \* what session_info says of each terminal; Absent: no terminal yet
  changes,           \* history: changes of terminals so far
  journaling,        \* the sessions whose event register or unregister still owes
  sequence,          \* EventJournal.sequence
  events,            \* EventJournal.events, in the order of their sequence numbers
  latest_sessions,   \* EventJournal.latest_sessions
  latest_processes,  \* EventJournal.latest_processes
  pc,                \* where each subscriber's thread is
  cursor,            \* its `sequence`
  last,              \* its `last`
  changed,           \* sessions it saw change and has not journaled
  view,              \* the client's sessions: snapshots replaced, events applied
  processes          \* the same for process states

hostVars == <<registry, info, changes, journaling>>
journalVars == <<sequence, events, latest_sessions, latest_processes>>
clientVars == <<pc, cursor, last, changed, view, processes>>
vars == <<hostVars, journalVars, clientVars>>

Nobody == [id \in Ids |-> Absent]
Present(sessions) == {id \in Ids : sessions[id] # Absent}

Init ==
  /\ registry = {} /\ journaling = {} /\ changes = 0
  /\ info = Nobody
  /\ sequence = 0 /\ events = {}
  /\ latest_sessions = Nobody /\ latest_processes = Nobody
  /\ pc = [s \in Subscribers |-> "idle"]
  /\ cursor = [s \in Subscribers |-> 0]
  /\ last = [s \in Subscribers |-> Nobody]
  /\ changed = [s \in Subscribers |-> {}]
  /\ view = [s \in Subscribers |-> Nobody]
  /\ processes = [s \in Subscribers |-> Nobody]

-----------------------------------------------------------------------------
(* The journal *)

\* The oldest event leaves once there are more than Capacity.
\* Mutant: the length is looked at before the event is pushed.
KeptOneMore(event) == {e \in events \cup {event} : e.sequence + Capacity >= event.sequence}
Kept(event) == {e \in events \cup {event} : e.sequence + Capacity > event.sequence}
Publish(kind, id, data) ==
  /\ sequence' = sequence + 1
  /\ events' = Kept([sequence |-> sequence + 1, kind |-> kind, id |-> id, data |-> data])

Unseen == [generation |-> 0, observation |-> Pending]
Added(id) ==
  /\ latest_sessions' = [latest_sessions EXCEPT ![id] = info[id]]
  /\ latest_processes' = [latest_processes EXCEPT ![id] = Unseen]
  /\ Publish("added", id, info[id])

\* Mutant: the process state is not removed with the session.
ProcessesStay(id) == /\ latest_sessions' = [latest_sessions EXCEPT ![id] = Absent]
                     /\ UNCHANGED latest_processes
                     /\ Publish("removed", id, Absent)
Removed(id) == /\ latest_sessions' = [latest_sessions EXCEPT ![id] = Absent]
               /\ latest_processes' = [latest_processes EXCEPT ![id] = Absent]
               /\ Publish("removed", id, Absent)

\* Mutant: an entry is made for a session that is gone.
DiffersFromLatest(id, i) == latest_sessions[id] # i
MustUpdate(id, i) == latest_sessions[id] \notin {Absent, i}
UpdateIfChanged(id, i) ==
  IF MustUpdate(id, i)
  THEN /\ latest_sessions' = [latest_sessions EXCEPT ![id] = i]
       /\ Publish("updated", id, i)
       /\ UNCHANGED latest_processes
  ELSE UNCHANGED journalVars

\* batch_after, and the events a subscriber missed because they left the journal.
After(s) == {e \in events : e.sequence > cursor[s]}
Front == {e \in events : \A other \in events : e.sequence <= other.sequence}
\* Mutant: one lost event goes unnoticed.
IsWideGap(s) == \E e \in Front : cursor[s] + 2 < e.sequence
IsGap(s) == \E e \in Front : cursor[s] + 1 < e.sequence

-----------------------------------------------------------------------------
(* Sessions *)

\* register_headless: the terminal is in the registry before its event is in the
\* journal; its info is read in between.
Register(id) ==
  /\ journaling = {} /\ info[id] = Absent
  /\ LateSessions \/ \A s \in Subscribers : pc[s] = "idle"
  /\ registry' = registry \cup {id} /\ journaling' = {id}
  /\ \E i \in Infos : info' = [info EXCEPT ![id] = i]
  /\ UNCHANGED <<changes, journalVars, clientVars>>

Unregister(id) ==
  /\ journaling = {} /\ id \in registry
  /\ registry' = registry \ {id} /\ journaling' = {id}
  /\ UNCHANGED <<info, changes, journalVars, clientVars>>

\* The rest of register_headless and of unregister.
Journal(id) ==
  /\ id \in journaling /\ journaling' = {}
  /\ IF id \in registry THEN Added(id) ELSE Removed(id)
  /\ UNCHANGED <<registry, info, changes, clientVars>>

\* The title, directory, size, history or state of a terminal changes.
TerminalChanges(id) ==
  /\ id \in registry /\ changes < MaxChanges
  /\ \E i \in Infos \ {info[id]} : info' = [info EXCEPT ![id] = i]
  /\ changes' = changes + 1
  /\ UNCHANGED <<registry, journaling, journalVars, clientVars>>

\* One turn of the process sampler over one terminal, which it may have taken
\* from the registry long before; process_changed if it is still there.
SampleProcesses(id) ==
  LET known == latest_processes[id] IN
  /\ journaling = {} /\ id \in registry /\ known # Absent
  /\ known.generation < MaxGeneration
  /\ \E o \in Observations \ {known.observation} :
       LET state == [generation |-> known.generation + 1, observation |-> o] IN
       /\ latest_processes' = [latest_processes EXCEPT ![id] = state]
       /\ Publish("process", id, state)
  /\ UNCHANGED <<latest_sessions, hostVars, clientVars>>

-----------------------------------------------------------------------------
(* Subscribers *)

Snapshot == [id \in Ids |-> IF id \in registry THEN info[id] ELSE Absent]

\* subscribe_events: the snapshot, the sequence number and the process states
\* are taken together; `seed` makes the snapshot the journal's own.
Subscribe(s) ==
  /\ pc[s] = "idle" /\ journaling = {}
  /\ pc' = [pc EXCEPT ![s] = "sleep"]
  /\ latest_sessions' = Snapshot
  /\ view' = [view EXCEPT ![s] = Snapshot]
  /\ last' = [last EXCEPT ![s] = Snapshot]
  /\ cursor' = [cursor EXCEPT ![s] = sequence]
  /\ processes' = [processes EXCEPT ![s] = IF s \in ProcessEvents THEN latest_processes ELSE @]
  /\ UNCHANGED <<hostVars, sequence, events, latest_processes, changed>>

\* The client is gone when the thread wakes, or its next answer cannot be sent.
HangUp(s) == /\ pc[s] = "sleep"
             /\ pc' = [pc EXCEPT ![s] = "gone"]
             /\ UNCHANGED <<hostVars, journalVars, cursor, last, changed, view, processes>>

\* Mutant: nothing to look at without sessions (the sampler does this).
SomeSession == registry # {}
Awake == TRUE
\* The thread wakes and looks at the registry, without the journal.
Poll(s) ==
  /\ pc[s] = "sleep" /\ Awake
  /\ pc' = [pc EXCEPT ![s] = "journal"]
  /\ last' = [last EXCEPT ![s] = Snapshot]
  /\ changed' = [changed EXCEPT ![s] =
                   {id \in Present(last[s]) \cap registry : last[s][id] # info[id]}]
  /\ UNCHANGED <<hostVars, journalVars, cursor, view, processes>>

\* It journals a change it saw; others may have come since.
JournalChange(s, id) ==
  /\ pc[s] = "journal" /\ journaling = {} /\ id \in changed[s]
  /\ UpdateIfChanged(id, last[s][id])
  /\ changed' = [changed EXCEPT ![s] = @ \ {id}]
  /\ UNCHANGED <<hostVars, pc, cursor, last, view, processes>>

\* What the client knows of a session once it has applied these events.
Newest(E) == {e \in E : \A other \in E : other.sequence <= e.sequence}
Applied(sessions, E) ==
  [id \in Ids |->
     LET about == Newest({e \in E : e.id = id /\ e.kind # "process"}) IN
     IF about = {} THEN sessions[id] ELSE (CHOOSE e \in about : TRUE).data]
AppliedProcesses(states, E) ==
  [id \in Ids |->
     LET about == Newest({e \in E : e.id = id /\ e.kind # "updated"})
         event == CHOOSE e \in about : TRUE IN
     CASE about = {} -> states[id]
       [] about # {} /\ event.kind = "added" -> Unseen
       [] OTHER -> event.data]

\* It sends the events after its cursor; others skip the events they cannot see.
Deliver(s) ==
  /\ pc[s] = "journal" /\ changed[s] = {} /\ journaling = {} /\ ~IsGap(s)
  /\ pc' = [pc EXCEPT ![s] = "sleep"]
  /\ view' = [view EXCEPT ![s] = Applied(@, After(s))]
  /\ processes' = [processes EXCEPT ![s] =
                     IF s \in ProcessEvents THEN AppliedProcesses(@, After(s)) ELSE @]
  /\ cursor' = [cursor EXCEPT ![s] =
                  LET newest == Newest(After(s)) IN
                  IF newest = {} THEN @ ELSE (CHOOSE e \in newest : TRUE).sequence]
  /\ UNCHANGED <<hostVars, journalVars, last, changed>>

\* It found a gap, lets go of the journal and takes it again for a snapshot.
FindGap(s) ==
  /\ pc[s] = "journal" /\ changed[s] = {} /\ journaling = {} /\ IsGap(s)
  /\ pc' = [pc EXCEPT ![s] = "gap"]
  /\ UNCHANGED <<hostVars, journalVars, cursor, last, changed, view, processes>>
SendGap(s) ==
  /\ pc[s] = "gap" /\ journaling = {}
  /\ pc' = [pc EXCEPT ![s] = "sleep"]
  /\ view' = [view EXCEPT ![s] = latest_sessions]
  /\ processes' = [processes EXCEPT ![s] = IF s \in ProcessEvents THEN latest_processes ELSE @]
  /\ cursor' = [cursor EXCEPT ![s] = sequence]
  /\ UNCHANGED <<hostVars, journalVars, last, changed>>

-----------------------------------------------------------------------------
(* Specification *)

SubscriberStep(s) == \/ Poll(s) \/ Deliver(s) \/ FindGap(s) \/ SendGap(s)
                     \/ \E id \in Ids : JournalChange(s, id)

Next == \/ \E id \in Ids : \/ Register(id) \/ Unregister(id) \/ Journal(id)
                           \/ TerminalChanges(id) \/ SampleProcesses(id)
        \/ \E s \in Subscribers : Subscribe(s) \/ HangUp(s) \/ SubscriberStep(s)

\* Threads run; each waits for the journal's mutex a bounded time.
Fairness == /\ \A id \in Ids : WF_vars(Journal(id))
            /\ \A s \in Subscribers : WF_vars(SubscriberStep(s))

Spec == Init /\ [][Next]_vars
FairSpec == Spec /\ Fairness

-----------------------------------------------------------------------------
(* Properties *)

Kinds == {"added", "removed", "updated", "process"}

DataOf(kind) == CASE kind = "process" -> States
                  [] kind = "removed" -> {Absent}
                  [] OTHER -> Infos \cup {Absent}
EventOK(e) == /\ e.sequence \in 1..sequence /\ e.sequence > sequence - Capacity
              /\ e.kind \in Kinds /\ e.id \in Ids /\ e.data \in DataOf(e.kind)

\* Every variable keeps the type of what it stands for; the journal holds no
\* more than its last Capacity events.
TypeOK ==
  /\ registry \subseteq Ids /\ journaling \subseteq Ids
  /\ info \in [Ids -> Infos \cup {Absent}]
  /\ changes \in 0..MaxChanges
  /\ sequence \in Nat
  /\ \A e \in events : EventOK(e)
  /\ latest_sessions \in [Ids -> Infos \cup {Absent}]
  /\ latest_processes \in [Ids -> States \cup {Absent}]
  /\ pc \in [Subscribers -> {"idle", "sleep", "journal", "gap", "gone"}]
  /\ cursor \in [Subscribers -> Nat]
  /\ last \in [Subscribers -> [Ids -> Infos \cup {Absent}]]
  /\ changed \in [Subscribers -> SUBSET Ids]
  /\ view \in [Subscribers -> [Ids -> Infos \cup {Absent}]]
  /\ processes \in [Subscribers -> [Ids -> States \cup {Absent}]]

Subscribed(s) == pc[s] \notin {"idle", "gone"}
\* Every event a subscriber has not been sent is still in the journal.
Complete(s) == \A n \in cursor[s] + 1 .. sequence : \E e \in events : e.sequence = n

\* While nobody changes it, the journal has an entry for exactly the registered
\* sessions, whatever late updates, seeds and samples it was given.
JournalMatchesRegistry ==
  journaling = {} => /\ Present(latest_sessions) = registry
                     /\ Present(latest_processes) = registry

\* A subscriber that has lost no event comes to exactly the journal's sessions
\* and, if it asked for them, process states by applying the events it has yet
\* to be sent: an event is never applied to a snapshot that is older than the
\* ones before it, nor a hole left by the ring taken for the end.
ReplayReachesJournal ==
  \A s \in Subscribers : Subscribed(s) /\ Complete(s) =>
    /\ Present(Applied(view[s], After(s))) = Present(latest_sessions)
    /\ s \in ProcessEvents => AppliedProcesses(processes[s], After(s)) = latest_processes

\* A session's end is its last event, although subscribers and the sampler
\* journal what they saw of it before they looked at the journal.
RemovedIsLast ==
  \A e, f \in events : e.kind = "removed" /\ f.id = e.id => f.sequence <= e.sequence

\* Every subscriber that stays learns of every session and of every end, also
\* when it falls behind by more than the journal keeps.
MembershipConverges ==
  \A s \in Subscribers : \A id \in Ids :
    Subscribed(s) ~> (pc[s] = "gone" \/ (id \in registry <=> id \in Present(view[s])))

\* Changes of a terminal reach every subscriber
\* (docs/daemon-protocol.md:121-128, "`session_updated` incluye ... cuando cambia
\* el proceso visible, el cwd, ... se actualizan por sondeo cada 100 ms").
ChangesReachSubscribers ==
  \A s \in Subscribers : <>[](Subscribed(s) => view[s] = Snapshot)
=============================================================================
