------------------------ MODULE EventJournalProofs ------------------------
(***************************************************************************)
(* Theorems about EventJournal, for any sessions, subscribers and process  *)
(* observations and any capacity of the journal.                           *)
(***************************************************************************)
EXTENDS EventJournal, TLAPS

Values == Infos \cup {Absent}

HostType == /\ registry \subseteq Ids /\ journaling \subseteq Ids
            /\ info \in [Ids -> Values] /\ changes \in 0..MaxChanges
JournalType == /\ sequence \in Nat /\ \A e \in events : EventOK(e)
               /\ latest_sessions \in [Ids -> Values]
               /\ latest_processes \in [Ids -> States \cup {Absent}]
ClientType == /\ pc \in [Subscribers -> {"idle", "sleep", "journal", "gap", "gone"}]
              /\ cursor \in [Subscribers -> Nat]
              /\ last \in [Subscribers -> [Ids -> Values]]
              /\ changed \in [Subscribers -> SUBSET Ids]
              /\ view \in [Subscribers -> [Ids -> Values]]
              /\ processes \in [Subscribers -> [Ids -> States \cup {Absent}]]

\* TypeOK, in groups of variables that change together.
LEMMA TypeParts == TypeOK <=> HostType /\ JournalType /\ ClientType
BY DEF TypeOK, HostType, JournalType, ClientType, Values

\* The same for the next state.
LEMMA TypePartsNext == TypeOK' <=> HostType' /\ JournalType' /\ ClientType'
BY DEF TypeOK, HostType, JournalType, ClientType, Values

\* The journal starts empty and well-typed.
LEMMA TypeInit == Init => TypeOK
<1> SUFFICES ASSUME Init PROVE TypeOK
  OBVIOUS
<1>1. HostType
  BY BoundsAssumption DEF Init, HostType, Nobody, Values
<1>2. JournalType
  BY DEF Init, JournalType, Nobody, Values
<1>3. ClientType
  BY DEF Init, ClientType, Nobody, Values
<1> QED BY <1>1, <1>2, <1>3, TypeParts

\* Publishing an event keeps the ring well-typed and within its capacity.
LEMMA PublishType ==
  ASSUME JournalType, NEW kind \in Kinds, NEW id \in Ids, NEW data \in DataOf(kind),
         Publish(kind, id, data)
  PROVE  sequence' \in Nat /\ \A e \in events' : EventOK(e)'
<1> DEFINE new == [sequence |-> sequence + 1, kind |-> kind, id |-> id, data |-> data]
<1>1. sequence \in Nat /\ sequence' = sequence + 1 /\ Capacity \in Nat \ {0}
  BY CapacityAssumption DEF JournalType, Publish
<1>2. events' = {e \in events \cup {new} : e.sequence + Capacity > sequence + 1}
  BY DEF Publish, Kept
<1>3. ASSUME NEW e \in events' PROVE EventOK(e)'
  <2>1. CASE e = new
    BY <1>1, <2>1 DEF EventOK
  <2>2. CASE e \in events
    <3>1. EventOK(e) /\ e.sequence + Capacity > sequence + 1
      BY <1>2, <1>3, <2>2 DEF JournalType, new
    <3> QED BY <1>1, <3>1 DEF EventOK
  <2> QED BY <1>2, <1>3, <2>1, <2>2
<1> QED BY <1>1, <1>3

\* The newest of some events is one of them.
LEMMA NewestIn == \A E : Newest(E) \subseteq E
BY DEF Newest

\* What a client makes of events are sessions and process states.
LEMMA AppliedType ==
  ASSUME JournalType, NEW E \in SUBSET events
  PROVE  /\ \A sessions \in [Ids -> Values] : Applied(sessions, E) \in [Ids -> Values]
         /\ \A states \in [Ids -> States \cup {Absent}] :
              AppliedProcesses(states, E) \in [Ids -> States \cup {Absent}]
<1>1. ASSUME NEW e \in E, e.kind # "process" PROVE e.data \in Values
  BY <1>1 DEF JournalType, EventOK, DataOf, Values
<1>2. ASSUME NEW e \in E, e.kind \notin {"updated", "added"} PROVE e.data \in States \cup {Absent}
  BY <1>2 DEF JournalType, EventOK, DataOf, Kinds
<1>3. Unseen \in States
  BY BoundsAssumption DEF Unseen, States
<1>4. ASSUME NEW sessions \in [Ids -> Values] PROVE Applied(sessions, E) \in [Ids -> Values]
  <2> SUFFICES ASSUME NEW id \in Ids
               PROVE  Applied(sessions, E)[id] \in Values
    BY DEF Applied
  <2> DEFINE about == Newest({e \in E : e.id = id /\ e.kind # "process"})
  <2>1. about \subseteq {e \in E : e.id = id /\ e.kind # "process"}
    BY NewestIn
  <2>2. CASE about = {}
    BY <2>2 DEF Applied
  <2>3. CASE about # {}
    <3>1. (CHOOSE e \in about : TRUE) \in about
      BY <2>3
    <3>2. (CHOOSE e \in about : TRUE).data \in Values
      BY <1>1, <2>1, <3>1
    <3> QED BY <2>3, <3>2 DEF Applied
  <2> QED BY <2>2, <2>3
<1>5. ASSUME NEW states \in [Ids -> States \cup {Absent}]
      PROVE  AppliedProcesses(states, E) \in [Ids -> States \cup {Absent}]
  <2> SUFFICES ASSUME NEW id \in Ids
               PROVE  AppliedProcesses(states, E)[id] \in States \cup {Absent}
    BY DEF AppliedProcesses
  <2> DEFINE about == Newest({e \in E : e.id = id /\ e.kind # "updated"})
             event == CHOOSE e \in about : TRUE
  <2>1. about \subseteq {e \in E : e.id = id /\ e.kind # "updated"}
    BY NewestIn
  <2>2. AppliedProcesses(states, E)[id] =
          CASE about = {} -> states[id]
            [] about # {} /\ event.kind = "added" -> Unseen
            [] OTHER -> event.data
    BY DEF AppliedProcesses
  <2>3. CASE about = {}
    BY <2>2, <2>3
  <2>4. CASE about # {}
    <3>1. event \in about
      BY <2>4
    <3>2. event.kind # "added" => event.data \in States \cup {Absent}
      BY <1>2, <2>1, <3>1
    <3> HIDE DEF about, event
    <3> QED BY <1>3, <2>2, <2>4, <3>2
  <2> QED BY <2>3, <2>4
<1> QED BY <1>4, <1>5

-----------------------------------------------------------------------------
(* The inductive invariant *)

\* A session of the registry or on its way out has infos, one session at a time is
\* between the registry and the journal, and what a thread has yet to journal
\* are infos of sessions.
PendingInv ==
  /\ \A id \in registry \cup journaling : info[id] # Absent
  /\ \A id \in journaling : journaling = {id}
  /\ \A s \in Subscribers : \A id \in changed[s] : last[s][id] # Absent
  /\ \A s \in Subscribers : pc[s] # "journal" => changed[s] = {}

\* The journal has the registered sessions, but for the one that is being added
\* or removed.
Journaled == (registry \ journaling) \cup (journaling \ registry)
MembersInv == /\ Present(latest_sessions) = Journaled
              /\ Present(latest_processes) = Journaled

\* A session whose end was journaled is gone for good: its id was used, and
\* neither the registry nor the journal has it any more.
GoneInv ==
  \A e \in events : e.kind = "removed" =>
    /\ e.id \notin registry \cup journaling /\ info[e.id] # Absent
    /\ \A f \in events : f.id = e.id => f.sequence <= e.sequence

IInv == TypeOK /\ PendingInv /\ MembersInv /\ GoneInv

\* The invariant holds before the first session.
LEMMA InitInv == Init => IInv
<1> SUFFICES ASSUME Init PROVE IInv
  OBVIOUS
<1>1. PendingInv
  BY DEF Init, PendingInv
<1>2. MembersInv
  BY DEF Init, MembersInv, Journaled, Present, Nobody
<1>3. GoneInv
  BY DEF Init, GoneInv
<1> QED BY <1>1, <1>2, <1>3, TypeInit DEF IInv

\* What the registry holds is typed like the terminals.
LEMMA SnapshotType == HostType => Snapshot \in [Ids -> Values]
BY DEF HostType, Snapshot, Values

\* No step of a session, a sampler or a subscriber leaves the types.
LEMMA TypeStep == TypeOK /\ [Next]_vars => TypeOK'
<1> SUFFICES ASSUME TypeOK, [Next]_vars PROVE HostType' /\ JournalType' /\ ClientType'
  BY TypePartsNext
<1> HostType /\ JournalType /\ ClientType
  BY TypeParts
<1> USE DEF hostVars, journalVars, clientVars
<1>1. ASSUME UNCHANGED hostVars PROVE HostType'
  BY <1>1 DEF HostType
<1>2. ASSUME UNCHANGED journalVars PROVE JournalType'
  BY <1>2 DEF JournalType, EventOK
<1>3. ASSUME UNCHANGED clientVars PROVE ClientType'
  BY <1>3 DEF ClientType
<1>4. ASSUME NEW id \in Ids, Register(id) \/ Unregister(id) \/ TerminalChanges(id)
      PROVE  HostType' /\ JournalType' /\ ClientType'
  <2>1. HostType'
    BY <1>4, BoundsAssumption DEF Register, Unregister, TerminalChanges, HostType, Values
  <2> QED BY <1>2, <1>3, <1>4, <2>1 DEF Register, Unregister, TerminalChanges
<1>5. ASSUME NEW id \in Ids, Journal(id)
      PROVE  HostType' /\ JournalType' /\ ClientType'
  <2>1. HostType' /\ ClientType'
    BY <1>3, <1>5 DEF Journal, HostType
  <2>2. CASE id \in registry
    <3>1. info[id] \in Values /\ Unseen \in States
      BY BoundsAssumption DEF HostType, Unseen, States
    <3>2. "added" \in Kinds /\ info[id] \in DataOf("added")
      BY <3>1 DEF Kinds, DataOf, Values
    <3>3. Added(id)
      BY <1>5, <2>2 DEF Journal
    <3>4. sequence' \in Nat /\ \A e \in events' : EventOK(e)'
      BY <3>2, <3>3, PublishType DEF Added
    <3> QED BY <3>1, <3>3, <3>4, <2>1 DEF Added, JournalType
  <2>3. CASE id \notin registry
    <3>1. "removed" \in Kinds /\ Absent \in DataOf("removed")
      BY DEF Kinds, DataOf
    <3>2. Removed(id)
      BY <1>5, <2>3 DEF Journal
    <3>3. sequence' \in Nat /\ \A e \in events' : EventOK(e)'
      BY <3>1, <3>2, PublishType DEF Removed
    <3> QED BY <3>2, <3>3, <2>1 DEF Removed, JournalType, Values
  <2> QED BY <2>2, <2>3
<1>6. ASSUME NEW id \in Ids, SampleProcesses(id)
      PROVE  HostType' /\ JournalType' /\ ClientType'
  <2>1. latest_processes[id] \in States
    BY <1>6 DEF SampleProcesses, JournalType
  <2>2. PICK o \in Observations :
          LET state == [generation |-> latest_processes[id].generation + 1, observation |-> o] IN
          /\ latest_processes' = [latest_processes EXCEPT ![id] = state]
          /\ Publish("process", id, state)
    BY <1>6 DEF SampleProcesses
  <2> DEFINE state == [generation |-> latest_processes[id].generation + 1, observation |-> o]
  <2>3. latest_processes[id].generation < MaxGeneration
    BY <1>6 DEF SampleProcesses
  <2>4. state \in States
    BY <2>1, <2>3, BoundsAssumption DEF States
  <2>5. "process" \in Kinds /\ state \in DataOf("process")
    BY <2>4 DEF Kinds, DataOf
  <2> HIDE DEF state
  <2>6. sequence' \in Nat /\ \A e \in events' : EventOK(e)'
    BY <2>2, <2>5, PublishType DEF state
  <2>7. latest_processes' \in [Ids -> States \cup {Absent}]
    BY <2>2, <2>4 DEF state, JournalType
  <2> QED BY <1>1, <1>3, <1>6, <2>6, <2>7 DEF SampleProcesses, JournalType
<1>7. ASSUME NEW s \in Subscribers, Subscribe(s)
      PROVE  HostType' /\ JournalType' /\ ClientType'
  <2>1. JournalType'
    BY <1>7, SnapshotType DEF Subscribe, JournalType, EventOK
  <2>2. ClientType'
    BY <1>7, SnapshotType DEF Subscribe, JournalType, ClientType
  <2> QED BY <1>1, <1>7, <2>1, <2>2 DEF Subscribe
<1>8. ASSUME NEW s \in Subscribers, NEW id \in Ids, JournalChange(s, id)
      PROVE  HostType' /\ JournalType' /\ ClientType'
  <2>1. ClientType'
    BY <1>8 DEF JournalChange, ClientType
  <2>2. last[s][id] \in Values /\ "updated" \in Kinds
    BY DEF ClientType, Kinds
  <2>3. last[s][id] \in DataOf("updated")
    BY <2>2 DEF DataOf, Values
  <2>4. CASE UNCHANGED journalVars
    BY <1>1, <1>2, <1>8, <2>1, <2>4 DEF JournalChange
  <2>5. CASE /\ latest_sessions' = [latest_sessions EXCEPT ![id] = last[s][id]]
             /\ Publish("updated", id, last[s][id]) /\ UNCHANGED latest_processes
    <3>1. sequence' \in Nat /\ \A e \in events' : EventOK(e)'
      BY <2>2, <2>3, <2>5, PublishType
    <3> QED BY <1>1, <1>8, <2>1, <2>2, <2>5, <3>1 DEF JournalChange, JournalType
  <2> QED BY <1>8, <2>4, <2>5 DEF JournalChange, UpdateIfChanged
<1>9. ASSUME NEW s \in Subscribers, HangUp(s) \/ Poll(s) \/ FindGap(s)
      PROVE  HostType' /\ JournalType' /\ ClientType'
  <2>1. CASE HangUp(s) \/ FindGap(s)
    BY <1>1, <1>2, <2>1 DEF HangUp, FindGap, ClientType
  <2>2. CASE Poll(s)
    <3> DEFINE seen == {id \in Present(last[s]) \cap registry : last[s][id] # info[id]}
    <3>1. seen \in SUBSET Ids
      BY DEF HostType
    <3>2. changed' = [changed EXCEPT ![s] = seen]
      BY <2>2 DEF Poll
    <3> HIDE DEF seen
    <3>3. ClientType'
      BY <2>2, <3>1, <3>2, SnapshotType DEF Poll, ClientType
    <3> QED BY <1>1, <1>2, <2>2, <3>3 DEF Poll
  <2> QED BY <1>9, <2>1, <2>2
<1>10. ASSUME NEW s \in Subscribers, Deliver(s)
       PROVE  HostType' /\ JournalType' /\ ClientType'
  <2>1. After(s) \in SUBSET events
    BY DEF After
  <2>2. Applied(view[s], After(s)) \in [Ids -> Values]
    BY <2>1, AppliedType DEF ClientType
  <2>3. AppliedProcesses(processes[s], After(s)) \in [Ids -> States \cup {Absent}]
    BY <2>1, AppliedType DEF ClientType
  <2> DEFINE newest == Newest(After(s))
             next == IF newest = {} THEN cursor[s] ELSE (CHOOSE e \in newest : TRUE).sequence
  <2>4. cursor' = [cursor EXCEPT ![s] = next]
    BY <1>10 DEF Deliver, ClientType
  <2>5. next \in Nat
    <3>1. CASE newest = {}
      BY <3>1 DEF ClientType
    <3>2. CASE newest # {}
      <4>1. PICK e \in newest : next = e.sequence
        BY <3>2
      <4>2. e \in events
        BY <2>1, NewestIn
      <4> HIDE DEF next, newest
      <4> QED BY <4>1, <4>2 DEF JournalType, EventOK
    <3> QED BY <3>1, <3>2
  <2> HIDE DEF next
  <2>6. ClientType'
    BY <1>10, <2>2, <2>3, <2>4, <2>5 DEF Deliver, ClientType
  <2> QED BY <1>1, <1>2, <1>10, <2>6 DEF Deliver
<1>11. ASSUME NEW s \in Subscribers, SendGap(s)
       PROVE  HostType' /\ JournalType' /\ ClientType'
  <2>1. ClientType'
    BY <1>11 DEF SendGap, ClientType, JournalType
  <2> QED BY <1>1, <1>2, <1>11, <2>1 DEF SendGap
<1>12. CASE UNCHANGED vars
  BY <1>1, <1>2, <1>3, <1>12 DEF vars
<1> QED BY <1>4, <1>5, <1>6, <1>7, <1>8, <1>9, <1>10, <1>11, <1>12 DEF Next, SubscriberStep

\* Sessions come to the registry with infos, and threads only keep what was there.
LEMMA PendingStep == IInv /\ [Next]_vars => PendingInv'
<1> SUFFICES ASSUME IInv, [Next]_vars PROVE PendingInv'
  OBVIOUS
<1> HostType /\ ClientType /\ PendingInv
  BY TypeParts DEF IInv
<1> USE DEF hostVars, journalVars, clientVars
<1>1. ASSUME NEW id \in Ids, Register(id) \/ Unregister(id) \/ TerminalChanges(id)
      PROVE  PendingInv'
  BY <1>1, ValuesAssumption DEF Register, Unregister, TerminalChanges, PendingInv, HostType
<1>2. ASSUME NEW id \in Ids, Journal(id) \/ SampleProcesses(id)
      PROVE  PendingInv'
  BY <1>2 DEF Journal, SampleProcesses, PendingInv
<1>3. ASSUME NEW s \in Subscribers, Subscribe(s) \/ HangUp(s) \/ Deliver(s) \/ FindGap(s) \/ SendGap(s)
      PROVE  PendingInv'
  <2>1. changed' = changed /\ changed[s] = {}
    BY <1>3 DEF Subscribe, HangUp, Deliver, FindGap, SendGap, PendingInv
  <2>2. UNCHANGED hostVars /\ \A other \in Subscribers \ {s} : last'[other] = last[other] /\ pc'[other] = pc[other]
    BY <1>3 DEF Subscribe, HangUp, Deliver, FindGap, SendGap, ClientType
  <2> QED BY <2>1, <2>2 DEF PendingInv
<1>4. ASSUME NEW s \in Subscribers, Poll(s)
      PROVE  PendingInv'
  <2>1. pc'[s] = "journal" /\ \A id \in changed'[s] : last'[s][id] # Absent
    BY <1>4 DEF Poll, PendingInv, ClientType, HostType, Snapshot
  <2>2. \A other \in Subscribers \ {s} :
          last'[other] = last[other] /\ pc'[other] = pc[other] /\ changed'[other] = changed[other]
    BY <1>4 DEF Poll, ClientType
  <2> QED BY <1>4, <2>1, <2>2 DEF Poll, PendingInv
<1>5. ASSUME NEW s \in Subscribers, NEW id \in Ids, JournalChange(s, id)
      PROVE  PendingInv'
  BY <1>5 DEF JournalChange, PendingInv, ClientType
<1>6. CASE UNCHANGED vars
  BY <1>6 DEF vars, PendingInv
<1> QED BY <1>1, <1>2, <1>3, <1>4, <1>5, <1>6 DEF Next, SubscriberStep

\* The journal follows the registry: late updates change only what is there.
LEMMA MembersStep == IInv /\ [Next]_vars => MembersInv'
<1> SUFFICES ASSUME IInv, [Next]_vars PROVE MembersInv'
  OBVIOUS
<1> HostType /\ JournalType /\ ClientType /\ PendingInv /\ MembersInv
  BY TypeParts DEF IInv
<1> USE DEF hostVars, journalVars, clientVars
<1>1. ASSUME NEW id \in Ids, Register(id) \/ Unregister(id) \/ TerminalChanges(id)
      PROVE  MembersInv'
  <2>1. Journaled' = Journaled
    BY <1>1 DEF Register, Unregister, TerminalChanges, Journaled, PendingInv
  <2> QED BY <1>1, <2>1 DEF Register, Unregister, TerminalChanges, MembersInv, Present
<1>2. ASSUME NEW id \in Ids, Journal(id)
      PROVE  MembersInv'
  <2>1. journaling = {id} /\ journaling' = {} /\ registry' = registry
    BY <1>2 DEF Journal, PendingInv
  <2>2. CASE id \in registry
    <3>1. Journaled' = Journaled \cup {id}
      BY <2>1, <2>2 DEF Journaled
    <3>2. info[id] # Absent /\ Unseen # Absent
      <4>1. Unseen \in States
        BY BoundsAssumption DEF Unseen, States
      <4> QED BY <2>2, <4>1, ValuesAssumption DEF PendingInv
    <3>3. /\ latest_sessions' = [latest_sessions EXCEPT ![id] = info[id]]
          /\ latest_processes' = [latest_processes EXCEPT ![id] = Unseen]
      BY <1>2, <2>2 DEF Journal, Added
    <3> QED BY <3>1, <3>2, <3>3 DEF MembersInv, Present, JournalType
  <2>3. CASE id \notin registry
    <3>1. Journaled' = Journaled \ {id}
      BY <2>1, <2>3 DEF Journaled, HostType
    <3>2. /\ latest_sessions' = [latest_sessions EXCEPT ![id] = Absent]
          /\ latest_processes' = [latest_processes EXCEPT ![id] = Absent]
      BY <1>2, <2>3 DEF Journal, Removed
    <3> QED BY <3>1, <3>2 DEF MembersInv, Present, JournalType
  <2> QED BY <2>2, <2>3
<1>3. ASSUME NEW id \in Ids, SampleProcesses(id)
      PROVE  MembersInv'
  <2>1. Journaled' = Journaled /\ latest_sessions' = latest_sessions /\ id \in Present(latest_processes)
    BY <1>3 DEF SampleProcesses, Journaled, Present
  <2>2. PICK o \in Observations :
          latest_processes' = [latest_processes EXCEPT ![id] =
            [generation |-> latest_processes[id].generation + 1, observation |-> o]]
    BY <1>3 DEF SampleProcesses
  <2> DEFINE state == [generation |-> latest_processes[id].generation + 1, observation |-> o]
  <2>3. state # Absent
    <3>1. latest_processes[id] \in States /\ latest_processes[id].generation < MaxGeneration
      BY <1>3 DEF SampleProcesses, JournalType
    <3>2. state \in States
      BY <3>1, BoundsAssumption DEF States
    <3> QED BY <3>2, ValuesAssumption
  <2> HIDE DEF state
  <2>4. Present(latest_processes') = Present(latest_processes)
    BY <2>1, <2>2, <2>3 DEF state, Present, JournalType
  <2> QED BY <2>1, <2>4 DEF MembersInv, Present
<1>4. ASSUME NEW s \in Subscribers, Subscribe(s)
      PROVE  MembersInv'
  <2>1. Journaled' = registry /\ Journaled = registry
    BY <1>4 DEF Subscribe, Journaled
  <2>2. Present(Snapshot) = registry
    BY DEF Present, Snapshot, PendingInv, HostType
  <2> QED BY <1>4, <2>1, <2>2 DEF Subscribe, MembersInv, Present
<1>5. ASSUME NEW s \in Subscribers, NEW id \in Ids, JournalChange(s, id)
      PROVE  MembersInv'
  <2>1. Journaled' = Journaled /\ latest_processes' = latest_processes /\ last[s][id] # Absent
    BY <1>5 DEF JournalChange, UpdateIfChanged, Journaled, PendingInv
  <2>2. \/ latest_sessions' = latest_sessions
        \/ /\ latest_sessions' = [latest_sessions EXCEPT ![id] = last[s][id]]
           /\ latest_sessions[id] # Absent
    BY <1>5 DEF JournalChange, UpdateIfChanged, MustUpdate
  <2>3. Present(latest_sessions') = Present(latest_sessions)
    BY <2>1, <2>2 DEF Present, JournalType
  <2> QED BY <2>1, <2>3 DEF MembersInv, Present
<1>6. ASSUME NEW s \in Subscribers, HangUp(s) \/ Poll(s) \/ Deliver(s) \/ FindGap(s) \/ SendGap(s)
      PROVE  MembersInv'
  BY <1>6 DEF HangUp, Poll, Deliver, FindGap, SendGap, MembersInv, Present, Journaled
<1>7. CASE UNCHANGED vars
  BY <1>7 DEF vars, MembersInv, Present, Journaled
<1> QED BY <1>1, <1>2, <1>3, <1>4, <1>5, <1>6, <1>7 DEF Next, SubscriberStep

\* An event about a session that has not ended, or its end, leaves the ends of
\* sessions the last events about them.
LEMMA PublishEnds ==
  ASSUME JournalType, GoneInv, NEW kind \in Kinds, NEW id \in registry \cup journaling,
         NEW data, Publish(kind, id, data)
  PROVE  \A e \in events' : e.kind = "removed" =>
           /\ e \in events \/ (kind = "removed" /\ e.id = id)
           /\ \A f \in events' : f.id = e.id => f.sequence <= e.sequence
<1> DEFINE new == [sequence |-> sequence + 1, kind |-> kind, id |-> id, data |-> data]
<1>1. events' \subseteq events \cup {new}
  BY DEF Publish, Kept
<1>2. sequence \in Nat /\ \A f \in events : f.sequence \in 1..sequence
  BY DEF JournalType, EventOK
<1>3. \A e \in events : e.kind = "removed" => e.id # id
  BY DEF GoneInv
<1>4. ASSUME NEW e \in events', e.kind = "removed", NEW f \in events', f.id = e.id
      PROVE  f.sequence <= e.sequence
  <2>1. CASE e = new
    BY <1>1, <1>2, <2>1
  <2>2. CASE e \in events
    BY <1>1, <1>3, <1>4, <2>2 DEF GoneInv
  <2> QED BY <1>1, <2>1, <2>2
<1> QED BY <1>1, <1>4

\* What a session, a sampler or a subscriber publishes is about a session that
\* has not ended, and an ended session's id is not registered again.
LEMMA GoneStep == IInv /\ [Next]_vars => GoneInv'
<1> SUFFICES ASSUME IInv, [Next]_vars PROVE GoneInv'
  OBVIOUS
<1> HostType /\ JournalType /\ ClientType /\ PendingInv /\ MembersInv /\ GoneInv
  BY TypeParts DEF IInv
<1> USE DEF hostVars, journalVars, clientVars
<1>1. ASSUME NEW id \in Ids, Register(id) \/ Unregister(id) \/ TerminalChanges(id)
      PROVE  GoneInv'
  <2>1. events' = events
    BY <1>1 DEF Register, Unregister, TerminalChanges
  <2>2. \A e \in events : e.kind = "removed" =>
          e.id \notin registry' \cup journaling' /\ info'[e.id] # Absent
    <3> SUFFICES ASSUME NEW e \in events, e.kind = "removed"
                 PROVE  e.id \notin registry' \cup journaling' /\ info'[e.id] # Absent
      OBVIOUS
    <3>1. e.id \notin registry \cup journaling /\ info[e.id] # Absent /\ e.id \in Ids
      BY DEF GoneInv, JournalType, EventOK
    <3>2. id # e.id
      BY <1>1, <3>1 DEF Register, Unregister, TerminalChanges
    <3> QED BY <1>1, <3>1, <3>2 DEF Register, Unregister, TerminalChanges, HostType
  <2> QED BY <2>1, <2>2 DEF GoneInv
<1>2. ASSUME NEW id \in Ids, Journal(id)
      PROVE  GoneInv'
  <2>1. journaling = {id} /\ journaling' = {} /\ registry' = registry /\ info' = info
    BY <1>2 DEF Journal, PendingInv
  <2>2. CASE id \in registry
    <3>1. Publish("added", id, info[id]) /\ "added" \in Kinds
      BY <1>2, <2>2 DEF Journal, Added, Kinds
    <3> QED BY <2>1, <2>2, <3>1, PublishEnds DEF GoneInv
  <2>3. CASE id \notin registry
    <3>1. Publish("removed", id, Absent) /\ "removed" \in Kinds
      BY <1>2, <2>3 DEF Journal, Removed, Kinds
    <3> QED BY <2>1, <2>3, <3>1, PublishEnds DEF GoneInv, PendingInv
  <2> QED BY <2>2, <2>3
<1>3. ASSUME NEW id \in Ids, SampleProcesses(id)
      PROVE  GoneInv'
  <2>1. id \in registry /\ UNCHANGED hostVars /\ "process" \in Kinds
    BY <1>3 DEF SampleProcesses, Kinds
  <2>2. PICK data : Publish("process", id, data)
    BY <1>3 DEF SampleProcesses
  <2> QED BY <2>1, <2>2, PublishEnds DEF GoneInv
<1>4. ASSUME NEW s \in Subscribers, NEW id \in Ids, JournalChange(s, id)
      PROVE  GoneInv'
  <2>1. UNCHANGED hostVars /\ "updated" \in Kinds
    BY <1>4 DEF JournalChange, Kinds
  <2>2. CASE MustUpdate(id, last[s][id])
    <3>1. id \in registry \cup journaling
      BY <2>2 DEF MustUpdate, MembersInv, Present, Journaled
    <3>2. Publish("updated", id, last[s][id])
      BY <1>4, <2>2 DEF JournalChange, UpdateIfChanged
    <3> QED BY <2>1, <3>1, <3>2, PublishEnds DEF GoneInv
  <2>3. CASE ~MustUpdate(id, last[s][id])
    BY <1>4, <2>3 DEF JournalChange, UpdateIfChanged, GoneInv
  <2> QED BY <2>2, <2>3
<1>5. ASSUME NEW s \in Subscribers,
             Subscribe(s) \/ HangUp(s) \/ Poll(s) \/ Deliver(s) \/ FindGap(s) \/ SendGap(s)
      PROVE  GoneInv'
  BY <1>5 DEF Subscribe, HangUp, Poll, Deliver, FindGap, SendGap, GoneInv
<1>6. CASE UNCHANGED vars
  BY <1>6 DEF vars, GoneInv
<1> QED BY <1>1, <1>2, <1>3, <1>4, <1>5, <1>6 DEF Next, SubscriberStep

-----------------------------------------------------------------------------
(* What a client makes of the events it has yet to be sent *)

\* The ring has the last Capacity events, each once, and no subscriber was sent
\* more than there is.
RingInv ==
  /\ \A n \in 1..sequence : n + Capacity > sequence => \E e \in events : e.sequence = n
  /\ \A e, f \in events : e.sequence = f.sequence => e = f
  /\ \A s \in Subscribers : cursor[s] <= sequence

Event(kind, id, data) == [sequence |-> sequence + 1, kind |-> kind, id |-> id, data |-> data]
Reaches(s) ==
  /\ Present(Applied(view[s], After(s))) = Present(latest_sessions)
  /\ s \in ProcessEvents => AppliedProcesses(processes[s], After(s)) = latest_processes

\* Nothing to apply.
LEMMA AppliedNone ==
  /\ \A sessions \in [Ids -> Values] : Applied(sessions, {}) = sessions
  /\ \A states \in [Ids -> States \cup {Absent}] : AppliedProcesses(states, {}) = states
<1>1. Newest({}) = {}
  BY DEF Newest
<1>2. ASSUME NEW sessions \in [Ids -> Values]
      PROVE  Applied(sessions, {}) = sessions
  <2>1. \A id \in Ids : {e \in {} : e.id = id /\ e.kind # "process"} = {}
    OBVIOUS
  <2>2. Applied(sessions, {}) = [id \in Ids |-> sessions[id]]
    BY <1>1, <2>1 DEF Applied
  <2> QED BY <2>2
<1>3. ASSUME NEW states \in [Ids -> States \cup {Absent}]
      PROVE  AppliedProcesses(states, {}) = states
  <2>1. \A id \in Ids : {e \in {} : e.id = id /\ e.kind # "updated"} = {}
    OBVIOUS
  <2>2. AppliedProcesses(states, {}) = [id \in Ids |-> states[id]]
    BY <1>1, <2>1 DEF AppliedProcesses
  <2> QED BY <2>2
<1> QED BY <1>2, <1>3

\* One more event, newer than the others, decides about its session.
LEMMA NewestOne ==
  ASSUME JournalType, NEW A \in SUBSET events, NEW new, new.sequence = sequence + 1
  PROVE  Newest(A \cup {new}) = {new}
<1>1. \A e \in A : e.sequence \in Nat /\ e.sequence < new.sequence
  BY DEF JournalType, EventOK
<1>2. new.sequence \in Nat
  BY DEF JournalType
<1> QED BY <1>1, <1>2 DEF Newest

LEMMA AppliedMore ==
  ASSUME JournalType, NEW A \in SUBSET events, NEW new, new.sequence = sequence + 1,
         NEW id \in Ids, NEW sessions
  PROVE  Applied(sessions, A \cup {new})[id] =
           IF new.id = id /\ new.kind # "process" THEN new.data ELSE Applied(sessions, A)[id]
<1> DEFINE about(E) == {e \in E : e.id = id /\ e.kind # "process"}
           event(E) == CHOOSE e \in Newest(about(E)) : TRUE
           of(E) == IF Newest(about(E)) = {} THEN sessions[id] ELSE event(E).data
<1>1. \A E : Applied(sessions, E)[id] = of(E)
  BY DEF Applied
<1>2. CASE new.id = id /\ new.kind # "process"
  <2>1. about(A \cup {new}) = about(A) \cup {new}
    BY <1>2
  <2>2. about(A) \in SUBSET events
    OBVIOUS
  <2>3. Newest(about(A \cup {new})) = {new}
    BY <2>1, <2>2, NewestOne
  <2>4. of(A \cup {new}) = new.data
    BY <2>3
  <2> HIDE DEF of
  <2> QED BY <1>1, <1>2, <2>4
<1>3. CASE ~(new.id = id /\ new.kind # "process")
  <2>1. about(A \cup {new}) = about(A)
    BY <1>3
  <2>2. Newest(about(A \cup {new})) = Newest(about(A)) /\ event(A \cup {new}) = event(A)
    BY <2>1
  <2>3. of(A \cup {new}) = of(A)
    <3> HIDE DEF about, event
    <3> QED BY <2>2
  <2> HIDE DEF of
  <2> QED BY <1>1, <1>3, <2>3
<1> QED BY <1>2, <1>3

LEMMA AppliedStatesMore ==
  ASSUME JournalType, NEW A \in SUBSET events, NEW new, new.sequence = sequence + 1,
         NEW id \in Ids, NEW states
  PROVE  AppliedProcesses(states, A \cup {new})[id] =
           IF new.id = id /\ new.kind # "updated"
           THEN IF new.kind = "added" THEN Unseen ELSE new.data
           ELSE AppliedProcesses(states, A)[id]
<1> DEFINE about(E) == {e \in E : e.id = id /\ e.kind # "updated"}
           event(E) == CHOOSE e \in Newest(about(E)) : TRUE
           of(E) == CASE Newest(about(E)) = {} -> states[id]
                      [] Newest(about(E)) # {} /\ event(E).kind = "added" -> Unseen
                      [] OTHER -> event(E).data
<1>1. \A E : AppliedProcesses(states, E)[id] = of(E)
  BY DEF AppliedProcesses
<1>2. CASE new.id = id /\ new.kind # "updated"
  <2>1. about(A \cup {new}) = about(A) \cup {new}
    BY <1>2
  <2>2. about(A) \in SUBSET events
    OBVIOUS
  <2>3. Newest(about(A \cup {new})) = {new}
    BY <2>1, <2>2, NewestOne
  <2>4. event(A \cup {new}) = new
    BY <2>3
  <2>5. of(A \cup {new}) = IF new.kind = "added" THEN Unseen ELSE new.data
    <3> HIDE DEF event, about
    <3> QED BY <2>3, <2>4
  <2> HIDE DEF of
  <2> QED BY <1>1, <1>2, <2>5
<1>3. CASE ~(new.id = id /\ new.kind # "updated")
  <2>1. about(A \cup {new}) = about(A)
    BY <1>3
  <2>2. of(A \cup {new}) = of(A)
    <3> HIDE DEF about
    <3> QED BY <2>1
  <2> HIDE DEF of
  <2> QED BY <1>1, <1>3, <2>2
<1> QED BY <1>2, <1>3

\* The ring lets its oldest event go for the new one: a subscriber that lost
\* nothing has the same events to come as before, and the new one.
LEMMA PublishRing ==
  ASSUME JournalType, ClientType, RingInv, NEW kind, NEW id, NEW data, Publish(kind, id, data),
         UNCHANGED cursor
  PROVE  /\ RingInv'
         /\ \A s \in Subscribers : Complete(s)' =>
              Complete(s) /\ After(s)' = After(s) \cup {Event(kind, id, data)}
<1> DEFINE new == Event(kind, id, data)
<1>1. /\ sequence \in Nat /\ sequence' = sequence + 1 /\ Capacity \in Nat \ {0}
      /\ new.sequence = sequence + 1
  BY CapacityAssumption DEF JournalType, Publish, Event
<1>2. events' = {e \in events \cup {new} : e.sequence + Capacity > sequence + 1}
  BY DEF Publish, Kept, Event
<1>3. \A e \in events : e.sequence \in 1..sequence
  BY DEF JournalType, EventOK
<1> HIDE DEF new
<1>4. new \in events'
  BY <1>1, <1>2
<1>5. RingInv'
  <2>1. ASSUME NEW n \in 1..sequence', n + Capacity > sequence'
        PROVE  \E e \in events' : e.sequence = n
    <3>1. CASE n = sequence + 1
      BY <1>1, <1>4, <3>1
    <3>2. CASE n # sequence + 1
      <4>1. n \in 1..sequence /\ n + Capacity > sequence
        BY <1>1, <2>1, <3>2
      <4>2. PICK e \in events : e.sequence = n
        BY <4>1 DEF RingInv
      <4> QED BY <1>1, <1>2, <2>1, <4>2
    <3> QED BY <3>1, <3>2
  <2>2. ASSUME NEW e \in events', NEW f \in events', e.sequence = f.sequence
        PROVE  e = f
    <3>1. CASE e = new \/ f = new
      BY <1>1, <1>2, <1>3, <2>2, <3>1
    <3>2. CASE e # new /\ f # new
      BY <1>2, <2>2, <3>2 DEF RingInv
    <3> QED BY <3>1, <3>2
  <2>3. \A s \in Subscribers : cursor'[s] <= sequence'
    BY <1>1 DEF RingInv, ClientType
  <2> QED BY <2>1, <2>2, <2>3 DEF RingInv
<1>6. ASSUME NEW s \in Subscribers, Complete(s)'
      PROVE  Complete(s) /\ After(s)' = After(s) \cup {new}
  <2>1. cursor'[s] = cursor[s] /\ cursor[s] \in Nat /\ cursor[s] <= sequence
    BY DEF ClientType, RingInv
  <2>2. ASSUME NEW n \in cursor[s] + 1 .. sequence
        PROVE  \E e \in events : e.sequence = n /\ e \in events'
    <3>1. PICK e \in events' : e.sequence = n
      BY <1>1, <1>6, <2>1 DEF Complete
    <3>2. e # new
      BY <1>1, <2>1, <3>1
    <3> QED BY <1>2, <3>1, <3>2
  <2>3. Complete(s)
    BY <2>2 DEF Complete
  <2>4. ASSUME NEW e \in After(s)
        PROVE  e \in events'
    <3>1. e \in events /\ e.sequence \in cursor[s] + 1 .. sequence
      BY <1>1, <1>3, <2>1 DEF After
    <3>2. PICK f \in events : f.sequence = e.sequence /\ f \in events'
      BY <2>2, <3>1
    <3> QED BY <3>1, <3>2 DEF RingInv
  <2>5. After(s)' = {e \in events' : e.sequence > cursor[s]}
    BY <2>1 DEF After
  <2>6. After(s)' = After(s) \cup {new}
    <3>1. ASSUME NEW e \in After(s)' PROVE e \in After(s) \cup {new}
      BY <1>2, <2>5 DEF After
    <3>2. new \in After(s)'
      BY <1>1, <1>4, <2>1, <2>5
    <3>3. \A e \in After(s) : e \in After(s)'
      BY <2>4, <2>5 DEF After
    <3> QED BY <3>1, <3>2, <3>3
  <2> QED BY <2>3, <2>6
<1> QED BY <1>5, <1>6 DEF new

\* An event that says of its session what the journal then has of it.
LEMMA PublishReaches ==
  ASSUME JournalType, JournalType', ClientType, RingInv,
         NEW kind, NEW id \in Ids, NEW data, Publish(kind, id, data),
         UNCHANGED <<cursor, view, processes>>, NEW s \in Subscribers, Complete(s) => Reaches(s), Complete(s)',
         \A i \in Ids : latest_sessions'[i] # Absent <=>
           IF i = id /\ kind # "process" THEN data # Absent ELSE latest_sessions[i] # Absent,
         \A i \in Ids : latest_processes'[i] =
           IF i = id /\ kind # "updated" THEN IF kind = "added" THEN Unseen ELSE data
           ELSE latest_processes[i]
  PROVE  Reaches(s)'
<1> DEFINE new == Event(kind, id, data)
<1>1. Complete(s) /\ After(s)' = After(s) \cup {new}
  BY PublishRing
<1>2. new.sequence = sequence + 1 /\ new.id = id /\ new.kind = kind /\ new.data = data
  BY DEF Event
<1> HIDE DEF new
<1>3. After(s) \in SUBSET events
  BY DEF After
<1>4. /\ view'[s] = view[s] /\ processes'[s] = processes[s]
      /\ view[s] \in [Ids -> Values] /\ processes[s] \in [Ids -> States \cup {Absent}]
  BY DEF ClientType
<1>5. Reaches(s)
  BY <1>1
<1>6. Present(Applied(view[s], After(s) \cup {new})) = Present(latest_sessions')
  <2>1. ASSUME NEW i \in Ids
        PROVE  Applied(view[s], After(s) \cup {new})[i] # Absent <=> latest_sessions'[i] # Absent
    <3>1. Applied(view[s], After(s) \cup {new})[i] =
            IF i = id /\ kind # "process" THEN data ELSE Applied(view[s], After(s))[i]
      BY <1>2, <1>3, AppliedMore
    <3>2. Applied(view[s], After(s))[i] # Absent <=> latest_sessions[i] # Absent
      BY <1>5 DEF Reaches, Present
    <3> QED BY <3>1, <3>2
  <2> QED BY <2>1 DEF Present
<1>7. s \in ProcessEvents => AppliedProcesses(processes[s], After(s) \cup {new}) = latest_processes'
  <2> SUFFICES ASSUME s \in ProcessEvents
               PROVE  AppliedProcesses(processes[s], After(s) \cup {new}) = latest_processes'
    OBVIOUS
  <2>1. ASSUME NEW i \in Ids
        PROVE  AppliedProcesses(processes[s], After(s) \cup {new})[i] = latest_processes'[i]
    <3>1. AppliedProcesses(processes[s], After(s) \cup {new})[i] =
            IF i = id /\ kind # "updated" THEN IF kind = "added" THEN Unseen ELSE data
            ELSE AppliedProcesses(processes[s], After(s))[i]
      BY <1>2, <1>3, AppliedStatesMore
    <3>2. AppliedProcesses(processes[s], After(s))[i] = latest_processes[i]
      BY <1>5 DEF Reaches
    <3> QED BY <3>1, <3>2
  <2>2. AppliedProcesses(processes[s], After(s) \cup {new})
          = [i \in Ids |-> AppliedProcesses(processes[s], After(s) \cup {new})[i]]
    BY DEF AppliedProcesses
  <2>3. latest_processes' = [i \in Ids |-> latest_processes'[i]]
    BY DEF JournalType
  <2> QED BY <2>1, <2>2, <2>3
<1> QED BY <1>1, <1>4, <1>6, <1>7 DEF Reaches

\* A subscriber whose snapshot is the journal's has nothing to apply.
LEMMA FreshReaches ==
  ASSUME JournalType, JournalType', ClientType', NEW s \in Subscribers, UNCHANGED <<sequence, events>>,
         cursor'[s] = sequence, Present(view'[s]) = Present(latest_sessions'),
         s \in ProcessEvents => processes'[s] = latest_processes'
  PROVE  Reaches(s)'
<1>1. After(s)' = {}
  BY DEF After, JournalType, EventOK
<1>2. view'[s] \in [Ids -> Values] /\ processes'[s] \in [Ids -> States \cup {Absent}]
  BY DEF ClientType
<1>3. Applied(view'[s], {}) = view'[s] /\ AppliedProcesses(processes'[s], {}) = processes'[s]
  BY <1>2, AppliedNone
<1> QED BY <1>1, <1>3 DEF Reaches

\* A subscriber about whom and about whose events nothing changes, while the
\* journal's sessions stay the same ones.
LEMMA SameReaches ==
  ASSUME ReplayReachesJournal, NEW s \in Subscribers, Subscribed(s), Complete(s)',
         UNCHANGED <<sequence, events, latest_processes>>,
         view'[s] = view[s], processes'[s] = processes[s], cursor'[s] = cursor[s],
         Present(latest_sessions') = Present(latest_sessions)
  PROVE  Reaches(s)'
<1>1. After(s)' = After(s) /\ Complete(s)
  BY DEF After, Complete
<1> QED BY <1>1 DEF ReplayReachesJournal, Reaches

\* Without a gap at the front there is none: nothing a subscriber was not sent is lost.
LEMMA NoGapComplete ==
  ASSUME JournalType, ClientType, RingInv, NEW s \in Subscribers, ~IsGap(s)
  PROVE  Complete(s)
<1>1. sequence \in Nat /\ Capacity \in Nat \ {0} /\ cursor[s] \in Nat /\ \A e \in events : e.sequence \in 1..sequence
  BY CapacityAssumption DEF JournalType, ClientType, EventOK
<1>2. ASSUME NEW n \in cursor[s] + 1 .. sequence, \A e \in events : e.sequence # n
      PROVE  FALSE
  <2>1. n \in 1..sequence /\ n + Capacity <= sequence
    BY <1>1, <1>2 DEF RingInv
  <2>2. sequence - Capacity + 1 \in 1..sequence
    BY <1>1, <2>1
  <2>3. PICK e \in events : e.sequence = sequence - Capacity + 1
    BY <1>1, <2>2 DEF RingInv
  <2>4. \A f \in events : f.sequence > sequence - Capacity
    BY DEF JournalType, EventOK
  <2>5. e \in Front
    BY <1>1, <2>3, <2>4 DEF Front
  <2>6. cursor[s] + 1 < e.sequence
    BY <1>1, <1>2, <2>1, <2>3
  <2> QED BY <2>5, <2>6 DEF IsGap
<1> QED BY <1>2 DEF Complete

\* What is sent goes up to the journal's last event.
LEMMA DeliverAll ==
  ASSUME JournalType, ClientType, RingInv, NEW s \in Subscribers, Deliver(s)
  PROVE  cursor'[s] = sequence /\ \A d \in Subscribers \ {s} : cursor'[d] = cursor[d]
<1> DEFINE newest == Newest(After(s))
           sent == IF newest = {} THEN cursor[s] ELSE (CHOOSE e \in newest : TRUE).sequence
<1>1. cursor' = [cursor EXCEPT ![s] = sent]
  BY DEF Deliver
<1>2. sequence \in Nat /\ Capacity \in Nat \ {0} /\ cursor[s] \in Nat /\ cursor[s] <= sequence
      /\ \A e \in events : e.sequence \in 1..sequence
  BY CapacityAssumption DEF JournalType, ClientType, EventOK, RingInv
<1>3. sent = sequence
  <2>1. CASE cursor[s] = sequence
    <3>1. newest = {}
      BY <1>2, <2>1 DEF After, Newest
    <3> QED BY <2>1, <3>1
  <2>2. CASE cursor[s] # sequence
    <3>1. sequence \in 1..sequence /\ sequence + Capacity > sequence
      BY <1>2, <2>2
    <3>2. PICK e \in events : e.sequence = sequence
      BY <3>1 DEF RingInv
    <3>3. e \in newest
      BY <1>2, <2>2, <3>2 DEF After, Newest
    <3>4. \A f \in newest : f.sequence = sequence
      BY <1>2, <3>2, <3>3 DEF Newest, After
    <3> HIDE DEF newest
    <3> QED BY <3>3, <3>4
  <2> QED BY <2>1, <2>2
<1> HIDE DEF sent
<1> QED BY <1>1, <1>3 DEF ClientType

\* The ring keeps its events, and what a client has, with what it is yet to be
\* sent, is what the journal has.
LEMMA ReplayStep == IInv /\ IInv' /\ RingInv /\ ReplayReachesJournal /\ [Next]_vars
                      => RingInv' /\ ReplayReachesJournal'
<1> SUFFICES ASSUME IInv, IInv', RingInv, ReplayReachesJournal, [Next]_vars
             PROVE  RingInv' /\ ReplayReachesJournal'
  OBVIOUS
<1> HostType /\ JournalType /\ ClientType /\ PendingInv /\ MembersInv
  BY TypeParts DEF IInv
<1> HostType' /\ JournalType' /\ ClientType'
  BY TypePartsNext DEF IInv
<1> USE DEF hostVars, journalVars, clientVars
<1>1. ReplayReachesJournal' <=> \A s \in Subscribers : Subscribed(s)' /\ Complete(s)' => Reaches(s)'
  BY DEF ReplayReachesJournal, Reaches
<1>2. \A s \in Subscribers : Subscribed(s) /\ Complete(s) => Reaches(s)
  BY DEF ReplayReachesJournal, Reaches
<1>3. CASE UNCHANGED <<journalVars, clientVars>>
  <2>1. ASSUME NEW s \in Subscribers, Subscribed(s)', Complete(s)'
        PROVE  Reaches(s)'
    <3>1. Subscribed(s)
      BY <1>3, <2>1 DEF Subscribed
    <3> QED BY <1>3, <2>1, <3>1, SameReaches
  <2> QED BY <1>1, <1>3, <2>1 DEF RingInv
\* An event is published, and the entries of its session follow it.
<1>4. ASSUME UNCHANGED clientVars, NEW kind, NEW id \in Ids, NEW data, Publish(kind, id, data),
             \A i \in Ids : latest_sessions'[i] # Absent <=>
               IF i = id /\ kind # "process" THEN data # Absent ELSE latest_sessions[i] # Absent,
             \A i \in Ids : latest_processes'[i] =
               IF i = id /\ kind # "updated" THEN IF kind = "added" THEN Unseen ELSE data
               ELSE latest_processes[i]
      PROVE  RingInv' /\ ReplayReachesJournal'
  <2>1. RingInv'
    BY <1>4, PublishRing
  <2>2. ASSUME NEW s \in Subscribers, Subscribed(s)', Complete(s)'
        PROVE  Reaches(s)'
    <3>1. Complete(s) => Reaches(s)
      BY <1>2, <1>4, <2>2 DEF Subscribed
    <3> QED BY <1>4, <2>2, <3>1, PublishReaches
  <2> QED BY <1>1, <2>1, <2>2
<1>5. ASSUME NEW id \in Ids, Journal(id)
      PROVE  RingInv' /\ ReplayReachesJournal'
  <2>1. info[id] # Absent /\ UNCHANGED clientVars
    BY <1>5 DEF Journal, PendingInv
  <2>2. CASE Added(id)
    BY <1>4, <2>1, <2>2 DEF Added, JournalType
  <2>3. CASE Removed(id)
    BY <1>4, <2>1, <2>3 DEF Removed, JournalType
  <2> QED BY <1>5, <2>2, <2>3 DEF Journal
<1>6. ASSUME NEW id \in Ids, SampleProcesses(id)
      PROVE  RingInv' /\ ReplayReachesJournal'
  <2>1. PICK state : Publish("process", id, state) /\ latest_processes' = [latest_processes EXCEPT ![id] = state]
    BY <1>6 DEF SampleProcesses
  <2>2. UNCHANGED clientVars /\ latest_sessions' = latest_sessions
    BY <1>6 DEF SampleProcesses
  <2> QED BY <1>4, <2>1, <2>2 DEF JournalType
<1>7. ASSUME NEW s \in Subscribers, NEW id \in Ids, JournalChange(s, id)
      PROVE  RingInv' /\ ReplayReachesJournal'
  <2> DEFINE i == last[s][id]
  <2>1. UNCHANGED <<pc, cursor, last, view, processes>> /\ i # Absent
    BY <1>7 DEF JournalChange, PendingInv
  <2>2. CASE MustUpdate(id, i)
    <3>1. /\ Publish("updated", id, i) /\ latest_sessions' = [latest_sessions EXCEPT ![id] = i]
          /\ UNCHANGED latest_processes
      BY <1>7, <2>2 DEF JournalChange, UpdateIfChanged
    <3>2. RingInv'
      BY <2>1, <3>1, PublishRing
    <3>3. ASSUME NEW d \in Subscribers, Subscribed(d)', Complete(d)'
          PROVE  Reaches(d)'
      <4>1. Complete(d) => Reaches(d)
        BY <1>2, <2>1, <3>3 DEF Subscribed
      <4> HIDE DEF i
      <4>2. \A j \in Ids : latest_sessions'[j] # Absent <=>
              IF j = id /\ "updated" # "process" THEN i # Absent ELSE latest_sessions[j] # Absent
        BY <2>1, <3>1 DEF JournalType
      <4> QED BY <2>1, <3>1, <3>3, <4>1, <4>2, PublishReaches
    <3> QED BY <1>1, <3>2, <3>3
  <2>3. CASE ~MustUpdate(id, i)
    <3>1. UNCHANGED journalVars
      BY <1>7, <2>3 DEF JournalChange, UpdateIfChanged
    <3> QED BY <2>1, <3>1 DEF RingInv, ReplayReachesJournal, Subscribed, Complete, After
  <2> QED BY <2>2, <2>3
<1>8. ASSUME NEW s \in Subscribers, Subscribe(s)
      PROVE  RingInv' /\ ReplayReachesJournal'
  <2>1. /\ UNCHANGED <<hostVars, sequence, events, latest_processes>> /\ journaling = {}
        /\ latest_sessions' = Snapshot /\ cursor'[s] = sequence /\ view'[s] = Snapshot
        /\ s \in ProcessEvents => processes'[s] = latest_processes
    BY <1>8, SnapshotType DEF Subscribe, ClientType
  <2>2. \A d \in Subscribers \ {s} : /\ cursor'[d] = cursor[d] /\ view'[d] = view[d] /\ pc'[d] = pc[d]
                                     /\ processes'[d] = processes[d]
    BY <1>8 DEF Subscribe, ClientType
  <2>3. Present(Snapshot) = Present(latest_sessions)
    BY <2>1 DEF Present, Snapshot, MembersInv, Journaled, PendingInv, HostType
  <2>4. RingInv'
    BY <2>1, <2>2 DEF RingInv, JournalType
  <2>5. ASSUME NEW d \in Subscribers, Subscribed(d)', Complete(d)'
        PROVE  Reaches(d)'
    <3>1. CASE d = s
      BY <2>1, <3>1, FreshReaches
    <3>2. CASE d # s
      <4>1. Subscribed(d)
        BY <2>2, <2>5, <3>2 DEF Subscribed
      <4> QED BY <2>1, <2>2, <2>3, <2>5, <3>2, <4>1, SameReaches
    <3> QED BY <3>1, <3>2
  <2> QED BY <1>1, <2>4, <2>5
<1>9. ASSUME NEW s \in Subscribers, HangUp(s) \/ Poll(s) \/ FindGap(s)
      PROVE  RingInv' /\ ReplayReachesJournal'
  <2>1. UNCHANGED <<journalVars, cursor, view, processes>>
    BY <1>9 DEF HangUp, Poll, FindGap
  <2>2. ASSUME NEW d \in Subscribers, Subscribed(d)' PROVE Subscribed(d)
    BY <1>9, <2>2 DEF HangUp, Poll, FindGap, Subscribed, ClientType
  <2> QED BY <2>1, <2>2, <1>1, SameReaches DEF RingInv
\* It is sent all there is, as events or as a snapshot.
<1>10. ASSUME NEW s \in Subscribers, UNCHANGED journalVars, pc[s] \in {"journal", "gap"},
              cursor'[s] = sequence, Present(view'[s]) = Present(latest_sessions),
              s \in ProcessEvents => processes'[s] = latest_processes,
              \A d \in Subscribers \ {s} : /\ cursor'[d] = cursor[d] /\ view'[d] = view[d]
                                           /\ processes'[d] = processes[d] /\ pc'[d] = pc[d]
       PROVE  RingInv' /\ ReplayReachesJournal'
  <2>1. RingInv'
    BY <1>10 DEF RingInv, JournalType
  <2>2. ASSUME NEW d \in Subscribers, Subscribed(d)', Complete(d)'
        PROVE  Reaches(d)'
    <3>1. CASE d = s
      BY <1>10, <3>1, FreshReaches
    <3>2. CASE d # s
      <4>1. Subscribed(d)
        BY <1>10, <2>2, <3>2 DEF Subscribed
      <4> QED BY <1>10, <2>2, <3>2, <4>1, SameReaches
    <3> QED BY <3>1, <3>2
  <2> QED BY <1>1, <2>1, <2>2
<1>11. ASSUME NEW s \in Subscribers, Deliver(s)
       PROVE  RingInv' /\ ReplayReachesJournal'
  <2>1. Reaches(s)
    <3>1. Complete(s) /\ Subscribed(s)
      BY <1>11, NoGapComplete DEF Deliver, Subscribed
    <3> QED BY <1>2, <3>1
  <2>2. /\ view' = [view EXCEPT ![s] = Applied(view[s], After(s))]
        /\ processes' = [processes EXCEPT ![s] =
             IF s \in ProcessEvents THEN AppliedProcesses(processes[s], After(s)) ELSE processes[s]]
        /\ pc' = [pc EXCEPT ![s] = "sleep"] /\ pc[s] = "journal" /\ UNCHANGED journalVars
    BY <1>11 DEF Deliver
  <2>3. /\ view'[s] = Applied(view[s], After(s))
        /\ s \in ProcessEvents => processes'[s] = AppliedProcesses(processes[s], After(s))
        /\ \A d \in Subscribers \ {s} : view'[d] = view[d] /\ processes'[d] = processes[d] /\ pc'[d] = pc[d]
    BY <2>2 DEF ClientType
  <2>4. Present(view'[s]) = Present(latest_sessions) /\ (s \in ProcessEvents => processes'[s] = latest_processes)
    BY <2>1, <2>3 DEF Reaches
  <2>5. cursor'[s] = sequence /\ \A d \in Subscribers \ {s} : cursor'[d] = cursor[d]
    BY <1>11, DeliverAll
  <2> QED BY <1>10, <2>2, <2>3, <2>4, <2>5
<1>12. ASSUME NEW s \in Subscribers, SendGap(s)
       PROVE  RingInv' /\ ReplayReachesJournal'
  <2>1. /\ pc[s] = "gap" /\ UNCHANGED journalVars /\ cursor'[s] = sequence /\ view'[s] = latest_sessions
        /\ s \in ProcessEvents => processes'[s] = latest_processes
        /\ \A d \in Subscribers \ {s} : /\ cursor'[d] = cursor[d] /\ view'[d] = view[d]
                                        /\ processes'[d] = processes[d] /\ pc'[d] = pc[d]
    BY <1>12 DEF SendGap, ClientType
  <2> QED BY <1>10, <2>1
<1>13. ASSUME NEW id \in Ids, Register(id) \/ Unregister(id) \/ TerminalChanges(id)
       PROVE  RingInv' /\ ReplayReachesJournal'
  BY <1>3, <1>13 DEF Register, Unregister, TerminalChanges
<1>14. CASE UNCHANGED vars
  BY <1>3, <1>14 DEF vars
<1> QED BY <1>5, <1>6, <1>7, <1>8, <1>9, <1>11, <1>12, <1>13, <1>14 DEF Next, SubscriberStep

-----------------------------------------------------------------------------
(* The theorems *)

\* The invariant is inductive.
THEOREM JournalInvHolds == Spec => []IInv
<1>1. IInv /\ [Next]_vars => IInv'
  BY TypeStep, PendingStep, MembersStep, GoneStep DEF IInv
<1> QED BY InitInv, <1>1, PTL DEF Spec

\* Every variable of the journal, the registry and the subscribers keeps its
\* type, and the journal never holds more than its capacity (EventJournal::publish).
THEOREM JournalTypeCorrect == Spec => []TypeOK
<1>1. IInv => TypeOK
  BY DEF IInv
<1> QED BY JournalInvHolds, <1>1, PTL

\* Whenever the journal is free, it has exactly the registered sessions, for
\* any subscribers, late updates and samples (register_headless, unregister,
\* update_if_changed, process_changed and seed).
THEOREM JournalIsTheRegistry == Spec => []JournalMatchesRegistry
<1>1. IInv => JournalMatchesRegistry
  BY DEF IInv, MembersInv, Journaled, JournalMatchesRegistry
<1> QED BY JournalInvHolds, <1>1, PTL

\* Nothing is journaled about a session after its end (removed, and the guards
\* of update_if_changed and process_changed).
THEOREM EndIsTheLastEvent == Spec => []RemovedIsLast
<1>1. IInv => RemovedIsLast
  BY DEF IInv, GoneInv, RemovedIsLast
<1> QED BY JournalInvHolds, <1>1, PTL

\* A subscriber that lost no event comes to the journal's sessions and process
\* states by applying those it has yet to be sent (subscribe_events, batch_after
\* and the snapshot of a gap): none is skipped and none is applied twice.
THEOREM ReplayIsExact == Spec => []ReplayReachesJournal
<1>1. Init => RingInv /\ ReplayReachesJournal
  BY DEF Init, RingInv, ReplayReachesJournal, Subscribed
<1>2. IInv /\ [Next]_vars => IInv'
  BY TypeStep, PendingStep, MembersStep, GoneStep DEF IInv
<1> QED BY InitInv, ReplayStep, <1>1, <1>2, PTL DEF Spec
=============================================================================
