-------------------------- MODULE CwdObserverProofs --------------------------
(***************************************************************************)
(* Proofs about CwdObserver, for any sessions, terminals and bounds.       *)
(***************************************************************************)
EXTENDS CwdObserver, SequenceTheorems, TLAPS

\* Who is registered has a worker, and it has something to publish only while
\* it publishes; who is not held was told nothing.
WorkerInv ==
  /\ running <=> pc # "off"
  /\ registered # {} => running
  /\ pc # "publishing" => updates = {}
  /\ \A c \in Consumers \ held : cached[c] = Nothing /\ applied[c] = 0 /\ told[c] = 0
  /\ \A c \in asked : Shows[c] \in born

\* Nobody is ahead of the observer, and who has an update to come is behind.
RevisionInv ==
  /\ \A s \in Sessions : known[s].alive => revision > 0
  /\ \A c \in Consumers : applied[c] <= revision /\ cached[c].revision <= revision
  /\ \A c \in updates : applied[c] < revision /\ cached[c].revision < revision

\* Who has no update to come has the newest directory, or finds it in the cache.
ToldInv ==
  \A c \in registered :
    known[Shows[c]].alive /\ c \notin updates =>
      IF applied[c] < cached[c].revision THEN cached[c].cwd = known[Shows[c]].cwd
                                         ELSE told[c] = known[Shows[c]].cwd

IInv == TypeOK /\ WorkerInv /\ RevisionInv /\ ToldInv

USE ShowsAssumption, BoundsAssumption

LEMMA Constants == /\ Absent \in Infos /\ ~Absent.alive /\ Nobody \in [Sessions -> Infos]
                   /\ \A s \in Sessions : Nobody[s] = Absent
                   /\ Nothing \in [revision : Nat, cwd : Nat] /\ Nothing.revision = 0
BY DEF Absent, Info, Infos, Nobody, Nothing

LEMMA InitIInv == Init => IInv
<1> SUFFICES ASSUME Init PROVE IInv
  OBVIOUS
<1>1. TypeOK
  <2>1. <<>> \in Seq(SUBSET Messages)
    BY EmptySeq
  <2>2. \A c \in Consumers : cached[c] = Nothing
    BY DEF Init
  <2>3. cached \in [Consumers -> [revision : Nat, cwd : Nat]]
    BY Constants DEF Init
  <2>4. drops \in Nat /\ drops <= MaxDrops /\ {session, last, known} \subseteq [Sessions -> Infos]
    BY Constants DEF Init
  <2>5. batches \in Seq(SUBSET Messages)
    BY <2>1 DEF Init
  <2>6. applied \in [Consumers -> Nat] /\ told \in [Consumers -> Nat]
    BY DEF Init
  <2> QED BY <2>3, <2>4, <2>5, <2>6 DEF Init, TypeOK
<1>2. WorkerInv
  BY DEF Init, WorkerInv
<1>3. RevisionInv
  BY Constants DEF Init, RevisionInv
<1>4. ToldInv
  BY DEF Init, ToldInv
<1> QED BY <1>1, <1>2, <1>3, <1>4 DEF IInv

-----------------------------------------------------------------------------
(* Types *)

LEMMA TypeStep == TypeOK /\ [Next]_vars => TypeOK'
<1> SUFFICES ASSUME TypeOK, [Next]_vars PROVE TypeOK'
  OBVIOUS
<1> USE DEF TypeOK, hostVars, connVars, stateVars, workerVars, consumerVars
<1>1. CASE UNCHANGED vars
  BY <1>1 DEF vars
<1>2. ASSUME NEW s \in Sessions, Starts(s) \/ Moves(s) \/ Exits(s) \/ Leaves(s) PROVE TypeOK'
  <2>1. PICK i \in Infos : Becomes(s, i) /\ (born' = born \/ born' = born \cup {s})
    <3>1. session[s].cwd \in Nat /\ Info(TRUE, 1) \in Infos
      BY DEF Infos, Info
    <3>2. Info(TRUE, session[s].cwd + 1) \in Infos /\ Info(FALSE, session[s].cwd) \in Infos
      BY <3>1 DEF Infos, Info
    <3> QED BY <1>2, <3>1, <3>2, Constants DEF Starts, Moves, Exits, Leaves
  <2>2. session' \in [Sessions -> Infos]
    BY <2>1 DEF Becomes
  <2> QED BY <2>1, <2>2 DEF Becomes
<1>3. CASE HostEnds
  BY <1>3, Constants DEF HostEnds
<1>4. CASE AnotherStarts
  BY <1>4 DEF AnotherStarts
<1>5. CASE Poll
  <2>1. ASSUME NEW m \in Differences PROVE m \in Messages
    <3>1. PICK s \in Sessions : m = Sent(s, session[s])
      BY DEF Differences
    <3>2. session[s] \in Infos
      OBVIOUS
    <3> QED BY <3>1, <3>2 DEF Sent, Messages
  <2>2. batches' \in Seq(SUBSET Messages)
    BY <1>5, <2>1, AppendProperties DEF Poll
  <2> QED BY <1>5, <2>2 DEF Poll
<1>6. ASSUME NEW c \in Consumers, Observe(c) PROVE TypeOK'
  <2>1. PICK fresh \in BOOLEAN :
          /\ known' = (IF fresh THEN Nobody ELSE known)
          /\ revision' = (IF fresh THEN 0 ELSE revision)
          /\ \/ /\ held' = held \cup {c} /\ registered' = registered \cup {c}
                /\ cached' = [cached EXCEPT ![c] = Cached(known'[Shows[c]], revision')]
                /\ running' = TRUE
                /\ pc' = IF running THEN pc ELSE "check"
             \/ UNCHANGED <<held, registered, cached, running, pc>>
    BY <1>6 DEF Observe
  <2>2. known' \in [Sessions -> Infos] /\ revision' \in Nat
    BY <2>1, Constants
  <2>3. Cached(known'[Shows[c]], revision') \in [revision : Nat, cwd : Nat]
    BY <2>2, Constants DEF Cached, Infos
  <2>4. cached' \in [Consumers -> [revision : Nat, cwd : Nat]]
    BY <2>1, <2>3
  <2> QED BY <1>6, <2>1, <2>2, <2>4 DEF Observe
<1>7. ASSUME NEW c \in Consumers, PublishCached(c) PROVE TypeOK'
  BY <1>7, Constants DEF PublishCached, Publish
<1>8. ASSUME NEW c \in Consumers, Release(c) PROVE TypeOK'
  BY <1>8 DEF Release
<1>9. CASE Check
  BY <1>9 DEF Check, Goes
<1>10. CASE Stop
  BY <1>10 DEF Stop, Goes
<1>11. CASE Connect
  <2>1. drops' \in Nat /\ drops' <= MaxDrops
    BY <1>11 DEF Connect, MayFail
  <2> QED BY <1>11, <2>1, Constants DEF Connect, Goes
<1>12. CASE Subscribe
  <2>1. {All(session)} \in SUBSET Messages
    BY Constants DEF All, Messages
  <2>2. <<{All(session)}>> \in Seq(SUBSET Messages) /\ <<>> \in Seq(SUBSET Messages)
    BY <2>1, EmptySeq
  <2>3. CASE ~attached \/ registered = {}
    BY <1>12, <2>2, <2>3, Constants DEF Subscribe, Hangs, Goes
  <2>4. CASE ~(~attached \/ registered = {})
    BY <1>12, <2>2, <2>4 DEF Subscribe, Goes
  <2> QED BY <2>3, <2>4
<1>13. CASE Read
  <2>1. PICK m \in Head(batches) :
          /\ batches' = IF Head(batches) = {m} THEN Tail(batches)
                        ELSE <<Head(batches) \ {m}>> \o Tail(batches)
          /\ known' = After(m)
          /\ registered' = IF Removal(m) THEN {c \in registered : Shows[c] # m.id} ELSE registered
    BY <1>13 DEF Read
  <2>2. Head(batches) \in SUBSET Messages /\ Tail(batches) \in Seq(SUBSET Messages)
    BY <1>13, HeadTailProperties DEF Read
  <2>3. <<Head(batches) \ {m}>> \in Seq(SUBSET Messages)
    BY <2>2
  <2>4. batches' \in Seq(SUBSET Messages)
    BY <2>1, <2>2, <2>3, ConcatProperties
  <2>5. known' \in [Sessions -> Infos]
    BY <2>1, <2>2 DEF After, Messages
  <2> QED BY <1>13, <2>1, <2>4, <2>5 DEF Read
<1>14. CASE NobodyLeft
  BY <1>14, EmptySeq, Constants DEF NobodyLeft, Hangs, Goes
<1>15. CASE Drop
  <2>1. drops' \in Nat /\ drops' <= MaxDrops
    BY <1>15 DEF Drop, MayFail
  <2> QED BY <1>15, <2>1, EmptySeq, Constants DEF Drop
<1>16. ASSUME NEW c \in Consumers, Ask(c) PROVE TypeOK'
  BY <1>16 DEF Ask
<1>17. ASSUME NEW c \in Consumers, PublishUpdate(c) PROVE TypeOK'
  BY <1>17 DEF PublishUpdate, Publish, Infos
<1> QED
  BY <1>1, <1>2, <1>3, <1>4, <1>5, <1>6, <1>7, <1>8, <1>9, <1>10, <1>11, <1>12, <1>13, <1>14, <1>15, <1>16, <1>17
     DEF Next, WorkerStep

-----------------------------------------------------------------------------
(* The inductive step *)

\* The hosts' own steps and those that only move the worker disturb nothing.
LEMMA Undisturbed ==
  ASSUME IInv, UNCHANGED <<stateVars, updates, consumerVars>>, born \subseteq born',
         pc = "off" <=> pc' = "off", pc = "publishing" <=> pc' = "publishing"
  PROVE  WorkerInv' /\ RevisionInv' /\ ToldInv'
<1> USE DEF IInv, stateVars, consumerVars
<1>1. WorkerInv'
  BY DEF WorkerInv
<1>2. RevisionInv'
  BY DEF RevisionInv
<1>3. ToldInv'
  BY DEF ToldInv
<1> QED BY <1>1, <1>2, <1>3

\* A publication brings its terminal to the directory it carries, or finds it
\* ahead.
LEMMA PublishLemma ==
  ASSUME TypeOK, NEW c \in Consumers, NEW rev \in Nat, NEW cwd \in Nat, Publish(c, rev, cwd)
  PROVE  /\ \A d \in Consumers \ {c} : applied'[d] = applied[d] /\ told'[d] = told[d]
         /\ applied'[c] = IF c \in held /\ rev > applied[c] THEN rev ELSE applied[c]
         /\ told'[c] = IF c \in held /\ rev > applied[c] THEN cwd ELSE told[c]
BY DEF Publish, TypeOK

LEMMA ObserveStep ==
  ASSUME IInv, TypeOK', NEW c \in Consumers, Observe(c)
  PROVE  WorkerInv' /\ RevisionInv' /\ ToldInv'
<1> USE DEF TypeOK
<1>0. TypeOK /\ WorkerInv /\ RevisionInv /\ ToldInv
  BY DEF IInv
<1>1. c \notin asked /\ c \notin held /\ c \notin registered /\ c \notin updates /\ asked' = asked \cup {c}
      /\ Shows[c] \in born /\ born' = born /\ updates' = updates /\ applied' = applied /\ told' = told
  BY <1>0 DEF Observe, hostVars, workerVars
<1>2. applied[c] = 0 /\ cached[c] = Nothing /\ told[c] = 0
  BY <1>0, <1>1 DEF WorkerInv
<1>3. PICK fresh \in BOOLEAN :
        /\ fresh => ~running /\ held = {}
        /\ known' = (IF fresh THEN Nobody ELSE known)
        /\ revision' = (IF fresh THEN 0 ELSE revision)
        /\ \/ /\ held' = held \cup {c} /\ registered' = registered \cup {c}
              /\ cached' = [cached EXCEPT ![c] = Cached(known'[Shows[c]], revision')]
              /\ running' = TRUE
              /\ pc' = IF running THEN pc ELSE "check"
           \/ ~running /\ UNCHANGED <<held, registered, cached, running, pc>>
  BY DEF Observe
<1>4. fresh => registered = {} /\ updates = {} /\ \A d \in Consumers : applied[d] = 0 /\ cached[d] = Nothing
  BY <1>0, <1>3 DEF WorkerInv
<1>5. Shows[c] \in Sessions /\ (known'[Shows[c]].alive => ~fresh /\ revision > 0 /\ known' = known)
  BY <1>0, <1>3, Constants DEF RevisionInv
<1>6. /\ cached'[c] = Nothing \/ (cached'[c].revision = revision' /\ cached'[c].cwd = known'[Shows[c]].cwd)
      /\ known'[Shows[c]].alive /\ cached' # cached => cached'[c].revision = revision' /\ cached'[c].cwd = known'[Shows[c]].cwd
      /\ \A d \in Consumers \ {c} : cached'[d] = cached[d]
  BY <1>0, <1>2, <1>3 DEF Cached
<1>7. WorkerInv'
  <2>1. pc' # "publishing" => updates' = {}
    BY <1>0, <1>1, <1>3 DEF WorkerInv
  <2>2. (running' <=> pc' # "off") /\ (registered' # {} => running')
    BY <1>0, <1>3 DEF WorkerInv
  <2>3. \A d \in Consumers \ held' : cached'[d] = Nothing /\ applied'[d] = 0 /\ told'[d] = 0
    BY <1>0, <1>1, <1>3, <1>6 DEF WorkerInv
  <2>4. \A d \in asked' : Shows[d] \in born'
    BY <1>0, <1>1 DEF WorkerInv
  <2> QED BY <2>1, <2>2, <2>3, <2>4 DEF WorkerInv
<1>8. RevisionInv'
  <2>1. \A s \in Sessions : known'[s].alive => revision' > 0
    BY <1>0, <1>3, Constants DEF RevisionInv
  <2>2. revision' \in Nat /\ cached'[c].revision <= revision' /\ applied'[c] <= revision'
    BY <1>1, <1>2, <1>6, Constants
  <2>3. ASSUME NEW d \in Consumers, d # c PROVE applied'[d] <= revision' /\ cached'[d].revision <= revision'
    BY <1>0, <1>1, <1>3, <1>4, <1>6, <2>3, Constants DEF RevisionInv
  <2>4. ASSUME NEW d \in updates PROVE applied'[d] < revision' /\ cached'[d].revision < revision'
    <3>1. d # c /\ d \in Consumers /\ ~fresh
      BY <1>1, <1>0, <1>4
    <3> QED BY <1>0, <1>1, <1>3, <1>6, <3>1 DEF RevisionInv
  <2> QED BY <1>1, <2>1, <2>2, <2>3, <2>4 DEF RevisionInv
<1>9. ToldInv'
  <2> SUFFICES ASSUME NEW d \in registered', known'[Shows[d]].alive, d \notin updates'
               PROVE  IF applied'[d] < cached'[d].revision THEN cached'[d].cwd = known'[Shows[d]].cwd
                                                           ELSE told'[d] = known'[Shows[d]].cwd
    BY DEF ToldInv
  <2>1. CASE d = c
    <3>1. ~fresh /\ revision > 0 /\ revision' = revision /\ applied'[c] = 0
      BY <1>1, <1>2, <1>3, <1>5, <2>1
    <3>2. cached' = [cached EXCEPT ![c] = Cached(known'[Shows[c]], revision')]
      BY <1>1, <1>3, <2>1
    <3>3. cached'[c].revision = revision' /\ cached'[c].cwd = known'[Shows[c]].cwd
      BY <1>0, <2>1, <3>2 DEF Cached
    <3> QED BY <2>1, <3>1, <3>3
  <2>2. CASE d # c
    <3>1. d \in registered /\ d \in Consumers /\ ~fresh
      BY <1>0, <1>3, <1>4, <2>2
    <3> QED BY <1>0, <1>1, <1>3, <1>6, <2>2, <3>1 DEF ToldInv
  <2> QED BY <2>1, <2>2
<1> QED BY <1>7, <1>8, <1>9

LEMMA PublishCachedStep ==
  ASSUME IInv, NEW c \in Consumers, PublishCached(c)
  PROVE  WorkerInv' /\ RevisionInv' /\ ToldInv'
<1> USE DEF TypeOK
<1>0. TypeOK /\ WorkerInv /\ RevisionInv /\ ToldInv
  BY DEF IInv
<1>1. UNCHANGED <<born, stateVars, workerVars, held, asked>>
      /\ cached' = [cached EXCEPT ![c] = Nothing] /\ cached[c] # Nothing
  BY DEF PublishCached, hostVars
<1>2. c \in held
  BY <1>0, <1>1 DEF WorkerInv
<1>3. /\ \A d \in Consumers \ {c} : applied'[d] = applied[d] /\ told'[d] = told[d] /\ cached'[d] = cached[d]
      /\ applied'[c] = IF cached[c].revision > applied[c] THEN cached[c].revision ELSE applied[c]
      /\ told'[c] = IF cached[c].revision > applied[c] THEN cached[c].cwd ELSE told[c]
      /\ cached'[c] = Nothing /\ cached'[c].revision = 0
  BY <1>0, <1>1, <1>2, PublishLemma, Constants DEF PublishCached
<1>4. WorkerInv'
  BY <1>0, <1>1, <1>2, <1>3 DEF WorkerInv, stateVars, workerVars
<1>5. RevisionInv'
  BY <1>0, <1>1, <1>3 DEF RevisionInv, stateVars, workerVars
<1>6. ToldInv'
  <2> SUFFICES ASSUME NEW d \in registered, known[Shows[d]].alive, d \notin updates
               PROVE  IF applied'[d] < cached'[d].revision THEN cached'[d].cwd = known[Shows[d]].cwd
                                                           ELSE told'[d] = known[Shows[d]].cwd
    BY <1>1 DEF ToldInv, stateVars, workerVars
  <2>1. CASE d = c
    BY <1>0, <1>3, <2>1 DEF ToldInv
  <2>2. CASE d # c
    BY <1>0, <1>3, <2>2 DEF ToldInv
  <2> QED BY <2>1, <2>2
<1> QED BY <1>4, <1>5, <1>6

LEMMA ReleaseStep ==
  ASSUME IInv, NEW c \in Consumers, Release(c)
  PROVE  WorkerInv' /\ RevisionInv' /\ ToldInv'
<1> USE DEF TypeOK, Release, hostVars, connVars, workerVars
<1>0. TypeOK /\ WorkerInv /\ RevisionInv /\ ToldInv
  BY DEF IInv
<1>1. WorkerInv'
  BY <1>0 DEF WorkerInv
<1>2. RevisionInv'
  BY <1>0 DEF RevisionInv
<1>3. ToldInv'
  BY <1>0 DEF ToldInv
<1> QED BY <1>1, <1>2, <1>3

LEMMA ConnectStep ==
  ASSUME IInv, Connect
  PROVE  WorkerInv' /\ RevisionInv' /\ ToldInv'
<1> USE DEF TypeOK
<1>0. TypeOK /\ WorkerInv /\ RevisionInv /\ ToldInv
  BY DEF IInv
<1>1. UNCHANGED <<born, consumerVars, updates, revision>> /\ updates = {}
  BY <1>0 DEF Connect, Goes, stateVars, WorkerInv
<1>2. CASE UNCHANGED stateVars
  <2>1. pc = "connect" /\ pc' \in {"asking", "check"}
    BY <1>0, <1>2 DEF Connect, Goes, WorkerInv, stateVars
  <2> QED BY <1>1, <1>2, <2>1, Undisturbed
<1>3. CASE registered' = {} /\ known' = Nobody /\ ~running' /\ pc' = "off"
  <2>1. WorkerInv'
    BY <1>0, <1>1, <1>3 DEF WorkerInv, consumerVars
  <2>2. RevisionInv'
    BY <1>0, <1>1, <1>3, Constants DEF RevisionInv, consumerVars
  <2>3. ToldInv'
    BY <1>3 DEF ToldInv
  <2> QED BY <2>1, <2>2, <2>3
<1> QED BY <1>2, <1>3 DEF Connect, Goes

LEMMA AskStep ==
  ASSUME IInv, NEW c \in Consumers, Ask(c)
  PROVE  WorkerInv' /\ RevisionInv' /\ ToldInv'
<1> USE DEF TypeOK, Ask, hostVars, connVars, consumerVars
<1>0. TypeOK /\ WorkerInv /\ RevisionInv /\ ToldInv
  BY DEF IInv
<1>1. WorkerInv'
  BY <1>0 DEF WorkerInv
<1>2. RevisionInv'
  BY <1>0 DEF RevisionInv
<1>3. ToldInv'
  BY <1>0 DEF ToldInv
<1> QED BY <1>1, <1>2, <1>3

LEMMA ReadStep ==
  ASSUME IInv, TypeOK', Read
  PROVE  WorkerInv' /\ RevisionInv' /\ ToldInv'
<1> USE DEF TypeOK
<1>0. TypeOK /\ WorkerInv /\ RevisionInv /\ ToldInv
  BY DEF IInv
<1>1. PICK m \in Head(batches) :
        /\ known' = After(m)
        /\ registered' = IF Removal(m) THEN {c \in registered : Shows[c] # m.id} ELSE registered
        /\ updates' = {c \in registered : ToPublish(m, Shows[c])}
  BY DEF Read
<1>2. m \in Messages
  BY <1>0, <1>1, HeadTailProperties DEF Read
<1>3. /\ UNCHANGED <<running, born, held, asked, cached, applied, told>>
      /\ pc = "reading" /\ registered # {} /\ revision' = revision + 1
      /\ pc' = IF updates' = {} THEN "reading" ELSE "publishing"
  BY DEF Read, hostVars, consumerVars
<1>4. WorkerInv'
  BY <1>0, <1>1, <1>3 DEF WorkerInv
<1>5. RevisionInv'
  <2>1. \A c \in updates' : c \in Consumers
    BY <1>0, <1>1
  <2>2. revision' > 0
    BY <1>0, <1>3
  <2>3. ASSUME NEW c \in Consumers
        PROVE  /\ applied'[c] < revision' /\ cached'[c].revision < revision'
               /\ applied'[c] <= revision' /\ cached'[c].revision <= revision'
    <3>1. applied[c] \in Nat /\ cached[c].revision \in Nat /\ revision \in Nat
      BY <1>0
    <3>2. applied[c] <= revision /\ cached[c].revision <= revision
      BY <1>0 DEF RevisionInv
    <3> QED BY <1>3, <3>1, <3>2
  <2> QED BY <2>1, <2>2, <2>3 DEF RevisionInv
<1>6. ToldInv'
  <2> SUFFICES ASSUME NEW c \in registered', known'[Shows[c]].alive, c \notin updates'
               PROVE  IF applied[c] < cached[c].revision THEN cached[c].cwd = known'[Shows[c]].cwd
                                                         ELSE told[c] = known'[Shows[c]].cwd
    BY <1>3 DEF ToldInv
  <2>1. c \in registered /\ Shows[c] \in Sessions /\ c \notin updates
    BY <1>0, <1>1, <1>3 DEF WorkerInv
  <2>2. ~ToPublish(m, Shows[c])
    BY <1>1, <2>1
  <2>3. ~m.all /\ m.id # Shows[c]
    BY <1>1, <2>2 DEF ToPublish
  <2>4. known'[Shows[c]] = known[Shows[c]]
    BY <1>0, <1>1, <2>1, <2>3 DEF After
  <2> QED BY <1>0, <2>1, <2>4 DEF ToldInv
<1> QED BY <1>4, <1>5, <1>6

LEMMA PublishUpdateStep ==
  ASSUME IInv, NEW c \in Consumers, PublishUpdate(c)
  PROVE  WorkerInv' /\ RevisionInv' /\ ToldInv'
<1> USE DEF TypeOK
<1>0. TypeOK /\ WorkerInv /\ RevisionInv /\ ToldInv
  BY DEF IInv
<1>1. /\ UNCHANGED <<born, stateVars, held, asked, cached>>
      /\ pc = "publishing" /\ c \in updates /\ updates' = updates \ {c}
      /\ pc' = IF updates' = {} THEN "reading" ELSE pc
  BY DEF PublishUpdate, hostVars
<1>2. revision \in Nat /\ known[Shows[c]].cwd \in Nat /\ applied[c] < revision
  BY <1>0, <1>1 DEF RevisionInv, Infos
<1>3. /\ \A d \in Consumers \ {c} : applied'[d] = applied[d] /\ told'[d] = told[d]
      /\ applied'[c] = IF c \in held THEN revision ELSE applied[c]
      /\ told'[c] = IF c \in held THEN known[Shows[c]].cwd ELSE told[c]
  BY <1>0, <1>2, PublishLemma DEF PublishUpdate
<1>4. WorkerInv'
  BY <1>0, <1>1, <1>3 DEF WorkerInv, stateVars
<1>5. RevisionInv'
  <2>1. UNCHANGED <<known, revision, cached>> /\ \A d \in updates' : d \in updates /\ d # c
    BY <1>1 DEF stateVars
  <2>2. ASSUME NEW d \in Consumers PROVE applied'[d] <= revision
    <3>1. applied[d] \in Nat /\ applied[d] <= revision
      BY <1>0 DEF RevisionInv
    <3>2. applied'[d] = applied[d] \/ applied'[d] = revision
      BY <1>3
    <3> QED BY <1>2, <3>1, <3>2
  <2>3. \A d \in updates' : applied'[d] < revision
    BY <1>0, <1>3, <2>1 DEF RevisionInv
  <2> QED BY <1>0, <2>1, <2>2, <2>3 DEF RevisionInv
<1>6. ToldInv'
  <2> SUFFICES ASSUME NEW d \in registered, known[Shows[d]].alive, d \notin updates'
               PROVE  IF applied'[d] < cached[d].revision THEN cached[d].cwd = known[Shows[d]].cwd
                                                          ELSE told'[d] = known[Shows[d]].cwd
    BY <1>1 DEF ToldInv, stateVars
  <2>1. CASE d = c
    BY <1>0, <1>3, <2>1 DEF RevisionInv
  <2>2. CASE d # c
    BY <1>0, <1>1, <1>3, <2>2 DEF ToldInv
  <2> QED BY <2>1, <2>2
<1> QED BY <1>4, <1>5, <1>6

LEMMA StopStep ==
  ASSUME IInv, Stop
  PROVE  WorkerInv' /\ RevisionInv' /\ ToldInv'
<1> USE DEF TypeOK, Stop, Goes, hostVars, connVars, consumerVars
<1>0. TypeOK /\ WorkerInv /\ RevisionInv /\ ToldInv
  BY DEF IInv
<1>1. WorkerInv'
  BY <1>0 DEF WorkerInv
<1>2. RevisionInv'
  BY <1>0 DEF RevisionInv
<1>3. ToldInv'
  BY <1>0 DEF ToldInv
<1> QED BY <1>1, <1>2, <1>3

LEMMA Step == IInv /\ [Next]_vars => IInv'
<1> SUFFICES ASSUME IInv, [Next]_vars PROVE IInv'
  OBVIOUS
<1>0. TypeOK /\ TypeOK'
  BY TypeStep DEF IInv
<1> SUFFICES WorkerInv' /\ RevisionInv' /\ ToldInv'
  BY <1>0 DEF IInv
<1> USE DEF hostVars, connVars, workerVars
<1>1. CASE UNCHANGED vars
  BY <1>1, Undisturbed DEF vars
<1>2. ASSUME NEW s \in Sessions, Starts(s) \/ Moves(s) \/ Exits(s) \/ Leaves(s)
      PROVE  WorkerInv' /\ RevisionInv' /\ ToldInv'
  BY <1>2, Undisturbed DEF Starts, Moves, Exits, Leaves, Becomes
<1>3. CASE HostEnds
  BY <1>3, Undisturbed DEF HostEnds
<1>4. CASE AnotherStarts
  BY <1>4, Undisturbed DEF AnotherStarts
<1>5. CASE Poll
  BY <1>5, Undisturbed DEF Poll
<1>6. CASE Check
  BY <1>6, Undisturbed DEF Check, Goes
<1>7. CASE Subscribe
  BY <1>7, Undisturbed DEF Subscribe, Hangs, Goes
<1>8. CASE NobodyLeft
  BY <1>8, Undisturbed DEF NobodyLeft, Hangs, Goes
<1>9. CASE Drop
  BY <1>9, Undisturbed DEF Drop
<1> QED
  BY <1>0, <1>1, <1>2, <1>3, <1>4, <1>5, <1>6, <1>7, <1>8, <1>9, ObserveStep, PublishCachedStep, ReleaseStep,
     ConnectStep, AskStep, ReadStep, PublishUpdateStep, StopStep DEF Next, WorkerStep

-----------------------------------------------------------------------------
(* Theorems *)

LEMMA Invariance == Spec => []IInv
BY InitIInv, Step, PTL DEF Spec

\* Every variable of the observer, its worker and the host's sessions keeps its
\* type; whoever is registered is held.
THEOREM ObserverTypeCorrect == Spec => []TypeOK
<1>1. IInv => TypeOK
  BY DEF IInv
<1> QED BY <1>1, Invariance, PTL

\* For any terminals, hosts and failures: no terminal is registered with an
\* observer whose worker has stopped.
THEOREM WorkerOutlivesConsumers == Spec => []FollowedByWorker
<1>1. IInv => FollowedByWorker
  BY DEF IInv, WorkerInv, FollowedByWorker
<1> QED BY <1>1, Invariance, PTL

\* For any terminals and sessions: whatever the observer knows was told to the
\* terminal, or is about to be.
THEOREM KnownIsTold == Spec => []ToldWhatIsKnown
<1>1. IInv => ToldWhatIsKnown
  <2> SUFFICES ASSUME IInv, NEW c \in registered, known[Shows[c]].alive, c \notin updates, cached[c] = Nothing
               PROVE  told[c] = known[Shows[c]].cwd
    BY DEF ToldWhatIsKnown
  <2>1. c \in Consumers /\ applied[c] \in Nat /\ cached[c].revision = 0
    BY Constants DEF IInv, TypeOK
  <2> QED BY <2>1 DEF IInv, ToldInv
<1> QED BY <1>1, Invariance, PTL

-----------------------------------------------------------------------------
(* No terminal goes back: directories come in the order they were entered in *)

\* The shell, when it is seen, has come at least as far as cwd.
AtLeast(info, cwd) == info.alive => cwd <= info.cwd
Before(earlier, later) == earlier.alive => AtLeast(later, earlier.cwd)

\* What a message says of s.
InfoOf(m, s) == IF m.all THEN m.id[s] ELSE IF m.id = s THEN m.info ELSE Absent

\* What is known of a session, what is on its way and what the session is now
\* come in this order, whatever connections were lost between; and nothing is
\* known of a session that never started.
OrderInv ==
  \A s \in Sessions :
    /\ Before(known[s], session[s])
    /\ \A i \in DOMAIN batches : \A m \in batches[i] :
         /\ Before(known[s], InfoOf(m, s)) /\ Before(InfoOf(m, s), session[s])
         /\ \A j \in DOMAIN batches : \A n \in batches[j] :
              i <= j => Before(InfoOf(m, s), InfoOf(n, s))
         /\ s \notin born => ~InfoOf(m, s).alive
    /\ s \notin born => ~session[s].alive /\ ~known[s].alive

\* What a terminal was told, or will be told from the cache, comes before all of
\* these; the cache is for a terminal that was told nothing.
BehindInv ==
  \A c \in Consumers :
    /\ \A cwd \in {told[c], cached[c].cwd} :
         /\ AtLeast(known[Shows[c]], cwd) /\ AtLeast(session[Shows[c]], cwd)
         /\ \A i \in DOMAIN batches : \A m \in batches[i] : AtLeast(InfoOf(m, Shows[c]), cwd)
    /\ applied[c] < cached[c].revision => told[c] = 0
    /\ c \in updates => known[Shows[c]].alive

LEMMA InfoOfType ==
  ASSUME NEW m \in Messages, NEW s \in Sessions
  PROVE  InfoOf(m, s) \in Infos
BY Constants DEF InfoOf, Messages

\* Steps of the observer that read no message: the worker may have lost its
\* connection, and what it knew, with it.
LEMMA OrderKept ==
  ASSUME OrderInv, UNCHANGED <<session, born>>, batches' = batches \/ batches' = <<>>,
         known' = known \/ known' = Nobody
  PROVE  OrderInv'
<1>1. \A s \in Sessions : known'[s] = known[s] \/ ~known'[s].alive
  BY Constants
<1>2. CASE batches' = batches
  BY <1>1, <1>2 DEF OrderInv, Before
<1>3. CASE batches' = <<>>
  BY <1>1, <1>3 DEF OrderInv, Before
<1> QED BY <1>2, <1>3

\* The same for BehindInv, when no terminal is told anything.
LEMMA BehindKept ==
  ASSUME TypeOK, BehindInv, UNCHANGED session, batches' = batches \/ batches' = <<>>,
         known' = known \/ known' = Nobody, updates' \subseteq updates, known' = known \/ updates' = {},
         UNCHANGED <<cached, applied, told>>
  PROVE  BehindInv'
<1>1. \A s \in Sessions : known'[s] = known[s] \/ ~known'[s].alive
  BY Constants
<1>2. \A c \in Consumers : Shows[c] \in Sessions
  OBVIOUS
<1>3. CASE batches' = batches
  BY <1>1, <1>2, <1>3 DEF BehindInv, AtLeast
<1>4. CASE batches' = <<>>
  BY <1>1, <1>2, <1>4 DEF BehindInv, AtLeast
<1> QED BY <1>3, <1>4

\* A session starts once, with its first directory; it moves on, and when it
\* exits or is removed it says no more.
LEMMA SessionSteps ==
  ASSUME IInv, OrderInv, BehindInv, NEW s \in Sessions, Starts(s) \/ Moves(s) \/ Exits(s) \/ Leaves(s)
  PROVE  OrderInv' /\ BehindInv'
<1>0. TypeOK /\ WorkerInv
  BY DEF IInv
<1>1. /\ UNCHANGED <<known, batches, cached, applied, told, updates, asked>>
      /\ \A t \in Sessions \ {s} : session'[t] = session[t]
      /\ born \subseteq born'
  BY <1>0 DEF Starts, Moves, Exits, Leaves, Becomes, TypeOK, connVars, stateVars, workerVars, consumerVars
<1>2. session'[s] \in Infos /\ session[s] \in Infos /\ known[s] \in Infos
  BY <1>0, TypeStep DEF Next, TypeOK
<1>3. \/ ~session'[s].alive
      \/ session[s].alive /\ session'[s].cwd = session[s].cwd + 1 /\ s \in born
      \/ s \notin born
  BY <1>0, Constants DEF Starts, Moves, Exits, Leaves, Becomes, Info, TypeOK, OrderInv
<1>4. ASSUME NEW cwd \in Nat, session[s].alive => AtLeast(session[s], cwd), s \in born
      PROVE  AtLeast(session'[s], cwd)
  BY <1>2, <1>3, <1>4 DEF AtLeast, Infos
<1>5. session'[s].alive => s \in born'
  BY <1>0, <1>1, Constants DEF Starts, Moves, Exits, Leaves, Becomes, TypeOK, Info, OrderInv
<1>6. \A i \in DOMAIN batches : \A m \in batches[i] : m \in Messages
  BY <1>0, ElementOfSeq DEF TypeOK
<1>7. ASSUME NEW info \in Infos, Before(info, session[s]), s \notin born => ~info.alive
      PROVE  Before(info, session'[s])
  BY <1>4, <1>7 DEF Before, Infos
<1>8. OrderInv'
  <2> SUFFICES ASSUME NEW t \in Sessions
               PROVE  /\ Before(known[t], session'[t])
                      /\ \A i \in DOMAIN batches : \A m \in batches[i] :
                           /\ Before(InfoOf(m, t), session'[t])
                           /\ t \notin born' => ~InfoOf(m, t).alive
                      /\ t \notin born' => ~session'[t].alive /\ ~known[t].alive
    BY <1>1 DEF OrderInv
  <2>1. CASE t # s
    BY <1>1, <2>1 DEF OrderInv
  <2>2. CASE t = s
    <3>1. Before(known[s], session'[s])
      BY <1>2, <1>7 DEF OrderInv
    <3>2. ASSUME NEW i \in DOMAIN batches, NEW m \in batches[i]
          PROVE  Before(InfoOf(m, s), session'[s]) /\ (s \notin born' => ~InfoOf(m, s).alive)
      BY <1>1, <1>6, <1>7, InfoOfType DEF OrderInv
    <3> QED BY <1>1, <1>5, <2>2, <3>1, <3>2 DEF OrderInv
  <2> QED BY <2>1, <2>2
<1>9. BehindInv'
  <2> SUFFICES ASSUME NEW c \in Consumers, NEW cwd \in {told[c], cached[c].cwd}
               PROVE  AtLeast(session'[Shows[c]], cwd)
    BY <1>1 DEF BehindInv
  <2>1. cwd \in Nat /\ AtLeast(session[Shows[c]], cwd)
    BY <1>0 DEF TypeOK, BehindInv
  <2>2. Shows[c] \in Sessions
    OBVIOUS
  <2>3. CASE Shows[c] # s
    BY <1>1, <2>1, <2>2, <2>3
  <2>4. CASE Shows[c] = s /\ s \in born
    BY <1>4, <2>1, <2>4
  <2>5. CASE Shows[c] = s /\ s \notin born
    <3>1. cwd = 0
      BY <1>0, <2>5, Constants DEF WorkerInv, TypeOK, Nothing
    <3> QED BY <1>2, <2>5, <3>1 DEF AtLeast, Infos
  <2> QED BY <2>3, <2>4, <2>5
<1> QED BY <1>8, <1>9

\* A host that ends takes its sessions with it.
LEMMA HostEndsOrder ==
  ASSUME TypeOK, OrderInv, BehindInv, HostEnds
  PROVE  OrderInv' /\ BehindInv'
<1>1. /\ \A s \in Sessions : ~session'[s].alive
      /\ UNCHANGED <<born, known, batches, cached, applied, told, updates>>
  BY Constants DEF HostEnds, stateVars, workerVars, consumerVars
<1>2. OrderInv'
  BY <1>1 DEF OrderInv, Before, AtLeast
<1>3. \A c \in Consumers : Shows[c] \in Sessions
  OBVIOUS
<1>4. BehindInv'
  BY <1>1, <1>3 DEF BehindInv, AtLeast
<1> QED BY <1>2, <1>4

\* What one look at the registry finds comes after all that was sent before.
LEMMA PollOrder ==
  ASSUME TypeOK, OrderInv, BehindInv, Poll
  PROVE  OrderInv' /\ BehindInv'
<1>1. /\ batches' = Append(batches, Differences) /\ batches \in Seq(SUBSET Messages)
      /\ UNCHANGED <<session, born, known, cached, applied, told, updates>>
  BY DEF Poll, TypeOK, hostVars, stateVars, workerVars, consumerVars
<1>2. ASSUME NEW m \in Differences, NEW s \in Sessions
      PROVE  InfoOf(m, s) = session[s] \/ InfoOf(m, s) = Absent
  BY <1>2 DEF Differences, Sent, InfoOf
<1>3. /\ Len(batches) \in Nat /\ DOMAIN batches = 1..Len(batches)
      /\ DOMAIN batches' = 1..(Len(batches) + 1)
      /\ batches'[Len(batches) + 1] = Differences
      /\ \A i \in DOMAIN batches : batches'[i] = batches[i]
  <2>1. ASSUME NEW m \in Differences PROVE m \in Messages
    <3>1. PICK s \in Sessions : m = Sent(s, session[s]) /\ session[s] \in Infos
      BY DEF Differences, TypeOK
    <3> QED BY <3>1 DEF Sent, Messages
  <2> QED BY <1>1, <2>1, AppendProperties, LenProperties
<1>4. ASSUME NEW i \in DOMAIN batches', NEW m \in batches'[i], NEW s \in Sessions
      PROVE  \/ i \in DOMAIN batches /\ m \in batches[i]
             \/ i = Len(batches) + 1 /\ (InfoOf(m, s) = session[s] \/ InfoOf(m, s) = Absent)
  <2>1. i \in DOMAIN batches \/ i = Len(batches) + 1
    BY <1>3
  <2> QED BY <1>2, <1>3, <2>1
<1>5. OrderInv'
  <2> SUFFICES ASSUME NEW s \in Sessions
               PROVE  /\ Before(known[s], session[s])
                      /\ \A i \in DOMAIN batches' : \A m \in batches'[i] :
                           /\ Before(known[s], InfoOf(m, s)) /\ Before(InfoOf(m, s), session[s])
                           /\ \A j \in DOMAIN batches' : \A n \in batches'[j] :
                                i <= j => Before(InfoOf(m, s), InfoOf(n, s))
                           /\ s \notin born => ~InfoOf(m, s).alive
                      /\ s \notin born => ~session[s].alive /\ ~known[s].alive
    BY <1>1 DEF OrderInv
  <2>1. /\ Before(known[s], session[s]) /\ (s \notin born => ~session[s].alive /\ ~known[s].alive)
    BY DEF OrderInv
  <2>2. ASSUME NEW i \in DOMAIN batches', NEW m \in batches'[i]
        PROVE  /\ Before(known[s], InfoOf(m, s)) /\ Before(InfoOf(m, s), session[s])
               /\ s \notin born => ~InfoOf(m, s).alive
    <3>1. \/ i \in DOMAIN batches /\ m \in batches[i]
          \/ InfoOf(m, s) = session[s] \/ InfoOf(m, s) = Absent
      BY <1>4
    <3>2. Before(session[s], session[s]) /\ Before(known[s], Absent) /\ Before(Absent, session[s])
      BY Constants DEF Before, AtLeast, TypeOK, Infos
    <3> QED BY <2>1, <3>1, <3>2, Constants DEF OrderInv
  <2>3. ASSUME NEW i \in DOMAIN batches', NEW m \in batches'[i],
               NEW j \in DOMAIN batches', NEW n \in batches'[j], i <= j
        PROVE  Before(InfoOf(m, s), InfoOf(n, s))
    <3>1. CASE j \in DOMAIN batches
      <4>1. i \in DOMAIN batches
        BY <1>3, <2>3, <3>1
      <4> QED BY <1>3, <2>3, <3>1, <4>1 DEF OrderInv
    <3>2. CASE j \notin DOMAIN batches
      <4>1. InfoOf(n, s) = session[s] \/ InfoOf(n, s) = Absent
        BY <1>4, <3>2
      <4>2. Before(InfoOf(m, s), session[s]) /\ Before(InfoOf(m, s), Absent)
        BY <2>2, Constants DEF Before, AtLeast
      <4> QED BY <4>1, <4>2
    <3> QED BY <3>1, <3>2
  <2> QED BY <2>1, <2>2, <2>3
<1>6. BehindInv'
  <2> SUFFICES ASSUME NEW c \in Consumers, NEW cwd \in {told[c], cached[c].cwd},
                      NEW i \in DOMAIN batches', NEW m \in batches'[i]
               PROVE  AtLeast(InfoOf(m, Shows[c]), cwd)
    BY <1>1 DEF BehindInv
  <2>1. \/ i \in DOMAIN batches /\ m \in batches[i]
        \/ InfoOf(m, Shows[c]) = session[Shows[c]] \/ InfoOf(m, Shows[c]) = Absent
    BY <1>4
  <2> QED BY <2>1, Constants DEF BehindInv, AtLeast
<1> QED BY <1>5, <1>6

\* The answer to a subscription is what the sessions are now.
LEMMA SubscribeOrder ==
  ASSUME TypeOK, OrderInv, BehindInv, Subscribe
  PROVE  OrderInv' /\ BehindInv'
<1>1. UNCHANGED <<session, born, known, cached, applied, told, updates>>
  BY DEF Subscribe, Hangs, Goes, hostVars, stateVars, consumerVars
<1>2. CASE batches' = <<>>
  BY <1>1, <1>2, OrderKept, BehindKept
<1>3. CASE batches' = <<{All(session)}>>
  <2>1. ASSUME NEW i \in DOMAIN batches', NEW m \in batches'[i], NEW s \in Sessions
        PROVE  InfoOf(m, s) = session[s]
    BY <1>3, <2>1 DEF All, InfoOf
  <2>2. \A s \in Sessions : Before(session[s], session[s])
    BY DEF Before, AtLeast, TypeOK, Infos
  <2>3. OrderInv'
    BY <1>1, <2>1, <2>2 DEF OrderInv
  <2>4. \A c \in Consumers : Shows[c] \in Sessions
    OBVIOUS
  <2>5. BehindInv'
    BY <1>1, <2>1, <2>4 DEF BehindInv
  <2> QED BY <2>3, <2>5
<1> QED BY <1>2, <1>3 DEF Subscribe, Hangs

\* Reading leaves a part of the batches, in their order.
LEMMA ReadLeaves ==
  ASSUME TypeOK, Read
  PROVE  /\ 1 \in DOMAIN batches /\ Head(batches) = batches[1]
         /\ \E k \in {0, 1} : \A j \in DOMAIN batches' :
              j + k \in DOMAIN batches /\ batches'[j] \subseteq batches[j + k]
<1>1. PICK m \in Head(batches) :
        batches' = IF Head(batches) = {m} THEN Tail(batches)
                   ELSE <<Head(batches) \ {m}>> \o Tail(batches)
  BY DEF Read
<1>2. batches \in Seq(SUBSET Messages) /\ batches # <<>>
  BY DEF TypeOK, Read
<1>3. /\ Head(batches) = batches[1] /\ Len(batches) \in Nat /\ Len(batches) >= 1
      /\ DOMAIN batches = 1..Len(batches) /\ Head(batches) \in SUBSET Messages
      /\ Tail(batches) \in Seq(SUBSET Messages) /\ Len(Tail(batches)) = Len(batches) - 1
      /\ \A i \in 1..Len(Tail(batches)) : Tail(batches)[i] = batches[i + 1]
  BY <1>2, HeadTailProperties, LenProperties, EmptySeq
<1>4. CASE batches' = Tail(batches)
  <2>1. \A j \in DOMAIN batches' : j + 1 \in DOMAIN batches /\ batches'[j] \subseteq batches[j + 1]
    BY <1>3, <1>4, LenProperties
  <2> QED BY <1>3, <2>1
<1>5. CASE batches' = <<Head(batches) \ {m}>> \o Tail(batches)
  <2> DEFINE h == <<Head(batches) \ {m}>>
  <2>1. h \in Seq(SUBSET Messages) /\ Len(h) = 1 /\ h[1] = Head(batches) \ {m}
    BY <1>3
  <2> HIDE DEF h
  <2>2. /\ Len(batches') = Len(batches) /\ batches' \in Seq(SUBSET Messages)
        /\ \A j \in 1..Len(batches) : batches'[j] = IF j <= 1 THEN h[j] ELSE Tail(batches)[j - 1]
    BY <1>3, <1>5, <2>1, ConcatProperties DEF h
  <2>3. ASSUME NEW j \in DOMAIN batches' PROVE j + 0 \in DOMAIN batches /\ batches'[j] \subseteq batches[j + 0]
    <3>1. j \in 1..Len(batches) /\ j + 0 = j
      BY <2>2, LenProperties
    <3>2. CASE j = 1
      BY <1>3, <2>1, <2>2, <3>1, <3>2
    <3>3. CASE j > 1
      <4>1. batches'[j] = Tail(batches)[j - 1] /\ j - 1 \in 1..Len(Tail(batches)) /\ (j - 1) + 1 = j
        BY <1>3, <2>2, <3>1, <3>3
      <4>2. Tail(batches)[j - 1] = batches[(j - 1) + 1]
        BY <1>3, <4>1
      <4> QED BY <1>3, <3>1, <4>1, <4>2
    <3> QED BY <3>1, <3>2, <3>3
  <2> QED BY <1>3, <2>3
<1> QED BY <1>1, <1>4, <1>5

\* What a message brings comes before the messages that follow it.
LEMMA ReadOrder ==
  ASSUME TypeOK, OrderInv, BehindInv, Read
  PROVE  OrderInv' /\ BehindInv'
<1>1. PICK m \in Head(batches) : /\ known' = After(m)
                                /\ updates' = {c \in registered : ToPublish(m, Shows[c])}
  BY DEF Read
<1>2. /\ UNCHANGED <<session, born, cached, applied, told>>
      /\ 1 \in DOMAIN batches /\ m \in batches[1] /\ m \in Messages
  BY <1>1, ReadLeaves, HeadTailProperties DEF Read, hostVars, consumerVars, TypeOK
<1>3. PICK k \in {0, 1} : \A j \in DOMAIN batches' :
              j + k \in DOMAIN batches /\ batches'[j] \subseteq batches[j + k]
  BY ReadLeaves
<1>4. ASSUME NEW s \in Sessions
      PROVE  known'[s] = known[s] \/ known'[s] = InfoOf(m, s)
  BY <1>1, <1>4 DEF After, InfoOf, TypeOK
<1>5. \A j \in DOMAIN batches' : j \in Int /\ j + k >= 1
  <2>1. batches \in Seq(SUBSET Messages) /\ batches' \in Seq(SUBSET Messages)
    BY TypeStep DEF Next, WorkerStep, TypeOK
  <2> QED BY <2>1, LenProperties
<1>6. OrderInv'
  <2> SUFFICES ASSUME NEW s \in Sessions
               PROVE  /\ Before(known'[s], session[s])
                      /\ \A i \in DOMAIN batches' : \A n \in batches'[i] :
                           /\ Before(known'[s], InfoOf(n, s)) /\ Before(InfoOf(n, s), session[s])
                           /\ \A j \in DOMAIN batches' : \A o \in batches'[j] :
                                i <= j => Before(InfoOf(n, s), InfoOf(o, s))
                           /\ s \notin born => ~InfoOf(n, s).alive
                      /\ s \notin born => ~session[s].alive /\ ~known'[s].alive
    BY <1>2 DEF OrderInv
  <2>1. Before(known'[s], session[s]) /\ (s \notin born => ~session[s].alive /\ ~known'[s].alive)
    BY <1>2, <1>4 DEF OrderInv
  <2>2. ASSUME NEW i \in DOMAIN batches', NEW n \in batches'[i]
        PROVE  Before(known'[s], InfoOf(n, s))
    <3>1. i + k \in DOMAIN batches /\ n \in batches[i + k] /\ 1 <= i + k
      BY <1>3, <1>5
    <3> QED BY <1>2, <1>4, <3>1 DEF OrderInv
  <2>3. ASSUME NEW i \in DOMAIN batches', NEW n \in batches'[i]
        PROVE  Before(InfoOf(n, s), session[s]) /\ (s \notin born => ~InfoOf(n, s).alive)
    <3>1. i + k \in DOMAIN batches /\ n \in batches[i + k]
      BY <1>3
    <3> QED BY <3>1 DEF OrderInv
  <2>4. ASSUME NEW i \in DOMAIN batches', NEW n \in batches'[i],
               NEW j \in DOMAIN batches', NEW o \in batches'[j], i <= j
        PROVE  Before(InfoOf(n, s), InfoOf(o, s))
    <3>1. i + k \in DOMAIN batches /\ n \in batches[i + k] /\ j + k \in DOMAIN batches /\ o \in batches[j + k]
      BY <1>3
    <3>2. i + k <= j + k
      BY <1>5, <2>4
    <3> QED BY <3>1, <3>2 DEF OrderInv
  <2> QED BY <2>1, <2>2, <2>3, <2>4
<1>7. BehindInv'
  <2>1. ASSUME NEW c \in Consumers, NEW cwd \in {told[c], cached[c].cwd}
        PROVE  /\ AtLeast(known'[Shows[c]], cwd)
               /\ \A i \in DOMAIN batches' : \A n \in batches'[i] : AtLeast(InfoOf(n, Shows[c]), cwd)
    BY <1>2, <1>3, <1>4 DEF BehindInv
  <2>2. ASSUME NEW c \in updates' PROVE known'[Shows[c]].alive
    BY <1>1, <2>2 DEF ToPublish
  <2> QED BY <1>2, <2>1, <2>2 DEF BehindInv
<1> QED BY <1>6, <1>7

\* A terminal that asks finds in the cache what is known, which is before all
\* that is yet to come.
LEMMA ObserveOrder ==
  ASSUME IInv, OrderInv, BehindInv, NEW c \in Consumers, Observe(c)
  PROVE  OrderInv' /\ BehindInv'
<1>0. TypeOK /\ WorkerInv
  BY DEF IInv
<1>1. UNCHANGED <<session, born, batches, updates, applied, told>>
  BY DEF Observe, hostVars, connVars
<1>2. c \notin held /\ applied[c] = 0 /\ told[c] = 0 /\ cached[c] = Nothing
  BY <1>0 DEF Observe, WorkerInv, TypeOK
<1>3. PICK fresh \in BOOLEAN :
        /\ fresh => ~running
        /\ known' = (IF fresh THEN Nobody ELSE known)
        /\ \/ cached' = cached
           \/ cached' = [cached EXCEPT ![c] = Cached(known'[Shows[c]], revision')]
  BY DEF Observe
<1>4. fresh => updates = {}
  BY <1>0, <1>3 DEF WorkerInv
<1>5. OrderInv'
  BY <1>1, <1>3, OrderKept
<1>6. CASE cached' = cached
  <2>1. known' = known \/ (known' = Nobody /\ updates' = {})
    BY <1>1, <1>3, <1>4
  <2>2. UNCHANGED <<cached, applied, told>> /\ updates' \subseteq updates
    BY <1>1, <1>6
  <2>3. BehindInv'
    BY <1>0, <1>1, <2>1, <2>2, BehindKept
  <2> QED BY <1>5, <2>3
<1>7. CASE cached' = [cached EXCEPT ![c] = Cached(known'[Shows[c]], revision')]
  <2>1. \A d \in Consumers \ {c} : cached'[d] = cached[d]
    BY <1>0, <1>7 DEF TypeOK
  <2>2. cached'[c] = Cached(known'[Shows[c]], revision')
    BY <1>0, <1>7 DEF TypeOK
  <2>3. \A s \in Sessions : known'[s] = known[s] \/ ~known'[s].alive
    BY <1>3, Constants
  <2>4. ASSUME NEW d \in Consumers, d # c, NEW cwd \in {told[d], cached[d].cwd}
        PROVE  /\ AtLeast(known'[Shows[d]], cwd) /\ AtLeast(session[Shows[d]], cwd)
               /\ \A i \in DOMAIN batches : \A m \in batches[i] : AtLeast(InfoOf(m, Shows[d]), cwd)
    BY <2>3, <2>4 DEF BehindInv, AtLeast
  <2>5. ASSUME NEW cwd \in {told[c], cached'[c].cwd}
        PROVE  /\ AtLeast(known'[Shows[c]], cwd) /\ AtLeast(session[Shows[c]], cwd)
               /\ \A i \in DOMAIN batches : \A m \in batches[i] : AtLeast(InfoOf(m, Shows[c]), cwd)
    <3>1. Shows[c] \in Sessions
      OBVIOUS
    <3>2. CASE cwd = told[c]
      BY <2>3, <3>1, <3>2 DEF BehindInv, AtLeast
    <3>3. CASE cwd = cached'[c].cwd /\ cached'[c] = Nothing
      BY <1>2, <2>3, <3>1, <3>3 DEF BehindInv, AtLeast
    <3>4. CASE cwd = cached'[c].cwd /\ cached'[c] # Nothing
      <4>1. known'[Shows[c]].alive /\ cwd = known'[Shows[c]].cwd
        BY <2>2, <3>4 DEF Cached
      <4>2. known'[Shows[c]] = known[Shows[c]] /\ known[Shows[c]] \in Infos
        BY <1>0, <2>3, <3>1, <4>1 DEF TypeOK
      <4> QED BY <3>1, <4>1, <4>2 DEF OrderInv, Before, AtLeast, Infos
    <3> QED BY <2>5, <3>2, <3>3, <3>4
  <2>6. \A d \in updates : known'[Shows[d]].alive
    BY <1>0, <1>3, <1>4 DEF BehindInv, TypeOK
  <2>7. ASSUME NEW d \in Consumers, NEW cwd \in {told[d], cached'[d].cwd}
        PROVE  /\ AtLeast(known'[Shows[d]], cwd) /\ AtLeast(session[Shows[d]], cwd)
               /\ \A i \in DOMAIN batches : \A m \in batches[i] : AtLeast(InfoOf(m, Shows[d]), cwd)
    BY <2>1, <2>4, <2>5, <2>7
  <2>8. ASSUME NEW d \in Consumers, applied[d] < cached'[d].revision PROVE told[d] = 0
    BY <1>2, <2>1, <2>8 DEF BehindInv
  <2>9. BehindInv'
    BY <1>1, <2>6, <2>7, <2>8 DEF BehindInv
  <2> QED BY <1>5, <2>9
<1> QED BY <1>3, <1>5, <1>6, <1>7

\* A publication tells of a directory that comes after what was told, and before
\* what is yet to come.
LEMMA PublishUpdateOrder ==
  ASSUME IInv, OrderInv, BehindInv, NEW c \in Consumers, PublishUpdate(c)
  PROVE  OrderInv' /\ BehindInv' /\ \A d \in held' : told'[d] >= told[d]
<1>0. TypeOK /\ RevisionInv
  BY DEF IInv
<1>1. /\ UNCHANGED <<session, born, batches, known, held, cached>>
      /\ c \in updates /\ updates' \subseteq updates
  BY DEF PublishUpdate, hostVars, connVars, stateVars
<1>2. /\ Shows[c] \in Sessions /\ known[Shows[c]].alive /\ known[Shows[c]] \in Infos
      /\ revision \in Nat /\ cached[c].revision < revision
  BY <1>0, <1>1 DEF BehindInv, TypeOK, RevisionInv
<1>3. /\ \A d \in Consumers \ {c} : applied'[d] = applied[d] /\ told'[d] = told[d]
      /\ \/ applied'[c] = applied[c] /\ told'[c] = told[c]
         \/ applied'[c] = revision /\ told'[c] = known[Shows[c]].cwd
  BY <1>0, <1>2, PublishLemma DEF PublishUpdate, Infos
<1>4. OrderInv'
  BY <1>1, OrderKept
<1>5. /\ AtLeast(known[Shows[c]], known[Shows[c]].cwd) /\ AtLeast(session[Shows[c]], known[Shows[c]].cwd)
      /\ \A i \in DOMAIN batches : \A m \in batches[i] : AtLeast(InfoOf(m, Shows[c]), known[Shows[c]].cwd)
  BY <1>2 DEF OrderInv, Before, AtLeast, Infos
<1>6. BehindInv'
  <2>1. ASSUME NEW d \in Consumers, NEW cwd \in {told'[d], cached[d].cwd}
        PROVE  /\ AtLeast(known[Shows[d]], cwd) /\ AtLeast(session[Shows[d]], cwd)
               /\ \A i \in DOMAIN batches : \A m \in batches[i] : AtLeast(InfoOf(m, Shows[d]), cwd)
    BY <1>3, <1>5, <2>1 DEF BehindInv
  <2>2. ASSUME NEW d \in Consumers, applied'[d] < cached[d].revision PROVE told'[d] = 0
    <3>1. cached[c].revision \in Nat
      BY <1>0 DEF TypeOK
    <3>2. CASE d = c
      BY <1>2, <1>3, <2>2, <3>1, <3>2 DEF BehindInv
    <3>3. CASE d # c
      BY <1>3, <2>2, <3>3 DEF BehindInv
    <3> QED BY <3>2, <3>3
  <2> QED BY <1>1, <2>1, <2>2 DEF BehindInv
<1>7. \A d \in held' : told'[d] >= told[d]
  <2> SUFFICES ASSUME NEW d \in held PROVE told'[d] >= told[d]
    BY <1>1
  <2>1. d \in Consumers /\ told[d] \in Nat /\ told[c] \in Nat
    BY <1>0 DEF TypeOK
  <2>2. told[c] <= known[Shows[c]].cwd
    BY <1>2 DEF BehindInv, AtLeast
  <2> QED BY <1>2, <1>3, <2>1, <2>2 DEF Infos
<1> QED BY <1>4, <1>6, <1>7

LEMMA PublishCachedOrder ==
  ASSUME IInv, OrderInv, BehindInv, NEW c \in Consumers, PublishCached(c)
  PROVE  OrderInv' /\ BehindInv' /\ \A d \in held' : told'[d] >= told[d]
<1>0. TypeOK
  BY DEF IInv
<1>1. /\ UNCHANGED <<session, born, batches, known, held, updates>>
      /\ cached' = [cached EXCEPT ![c] = Nothing]
  BY DEF PublishCached, hostVars, connVars, stateVars, workerVars
<1>2. /\ \A d \in Consumers \ {c} : applied'[d] = applied[d] /\ told'[d] = told[d] /\ cached'[d] = cached[d]
      /\ \/ applied'[c] = applied[c] /\ told'[c] = told[c]
         \/ cached[c].revision > applied[c] /\ told'[c] = cached[c].cwd
      /\ applied'[c] \in Nat /\ cached'[c] = Nothing
  BY <1>0, <1>1, PublishLemma DEF PublishCached, TypeOK
<1>3. OrderInv'
  BY <1>1, OrderKept
<1>4. BehindInv'
  <2>1. ASSUME NEW d \in Consumers, NEW cwd \in {told'[d], cached'[d].cwd}
        PROVE  /\ AtLeast(known[Shows[d]], cwd) /\ AtLeast(session[Shows[d]], cwd)
               /\ \A i \in DOMAIN batches : \A m \in batches[i] : AtLeast(InfoOf(m, Shows[d]), cwd)
    <3>1. CASE cwd \in {told[d], cached[d].cwd}
      BY <3>1 DEF BehindInv
    <3>2. CASE cwd = 0
      <4>1. told[d] \in Nat /\ known[Shows[d]] \in Infos /\ session[Shows[d]] \in Infos
        BY <1>0 DEF TypeOK
      <4>2. \A i \in DOMAIN batches : \A m \in batches[i] : InfoOf(m, Shows[d]) \in Infos
        BY <1>0, ElementOfSeq, InfoOfType DEF TypeOK
      <4> QED BY <3>2, <4>1, <4>2 DEF AtLeast, Infos
    <3> QED BY <1>2, <2>1, <3>1, <3>2 DEF Nothing
  <2>2. ASSUME NEW d \in Consumers, applied'[d] < cached'[d].revision PROVE told'[d] = 0
    BY <1>2, <2>2, Constants DEF BehindInv
  <2> QED BY <1>1, <2>1, <2>2 DEF BehindInv
<1>5. \A d \in held' : told'[d] >= told[d]
  <2> SUFFICES ASSUME NEW d \in held PROVE told'[d] >= told[d]
    BY <1>1
  <2>1. d \in Consumers /\ told[d] \in Nat /\ cached[c] \in [revision : Nat, cwd : Nat] /\ applied[c] \in Nat
    BY <1>0 DEF TypeOK
  <2>2. applied[c] < cached[c].revision => told[c] = 0
    BY DEF BehindInv
  <2> QED BY <1>2, <2>1, <2>2
<1> QED BY <1>3, <1>4, <1>5

\* A terminal that is closed was told nothing.
LEMMA ReleaseOrder ==
  ASSUME IInv, OrderInv, BehindInv, NEW c \in Consumers, Release(c)
  PROVE  OrderInv' /\ BehindInv' /\ \A d \in held' : told'[d] >= told[d]
<1>0. TypeOK
  BY DEF IInv
<1>1. /\ UNCHANGED <<session, born, batches, known, cached, updates>>
      /\ c \notin held' /\ held' \subseteq held /\ told' = [told EXCEPT ![c] = 0]
      /\ applied' = [applied EXCEPT ![c] = 0]
  BY DEF Release, hostVars, connVars, workerVars
<1>2. OrderInv'
  BY <1>1, OrderKept
<1>3. BehindInv'
  <2>1. ASSUME NEW d \in Consumers, NEW cwd \in {told'[d], cached[d].cwd}
        PROVE  /\ AtLeast(known[Shows[d]], cwd) /\ AtLeast(session[Shows[d]], cwd)
               /\ \A i \in DOMAIN batches : \A m \in batches[i] : AtLeast(InfoOf(m, Shows[d]), cwd)
    <3>1. CASE cwd \in {told[d], cached[d].cwd}
      BY <3>1 DEF BehindInv
    <3>2. CASE cwd = 0
      <4>1. known[Shows[d]] \in Infos /\ session[Shows[d]] \in Infos
        BY <1>0 DEF TypeOK
      <4>2. \A i \in DOMAIN batches : \A m \in batches[i] : InfoOf(m, Shows[d]) \in Infos
        BY <1>0, ElementOfSeq, InfoOfType DEF TypeOK
      <4> QED BY <3>2, <4>1, <4>2 DEF AtLeast, Infos
    <3> QED BY <1>0, <1>1, <2>1, <3>1, <3>2 DEF TypeOK
  <2>2. ASSUME NEW d \in Consumers, applied'[d] < cached[d].revision PROVE told'[d] = 0
    BY <1>0, <1>1, <2>2 DEF BehindInv, TypeOK
  <2> QED BY <1>1, <2>1, <2>2 DEF BehindInv
<1>4. \A d \in held' : told'[d] >= told[d]
  BY <1>0, <1>1 DEF TypeOK
<1> QED BY <1>2, <1>3, <1>4

\* All steps keep the order, and none takes a terminal back.
LEMMA OrderStep ==
  ASSUME IInv, OrderInv, BehindInv, [Next]_vars
  PROVE  OrderInv' /\ BehindInv' /\ \A d \in held' : told'[d] >= told[d]
<1>0. TypeOK /\ WorkerInv
  BY DEF IInv
<1>1. ASSUME UNCHANGED told PROVE \A d \in held' : told'[d] >= told[d]
  <2>1. held' \subseteq Consumers
    BY <1>0, TypeStep DEF TypeOK
  <2> QED BY <1>0, <1>1, <2>1 DEF TypeOK
<1> USE DEF hostVars, connVars, stateVars, workerVars, consumerVars
<1>2. CASE UNCHANGED vars
  BY <1>0, <1>1, <1>2, OrderKept, BehindKept DEF vars
<1>3. ASSUME NEW s \in Sessions, Starts(s) \/ Moves(s) \/ Exits(s) \/ Leaves(s)
      PROVE  OrderInv' /\ BehindInv' /\ UNCHANGED told
  BY <1>3, SessionSteps DEF Starts, Moves, Exits, Leaves, Becomes
<1>4. CASE HostEnds
  BY <1>0, <1>1, <1>4, HostEndsOrder DEF HostEnds
<1>5. CASE AnotherStarts \/ Check \/ Stop
  BY <1>0, <1>1, <1>5, OrderKept, BehindKept DEF AnotherStarts, Check, Stop, Goes
<1>6. CASE Poll
  BY <1>0, <1>1, <1>6, PollOrder DEF Poll
<1>7. CASE Connect
  <2>1. UNCHANGED <<session, born, batches, updates, consumerVars>> /\ (known' = known \/ known' = Nobody)
    BY <1>7 DEF Connect, Goes
  <2>2. updates = {}
    BY <1>0, <1>7 DEF Connect, WorkerInv
  <2> QED BY <1>0, <1>1, <2>1, <2>2, OrderKept, BehindKept
<1>8. CASE Subscribe
  BY <1>0, <1>1, <1>8, SubscribeOrder DEF Subscribe
<1>9. CASE Read
  BY <1>0, <1>1, <1>9, ReadOrder DEF Read
<1>10. CASE NobodyLeft \/ Drop
  BY <1>0, <1>1, <1>10, OrderKept, BehindKept DEF NobodyLeft, Drop, Hangs, Goes
<1>11. ASSUME NEW c \in Consumers, Ask(c)
       PROVE  OrderInv' /\ BehindInv' /\ UNCHANGED told
  BY <1>0, <1>11, OrderKept, BehindKept DEF Ask
<1>12. ASSUME NEW c \in Consumers, Observe(c)
       PROVE  OrderInv' /\ BehindInv' /\ UNCHANGED told
  BY <1>12, ObserveOrder DEF Observe
<1> QED
  BY <1>1, <1>2, <1>3, <1>4, <1>5, <1>6, <1>7, <1>8, <1>9, <1>10, <1>11, <1>12, PublishUpdateOrder,
     PublishCachedOrder, ReleaseOrder DEF Next, WorkerStep

LEMMA OrderInit == Init => OrderInv /\ BehindInv
<1> SUFFICES ASSUME Init PROVE OrderInv /\ BehindInv
  OBVIOUS
<1>1. /\ \A s \in Sessions : ~known[s].alive /\ ~session[s].alive
      /\ batches = <<>> /\ updates = {} /\ \A c \in Consumers : told[c] = 0
  BY Constants DEF Init
<1>2. OrderInv
  BY <1>1 DEF OrderInv, Before
<1>3. \A c \in Consumers : Shows[c] \in Sessions
  OBVIOUS
<1>4. BehindInv
  BY <1>1, <1>3 DEF BehindInv, AtLeast
<1> QED BY <1>2, <1>4

\* For any terminals, sessions, failures and interleavings of the worker with
\* observe_cwd: no terminal is told of a directory from before the one it shows.
THEOREM NoTerminalGoesBack == Spec => NeverBack
<1>1. Spec => [](OrderInv /\ BehindInv)
  BY OrderInit, OrderStep, Invariance, PTL DEF Spec
<1>2. IInv /\ OrderInv /\ BehindInv /\ [Next]_vars => [\A c \in held' : told'[c] >= told[c]]_vars
  BY OrderStep
<1> QED BY <1>1, <1>2, Invariance, PTL DEF Spec, NeverBack
=============================================================================
