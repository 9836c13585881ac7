----------------------------- MODULE CwdObserver -----------------------------
(***************************************************************************)
(* How the terminals of an application learn the working directories of    *)
(* their sessions (observe_cwd, src/session_host.rs): one observer per     *)
(* host instance, with one worker thread that follows subscribe_sessions   *)
(* (src/daemon.rs) over a connection it opens again when it breaks.        *)
(*                                                                         *)
(* Directories are numbered in the order a session enters them.  The       *)
(* polling thread sends what one look at the registry finds as a batch,    *)
(* whose messages come in any order but the removals come first.           *)
(***************************************************************************)
EXTENDS Integers, Sequences, FiniteSets

CONSTANTS Sessions,     \* of the observed host instance
          Consumers,    \* terminals that call observe_cwd
          Shows,        \* the session of each
          Leavers,      \* bound: those that may close while the others live
          MaxCwd,       \* bound: directories of each session
          MaxDrops      \* bound: connections that fail while the host lives

ASSUME ShowsAssumption == Shows \in [Consumers -> Sessions]
ASSUME BoundsAssumption == Leavers \subseteq Consumers /\ MaxCwd \in [Sessions -> Nat] /\ MaxDrops \in Nat

VARIABLES
  up,          \* what listens: the observed instance, none or another
  session,     \* SessionInfo of the sessions it has
  born,        \* those it ever had
  drops,       \* history: connections that failed
  conn,        \* the worker's connection: none, open or closed by the host
  last,        \* `last` of the polling thread at its other end
  batches,     \* sent on it and not read
  held,        \* observations that were returned and not dropped
  asked,       \* consumers that were made
  registered,  \* CwdObservers.consumers that somebody holds
  known,       \* CwdObservers.sessions
  revision,    \* CwdObservers.revision
  running,     \* CwdObservers.running
  pc,          \* where the worker is
  toAsk,       \* consumers whose session it has yet to ask for
  attached,    \* one of them exists
  updates,     \* what it has yet to publish
  cached,      \* what observe_cwd has yet to publish to its consumer
  applied,     \* CwdConsumer.revision
  told         \* the directory each consumer was told last, 0 for none

hostVars == <<up, session, born, drops>>
connVars == <<conn, last, batches>>
stateVars == <<registered, known, revision, running>>
workerVars == <<pc, toAsk, attached, updates>>
consumerVars == <<held, asked, cached, applied, told>>
vars == <<hostVars, connVars, stateVars, workerVars, consumerVars>>

Info(alive, cwd) == [alive |-> alive, cwd |-> cwd]
Infos == [alive : BOOLEAN, cwd : Nat]
Absent == Info(FALSE, 0)
Nobody == [s \in Sessions |-> Absent]
Nothing == [revision |-> 0, cwd |-> 0]

Init ==
  /\ up = "observed" /\ session = Nobody /\ born = {} /\ drops = 0
  /\ conn = "none" /\ last = Nobody /\ batches = <<>>
  /\ registered = {} /\ known = Nobody /\ revision = 0 /\ running = FALSE
  /\ pc = "off" /\ toAsk = {} /\ attached = FALSE /\ updates = {}
  /\ held = {} /\ asked = {}
  /\ cached = [c \in Consumers |-> Nothing]
  /\ applied = [c \in Consumers |-> 0] /\ told = [c \in Consumers |-> 0]

-----------------------------------------------------------------------------
(* The host *)

Becomes(s, info) == /\ session' = [session EXCEPT ![s] = info]
                    /\ UNCHANGED <<up, drops, connVars, stateVars, workerVars, consumerVars>>
Starts(s) == up = "observed" /\ s \notin born /\ Becomes(s, Info(TRUE, 1)) /\ born' = born \cup {s}
Moves(s) == /\ session[s].alive /\ session[s].cwd < MaxCwd[s]
            /\ Becomes(s, Info(TRUE, session[s].cwd + 1)) /\ UNCHANGED born
Exits(s) == session[s].alive /\ Becomes(s, Info(FALSE, session[s].cwd)) /\ UNCHANGED born
Leaves(s) == session[s] # Absent /\ Becomes(s, Absent) /\ UNCHANGED born

HostEnds == /\ up = "observed" /\ up' = "none" /\ session' = Nobody
            /\ conn' = IF conn = "open" THEN "closed" ELSE conn
            /\ UNCHANGED <<born, drops, last, batches, stateVars, workerVars, consumerVars>>
AnotherStarts == /\ up = "none" /\ up' = "other"
                 /\ UNCHANGED <<session, born, drops, connVars, stateVars, workerVars, consumerVars>>

Messages == [all : {TRUE}, id : [Sessions -> Infos], info : {Absent}]
              \cup [all : {FALSE}, id : Sessions, info : Infos]
All(sessions) == [all |-> TRUE, id |-> sessions, info |-> Absent]
Sent(s, info) == [all |-> FALSE, id |-> s, info |-> info]
\* Mutant: only what came and went is compared.
Membership == {Sent(s, session[s]) : s \in {t \in Sessions : (session[t] = Absent) # (last[t] = Absent)}}
Differences == {Sent(s, session[s]) : s \in {t \in Sessions : session[t] # last[t]}}
Poll ==
  /\ conn = "open" /\ pc \in {"reading", "publishing"} /\ Differences # {}
  /\ batches' = Append(batches, Differences) /\ last' = session
  /\ UNCHANGED <<hostVars, conn, stateVars, workerVars, consumerVars>>

-----------------------------------------------------------------------------
(* observe_cwd *)

\* Mutant: a consumer waits for the next message.
NotCached(info, rev) == Nothing
Cached(info, rev) == IF info.alive THEN [revision |-> rev, cwd |-> info.cwd] ELSE Nothing

\* An observer lives on while its worker or an observation holds it.
Observe(c) ==
  /\ c \notin asked /\ Shows[c] \in born
  /\ asked' = asked \cup {c}
  /\ \E fresh \in IF running \/ held # {} THEN {FALSE} ELSE BOOLEAN :
       LET cache == IF fresh THEN Nobody ELSE known IN
       /\ known' = cache
       /\ revision' = IF fresh THEN 0 ELSE revision
       /\ \/ /\ held' = held \cup {c} /\ registered' = registered \cup {c}
             /\ cached' = [cached EXCEPT ![c] = Cached(cache[Shows[c]], revision')]
             /\ running' = TRUE
             /\ pc' = IF running THEN pc ELSE "check"
          \/ /\ ~running                      \* the thread does not start
             /\ UNCHANGED <<held, registered, cached, running, pc>>
  /\ UNCHANGED <<hostVars, connVars, toAsk, attached, updates, applied, told>>

\* CwdConsumer::publish
\* Mutant: whoever comes last is believed.
PublishLast(c, rev, cwd) ==
  IF c \in held THEN /\ applied' = [applied EXCEPT ![c] = rev] /\ told' = [told EXCEPT ![c] = cwd]
                 ELSE UNCHANGED <<applied, told>>
Publish(c, rev, cwd) ==
  IF c \in held /\ rev > applied[c]
  THEN /\ applied' = [applied EXCEPT ![c] = rev] /\ told' = [told EXCEPT ![c] = cwd]
  ELSE UNCHANGED <<applied, told>>

PublishCached(c) ==
  /\ cached[c] # Nothing
  /\ Publish(c, cached[c].revision, cached[c].cwd)
  /\ cached' = [cached EXCEPT ![c] = Nothing]
  /\ UNCHANGED <<hostVars, connVars, stateVars, workerVars, held, asked>>

\* Mutant: the observer's pointer to its consumer is a strong one.
ReleaseAlone(c) == /\ c \in held \cap Leavers /\ cached[c] = Nothing
                   /\ held' = held \ {c}
                   /\ UNCHANGED <<hostVars, connVars, stateVars, workerVars, asked, cached, applied, told>>
Release(c) == /\ c \in held \cap Leavers /\ cached[c] = Nothing
              /\ held' = held \ {c} /\ registered' = registered \ {c}
              /\ applied' = [applied EXCEPT ![c] = 0] /\ told' = [told EXCEPT ![c] = 0]
              /\ UNCHANGED <<hostVars, connVars, known, revision, running, workerVars, asked, cached>>

-----------------------------------------------------------------------------
(* The worker *)

Goes(label) == pc' = label /\ UNCHANGED <<toAsk, attached, updates>>
Hangs(label) == conn' = "none" /\ batches' = <<>> /\ last' = Nobody /\ Goes(label)

Check == /\ pc = "check" /\ Goes(IF registered = {} THEN "stopping" ELSE "connect")
         /\ UNCHANGED <<hostVars, connVars, stateVars, consumerVars>>

\* It looks again with the lock in hand.
\* Mutant: it does not.
StopAtOnce == /\ pc = "stopping" /\ running' = FALSE /\ Goes("off")
              /\ UNCHANGED <<hostVars, connVars, registered, known, revision, consumerVars>>
Stop ==
  /\ pc = "stopping"
  /\ IF registered = {} THEN running' = FALSE /\ Goes("off")
                  ELSE Goes("connect") /\ UNCHANGED running
  /\ UNCHANGED <<hostVars, connVars, registered, known, revision, consumerVars>>

MayFail == drops < MaxDrops /\ drops' = drops + 1

Connect ==
  /\ pc = "connect"
  /\ \/ /\ up = "observed"
        /\ conn' = "open" /\ pc' = "asking" /\ toAsk' = registered /\ attached' = FALSE
        /\ UNCHANGED <<updates, last, batches, drops, stateVars>>
     \/ /\ up = "other"                         \* host_instance_changed
        /\ registered' = {} /\ known' = Nobody /\ running' = FALSE
        /\ Goes("off") /\ UNCHANGED <<drops, connVars, revision>>
     \/ /\ up = "none" /\ Goes("check") /\ UNCHANGED <<drops, connVars, stateVars>>
     \/ /\ up # "none" /\ MayFail /\ Goes("check") /\ UNCHANGED <<connVars, stateVars>>
  /\ UNCHANGED <<up, session, born, consumerVars>>

Ask(c) ==
  /\ pc = "asking" /\ conn = "open" /\ c \in toAsk
  /\ toAsk' = toAsk \ {c}
  /\ IF session[Shows[c]] # Absent THEN attached' = TRUE /\ UNCHANGED registered
                                   ELSE registered' = registered \ {c} /\ UNCHANGED attached
  /\ UNCHANGED <<hostVars, connVars, known, revision, running, pc, updates, consumerVars>>

\* The answer to subscribe_sessions lists them all; its thread goes on from there.
Subscribe ==
  /\ pc = "asking" /\ toAsk = {}
  /\ IF ~attached \/ registered = {} THEN Hangs("check")
     ELSE /\ conn = "open"
          /\ batches' = <<{All(session)}>>
          /\ last' = session /\ Goes("reading") /\ UNCHANGED conn
  /\ UNCHANGED <<hostVars, stateVars, consumerVars>>

Removal(m) == ~m.all /\ m.info = Absent
After(m) == IF m.all THEN m.id ELSE [known EXCEPT ![m.id] = m.info]
ToPublish(m, s) == (m.all \/ m.id = s) /\ After(m)[s].alive

\* CwdObserver::apply, under the lock
Read ==
  /\ pc = "reading" /\ registered # {} /\ batches # <<>>
  /\ \E m \in Head(batches) :
       /\ (\E n \in Head(batches) : Removal(n)) => Removal(m)
       /\ batches' = IF Head(batches) = {m} THEN Tail(batches)
                     ELSE <<Head(batches) \ {m}>> \o Tail(batches)
       /\ known' = After(m)
       /\ registered' = IF Removal(m) THEN {c \in registered : Shows[c] # m.id} ELSE registered
       /\ updates' = {c \in registered : ToPublish(m, Shows[c])}
  /\ revision' = revision + 1 /\ pc' = IF updates' = {} THEN "reading" ELSE "publishing"
  /\ UNCHANGED <<hostVars, conn, last, running, toAsk, attached, consumerVars>>

PublishUpdate(c) ==
  /\ pc = "publishing" /\ c \in updates
  /\ Publish(c, revision, known[Shows[c]].cwd)
  /\ updates' = updates \ {c}
  /\ pc' = IF updates' = {} THEN "reading" ELSE pc
  /\ UNCHANGED <<hostVars, connVars, stateVars, toAsk, attached, held, asked, cached>>

NobodyLeft == /\ pc = "reading" /\ registered = {} /\ Hangs("check")
              /\ UNCHANGED <<hostVars, stateVars, consumerVars>>
Drop == /\ pc \in {"asking", "reading"}
        /\ \/ conn = "closed" /\ (batches = <<>> \/ pc = "asking") /\ UNCHANGED drops
           \/ MayFail
        /\ pc' = "check" /\ toAsk' = {} /\ attached' = FALSE /\ UNCHANGED updates
        /\ conn' = "none" /\ batches' = <<>> /\ last' = Nobody
        /\ UNCHANGED <<up, session, born, stateVars, consumerVars>>

WorkerStep == \/ Check \/ Stop \/ Connect \/ Subscribe \/ Read
              \/ NobodyLeft \/ Drop
              \/ \E c \in Consumers : Ask(c) \/ PublishUpdate(c)

Next == \/ \E s \in Sessions : Starts(s) \/ Moves(s) \/ Exits(s) \/ Leaves(s)
        \/ HostEnds \/ AnotherStarts \/ Poll \/ WorkerStep
        \/ \E c \in Consumers : Observe(c) \/ PublishCached(c) \/ Release(c)

Spec == Init /\ [][Next]_vars
\* The worker, the polling thread and the threads in observe_cwd go on.
FairSpec == Spec /\ WF_vars(WorkerStep) /\ WF_vars(Poll)
                 /\ \A c \in Consumers : WF_vars(PublishCached(c))

-----------------------------------------------------------------------------

TypeOK ==
  /\ up \in {"observed", "none", "other"} /\ conn \in {"none", "open", "closed"}
  /\ {session, last, known} \subseteq [Sessions -> Infos]
  /\ born \subseteq Sessions /\ drops \in Nat /\ drops <= MaxDrops
  /\ batches \in Seq(SUBSET Messages)
  /\ registered \subseteq held /\ held \subseteq asked /\ asked \subseteq Consumers
  /\ toAsk \subseteq asked /\ updates \subseteq asked
  /\ revision \in Nat /\ running \in BOOLEAN /\ attached \in BOOLEAN
  /\ pc \in {"off", "check", "stopping", "connect", "asking", "reading", "publishing"}
  /\ cached \in [Consumers -> [revision : Nat, cwd : Nat]]
  /\ applied \in [Consumers -> Nat] /\ told \in [Consumers -> Nat]

\* A terminal that waits for its directory has a worker that follows the host:
\* it does not register just as the worker stops for want of consumers
\* (session_host.rs:1517-1524).
FollowedByWorker == /\ running <=> pc # "off"
                    /\ registered # {} => running

\* What the observer knows of a session, every terminal that shows it was told,
\* once the worker and observe_cwd have published what they took from under the
\* lock: none falls between the snapshot of the consumers and the cache.
ToldWhatIsKnown ==
  \A c \in registered : known[Shows[c]].alive /\ c \notin updates /\ cached[c] = Nothing
                    => told[c] = known[Shows[c]].cwd

\* A terminal is never told of a directory its session had left before the one
\* it was told last, whichever thread publishes first and over whichever
\* connection it came.
NeverBack == [][\A c \in held' : told'[c] >= told[c]]_vars

\* While the host lives, a terminal is told where its session is.
CatchesUp ==
  \A c \in Consumers :
    LET Waits == c \in registered /\ up = "observed" /\ session[Shows[c]].alive
    IN Waits ~> (told[c] = session[Shows[c]].cwd \/ ~Waits)
=============================================================================
