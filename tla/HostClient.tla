---------------------------- MODULE HostClient ----------------------------
(***************************************************************************)
(* What an application asks of the session host (src/session_host.rs): to  *)
(* start a session and attach to it (spawn_attached), whether a session is *)
(* still there (probe_session_reference and the window's                   *)
(* reconcile_host_session_reference), to close it if no program runs in it *)
(* (close_if_idle_reference), to stop it (stop_host_session).              *)
(*                                                                         *)
(* Each request goes over a connection of its own, which stays with the    *)
(* host instance it reached.  A client that gives up leaves its request    *)
(* where the host may still read it.  A session is named by the spawn      *)
(* request it was made for: <<c, k>> is the k-th of client c.  Its id is   *)
(* never another's (SessionIds), and the host handles a request at once    *)
(* (SessionHost).                                                          *)
(***************************************************************************)
EXTENDS Integers, FiniteSets

CONSTANTS Clients,      \* application processes
          Version,      \* the build of each
          Anonymous,    \* host instances that do not tell who they are
          MaxHosts,     \* bound: host instances
          MaxSpawns,    \* bound: sessions a client asks for
          Askers        \* bound: clients that ask about the sessions they show

Sessions == Clients \X (1..MaxSpawns)
Hosts == 1..MaxHosts

ASSUME BoundsAssumption == MaxHosts \in Nat /\ MaxSpawns \in Nat
ASSUME VersionAssumption == Version \in [Clients -> Nat \ {0}]

VARIABLES
  up,         \* the host instance that listens, 0 for none
  build,      \* the build of each instance, once it started
  stopping,   \* it granted a restart
  launched,   \* builds of host processes that were launched and do not listen yet
  default,    \* the host has a default session
  session,    \* the state of each session and the host it was made on
  unread,     \* requests the host has yet to read
  phase,      \* what each client asks, or does
  call,       \* the call it is in
  answer,     \* the answer it has, or why there is none
  cached,     \* HOST_INFO: the instance it last greeted
  outcome,    \* what it was told of each session it asked for
  absent      \* sessions that were called absent

hostVars == <<up, build, stopping, launched, default>>
toldVars == <<outcome, absent>>
vars == <<hostVars, session, unread, phase, call, answer, cached, toldVars>>

\* A call: what for, which session, the expected instance (0: not known), the
\* instance its connection is to, and whether an idle close was tried.
NoCall == [op |-> "none", session |-> <<>>, expected |-> 0, host |-> 0, tried |-> FALSE]
Session(state, h) == [state |-> state, host |-> h]
There(s) == session[s].state \in {"running", "ended"}
Registered(s, h) == There(s) /\ session[s].host = h

Init ==
  /\ up = 0 /\ build = [h \in Hosts |-> 0] /\ stopping = FALSE
  /\ launched = {} /\ default = FALSE
  /\ session = [s \in Sessions |-> Session("none", 0)]
  /\ unread = {}
  /\ phase = [c \in Clients |-> "rest"] /\ call = [c \in Clients |-> NoCall]
  /\ answer = [c \in Clients |-> "none"] /\ cached = [c \in Clients |-> 0]
  /\ outcome = [s \in Sessions |-> "none"] /\ absent = {}

-----------------------------------------------------------------------------
(* The host *)

\* All that is left of an instance goes with it.
Down == /\ up' = 0 /\ stopping' = FALSE /\ default' = FALSE
        /\ session' = [s \in Sessions |-> IF Registered(s, up) THEN Session("gone", up) ELSE session[s]]
        /\ unread' = {r \in unread : r.host # up}
        /\ UNCHANGED <<build, launched, phase, call, answer, cached, toldVars>>
HostEnds == up # 0 /\ Down

\* Of the processes launched, those that come late find the lock taken.
HostStarts ==
  /\ \E v \in launched :
       /\ launched' = launched \ {v}
       /\ \/ /\ up = 0 /\ \E h \in Hosts : /\ \A g \in Hosts : build[g] = 0 => h <= g
                                           /\ build[h] = 0
                                           /\ up' = h /\ build' = [build EXCEPT ![h] = v]
          \/ UNCHANGED <<up, build>>
  /\ UNCHANGED <<stopping, default, session, unread, phase, call, answer, cached, toldVars>>

\* A shell exits, and its session stays; or somebody else closes the session.
Ends(s, state) == /\ There(s)
                  /\ session' = [session EXCEPT ![s].state = state]
                  /\ UNCHANGED <<hostVars, unread, phase, call, answer, cached, toldVars>>

\* Request r of client c is read; the answer finds the client if it still waits.
Answers(r, a) ==
  answer' = [answer EXCEPT ![r.client] =
    IF phase[r.client] = r.phase /\ call[r.client].session = r.session
         /\ call[r.client].host = r.host /\ @ = "none"
    THEN a ELSE @]
Connected(h) == {c \in Clients : call[c].host = h} \cup {r.client : r \in {q \in unread : q.host = h}}
Empty(h) == ~default /\ \A s \in Sessions : ~Registered(s, h)

Handles(r) ==
  LET s == r.session
      Becomes(state) == session' = [session EXCEPT ![s] = Session(state, r.host)] IN
  \/ /\ r.phase = "spawn" /\ ~stopping
     /\ Becomes("running") /\ Answers(r, "yes") /\ UNCHANGED <<stopping, default>>
  \/ /\ r.phase \in {"spawn", "restart"}
     /\ Answers(r, "no") /\ UNCHANGED <<session, stopping, default>>
  \/ /\ r.phase = "restart" /\ Empty(r.host) /\ Connected(r.host) = {r.client} /\ ~stopping
     /\ stopping' = TRUE /\ Answers(r, "yes") /\ UNCHANGED <<session, default>>
  \/ /\ r.phase \in {"status", "attach", "exists"}
     /\ Answers(r, IF Registered(s, r.host) THEN "yes" ELSE "no")
     /\ UNCHANGED <<session, stopping, default>>
  \/ /\ r.phase = "take" /\ default' = (default \/ (Empty(r.host) /\ ~stopping))
     /\ Answers(r, IF Registered(s, r.host) THEN "yes" ELSE "no")
     /\ UNCHANGED <<session, stopping>>
  \/ /\ r.phase = "alive"
     /\ Answers(r, CASE ~Registered(s, r.host) -> "no"
                     [] Registered(s, r.host) /\ session[s].state = "ended" -> "ended"
                     [] OTHER -> "yes")
     /\ UNCHANGED <<session, stopping, default>>
  \/ /\ r.phase \in {"close", "idle"} /\ Registered(s, r.host)
     /\ Becomes("gone") /\ Answers(r, "yes") /\ UNCHANGED <<stopping, default>>
  \/ /\ r.phase \in {"close", "idle"} /\ ~Registered(s, r.host)
     /\ Answers(r, "no") /\ UNCHANGED <<session, stopping, default>>
  \/ /\ r.phase = "idle" /\ Registered(s, r.host) /\ session[s].state = "running"
     /\ Answers(r, "blocked") /\ UNCHANGED <<session, stopping, default>>
Handle(r) == /\ r.host = up /\ Handles(r)
             /\ unread' = unread \ {r}
             /\ UNCHANGED <<up, build, launched, phase, call, cached, toldVars>>

-----------------------------------------------------------------------------
(* Calls *)

Goto(c, p) == phase' = [phase EXCEPT ![c] = p]
Make(c, p, op, s, expected) ==
  /\ phase[c] = "rest" /\ Goto(c, p)
  /\ call' = [call EXCEPT ![c] = [NoCall EXCEPT !.op = op, !.session = s, !.expected = expected,
                                                !.tried = (op = "idle")]]

Asked(c) == Cardinality({k \in 1..MaxSpawns : outcome[<<c, k>>] # "none"})
Spawn(c) ==
  LET s == <<c, Asked(c) + 1>> IN
  /\ Asked(c) < MaxSpawns /\ Make(c, "ensure", "spawn", s, 0)
  /\ outcome' = [outcome EXCEPT ![s] = "asked"]
  /\ UNCHANGED <<hostVars, session, unread, answer, cached, absent>>

\* A call about a session whose identity is known.
First(op) == CASE op = "reconcile" -> "exists" [] op = "idle" -> "idle" [] op = "stop" -> "take"
About(c, s, op) ==
  /\ c \in Askers /\ outcome[s] = "attached" /\ Make(c, First(op), op, s, session[s].host)
  /\ UNCHANGED <<hostVars, session, unread, answer, cached, toldVars>>

Return(c) == Goto(c, "rest") /\ call' = [call EXCEPT ![c] = NoCall]
Tell(c, what) == /\ Return(c)
                 /\ outcome' = [outcome EXCEPT ![call[c].session] = what] /\ UNCHANGED absent
TellAbsent(c) == Return(c) /\ absent' = absent \cup {call[c].session} /\ UNCHANGED outcome

\* ensure_running: an idle host of another build, seen for the first time, is
\* asked to restart.
Differs(c) == cached[c] # up /\ build[up] # Version[c]
Ensure(c) ==
  /\ phase[c] = "ensure"
  /\ \/ up = 0 /\ Goto(c, "starting") /\ launched' = launched \cup {Version[c]}
        /\ UNCHANGED <<call, cached, toldVars>>
     \/ up = 0 /\ Tell(c, "failed") /\ UNCHANGED <<launched, cached>>
     \/ /\ up # 0 /\ cached' = [cached EXCEPT ![c] = up]
        /\ Goto(c, IF Differs(c) /\ Empty(up) /\ Connected(up) = {} THEN "restart" ELSE "spawn")
        /\ UNCHANGED <<launched, call, toldVars>>
     \/ /\ up # 0 /\ cached' = [cached EXCEPT ![c] = 0]
        /\ Goto(c, "spawn") /\ UNCHANGED <<launched, call, toldVars>>
  /\ UNCHANGED <<up, build, stopping, default, session, unread, answer>>

\* A client waits for the host it launched to listen, or for the one it stopped
\* not to; both waits end after five seconds.
Await(c) ==
  /\ \/ phase[c] = "starting" /\ up # 0 /\ Goto(c, "spawn") /\ cached' = [cached EXCEPT ![c] = up]
     \/ phase[c] = "leaving" /\ up = 0 /\ Goto(c, "ensure") /\ cached' = [cached EXCEPT ![c] = 0]
  /\ UNCHANGED <<hostVars, session, unread, call, answer, toldVars>>
TimesOut(c) == /\ phase[c] \in {"starting", "leaving"} /\ Tell(c, "failed")
               /\ UNCHANGED <<hostVars, session, unread, answer, cached>>
\* The host closes its socket and goes.
HostStops == up # 0 /\ stopping /\ Down

Exchanges == {"restart", "spawn", "status", "attach", "close", "exists", "alive", "idle", "take"}
Request(c, h) == [client |-> c, session |-> call[c].session, phase |-> phase[c], host |-> h]
Waits(c) == phase[c] \in Exchanges /\ answer[c] = "none"
Gets(c, a) == answer' = [answer EXCEPT ![c] = a]

\* A host that is not expected is not asked; "restart" and "spawn" take any.
Expected(c) == call[c].expected \in {0, up} \/ phase[c] \in {"restart", "spawn"}
Known(h) == IF h \in Anonymous THEN 0 ELSE h

\* Connect, greet and send; or why not.
Connect(c) ==
  /\ Waits(c) /\ call[c].host = 0
  /\ \/ up = 0 /\ Gets(c, "refused") /\ UNCHANGED <<unread, call>>
     \/ up # 0 /\ ~Expected(c) /\ Gets(c, "changed") /\ UNCHANGED <<unread, call>>
     \/ up # 0 /\ Gets(c, "unheard") /\ UNCHANGED <<unread, call>>
     \/ /\ up # 0 /\ Expected(c)
        /\ unread' = unread \cup {Request(c, up)}
        /\ call' = [call EXCEPT ![c].host = up,
                                ![c].expected = IF phase[c] = "spawn" THEN Known(up) ELSE @]
        /\ UNCHANGED answer
  /\ UNCHANGED <<hostVars, session, phase, cached, toldVars>>

\* The connection breaks, or three seconds pass.  What was sent may arrive or not;
\* of a question that nobody waits for nothing comes.
GiveUp(c) ==
  LET sent == Request(c, call[c].host) IN
  /\ Waits(c) /\ call[c].host # 0 /\ Gets(c, "error")
  /\ \/ unread' = unread \ {sent}
     \/ phase[c] \in {"spawn", "close", "idle"} /\ UNCHANGED unread
  /\ UNCHANGED <<hostVars, session, phase, call, cached, toldVars>>

Ask(c, p) == Goto(c, p) /\ call' = [call EXCEPT ![c].host = 0] /\ UNCHANGED toldVars

-----------------------------------------------------------------------------
(* What comes of an answer *)

Answered(c, p, as) == phase[c] = p /\ answer[c] \in as
Unanswered == {"refused", "changed", "unheard", "error"}

NotSpawned(c) == Answered(c, "spawn", {"no", "refused", "unheard"})

\* spawn_attached, resolve_ambiguous_spawn, and the close of a session that
\* cannot be attached.
SpawnGoesOn(c) ==
  /\ call[c].op = "spawn"
  /\ \/ Answered(c, "restart", {"yes"}) /\ Ask(c, "leaving")
     \/ Answered(c, "restart", Unanswered \cup {"no"}) /\ Tell(c, "failed")
     \/ NotSpawned(c) /\ Tell(c, "failed")
     \/ Answered(c, "spawn", {"error"}) /\ call[c].expected = 0 /\ Tell(c, "ambiguous")
     \/ Answered(c, "spawn", {"error"}) /\ call[c].expected # 0 /\ Ask(c, "status")
     \/ Answered(c, "status", Unanswered \cup {"no"}) /\ Tell(c, "ambiguous")
     \/ (Answered(c, "spawn", {"yes"}) \/ Answered(c, "status", {"yes"})) /\ Ask(c, "attach")
     \/ Answered(c, "attach", {"yes"})
        /\ Tell(c, IF call[c].expected = 0 THEN "unidentified" ELSE "attached")
     \/ /\ Answered(c, "attach", Unanswered \cup {"no"})
        /\ IF call[c].expected = 0 THEN Tell(c, "orphaned") ELSE Ask(c, "close")
     \/ Answered(c, "close", {"yes", "no"}) /\ Tell(c, "failed")
     \/ Answered(c, "close", Unanswered) /\ Tell(c, "orphaned")

\* Nothing listens, or another instance does, or it says so.
\* Mutant: neither does silence mean that it is there.
NoSign(c) == Answered(c, "exists", Unanswered \cup {"no"})
NotThere(c) == Answered(c, "exists", {"refused", "changed", "no"})
IsGone(c) == \/ NotThere(c) \/ Answered(c, "alive", {"no"})
             \/ Answered(c, "idle", {"changed", "yes", "no"})
             \/ Answered(c, "take", {"changed", "no"})
ShouldTry(c) == Answered(c, "alive", {"ended"}) /\ ~call[c].tried
\* What is sent next over the same connection, if the host is still there.
\* Mutant: it reaches whatever host there is.
SentAnyway(c, p) == {[Request(c, call[c].host) EXCEPT !.phase = p]}
Sent(c, p) == {r \in {[Request(c, call[c].host) EXCEPT !.phase = p]} : r.host = up}
AskAlive(c) == /\ Goto(c, "alive") /\ UNCHANGED <<call, toldVars>>
               /\ unread' = unread \cup Sent(c, "alive")

StatusGoesOn(c) ==
  \/ /\ IsGone(c) /\ TellAbsent(c) /\ UNCHANGED unread
  \/ /\ Answered(c, "exists", {"yes"}) /\ AskAlive(c)
  \/ /\ ShouldTry(c) /\ Goto(c, "idle") /\ UNCHANGED <<unread, toldVars>>
     /\ call' = [call EXCEPT ![c].host = 0, ![c].tried = TRUE]
  \/ /\ Answered(c, "idle", {"refused", "unheard", "error"}) /\ Ask(c, "exists") /\ UNCHANGED unread
  \/ /\ \/ Answered(c, "exists", {"unheard", "error"}) \/ Answered(c, "alive", {"error"})
        \/ Answered(c, "idle", {"blocked"})
        \/ Answered(c, "alive", {"yes", "ended"}) /\ ~ShouldTry(c)
     /\ Return(c) /\ UNCHANGED <<unread, toldVars>>

\* stop_host_session: a close over the connection of the attachment, whose answer
\* is not awaited, and then the question until the session is gone or half a
\* second has passed.
StopGoesOn(c) ==
  /\ call[c].op = "stop"
  /\ \/ /\ Answered(c, "take", {"yes"})
        /\ unread' \in {unread, unread \cup Sent(c, "close")}
        /\ Ask(c, "exists")
     \/ /\ Answered(c, "take", {"refused", "unheard", "error"})
        /\ Goto(c, "exists") /\ UNCHANGED <<unread, toldVars>>
        /\ call' = [call EXCEPT ![c].host = 0, ![c].op = "reconcile"]
     \/ /\ Answered(c, "alive", {"yes"})
        /\ Goto(c, "exists") /\ UNCHANGED <<unread, toldVars>>
        /\ call' = [call EXCEPT ![c].host = 0, ![c].tried = FALSE]

Proceed(c) ==
  /\ answer[c] # "none" /\ Gets(c, "none")
  /\ \/ SpawnGoesOn(c) /\ UNCHANGED unread
     \/ call[c].op # "spawn" /\ (StatusGoesOn(c) \/ StopGoesOn(c))
  /\ UNCHANGED <<hostVars, session, cached>>

-----------------------------------------------------------------------------
(* Specification *)

ClientStep(c) == Ensure(c) \/ Await(c) \/ Connect(c) \/ GiveUp(c) \/ Proceed(c)
Next == \/ HostEnds \/ HostStarts \/ HostStops
        \/ \E r \in unread : Handle(r)
        \/ \E s \in Sessions : Ends(s, "ended") \/ Ends(s, "gone")
        \/ \E c \in Clients :
             \/ Spawn(c) \/ ClientStep(c) \/ TimesOut(c)
             \/ \E s \in Sessions, op \in {"reconcile", "idle", "stop"} : s[1] = c /\ About(c, s, op)

Spec == Init /\ [][Next]_vars

-----------------------------------------------------------------------------
(* Properties *)

Calls == [op : {"none", "spawn", "reconcile", "idle", "stop"}, session : Sessions \cup {<<>>},
          expected : 0..MaxHosts, host : 0..MaxHosts, tried : BOOLEAN]
Requests == [client : Clients, session : Sessions, phase : Exchanges, host : Hosts]

\* Every variable keeps its type; what a host has, or has yet to read, goes with it.
TypeOK ==
  /\ up \in 0..MaxHosts /\ build \in [Hosts -> Nat] /\ launched \in SUBSET Nat
  /\ stopping \in BOOLEAN /\ default \in BOOLEAN /\ (stopping \/ default => up # 0)
  /\ session \in [Sessions -> [state : {"none", "running", "ended", "gone"}, host : 0..MaxHosts]]
  /\ unread \in SUBSET Requests /\ \A r \in unread : r.host = up
  /\ phase \in [Clients -> Exchanges \cup {"rest", "ensure", "starting", "leaving"}]
  /\ call \in [Clients -> Calls]
  /\ answer \in [Clients -> {"none", "yes", "no", "ended", "blocked"} \cup Unanswered]
  /\ cached \in [Clients -> 0..MaxHosts]
  /\ outcome \in [Sessions -> {"none", "asked", "attached", "failed", "ambiguous", "orphaned",
                               "unidentified"}]
  /\ absent \in SUBSET Sessions

\* What spawn_attached and probe_session_reference tell is so, and stays so: a
\* session is made for a request at most once, never after a failure that is safe
\* to retry, and none that was called absent is there or comes back.
presence == [s \in Sessions |-> IF There(s) THEN "there" ELSE session[s].state]
Hosted == INSTANCE HostedSessions WITH told <- outcome
RefinesHostedSessions == Hosted!Spec
=============================================================================
