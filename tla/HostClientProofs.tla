--------------------------- MODULE HostClientProofs ---------------------------
(***************************************************************************)
(* Theorems about HostClient, for any applications, host instances and     *)
(* numbers of sessions.                                                    *)
(***************************************************************************)
EXTENDS HostClient, FiniteSetTheorems, TLAPS

-----------------------------------------------------------------------------
(* The inductive invariant *)

Before == {"ensure", "starting", "leaving", "restart"}
SpawnPhases == Before \cup {"spawn", "status", "attach", "close"}
StatusPhases == {"exists", "alive", "idle", "take"}

\* The requests to make s that a host may still read.
SpawnsOf(s) == {r \in unread : r.session = s /\ r.phase = "spawn"}
Unmade(s) == session[s].state = "none" /\ SpawnsOf(s) = {}
Made(s) == session[s].state # "none"
Gone(s) == session[s].state = "gone"

\* A client is in the phases of its call, and asks about its own sessions.
PhaseOf(c) ==
  /\ phase[c] = "rest" => call[c].op = "none"
  /\ phase[c] \in SpawnPhases => call[c].op = "spawn"
  /\ phase[c] \in StatusPhases => call[c].op \in {"reconcile", "idle", "stop"}
  /\ phase[c] # "rest" => call[c].session \in Sessions /\ call[c].session[1] = c
  /\ phase[c] \notin Exchanges => answer[c] = "none"
  /\ answer[c] \in {"yes", "no", "ended", "blocked"} => call[c].host # 0
PhaseInv == \A c \in Clients : PhaseOf(c)

\* The sessions there are are those of the host that listens; each is made once;
\* what clients were told of them was so, and stays so.
SessionOf(s) ==
  /\ There(s) => up # 0 /\ session[s].host = up
  /\ Made(s) => SpawnsOf(s) = {}
  /\ outcome[s] = "none" => Unmade(s)
  /\ outcome[s] = "failed" => ~There(s) /\ SpawnsOf(s) = {}
  /\ outcome[s] \in {"attached", "unidentified", "orphaned"} => Made(s)
  /\ s \in absent => Gone(s)
SessionInv == \A s \in Sessions : SessionOf(s)

\* A request is about a session of the client that sent it.
RequestInv == \A r \in unread : r.session[1] = r.client

\* A client asks for its sessions one after the other.
NumberInv ==
  \A c \in Clients : \E n \in 0..MaxSpawns : \A k \in 1..MaxSpawns :
    outcome[<<c, k>>] # "none" <=> k <= n

\* While a session is being started: none is made before the request is read, and
\* what the client has heard, or not heard, is true of it.
SpawnOf(c) ==
  LET s == call[c].session IN
  call[c].op = "spawn" =>
    /\ outcome[s] = "asked"
    /\ phase[c] \in Before => Unmade(s)
    /\ phase[c] = "spawn" /\ call[c].host = 0 => Unmade(s)
    /\ phase[c] = "spawn" /\ answer[c] = "none" =>
         ~Made(s) /\ \A r \in SpawnsOf(s) : r.host = call[c].host
    /\ phase[c] = "spawn" /\ answer[c] \in {"no", "refused", "unheard"} => Unmade(s)
    /\ phase[c] \in {"spawn", "status"} /\ answer[c] = "yes" => Made(s)
    /\ phase[c] \in {"attach", "close"} => Made(s)
    /\ phase[c] = "close" /\ answer[c] \in {"yes", "no"} => Gone(s)

\* While a client asks about a session that it shows.
StatusOf(c) ==
  LET s == call[c].session IN
  call[c].op \in {"reconcile", "idle", "stop"} =>
    /\ outcome[s] = "attached" /\ call[c].expected = session[s].host
    /\ answer[c] \in {"refused", "changed", "no"} => Gone(s)
    /\ phase[c] = "idle" /\ answer[c] = "yes" => Gone(s)

CallInv == \A c \in Clients : SpawnOf(c) /\ StatusOf(c)

IInv == TypeOK /\ PhaseInv /\ SessionInv /\ RequestInv /\ NumberInv /\ CallInv

-----------------------------------------------------------------------------
(* Types and phases *)

States == {"none", "running", "ended", "gone"}
SessionSet == [state : States, host : 0..MaxHosts]
PhaseSet == Exchanges \cup {"rest", "ensure", "starting", "leaving"}
AnswerSet == {"none", "yes", "no", "ended", "blocked"} \cup Unanswered
OutcomeSet == {"none", "asked", "attached", "failed", "ambiguous", "orphaned", "unidentified"}

\* TypeOK, by what changes together.
HostType == /\ up \in 0..MaxHosts /\ build \in [Hosts -> Nat] /\ launched \in SUBSET Nat
            /\ stopping \in BOOLEAN /\ default \in BOOLEAN /\ (stopping \/ default => up # 0)
WorldType == /\ session \in [Sessions -> SessionSet]
             /\ unread \in SUBSET Requests /\ \A r \in unread : r.host = up
ClientType == /\ phase \in [Clients -> PhaseSet] /\ call \in [Clients -> Calls]
              /\ answer \in [Clients -> AnswerSet] /\ cached \in [Clients -> 0..MaxHosts]
ToldType == outcome \in [Sessions -> OutcomeSet] /\ absent \in SUBSET Sessions

LEMMA TypeParts == TypeOK <=> HostType /\ WorldType /\ ClientType /\ ToldType
BY DEF TypeOK, HostType, WorldType, ClientType, ToldType, States, SessionSet, PhaseSet,
   AnswerSet, OutcomeSet

LEMMA TypePartsNext == TypeOK' <=> HostType' /\ WorldType' /\ ClientType' /\ ToldType'
BY DEF TypeOK, HostType, WorldType, ClientType, ToldType, States, SessionSet, PhaseSet,
   AnswerSet, OutcomeSet

LEMMA NoCallType == NoCall \in Calls /\ NoCall.op = "none" /\ NoCall.host = 0
BY BoundsAssumption DEF NoCall, Calls

\* A call that a client makes.
LEMMA MakeType ==
  ASSUME ClientType, NEW c \in Clients, NEW p \in PhaseSet \ {"rest"},
         NEW op \in {"spawn", "reconcile", "idle", "stop"},
         NEW s \in Sessions, NEW e \in 0..MaxHosts, Make(c, p, op, s, e)
  PROVE  /\ phase[c] = "rest" /\ phase' = [phase EXCEPT ![c] = p] /\ phase' \in [Clients -> PhaseSet]
         /\ call' \in [Clients -> Calls] /\ \A d \in Clients \ {c} : call'[d] = call[d]
         /\ call'[c].op = op /\ call'[c].session = s /\ call'[c].expected = e /\ call'[c].host = 0
<1> DEFINE made == [NoCall EXCEPT !.op = op, !.session = s, !.expected = e, !.tried = (op = "idle")]
<1>1. made \in Calls /\ made.op = op /\ made.session = s /\ made.expected = e /\ made.host = 0
  <2>1. ASSUME NEW b \in BOOLEAN, b = (op = "idle")
        PROVE  made \in Calls /\ made.op = op /\ made.session = s /\ made.expected = e /\ made.host = 0
    <3> DEFINE typed == [NoCall EXCEPT !.op = op, !.session = s, !.expected = e, !.tried = b]
    <3>1. typed \in Calls /\ typed.op = op /\ typed.session = s /\ typed.expected = e /\ typed.host = 0
      BY NoCallType DEF Calls
    <3>2. made = typed
      BY <2>1
    <3> HIDE DEF made, typed
    <3> QED BY <3>1, <3>2
  <2> HIDE DEF made
  <2>2. CASE op = "idle"
    BY <2>1, <2>2
  <2>3. CASE op # "idle"
    BY <2>1, <2>3
  <2> QED BY <2>2, <2>3
<1>2. call' = [call EXCEPT ![c] = made]
  BY DEF Make
<1> HIDE DEF made
<1> QED BY <1>1, <1>2 DEF Make, Goto, ClientType

\* A call goes on to its next exchange, or ends.
LEMMA AskType ==
  ASSUME ClientType, NEW c \in Clients, NEW p \in PhaseSet, Ask(c, p)
  PROVE  /\ phase' = [phase EXCEPT ![c] = p] /\ phase' \in [Clients -> PhaseSet]
         /\ call' \in [Clients -> Calls] /\ \A d \in Clients \ {c} : call'[d] = call[d]
         /\ call'[c].op = call[c].op /\ call'[c].session = call[c].session
         /\ call'[c].expected = call[c].expected /\ call'[c].host = 0
         /\ UNCHANGED toldVars
<1>1. call' = [call EXCEPT ![c].host = 0]
  BY DEF Ask
<1>2. call[c] \in Calls /\ 0 \in 0..MaxHosts
  BY BoundsAssumption DEF ClientType
<1>3. /\ [call[c] EXCEPT !.host = 0] \in Calls
      /\ [call[c] EXCEPT !.host = 0].op = call[c].op
      /\ [call[c] EXCEPT !.host = 0].session = call[c].session
      /\ [call[c] EXCEPT !.host = 0].expected = call[c].expected
      /\ [call[c] EXCEPT !.host = 0].host = 0
  BY <1>2 DEF Calls
<1>4. call' = [call EXCEPT ![c] = [call[c] EXCEPT !.host = 0]]
  BY <1>1
<1> QED BY <1>3, <1>4 DEF Ask, Goto, ClientType

LEMMA ReturnType ==
  ASSUME ClientType, NEW c \in Clients, Return(c)
  PROVE  /\ phase' = [phase EXCEPT ![c] = "rest"] /\ phase' \in [Clients -> PhaseSet]
         /\ call' = [call EXCEPT ![c] = NoCall] /\ call' \in [Clients -> Calls]
BY NoCallType DEF Return, Goto, ClientType, PhaseSet

LEMMA TellType ==
  ASSUME ClientType, ToldType, NEW c \in Clients, call[c].session \in Sessions,
         NEW what \in OutcomeSet, Tell(c, what)
  PROVE  /\ ToldType' /\ phase' = [phase EXCEPT ![c] = "rest"] /\ phase' \in [Clients -> PhaseSet]
         /\ call' = [call EXCEPT ![c] = NoCall] /\ call' \in [Clients -> Calls]
BY ReturnType DEF Tell, ToldType

\* What clients ask is a request.
LEMMA RequestType ==
  ASSUME ClientType, NEW c \in Clients, NEW h \in Hosts, call[c].session \in Sessions,
         phase[c] \in Exchanges
  PROVE  /\ Request(c, h) \in Requests /\ Request(c, h).client = c
         /\ Request(c, h).session = call[c].session
         /\ Request(c, h).phase = phase[c] /\ Request(c, h).host = h
BY DEF Request, Requests

LEMMA SentType ==
  ASSUME ClientType, HostType, NEW c \in Clients, call[c].session \in Sessions, call[c].host # 0,
         NEW p \in {"alive", "close"}, NEW r \in Sent(c, p)
  PROVE  /\ r \in Requests /\ r.client = c /\ r.session = call[c].session /\ r.phase = p /\ r.host = up
<1>1. r = [Request(c, call[c].host) EXCEPT !.phase = p] /\ r.host = up
  BY DEF Sent
<1>2. r = [client |-> c, session |-> call[c].session, phase |-> p, host |-> call[c].host]
  BY <1>1 DEF Request
<1>3. call[c].host = up /\ up \in Hosts
  BY <1>1, <1>2, BoundsAssumption DEF HostType, Hosts
<1> QED BY <1>2, <1>3 DEF Requests, Exchanges

-----------------------------------------------------------------------------
(* What a step leaves as it is *)

\* Session s is made no more than it was and not less gone; who asked for it has
\* been told nothing new.
Keeps(s) == /\ outcome'[s] = outcome[s]
            /\ (Made(s)' <=> Made(s)) /\ (Gone(s) => Gone(s)')
            /\ session'[s].host = session[s].host
            /\ SpawnsOf(s)' \subseteq SpawnsOf(s)
            /\ There(s)' => There(s) /\ up' = up
Alike(c) == phase'[c] = phase[c] /\ call'[c] = call[c] /\ answer'[c] = answer[c]
ClientOf(c) == PhaseOf(c) /\ SpawnOf(c) /\ StatusOf(c)

LEMMA KeptClient ==
  ASSUME NEW c \in Clients, ClientOf(c), Alike(c), phase[c] # "rest" => Keeps(call[c].session)
  PROVE  ClientOf(c)'
<1>1. PhaseOf(c)'
  BY DEF ClientOf, PhaseOf, Alike
<1>2. CASE phase[c] = "rest"
  BY <1>1, <1>2 DEF ClientOf, PhaseOf, SpawnOf, StatusOf, Alike
<1>3. CASE phase[c] # "rest"
  <2> DEFINE s == call[c].session
  <2>1. Keeps(s) /\ call'[c].session = s
    BY <1>3 DEF Alike
  <2>2. Unmade(s) => Unmade(s)'
    BY <2>1 DEF Keeps, Made, Unmade
  <2>3. SpawnOf(c)'
    BY <2>1, <2>2 DEF ClientOf, SpawnOf, Alike, Keeps
  <2>4. StatusOf(c)'
    BY <2>1 DEF ClientOf, StatusOf, Alike, Keeps
  <2> QED BY <1>1, <2>3, <2>4 DEF ClientOf
<1> QED BY <1>2, <1>3

LEMMA KeptSession ==
  ASSUME NEW s \in Sessions, SessionOf(s), Keeps(s), s \in absent' => s \in absent
  PROVE  SessionOf(s)'
BY DEF SessionOf, Keeps, Made, Unmade

LEMMA KeptNumbers ==
  ASSUME NumberInv, \A s \in Sessions : outcome'[s] = "none" <=> outcome[s] = "none"
  PROVE  NumberInv'
BY DEF NumberInv, Sessions

\* A step of client c that changes no session.
LEMMA KeptOthers ==
  ASSUME IInv, NEW c \in Clients, UNCHANGED <<up, session>>,
         \A d \in Clients \ {c} : Alike(d),
         \A s \in Sessions : s[1] # c =>
           /\ outcome'[s] = outcome[s] /\ SpawnsOf(s)' \subseteq SpawnsOf(s)
           /\ s \in absent' => s \in absent
  PROVE  /\ \A d \in Clients \ {c} : ClientOf(d)'
         /\ \A s \in Sessions : s[1] # c => SessionOf(s)'
<1>1. ASSUME NEW s \in Sessions, s[1] # c
      PROVE  Keeps(s)
  BY <1>1 DEF Keeps, Made, Gone, There
<1>2. ASSUME NEW s \in Sessions, s[1] # c
      PROVE  SessionOf(s)'
  BY <1>1, <1>2, KeptSession DEF IInv, SessionInv
<1>3. ASSUME NEW d \in Clients \ {c}
      PROVE  ClientOf(d)'
  <2>1. ClientOf(d)
    BY DEF IInv, PhaseInv, CallInv, ClientOf
  <2>2. ASSUME phase[d] # "rest"
        PROVE  Keeps(call[d].session)
    BY <1>1, <2>1, <2>2 DEF ClientOf, PhaseOf
  <2> QED BY <2>1, <2>2, KeptClient
<1> QED BY <1>2, <1>3

\* The requests to make a session come from the client it is named after, and
\* there is one at most.
LEMMA OneSpawn ==
  ASSUME TypeOK, RequestInv, NEW s \in Sessions, NEW r \in SpawnsOf(s), NEW q \in SpawnsOf(s)
  PROVE  r = q
<1>1. r \in Requests /\ q \in Requests /\ r.host = up /\ q.host = up
  BY DEF TypeOK, SpawnsOf
<1>2. r.client = q.client /\ r.session = q.session /\ r.phase = q.phase
  BY DEF RequestInv, SpawnsOf
<1> QED BY <1>1, <1>2 DEF Requests

LEMMA Parts == IInv' <=> /\ TypeOK' /\ RequestInv' /\ NumberInv'
                         /\ \A c \in Clients : ClientOf(c)'
                         /\ \A s \in Sessions : SessionOf(s)'
BY DEF IInv, PhaseInv, SessionInv, CallInv, ClientOf

-----------------------------------------------------------------------------
(* The first state, and the steps of the host *)

LEMMA InitInv == Init => IInv
<1> SUFFICES ASSUME Init PROVE IInv
  OBVIOUS
<1>1. TypeOK
  <2>1. HostType
    <3>1. 0 \in 0..MaxHosts /\ 0 \in Nat
      BY BoundsAssumption
    <3>2. build \in [Hosts -> Nat]
      BY <3>1 DEF Init
    <3> QED BY <3>1, <3>2, Zenon DEF Init, HostType
  <2>2. WorldType
    BY BoundsAssumption DEF Init, WorldType, Session, SessionSet, States
  <2>3. ClientType
    BY BoundsAssumption, NoCallType DEF Init, ClientType, PhaseSet, AnswerSet
  <2>4. ToldType
    BY DEF Init, ToldType, OutcomeSet
  <2> QED BY <2>1, <2>2, <2>3, <2>4, TypeParts
<1>2. PhaseInv /\ CallInv
  BY NoCallType DEF Init, PhaseInv, PhaseOf, CallInv, SpawnOf, StatusOf, SpawnPhases, StatusPhases,
     Before, Exchanges
<1>3. SessionInv /\ RequestInv
  BY DEF Init, SessionInv, SessionOf, RequestInv, There, Made, Unmade, SpawnsOf, Session
<1>4. NumberInv
  <2>1. ASSUME NEW c \in Clients
        PROVE  \A k \in 1..MaxSpawns : outcome[<<c, k>>] # "none" <=> k <= 0
    BY BoundsAssumption DEF Init, Sessions
  <2> QED BY <2>1, BoundsAssumption DEF NumberInv
<1> QED BY <1>1, <1>2, <1>3, <1>4 DEF IInv

\* A step of the host that changes no call: nothing more is there, or made.
LEMMA QuietHost ==
  ASSUME IInv, TypeOK', UNCHANGED <<phase, call, answer, toldVars>>, unread' \subseteq unread,
         \A s \in Sessions : Keeps(s)
  PROVE  IInv'
<1>1. \A c \in Clients : Alike(c)
  BY DEF Alike
<1>2. ASSUME NEW c \in Clients
      PROVE  ClientOf(c)'
  <2>1. ClientOf(c)
    BY DEF IInv, PhaseInv, CallInv, ClientOf
  <2> QED BY <1>1, <2>1, KeptClient DEF ClientOf, PhaseOf
<1>3. ASSUME NEW s \in Sessions
      PROVE  SessionOf(s)'
  BY KeptSession DEF IInv, SessionInv, toldVars
<1>4. RequestInv' /\ NumberInv'
  BY KeptNumbers DEF IInv, RequestInv, toldVars
<1> QED BY <1>2, <1>3, <1>4, Parts

LEMMA DownStep == IInv /\ Down => IInv'
<1> SUFFICES ASSUME IInv, Down PROVE IInv'
  OBVIOUS
<1> USE DEF hostVars, toldVars
<1>0. HostType /\ WorldType /\ ClientType /\ ToldType /\ SessionInv
  BY TypeParts DEF IInv
<1>1. unread' = {}
  BY <1>0 DEF Down, WorldType
<1>2. session' = [s \in Sessions |-> IF Registered(s, up) THEN Session("gone", up) ELSE session[s]]
  BY DEF Down
<1>3. TypeOK'
  <2>1. HostType'
    <3>1. 0 \in 0..MaxHosts
      BY BoundsAssumption
    <3> QED BY <1>0, <3>1, Zenon DEF Down, HostType
  <2>2. WorldType'
    BY <1>0, <1>1, <1>2 DEF HostType, WorldType, Session, SessionSet, States
  <2>3. ClientType' /\ ToldType'
    BY <1>0 DEF Down, ClientType, ToldType
  <2> QED BY <2>1, <2>2, <2>3, TypePartsNext
<1>4. ASSUME NEW s \in Sessions
      PROVE  Keeps(s)
  <2>1. SpawnsOf(s)' = {} /\ outcome'[s] = outcome[s]
    BY <1>1 DEF SpawnsOf, Down
  <2>2. CASE Registered(s, up)
    <3>1. session'[s].state = "gone" /\ session'[s].host = up
      BY <1>2, <2>2 DEF Session
    <3> QED BY <2>1, <2>2, <3>1 DEF Keeps, Registered, There, Made, Gone
  <2>3. CASE ~Registered(s, up)
    <3>1. session'[s] = session[s]
      BY <1>2, <2>3
    <3>2. ~There(s)
      BY <1>0, <2>3 DEF SessionInv, SessionOf, Registered
    <3> QED BY <2>1, <3>1, <3>2 DEF Keeps, There, Made, Gone
  <2> QED BY <2>2, <2>3
<1> QED BY <1>1, <1>3, <1>4, QuietHost DEF Down

LEMMA StartsStep == IInv /\ HostStarts => IInv'
<1> SUFFICES ASSUME IInv, HostStarts PROVE IInv'
  OBVIOUS
<1> USE DEF hostVars, toldVars
<1>0. HostType /\ WorldType /\ ClientType /\ ToldType /\ SessionInv
  BY TypeParts DEF IInv
<1>1. UNCHANGED <<stopping, default, session, unread, phase, call, answer, cached, toldVars>>
  BY DEF HostStarts
<1>2. HostType' /\ (up' = up \/ up = 0)
  BY <1>0 DEF HostStarts, HostType, Hosts
<1>3. up = 0 => unread = {}
  BY <1>0 DEF WorldType, Requests, Hosts
<1>4. WorldType'
  BY <1>0, <1>1, <1>2, <1>3 DEF WorldType
<1>5. ClientType' /\ ToldType'
  BY <1>0, <1>1 DEF ClientType, ToldType
<1>6. \A s \in Sessions : Keeps(s)
  BY <1>0, <1>1, <1>2 DEF Keeps, SessionInv, SessionOf, There, Made, Gone, SpawnsOf
<1> QED BY <1>1, <1>2, <1>4, <1>5, <1>6, TypePartsNext, QuietHost

LEMMA EndsStep ==
  ASSUME IInv, NEW s \in Sessions, NEW state \in {"ended", "gone"}, Ends(s, state)
  PROVE  IInv'
<1> USE DEF hostVars, toldVars
<1>0. HostType /\ WorldType /\ ClientType /\ ToldType
  BY TypeParts DEF IInv
<1>1. /\ There(s) /\ session' = [session EXCEPT ![s].state = state]
      /\ UNCHANGED <<hostVars, unread, phase, call, answer, cached, toldVars>>
  BY DEF Ends
<1>2. session'[s].state = state /\ session'[s].host = session[s].host
  BY <1>0, <1>1 DEF WorldType, SessionSet
<1>3. TypeOK'
  <2>1. WorldType'
    BY <1>0, <1>1 DEF WorldType, SessionSet, States
  <2>2. HostType' /\ ClientType' /\ ToldType'
    BY <1>0, <1>1 DEF HostType, ClientType, ToldType
  <2> QED BY <2>1, <2>2, TypePartsNext
<1>4. ASSUME NEW q \in Sessions
      PROVE  Keeps(q)
  <2>1. CASE q = s
    BY <1>1, <1>2, <2>1 DEF Keeps, Made, Gone, There, SpawnsOf
  <2>2. CASE q # s
    BY <1>0, <1>1, <2>2 DEF Keeps, Made, Gone, There, SpawnsOf, WorldType
  <2> QED BY <2>1, <2>2
<1> QED BY <1>1, <1>3, <1>4, QuietHost

-----------------------------------------------------------------------------
(* A request is handled *)

\* The answer finds its client.
Waiting(r) == /\ phase[r.client] = r.phase /\ call[r.client].session = r.session
              /\ call[r.client].host = r.host /\ answer[r.client] = "none"

LEMMA AnswerType ==
  ASSUME ClientType, NEW r \in Requests, NEW a \in AnswerSet, Answers(r, a)
  PROVE  /\ answer' \in [Clients -> AnswerSet]
         /\ \A d \in Clients \ {r.client} : answer'[d] = answer[d]
         /\ answer'[r.client] = IF Waiting(r) THEN a ELSE answer[r.client]
<1>1. r.client \in Clients
  BY DEF Requests
<1>2. CASE Waiting(r)
  <2>1. answer' = [answer EXCEPT ![r.client] = a]
    BY <1>2 DEF Answers, Waiting
  <2> QED BY <1>1, <1>2, <2>1 DEF ClientType
<1>3. CASE ~Waiting(r)
  <2>1. answer' = [answer EXCEPT ![r.client] = answer[r.client]]
    BY <1>3 DEF Answers, Waiting
  <2> QED BY <1>1, <1>3, <2>1 DEF ClientType
<1> QED BY <1>2, <1>3

\* Whatever the answer is: the clients that it does not find, and the sessions
\* that the request is not about, are as they were.
LEMMA HandleOthers ==
  ASSUME IInv, NEW r \in unread, Handle(r), NEW a \in AnswerSet, Answers(r, a),
         \A s \in Sessions \ {r.session} : session'[s] = session[s]
  PROVE  /\ \A s \in Sessions \ {r.session} : Keeps(s) /\ SessionOf(s)'
         /\ \A d \in Clients \ {r.client} : ClientOf(d)'
         /\ RequestInv' /\ NumberInv'
         /\ HostType' /\ ClientType' /\ ToldType'
<1> USE DEF hostVars, toldVars
<1>0. HostType /\ WorldType /\ ClientType /\ ToldType /\ r \in Requests /\ r.host = up
  BY TypeParts DEF IInv, WorldType
<1>1. /\ unread' = unread \ {r} /\ UNCHANGED <<up, build, launched, phase, call, cached, toldVars>>
  BY DEF Handle
<1>2. ASSUME NEW s \in Sessions \ {r.session}
      PROVE  Keeps(s) /\ SessionOf(s)'
  <2>1. Keeps(s)
    BY <1>1 DEF Keeps, Made, Gone, There, SpawnsOf
  <2> QED BY <1>1, <2>1, KeptSession DEF IInv, SessionInv
<1>3. ASSUME NEW d \in Clients \ {r.client}
      PROVE  ClientOf(d)'
  <2>1. ClientOf(d) /\ r.session[1] = r.client
    BY DEF IInv, PhaseInv, CallInv, ClientOf, RequestInv
  <2>2. Alike(d)
    BY <1>0, <1>1, AnswerType DEF Alike
  <2>3. phase[d] # "rest" => Keeps(call[d].session)
    BY <1>2, <2>1 DEF ClientOf, PhaseOf
  <2> QED BY <2>1, <2>2, <2>3, KeptClient
<1>4. RequestInv' /\ NumberInv'
  BY <1>1, KeptNumbers DEF IInv, RequestInv
<1>5. HostType'
  <2>1. up # 0
    BY <1>0 DEF Requests, Hosts
  <2>2. stopping' \in BOOLEAN /\ default' \in BOOLEAN
    BY <1>0, Zenon DEF Handle, Handles, HostType
  <2> QED BY <1>0, <1>1, <2>1, <2>2, Zenon DEF HostType
<1>6. ClientType' /\ ToldType'
  BY <1>0, <1>1, AnswerType DEF ClientType, ToldType
<1> QED BY <1>2, <1>3, <1>4, <1>5, <1>6

\* What a request comes to that makes no session: the answer is true of it.
LEMMA HandleKeeps ==
  ASSUME IInv, NEW r \in unread, Handle(r), NEW a \in {"yes", "no", "ended", "blocked"}, Answers(r, a),
         \/ session' = session
         \/ There(r.session) /\ session' = [session EXCEPT ![r.session] = Session("gone", r.host)],
         r.phase \in {"spawn", "restart"} => session' = session /\ (r.phase = "spawn" => a = "no"),
         r.phase = "status" /\ a = "yes" => There(r.session),
         r.phase \in {"close", "idle"} /\ a = "yes" => Gone(r.session)',
         r.phase \in {"close", "exists", "alive", "idle", "take"} /\ a = "no" => ~There(r.session)
  PROVE  IInv'
<1> USE DEF hostVars, toldVars
<1> DEFINE s == r.session
           c == r.client
<1>0. /\ HostType /\ WorldType /\ ClientType /\ ToldType /\ r \in Requests /\ r.host = up
      /\ s \in Sessions /\ c \in Clients /\ a \in AnswerSet /\ s[1] = c
  BY TypeParts DEF IInv, WorldType, Requests, AnswerSet, RequestInv
<1>1. /\ unread' = unread \ {r} /\ UNCHANGED <<up, build, launched, phase, call, cached, toldVars>>
  BY DEF Handle
<1>2. \A q \in Sessions \ {s} : session'[q] = session[q]
  BY <1>0 DEF WorldType
<1>3. SessionOf(s) /\ ClientOf(c)
  BY <1>0 DEF IInv, SessionInv, PhaseInv, CallInv, ClientOf
<1>4. Keeps(s)
  <2>1. CASE session' = session
    BY <1>1, <2>1 DEF Keeps, Made, Gone, There, SpawnsOf
  <2>2. CASE There(s) /\ session' = [session EXCEPT ![s] = Session("gone", r.host)]
    <3>1. session'[s].state = "gone" /\ session'[s].host = session[s].host
      BY <1>0, <1>3, <2>2 DEF Session, WorldType, SessionOf
    <3> QED BY <1>1, <2>2, <3>1 DEF Keeps, Made, Gone, There, SpawnsOf
  <2> QED BY <2>1, <2>2
<1>5. SessionOf(s)'
  BY <1>0, <1>1, <1>3, <1>4, KeptSession
<1>6. ClientOf(c)'
  <2>1. CASE ~Waiting(r)
    <3>1. Alike(c)
      BY <1>0, <1>1, <2>1, AnswerType DEF Alike
    <3>2. CASE phase[c] # "rest" => Keeps(call[c].session)
      BY <1>0, <1>3, <3>1, <3>2, KeptClient
    <3>3. CASE phase[c] # "rest" /\ call[c].session # s
      <4>1. call[c].session \in Sessions \ {s}
        BY <1>3, <3>3 DEF ClientOf, PhaseOf
      <4> QED BY <1>0, <1>2, <1>3, <3>1, <4>1, HandleOthers, KeptClient
    <3> QED BY <1>4, <3>2, <3>3
  <2>2. CASE Waiting(r)
    <3>1. /\ phase'[c] = r.phase /\ phase[c] = r.phase /\ call'[c] = call[c] /\ call[c].session = s
          /\ call[c].host = up /\ up # 0 /\ answer'[c] = a /\ answer[c] = "none"
      BY <1>0, <1>1, <2>2, AnswerType DEF Waiting, Requests, Hosts
    <3>2. r.phase \in Exchanges
      BY <1>0 DEF Requests
    <3>3. PhaseOf(c)'
      BY <1>3, <3>1, <3>2 DEF ClientOf, PhaseOf
    <3>4. SpawnOf(c)'
      <4> SUFFICES ASSUME call[c].op = "spawn" PROVE SpawnOf(c)'
        BY <3>1 DEF SpawnOf
      <4>1. outcome[s] = "asked" /\ r.phase \in {"spawn", "status", "attach", "close", "restart"}
        BY <1>3, <3>1, <3>2 DEF ClientOf, PhaseOf, SpawnOf, StatusPhases, Exchanges
      <4>2. CASE r.phase = "spawn"
        <5>1. a = "no" /\ session' = session /\ ~Made(s)
          BY <1>3, <3>1, <4>2 DEF ClientOf, SpawnOf
        <5>2. SpawnsOf(s)' = {}
          <6>1. r \in SpawnsOf(s)
            BY <4>2 DEF SpawnsOf
          <6> QED BY <1>0, <1>1, <6>1, OneSpawn DEF SpawnsOf, IInv
        <5>3. Unmade(s)'
          BY <5>1, <5>2 DEF Unmade, Made
        <5> QED BY <1>1, <3>1, <4>1, <4>2, <5>1, <5>3 DEF SpawnOf, Before
      <4>3. CASE r.phase = "restart"
        <5>1. Unmade(s)
          BY <1>3, <3>1, <4>3 DEF ClientOf, SpawnOf, Before
        <5>2. Unmade(s)'
          BY <1>4, <5>1 DEF Unmade, Keeps, Made
        <5> QED BY <1>1, <3>1, <4>1, <4>3, <5>2 DEF SpawnOf
      <4>4. CASE r.phase = "status"
        <5>1. a = "yes" => Made(s)'
          BY <1>4, <4>4 DEF Keeps, There, Made
        <5> QED BY <1>1, <3>1, <4>1, <4>4, <5>1 DEF SpawnOf, Before
      <4>5. CASE r.phase = "attach"
        <5>1. Made(s)'
          BY <1>3, <1>4, <3>1, <4>5 DEF ClientOf, SpawnOf, Keeps
        <5> QED BY <1>1, <3>1, <4>1, <4>5, <5>1 DEF SpawnOf, Before
      <4>6. CASE r.phase = "close"
        <5>1. Made(s) /\ Made(s)'
          BY <1>3, <1>4, <3>1, <4>6 DEF ClientOf, SpawnOf, Keeps
        <5>2. a \in {"yes", "no"} => Gone(s)'
          <6>1. ~There(s) => Gone(s)
            BY <1>0, <5>1 DEF There, Made, Gone, WorldType, SessionSet, States
          <6> QED BY <1>4, <4>6, <6>1 DEF Keeps
        <5> QED BY <1>1, <3>1, <4>1, <4>6, <5>1, <5>2 DEF SpawnOf, Before
      <4> QED BY <4>1, <4>2, <4>3, <4>4, <4>5, <4>6
    <3>5. StatusOf(c)'
      <4> SUFFICES ASSUME call[c].op \in {"reconcile", "idle", "stop"} PROVE StatusOf(c)'
        BY <3>1 DEF StatusOf
      <4>1. outcome[s] = "attached" /\ call[c].expected = session[s].host /\ Made(s)
        BY <1>3, <3>1 DEF ClientOf, StatusOf, SessionOf
      <4>2. r.phase \in {"close", "exists", "alive", "idle", "take"}
        BY <1>3, <3>1, <3>2 DEF ClientOf, PhaseOf, SpawnPhases, Before, Exchanges
      <4>3. a = "no" => Gone(s)'
        <5>1. ~There(s) => Gone(s)
          BY <1>0, <4>1 DEF There, Made, Gone, WorldType, SessionSet, States
        <5> QED BY <1>4, <4>2, <5>1 DEF Keeps
      <4>4. r.phase = "idle" /\ a = "yes" => Gone(s)'
        OBVIOUS
      <4>5. call'[c].expected = session'[s].host /\ outcome'[s] = "attached"
        BY <1>4, <3>1, <4>1 DEF Keeps
      <4> QED BY <3>1, <4>3, <4>4, <4>5 DEF StatusOf
    <3> QED BY <3>3, <3>4, <3>5 DEF ClientOf
  <2> QED BY <2>1, <2>2
<1>7. WorldType'
  <2>1. session' \in [Sessions -> SessionSet]
    BY <1>0 DEF WorldType, Session, SessionSet, States, HostType
  <2> QED BY <1>0, <1>1, <2>1 DEF WorldType
<1>8. TypeOK' /\ RequestInv' /\ NumberInv'
  BY <1>0, <1>2, <1>7, HandleOthers, TypePartsNext
<1> QED BY <1>0, <1>2, <1>5, <1>6, <1>8, HandleOthers, Parts

\* A session is made: nobody has been told that there is none.
LEMMA HandleMakes ==
  ASSUME IInv, NEW r \in unread, Handle(r), r.phase = "spawn", Answers(r, "yes"),
         session' = [session EXCEPT ![r.session] = Session("running", r.host)]
  PROVE  IInv'
<1> USE DEF hostVars, toldVars
<1> DEFINE s == r.session
           c == r.client
<1>0. /\ HostType /\ WorldType /\ ClientType /\ ToldType /\ r \in Requests /\ r.host = up /\ up # 0
      /\ s \in Sessions /\ c \in Clients /\ s[1] = c /\ "yes" \in AnswerSet
  BY TypeParts DEF IInv, WorldType, Requests, AnswerSet, RequestInv, Hosts
<1>1. /\ unread' = unread \ {r} /\ UNCHANGED <<up, build, launched, phase, call, cached, toldVars>>
  BY DEF Handle
<1>2. \A q \in Sessions \ {s} : session'[q] = session[q]
  BY <1>0 DEF WorldType
<1>3. SessionOf(s) /\ ClientOf(c)
  BY <1>0 DEF IInv, SessionInv, PhaseInv, CallInv, ClientOf
<1>4. session'[s].state = "running" /\ session'[s].host = up
  BY <1>0 DEF WorldType, Session
<1>5. r \in SpawnsOf(s) /\ SpawnsOf(s)' = {} /\ ~Made(s) /\ ~Unmade(s)
  <2>1. r \in SpawnsOf(s)
    BY DEF SpawnsOf
  <2>2. SpawnsOf(s)' = {}
    BY <1>0, <1>1, <2>1, OneSpawn DEF SpawnsOf, IInv
  <2> QED BY <1>3, <2>1, <2>2 DEF SessionOf, Unmade
<1>6. SessionOf(s)'
  BY <1>0, <1>1, <1>3, <1>4, <1>5 DEF SessionOf, Made, Gone, There
<1>7. ClientOf(c)'
  <2>1. CASE phase[c] = "rest" \/ call[c].session # s
    <3>1. Alike(c)
      <4>1. ~Waiting(r)
        BY <1>0, <2>1 DEF Waiting
      <4> QED BY <1>0, <1>1, <4>1, AnswerType DEF Alike
    <3>2. phase[c] # "rest" => Keeps(call[c].session)
      BY <1>0, <1>2, <1>3, <2>1, HandleOthers DEF ClientOf, PhaseOf
    <3> QED BY <1>0, <1>3, <3>1, <3>2, KeptClient
  <2>2. CASE phase[c] # "rest" /\ call[c].session = s
    <3>1. call[c].op \notin {"reconcile", "idle", "stop"}
      BY <1>3, <1>5, <2>2 DEF ClientOf, StatusOf, SessionOf
    <3>2. StatusOf(c)'
      BY <1>1, <3>1 DEF StatusOf
    <3>3. answer'[c] = IF Waiting(r) THEN "yes" ELSE answer[c]
      BY <1>0, AnswerType
    <3>4. Waiting(r) => phase[c] = "spawn" /\ call[c].host = up
      BY <1>0 DEF Waiting
    <3>5. PhaseOf(c)'
      BY <1>0, <1>1, <1>3, <3>3, <3>4 DEF ClientOf, PhaseOf, Exchanges
    <3>6. SpawnOf(c)'
      <4> SUFFICES ASSUME call[c].op = "spawn" PROVE SpawnOf(c)'
        BY <1>1 DEF SpawnOf
      <4>1. /\ outcome[s] = "asked" /\ phase[c] \notin Before
            /\ ~(phase[c] = "spawn" /\ call[c].host = 0)
            /\ ~(phase[c] = "spawn" /\ answer[c] \in {"no", "refused", "unheard"})
            /\ phase[c] \notin {"attach", "close"}
        BY <1>3, <1>5, <2>2 DEF ClientOf, SpawnOf
      <4>2. phase[c] = "spawn" /\ answer[c] = "none" => Waiting(r)
        BY <1>0, <1>3, <1>5, <2>2 DEF ClientOf, SpawnOf, Waiting
      <4>3. phase[c] = "spawn" => answer'[c] \notin {"none", "no", "refused", "unheard"}
        BY <3>3, <4>1, <4>2
      <4>4. Made(s)'
        BY <1>4 DEF Made
      <4> QED BY <1>1, <2>2, <4>1, <4>3, <4>4 DEF SpawnOf
    <3> QED BY <3>2, <3>5, <3>6 DEF ClientOf
  <2> QED BY <2>1, <2>2
<1>8. WorldType'
  <2>1. session' \in [Sessions -> SessionSet]
    BY <1>0 DEF WorldType, Session, SessionSet, States, HostType
  <2> QED BY <1>0, <1>1, <2>1 DEF WorldType
<1>9. TypeOK' /\ RequestInv' /\ NumberInv'
  BY <1>0, <1>2, <1>8, HandleOthers, TypePartsNext
<1> QED BY <1>0, <1>2, <1>6, <1>7, <1>9, HandleOthers, Parts

LEMMA HandleStep ==
  ASSUME IInv, NEW r \in unread, Handle(r)
  PROVE  IInv'
<1> DEFINE s == r.session
<1>0. /\ r \in Requests /\ r.host = up /\ s \in Sessions
      /\ (There(s) => Registered(s, r.host)) /\ (Registered(s, r.host) => There(s))
      /\ session \in [Sessions -> SessionSet]
  <2>1. r \in Requests /\ r.host = up /\ session \in [Sessions -> SessionSet]
    BY TypeParts DEF IInv, WorldType
  <2>2. s \in Sessions
    BY <2>1 DEF Requests
  <2> QED BY <2>1, <2>2 DEF Registered, IInv, SessionInv, SessionOf
<1>1. CASE /\ r.phase = "spawn" /\ Answers(r, "yes")
           /\ session' = [session EXCEPT ![s] = Session("running", r.host)]
  BY <1>1, HandleMakes
<1>2. CASE r.phase \in {"spawn", "restart"} /\ Answers(r, "no") /\ UNCHANGED session
  BY <1>2, HandleKeeps
<1>3. CASE r.phase = "restart" /\ Answers(r, "yes") /\ UNCHANGED session
  BY <1>3, HandleKeeps
<1>4. ASSUME r.phase \in {"status", "attach", "exists", "take"}, UNCHANGED session,
             Answers(r, IF Registered(s, r.host) THEN "yes" ELSE "no")
      PROVE  IInv'
  <2>1. CASE Registered(s, r.host)
    <3>1. Answers(r, "yes")
      BY <1>4, <2>1
    <3> QED BY <1>0, <1>4, <2>1, <3>1, HandleKeeps
  <2>2. CASE ~Registered(s, r.host)
    <3>1. Answers(r, "no")
      BY <1>4, <2>2
    <3> QED BY <1>0, <1>4, <2>2, <3>1, HandleKeeps
  <2> QED BY <2>1, <2>2
<1>5. ASSUME r.phase = "alive", UNCHANGED session,
             Answers(r, CASE ~Registered(s, r.host) -> "no"
                          [] Registered(s, r.host) /\ session[s].state = "ended" -> "ended"
                          [] OTHER -> "yes")
      PROVE  IInv'
  <2>1. CASE ~Registered(s, r.host)
    <3>1. Answers(r, "no")
      BY <1>5, <2>1
    <3> QED BY <1>0, <1>5, <2>1, <3>1, HandleKeeps
  <2>2. CASE Registered(s, r.host) /\ session[s].state = "ended"
    <3>1. Answers(r, "ended")
      BY <1>5, <2>2
    <3> QED BY <1>5, <3>1, HandleKeeps
  <2>3. CASE Registered(s, r.host) /\ session[s].state # "ended"
    <3>1. Answers(r, "yes")
      BY <1>5, <2>3
    <3> QED BY <1>5, <3>1, HandleKeeps
  <2> QED BY <2>1, <2>2, <2>3
<1>6. CASE /\ r.phase \in {"close", "idle"} /\ Registered(s, r.host) /\ Answers(r, "yes")
           /\ session' = [session EXCEPT ![s] = Session("gone", r.host)]
  <2>1. Gone(s)'
    BY <1>0, <1>6 DEF Gone, Session
  <2> QED BY <1>0, <1>6, <2>1, HandleKeeps
<1>7. CASE r.phase \in {"close", "idle"} /\ ~Registered(s, r.host) /\ Answers(r, "no") /\ UNCHANGED session
  BY <1>0, <1>7, HandleKeeps
<1>8. CASE r.phase = "idle" /\ Answers(r, "blocked") /\ UNCHANGED session
  BY <1>8, HandleKeeps
<1>9. Handles(r)
  BY DEF Handle
<1> QED BY <1>1, <1>2, <1>3, <1>4, <1>5, <1>6, <1>7, <1>8, <1>9, Zenon DEF Handles

-----------------------------------------------------------------------------
(* Steps of a client *)

\* The frame of such a step: what remains to be shown is about the client itself
\* and its sessions.
Frame(c) == /\ UNCHANGED <<up, session>>
            /\ \A d \in Clients \ {c} : Alike(d)
            /\ \A r \in unread' \ unread : r.client = c /\ r.session = call[c].session
            /\ \A s \in Sessions : s # call[c].session =>
                 outcome'[s] = outcome[s] /\ (s \in absent' => s \in absent)

\* It goes on with the call it is in.
LEMMA CallStep ==
  ASSUME IInv, NEW c \in Clients, phase[c] # "rest", Frame(c), TypeOK',
         NEW s, s = call[c].session,
         ClientOf(c)', SessionOf(s)', outcome'[s] # "none", outcome[s] # "none"
  PROVE  IInv'
<1>0. s \in Sessions /\ s[1] = c
  BY DEF IInv, PhaseInv, PhaseOf
<1>1. ASSUME NEW q \in Sessions, q # s
      PROVE  /\ outcome'[q] = outcome[q] /\ SpawnsOf(q)' \subseteq SpawnsOf(q)
             /\ q \in absent' => q \in absent
  BY <1>1 DEF Frame, SpawnsOf
<1>2. /\ \A d \in Clients \ {c} : ClientOf(d)'
      /\ \A q \in Sessions : q[1] # c => SessionOf(q)'
  BY <1>0, <1>1, KeptOthers DEF Frame
<1>3. ASSUME NEW q \in Sessions, q # s
      PROVE  SessionOf(q)'
  <2>1. Keeps(q)
    BY <1>1, <1>3 DEF Keeps, Frame, Made, Gone, There
  <2> QED BY <1>1, <1>3, <2>1, KeptSession DEF IInv, SessionInv
<1>4. RequestInv'
  BY <1>0 DEF IInv, RequestInv, Frame
<1>5. NumberInv'
  BY <1>1, KeptNumbers DEF IInv
<1>6. ASSUME NEW q \in Sessions
      PROVE  SessionOf(q)'
  <2>1. CASE q = s
    BY <2>1
  <2> QED BY <1>3, <2>1
<1> QED BY <1>2, <1>4, <1>5, <1>6, Parts

\* What is known of a client in a call.
LEMMA InCall ==
  ASSUME IInv, NEW c \in Clients, phase[c] # "rest"
  PROVE  /\ HostType /\ WorldType /\ ClientType /\ ToldType /\ ClientOf(c)
         /\ call[c].session \in Sessions /\ call[c].session[1] = c /\ SessionOf(call[c].session)
         /\ call[c].op \in {"spawn", "reconcile", "idle", "stop"}
         /\ call[c].op = "spawn" <=> phase[c] \in SpawnPhases
         /\ call[c].op # "spawn" <=> phase[c] \in StatusPhases
         /\ call[c].op = "spawn" => outcome[call[c].session] = "asked"
         /\ call[c].op # "spawn" => outcome[call[c].session] = "attached" /\ Made(call[c].session)
         /\ outcome[call[c].session] # "none"
<1>1. HostType /\ WorldType /\ ClientType /\ ToldType /\ ClientOf(c)
  BY TypeParts DEF IInv, PhaseInv, CallInv, ClientOf
<1>2. call[c].session \in Sessions /\ call[c].session[1] = c /\ SessionOf(call[c].session)
  BY <1>1 DEF ClientOf, PhaseOf, IInv, SessionInv
<1>3. phase[c] \in SpawnPhases \/ phase[c] \in StatusPhases
  BY <1>1 DEF ClientType, PhaseSet, Exchanges, SpawnPhases, StatusPhases, Before
<1>4. /\ call[c].op \in {"spawn", "reconcile", "idle", "stop"}
      /\ call[c].op = "spawn" <=> phase[c] \in SpawnPhases
      /\ call[c].op # "spawn" <=> phase[c] \in StatusPhases
  BY <1>1, <1>3 DEF ClientOf, PhaseOf
<1> QED BY <1>1, <1>2, <1>4 DEF ClientOf, SpawnOf, StatusOf, SessionOf

\* It gives up starting a session, or has it: what it is told is so.
LEMMA ToldStep ==
  ASSUME IInv, NEW c \in Clients, phase[c] \in SpawnPhases,
         NEW what \in OutcomeSet \ {"none", "asked"}, Tell(c, what),
         UNCHANGED <<up, session>>, HostType', unread' = unread, cached' \in [Clients -> 0..MaxHosts],
         answer' \in [Clients -> AnswerSet], \A d \in Clients \ {c} : answer'[d] = answer[d],
         answer'[c] = "none", NEW s, s = call[c].session,
         what = "failed" => Unmade(s) \/ Gone(s),
         what \in {"attached", "unidentified", "orphaned"} => Made(s)
  PROVE  IInv'
<1>0. /\ phase[c] # "rest" /\ HostType /\ WorldType /\ ClientType /\ ToldType
      /\ s \in Sessions /\ SessionOf(s) /\ outcome[s] = "asked"
  BY InCall DEF SpawnPhases, Before
<1>1. /\ ToldType' /\ phase' = [phase EXCEPT ![c] = "rest"] /\ phase' \in [Clients -> PhaseSet]
      /\ call' = [call EXCEPT ![c] = NoCall] /\ call' \in [Clients -> Calls]
      /\ outcome' = [outcome EXCEPT ![s] = what] /\ UNCHANGED absent
  BY <1>0, TellType DEF Tell
<1>2. phase'[c] = "rest" /\ call'[c] = NoCall /\ outcome'[s] = what
  BY <1>0, <1>1 DEF ClientType, ToldType
<1>3. TypeOK'
  BY <1>0, <1>1, TypePartsNext DEF ClientType, WorldType
<1>4. ClientOf(c)'
  BY <1>2, NoCallType DEF ClientOf, PhaseOf, SpawnOf, StatusOf, SpawnPhases, StatusPhases, Before, Exchanges
<1>5. SessionOf(s)'
  BY <1>0, <1>1, <1>2 DEF SessionOf, Made, Unmade, Gone, There, SpawnsOf
<1>6. Frame(c)
  BY <1>0, <1>1 DEF Frame, Alike, ClientType, ToldType
<1> QED BY <1>0, <1>2, <1>3, <1>4, <1>5, <1>6, CallStep

\* It goes on from p to another exchange of the start of its session.
LEMMA SpawnsOn ==
  ASSUME IInv, NEW c \in Clients, phase[c] \in SpawnPhases, NEW p \in SpawnPhases,
         phase' = [phase EXCEPT ![c] = p], UNCHANGED <<up, session, toldVars>>, HostType',
         call' \in [Clients -> Calls], \A d \in Clients \ {c} : call'[d] = call[d],
         call'[c].op = call[c].op, call'[c].session = call[c].session,
         unread' = unread, cached' \in [Clients -> 0..MaxHosts],
         answer' \in [Clients -> AnswerSet], \A d \in Clients \ {c} : answer'[d] = answer[d],
         answer'[c] = "none", NEW s, s = call[c].session,
         p \in Before \cup {"spawn"} => Unmade(s),
         p \in {"attach", "close"} => Made(s)
  PROVE  IInv'
<1> USE DEF toldVars
<1>0. /\ phase[c] # "rest" /\ HostType /\ WorldType /\ ClientType /\ ToldType /\ call[c].op = "spawn"
      /\ s \in Sessions /\ s[1] = c /\ SessionOf(s) /\ outcome[s] = "asked"
  BY InCall DEF SpawnPhases, Before
<1>1. phase' \in [Clients -> PhaseSet] /\ phase'[c] = p
  BY <1>0 DEF ClientType, PhaseSet, SpawnPhases, Before, Exchanges
<1>2. TypeOK'
  BY <1>0, <1>1, TypePartsNext DEF ClientType, WorldType, ToldType
<1>3. PhaseOf(c)' /\ StatusOf(c)'
  BY <1>0, <1>1 DEF PhaseOf, StatusOf, SpawnPhases, StatusPhases, Before
<1>4. SpawnOf(c)'
  <2>1. Unmade(s) => Unmade(s)' /\ ~Made(s)' /\ SpawnsOf(s)' = {}
    BY DEF Unmade, Made, SpawnsOf
  <2>2. Made(s) => Made(s)'
    BY DEF Made
  <2> QED BY <1>0, <1>1, <2>1, <2>2 DEF SpawnOf, SpawnPhases, Before
<1>5. Keeps(s)
  BY DEF Keeps, Made, Gone, There, SpawnsOf
<1>6. SessionOf(s)' /\ Frame(c)
  BY <1>0, <1>5, KeptSession DEF Frame, Alike, ClientType
<1> QED BY <1>0, <1>2, <1>3, <1>4, <1>6, CallStep DEF ClientOf

\* It goes on to another question about a session that it shows.
LEMMA StatusOn ==
  ASSUME IInv, NEW c \in Clients, phase[c] \in StatusPhases, NEW p \in StatusPhases,
         phase' = [phase EXCEPT ![c] = p], UNCHANGED <<hostVars, session, cached, toldVars>>,
         call' \in [Clients -> Calls], \A d \in Clients \ {c} : call'[d] = call[d],
         call'[c].op \in {"reconcile", "idle", "stop"}, call'[c].session = call[c].session,
         call'[c].expected = call[c].expected,
         answer' = [answer EXCEPT ![c] = "none"], NEW s, s = call[c].session,
         \A r \in unread' \ unread : /\ r \in Requests /\ r.client = c /\ r.session = s
                                     /\ r.phase # "spawn" /\ r.host = up
  PROVE  IInv'
<1> USE DEF hostVars, toldVars
<1>0. /\ phase[c] # "rest" /\ HostType /\ WorldType /\ ClientType /\ ToldType /\ ClientOf(c)
      /\ s \in Sessions /\ s[1] = c /\ SessionOf(s) /\ outcome[s] = "attached" /\ call[c].op # "spawn"
      /\ call[c].op \in {"reconcile", "idle", "stop"}
  BY InCall DEF StatusPhases
<1>1. /\ phase' \in [Clients -> PhaseSet] /\ phase'[c] = p
      /\ answer' \in [Clients -> AnswerSet] /\ answer'[c] = "none"
  BY <1>0 DEF ClientType, PhaseSet, StatusPhases, Exchanges, AnswerSet
<1>2. TypeOK'
  BY <1>0, <1>1, TypePartsNext DEF HostType, ClientType, WorldType, ToldType
<1>3. PhaseOf(c)'
  BY <1>0, <1>1 DEF PhaseOf, SpawnPhases, StatusPhases, Before, Exchanges
<1>4. SpawnOf(c)' /\ StatusOf(c)'
  BY <1>0, <1>1 DEF SpawnOf, StatusOf, ClientOf
<1>5. Keeps(s)
  BY DEF Keeps, Made, Gone, There, SpawnsOf
<1>6. SessionOf(s)' /\ Frame(c)
  BY <1>0, <1>5, KeptSession DEF Frame, Alike, ClientType
<1> QED BY <1>0, <1>2, <1>3, <1>4, <1>6, CallStep DEF ClientOf

\* It stops asking; the session is called absent only if it is gone.
LEMMA StatusEnds ==
  ASSUME IInv, NEW c \in Clients, phase[c] \in StatusPhases, Return(c),
         UNCHANGED <<hostVars, session, unread, cached, outcome>>,
         answer' = [answer EXCEPT ![c] = "none"], NEW s, s = call[c].session,
         absent' = absent \/ (absent' = absent \cup {s} /\ Gone(s))
  PROVE  IInv'
<1> USE DEF hostVars
<1>0. /\ phase[c] # "rest" /\ HostType /\ WorldType /\ ClientType /\ ToldType
      /\ s \in Sessions /\ SessionOf(s) /\ outcome[s] = "attached"
  BY InCall DEF StatusPhases
<1>1. /\ phase' = [phase EXCEPT ![c] = "rest"] /\ phase' \in [Clients -> PhaseSet]
      /\ call' = [call EXCEPT ![c] = NoCall] /\ call' \in [Clients -> Calls]
      /\ answer' \in [Clients -> AnswerSet]
  BY <1>0, ReturnType DEF ClientType, AnswerSet
<1>2. phase'[c] = "rest" /\ call'[c] = NoCall /\ answer'[c] = "none"
  BY <1>0, <1>1 DEF ClientType
<1>3. TypeOK'
  BY <1>0, <1>1, TypePartsNext DEF HostType, ClientType, WorldType, ToldType
<1>4. ClientOf(c)'
  BY <1>2, NoCallType DEF ClientOf, PhaseOf, SpawnOf, StatusOf, SpawnPhases, StatusPhases, Before, Exchanges
<1>5. SessionOf(s)'
  BY <1>0 DEF SessionOf, Made, Unmade, Gone, There, SpawnsOf
<1>6. Frame(c)
  BY <1>0, <1>1 DEF Frame, Alike, ClientType, ToldType
<1> QED BY <1>0, <1>3, <1>4, <1>5, <1>6, CallStep

\* The sessions that a client asked for are the first ones.
LEMMA AskedOnes ==
  ASSUME NEW c \in Clients, NEW n \in 0..MaxSpawns,
         \A k \in 1..MaxSpawns : outcome[<<c, k>>] # "none" <=> k <= n
  PROVE  Asked(c) = n
<1>1. {k \in 1..MaxSpawns : outcome[<<c, k>>] # "none"} = 1..n
  BY BoundsAssumption
<1>2. Cardinality(1..n) = n
  BY BoundsAssumption, FS_Interval
<1> QED BY <1>1, <1>2 DEF Asked

\* Another session is asked for: nobody asked for it before.
LEMMA SpawnStep ==
  ASSUME IInv, NEW c \in Clients, Spawn(c)
  PROVE  IInv'
<1> USE DEF hostVars, toldVars
<1>0. HostType /\ WorldType /\ ClientType /\ ToldType /\ ClientOf(c)
  BY TypeParts DEF IInv, PhaseInv, CallInv, ClientOf
<1>1. PICK n \in 0..MaxSpawns : \A k \in 1..MaxSpawns : outcome[<<c, k>>] # "none" <=> k <= n
  BY DEF IInv, NumberInv
<1>2. Asked(c) = n
  BY <1>1, AskedOnes
<1> DEFINE s == <<c, n + 1>>
<1>3. s \in Sessions /\ outcome[s] = "none" /\ s[1] = c /\ n + 1 \in 1..MaxSpawns
  BY <1>1, <1>2, BoundsAssumption DEF Spawn, Sessions
<1>4. /\ Make(c, "ensure", "spawn", s, 0) /\ outcome' = [outcome EXCEPT ![s] = "asked"]
      /\ UNCHANGED <<hostVars, session, unread, answer, cached, absent>>
  BY <1>2 DEF Spawn
<1>5. /\ phase[c] = "rest" /\ phase' = [phase EXCEPT ![c] = "ensure"] /\ phase' \in [Clients -> PhaseSet]
      /\ call' \in [Clients -> Calls] /\ \A d \in Clients \ {c} : call'[d] = call[d]
      /\ call'[c].op = "spawn" /\ call'[c].session = s /\ call'[c].expected = 0 /\ call'[c].host = 0
  <2>1. "ensure" \in PhaseSet \ {"rest"} /\ 0 \in 0..MaxHosts
    BY BoundsAssumption DEF PhaseSet
  <2> HIDE DEF s
  <2> QED BY <1>0, <1>3, <1>4, <2>1, MakeType
<1>6. phase'[c] = "ensure" /\ outcome'[s] = "asked" /\ outcome' \in [Sessions -> OutcomeSet]
  BY <1>0, <1>3, <1>4, <1>5 DEF ClientType, ToldType, OutcomeSet
<1>7. \A q \in Sessions : q # s => outcome'[q] = outcome[q]
  BY <1>0, <1>4 DEF ToldType
<1>8. TypeOK'
  BY <1>0, <1>4, <1>5, <1>6, TypePartsNext DEF HostType, ClientType, WorldType, ToldType
<1>9. Unmade(s) /\ SessionOf(s)'
  <2>1. SessionOf(s)
    BY <1>3 DEF IInv, SessionInv
  <2>2. Unmade(s)
    BY <1>3, <2>1 DEF SessionOf
  <2>3. SessionOf(s)'
    BY <1>4, <1>6, <2>1, <2>2 DEF SessionOf, Unmade, Made, Gone, There, SpawnsOf
  <2> QED BY <2>2, <2>3
<1>10. ClientOf(c)'
  <2> HIDE DEF s
  <2>1. answer'[c] = "none"
    BY <1>0, <1>4, <1>5 DEF ClientOf, PhaseOf, Exchanges
  <2>2. Unmade(s)' /\ (~Made(s))' /\ SpawnsOf(s)' = {}
    BY <1>4, <1>9 DEF Unmade, Made, SpawnsOf
  <2>3. PhaseOf(c)'
    BY <1>3, <1>5, <1>6, <2>1 DEF PhaseOf, SpawnPhases, StatusPhases, Before, Exchanges
  <2>4. SpawnOf(c)'
    BY <1>5, <1>6, <2>1, <2>2 DEF SpawnOf
  <2>5. StatusOf(c)'
    BY <1>5 DEF StatusOf
  <2> QED BY <2>3, <2>4, <2>5 DEF ClientOf
<1>11. ASSUME NEW q \in Sessions
       PROVE  SessionOf(q)'
  <2> HIDE DEF s
  <2>1. CASE q = s
    BY <1>9, <2>1
  <2>2. CASE q # s
    <3>1. Keeps(q)
      BY <1>4, <1>7, <2>2 DEF Keeps, Made, Gone, There, SpawnsOf
    <3> QED BY <1>4, <3>1, KeptSession DEF IInv, SessionInv
  <2> QED BY <2>1, <2>2
<1>12. \A d \in Clients \ {c} : ClientOf(d)'
  <2> HIDE DEF s
  <2>1. \A d \in Clients \ {c} : Alike(d)
    BY <1>0, <1>4, <1>5 DEF Alike, ClientType
  <2>2. ASSUME NEW q \in Sessions, q[1] # c
        PROVE  /\ outcome'[q] = outcome[q] /\ SpawnsOf(q)' \subseteq SpawnsOf(q)
               /\ q \in absent' => q \in absent
    BY <1>3, <1>4, <1>7, <2>2 DEF SpawnsOf
  <2> QED BY <1>4, <2>1, <2>2, KeptOthers
<1>13. RequestInv'
  BY <1>4 DEF IInv, RequestInv
<1>14. NumberInv'
  <2> HIDE DEF s
  <2>1. ASSUME NEW k \in 1..MaxSpawns
        PROVE  outcome'[<<c, k>>] # "none" <=> k <= n + 1
    <3>1. <<c, k>> \in Sessions
      BY DEF Sessions
    <3>2. <<c, k>> = s <=> k = n + 1
      BY DEF s
    <3> QED BY <1>1, <1>6, <1>7, <3>1, <3>2, BoundsAssumption
  <2>2. ASSUME NEW d \in Clients, d # c, NEW k \in 1..MaxSpawns
        PROVE  outcome'[<<d, k>>] = outcome[<<d, k>>]
    BY <1>3, <1>7, <2>2 DEF Sessions
  <2>3. n + 1 \in 0..MaxSpawns
    BY <1>3, BoundsAssumption
  <2> QED BY <2>1, <2>2, <2>3 DEF IInv, NumberInv
<1> HIDE DEF s
<1> QED BY <1>8, <1>10, <1>11, <1>12, <1>13, <1>14, Parts

LEMMA AboutStep ==
  ASSUME IInv, NEW c \in Clients, NEW s \in Sessions, NEW op \in {"reconcile", "idle", "stop"},
         s[1] = c, About(c, s, op)
  PROVE  IInv'
<1> USE DEF hostVars, toldVars
<1>0. HostType /\ WorldType /\ ClientType /\ ToldType /\ ClientOf(c) /\ SessionOf(s)
  BY TypeParts DEF IInv, PhaseInv, CallInv, ClientOf, SessionInv
<1>1. /\ outcome[s] = "attached" /\ Make(c, First(op), op, s, session[s].host)
      /\ UNCHANGED <<hostVars, session, unread, answer, cached, toldVars>>
  BY DEF About
<1>2. First(op) \in StatusPhases
  BY DEF First, StatusPhases
<1>3. /\ phase[c] = "rest" /\ phase' = [phase EXCEPT ![c] = First(op)] /\ phase' \in [Clients -> PhaseSet]
      /\ call' \in [Clients -> Calls] /\ \A d \in Clients \ {c} : call'[d] = call[d]
      /\ call'[c].op = op /\ call'[c].session = s
      /\ call'[c].expected = session[s].host /\ call'[c].host = 0
  <2>1. First(op) \in PhaseSet \ {"rest"}
    BY <1>2 DEF PhaseSet, StatusPhases, Exchanges
  <2>2. session[s].host \in 0..MaxHosts
    BY <1>0 DEF WorldType, SessionSet
  <2> QED BY <1>0, <1>1, <2>1, <2>2, MakeType
<1>4. phase'[c] \in StatusPhases /\ answer'[c] = "none"
  BY <1>0, <1>1, <1>2, <1>3 DEF ClientType, ClientOf, PhaseOf, Exchanges
<1>5. TypeOK'
  BY <1>0, <1>1, <1>3, TypePartsNext DEF HostType, ClientType, WorldType, ToldType
<1>6. PhaseOf(c)' /\ SpawnOf(c)'
  BY <1>3, <1>4 DEF PhaseOf, SpawnOf, StatusPhases, SpawnPhases, Before, Exchanges
<1>7. StatusOf(c)'
  BY <1>1, <1>3, <1>4 DEF StatusOf
<1>8. \A q \in Sessions : Keeps(q)
  BY <1>1 DEF Keeps, Made, Gone, There, SpawnsOf
<1>9. \A q \in Sessions : SessionOf(q)'
  BY <1>1, <1>8, KeptSession DEF IInv, SessionInv
<1>10. \A d \in Clients \ {c} : ClientOf(d)'
  <2>1. \A d \in Clients \ {c} : Alike(d)
    BY <1>0, <1>1, <1>3 DEF Alike, ClientType
  <2> QED BY <1>1, <1>8, <2>1, KeptOthers DEF Keeps
<1>11. RequestInv' /\ NumberInv'
  BY <1>1, KeptNumbers DEF IInv, RequestInv
<1> QED BY <1>5, <1>6, <1>7, <1>9, <1>10, <1>11, Parts DEF ClientOf

\* The host is looked for, or waited for; nothing has been asked of it.
LEMMA BeforeStep ==
  ASSUME IInv, NEW c \in Clients, phase[c] \in {"ensure", "starting", "leaving"},
         UNCHANGED <<up, session, unread, answer>>, HostType', cached' \in [Clients -> 0..MaxHosts],
         \/ Tell(c, "failed")
         \/ UNCHANGED <<call, toldVars>> /\ \E p \in Before \cup {"spawn"} : Goto(c, p)
  PROVE  IInv'
<1> DEFINE s == call[c].session
<1>0. /\ phase[c] # "rest" /\ ClientType /\ ClientOf(c) /\ phase[c] \in SpawnPhases
      /\ answer' \in [Clients -> AnswerSet] /\ answer'[c] = "none" /\ Unmade(s)
  <2>1. phase[c] \in SpawnPhases /\ phase[c] \in Before /\ phase[c] # "rest" /\ phase[c] \notin Exchanges
    BY DEF SpawnPhases, Before, Exchanges
  <2>2. ClientType /\ ClientOf(c) /\ call[c].op = "spawn"
    BY <2>1, InCall
  <2> QED BY <2>1, <2>2 DEF ClientType, ClientOf, PhaseOf, SpawnOf
<1>1. CASE Tell(c, "failed")
  <2>1. "failed" \in OutcomeSet \ {"none", "asked"}
    BY DEF OutcomeSet
  <2> QED BY <1>0, <1>1, <2>1, ToldStep
<1>2. ASSUME UNCHANGED <<call, toldVars>>, NEW p \in Before \cup {"spawn"}, Goto(c, p)
      PROVE  IInv'
  <2>1. p \in SpawnPhases /\ p \notin {"attach", "close"}
    BY DEF SpawnPhases, Before
  <2>2. phase' = [phase EXCEPT ![c] = p] /\ call' \in [Clients -> Calls]
    BY <1>0, <1>2 DEF Goto, ClientType
  <2> QED BY <1>0, <1>2, <2>1, <2>2, SpawnsOn
<1> QED BY <1>1, <1>2

LEMMA EnsureStep ==
  ASSUME IInv, NEW c \in Clients, Ensure(c)
  PROVE  IInv'
<1> USE DEF hostVars
<1>0. HostType /\ ClientType
  BY TypeParts DEF IInv
<1>1. phase[c] = "ensure" /\ UNCHANGED <<up, build, stopping, default, session, unread, answer>>
  BY DEF Ensure
<1>2. HostType'
  <2>1. Version[c] \in Nat
    BY VersionAssumption
  <2>2. launched' \in SUBSET Nat
    BY <1>0, <2>1 DEF Ensure, HostType
  <2> QED BY <1>0, <1>1, <2>2 DEF HostType
<1>3. cached' \in [Clients -> 0..MaxHosts]
  BY <1>0, BoundsAssumption DEF Ensure, ClientType, HostType
<1>4. \/ Tell(c, "failed")
      \/ UNCHANGED <<call, toldVars>> /\ \E p \in Before \cup {"spawn"} : Goto(c, p)
  BY DEF Ensure, Before
<1> QED BY <1>1, <1>2, <1>3, <1>4, BeforeStep

LEMMA AwaitStep ==
  ASSUME IInv, NEW c \in Clients, Await(c) \/ TimesOut(c)
  PROVE  IInv'
<1> USE DEF hostVars
<1>0. HostType /\ ClientType
  BY TypeParts DEF IInv
<1>1. phase[c] \in {"starting", "leaving"} /\ UNCHANGED <<hostVars, session, unread, answer>>
  BY DEF Await, TimesOut
<1>2. HostType' /\ cached' \in [Clients -> 0..MaxHosts]
  BY <1>0, <1>1, BoundsAssumption DEF Await, TimesOut, ClientType, HostType
<1>3. \/ Tell(c, "failed")
      \/ UNCHANGED <<call, toldVars>> /\ \E p \in Before \cup {"spawn"} : Goto(c, p)
  BY DEF Await, TimesOut, Before
<1> QED BY <1>1, <1>2, <1>3, BeforeStep

\* A request is sent, or not; or it is given up.
LEMMA GetsStep ==
  ASSUME IInv, NEW c \in Clients, Waits(c),
         UNCHANGED <<hostVars, session, phase, cached, toldVars>>,
         NEW a \in {"refused", "changed", "unheard", "error"}, Gets(c, a), call' = call,
         unread' \subseteq unread, NEW s, s = call[c].session,
         a \in {"refused", "unheard"} /\ phase[c] = "spawn" => Unmade(s),
         a \in {"refused", "changed"} /\ call[c].op # "spawn" => Gone(s)
  PROVE  IInv'
<1> USE DEF hostVars, toldVars
<1>0. /\ phase[c] # "rest" /\ phase[c] \in Exchanges
      /\ HostType /\ WorldType /\ ClientType /\ ToldType /\ ClientOf(c)
      /\ s \in Sessions /\ SessionOf(s) /\ outcome[s] # "none"
      /\ call[c].op \in {"spawn", "reconcile", "idle", "stop"}
  <2>1. phase[c] # "rest" /\ phase[c] \in Exchanges
    BY DEF Waits, Exchanges
  <2> QED BY <2>1, InCall
<1>1. answer' \in [Clients -> AnswerSet] /\ answer'[c] = a /\ \A d \in Clients \ {c} : answer'[d] = answer[d]
  BY <1>0 DEF Gets, ClientType, AnswerSet, Unanswered
<1>2. TypeOK'
  BY <1>0, <1>1, TypePartsNext DEF HostType, ClientType, WorldType, ToldType
<1>3. PhaseOf(c)'
  BY <1>0, <1>1 DEF ClientOf, PhaseOf
<1>4. Keeps(s) /\ (Unmade(s) => Unmade(s)')
  BY DEF Keeps, Made, Unmade, Gone, There, SpawnsOf
<1>5. SpawnOf(c)'
  BY <1>0, <1>1, <1>4 DEF ClientOf, SpawnOf, Keeps
<1>6. StatusOf(c)'
  BY <1>0, <1>1, <1>4 DEF ClientOf, StatusOf, Keeps
<1>7. SessionOf(s)' /\ Frame(c)
  BY <1>0, <1>1, <1>4, KeptSession DEF Frame, Alike
<1> QED BY <1>0, <1>2, <1>3, <1>5, <1>6, <1>7, CallStep DEF ClientOf

LEMMA ConnectStep ==
  ASSUME IInv, NEW c \in Clients, Connect(c)
  PROVE  IInv'
<1> USE DEF hostVars, toldVars
<1> PICK s : s = call[c].session
  OBVIOUS
<1>0. /\ phase[c] # "rest" /\ phase[c] \in Exchanges /\ answer[c] = "none" /\ call[c].host = 0
      /\ HostType /\ WorldType /\ ClientType /\ ToldType /\ ClientOf(c)
      /\ s \in Sessions /\ s[1] = c /\ SessionOf(s) /\ outcome[s] # "none"
      /\ call[c].op \in {"spawn", "reconcile", "idle", "stop"}
  <2>1. phase[c] # "rest" /\ phase[c] \in Exchanges /\ answer[c] = "none" /\ call[c].host = 0
    BY DEF Connect, Waits, Exchanges
  <2> QED BY <2>1, InCall
<1>1. Waits(c) /\ UNCHANGED <<hostVars, session, phase, cached, toldVars>>
  BY DEF Connect
<1>2. phase[c] = "spawn" => Unmade(s)
  BY <1>0 DEF ClientOf, SpawnOf, PhaseOf, SpawnPhases
<1>3. ASSUME call[c].op # "spawn"
      PROVE  /\ call[c].expected = session[s].host /\ phase[c] \notin {"restart", "spawn"}
             /\ ~There(s) => Gone(s)
  <2>1. Made(s) /\ call[c].expected = session[s].host
    BY <1>0, <1>3 DEF ClientOf, StatusOf, SessionOf
  <2>2. phase[c] \notin {"restart", "spawn"}
    BY <1>0, <1>3 DEF ClientOf, PhaseOf, SpawnPhases, Before
  <2>3. ~There(s) => Gone(s)
    BY <1>0, <2>1 DEF There, Made, Gone, WorldType, SessionSet, States
  <2> QED BY <2>1, <2>2, <2>3
<1>4. CASE up = 0 /\ Gets(c, "refused") /\ UNCHANGED <<unread, call>>
  <2>1. ~There(s)
    BY <1>0, <1>4 DEF SessionOf
  <2> QED BY <1>1, <1>2, <1>3, <1>4, <2>1, GetsStep
<1>5. CASE up # 0 /\ ~Expected(c) /\ Gets(c, "changed") /\ UNCHANGED <<unread, call>>
  <2>1. call[c].op # "spawn" => ~There(s)
    BY <1>0, <1>3, <1>5 DEF SessionOf, Expected
  <2> QED BY <1>1, <1>3, <1>5, <2>1, GetsStep
<1>6. CASE up # 0 /\ Gets(c, "unheard") /\ UNCHANGED <<unread, call>>
  BY <1>1, <1>2, <1>6, GetsStep
<1>7. CASE /\ up # 0 /\ unread' = unread \cup {Request(c, up)} /\ UNCHANGED answer
           /\ call' = [call EXCEPT ![c].host = up,
                                   ![c].expected = IF phase[c] = "spawn" THEN Known(up) ELSE @]
  <2>1. up \in Hosts /\ up \in 0..MaxHosts /\ Known(up) \in 0..MaxHosts
    BY <1>0, <1>7, BoundsAssumption DEF HostType, Hosts, Known
  <2>2. /\ call' \in [Clients -> Calls] /\ \A d \in Clients \ {c} : call'[d] = call[d]
        /\ call'[c].op = call[c].op /\ call'[c].session = s /\ call'[c].host = up
        /\ phase[c] # "spawn" => call'[c].expected = call[c].expected
    <3> DEFINE e == IF phase[c] = "spawn" THEN Known(up) ELSE call[c].expected
               made == [call[c] EXCEPT !.host = up, !.expected = e]
    <3>1. call[c] \in Calls /\ e \in 0..MaxHosts
      BY <1>0, <2>1 DEF ClientType, Calls
    <3>2. call' = [call EXCEPT ![c] = made]
      BY <1>7
    <3>3. phase[c] # "spawn" => e = call[c].expected
      OBVIOUS
    <3> HIDE DEF e
    <3>4. made \in Calls /\ made.op = call[c].op /\ made.session = s /\ made.host = up /\ made.expected = e
      BY <2>1, <3>1 DEF Calls
    <3> HIDE DEF made
    <3> QED BY <1>0, <3>2, <3>3, <3>4 DEF ClientType
  <2> DEFINE q == Request(c, up)
  <2>3. /\ q \in Requests /\ q.client = c /\ q.session = s /\ q.phase = phase[c] /\ q.host = up
    BY <1>0, <2>1, RequestType
  <2> HIDE DEF q
  <2>4. unread' = unread \cup {q}
    BY <1>7 DEF q
  <2>5. TypeOK'
    BY <1>0, <1>1, <1>7, <2>2, <2>3, <2>4, TypePartsNext DEF HostType, ClientType, WorldType, ToldType
  <2>6. PhaseOf(c)' /\ StatusOf(c)'
    <3>1. PhaseOf(c)'
      BY <1>0, <1>1, <1>7, <2>2 DEF ClientOf, PhaseOf
    <3>2. StatusOf(c)'
      BY <1>0, <1>1, <1>3, <1>7, <2>2 DEF ClientOf, StatusOf, Gone
    <3> QED BY <3>1, <3>2
  <2>7. CASE phase[c] = "spawn"
    <3>1. SpawnsOf(s) = {} /\ ~Made(s)
      BY <1>2, <2>7 DEF Unmade, Made
    <3>2. \A r \in SpawnsOf(s)' : r.host = up
      BY <1>0, <2>3, <2>4 DEF SpawnsOf, WorldType
    <3>3. SpawnsOf(s)' \subseteq {q} /\ ~Made(s)' /\ call[c].op = "spawn" /\ outcome[s] = "asked"
      BY <1>0, <1>1, <2>3, <2>4, <2>7, <3>1 DEF SpawnsOf, Made, ClientOf, PhaseOf, SpawnOf, SpawnPhases
    <3>4. SpawnOf(c)'
      <4>1. phase'[c] = "spawn" /\ answer'[c] = "none" /\ call'[c].host # 0 /\ outcome'[s] = "asked"
        BY <1>0, <1>1, <1>7, <2>2, <2>7, <3>3
      <4>2. ~Made(s)' /\ \A r \in SpawnsOf(s)' : r.host = call'[c].host
        BY <2>2, <3>2, <3>3
      <4> QED BY <2>2, <4>1, <4>2 DEF SpawnOf, Before
    <3>5. SessionOf(s)'
      <4>1. ~There(s)' /\ s \notin absent'
        BY <1>0, <1>1, <3>1, <3>3 DEF SessionOf, Made, Gone, There
      <4> QED BY <1>1, <3>3, <4>1 DEF SessionOf, Made
    <3>6. Frame(c)
      BY <1>0, <1>1, <1>7, <2>2, <2>3, <2>4 DEF Frame, Alike
    <3> QED BY <1>0, <1>1, <2>5, <2>6, <3>4, <3>5, <3>6, CallStep DEF ClientOf
  <2>8. CASE phase[c] # "spawn"
    <3>1. Keeps(s) /\ (Unmade(s) => Unmade(s)')
      BY <1>1, <2>3, <2>4, <2>8 DEF Keeps, Made, Unmade, Gone, There, SpawnsOf
    <3>2. SpawnOf(c)'
      BY <1>0, <1>1, <1>7, <2>2, <2>8, <3>1 DEF ClientOf, SpawnOf, Keeps
    <3>3. SessionOf(s)' /\ Frame(c)
      BY <1>0, <1>1, <1>7, <2>2, <2>3, <2>4, <3>1, KeptSession DEF Frame, Alike
    <3> QED BY <1>0, <1>1, <2>5, <2>6, <3>2, <3>3, CallStep DEF ClientOf
  <2> QED BY <2>7, <2>8
<1> QED BY <1>4, <1>5, <1>6, <1>7 DEF Connect

LEMMA GiveUpStep ==
  ASSUME IInv, NEW c \in Clients, GiveUp(c)
  PROVE  IInv'
<1>1. /\ Waits(c) /\ Gets(c, "error") /\ call' = call /\ unread' \subseteq unread
      /\ UNCHANGED <<hostVars, session, phase, cached, toldVars>>
  BY DEF GiveUp
<1> QED BY <1>1, GetsStep

-----------------------------------------------------------------------------
(* What a client does with an answer *)

\* What the answer tells of the session that is being started.
LEMMA SpawnFacts ==
  ASSUME NEW c \in Clients, ClientOf(c), call[c].op = "spawn", NEW s, s = call[c].session
  PROVE  /\ phase[c] = "restart" => Unmade(s)
         /\ NotSpawned(c) => Unmade(s)
         /\ Answered(c, "spawn", {"yes"}) \/ Answered(c, "status", {"yes"}) => Made(s)
         /\ phase[c] \in {"attach", "close"} => Made(s)
         /\ Answered(c, "close", {"yes", "no"}) => Gone(s)
BY DEF ClientOf, SpawnOf, Before, NotSpawned, Answered

LEMMA SpawnProceeds ==
  ASSUME IInv, NEW c \in Clients, answer[c] # "none", Gets(c, "none"), SpawnGoesOn(c),
         UNCHANGED <<hostVars, session, unread, cached>>
  PROVE  IInv'
<1> USE DEF hostVars
<1> PICK s : s = call[c].session
  OBVIOUS
<1>0. /\ phase[c] # "rest" /\ HostType /\ WorldType /\ ClientType /\ ToldType /\ ClientOf(c)
      /\ s \in Sessions /\ phase[c] \in SpawnPhases /\ call[c].op = "spawn"
  <2>1. phase[c] # "rest"
    BY DEF IInv, PhaseInv, PhaseOf, Exchanges
  <2> QED BY <2>1, InCall DEF SpawnGoesOn
<1>1. /\ answer' \in [Clients -> AnswerSet] /\ answer'[c] = "none"
      /\ \A d \in Clients \ {c} : answer'[d] = answer[d]
      /\ HostType' /\ cached' \in [Clients -> 0..MaxHosts]
  BY <1>0 DEF Gets, ClientType, AnswerSet, HostType
<1>2. ASSUME NEW what \in {"failed", "ambiguous", "unidentified", "attached", "orphaned"}, Tell(c, what),
             what = "failed" => Unmade(s) \/ Gone(s),
             what \in {"attached", "unidentified", "orphaned"} => Made(s)
      PROVE  IInv'
  <2>1. what \in OutcomeSet \ {"none", "asked"}
    BY DEF OutcomeSet
  <2> QED BY <1>0, <1>1, <1>2, <2>1, ToldStep
<1>3. ASSUME NEW p \in {"leaving", "status", "attach", "close"}, Ask(c, p),
             p = "leaving" => Unmade(s), p \in {"attach", "close"} => Made(s)
      PROVE  IInv'
  <2>1. p \in SpawnPhases /\ p \in PhaseSet /\ (p \in Before \cup {"spawn"} => p = "leaving")
    BY DEF SpawnPhases, PhaseSet, Before, Exchanges
  <2>2. /\ phase' = [phase EXCEPT ![c] = p] /\ call' \in [Clients -> Calls]
        /\ \A d \in Clients \ {c} : call'[d] = call[d] /\ UNCHANGED toldVars
        /\ call'[c].op = call[c].op /\ call'[c].session = call[c].session
    BY <1>0, <1>3, <2>1, AskType
  <2>3. UNCHANGED toldVars
    BY <1>3 DEF Ask
  <2> QED BY <1>0, <1>1, <1>3, <2>1, <2>2, <2>3, SpawnsOn
<1>4. /\ phase[c] = "restart" => Unmade(s)
      /\ NotSpawned(c) => Unmade(s)
      /\ Answered(c, "spawn", {"yes"}) \/ Answered(c, "status", {"yes"}) => Made(s)
      /\ phase[c] \in {"attach", "close"} => Made(s)
      /\ Answered(c, "close", {"yes", "no"}) => Gone(s)
  BY <1>0, SpawnFacts
<1>5. CASE Answered(c, "restart", {"yes"}) /\ Ask(c, "leaving")
  BY <1>3, <1>4, <1>5 DEF Answered
<1>6. CASE Answered(c, "restart", Unanswered \cup {"no"}) /\ Tell(c, "failed")
  BY <1>2, <1>4, <1>6 DEF Answered
<1>7. CASE NotSpawned(c) /\ Tell(c, "failed")
  BY <1>2, <1>4, <1>7
<1>8. CASE Tell(c, "ambiguous")
  BY <1>2, <1>8
<1>9. CASE Ask(c, "status")
  BY <1>3, <1>9
<1>10. CASE (Answered(c, "spawn", {"yes"}) \/ Answered(c, "status", {"yes"})) /\ Ask(c, "attach")
  BY <1>3, <1>4, <1>10
<1>11. CASE /\ Answered(c, "attach", {"yes"})
            /\ Tell(c, IF call[c].expected = 0 THEN "unidentified" ELSE "attached")
  <2>1. Made(s)
    BY <1>4, <1>11 DEF Answered
  <2>2. CASE call[c].expected = 0
    BY <1>2, <1>11, <2>1, <2>2
  <2>3. CASE call[c].expected # 0
    BY <1>2, <1>11, <2>1, <2>3
  <2> QED BY <2>2, <2>3
<1>12. CASE /\ Answered(c, "attach", Unanswered \cup {"no"})
            /\ IF call[c].expected = 0 THEN Tell(c, "orphaned") ELSE Ask(c, "close")
  <2>1. Made(s)
    BY <1>4, <1>12 DEF Answered
  <2>2. CASE call[c].expected = 0
    BY <1>2, <1>12, <2>1, <2>2
  <2>3. CASE call[c].expected # 0
    BY <1>3, <1>12, <2>1, <2>3
  <2> QED BY <2>2, <2>3
<1>13. CASE Answered(c, "close", {"yes", "no"}) /\ Tell(c, "failed")
  BY <1>2, <1>4, <1>13
<1>14. CASE Answered(c, "close", Unanswered) /\ Tell(c, "orphaned")
  BY <1>2, <1>4, <1>14 DEF Answered
<1> QED BY <1>5, <1>6, <1>7, <1>8, <1>9, <1>10, <1>11, <1>12, <1>13, <1>14 DEF SpawnGoesOn

\* The changes to a call of a client that asks about a session.
LEMMA CallType ==
  ASSUME ClientType, NEW c \in Clients, NEW op \in {"none", "spawn", "reconcile", "idle", "stop"},
         NEW tried \in BOOLEAN,
         call' = [call EXCEPT ![c] = [call[c] EXCEPT !.host = 0, !.op = op, !.tried = tried]]
  PROVE  /\ call' \in [Clients -> Calls] /\ \A d \in Clients \ {c} : call'[d] = call[d]
         /\ call'[c].op = op /\ call'[c].session = call[c].session
         /\ call'[c].expected = call[c].expected
<1> DEFINE made == [call[c] EXCEPT !.host = 0, !.op = op, !.tried = tried]
<1>1. call[c] \in Calls /\ 0 \in 0..MaxHosts
  BY BoundsAssumption DEF ClientType
<1>2. made \in Calls /\ made.op = op /\ made.session = call[c].session /\ made.expected = call[c].expected
  BY <1>1 DEF Calls
<1>3. call' = [call EXCEPT ![c] = made]
  OBVIOUS
<1> HIDE DEF made
<1> QED BY <1>2, <1>3 DEF ClientType

LEMMA StatusProceeds ==
  ASSUME IInv, NEW c \in Clients, answer[c] # "none", Gets(c, "none"), call[c].op # "spawn",
         StatusGoesOn(c) \/ StopGoesOn(c),
         UNCHANGED <<hostVars, session, cached>>
  PROVE  IInv'
<1> USE DEF hostVars, toldVars
<1> PICK s : s = call[c].session
  OBVIOUS
<1>0. /\ phase[c] # "rest" /\ HostType /\ WorldType /\ ClientType /\ ToldType /\ ClientOf(c)
      /\ s \in Sessions /\ phase[c] \in StatusPhases /\ call[c].op \in {"reconcile", "idle", "stop"}
      /\ call[c] \in Calls
  <2>1. phase[c] # "rest"
    BY DEF IInv, PhaseInv, PhaseOf, Exchanges
  <2> QED BY <2>1, InCall DEF ClientType
<1>1. answer' = [answer EXCEPT ![c] = "none"]
  BY DEF Gets
<1>2. ASSUME Return(c), UNCHANGED <<unread, outcome>>,
             absent' = absent \/ (absent' = absent \cup {s} /\ Gone(s))
      PROVE  IInv'
  BY <1>0, <1>1, <1>2, StatusEnds
\* It goes on, with nothing sent yet or with a request over the same connection.
<1>3. ASSUME NEW p \in StatusPhases, Goto(c, p), UNCHANGED toldVars,
             call' \in [Clients -> Calls], \A d \in Clients \ {c} : call'[d] = call[d],
             call'[c].op \in {"reconcile", "idle", "stop"}, call'[c].session = call[c].session,
             call'[c].expected = call[c].expected,
             \/ unread' = unread
             \/ \E q \in {"alive", "close"} : unread' = unread \cup Sent(c, q) /\ call[c].host # 0
      PROVE  IInv'
  <2>1. ASSUME NEW r \in unread' \ unread
        PROVE  /\ r \in Requests /\ r.client = c /\ r.session = s /\ r.phase # "spawn" /\ r.host = up
    <3>1. PICK q \in {"alive", "close"} : r \in Sent(c, q) /\ call[c].host # 0
      BY <1>3, <2>1
    <3> QED BY <1>0, <3>1, SentType
  <2>2. phase' = [phase EXCEPT ![c] = p]
    BY <1>3 DEF Goto
  <2> QED BY <1>0, <1>1, <1>3, <2>1, <2>2, StatusOn
\* The same, by what happens to the call.
<1>4. ASSUME NEW p \in StatusPhases, Goto(c, p), UNCHANGED <<unread, toldVars>>,
             NEW op \in {"reconcile", "idle", "stop"}, NEW tried \in BOOLEAN,
             call' = [call EXCEPT ![c] = [call[c] EXCEPT !.host = 0, !.op = op, !.tried = tried]]
      PROVE  IInv'
  <2>1. /\ call' \in [Clients -> Calls] /\ \A d \in Clients \ {c} : call'[d] = call[d]
        /\ call'[c].op = op /\ call'[c].session = call[c].session
        /\ call'[c].expected = call[c].expected
    BY <1>0, <1>4, CallType
  <2> QED BY <1>3, <1>4, <2>1
<1>5. ASSUME NEW p \in StatusPhases, Ask(c, p),
             unread' \in {unread, unread \cup Sent(c, "close")}, answer[c] = "yes" \/ unread' = unread
      PROVE  IInv'
  <2>1. p \in PhaseSet
    BY DEF StatusPhases, PhaseSet, Exchanges
  <2>2. /\ call' \in [Clients -> Calls] /\ \A d \in Clients \ {c} : call'[d] = call[d]
        /\ call'[c].op = call[c].op /\ call'[c].session = call[c].session
        /\ call'[c].expected = call[c].expected
    BY <1>0, <1>5, <2>1, AskType
  <2>3. answer[c] = "yes" => call[c].host # 0
    BY <1>0 DEF ClientOf, PhaseOf
  <2> QED BY <1>0, <1>3, <1>5, <2>2, <2>3 DEF Ask
<1>6. CASE IsGone(c) /\ TellAbsent(c) /\ UNCHANGED unread
  <2>1. Gone(s)
    BY <1>0, <1>6 DEF IsGone, NotThere, Answered, ClientOf, StatusOf
  <2> QED BY <1>2, <1>6, <2>1 DEF TellAbsent
<1>7. CASE Answered(c, "exists", {"yes"}) /\ AskAlive(c)
  <2>1. call[c].host # 0
    BY <1>0, <1>7 DEF Answered, ClientOf, PhaseOf
  <2>2. call' \in [Clients -> Calls] /\ "alive" \in StatusPhases
    BY <1>0, <1>7 DEF AskAlive, ClientType, StatusPhases
  <2> QED BY <1>0, <1>3, <1>7, <2>1, <2>2 DEF AskAlive
<1>8. CASE /\ ShouldTry(c) /\ Goto(c, "idle") /\ UNCHANGED <<unread, toldVars>>
           /\ call' = [call EXCEPT ![c].host = 0, ![c].tried = TRUE]
  <2>1. call' = [call EXCEPT ![c] = [call[c] EXCEPT !.host = 0, !.op = call[c].op, !.tried = TRUE]]
    <3>1. [call[c] EXCEPT !.host = 0, !.op = call[c].op, !.tried = TRUE]
            = [call[c] EXCEPT !.host = 0, !.tried = TRUE]
      BY <1>0 DEF Calls
    <3>2. call' = [call EXCEPT ![c] = [call[c] EXCEPT !.host = 0, !.tried = TRUE]]
      BY <1>8
    <3> QED BY <3>1, <3>2
  <2>2. "idle" \in StatusPhases
    BY DEF StatusPhases
  <2> QED BY <1>0, <1>4, <1>8, <2>1, <2>2
<1>9. CASE Ask(c, "exists") /\ UNCHANGED unread
  <2>1. "exists" \in StatusPhases
    BY DEF StatusPhases
  <2> QED BY <1>5, <1>9, <2>1
<1>10. CASE Return(c) /\ UNCHANGED <<unread, toldVars>>
  BY <1>2, <1>10
<1>11. CASE /\ Answered(c, "take", {"yes"}) /\ unread' \in {unread, unread \cup Sent(c, "close")}
            /\ Ask(c, "exists")
  <2>1. "exists" \in StatusPhases /\ answer[c] = "yes"
    BY <1>11 DEF StatusPhases, Answered
  <2> QED BY <1>5, <1>11, <2>1
<1>12. CASE /\ Goto(c, "exists") /\ UNCHANGED <<unread, toldVars>>
            /\ call' = [call EXCEPT ![c].host = 0, ![c].op = "reconcile"]
  <2>1. call' = [call EXCEPT ![c] = [call[c] EXCEPT !.host = 0, !.op = "reconcile", !.tried = call[c].tried]]
    <3>1. [call[c] EXCEPT !.host = 0, !.op = "reconcile", !.tried = call[c].tried]
            = [call[c] EXCEPT !.host = 0, !.op = "reconcile"]
      BY <1>0 DEF Calls
    <3>2. call' = [call EXCEPT ![c] = [call[c] EXCEPT !.host = 0, !.op = "reconcile"]]
      BY <1>12
    <3> QED BY <3>1, <3>2
  <2>2. "exists" \in StatusPhases /\ call[c].tried \in BOOLEAN
    BY <1>0 DEF StatusPhases, Calls
  <2> QED BY <1>4, <1>12, <2>1, <2>2
<1>13. CASE /\ Goto(c, "exists") /\ UNCHANGED <<unread, toldVars>>
            /\ call' = [call EXCEPT ![c].host = 0, ![c].tried = FALSE]
  <2>1. call' = [call EXCEPT ![c] = [call[c] EXCEPT !.host = 0, !.op = call[c].op, !.tried = FALSE]]
    <3>1. [call[c] EXCEPT !.host = 0, !.op = call[c].op, !.tried = FALSE]
            = [call[c] EXCEPT !.host = 0, !.tried = FALSE]
      BY <1>0 DEF Calls
    <3>2. call' = [call EXCEPT ![c] = [call[c] EXCEPT !.host = 0, !.tried = FALSE]]
      BY <1>13
    <3> QED BY <3>1, <3>2
  <2>2. "exists" \in StatusPhases
    BY DEF StatusPhases
  <2> QED BY <1>0, <1>4, <1>13, <2>1, <2>2
<1>14. CASE StatusGoesOn(c)
  BY <1>6, <1>7, <1>8, <1>9, <1>10, <1>14 DEF StatusGoesOn
<1>15. CASE StopGoesOn(c)
  BY <1>11, <1>12, <1>13, <1>15 DEF StopGoesOn
<1> QED BY <1>14, <1>15

LEMMA ProceedStep ==
  ASSUME IInv, NEW c \in Clients, Proceed(c)
  PROVE  IInv'
<1>1. CASE SpawnGoesOn(c) /\ UNCHANGED unread
  BY <1>1, SpawnProceeds DEF Proceed
<1>2. CASE call[c].op # "spawn" /\ (StatusGoesOn(c) \/ StopGoesOn(c))
  BY <1>2, StatusProceeds DEF Proceed
<1> QED BY <1>1, <1>2 DEF Proceed

-----------------------------------------------------------------------------
(* The theorems *)

LEMMA NextInv == IInv /\ [Next]_vars => IInv'
<1> SUFFICES ASSUME IInv, [Next]_vars PROVE IInv'
  OBVIOUS
<1>1. CASE UNCHANGED vars
  BY <1>1 DEF vars, hostVars, toldVars, IInv, TypeOK, PhaseInv, PhaseOf, SessionInv, SessionOf, RequestInv,
     NumberInv, CallInv, SpawnOf, StatusOf, There, Made, Unmade, Gone, SpawnsOf
<1>2. CASE HostEnds \/ HostStops
  BY <1>2, DownStep DEF HostEnds, HostStops
<1>3. CASE HostStarts
  BY <1>3, StartsStep
<1>4. ASSUME NEW r \in unread, Handle(r) PROVE IInv'
  BY <1>4, HandleStep
<1>5. ASSUME NEW s \in Sessions, Ends(s, "ended") \/ Ends(s, "gone") PROVE IInv'
  BY <1>5, EndsStep
<1>6. ASSUME NEW c \in Clients, Spawn(c) PROVE IInv'
  BY <1>6, SpawnStep
<1>7. ASSUME NEW c \in Clients, ClientStep(c) PROVE IInv'
  BY <1>7, EnsureStep, AwaitStep, ConnectStep, GiveUpStep, ProceedStep DEF ClientStep
<1>8. ASSUME NEW c \in Clients, TimesOut(c) PROVE IInv'
  BY <1>8, AwaitStep
<1>9. ASSUME NEW c \in Clients, NEW s \in Sessions, NEW op \in {"reconcile", "idle", "stop"},
             s[1] = c, About(c, s, op)
      PROVE  IInv'
  BY <1>9, AboutStep
<1> QED BY <1>1, <1>2, <1>3, <1>4, <1>5, <1>6, <1>7, <1>8, <1>9 DEF Next

THEOREM Invariance == Spec => []IInv
BY InitInv, NextInv, PTL DEF Spec

\* Every variable keeps its type, and nothing that a host has, or has yet to read,
\* outlives it (session_host.rs, the registry and the sockets of a host process).
THEOREM TypesHold == Spec => []TypeOK
<1>1. IInv => TypeOK
  BY DEF IInv
<1> QED BY <1>1, Invariance, PTL

\* SpawnAttachError.retry_safe without an id: no session was started, none is
\* left, and none comes of the request any more.
FailedMeansNone ==
  \A s \in Sessions : outcome[s] = "failed" =>
    ~There(s) /\ \A r \in unread : ~(r.session = s /\ r.phase = "spawn" /\ r.host = up)

\* A client that spawn_attached tells to try again finds no session of the failed
\* try: none was made, or it was closed, and none is made later.
THEOREM FailedStarts == Spec => []FailedMeansNone
<1>1. IInv => FailedMeansNone
  BY DEF IInv, SessionInv, SessionOf, FailedMeansNone, SpawnsOf
<1> QED BY <1>1, Invariance, PTL

\* A session that was called absent, or closed, is so: the window drops its pane.
AbsentMeansGone == \A s \in absent : session[s].state = "gone"

LEMMA AbsentOnes == IInv => AbsentMeansGone
<1> SUFFICES ASSUME IInv, NEW s \in absent PROVE session[s].state = "gone"
  BY DEF AbsentMeansGone
<1>1. s \in Sessions
  BY DEF IInv, TypeOK
<1> QED BY <1>1 DEF IInv, SessionInv, SessionOf, Gone

\* A session that a window drops as absent, because probe_session_reference or an
\* idle close said so, is gone, and so it stays.
THEOREM AbsentSessions == Spec => []AbsentMeansGone
BY AbsentOnes, Invariance, PTL

-----------------------------------------------------------------------------
(* HostClient implements HostedSessions *)

Heard == {"failed", "ambiguous", "attached", "unidentified", "orphaned"}
Quiet == UNCHANGED <<presence, outcome, absent>>

LEMMA SamePresence == UNCHANGED session => UNCHANGED presence
BY DEF presence, There

LEMMA QuietStep == UNCHANGED <<session, toldVars>> => Quiet
BY SamePresence DEF Quiet, toldVars

\* Sessions that were there are gone.
LEMMA EndsSessions ==
  ASSUME UNCHANGED toldVars, NEW S \in SUBSET Sessions,
         \A s \in S : There(s) /\ Gone(s)',
         \A s \in Sessions \ S : session'[s] = session[s]
  PROVE  Hosted!End(S)
<1>1. \A s \in S : presence[s] = "there"
  BY DEF presence
<1>2. presence' = [s \in Sessions |-> IF There(s)' THEN "there" ELSE session'[s].state]
  BY DEF presence
<1>3. ASSUME NEW s \in Sessions
      PROVE  (IF There(s)' THEN "there" ELSE session'[s].state)
               = (IF s \in S THEN "gone" ELSE presence[s])
  BY DEF presence, There, Gone
<1>4. presence' = [s \in Sessions |-> IF s \in S THEN "gone" ELSE presence[s]]
  BY <1>2, <1>3
<1> QED BY <1>1, <1>4 DEF Hosted!End, toldVars

\* A client is told what is so of a session that it asked for.
LEMMA TellsSo ==
  ASSUME NEW s \in Sessions, outcome[s] = "asked", NEW what \in Heard,
         outcome' = [outcome EXCEPT ![s] = what], UNCHANGED <<session, absent>>,
         what = "failed" => Unmade(s) \/ Gone(s),
         what \in {"attached", "unidentified", "orphaned"} => Made(s)
  PROVE  \E q \in Sessions, w \in Heard : Hosted!Tell(q, w)
<1>1. what = "failed" => presence[s] # "there"
  BY DEF presence, Unmade, Gone, There
<1>2. Made(s) => presence[s] # "none"
  BY DEF presence, Made
<1>3. Hosted!TrueOf(s, what)
  BY <1>1, <1>2 DEF Hosted!TrueOf, Heard
<1> QED BY <1>3, SamePresence DEF Hosted!Tell

LEMMA NextParts ==
  Hosted!Next <=> \/ \E s \in Sessions : Hosted!Ask(s) \/ Hosted!Start(s) \/ Hosted!CallAbsent(s)
                  \/ \E s \in Sessions, what \in Heard : Hosted!Tell(s, what)
                  \/ \E S \in SUBSET Sessions : Hosted!End(S)
BY DEF Hosted!Next, Heard

LEMMA InitImplements == Init => Hosted!Init
BY DEF Init, Hosted!Init, presence, There, Session

LEMMA DownImplements ==
  ASSUME IInv, Down
  PROVE  Hosted!Next
<1> DEFINE S == {s \in Sessions : There(s)}
<1>1. /\ session' = [s \in Sessions |-> IF Registered(s, up) THEN Session("gone", up) ELSE session[s]]
      /\ UNCHANGED toldVars
  BY DEF Down
<1>2. \A s \in Sessions : There(s) <=> Registered(s, up)
  BY DEF IInv, SessionInv, SessionOf, Registered
<1>3. \A s \in S : There(s) /\ Gone(s)'
  BY <1>1, <1>2 DEF Gone, Session
<1>4. \A s \in Sessions \ S : session'[s] = session[s]
  BY <1>1, <1>2
<1>5. Hosted!End(S)
  BY <1>1, <1>3, <1>4, EndsSessions
<1> QED BY <1>5, NextParts

\* A shell that exits leaves its session there.
LEMMA EndsImplements ==
  ASSUME IInv, NEW s \in Sessions, NEW as \in {"ended", "gone"}, Ends(s, as)
  PROVE  Hosted!Next \/ Quiet
<1>1. /\ There(s) /\ session' = [session EXCEPT ![s].state = as] /\ UNCHANGED toldVars
      /\ session \in [Sessions -> SessionSet]
  BY TypeParts DEF Ends, IInv, WorldType
<1>2. session'[s].state = as /\ \A q \in Sessions \ {s} : session'[q] = session[q]
  BY <1>1 DEF SessionSet
<1>3. CASE as = "gone"
  <2>1. Hosted!End({s})
    BY <1>1, <1>2, <1>3, EndsSessions DEF Gone
  <2> QED BY <2>1, NextParts
<1>4. CASE as = "ended"
  <2>1. \A q \in Sessions : There(q)' = There(q) /\ (~There(q) => session'[q] = session[q])
    BY <1>1, <1>2, <1>4 DEF There
  <2>2. presence' = presence
    BY <2>1 DEF presence
  <2> QED BY <1>1, <2>2 DEF Quiet, toldVars
<1> QED BY <1>3, <1>4

\* A request makes its session if nobody was told that there is none, and closes
\* one that is there.
LEMMA HandleImplements ==
  ASSUME IInv, NEW r \in unread, Handle(r)
  PROVE  Hosted!Next \/ Quiet
<1> DEFINE s == r.session
<1>0. /\ r \in Requests /\ s \in Sessions /\ SessionOf(s) /\ ToldType
      /\ session \in [Sessions -> SessionSet]
      /\ UNCHANGED toldVars
  <2>1. r \in Requests /\ ToldType /\ session \in [Sessions -> SessionSet]
    BY TypeParts DEF IInv, WorldType
  <2>2. s \in Sessions
    BY <2>1 DEF Requests
  <2> QED BY <2>1, <2>2 DEF IInv, SessionInv, Handle
<1>1. CASE r.phase = "spawn" /\ session' = [session EXCEPT ![s] = Session("running", r.host)]
  <2>1. SpawnsOf(s) # {}
    BY <1>1 DEF SpawnsOf
  <2>2. session[s].state = "none" /\ outcome[s] \in {"asked", "ambiguous"}
    BY <1>0, <2>1 DEF SessionOf, Made, Unmade, ToldType, OutcomeSet
  <2>3. presence[s] = "none"
    BY <1>0, <2>2 DEF presence, There
  <2>4. session'[s].state = "running" /\ \A q \in Sessions \ {s} : session'[q] = session[q]
    BY <1>0, <1>1 DEF Session
  <2>5. presence' = [presence EXCEPT ![s] = "there"]
    BY <1>0, <2>4 DEF presence, There
  <2>6. Hosted!Start(s)
    BY <1>0, <2>2, <2>3, <2>5 DEF Hosted!Start, toldVars
  <2> QED BY <1>0, <2>6, NextParts
<1>2. CASE Registered(s, r.host) /\ session' = [session EXCEPT ![s] = Session("gone", r.host)]
  <2>1. There(s) /\ Gone(s)' /\ \A q \in Sessions \ {s} : session'[q] = session[q]
    BY <1>0, <1>2 DEF Registered, Gone, Session
  <2>2. Hosted!End({s})
    BY <1>0, <2>1, EndsSessions
  <2> QED BY <1>0, <2>2, NextParts
<1>3. CASE UNCHANGED session
  BY <1>0, <1>3, QuietStep
<1>4. Handles(r)
  BY DEF Handle
<1> QED BY <1>1, <1>2, <1>3, <1>4, Zenon DEF Handles

\* What spawn_attached returns.
LEMMA TellImplements ==
  ASSUME IInv, NEW c \in Clients, phase[c] \in SpawnPhases, NEW what \in Heard, Tell(c, what),
         UNCHANGED session, NEW s, s = call[c].session,
         what = "failed" => Unmade(s) \/ Gone(s),
         what \in {"attached", "unidentified", "orphaned"} => Made(s)
  PROVE  Hosted!Next
<1>1. s \in Sessions /\ outcome[s] = "asked"
  BY InCall DEF SpawnPhases, Before
<1>2. outcome' = [outcome EXCEPT ![s] = what] /\ UNCHANGED absent
  BY DEF Tell
<1> QED BY <1>1, <1>2, TellsSo, NextParts

LEMMA SpawnImplements ==
  ASSUME IInv, NEW c \in Clients, Spawn(c)
  PROVE  Hosted!Next
<1> DEFINE s == <<c, Asked(c) + 1>>
<1>1. PICK n \in 0..MaxSpawns : \A k \in 1..MaxSpawns : outcome[<<c, k>>] # "none" <=> k <= n
  BY DEF IInv, NumberInv
<1>2. Asked(c) = n /\ Asked(c) < MaxSpawns
  BY <1>1, AskedOnes DEF Spawn
<1>3. s \in Sessions /\ outcome[s] = "none"
  BY <1>1, <1>2, BoundsAssumption DEF Sessions
<1>4. outcome' = [outcome EXCEPT ![s] = "asked"] /\ UNCHANGED <<session, absent>>
  BY DEF Spawn
<1> HIDE DEF s
<1>5. Hosted!Ask(s)
  BY <1>3, <1>4, SamePresence DEF Hosted!Ask
<1> QED BY <1>3, <1>5, NextParts

LEMMA EnsureImplements ==
  ASSUME IInv, NEW c \in Clients, Ensure(c) \/ Await(c) \/ TimesOut(c)
  PROVE  Hosted!Next \/ Quiet
<1>1. /\ UNCHANGED session
      /\ phase[c] \in {"ensure", "starting", "leaving"}
      /\ Tell(c, "failed") \/ UNCHANGED toldVars
  BY DEF Ensure, Await, TimesOut
<1>2. CASE Tell(c, "failed")
  <2>1. phase[c] \in Before /\ phase[c] \in SpawnPhases /\ phase[c] # "rest" /\ "failed" \in Heard
    BY <1>1 DEF Before, SpawnPhases, Heard
  <2>2. Unmade(call[c].session)
    BY <2>1, InCall DEF ClientOf, SpawnOf
  <2> QED BY <1>1, <1>2, <2>1, <2>2, TellImplements
<1>3. CASE UNCHANGED toldVars
  BY <1>1, <1>3, QuietStep
<1> QED BY <1>1, <1>2, <1>3

LEMMA ProceedImplements ==
  ASSUME IInv, NEW c \in Clients, Proceed(c)
  PROVE  Hosted!Next \/ Quiet
<1> PICK s : s = call[c].session
  OBVIOUS
<1>0. /\ answer[c] # "none" /\ phase[c] # "rest" /\ ClientOf(c) /\ UNCHANGED session
      /\ s \in Sessions /\ SessionOf(s) /\ call[c].op \in {"spawn", "reconcile", "idle", "stop"}
      /\ call[c].op = "spawn" => phase[c] \in SpawnPhases
      /\ call[c].op # "spawn" => outcome[s] = "attached"
  <2>1. answer[c] # "none" /\ UNCHANGED session
    BY DEF Proceed
  <2>2. phase[c] # "rest"
    BY <2>1 DEF IInv, PhaseInv, PhaseOf, Exchanges
  <2> QED BY <2>1, <2>2, InCall
<1>1. ASSUME UNCHANGED toldVars
      PROVE  Hosted!Next \/ Quiet
  BY <1>0, <1>1, QuietStep
<1>2. CASE call[c].op = "spawn" /\ SpawnGoesOn(c)
  <2>1. ASSUME NEW what \in Heard, Tell(c, what),
               what = "failed" => Unmade(s) \/ Gone(s),
               what \in {"attached", "unidentified", "orphaned"} => Made(s)
        PROVE  Hosted!Next
    BY <1>0, <1>2, <2>1, TellImplements
  <2>2. /\ phase[c] = "restart" => Unmade(s)
        /\ NotSpawned(c) => Unmade(s)
        /\ phase[c] \in {"attach", "close"} => Made(s)
        /\ Answered(c, "close", {"yes", "no"}) => Gone(s)
    BY <1>0, <1>2, SpawnFacts
  <2>3. CASE \E p \in {"leaving", "status", "attach", "close"} : Ask(c, p)
    BY <1>1, <2>3 DEF Ask
  <2>4. CASE Tell(c, "failed") /\ (phase[c] = "restart" \/ NotSpawned(c) \/ Answered(c, "close", {"yes", "no"}))
    BY <2>1, <2>2, <2>4 DEF Heard
  <2>5. CASE Tell(c, "ambiguous")
    BY <2>1, <2>5 DEF Heard
  <2>6. ASSUME NEW what \in {"attached", "unidentified", "orphaned"}, Tell(c, what),
               phase[c] \in {"attach", "close"}
        PROVE  Hosted!Next
    BY <2>1, <2>2, <2>6 DEF Heard
  <2>7. \/ \E p \in {"leaving", "status", "attach", "close"} : Ask(c, p)
        \/ Tell(c, "failed") /\ (phase[c] = "restart" \/ NotSpawned(c) \/ Answered(c, "close", {"yes", "no"}))
        \/ Tell(c, "ambiguous")
        \/ \E what \in {"attached", "unidentified", "orphaned"} : Tell(c, what) /\ phase[c] \in {"attach", "close"}
    BY <1>2 DEF SpawnGoesOn, Answered
  <2> QED BY <2>3, <2>4, <2>5, <2>6, <2>7
<1>3. CASE call[c].op # "spawn" /\ IsGone(c) /\ TellAbsent(c)
  <2>1. Gone(s)
    BY <1>0, <1>3 DEF IsGone, NotThere, Answered, ClientOf, StatusOf
  <2>2. presence[s] = "gone"
    BY <1>0, <2>1 DEF presence, There, Gone
  <2>3. absent' = absent \cup {s} /\ UNCHANGED outcome
    BY <1>3 DEF TellAbsent
  <2>4. Hosted!CallAbsent(s)
    BY <1>0, <1>3, <2>2, <2>3, SamePresence DEF Hosted!CallAbsent
  <2> QED BY <1>0, <2>4, NextParts
<1>4. \/ SpawnGoesOn(c)
      \/ call[c].op # "spawn" /\ IsGone(c) /\ TellAbsent(c)
      \/ UNCHANGED toldVars
  <2>1. StatusGoesOn(c) => (IsGone(c) /\ TellAbsent(c)) \/ UNCHANGED toldVars
    BY DEF StatusGoesOn, AskAlive, Ask
  <2>2. StopGoesOn(c) => UNCHANGED toldVars
    BY DEF StopGoesOn, Ask
  <2> QED BY <2>1, <2>2 DEF Proceed
<1> QED BY <1>1, <1>2, <1>3, <1>4 DEF SpawnGoesOn

LEMMA NextImplements ==
  ASSUME IInv, [Next]_vars
  PROVE  Hosted!Next \/ Quiet
<1>1. CASE UNCHANGED vars \/ HostStarts
  BY <1>1, QuietStep DEF vars, HostStarts
<1>2. CASE HostEnds \/ HostStops
  BY <1>2, DownImplements DEF HostEnds, HostStops
<1>3. ASSUME NEW r \in unread, Handle(r) PROVE Hosted!Next \/ Quiet
  BY <1>3, HandleImplements
<1>4. ASSUME NEW s \in Sessions, Ends(s, "ended") \/ Ends(s, "gone") PROVE Hosted!Next \/ Quiet
  BY <1>4, EndsImplements
<1>5. ASSUME NEW c \in Clients, Spawn(c) PROVE Hosted!Next
  BY <1>5, SpawnImplements
<1>6. ASSUME NEW c \in Clients, ClientStep(c) \/ TimesOut(c) PROVE Hosted!Next \/ Quiet
  <2>1. CASE Connect(c) \/ GiveUp(c)
    BY <2>1, QuietStep DEF Connect, GiveUp
  <2> QED BY <1>6, <2>1, EnsureImplements, ProceedImplements DEF ClientStep
<1>7. ASSUME NEW c \in Clients, NEW s \in Sessions, NEW op \in {"reconcile", "idle", "stop"}, About(c, s, op)
      PROVE  Quiet
  BY <1>7, QuietStep DEF About
<1> QED BY <1>1, <1>2, <1>3, <1>4, <1>5, <1>6, <1>7 DEF Next

\* Whatever hosts die and answers are lost, what an application is told of the
\* sessions it started is what HostedSessions promises: spawn_attached makes a
\* session at most once and never after a failure that is safe to retry, and what
\* probe_session_reference calls absent was there, is gone and stays gone.
THEOREM ImplementsHostedSessions == Spec => RefinesHostedSessions
<1>1. IInv /\ [Next]_vars => [Hosted!Next]_(Hosted!sessionVars)
  BY NextImplements DEF Quiet, Hosted!sessionVars
<1> QED BY <1>1, InitImplements, Invariance, PTL DEF Spec, RefinesHostedSessions, Hosted!Spec
=============================================================================
