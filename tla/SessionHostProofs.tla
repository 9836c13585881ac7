------------------------ MODULE SessionHostProofs ------------------------
(***************************************************************************)
(* Theorems about SessionHost, for any finite set of connections, any set  *)
(* of spawn requests, any number of ids and any set of commands.           *)
(***************************************************************************)
EXTENDS SessionHost, FiniteSetTheorems, TLAPS

-----------------------------------------------------------------------------
(* The inductive invariant *)

Serving == {c \in Clients : pc[c] # "none"}

\* HostLifecycle.connections counts the handler threads.
CountInv == /\ connections = Cardinality(Serving)
            /\ \A c \in Clients : link[c] \in {"none", "backlog"} => pc[c] = "none"

\* Whoever allocates, registers or records a session holds the mutexes for it.
LockInv ==
  \A c \in Clients :
    /\ pc[c] = "register" => lifecycle = c
    /\ pc[c] \in {"allocate", "register"} => job[c].op \in {"spawn", "list"}
    /\ pc[c] \in {"allocate", "register"} /\ job[c].op = "spawn" => spawn_lock = c
    /\ pc[c] = "record" => job[c].op = "spawn" /\ spawn_lock = c
    /\ job[c].op = "list" => job[c].request = NoRequest

\* An id between its allocation and its registration is nobody else's.
FreshInv ==
  /\ registry \subseteq Known
  /\ \A id \in Known : id < next_id
  /\ \A c \in Clients : pc[c] \in {"register", "record"} =>
       \E id \in Ids : /\ job[c].found = {id}
                       /\ pc[c] = "register" => id < next_id /\ id \notin Known

\* spawn_requests() knows every live session that was made for a request, save
\* the one its holder is about to record; a request for which a session is being
\* made has none, and one for which it was just made has only that one.
RequestInv ==
  /\ \A id \in registry : made_for[id] # NoRequest =>
       \/ requests[made_for[id]] = id
       \/ \E c \in Clients : pc[c] = "record" /\ job[c].found = {id}
                             /\ job[c].request = made_for[id]
  /\ \A c \in Clients : pc[c] \in {"allocate", "register"} /\ job[c].request # NoRequest =>
       \A id \in registry : made_for[id] # job[c].request
  /\ \A c \in Clients : pc[c] = "record" /\ job[c].request # NoRequest =>
       \A id \in registry : made_for[id] = job[c].request => job[c].found = {id}

StopInv == stopping => /\ registry = {} /\ connections <= 1
                       /\ \A c \in Clients : pc[c] # "register"

IInv == TypeOK /\ CountInv /\ LockInv /\ FreshInv /\ RequestInv /\ StopInv

-----------------------------------------------------------------------------
(* Type correctness.  The count needs CountInv: it never goes below zero. *)

\* While a handler thread runs, the count of connections is positive.
LEMMA CountType ==
  ASSUME NEW c \in Clients, CountInv, pc[c] # "none"
  PROVE  connections \in Nat /\ connections > 0
<1>1. IsFiniteSet(Serving) /\ c \in Serving
  BY ClientsAssumption, FS_Subset DEF Serving
<1>2. Cardinality(Serving) \in Nat /\ Cardinality(Serving) # 0
  BY <1>1, FS_CardinalityType, FS_EmptySet
<1> QED BY <1>2 DEF CountInv

JobSet == [op : AllOps \cup {"none"}, request : Requests \cup {NoRequest},
           ids : SUBSET Ids, found : SUBSET Ids, todo : SUBSET Ids]
ReplySet == [kind : {"none", "error", "scope", "spawned", "sessions", "status", "host",
                     "restarting", "blocked", "closed", "written"}, ids : SUBSET Ids]
ConnType == /\ link \in [Clients -> {"none", "backlog", "open", "hung up"}]
            /\ scope \in [Clients -> 0..2]
            /\ connections \in Nat
HostType == /\ stopping \in BOOLEAN /\ exited \in BOOLEAN
            /\ lifecycle \in Clients \cup {NoClient}
            /\ spawn_lock \in Clients \cup {NoClient}
            /\ registry_lock \in Clients \cup {NoClient}
            /\ writer \in [Ids -> Clients \cup {NoClient}]
TableType == /\ registry \in SUBSET Ids
             /\ requests \in [Requests -> Ids \cup {0}]
             /\ next_id \in 1..(MaxId + 1)
             /\ made_for \in [Ids -> Requests \cup {NoRequest}]
PtyType == /\ program \in [Ids -> {"none", "shell", "command", "dead"}]
           /\ input \in SUBSET Ids /\ terminated \in SUBSET Ids

\* TypeOK, in groups of variables that change together.
LEMMA TypeParts ==
  TypeOK <=> /\ ConnType /\ pc \in [Clients -> Steps] /\ job \in [Clients -> JobSet]
             /\ reply \in [Clients -> ReplySet] /\ HostType /\ TableType /\ PtyType
BY DEF TypeOK, ConnType, JobSet, ReplySet, HostType, TableType, PtyType

\* The same for the next state.
LEMMA TypePartsNext ==
  TypeOK' <=> /\ ConnType' /\ pc' \in [Clients -> Steps] /\ job' \in [Clients -> JobSet]
              /\ reply' \in [Clients -> ReplySet] /\ HostType' /\ TableType' /\ PtyType'
BY DEF TypeOK, ConnType, JobSet, ReplySet, HostType, TableType, PtyType

\* A host starts with well-typed variables.
LEMMA TypeInit == Init => TypeOK
<1> SUFFICES ASSUME Init PROVE TypeOK
  OBVIOUS
<1>1. ConnType
  BY DEF Init, ConnType
<1>0. HostType
  BY DEF Init, HostType
<1>2. TableType /\ PtyType
  BY BoundsAssumption DEF Init, TableType, PtyType, Ids
<1>3. pc \in [Clients -> Steps] /\ job \in [Clients -> JobSet]
  BY DEF Init, Steps, JobSet, Idle, Ask
<1>4. reply \in [Clients -> ReplySet]
  BY DEF Init, ReplySet, NoReply, Answered
<1> QED BY <1>0, <1>1, <1>2, <1>3, <1>4, TypeParts

\* Every line a client sends is a request of the type of job.
LEMMA LinesType ==
  ASSUME NEW line \in Lines
  PROVE  line \in JobSet
BY DEF Lines, Ask, Known, AllOps, JobSet

\* An answer is a reply, and the handler goes to send it.
LEMMA AnswerType ==
  ASSUME NEW c \in Clients, TypeOK, NEW kind, NEW S \in SUBSET Ids,
         kind \in {"none", "error", "scope", "spawned", "sessions", "status", "host",
                   "restarting", "blocked", "closed", "written"},
         Answer(c, kind, S)
  PROVE  pc' \in [Clients -> Steps] /\ reply' \in [Clients -> ReplySet]
<1>1. pc \in [Clients -> Steps] /\ reply \in [Clients -> ReplySet]
  BY TypeParts
<1>2. pc' \in [Clients -> Steps]
  BY <1>1 DEF Answer, Goto, Steps
<1>3. Answered(kind, S) \in ReplySet
  BY DEF Answered, ReplySet
<1> QED BY <1>1, <1>2, <1>3 DEF Answer

-----------------------------------------------------------------------------
(* Which handler steps change which variables *)

\* Only a handler that leaves changes the connections.
LEMMA ConnFrame ==
  ASSUME NEW c \in Clients, HandlerStep(c)
  PROVE  Leave(c) \/ UNCHANGED connVars
BY DEF HandlerStep, connVars, Refuse, BeginSpawn, BeginList, Allocate,
   Register, Record, List, SpawnStatus, RestartHost, HostStatus, BeginClose, LockWriter,
   CheckIdle, Kill, Unregister, BeginWrite, Write, Send, Continue, EndOfStream

\* Only registrations, kills and writes touch terminals.
LEMMA PtyFrame ==
  ASSUME NEW c \in Clients, HandlerStep(c)
  PROVE  Register(c) \/ Kill(c) \/ Write(c) \/ UNCHANGED ptyVars
BY DEF HandlerStep, ptyVars, Refuse, BeginSpawn, BeginList, Allocate, Record,
   List, SpawnStatus, RestartHost, HostStatus, BeginClose, LockWriter, CheckIdle,
   Unregister, BeginWrite, Send, Continue, EndOfStream, Leave

\* Which handlers change the registry, the spawn requests and the ids.
LEMMA TableFrame ==
  ASSUME NEW c \in Clients, HandlerStep(c)
  PROVE  BeginSpawn(c) \/ Allocate(c) \/ Register(c) \/ Record(c)
         \/ Unregister(c) \/ UNCHANGED tableVars
BY DEF HandlerStep, tableVars, Refuse, BeginList, List, SpawnStatus,
   RestartHost, HostStatus, BeginClose, LockWriter, CheckIdle, Kill, BeginWrite, Write,
   Send, Continue, EndOfStream, Leave

\* Only restart_host changes what the whole host does.
LEMMA HostFrame ==
  ASSUME NEW c \in Clients, HandlerStep(c)
  PROVE  RestartHost(c) \/ UNCHANGED hostVars
BY DEF HandlerStep, hostVars, Refuse, BeginSpawn, BeginList, Allocate,
   Register, Record, List, SpawnStatus, HostStatus, BeginClose, LockWriter, CheckIdle,
   Kill, Unregister, BeginWrite, Write, Send, Continue, EndOfStream, Leave

\* Which handlers take or release a mutex.
LEMMA LockFrame ==
  ASSUME NEW c \in Clients, HandlerStep(c)
  PROVE  BeginSpawn(c) \/ Allocate(c) \/ Register(c) \/ RestartHost(c)
         \/ HostStatus(c) \/ LockWriter(c) \/ CheckIdle(c) \/ Kill(c)
         \/ BeginWrite(c) \/ Send(c) \/ UNCHANGED lockVars
BY DEF HandlerStep, lockVars, Refuse, BeginList, Record, List, SpawnStatus,
   BeginClose, Unregister, Write, Continue, EndOfStream, Leave

\* Which handlers change the request they work on.
LEMMA JobFrame ==
  ASSUME NEW c \in Clients, HandlerStep(c)
  PROVE  Allocate(c) \/ BeginClose(c) \/ LockWriter(c) \/ Kill(c)
         \/ Unregister(c) \/ Send(c) \/ UNCHANGED job
BY DEF HandlerStep, Refuse, BeginSpawn, BeginList, Register, Record, List,
   SpawnStatus, RestartHost, HostStatus, CheckIdle, BeginWrite, Write, Continue,
   EndOfStream, Leave

-----------------------------------------------------------------------------
(* Type correctness is kept, one group of variables at a time *)

\* Handlers only go to steps they have.
LEMMA PcStep ==
  ASSUME NEW c \in Clients, HandlerStep(c), pc \in [Clients -> Steps]
  PROVE  pc' \in [Clients -> Steps]
<1> USE DEF Goto, Answer, Steps
<1>1. CASE Refuse(c) \/ BeginSpawn(c) \/ BeginList(c) \/ List(c) \/ SpawnStatus(c)
           \/ RestartHost(c) \/ HostStatus(c) \/ BeginClose(c)
  BY <1>1 DEF Refuse, BeginSpawn, BeginList, List, SpawnStatus, RestartHost,
       HostStatus, BeginClose
<1>2. CASE Allocate(c) \/ Register(c) \/ Record(c)
  BY <1>2 DEF Allocate, Register, Record, SpawnFailed
<1>3. CASE LockWriter(c) \/ CheckIdle(c) \/ Kill(c) \/ Unregister(c) \/ BeginWrite(c)
           \/ Write(c)
  BY <1>3 DEF LockWriter, CheckIdle, Kill, Unregister, BeginWrite, Write
<1>4. CASE Send(c) \/ Continue(c) \/ EndOfStream(c) \/ Leave(c)
  BY <1>4 DEF Send, Continue, EndOfStream, Leave
<1> QED BY <1>1, <1>2, <1>3, <1>4 DEF HandlerStep

\* Handlers only give well-typed answers.
LEMMA ReplyStep ==
  ASSUME NEW c \in Clients, HandlerStep(c), TypeOK
  PROVE  reply' \in [Clients -> ReplySet]
<1> USE TypeParts
<1>1. CASE Refuse(c) \/ List(c) \/ RestartHost(c) \/ HostStatus(c)
  BY <1>1, AnswerType DEF Refuse, List, RestartHost, HostStatus, TableType
<1>2. CASE BeginSpawn(c)
  <2>1. CASE UNCHANGED reply
    BY <2>1
  <2>2. CASE \E r \in Requests : Retained[r] # 0 /\ Answer(c, "spawned", {Retained[r]})
    BY <2>2, AnswerType DEF Retained, TableType
  <2> QED BY <1>2, <2>1, <2>2 DEF BeginSpawn, TypeOK
<1>3. CASE Allocate(c) \/ Register(c)
  BY <1>3, AnswerType DEF Allocate, Register, SpawnFailed
<1>4. CASE Record(c) \/ Unregister(c) \/ BeginWrite(c) \/ Write(c)
  <2>1. job[c].found \in SUBSET Ids /\ job[c].ids \in SUBSET Ids
    BY DEF JobSet
  <2> QED BY <1>4, <2>1, AnswerType DEF Record, Unregister, BeginWrite, Write
<1>5. CASE SpawnStatus(c)
  BY <1>5, AnswerType DEF SpawnStatus, Recorded, TableType
<1>6. CASE BeginClose(c) \/ CheckIdle(c)
  <2>1. {id \in job[c].found : program[id] = "command"} \in SUBSET Ids
    BY DEF JobSet
  <2> QED BY <1>6, <2>1, AnswerType DEF BeginClose, CheckIdle
<1>7. CASE Send(c)
  BY <1>7 DEF Send, NoReply, Answered, ReplySet
<1>8. CASE BeginList(c) \/ LockWriter(c) \/ Kill(c) \/ Continue(c) \/ EndOfStream(c)
           \/ Leave(c)
  BY <1>8 DEF BeginList, LockWriter, Kill, Continue, EndOfStream, Leave
<1> QED BY <1>1, <1>2, <1>3, <1>4, <1>5, <1>6, <1>7, <1>8 DEF HandlerStep

\* What handlers note in their request are ids.
LEMMA JobStep ==
  ASSUME NEW c \in Clients, HandlerStep(c), TypeOK
  PROVE  job' \in [Clients -> JobSet]
<1> USE TypeParts
<1>1. job[c] \in JobSet
  OBVIOUS
<1>2. CASE Allocate(c)
  BY <1>2 DEF Allocate, Lowest, FreeIds, JobSet
<1>3. CASE BeginClose(c)
  <2>1. \/ job' = job
        \/ job' = [job EXCEPT ![c].found = job[c].ids \cap registry,
                             ![c].todo = job[c].ids \cap registry]
    BY <1>3 DEF BeginClose
  <2>2. job[c].ids \cap registry \in SUBSET Ids
    BY <1>1 DEF JobSet
  <2> QED BY <2>1, <2>2 DEF JobSet
<1>4. CASE LockWriter(c) \/ Kill(c) \/ Unregister(c)
  <2>1. job' = job \/ \E T \in SUBSET Ids : job' = [job EXCEPT ![c].todo = T]
    <3>1. job[c].ids \in SUBSET Ids /\ \A id : job[c].todo \ {id} \in SUBSET Ids
      BY <1>1 DEF JobSet
    <3> QED BY <1>4, <3>1 DEF LockWriter, Kill, Unregister
  <2> QED BY <2>1 DEF JobSet
<1>5. CASE Send(c)
  BY <1>5 DEF Send, Idle, Ask, JobSet
<1> QED BY <1>2, <1>3, <1>4, <1>5, JobFrame

\* Mutexes are held by connections or by nobody.
LEMMA HostStep ==
  ASSUME NEW c \in Clients, HandlerStep(c), HostType
  PROVE  HostType'
<1>1. stopping' \in BOOLEAN /\ exited' \in BOOLEAN
  BY HostFrame DEF HostType, hostVars, RestartHost
<1>2. /\ lifecycle' \in Clients \cup {NoClient}
      /\ spawn_lock' \in Clients \cup {NoClient}
      /\ registry_lock' \in Clients \cup {NoClient}
  BY LockFrame DEF HostType, lockVars, BeginSpawn, Allocate, Register, RestartHost,
     HostStatus, LockWriter, CheckIdle, Kill, BeginWrite, Send, Released
<1>3. writer' \in [Ids -> Clients \cup {NoClient}]
  BY LockFrame DEF HostType, lockVars, BeginSpawn, Allocate, Register, RestartHost,
     HostStatus, LockWriter, CheckIdle, Kill, BeginWrite, Send, WritersReleased
<1> QED BY <1>1, <1>2, <1>3 DEF HostType

\* Handlers register and allocate ids within bounds.
LEMMA TableStep ==
  ASSUME NEW c \in Clients, HandlerStep(c), TypeOK
  PROVE  TableType'
<1> USE TypeParts, BoundsAssumption DEF TableType, Ids
<1>0. job[c].found \in SUBSET Ids
  BY DEF JobSet
<1>1. CASE BeginSpawn(c)
  BY <1>1 DEF BeginSpawn, Retained
<1>2. CASE Allocate(c)
  BY <1>2 DEF Allocate, Lowest, FreeIds
<1>3. CASE Register(c)
  <2>1. job[c].request \in Requests \cup {NoRequest}
    BY DEF JobSet
  <2> QED BY <1>0, <1>3, <2>1 DEF Register
<1>4. CASE Record(c)
  BY <1>0, <1>4 DEF Record
<1>5. CASE Unregister(c)
  BY <1>5 DEF Unregister
<1>6. CASE UNCHANGED tableVars
  BY <1>6 DEF tableVars
<1> QED BY <1>1, <1>2, <1>3, <1>4, <1>5, <1>6, TableFrame

\* Handlers leave terminals well-typed.
LEMMA PtyStep ==
  ASSUME NEW c \in Clients, HandlerStep(c), TypeOK
  PROVE  PtyType'
<1> USE TypeParts DEF PtyType
<1>0. job[c].found \in SUBSET Ids /\ job[c].ids \in SUBSET Ids
  BY DEF JobSet
<1>1. CASE Register(c)
  BY <1>1 DEF Register
<1>2. CASE Kill(c) \/ Write(c)
  BY <1>0, <1>2 DEF Kill, Write
<1>3. CASE UNCHANGED ptyVars
  BY <1>3 DEF ptyVars
<1> QED BY <1>1, <1>2, <1>3, PtyFrame

\* No step leaves the types; the count of connections needs CountInv.
LEMMA TypeStep == TypeOK /\ CountInv /\ [Next]_vars => TypeOK'
<1> SUFFICES ASSUME TypeOK, CountInv, [Next]_vars PROVE TypeOK'
  OBVIOUS
<1> ConnType /\ pc \in [Clients -> Steps] /\ job \in [Clients -> JobSet]
    /\ reply \in [Clients -> ReplySet] /\ HostType /\ TableType /\ PtyType
  BY TypeParts
<1>1. ASSUME NEW c \in Clients, HandlerStep(c) PROVE TypeOK'
  <2>1. ASSUME Leave(c) PROVE ConnType'
    <3>1. connections' \in Nat /\ scope' = scope
      BY <2>1, CountType DEF Leave, At
    <3>2. link' \in [Clients -> {"none", "backlog", "open", "hung up"}]
      BY <2>1 DEF Leave, ConnType
    <3> QED BY <3>1, <3>2 DEF ConnType
  <2>2. ASSUME UNCHANGED connVars PROVE ConnType'
    BY <2>2 DEF ConnType, connVars
  <2>3. ConnType'
    BY <1>1, <2>1, <2>2, ConnFrame
  <2> QED BY TypePartsNext, <1>1, <2>3, PcStep, ReplyStep, JobStep, HostStep, TableStep, PtyStep
<1>2. ASSUME NEW c \in Clients, Connect(c) \/ Disconnect(c) \/ SetAccessScope(c)
      PROVE  TypeOK'
  <2>0. ASSUME SetAccessScope(c)
        PROVE  /\ ConnType' /\ pc' \in [Clients -> Steps]
               /\ reply' \in [Clients -> ReplySet]
    <3>1. PICK s \in LowestScope..2 :
             scope' = [scope EXCEPT ![c] = IF s > scope[c] THEN scope[c] ELSE s]
      BY <2>0 DEF SetAccessScope
    <3>2. s \in 0..2
      BY BoundsAssumption
    <3>3. scope' \in [Clients -> 0..2]
      BY <3>1, <3>2 DEF ConnType
    <3>4. pc' \in [Clients -> Steps] /\ reply' \in [Clients -> ReplySet]
      BY <2>0, AnswerType DEF SetAccessScope
    <3> QED BY <2>0, <3>3, <3>4 DEF SetAccessScope, ConnType
  <2>1. ConnType' /\ pc' \in [Clients -> Steps] /\ reply' \in [Clients -> ReplySet]
    BY <1>2, <2>0 DEF ConnType, Connect, Disconnect
  <2>2. UNCHANGED <<job, hostVars, lockVars, tableVars, ptyVars>>
    BY <1>2 DEF Connect, Disconnect, SetAccessScope
  <2> QED BY TypePartsNext, <2>1, <2>2 DEF HostType, TableType, PtyType, hostVars, lockVars, tableVars, ptyVars
<1>3. ASSUME NEW c \in Clients, Accept(c) PROVE TypeOK'
  <2>0. connections' \in Nat
    <3>1. connections' = connections + 1 \/ connections' = connections
      BY <1>3 DEF Accept, Counted
    <3>2. connections \in Nat
      BY DEF ConnType
    <3> QED BY <3>1, <3>2
  <2>1. scope' \in [Clients -> 0..2]
    <3>1. scope' = [scope EXCEPT ![c] = 2] \/ scope' = scope
      BY <1>3 DEF Accept
    <3>2. scope \in [Clients -> 0..2]
      BY DEF ConnType
    <3> QED BY <3>1, <3>2
  <2>3. /\ link' \in [Clients -> {"none", "backlog", "open", "hung up"}]
        /\ pc' \in [Clients -> Steps]
    BY <1>3 DEF ConnType, Accept, Steps
  <2>2. UNCHANGED <<job, reply, hostVars, lockVars, tableVars, ptyVars>>
    BY <1>3 DEF Accept
  <2> QED BY TypePartsNext, <2>0, <2>1, <2>2, <2>3 DEF ConnType, HostType, TableType, PtyType, hostVars, lockVars, tableVars, ptyVars
<1>4. ASSUME NEW c \in Clients, Read(c) PROVE TypeOK'
  <2>1. pc' \in [Clients -> Steps]
    BY <1>4 DEF Read, Goto, Steps
  <2>2. PICK line \in Lines : job' = [job EXCEPT ![c] = line]
    BY <1>4 DEF Read
  <2>3. job' \in [Clients -> JobSet]
    BY <2>2, LinesType
  <2>4. UNCHANGED <<connVars, reply, hostVars, lockVars, tableVars, ptyVars>>
    BY <1>4 DEF Read
  <2> QED BY TypePartsNext, <2>1, <2>3, <2>4
          DEF ConnType, HostType, TableType, PtyType, connVars, hostVars, lockVars, tableVars, ptyVars
<1>5. ASSUME Exit PROVE TypeOK'
  BY <1>5, TypePartsNext DEF Exit, ConnType, HostType, TableType, PtyType, connVars, lockVars, tableVars, ptyVars
<1>6. ASSUME NEW id \in Ids, Shell(id) PROVE TypeOK'
  <2>1. PtyType'
    BY <1>6 DEF PtyType, Shell
  <2>2. UNCHANGED <<connVars, pc, job, reply, hostVars, lockVars, tableVars>>
    BY <1>6 DEF Shell
  <2> QED BY TypePartsNext, <2>1, <2>2 DEF ConnType, HostType, TableType, connVars, hostVars, lockVars, tableVars
<1>7. CASE UNCHANGED vars
  BY <1>7, TypePartsNext DEF vars, ConnType, HostType, TableType, PtyType, connVars, hostVars, lockVars,
     tableVars, ptyVars
<1> QED BY <1>1, <1>2, <1>3, <1>4, <1>5, <1>6, <1>7 DEF Next, ClientStep

-----------------------------------------------------------------------------
(* The rest of the invariant *)

\* A host starts in the invariant.
LEMMA InitInv == Init => IInv
<1> SUFFICES ASSUME Init PROVE IInv
  OBVIOUS
<1>1. CountInv
  <2>1. Serving = {}
    BY DEF Init, Serving
  <2> QED BY <2>1, FS_EmptySet DEF Init, CountInv
<1>2. LockInv
  BY SentinelsAssumption DEF Init, LockInv, Idle, Ask
<1>3. FreshInv /\ RequestInv /\ StopInv
  BY DEF Init, FreshInv, Known, RequestInv, StopInv
<1> QED BY <1>1, <1>2, <1>3, TypeInit DEF IInv

\* Accepting and leaving keep the count equal to the number of handlers.
LEMMA CountStep == TypeOK /\ CountInv /\ [Next]_vars => CountInv'
<1> SUFFICES ASSUME TypeOK, CountInv, [Next]_vars PROVE CountInv'
  OBVIOUS
<1> link \in [Clients -> {"none", "backlog", "open", "hung up"}] /\ pc \in [Clients -> Steps]
  BY DEF TypeOK
<1> IsFiniteSet(Serving)
  BY ClientsAssumption, FS_Subset DEF Serving
<1>1. ASSUME NEW c \in Clients, Accept(c) PROVE CountInv'
  <2>1. pc[c] = "none"
    BY <1>1 DEF Accept, CountInv
  <2>2. CASE UNCHANGED <<connections, pc>>
    BY <1>1, <2>1, <2>2 DEF Accept, CountInv, Serving
  <2>3. CASE /\ connections' = connections + 1
             /\ pc' = [pc EXCEPT ![c] = "read"] /\ link' = [link EXCEPT ![c] = "open"]
    <3>1. Serving' = Serving \cup {c} /\ c \notin Serving
      BY <2>1, <2>3 DEF Serving
    <3>2. Cardinality(Serving') = Cardinality(Serving) + 1
      BY <3>1, FS_AddElement
    <3> QED BY <2>3, <3>2 DEF CountInv
  <2> QED BY <1>1, <2>2, <2>3 DEF Accept, Counted
<1>2. ASSUME NEW c \in Clients, Leave(c) PROVE CountInv'
  <2>1. Serving' = Serving \ {c} /\ c \in Serving
    BY <1>2 DEF Leave, At, Goto, Serving
  <2>2. Cardinality(Serving') = Cardinality(Serving) - 1
    BY <2>1, FS_RemoveElement
  <2> QED BY <1>2, <2>2 DEF Leave, Goto, CountInv
<1>3. ASSUME NEW c \in Clients, pc[c] # "none" /\ pc'[c] # "none",
             \A d \in Clients : d # c => pc'[d] = pc[d], UNCHANGED <<link, connections>>
      PROVE  CountInv'
  <2>1. Serving' = Serving
    BY <1>3 DEF Serving
  <2> QED BY <1>3, <2>1 DEF CountInv
<1>4. ASSUME NEW c \in Clients, HandlerStep(c), ~Leave(c)
      PROVE  /\ pc[c] # "none" /\ pc'[c] # "none"
             /\ \A d \in Clients : d # c => pc'[d] = pc[d]
  <2> USE DEF Goto, Answer, At, Begins, Steps
  <2>1. CASE Refuse(c) \/ BeginSpawn(c) \/ BeginList(c) \/ List(c) \/ SpawnStatus(c)
             \/ RestartHost(c) \/ HostStatus(c) \/ BeginClose(c)
    BY <2>1 DEF Refuse, BeginSpawn, BeginList, List, SpawnStatus, RestartHost,
       HostStatus, BeginClose
  <2>2. CASE Allocate(c) \/ Register(c) \/ Record(c)
    BY <2>2 DEF Allocate, Register, Record, SpawnFailed
  <2>3. CASE LockWriter(c) \/ CheckIdle(c) \/ Kill(c) \/ Unregister(c) \/ BeginWrite(c)
             \/ Write(c)
    BY <2>3 DEF LockWriter, CheckIdle, Kill, Unregister, BeginWrite, Write
  <2>4. CASE Send(c) \/ Continue(c) \/ EndOfStream(c)
    BY <2>4 DEF Send, Continue, EndOfStream
  <2> QED BY <1>4, <2>1, <2>2, <2>3, <2>4 DEF HandlerStep
<1>5. ASSUME NEW c \in Clients, HandlerStep(c) PROVE CountInv'
  BY <1>2, <1>3, <1>4, <1>5, ConnFrame DEF connVars
<1>6. ASSUME NEW c \in Clients, Connect(c) \/ Disconnect(c) PROVE CountInv'
  <2>1. Serving' = Serving /\ connections' = connections /\ pc' = pc
    BY <1>6 DEF Connect, Disconnect, Serving
  <2> QED BY <1>6, <2>1 DEF Connect, Disconnect, CountInv
<1>7. ASSUME NEW c \in Clients, Read(c) \/ SetAccessScope(c) PROVE CountInv'
  BY <1>3, <1>7 DEF Read, SetAccessScope, Answer, At, Goto, connVars
<1>8. ASSUME UNCHANGED <<link, connections, pc>> PROVE CountInv'
  BY <1>8 DEF CountInv, Serving
<1> QED BY <1>1, <1>5, <1>6, <1>7, <1>8
        DEF Next, ClientStep, Exit, Shell, vars, connVars

\* A step of c leaves the other handlers where they are, and the command and
\* the request it handles stay, until it is done with them.
LEMMA OthersStay ==
  ASSUME TypeOK, NEW c \in Clients, HandlerStep(c)
  PROVE  /\ \A d \in Clients : d # c => pc'[d] = pc[d] /\ job'[d] = job[d]
         /\ pc[c] # "send" => job'[c].op = job[c].op /\ job'[c].request = job[c].request
<1> job \in [Clients -> JobSet] /\ pc \in [Clients -> Steps]
  BY TypeParts
<1>1. \A d \in Clients : d # c => pc'[d] = pc[d]
  <2> USE DEF Goto, Answer
  <2>1. CASE Refuse(c) \/ BeginSpawn(c) \/ BeginList(c) \/ List(c) \/ SpawnStatus(c)
             \/ RestartHost(c) \/ HostStatus(c) \/ BeginClose(c)
    BY <2>1 DEF Refuse, BeginSpawn, BeginList, List, SpawnStatus, RestartHost,
       HostStatus, BeginClose
  <2>2. CASE Allocate(c) \/ Register(c) \/ Record(c)
    BY <2>2 DEF Allocate, Register, Record, SpawnFailed
  <2>3. CASE LockWriter(c) \/ CheckIdle(c) \/ Kill(c) \/ Unregister(c) \/ BeginWrite(c)
             \/ Write(c)
    BY <2>3 DEF LockWriter, CheckIdle, Kill, Unregister, BeginWrite, Write
  <2>4. CASE Send(c) \/ Continue(c) \/ EndOfStream(c) \/ Leave(c)
    BY <2>4 DEF Send, Continue, EndOfStream, Leave
  <2> QED BY <2>1, <2>2, <2>3, <2>4 DEF HandlerStep
<1>2. \/ job' = job
      \/ pc[c] = "send" /\ job' = [job EXCEPT ![c] = Idle]
      \/ \E S : job' = [job EXCEPT ![c].found = S]
      \/ \E S : job' = [job EXCEPT ![c].todo = S]
      \/ \E S : job' = [job EXCEPT ![c].found = S, ![c].todo = S]
  BY JobFrame DEF Allocate, BeginClose, LockWriter, Kill, Unregister, Send, At
<1> QED BY <1>1, <1>2 DEF JobSet

\* Mutexes are taken and released where LockInv says.
LEMMA LockStep == TypeOK /\ CountInv /\ LockInv /\ [Next]_vars => LockInv'
<1> SUFFICES ASSUME TypeOK, CountInv, LockInv, [Next]_vars PROVE LockInv'
  OBVIOUS
<1> job \in [Clients -> JobSet] /\ pc \in [Clients -> Steps]
  BY TypeParts
<1> lifecycle \in Clients \cup {NoClient} /\ NoClient \notin Clients
  BY SentinelsAssumption DEF TypeOK
<1>1. ASSUME NEW c \in Clients, HandlerStep(c) PROVE LockInv'
  <2> USE <1>1, OthersStay DEF At, Begins, Goto, Answer
  <2>1. CASE BeginSpawn(c)
    BY <2>1 DEF BeginSpawn, LockInv
  <2>2. CASE BeginList(c)
    BY <2>2 DEF BeginList, lockVars, LockInv
  <2>3. CASE Allocate(c)
    BY <2>3 DEF Allocate, SpawnFailed, LockInv
  <2>4. CASE Register(c)
    BY <2>4 DEF Register, SpawnFailed, LockInv
  <2>5. CASE Record(c)
    BY <2>5 DEF Record, lockVars, LockInv
  <2>6. CASE Send(c)
    BY <2>6 DEF Send, Released, Idle, Ask, LockInv
  <2>7. CASE /\ pc[c] \notin {"allocate", "register", "record", "send"}
             /\ pc'[c] \notin {"allocate", "register", "record"}
             /\ lifecycle' = lifecycle \/ lifecycle = NoClient
             /\ UNCHANGED spawn_lock
    BY <2>7 DEF LockInv
  <2>8. CASE Refuse(c) \/ List(c) \/ SpawnStatus(c) \/ RestartHost(c) \/ HostStatus(c)
             \/ BeginClose(c)
    BY <2>7, <2>8 DEF Refuse, List, SpawnStatus, RestartHost, HostStatus, BeginClose, lockVars
  <2>9. CASE LockWriter(c) \/ CheckIdle(c) \/ Kill(c) \/ Unregister(c)
    BY <2>7, <2>9 DEF LockWriter, CheckIdle, Kill, Unregister, lockVars
  <2>10. CASE BeginWrite(c) \/ Write(c) \/ Continue(c) \/ EndOfStream(c) \/ Leave(c)
    BY <2>7, <2>10 DEF BeginWrite, Write, Continue, EndOfStream, Leave, lockVars
  <2> QED BY <2>1, <2>2, <2>3, <2>4, <2>5, <2>6, <2>8, <2>9, <2>10 DEF HandlerStep
<1>2. ASSUME NEW c \in Clients, Connect(c) \/ Disconnect(c) \/ Accept(c) \/ SetAccessScope(c)
      PROVE  LockInv'
  <2>1. \/ pc' = pc
        \/ \E step \in {"read", "send"} : pc' = [pc EXCEPT ![c] = step]
                                        /\ pc[c] \in {"none", "read"}
    BY <1>2 DEF CountInv, Connect, Disconnect, Accept, SetAccessScope, Answer, At, Goto
  <2> QED BY <1>2, <2>1 DEF Connect, Disconnect, Accept, SetAccessScope, At, lockVars, LockInv
<1>3. ASSUME NEW c \in Clients, Read(c) PROVE LockInv'
  <2>1. PICK line \in Lines : job' = [job EXCEPT ![c] = line]
    BY <1>3 DEF Read
  <2>2. line.op = "list" => line.request = NoRequest
    BY DEF Lines, Ask
  <2> QED BY <1>3, <2>1, <2>2 DEF Read, At, Goto, lockVars, LockInv
<1>4. ASSUME UNCHANGED <<pc, job, lifecycle, spawn_lock>> PROVE LockInv'
  BY <1>4 DEF LockInv
<1> QED BY <1>1, <1>2, <1>3, <1>4
        DEF Next, ClientStep, Exit, Shell, vars, lockVars

\* Only a registration makes a new terminal.
LEMMA KnownSame ==
  ASSUME TypeOK, NEW c \in Clients, HandlerStep(c), ~Register(c)
  PROVE  Known' = Known
BY PtyFrame DEF ptyVars, Kill, Write, Known

\* A registration makes one session, with the id that was allocated for it.
LEMMA RegisterOne ==
  ASSUME TypeOK, LockInv, FreshInv, NEW c \in Clients, Register(c)
  PROVE  \/ UNCHANGED <<registry, made_for, program>> /\ pc'[c] \notin {"register", "record"}
         \/ \E id \in Ids : /\ job[c].found = {id} /\ id \notin Known /\ id < next_id
                            /\ registry' = registry \cup {id} /\ Known' = Known \cup {id}
                            /\ made_for' = [made_for EXCEPT ![id] = job[c].request]
<1> pc \in [Clients -> Steps] /\ program \in [Ids -> {"none", "shell", "command", "dead"}]
    /\ made_for \in [Ids -> Requests \cup {NoRequest}]
  BY DEF TypeOK
<1>1. pc[c] = "register"
  BY DEF Register, At
<1>2. PICK id \in Ids : job[c].found = {id} /\ id < next_id /\ id \notin Known
  BY <1>1 DEF FreshInv
<1>3. CASE SpawnFailed(c) /\ UNCHANGED <<registry, program, made_for>>
  BY <1>3 DEF SpawnFailed, Answer, Goto
<1>4. CASE /\ registry' = registry \cup job[c].found
           /\ program' = [i \in Ids |-> IF i \in job[c].found THEN "shell" ELSE program[i]]
           /\ made_for' = [i \in Ids |-> IF i \in job[c].found THEN job[c].request
                                                            ELSE made_for[i]]
  <2>1. Known' = Known \cup {id}
    BY <1>2, <1>4 DEF Known
  <2>2. made_for' = [made_for EXCEPT ![id] = job[c].request]
    BY <1>2, <1>4
  <2> QED BY <1>2, <1>4, <2>1, <2>2
<1> QED BY <1>3, <1>4 DEF Register

\* An id that was allocated stays unused until its session is registered.
LEMMA FreshStep == TypeOK /\ CountInv /\ LockInv /\ FreshInv /\ [Next]_vars => FreshInv'
<1> SUFFICES ASSUME TypeOK, CountInv, LockInv, FreshInv, [Next]_vars PROVE FreshInv'
  OBVIOUS
<1> /\ job \in [Clients -> JobSet] /\ pc \in [Clients -> Steps]
    /\ next_id \in Int /\ Known \subseteq Ids /\ \A id \in Ids : id \in Int
  BY TypeParts, BoundsAssumption DEF TableType, Known, Ids
<1> NoClient \notin Clients
  BY SentinelsAssumption
<1>1. ASSUME NEW c \in Clients, HandlerStep(c) PROVE FreshInv'
  <2>1. CASE Allocate(c)
    <3>1. Known' = Known /\ registry' = registry
      BY <1>1, <2>1, KnownSame DEF Allocate, Register, At
    <3>2. \A d \in Clients : pc[d] # "register"
      BY <2>1 DEF Allocate, LockInv
    <3>3. CASE CannotSpawn
      <4>1. next_id' = next_id /\ job' = job /\ pc'[c] \notin {"register", "record"}
        BY <2>1, <3>3 DEF Allocate, SpawnFailed, Answer, Goto
      <4> QED BY <1>1, <3>1, <3>2, <4>1, OthersStay DEF FreshInv
    <3>4. CASE ~CannotSpawn
      <4>1. PICK id \in FreeIds : /\ job' = [job EXCEPT ![c].found = {id}]
                                 /\ next_id' = id + 1
        BY <2>1, <3>4 DEF Allocate, Lowest
      <4>2. id \in Ids /\ id >= next_id
        BY <4>1 DEF FreeIds
      <4>3. id \notin Known /\ (\A i \in Known : i < next_id') /\ id < next_id'
        BY <4>1, <4>2 DEF FreshInv
      <4>4. job'[c].found = {id}
        BY <4>1 DEF JobSet
      <4> QED BY <1>1, <3>1, <3>2, <4>2, <4>3, <4>4, OthersStay DEF FreshInv
    <3> QED BY <3>3, <3>4
  <2>2. CASE Register(c)
    <3>1. job' = job /\ next_id' = next_id
      BY <2>2 DEF Register
    <3>2. \A d \in Clients : d # c => pc[d] # "register"
      BY <2>2 DEF Register, At, LockInv
    <3>3. pc'[c] # "register"
      BY <2>2 DEF Register, SpawnFailed, Answer, Goto
    <3>4. CASE UNCHANGED <<registry, made_for, program>> /\ pc'[c] \notin {"register", "record"}
      BY <1>1, <3>1, <3>2, <3>4, OthersStay DEF FreshInv, Known
    <3>5. CASE \E id \in Ids : /\ job[c].found = {id} /\ id \notin Known /\ id < next_id
                              /\ registry' = registry \cup {id} /\ Known' = Known \cup {id}
      BY <1>1, <3>1, <3>2, <3>3, <3>5, OthersStay DEF FreshInv
    <3> QED BY <2>2, <3>4, <3>5, RegisterOne
  <2>3. CASE Record(c) \/ BeginSpawn(c) \/ Unregister(c) \/ UNCHANGED tableVars
    <3>0. CASE Register(c) \/ Allocate(c)
      BY <2>1, <2>2, <3>0
    <3>1. CASE ~Register(c) /\ ~Allocate(c)
      <4>1. Known' = Known /\ registry' \subseteq registry /\ next_id' = next_id
        BY <1>1, <2>3, <3>1, KnownSame DEF Record, BeginSpawn, Unregister, tableVars
      <4>2. pc'[c] \notin {"register", "record"}
        BY <1>1, <3>1 DEF HandlerStep, Refuse, BeginSpawn, BeginList, Record, List, SpawnStatus,
           RestartHost, HostStatus, BeginClose, LockWriter, CheckIdle, Kill, Unregister,
           BeginWrite, Write, Send, Continue, EndOfStream, Leave, Goto, Answer, At, Begins
      <4> QED BY <1>1, <4>1, <4>2, OthersStay DEF FreshInv
    <3> QED BY <3>0, <3>1
  <2> QED BY <1>1, <2>1, <2>2, <2>3, TableFrame
<1>2. ASSUME UNCHANGED <<registry, program, next_id>>,
             \A d \in Clients : pc'[d] \in {"register", "record"} =>
                pc'[d] = pc[d] /\ job'[d].found = job[d].found
      PROVE  FreshInv'
  BY <1>2 DEF FreshInv, Known
<1>3. ASSUME NEW c \in Clients, Connect(c) \/ Disconnect(c) \/ Accept(c) \/ SetAccessScope(c) \/ Read(c)
      PROVE  FreshInv'
  BY <1>2, <1>3 DEF Connect, Disconnect, Accept, SetAccessScope, Read, Answer, Goto,
     tableVars, ptyVars
<1>4. ASSUME NEW id \in Ids, Shell(id) PROVE FreshInv'
  <2>1. Known' = Known
    BY <1>4 DEF Shell, Known, TypeOK
  <2> QED BY <1>4, <2>1 DEF Shell, tableVars, FreshInv
<1> QED BY <1>1, <1>2, <1>3, <1>4
        DEF Next, ClientStep, Exit, vars, tableVars, ptyVars

\* The record of spawn requests stays complete: retries, closes and other
\* spawns come between its parts without effect.
LEMMA RequestStep ==
  TypeOK /\ CountInv /\ LockInv /\ FreshInv /\ RequestInv /\ [Next]_vars => RequestInv'
<1> SUFFICES ASSUME TypeOK, CountInv, LockInv, FreshInv, RequestInv, [Next]_vars
             PROVE  RequestInv'
  OBVIOUS
<1> /\ job \in [Clients -> JobSet] /\ pc \in [Clients -> Steps]
    /\ requests \in [Requests -> Ids \cup {0}] /\ registry \subseteq Ids
    /\ made_for \in [Ids -> Requests \cup {NoRequest}]
  BY TypeParts DEF TableType
<1> NoClient \notin Clients /\ NoRequest \notin Requests
  BY SentinelsAssumption
\* A step that only takes sessions away and starts nothing.
<1>1. ASSUME registry' \subseteq registry, UNCHANGED made_for,
             UNCHANGED requests,
             \A d \in Clients :
                /\ pc[d] = "record" <=> pc'[d] = "record"
                /\ pc[d] = "record" => /\ job'[d].found = job[d].found
                                       /\ job'[d].request = job[d].request
                /\ pc'[d] \in {"allocate", "register"} =>
                     \/ job'[d].request = NoRequest
                     \/ pc[d] \in {"allocate", "register"} /\ job'[d].request = job[d].request
      PROVE  RequestInv'
  BY <1>1 DEF RequestInv
<1>2. ASSUME NEW c \in Clients, BeginSpawn(c), HandlerStep(c) PROVE RequestInv'
  <2> DEFINE r == job[c].request
  <2>1. \A d \in Clients : pc[d] # "record"
    BY <1>2 DEF BeginSpawn, LockInv
  <2>2. \A id \in registry : made_for[id] # NoRequest => requests[made_for[id]] = id
    BY <2>1 DEF RequestInv
  <2>3. \A id \in registry : made_for[id] # NoRequest =>
          made_for[id] \in Requests /\ Retained[made_for[id]] = id
    BY <2>2 DEF Retained
  <2>4. UNCHANGED <<registry, made_for, job>> /\ requests' = Retained
    BY <1>2 DEF BeginSpawn
  <2>5. CASE r # NoRequest /\ Retained[r] # 0
    <3>1. \A d \in Clients : /\ pc'[d] \in {"allocate", "register"} => pc'[d] = pc[d]
                             /\ pc'[d] # "record"
      BY <1>2, <2>1, <2>5 DEF BeginSpawn, Answer, Goto
    <3> QED BY <2>3, <2>4, <3>1 DEF RequestInv
  <2>6. CASE ~(r # NoRequest /\ Retained[r] # 0)
    <3>1. r # NoRequest => \A id \in registry : made_for[id] # r
      <4> SUFFICES ASSUME r # NoRequest, NEW id \in registry, made_for[id] = r PROVE FALSE
        OBVIOUS
      <4>1. Retained[r] = id
        BY <2>3
      <4>2. id # 0
        BY BoundsAssumption DEF Ids
      <4> QED BY <2>6, <4>1, <4>2
    <3>2. pc'[c] = "allocate" /\ \A d \in Clients : d # c => pc'[d] = pc[d]
      BY <1>2, <2>6, OthersStay DEF BeginSpawn, Goto
    <3> QED BY <2>1, <2>3, <2>4, <3>1, <3>2 DEF RequestInv
  <2> QED BY <2>5, <2>6
<1>3. ASSUME NEW c \in Clients, Register(c), HandlerStep(c) PROVE RequestInv'
  <2>0. /\ pc[c] = "register" /\ lifecycle = c /\ UNCHANGED <<requests, job>>
        /\ pc'[c] \notin {"allocate", "register"}
        /\ \A d \in Clients : d # c => pc'[d] = pc[d] /\ pc[d] # "register"
        /\ pc'[c] = "record" => job[c].op = "spawn"
    BY <1>3, OthersStay DEF Register, SpawnFailed, Answer, Goto, At, LockInv
  <2>1. CASE UNCHANGED <<registry, made_for, program>> /\ pc'[c] \notin {"register", "record"}
    BY <1>1, <2>0, <2>1
  <2>2. CASE \E id \in Ids : /\ job[c].found = {id} /\ id \notin Known
                            /\ registry' = registry \cup {id}
                            /\ made_for' = [made_for EXCEPT ![id] = job[c].request]
    <3>1. PICK id \in Ids : /\ job[c].found = {id} /\ id \notin Known
                            /\ registry' = registry \cup {id}
                            /\ made_for' = [made_for EXCEPT ![id] = job[c].request]
      BY <2>2
    <3>2. id \notin registry
      BY <3>1 DEF FreshInv
    <3>3. made_for'[id] = job[c].request /\ \A i \in registry : made_for'[i] = made_for[i]
      BY <3>1, <3>2
    <3>4. pc'[c] = (IF job[c].op = "spawn" THEN "record" ELSE "list")
      BY <1>3, <3>1, <3>2 DEF Register, Goto
    <3>5. job[c].request # NoRequest => job[c].op = "spawn"
      BY <2>0 DEF LockInv
    <3>6. \A d \in Clients : pc'[d] \in {"allocate", "record"} /\ job[d].request # NoRequest /\ d # c
            => job[d].request # job[c].request
      <4> SUFFICES ASSUME NEW d \in Clients, pc'[d] \in {"allocate", "record"}, d # c,
                          job[d].request # NoRequest
                   PROVE  job[d].request # job[c].request
        OBVIOUS
      <4>1. pc[d] \in {"allocate", "record"}
        BY <2>0
      <4>2. spawn_lock = d
        BY <4>1 DEF LockInv
      <4>3. job[c].op # "spawn"
        BY <2>0, <4>1, <4>2 DEF LockInv
      <4> QED BY <3>5, <4>3
    <3>9. \A d \in Clients : pc'[d] = "allocate" /\ job[d].request # NoRequest =>
            \A i \in registry' : made_for'[i] # job[d].request
      BY <2>0, <3>1, <3>3, <3>6 DEF RequestInv
    <3>10. \A d \in Clients : pc'[d] = "record" /\ job[d].request # NoRequest =>
            \A i \in registry' : made_for'[i] = job[d].request => job[d].found = {i}
      BY <2>0, <3>1, <3>3, <3>6 DEF RequestInv
    <3>7. \A i \in registry' : made_for'[i] # NoRequest =>
            \/ requests[made_for'[i]] = i
            \/ \E d \in Clients : pc'[d] = "record" /\ job[d].found = {i}
                                  /\ job[d].request = made_for'[i]
      BY <2>0, <3>1, <3>3, <3>4, <3>5 DEF RequestInv
    <3>8. \A d \in Clients : pc'[d] \in {"allocate", "register"} => pc'[d] = "allocate"
      BY <2>0
    <3> QED BY <2>0, <3>7, <3>8, <3>9, <3>10 DEF RequestInv
  <2> QED BY <1>3, <2>1, <2>2, RegisterOne
<1>4. ASSUME NEW c \in Clients, Record(c), HandlerStep(c) PROVE RequestInv'
  <2>1. PICK id \in job[c].found :
          requests' = [r \in Requests |-> IF r = job[c].request THEN id ELSE requests[r]]
    BY <1>4 DEF Record
  <2>2. /\ pc[c] = "record" /\ pc'[c] = "send" /\ spawn_lock = c /\ job[c].found = {id}
        /\ UNCHANGED <<registry, made_for, job>>
    BY <1>4, <2>1 DEF Record, At, Answer, Goto, LockInv, FreshInv
  <2>3. \A d \in Clients : d # c => pc'[d] = pc[d] /\ pc[d] # "record"
    BY <1>4, <2>2, OthersStay DEF LockInv
  <2>4. ASSUME NEW i \in registry, made_for[i] # NoRequest PROVE requests'[made_for[i]] = i
    <3>1. CASE made_for[i] = job[c].request
      <4>1. made_for[i] \in Requests /\ job[c].found = {i}
        BY <2>2, <2>4, <3>1 DEF RequestInv
      <4>2. id = i
        BY <2>2, <4>1
      <4> QED BY <2>1, <3>1, <4>1, <4>2
    <3>2. CASE made_for[i] # job[c].request
      BY <2>1, <2>3, <2>4, <3>2 DEF RequestInv
    <3> QED BY <3>1, <3>2
  <2> QED BY <2>2, <2>3, <2>4 DEF RequestInv

<1>5. ASSUME NEW c \in Clients, HandlerStep(c), ~BeginSpawn(c), ~Register(c), ~Record(c)
      PROVE  RequestInv'
  <2>1. registry' \subseteq registry /\ UNCHANGED <<made_for, requests>>
    BY <1>5, TableFrame DEF Allocate, Unregister, tableVars
  <2>2. /\ pc[c] # "record" /\ pc'[c] # "record"
        /\ pc'[c] \in {"allocate", "register"} =>
             \/ job'[c].request = NoRequest
             \/ pc[c] = "allocate" /\ job'[c].request = job[c].request
    <3> USE DEF Goto, Answer, At, Begins
    <3>1. CASE BeginList(c)
      BY <3>1 DEF BeginList, LockInv
    <3>2. CASE Allocate(c)
      BY <1>5, <3>2, OthersStay DEF Allocate, SpawnFailed
    <3>3. CASE ~BeginList(c) /\ ~Allocate(c)
      BY <1>5, <3>3 DEF HandlerStep, Refuse, List, SpawnStatus, RestartHost, HostStatus,
         BeginClose, LockWriter, CheckIdle, Kill, Unregister, BeginWrite, Write, Send, Continue,
         EndOfStream, Leave
    <3> QED BY <3>1, <3>2, <3>3
  <2> QED BY <1>1, <1>5, <2>1, <2>2, OthersStay
<1>6. ASSUME NEW c \in Clients,
             Connect(c) \/ Disconnect(c) \/ Accept(c) \/ SetAccessScope(c) \/ Read(c)
      PROVE  RequestInv'
  <2>1. UNCHANGED tableVars
    BY <1>6 DEF Connect, Disconnect, Accept, SetAccessScope, Read
  <2>2. /\ pc'[c] \in {"allocate", "register", "record"} => (pc'[c] = pc[c] /\ job' = job)
        /\ pc[c] = "record" => pc'[c] = "record"
        /\ \A d \in Clients : d # c => pc'[d] = pc[d] /\ job'[d] = job[d]
    <3>1. CASE Read(c)
      <4>1. PICK line \in Lines : job' = [job EXCEPT ![c] = line]
        BY <3>1 DEF Read
      <4>2. pc[c] = "read" /\ pc' = [pc EXCEPT ![c] = "begin"]
        BY <3>1 DEF Read, At, Goto
      <4>3. pc'[c] = "begin" /\ \A d \in Clients : d # c => pc'[d] = pc[d]
        BY <4>2
      <4>4. \A d \in Clients : d # c => job'[d] = job[d]
        BY <4>1
      <4> QED BY <4>2, <4>3, <4>4
    <3>2. CASE Connect(c) \/ Disconnect(c) \/ Accept(c) \/ SetAccessScope(c)
      BY <3>2 DEF Connect, Disconnect, Accept, SetAccessScope, Answer, At, Goto, CountInv
    <3> QED BY <1>6, <3>1, <3>2
  <2> QED BY <1>1, <2>1, <2>2 DEF tableVars
<1>7. ASSUME UNCHANGED <<pc, job, tableVars>> PROVE RequestInv'
  BY <1>1, <1>7 DEF tableVars
<1> QED BY <1>2, <1>3, <1>4, <1>5, <1>6, <1>7 DEF Next, ClientStep, Exit, Shell, vars

\* Nothing is registered or accepted once the host is stopping.
LEMMA StopStep ==
  TypeOK /\ CountInv /\ LockInv /\ StopInv /\ [Next]_vars => StopInv'
<1> SUFFICES ASSUME TypeOK, CountInv, LockInv, StopInv, [Next]_vars PROVE StopInv'
  OBVIOUS
<1> connections \in Nat /\ pc \in [Clients -> Steps] /\ NoClient \notin Clients
  BY SentinelsAssumption DEF TypeOK
<1>1. ASSUME NEW c \in Clients, HandlerStep(c) PROVE StopInv'
  <2>1. CASE RestartHost(c)
    <3>1. \A d \in Clients : pc[d] # "register"
      BY <2>1 DEF RestartHost, LockInv
    <3>2. \A d \in Clients : pc'[d] # "register"
      BY <2>1, <3>1 DEF RestartHost, Answer, Goto
    <3> QED BY <2>1, <3>2 DEF RestartHost, RestartIfEmpty, connVars, tableVars, StopInv
  <2>2. CASE UNCHANGED hostVars
    <3>1. CASE stopping
      <4>1. registry = {} /\ connections <= 1 /\ \A d \in Clients : pc[d] # "register"
        BY <3>1 DEF StopInv
      <4>2. ~Register(c)
        BY <4>1 DEF Register, At
      <4>3. registry' = {}
        BY <1>1, <4>1, <4>2, TableFrame DEF BeginSpawn, Allocate, Record, Unregister, tableVars
      <4>4. pc'[c] # "register" /\ \A d \in Clients : d # c => pc'[d] = pc[d]
        <5>1. CASE Allocate(c)
          BY <1>1, <3>1, <5>1, OthersStay DEF Allocate, CannotSpawn, SpawnFailed, Answer, Goto
        <5>2. CASE ~Allocate(c)
          BY <1>1, <4>2, <5>2, OthersStay DEF HandlerStep, Refuse, BeginSpawn, BeginList, Record,
             List, SpawnStatus, RestartHost, HostStatus, BeginClose, LockWriter, CheckIdle, Kill,
             Unregister, BeginWrite, Write, Send, Continue, EndOfStream, Leave, Goto, Answer, At,
             Begins
        <5> QED BY <5>1, <5>2
      <4>5. connections' <= 1
        BY <1>1, <4>1, ConnFrame DEF Leave, connVars
      <4> QED BY <4>1, <4>3, <4>4, <4>5 DEF StopInv
    <3>2. CASE ~stopping
      BY <2>2, <3>2 DEF hostVars, StopInv
    <3> QED BY <3>1, <3>2
  <2> QED BY <1>1, <2>1, <2>2, HostFrame
<1>2. ASSUME NEW c \in Clients, Connect(c) \/ Disconnect(c) \/ Accept(c) \/ SetAccessScope(c) \/ Read(c)
      PROVE  StopInv'
  BY <1>2 DEF Connect, Disconnect, Accept, SetAccessScope, Read, Answer, Goto, hostVars,
     tableVars, connVars, StopInv
<1>3. ASSUME UNCHANGED <<stopping, registry, connections, pc>> PROVE StopInv'
  BY <1>3 DEF StopInv
<1> QED BY <1>1, <1>2, <1>3
        DEF Next, ClientStep, Exit, Shell, vars, connVars, hostVars, lockVars, tableVars

-----------------------------------------------------------------------------
(* The theorems *)

\* The invariant is inductive.
LEMMA InvStep == IInv /\ [Next]_vars => IInv'
BY TypeStep, CountStep, LockStep, FreshStep, RequestStep, StopStep DEF IInv

\* The strengthened invariant holds in every reachable state of the host.
THEOREM IInvHolds == Spec => []IInv
<1> QED BY InitInv, InvStep, PTL DEF Spec

\* Every variable of the host keeps its type; connections stays a natural number
\* although every handler that leaves decrements it.
THEOREM HostTypeCorrect == Spec => []TypeOK
<1>1. IInv => TypeOK
  BY DEF IInv
<1> QED BY <1>1, IInvHolds, PTL

\* A host that has agreed to restart has no session, gets no session and serves
\* no other connection, whatever was being spawned or accepted when it agreed
\* (docs/daemon-protocol.md:414, "only with zero sessions and zero other
\* connections ... under the same lock that permits new sessions").
StoppingIsEmpty == stopping => registry = {} /\ connections <= 1

\* restart_if_empty is safe against concurrent spawns and accepted connections:
\* once it has agreed there is no session, and at most the connection it answers.
THEOREM RestartIsSafe == Spec => []StoppingIsEmpty
<1>1. IInv => StoppingIsEmpty
  BY DEF IInv, StopInv, StoppingIsEmpty
<1> QED BY <1>1, IInvHolds, PTL

tableView == <<registry, made_for, Known, stopping>>

\* Shells change what runs in a terminal, never whether it has a session.
LEMMA ShellKeepsKnown ==
  ASSUME TypeOK, NEW id \in Ids, Shell(id)
  PROVE  Known' = Known
BY DEF TypeOK, Shell, Known

\* The host starts as an empty table of sessions.
LEMMA TableInit == Init => Table!Init
BY DEF Init, Table!Init, Known

\* Each step of a handler opens a session, ends one, stops the host, or does
\* nothing that the table shows.
LEMMA HandlerImplementsTable ==
  ASSUME IInv, NEW c \in Clients, HandlerStep(c)
  PROVE  [Table!Next]_tableView
<1> TypeOK /\ LockInv /\ FreshInv /\ RequestInv /\ StopInv
  BY DEF IInv
<1> USE DEF tableView
<1>1. CASE Register(c)
  <2>1. pc[c] = "register" /\ lifecycle = c /\ UNCHANGED stopping
    BY <1>1 DEF Register, At, LockInv, hostVars
  <2>2. ~stopping
    BY <2>1 DEF StopInv
  <2>3. CASE UNCHANGED <<registry, made_for, program>>
    BY <2>1, <2>3 DEF Known
  <2>4. ASSUME NEW id \in Ids, id \notin Known, registry' = registry \cup {id},
               Known' = Known \cup {id},
               made_for' = [made_for EXCEPT ![id] = job[c].request]
        PROVE  Table!Next
    <3>1. job[c].request # NoRequest => \A other \in registry : made_for[other] # job[c].request
      BY <2>1 DEF RequestInv
    <3>2. job[c].request \in Requests \cup {NoRequest}
      BY DEF TypeOK
    <3>3. Table!Open(id, job[c].request)
      BY <2>1, <2>2, <2>4, <3>1 DEF Table!Open
    <3> QED BY <3>2, <3>3 DEF Table!Next
  <2> QED BY <1>1, <2>3, <2>4, RegisterOne
<1>2. CASE Unregister(c)
  <2>1. UNCHANGED <<made_for, stopping>> /\ Known' = Known
    BY <1>2 DEF Unregister, ptyVars, hostVars, Known
  <2>2. CASE registry' = registry
    BY <2>1, <2>2
  <2>3. ASSUME NEW id \in Ids, id \in registry, registry' = registry \ {id}
        PROVE  Table!Next
    BY <2>1, <2>3 DEF Table!Next, Table!End
  <2>4. job[c].todo # {} => \E id \in Ids : registry' = registry \ {id}
    BY <1>2 DEF Unregister, Lowest, TypeOK
  <2>5. job[c].todo = {} => registry' = registry
    BY <1>2 DEF Unregister
  <2> QED BY <2>2, <2>3, <2>4, <2>5
<1>3. CASE RestartHost(c)
  <2>1. UNCHANGED <<registry, made_for>> /\ Known' = Known
    BY <1>3 DEF RestartHost, tableVars, ptyVars, Known
  <2>2. CASE registry = {} /\ stopping'
    BY <2>1, <2>2 DEF Table!Next, Table!Stop
  <2> QED BY <1>3, <2>1, <2>2 DEF RestartHost, RestartIfEmpty
<1>4. CASE ~Register(c) /\ ~Unregister(c) /\ ~RestartHost(c)
  <2>1. UNCHANGED <<registry, made_for>>
    BY <1>4, TableFrame DEF BeginSpawn, Allocate, Record, tableVars
  <2> QED BY <1>4, <2>1, KnownSame, HostFrame DEF hostVars
<1> QED BY <1>1, <1>2, <1>3, <1>4

\* The threads of the host together implement SessionTable: no numeric id is
\* used twice, a spawn request that is retried has at most one live session, the
\* host only agrees to restart without sessions and makes none after that.
THEOREM ImplementsSessionTable == Spec => TableSpec
<1>1. IInv /\ [Next]_vars => [Table!Next]_tableView
  <2> SUFFICES ASSUME IInv, [Next]_vars PROVE [Table!Next]_tableView
    OBVIOUS
  <2>1. ASSUME NEW c \in Clients, Connect(c) \/ Disconnect(c) \/ Accept(c)
                                  \/ SetAccessScope(c) \/ Read(c)
        PROVE  UNCHANGED tableView
    BY <2>1 DEF Connect, Disconnect, Accept, SetAccessScope, Read, tableView, hostVars,
       tableVars, ptyVars, Known
  <2>2. ASSUME NEW id \in Ids, Shell(id) PROVE UNCHANGED tableView
    BY <2>2, ShellKeepsKnown DEF IInv, Shell, tableView, hostVars, tableVars
  <2>3. CASE Exit \/ UNCHANGED vars
    BY <2>3 DEF Exit, vars, tableView, hostVars, tableVars, ptyVars, Known
  <2> QED BY <2>1, <2>2, <2>3, HandlerImplementsTable DEF Next, ClientStep
<1> QED BY <1>1, TableInit, IInvHolds, PTL DEF Spec, TableSpec, Table!Spec, tableView

-----------------------------------------------------------------------------
(* The answer to spawn_status *)

\* What spawn_requests() records, and what the holder of its mutex is about to
\* record, is a session that was made for that request.
RecordedInv ==
  /\ \A r \in Requests : requests[r] # 0 => requests[r] \in Known /\ made_for[requests[r]] = r
  /\ \A c \in Clients : pc[c] = "record" =>
       \A id \in job[c].found : id \in Known /\ made_for[id] = job[c].request

\* No request is recorded at first.
LEMMA RecordedInit == Init => RecordedInv
BY DEF Init, RecordedInv

\* Only a registration brings a handler to the point where it records an id.
LEMMA OnlyRegisterRecords ==
  ASSUME TypeOK, NEW c \in Clients, HandlerStep(c), ~Register(c)
  PROVE  pc'[c] = "record" => pc[c] = "record" /\ job' = job
BY DEF TypeOK, HandlerStep, Refuse, BeginSpawn, BeginList, Allocate, SpawnFailed, Record, List,
   SpawnStatus, RestartHost, HostStatus, BeginClose, LockWriter, CheckIdle, Kill, Unregister,
   BeginWrite, Write, Send, Continue, EndOfStream, Leave, Goto, Answer, At, Begins

\* What is recorded for a request stays a session that was made for it.
LEMMA RecordedStep == IInv /\ RecordedInv /\ [Next]_vars => RecordedInv'
<1> SUFFICES ASSUME IInv, RecordedInv, [Next]_vars PROVE RecordedInv'
  OBVIOUS
<1> TypeOK /\ CountInv /\ LockInv /\ FreshInv
  BY DEF IInv
<1> /\ requests \in [Requests -> Ids \cup {0}] /\ pc \in [Clients -> Steps]
    /\ made_for \in [Ids -> Requests \cup {NoRequest}]
  BY DEF TypeOK
<1>1. ASSUME UNCHANGED <<requests, made_for>>, Known' = Known,
             \A d \in Clients : pc'[d] = "record" => pc[d] = "record" /\ job'[d] = job[d]
      PROVE  RecordedInv'
  BY <1>1 DEF RecordedInv
<1>2. ASSUME NEW c \in Clients, BeginSpawn(c), HandlerStep(c) PROVE RecordedInv'
  <2>1. UNCHANGED <<made_for, job>> /\ Known' = Known /\ requests' = Retained
    BY <1>2 DEF BeginSpawn, ptyVars, Known
  <2>2. \A d \in Clients : pc'[d] = "record" => pc[d] = "record"
    BY <1>2 DEF BeginSpawn, Answer, Goto
  <2> QED BY <2>1, <2>2 DEF RecordedInv, Retained
<1>3. ASSUME NEW c \in Clients, Register(c), HandlerStep(c) PROVE RecordedInv'
  <2>1. UNCHANGED <<requests, job>>
    BY <1>3 DEF Register
  <2>2. \A d \in Clients : d # c => pc'[d] = pc[d]
    BY <1>3, OthersStay
  <2>3. CASE UNCHANGED <<registry, made_for, program>> /\ pc'[c] \notin {"register", "record"}
    <3>1. Known' = Known
      BY <2>3 DEF Known
    <3> QED BY <1>1, <2>1, <2>2, <2>3, <3>1
  <2>4. ASSUME NEW id \in Ids, job[c].found = {id}, id \notin Known, Known' = Known \cup {id},
               made_for' = [made_for EXCEPT ![id] = job[c].request]
        PROVE  RecordedInv'
    <3>1. \A i \in Known : made_for'[i] = made_for[i] /\ i \in Known'
      BY <2>4
    <3>2. made_for'[id] = job[c].request /\ id \in Known'
      BY <2>4
    <3>3. \A r \in Requests : requests'[r] # 0 =>
            requests'[r] \in Known' /\ made_for'[requests'[r]] = r
      BY <2>1, <3>1 DEF RecordedInv
    <3>4. ASSUME NEW d \in Clients, pc'[d] = "record", NEW i \in job'[d].found
          PROVE  i \in Known' /\ made_for'[i] = job'[d].request
      BY <2>1, <2>2, <2>4, <3>1, <3>2, <3>4 DEF RecordedInv
    <3> QED BY <3>3, <3>4 DEF RecordedInv
  <2> QED BY <1>3, <2>3, <2>4, RegisterOne
<1>4. ASSUME NEW c \in Clients, Record(c), HandlerStep(c) PROVE RecordedInv'
  <2>1. PICK id \in job[c].found :
          requests' = [r \in Requests |-> IF r = job[c].request THEN id ELSE requests[r]]
    BY <1>4 DEF Record
  <2>2. id \in Known /\ made_for[id] = job[c].request
    BY <1>4, <2>1 DEF RecordedInv, Record, At
  <2>3. UNCHANGED <<made_for, job>> /\ Known' = Known
    BY <1>4 DEF Record, ptyVars, Known
  <2>4. \A d \in Clients : pc'[d] = "record" => pc[d] = "record"
    BY <1>4 DEF Record, Answer, Goto
  <2> QED BY <2>1, <2>2, <2>3, <2>4 DEF RecordedInv
<1>5. ASSUME NEW c \in Clients, HandlerStep(c), ~BeginSpawn(c), ~Register(c), ~Record(c)
      PROVE  RecordedInv'
  <2>1. UNCHANGED <<requests, made_for>>
    BY <1>5, TableFrame DEF Allocate, Unregister, tableVars
  <2> QED BY <1>1, <1>5, <2>1, KnownSame, OnlyRegisterRecords, OthersStay
<1>6. ASSUME NEW c \in Clients,
             Connect(c) \/ Disconnect(c) \/ Accept(c) \/ SetAccessScope(c) \/ Read(c)
      PROVE  RecordedInv'
  <2>1. UNCHANGED <<requests, made_for>> /\ Known' = Known
    BY <1>6 DEF Connect, Disconnect, Accept, SetAccessScope, Read, tableVars, ptyVars, Known
  <2>2. CASE Read(c)
    <3>1. PICK line \in Lines : job' = [job EXCEPT ![c] = line]
      BY <2>2 DEF Read
    <3>2. pc' = [pc EXCEPT ![c] = "begin"]
      BY <2>2 DEF Read, Goto
    <3>3. \A d \in Clients : d # c => job'[d] = job[d]
      BY <3>1
    <3> QED BY <1>1, <2>1, <3>2, <3>3
  <2>3. CASE Connect(c) \/ Disconnect(c) \/ Accept(c) \/ SetAccessScope(c)
    BY <1>1, <2>1, <2>3 DEF Connect, Disconnect, Accept, SetAccessScope, Answer, Goto
  <2> QED BY <1>6, <2>2, <2>3
<1>7. ASSUME NEW id \in Ids, Shell(id) PROVE RecordedInv'
  BY <1>1, <1>7, ShellKeepsKnown DEF Shell, tableVars
<1>8. CASE Exit \/ UNCHANGED vars
  BY <1>1, <1>8 DEF Exit, vars, tableVars, ptyVars, Known
<1> QED BY <1>2, <1>3, <1>4, <1>5, <1>6, <1>7, <1>8 DEF Next, ClientStep

\* Only SpawnStatus gives an answer of this kind.
LEMMA OnlyStatusAnswersStatus ==
  ASSUME TypeOK, NEW d \in Clients, [Next]_vars, reply[d].kind = "none", reply'[d].kind = "status"
  PROVE  SpawnStatus(d)
<1> reply \in [Clients -> ReplySet]
  BY TypeParts
<1>1. reply' # reply
  OBVIOUS
<1>2. ASSUME NEW c \in Clients, NEW S,
             NEW kind \in {"none", "error", "scope", "spawned", "sessions", "host",
                           "restarting", "blocked", "closed", "written"},
             reply' = [reply EXCEPT ![c] = Answered(kind, S)]
      PROVE  FALSE
  BY <1>2 DEF Answered
<1>3. ASSUME NEW c \in Clients, HandlerStep(c), ~SpawnStatus(c) PROVE FALSE
  <2> USE <1>1, <1>2 DEF Answer
  <2>1. CASE Refuse(c) \/ BeginSpawn(c) \/ BeginList(c) \/ Allocate(c) \/ Register(c)
    BY <2>1 DEF Refuse, BeginSpawn, BeginList, Allocate, Register, SpawnFailed
  <2>2. CASE Record(c) \/ List(c) \/ RestartHost(c) \/ HostStatus(c) \/ BeginClose(c)
    BY <2>2 DEF Record, List, RestartHost, HostStatus, BeginClose
  <2>3. CASE LockWriter(c) \/ CheckIdle(c) \/ Kill(c) \/ Unregister(c) \/ Leave(c)
    BY <2>3 DEF LockWriter, CheckIdle, Kill, Unregister, Leave
  <2>4. CASE BeginWrite(c) \/ Write(c) \/ Send(c) \/ Continue(c) \/ EndOfStream(c)
    BY <2>4 DEF BeginWrite, Write, Send, Continue, EndOfStream, NoReply
  <2> QED BY <1>3, <2>1, <2>2, <2>3, <2>4 DEF HandlerStep
<1>4. ASSUME NEW c \in Clients, SpawnStatus(c) PROVE c = d
  BY <1>4 DEF SpawnStatus, Answer
<1>5. ASSUME NEW c \in Clients, SetAccessScope(c) PROVE FALSE
  BY <1>2, <1>5 DEF SetAccessScope, Answer
<1> QED BY <1>1, <1>3, <1>4, <1>5 DEF Next, ClientStep, Connect, Disconnect, Accept, Read, Exit,
        Shell, vars

\* A spawn_status always carries the request id it asks about.
StatusInv == \A c \in Clients : job[c].op = "status" => job[c].request \in Requests

\* Requests keep their ids while handlers work on them.
LEMMA StatusStep == TypeOK /\ StatusInv /\ [Next]_vars => StatusInv'
<1> SUFFICES ASSUME TypeOK, StatusInv, [Next]_vars PROVE StatusInv'
  OBVIOUS
<1> job \in [Clients -> JobSet]
  BY TypeParts
<1>1. ASSUME UNCHANGED job PROVE StatusInv'
  BY <1>1 DEF StatusInv
<1>2. ASSUME NEW c \in Clients, Send(c) PROVE StatusInv'
  BY <1>2 DEF Send, Idle, Ask, StatusInv
<1>3. ASSUME NEW c \in Clients, HandlerStep(c), ~Send(c) PROVE StatusInv'
  <2>1. \A d \in Clients : d # c => job'[d] = job[d]
    BY <1>3, OthersStay
  <2>2. job'[c].op = job[c].op /\ job'[c].request = job[c].request
    BY <1>3, OthersStay, JobFrame DEF Allocate, BeginClose, LockWriter, Kill, Unregister, At
  <2> QED BY <2>1, <2>2 DEF StatusInv
<1>4. ASSUME NEW c \in Clients, Read(c) PROVE StatusInv'
  <2>1. PICK line \in Lines : job' = [job EXCEPT ![c] = line]
    BY <1>4 DEF Read
  <2>2. line.op = "status" => line.request \in Requests
    BY DEF Lines, Ask
  <2>3. job'[c] = line /\ \A d \in Clients : d # c => job'[d] = job[d]
    BY <2>1
  <2> QED BY <2>2, <2>3 DEF StatusInv
<1> QED BY <1>1, <1>2, <1>3, <1>4 DEF Next, ClientStep, Connect, Disconnect, Accept,
        SetAccessScope, Exit, Shell, vars

\* Whatever other connections spawn or close meanwhile, spawn_status names the
\* live session of the request if there is one, and no session otherwise.
THEOREM SpawnStatusIsExact == Spec => SpawnStatusExact
<1> DEFINE Exact == \A c \in Clients :
       reply[c].kind = "none" /\ reply'[c].kind = "status" =>
         reply'[c].ids = {id \in registry : made_for[id] = job[c].request}
<1>1. IInv /\ RecordedInv /\ StatusInv /\ [Next]_vars => [Exact]_vars
  <2> SUFFICES ASSUME IInv, RecordedInv, StatusInv, [Next]_vars, NEW c \in Clients,
                      reply[c].kind = "none", reply'[c].kind = "status"
               PROVE  reply'[c].ids = {id \in registry : made_for[id] = job[c].request}
    OBVIOUS
  <2> TypeOK /\ LockInv /\ RequestInv
    BY DEF IInv
  <2> DEFINE r == job[c].request
  <2>1. SpawnStatus(c)
    BY OnlyStatusAnswersStatus
  <2>2. reply'[c].ids = Recorded(r)
    BY <2>1 DEF SpawnStatus, Answer, Answered, TypeOK
  <2>3. \A d \in Clients : pc[d] # "record"
    BY <2>1, SentinelsAssumption DEF SpawnStatus, LockInv
  <2>4. r \in Requests
    BY <2>1 DEF SpawnStatus, Begins, StatusInv
  <2>5. \A id \in registry : made_for[id] = r <=> requests[r] = id
    <3>1. ASSUME NEW id \in registry, made_for[id] = r PROVE requests[r] = id
      BY <2>3, <2>4, <3>1, SentinelsAssumption DEF RequestInv
    <3>2. ASSUME NEW id \in registry, requests[r] = id PROVE made_for[id] = r
      <4>1. registry \subseteq Ids
        BY DEF TypeOK
      <4>2. id # 0
        BY <4>1, BoundsAssumption DEF Ids
      <4> QED BY <2>4, <3>2, <4>2 DEF RecordedInv
    <3> QED BY <3>1, <3>2
  <2> QED BY <2>2, <2>5 DEF Recorded
<1>2. Spec => []RecordedInv
  BY RecordedInit, RecordedStep, IInvHolds, PTL DEF Spec
<1>3. Init => StatusInv
  BY DEF Init, StatusInv, Idle, Ask
<1>4. Spec => []StatusInv
  BY <1>3, StatusStep, HostTypeCorrect, PTL DEF Spec
<1> QED BY <1>1, <1>2, <1>4, IInvHolds, PTL DEF Spec, SpawnStatusExact

-----------------------------------------------------------------------------
(* Writers: an idle close keeps input away, and no handlers wait in a circle *)

\* Which handlers hold a mutex: the registry is held over a write, spawn_requests()
\* over a spawn, and each of the three while an answer is sent.
MutexInv ==
  \A c \in Clients :
    /\ lifecycle = c => pc[c] \in {"register", "send"}
    /\ registry_lock = c => pc[c] \in {"write", "send"}
    /\ spawn_lock = c => pc[c] \in {"allocate", "register", "record", "send"}
    /\ spawn_lock = c => job[c].op = "spawn"

\* An idle close holds the writers of the terminals it has found, save those it
\* has yet to lock, and none of them is below one that it holds; nobody else
\* holds a writer.
WritersOf(c) ==
  /\ pc[c] = "lock writers" =>
       /\ job[c].op # "close" /\ job[c].todo \subseteq job[c].found
       /\ \A id \in job[c].found : id \in job[c].todo \/ writer[id] = c
       /\ \A id \in Ids, other \in job[c].todo : writer[id] = c => id < other
  /\ pc[c] = "kill" /\ job[c].op # "close" => \A id \in job[c].found : writer[id] = c
  /\ pc[c] \notin {"lock writers", "kill"} => \A id \in Ids : writer[id] # c
  /\ pc[c] = "kill" /\ job[c].op = "close" => \A id \in Ids : writer[id] # c
WriterInv == \A c \in Clients : WritersOf(c)

\* The mutexes are taken and given back where MutexInv says.
LEMMA MutexStep == TypeOK /\ CountInv /\ LockInv /\ MutexInv /\ [Next]_vars => MutexInv'
<1> SUFFICES ASSUME TypeOK, CountInv, LockInv, MutexInv, [Next]_vars PROVE MutexInv'
  OBVIOUS
<1> job \in [Clients -> JobSet] /\ pc \in [Clients -> Steps]
  BY TypeParts
<1> NoClient \notin Clients
  BY SentinelsAssumption
<1>1. ASSUME NEW c \in Clients, HandlerStep(c) PROVE MutexInv'
  <2> /\ \A d \in Clients : d # c => pc'[d] = pc[d] /\ job'[d] = job[d]
      /\ pc[c] # "send" => job'[c].op = job[c].op
    BY <1>1, OthersStay
  <2> USE DEF At, Begins, Goto, Answer
  <2>1. CASE BeginSpawn(c)
    BY <2>1 DEF BeginSpawn, MutexInv
  <2>2. CASE Allocate(c) \/ Register(c) \/ Record(c)
    BY <2>2 DEF Allocate, Register, Record, SpawnFailed, lockVars, MutexInv
  <2>3. CASE BeginWrite(c) \/ Write(c)
    BY <2>3 DEF BeginWrite, Write, lockVars, MutexInv
  <2>5. CASE Refuse(c) \/ BeginList(c) \/ List(c) \/ SpawnStatus(c) \/ BeginClose(c)
    BY <2>5 DEF Refuse, BeginList, List, SpawnStatus, BeginClose, lockVars, MutexInv
  <2>9. CASE RestartHost(c) \/ HostStatus(c)
    BY <2>9 DEF RestartHost, HostStatus, MutexInv
  <2>6. CASE LockWriter(c) \/ CheckIdle(c) \/ Kill(c) \/ Unregister(c)
    BY <2>6 DEF LockWriter, CheckIdle, Kill, Unregister, lockVars, MutexInv
  <2>7. CASE Continue(c) \/ EndOfStream(c) \/ Leave(c)
    BY <2>7 DEF Continue, EndOfStream, Leave, lockVars, MutexInv
  <2>8. CASE Send(c)
    BY <2>8 DEF Send, Released, MutexInv
  <2> QED BY <1>1, <2>1, <2>2, <2>3, <2>5, <2>6, <2>7, <2>8, <2>9 DEF HandlerStep
<1>2. ASSUME NEW c \in Clients,
             Connect(c) \/ Disconnect(c) \/ Accept(c) \/ SetAccessScope(c) \/ Read(c)
      PROVE  MutexInv'
  <2>1. \/ pc' = pc
        \/ \E step \in {"read", "begin", "send"} :
             pc' = [pc EXCEPT ![c] = step] /\ pc[c] \in {"none", "read"}
    BY <1>2 DEF CountInv, Connect, Disconnect, Accept, SetAccessScope, Answer, Read, At, Goto
  <2>2. UNCHANGED lockVars /\ \A d \in Clients : d # c => job'[d] = job[d]
    BY <1>2 DEF Connect, Disconnect, Accept, SetAccessScope, Read
  <2>3. pc' = pc => job' = job
    BY <1>2 DEF Connect, Disconnect, Accept, SetAccessScope, Read, Answer, At, Goto
  <2> QED BY <2>1, <2>2, <2>3 DEF lockVars, MutexInv
<1>3. ASSUME UNCHANGED <<pc, job, lifecycle, spawn_lock, registry_lock>> PROVE MutexInv'
  BY <1>3 DEF MutexInv
<1> QED BY <1>1, <1>2, <1>3 DEF Next, ClientStep, Exit, Shell, vars, lockVars

\* Writers are locked and given back where WriterInv says.
LEMMA WriterStep == TypeOK /\ CountInv /\ WriterInv /\ [Next]_vars => WriterInv'
<1> SUFFICES ASSUME TypeOK, CountInv, WriterInv, [Next]_vars PROVE WriterInv'
  OBVIOUS
<1> /\ job \in [Clients -> JobSet] /\ pc \in [Clients -> Steps]
    /\ writer \in [Ids -> Clients \cup {NoClient}] /\ NoClient \notin Clients
  BY TypeParts, SentinelsAssumption DEF HostType
<1> \A id \in Ids : id \in Int
  BY BoundsAssumption DEF Ids
<1>0. (WriterInv <=> \A d \in Clients : WritersOf(d)) /\ (WriterInv' <=> \A d \in Clients : WritersOf(d)')
  BY DEF WriterInv
\* A handler that is neither closing nor starts to, and whose writers stay.
<1>1. ASSUME NEW d \in Clients, pc'[d] = pc[d], job'[d] = job[d],
             \A id \in Ids : writer'[id] = d <=> writer[id] = d
      PROVE  WritersOf(d)'
  <2>1. WritersOf(d)
    BY <1>0
  <2> QED BY <1>1, <2>1 DEF WritersOf, JobSet
<1>2. ASSUME NEW d \in Clients, pc[d] \notin {"lock writers", "kill"},
             pc'[d] \notin {"lock writers", "kill"}, UNCHANGED writer
      PROVE  WritersOf(d)'
  <2>1. WritersOf(d)
    BY <1>0
  <2> QED BY <1>2, <2>1 DEF WritersOf
<1>3. ASSUME NEW c \in Clients, HandlerStep(c) PROVE WriterInv'
  <2>0. \A d \in Clients : d # c => pc'[d] = pc[d] /\ job'[d] = job[d]
    BY <1>3, OthersStay
  <2>1. ASSUME \A d \in Clients : d # c => \A id \in Ids : writer'[id] = d <=> writer[id] = d,
               WritersOf(c)'
        PROVE  WriterInv'
    BY <1>0, <1>1, <2>0, <2>1
  <2>2. WritersOf(c) /\ job[c] \in JobSet
    BY <1>0
  <2> USE DEF At, Begins, Goto, Answer
  <2>3. CASE BeginClose(c)
    <3>1. UNCHANGED writer /\ \A id \in Ids : writer[id] # c
      BY <2>2, <2>3 DEF BeginClose, lockVars, WritersOf
    <3>2. CASE Answer(c, "error", {})
      BY <1>2, <2>1, <2>3, <3>1, <3>2 DEF BeginClose
    <3>3. CASE ~Answer(c, "error", {})
      <4>1. /\ job' = [job EXCEPT ![c].found = job[c].ids \cap registry,
                                  ![c].todo = job[c].ids \cap registry]
            /\ pc' = [pc EXCEPT ![c] = IF job[c].op = "close" THEN "kill" ELSE "lock writers"]
        BY <2>3, <3>3 DEF BeginClose
      <4>2. job'[c].op = job[c].op /\ job'[c].found = job'[c].todo
        BY <4>1 DEF JobSet
      <4>3. pc'[c] = IF job'[c].op = "close" THEN "kill" ELSE "lock writers"
        BY <4>1, <4>2
      <4>4. WritersOf(c)'
        BY <3>1, <4>2, <4>3 DEF WritersOf
      <4> QED BY <2>1, <3>1, <4>4
    <3> QED BY <3>2, <3>3
  <2>4. CASE LockWriter(c)
    <3>1. PICK id \in Lowest(job[c].todo) :
             /\ writer[id] = NoClient /\ writer' = [writer EXCEPT ![id] = c]
             /\ job' = [job EXCEPT ![c].todo = @ \ {id}]
      BY <2>4 DEF LockWriter, NextWriter
    <3>2. id \in job[c].todo /\ id \in Ids /\ \A other \in job[c].todo : id <= other
      BY <2>2, <3>1 DEF Lowest, JobSet
    <3>3. /\ job'[c].op = job[c].op /\ job'[c].found = job[c].found
          /\ job'[c].todo = job[c].todo \ {id}
      BY <3>1 DEF JobSet
    <3>4. pc[c] = "lock writers" /\ pc' = pc
      BY <2>4 DEF LockWriter
    <3>5. ASSUME NEW i \in Ids, NEW other \in job'[c].todo, writer'[i] = c PROVE i < other
      <4>1. other \in job[c].todo /\ other # id /\ other \in Int
        BY <2>2, <3>3 DEF JobSet
      <4>2. CASE i = id
        BY <3>2, <4>1, <4>2
      <4>3. CASE i # id
        BY <2>2, <3>1, <3>4, <3>5, <4>1, <4>3 DEF WritersOf
      <4> QED BY <4>2, <4>3
    <3>6. /\ job[c].op # "close" /\ job[c].todo \subseteq job[c].found
          /\ \A i \in job[c].found : i \in job[c].todo \/ writer[i] = c
      BY <2>2, <3>4 DEF WritersOf
    <3>7. \A i \in job[c].found : i \in job[c].todo \ {id} \/ writer'[i] = c
      BY <2>2, <3>1, <3>2, <3>6 DEF JobSet
    <3>8. WritersOf(c)'
      BY <3>3, <3>4, <3>5, <3>6, <3>7 DEF WritersOf
    <3> QED BY <2>1, <3>1, <3>2, <3>8
  <2>5. CASE CheckIdle(c)
    <3>1. CASE UNCHANGED writer
      <4>1. WritersOf(c)'
        <5>1. pc[c] = "lock writers" /\ job[c].todo = {} /\ UNCHANGED job
          BY <2>5 DEF CheckIdle
        <5>2. pc'[c] = "kill" \/ (pc'[c] = "send" /\ WritersReleased(c))
          BY <2>5 DEF CheckIdle
        <5> QED BY <2>2, <3>1, <5>1, <5>2 DEF WritersOf, WritersReleased
      <4> QED BY <2>1, <3>1, <4>1
    <3>2. CASE WritersReleased(c) /\ pc'[c] = "send"
      <4>1. WritersOf(c)'
        BY <3>2 DEF WritersReleased, WritersOf
      <4> QED BY <2>1, <3>2, <4>1 DEF WritersReleased
    <3> QED BY <2>5, <3>1, <3>2 DEF CheckIdle
  <2>6. CASE Kill(c)
    <3>1. WritersReleased(c) /\ pc'[c] = "unregister"
      BY <2>6 DEF Kill
    <3>2. WritersOf(c)'
      BY <3>1 DEF WritersReleased, WritersOf
    <3> QED BY <2>1, <3>1, <3>2 DEF WritersReleased
  <2>7. CASE UNCHANGED writer /\ pc[c] \notin {"lock writers", "kill"}
             /\ pc'[c] \notin {"lock writers", "kill"}
    BY <1>2, <2>1, <2>7
  <2>8. CASE Refuse(c) \/ BeginSpawn(c) \/ BeginList(c) \/ List(c) \/ SpawnStatus(c)
             \/ RestartHost(c) \/ HostStatus(c)
    BY <2>7, <2>8 DEF Refuse, BeginSpawn, BeginList, List, SpawnStatus, RestartHost,
       HostStatus, lockVars
  <2>9. CASE Allocate(c) \/ Register(c) \/ Record(c)
    BY <2>7, <2>9 DEF Allocate, Register, Record, SpawnFailed, lockVars
  <2>10. CASE Unregister(c) \/ BeginWrite(c) \/ Write(c) \/ Send(c) \/ Continue(c)
              \/ EndOfStream(c) \/ Leave(c)
    BY <2>7, <2>10 DEF Unregister, BeginWrite, Write, Send, Continue, EndOfStream, Leave, lockVars
  <2> QED BY <1>3, <2>3, <2>4, <2>5, <2>6, <2>8, <2>9, <2>10 DEF HandlerStep
<1>4. ASSUME NEW c \in Clients,
             Connect(c) \/ Disconnect(c) \/ Accept(c) \/ SetAccessScope(c) \/ Read(c)
      PROVE  WriterInv'
  <2>1. UNCHANGED writer /\ \A d \in Clients : d # c => pc'[d] = pc[d] /\ job'[d] = job[d]
    BY <1>4 DEF Connect, Disconnect, Accept, SetAccessScope, Read, Answer, Goto, lockVars
  <2>2. \/ pc'[c] = pc[c] /\ job'[c] = job[c]
        \/ pc[c] \in {"none", "read"} /\ pc'[c] \in {"read", "begin", "send"}
    BY <1>4 DEF CountInv, Connect, Disconnect, Accept, SetAccessScope, Answer, Read, At, Goto
  <2> QED BY <1>0, <1>1, <1>2, <2>1, <2>2
<1>5. ASSUME UNCHANGED <<pc, job, writer>> PROVE WriterInv'
  BY <1>0, <1>1, <1>5
<1> QED BY <1>3, <1>4, <1>5 DEF Next, ClientStep, Exit, Shell, vars, lockVars

\* Mutexes and writers are held where the code holds them, in every state.
LEMMA WritersHold == Spec => [](MutexInv /\ WriterInv)
<1>1. Init => MutexInv /\ WriterInv
  BY SentinelsAssumption DEF Init, MutexInv, WriterInv, WritersOf
<1>2. IInv /\ MutexInv /\ WriterInv /\ [Next]_vars => MutexInv' /\ WriterInv'
  BY MutexStep, WriterStep DEF IInv
<1> QED BY <1>1, <1>2, IInvHolds, PTL DEF Spec

\* From the check of an idle close to the kill, the terminals that are about to
\* be killed get no input, whoever writes: the closing handler has their writers.
THEOREM IdleCheckHolds == Spec => NoInputAfterIdleCheck
<1> DEFINE NoInput == \A c \in Clients :
       pc[c] = "kill" /\ job[c].op # "close" => (input' \ input) \cap job[c].found = {}
<1>1. IInv /\ WriterInv /\ [Next]_vars => [NoInput]_vars
  <2> SUFFICES ASSUME IInv, WriterInv, [Next]_vars, NEW c \in Clients,
                      pc[c] = "kill", job[c].op # "close",
                      NEW id \in job[c].found, id \in input', id \notin input
               PROVE  FALSE
    OBVIOUS
  <2>0. TypeOK
    BY DEF IInv
  <2>1. id \in Ids /\ writer[id] = c
    BY <2>0, TypeParts DEF WriterInv, WritersOf, JobSet
  <2>2. PICK d \in Clients : Write(d)
    <3>1. ASSUME NEW d \in Clients, HandlerStep(d), ~Write(d) PROVE FALSE
      BY <3>1, PtyFrame DEF Register, Kill, ptyVars
    <3> QED BY <3>1 DEF Next, ClientStep, Connect, Disconnect, Accept, SetAccessScope, Read,
            Exit, Shell, vars, ptyVars
  <2>3. id \in job[d].ids
    BY <2>2 DEF Write
  <2> QED BY <2>1, <2>2, <2>3, SentinelsAssumption DEF Write
<1> QED BY <1>1, IInvHolds, WritersHold, PTL DEF Spec, NoInputAfterIdleCheck

\* A set of ids has a greatest one.
LEMMA Greatest ==
  ASSUME NEW N \in Nat, NEW T \in SUBSET (1..N), T # {}
  PROVE  \E x \in T : \A y \in T : y <= x
<1> DEFINE Above(x) == x..N
           R == StrictSubsetOrdering(1..N)
           F == {Above(x) : x \in T}
<1>1. IsWellFoundedOn(R, FiniteSubsetsOf(1..N))
  BY FS_StrictSubsetOrderingWellFounded
<1>2. F \subseteq FiniteSubsetsOf(1..N)
  BY FS_Interval DEF FiniteSubsetsOf
<1>3. PICK S \in F : \A other \in F : <<other, S>> \notin R
  <2> HIDE DEF R, F
  <2>1. F # {}
    BY DEF F
  <2> QED BY <1>1, <1>2, <2>1, WFMin
<1>4. PICK x \in T : S = Above(x)
  BY <1>3
<1>5. ASSUME NEW y \in T, y > x PROVE FALSE
  <2>1. Above(y) \subseteq Above(x) /\ x \in Above(x) /\ x \notin Above(y)
    BY <1>5
  <2>2. Above(y) \in SUBSET (1..N) /\ Above(x) \in SUBSET (1..N)
    OBVIOUS
  <2>3. <<Above(y), Above(x)>> \in R
    BY <2>1, <2>2 DEF StrictSubsetOrdering
  <2> QED BY <1>3, <1>4, <2>3
<1> QED BY <1>5

\* Handlers that are in a request never wait for each other in a circle, for any
\* number of them: requests take the mutexes in one order, and writers by id.
THEOREM HandlersGoOn == Spec => []HandlersNeverStuck
<1>1. ASSUME TypeOK, LockInv, MutexInv, WriterInv, InRequest # {},
             \A c \in InRequest : WaitsFor(c) # {}
      PROVE  FALSE
  <2> /\ job \in [Clients -> JobSet] /\ pc \in [Clients -> Steps]
      /\ writer \in [Ids -> Clients \cup {NoClient}] /\ NoClient \notin Clients
      /\ lifecycle \in Clients \cup {NoClient} /\ spawn_lock \in Clients \cup {NoClient}
      /\ registry_lock \in Clients \cup {NoClient}
    BY <1>1, TypeParts, SentinelsAssumption DEF HostType
  <2>0. \A c \in Clients : pc[c] \notin {"none", "read"} => WaitsFor(c) # {}
    BY <1>1 DEF InRequest
  <2>1. \A c \in Clients : pc[c] \notin {"register", "record", "kill", "send"}
    BY <2>0 DEF WaitsFor
  <2>2. lifecycle = NoClient
    BY <1>1, <2>1 DEF MutexInv
  <2>3. CASE \A id \in Ids : writer[id] = NoClient
    <3>1. \A c \in Clients : pc[c] \notin {"lock writers", "write"}
      <4>1. ASSUME NEW c \in Clients, pc[c] = "lock writers" PROVE FALSE
        <5>1. NextWriter(c) \subseteq Ids
          BY DEF NextWriter, Lowest, JobSet
        <5> QED BY <2>0, <2>3, <4>1, <5>1 DEF WaitsFor
      <4>2. ASSUME NEW c \in Clients, pc[c] = "write" PROVE FALSE
        <5>1. job[c].ids \subseteq Ids
          BY DEF JobSet
        <5> QED BY <2>0, <2>3, <4>2, <5>1 DEF WaitsFor
      <4> QED BY <4>1, <4>2
    <3>2. registry_lock = NoClient
      BY <1>1, <2>1, <3>1 DEF MutexInv
    <3>3. \A c \in Clients : pc[c] \notin {"allocate", "list", "unregister", "done", "leave"}
      BY <2>0, <2>2, <3>2 DEF WaitsFor, Held
    <3>4. spawn_lock = NoClient
      BY <1>1, <2>1, <3>3 DEF MutexInv
    <3>5. \A c \in Clients : pc[c] # "begin"
      BY <2>0, <2>2, <3>2, <3>4 DEF WaitsFor, Held
    <3> QED BY <1>1, <2>1, <3>1, <3>3, <3>5 DEF InRequest, Steps
  <2>4. CASE \E id \in Ids : writer[id] # NoClient
    <3> DEFINE T == {id \in Ids : writer[id] # NoClient}
    <3>1. PICK x \in T : \A y \in T : y <= x
      BY <2>4, Greatest, BoundsAssumption DEF Ids
    <3>2. PICK c \in Clients : writer[x] = c
      OBVIOUS
    <3>3. pc[c] = "lock writers"
      BY <1>1, <2>1, <3>2 DEF WriterInv, WritersOf
    <3>4. PICK y \in NextWriter(c) : writer[y] # NoClient
      BY <2>0, <3>3 DEF WaitsFor
    <3>5. y \in job[c].todo /\ y \in T
      BY <3>4 DEF NextWriter, Lowest, JobSet
    <3>6. x < y
      BY <1>1, <3>2, <3>3, <3>5 DEF WriterInv, WritersOf
    <3> QED BY <3>1, <3>5, <3>6, BoundsAssumption DEF Ids
  <2> QED BY <2>3, <2>4
<1>2. IInv /\ MutexInv /\ WriterInv => HandlersNeverStuck
  BY <1>1 DEF IInv, HandlersNeverStuck
<1> QED BY <1>2, IInvHolds, WritersHold, PTL
=============================================================================
