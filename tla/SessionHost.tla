---------------------------- MODULE SessionHost ----------------------------
(***************************************************************************)
(* The request handlers of one session host (src/daemon.rs, unix_impl):    *)
(* the accept loop, one handler thread per connection, and the three       *)
(* mutexes they share: host_lifecycle(), spawn_requests() and registry(),  *)
(* together with the writer mutex of each terminal (src/terminal_state.rs).*)
(*                                                                         *)
(* A handler step runs up to the next point where another thread can come  *)
(* between: taking a mutex, or the end of a critical section.  A mutex     *)
(* held over several steps is a variable; one that is taken and given back *)
(* within a step is a guard.  An answer is a step of its own: send() is a  *)
(* blocking write, which ends when the client reads or hangs up, and some  *)
(* answers are sent with a mutex held.  An access scope of rank 0 also     *)
(* stands for Conn.read_only, which `hello` sets together with it.         *)
(***************************************************************************)
EXTENDS Integers, FiniteSets

CONSTANTS Clients,        \* connections
          NoClient,       \* nobody holds the mutex
          Requests,       \* spawn request ids clients choose
          NoRequest,      \* a spawn without request_id, or a default session
          MaxId,          \* ids the host can give to sessions are 1..MaxId
          Ops,            \* commands the clients of this model send
          LowestScope,    \* the lowest rank a client lowers its scope to
          AcceptMayFail   \* listener.accept() may return a hard error

Ids == 1..MaxId
AllOps == {"list", "host_status", "spawn", "status", "restart", "close",
           "close_if_idle", "close_batch", "write"}

ASSUME ClientsAssumption == IsFiniteSet(Clients)
ASSUME SentinelsAssumption == NoClient \notin Clients /\ NoRequest \notin Requests
ASSUME BoundsAssumption == /\ MaxId \in Nat /\ Ops \subseteq AllOps
                           /\ LowestScope \in 0..2 /\ AcceptMayFail \in BOOLEAN

VARIABLES
  link,           \* each client's connection, as the host sees it
  pc,             \* where the handler of each connection is
  job,            \* the request it is handling
  reply,          \* its answer, until it is sent
  scope,          \* Conn.access_scope, by rank
  connections,    \* HostLifecycle.connections
  stopping,       \* HostLifecycle.stopping
  exited,         \* unix_impl::run has returned: the process is gone
  lifecycle,      \* holder of host_lifecycle()
  spawn_lock,     \* holder of spawn_requests()
  registry_lock,  \* holder of registry(), over a write and its answer
  writer,         \* holder of each terminal's writer
  registry,       \* ids of the registered sessions
  requests,       \* the id recorded for each spawn request, 0 if none
  next_id,        \* HostLifecycle.next_id
  made_for,       \* history: the spawn request each session was made for
  program,        \* what the terminal of each id runs
  input,          \* terminals with input their shell has not read
  terminated      \* terminals with has_terminated set

connVars == <<link, scope, connections>>
hostVars == <<stopping, exited>>
lockVars == <<lifecycle, spawn_lock, registry_lock, writer>>
tableVars == <<registry, requests, next_id, made_for>>
ptyVars == <<program, input, terminated>>
vars == <<connVars, pc, job, reply, hostVars, lockVars, tableVars, ptyVars>>

\* A request: its command, request_id and ids; what the handler has found
\* (found), and the ids it has yet to lock or to unregister (todo).
Ask(op, r, S) == [op |-> op, request |-> r, ids |-> S, found |-> {}, todo |-> {}]
Idle == Ask("none", NoRequest, {})
Answered(kind, S) == [kind |-> kind, ids |-> S]
NoReply == Answered("none", {})

Init ==
  /\ link = [c \in Clients |-> "none"]
  /\ pc = [c \in Clients |-> "none"]
  /\ job = [c \in Clients |-> Idle]
  /\ reply = [c \in Clients |-> NoReply]
  /\ scope = [c \in Clients |-> 2]
  /\ connections = 0
  /\ stopping = FALSE /\ exited = FALSE
  /\ lifecycle = NoClient /\ spawn_lock = NoClient /\ registry_lock = NoClient
  /\ writer = [id \in Ids |-> NoClient]
  /\ registry = {} /\ next_id = 1
  /\ requests = [r \in Requests |-> 0]
  /\ made_for = [id \in Ids |-> NoRequest]
  /\ program = [id \in Ids |-> "none"]
  /\ input = {} /\ terminated = {}

-----------------------------------------------------------------------------
(* Clients and the accept loop *)

Connect(c) == /\ ~exited /\ link[c] = "none"
              /\ link' = [link EXCEPT ![c] = "backlog"]
              /\ UNCHANGED <<scope, connections, pc, job, reply, hostVars,
                             lockVars, tableVars, ptyVars>>

\* The client closes its end, possibly while a request is being handled.
Disconnect(c) == /\ ~exited /\ link[c] = "open"
                 /\ link' = [link EXCEPT ![c] = "hung up"]
                 /\ UNCHANGED <<scope, connections, pc, job, reply, hostVars,
                                lockVars, tableVars, ptyVars>>

\* Mutant: nobody counts the connection.
NotCounted == connections
Counted == connections + 1
\* One turn of the accept loop, under the lifecycle mutex.  set_nonblocking
\* can fail on the accepted stream, which is then dropped uncounted.
Accept(c) ==
  /\ ~exited /\ lifecycle = NoClient /\ ~stopping /\ link[c] = "backlog"
  /\ \/ /\ link' = [link EXCEPT ![c] = "open"]
        /\ scope' = [scope EXCEPT ![c] = 2]
        /\ connections' = Counted
        /\ pc' = [pc EXCEPT ![c] = "read"]
     \/ /\ link' = [link EXCEPT ![c] = "none"]
        /\ UNCHANGED <<scope, connections, pc>>
  /\ UNCHANGED <<job, reply, hostVars, lockVars, tableVars, ptyVars>>

\* Mutant: a blocking accept, which looks at `stopping` once a client comes.
LoopEndsOnAccept == stopping /\ \E c \in Clients : link[c] = "backlog"
LoopEnds == stopping \/ AcceptMayFail
\* The loop ends: the process goes, and its handlers and sessions with it.
Exit == /\ ~exited /\ lifecycle = NoClient
        /\ LoopEnds
        /\ exited' = TRUE
        /\ UNCHANGED <<connVars, pc, job, reply, stopping, lockVars, tableVars, ptyVars>>

-----------------------------------------------------------------------------
(* The handler thread of connection c *)

At(c, step) == ~exited /\ pc[c] = step
Begins(c, op) == At(c, "begin") /\ job[c].op = op
Goto(c, step) == pc' = [pc EXCEPT ![c] = step]
\* The answer is made; the handler is about to send it.
Answer(c, kind, S) == /\ Goto(c, "send")
                      /\ reply' = [reply EXCEPT ![c] = Answered(kind, S)]
Released(mutex, c) == IF mutex = c THEN NoClient ELSE mutex

\* send(): it returns once the client has read enough or hung up, and what the
\* handler held during it is given back.
Send(c) == /\ At(c, "send")
           /\ Goto(c, "done")
           /\ lifecycle' = Released(lifecycle, c)
           /\ spawn_lock' = Released(spawn_lock, c)
           /\ registry_lock' = Released(registry_lock, c)
           /\ job' = [job EXCEPT ![c] = Idle]
           /\ reply' = [reply EXCEPT ![c] = NoReply]
           /\ UNCHANGED <<connVars, hostVars, writer, tableVars, ptyVars>>

Rank(op) == CASE op \in {"list", "host_status", "status"} -> 0
              [] op = "write" -> 1
              [] OTHER -> 2
\* The lines a client sends; it knows the ids of sessions that exist or existed.
Known == {id \in Ids : program[id] # "none"}
Lines == {Ask("spawn", r, {}) : r \in Requests \cup {NoRequest}}
         \cup {Ask("status", r, {}) : r \in Requests}
         \cup {Ask(op, NoRequest, {}) : op \in {"list", "host_status", "restart"}}
         \cup {Ask(op, NoRequest, {id}) : op \in {"close", "close_if_idle", "write"},
                                          id \in Known}
         \cup {Ask("close_batch", NoRequest, S) : S \in SUBSET Known}

Read(c) == /\ At(c, "read") /\ link[c] = "open"
           /\ \E line \in Lines : line.op \in Ops /\ job' = [job EXCEPT ![c] = line]
           /\ Goto(c, "begin")
           /\ UNCHANGED <<connVars, reply, hostVars, lockVars, tableVars, ptyVars>>

\* hello with read_only, set_access_scope: a scope is lowered or refused.
SetAccessScope(c) ==
  /\ At(c, "read") /\ link[c] = "open"
  /\ \E s \in LowestScope..2 :
       scope' = [scope EXCEPT ![c] = IF s > scope[c] THEN scope[c] ELSE s]
  /\ Answer(c, "scope", {})
  /\ UNCHANGED <<link, connections, job, hostVars, lockVars, tableVars, ptyVars>>

Refuse(c) == /\ At(c, "begin") /\ scope[c] < Rank(job[c].op)
             /\ Answer(c, "error", {})
             /\ UNCHANGED <<connVars, job, hostVars, lockVars, tableVars, ptyVars>>
Permitted(c) == scope[c] >= Rank(job[c].op)

\* Request::Spawn: spawn_requests() is held until the answer is sent.
Retained == [r \in Requests |-> IF requests[r] \in registry THEN requests[r] ELSE 0]
BeginSpawn(c) ==
  LET r == job[c].request IN
  /\ Begins(c, "spawn") /\ Permitted(c)
  /\ spawn_lock = NoClient /\ registry_lock = NoClient
  /\ requests' = Retained /\ spawn_lock' = c
  /\ IF r # NoRequest /\ Retained[r] # 0
     THEN Answer(c, "spawned", {Retained[r]})
     ELSE Goto(c, "allocate") /\ UNCHANGED reply
  /\ UNCHANGED <<connVars, job, hostVars, lifecycle, registry_lock, writer,
                 registry, next_id, made_for, ptyVars>>

\* Request::List: ensure_default_session looks at the registry and lets go of it.
BeginList(c) ==
  /\ Begins(c, "list") /\ registry_lock = NoClient
  /\ Goto(c, IF registry = {} THEN "allocate" ELSE "list")
  /\ UNCHANGED <<connVars, job, reply, hostVars, lockVars, tableVars, ptyVars>>

\* A spawn that fails is answered; a default session that fails is ignored.
SpawnFailed(c) ==
  IF job[c].op = "spawn" THEN Answer(c, "error", {})
                         ELSE Goto(c, "list") /\ UNCHANGED reply

\* The ids left to give; the ids of 1..MaxId can run out.
\* Mutant: the lowest id that no session has now.
UnregisteredIds == {id \in Ids : id \notin registry}
FreeIds == {id \in Ids : id >= next_id /\ id \notin registry}

\* Mutant: nobody thinks of the last id.
CannotSpawnWhenStopping == stopping
CannotSpawn == stopping \/ FreeIds = {}
Lowest(S) == {id \in S : \A other \in S : id <= other}

\* spawn_headless_session up to the id.
Allocate(c) ==
  /\ At(c, "allocate") /\ lifecycle = NoClient /\ registry_lock = NoClient
  /\ IF CannotSpawn
     THEN SpawnFailed(c) /\ UNCHANGED <<job, lifecycle, next_id>>
     ELSE /\ \E id \in Lowest(FreeIds) : /\ job' = [job EXCEPT ![c].found = {id}]
                                        /\ next_id' = id + 1
          /\ lifecycle' = c
          /\ Goto(c, "register") /\ UNCHANGED reply
  /\ UNCHANGED <<connVars, hostVars, spawn_lock, registry_lock, writer, registry,
                 requests, made_for, ptyVars>>

\* TerminalState::new_headless fails, or register_headless follows it, still
\* under the lifecycle mutex.
Register(c) ==
  /\ At(c, "register")
  /\ \/ /\ registry_lock = NoClient
        /\ registry' = registry \cup job[c].found
        /\ program' = [id \in Ids |-> IF id \in job[c].found THEN "shell" ELSE program[id]]
        /\ made_for' = [id \in Ids |-> IF id \in job[c].found THEN job[c].request
                                                              ELSE made_for[id]]
        /\ Goto(c, IF job[c].op = "spawn" THEN "record" ELSE "list")
        /\ UNCHANGED reply
     \/ SpawnFailed(c) /\ UNCHANGED <<registry, program, made_for>>
  /\ lifecycle' = NoClient
  /\ UNCHANGED <<connVars, job, hostVars, spawn_lock, registry_lock, writer, requests,
                 next_id, input, terminated>>

Record(c) ==
  /\ At(c, "record")
  /\ \E id \in job[c].found :
       requests' = [r \in Requests |-> IF r = job[c].request THEN id ELSE requests[r]]
  /\ Answer(c, "spawned", job[c].found)
  /\ UNCHANGED <<connVars, job, hostVars, lockVars, registry, next_id, made_for, ptyVars>>

List(c) == /\ At(c, "list") /\ registry_lock = NoClient
           /\ Answer(c, "sessions", registry)
           /\ UNCHANGED <<connVars, job, hostVars, lockVars, tableVars, ptyVars>>

\* Mutant: a session that is gone is still named.
RecordedEver(r) == {requests[r]} \ {0}
Recorded(r) == {requests[r]} \cap registry
SpawnStatus(c) ==
  /\ Begins(c, "status") /\ spawn_lock = NoClient /\ registry_lock = NoClient
  /\ Answer(c, "status", Recorded(job[c].request))
  /\ UNCHANGED <<connVars, job, hostVars, lockVars, tableVars, ptyVars>>

RestartIfEmpty == registry = {} /\ connections <= 1 /\ ~stopping
\* restart_if_empty, for this instance or for another one.  host_lifecycle() is
\* held until the answer is sent, here and for host_status.
RestartHost(c) ==
  /\ Begins(c, "restart") /\ Permitted(c)
  /\ lifecycle = NoClient /\ registry_lock = NoClient
  /\ \/ /\ RestartIfEmpty
        /\ stopping' = TRUE /\ Answer(c, "restarting", {})
     \/ Answer(c, "error", {}) /\ UNCHANGED stopping
  /\ lifecycle' = c
  /\ UNCHANGED <<connVars, job, exited, spawn_lock, registry_lock, writer, tableVars,
                 ptyVars>>

HostStatus(c) ==
  /\ Begins(c, "host_status")
  /\ lifecycle = NoClient /\ registry_lock = NoClient
  /\ Answer(c, "host", registry)
  /\ lifecycle' = c
  /\ UNCHANGED <<connVars, job, hostVars, spawn_lock, registry_lock, writer, tableVars,
                 ptyVars>>

\* Close, CloseIfIdle and CloseIfIdleBatch find their terminals; a batch takes
\* the ones it finds, the others answer that there is no such session.
BeginClose(c) ==
  LET found == job[c].ids \cap registry IN
  /\ At(c, "begin") /\ Permitted(c) /\ registry_lock = NoClient
  /\ job[c].op \in {"close", "close_if_idle", "close_batch"}
  /\ IF found = {} /\ job[c].op # "close_batch"
     THEN Answer(c, "error", {}) /\ UNCHANGED job
     ELSE /\ Goto(c, IF job[c].op = "close" THEN "kill" ELSE "lock writers")
          /\ job' = [job EXCEPT ![c].found = found, ![c].todo = found]
          /\ UNCHANGED reply
  /\ UNCHANGED <<connVars, hostVars, lockVars, tableVars, ptyVars>>

\* terminate_if_idle, terminate_all_if_idle: one writer mutex after the other,
\* in an order all handlers agree on.
\* Mutants: in no order; without taking the mutex.
AnyWriter(c) == job[c].todo
NextWriter(c) == Lowest(job[c].todo)
LockNothing(c) ==
  /\ At(c, "lock writers") /\ job[c].todo # {}
  /\ job' = [job EXCEPT ![c].todo = {}]
  /\ UNCHANGED <<connVars, pc, reply, hostVars, lockVars, tableVars, ptyVars>>
LockWriter(c) ==
  /\ At(c, "lock writers") /\ job[c].todo # {}
  /\ \E id \in NextWriter(c) :
       /\ writer[id] = NoClient
       /\ writer' = [writer EXCEPT ![id] = c]
       /\ job' = [job EXCEPT ![c].todo = @ \ {id}]
  /\ UNCHANGED <<connVars, pc, reply, hostVars, lifecycle, spawn_lock,
                 registry_lock, tableVars, ptyVars>>

\* Mutant: the guards are kept.
WritersKept(c) == UNCHANGED writer
WritersReleased(c) ==
  writer' = [id \in Ids |-> IF writer[id] = c THEN NoClient ELSE writer[id]]

CheckIdle(c) ==
  LET blocked == {id \in job[c].found : program[id] = "command"} IN
  /\ At(c, "lock writers") /\ job[c].todo = {}
  /\ IF blocked = {} THEN Goto(c, "kill") /\ UNCHANGED <<reply, writer>>
                     ELSE Answer(c, "blocked", blocked) /\ WritersReleased(c)
  /\ UNCHANGED <<connVars, job, hostVars, lifecycle, spawn_lock, registry_lock,
                 tableVars, ptyVars>>

\* terminate_process_without_writer_lock of every terminal found.
Kill(c) ==
  /\ At(c, "kill")
  /\ terminated' = terminated \cup job[c].found
  /\ WritersReleased(c)
  /\ job' = [job EXCEPT ![c].todo = job[c].ids]
  /\ Goto(c, "unregister")
  /\ UNCHANGED <<connVars, reply, hostVars, lifecycle, spawn_lock, registry_lock,
                 tableVars, program, input>>

\* unregister, one id at a time; the answer names every id asked for.
Unregister(c) ==
  /\ At(c, "unregister") /\ registry_lock = NoClient
  /\ IF job[c].todo = {}
     THEN Answer(c, "closed", job[c].ids) /\ UNCHANGED <<job, registry>>
     ELSE /\ \E id \in Lowest(job[c].todo) :
               registry' = registry \ {id} /\ job' = [job EXCEPT ![c].todo = @ \ {id}]
          /\ UNCHANGED <<pc, reply>>
  /\ UNCHANGED <<connVars, hostVars, lockVars, requests, next_id, made_for, ptyVars>>

\* Request::Write with ack.  The registry stays locked while write_to_pty waits
\* for the writer, and until the answer is sent, be it that there is no such
\* session: the guard of the `if let` lives to the end of its `else`.
\* has_terminated is only looked at before the writer is taken.
BeginWrite(c) ==
  /\ Begins(c, "write") /\ Permitted(c) /\ registry_lock = NoClient
  /\ registry_lock' = c
  /\ CASE job[c].ids \cap registry = {}              -> Answer(c, "error", {})
       [] job[c].ids \cap registry \cap terminated # {} -> Answer(c, "written", job[c].ids)
       [] OTHER                                      -> Goto(c, "write") /\ UNCHANGED reply
  /\ UNCHANGED <<connVars, job, hostVars, lifecycle, spawn_lock, writer, tableVars, ptyVars>>

\* A write to a terminal whose shell is dead fails, and the failure is dropped.
Write(c) ==
  /\ At(c, "write") /\ \A id \in job[c].ids : writer[id] = NoClient
  /\ input' = input \cup {id \in job[c].ids : program[id] # "dead"}
  /\ Answer(c, "written", job[c].ids)
  /\ UNCHANGED <<connVars, job, hostVars, lockVars, tableVars, program, terminated>>

\* After each request the handler looks at `stopping`; at the end of the stream
\* it leaves and gives its count back.
Continue(c) == /\ At(c, "done") /\ lifecycle = NoClient
               /\ Goto(c, IF stopping THEN "leave" ELSE "read")
               /\ UNCHANGED <<connVars, job, reply, hostVars, lockVars, tableVars, ptyVars>>
EndOfStream(c) == /\ At(c, "read") /\ link[c] = "hung up"
                  /\ Goto(c, "leave")
                  /\ UNCHANGED <<connVars, job, reply, hostVars, lockVars, tableVars, ptyVars>>
Leave(c) == /\ At(c, "leave") /\ lifecycle = NoClient
            /\ connections' = connections - 1
            /\ link' = [link EXCEPT ![c] = "none"]
            /\ Goto(c, "none")
            /\ UNCHANGED <<scope, job, reply, hostVars, lockVars, tableVars, ptyVars>>

-----------------------------------------------------------------------------
(* Shells, outside the host: a shell starts commands from the input it reads *)

Shell(id) ==
  /\ ~exited
  /\ \/ /\ id \in input /\ program[id] = "shell"
        /\ input' = input \ {id}
        /\ program' = [program EXCEPT ![id] = "command"]
     \/ /\ program[id] = "command"
        /\ program' = [program EXCEPT ![id] = "shell"] /\ UNCHANGED input
     \/ /\ program[id] \in {"shell", "command"}
        /\ program' = [program EXCEPT ![id] = "dead"] /\ input' = input \ {id}
  /\ UNCHANGED <<connVars, pc, job, reply, hostVars, lockVars, tableVars, terminated>>

-----------------------------------------------------------------------------
(* Specification *)

\* The steps of a handler between the line it reads and the next one.
HandlerStep(c) ==
  \/ Refuse(c) \/ BeginSpawn(c) \/ BeginList(c) \/ Allocate(c) \/ Register(c) \/ Record(c)
  \/ List(c) \/ SpawnStatus(c) \/ RestartHost(c) \/ HostStatus(c) \/ BeginClose(c)
  \/ LockWriter(c) \/ CheckIdle(c) \/ Kill(c) \/ Unregister(c) \/ BeginWrite(c) \/ Write(c)
  \/ Send(c) \/ Continue(c) \/ EndOfStream(c) \/ Leave(c)

ClientStep(c) == Connect(c) \/ Disconnect(c) \/ Read(c) \/ SetAccessScope(c)

Next == \/ \E c \in Clients : Accept(c) \/ ClientStep(c) \/ HandlerStep(c)
        \/ \E id \in Ids : Shell(id)
        \/ Exit

\* The operating system runs every thread, and parking_lot hands a contended
\* mutex to a waiting thread after a bounded time.
Fairness == /\ \A c \in Clients : /\ SF_vars(pc[c] # "send" /\ HandlerStep(c))
                                  /\ SF_vars(Accept(c))
            /\ SF_vars(stopping /\ Exit)

\* What the host asks of its clients and nothing in it enforces: one that is sent
\* an answer reads it or hangs up.  send() has no timeout, and one client that does
\* neither stops the handlers of all the others that need a mutex it is held with.
ClientsRead == \A c \in Clients : WF_vars(Send(c))

Spec == Init /\ [][Next]_vars
FairSpec == Spec /\ Fairness /\ ClientsRead

-----------------------------------------------------------------------------
(* Properties *)

Steps == {"none", "read", "begin", "allocate", "register", "record", "list",
          "lock writers", "kill", "unregister", "write", "send", "done", "leave"}

\* Every variable keeps the type of the field, mutex or thread it stands for.
TypeOK ==
  /\ link \in [Clients -> {"none", "backlog", "open", "hung up"}]
  /\ pc \in [Clients -> Steps]
  /\ job \in [Clients -> [op : AllOps \cup {"none"}, request : Requests \cup {NoRequest},
                          ids : SUBSET Ids, found : SUBSET Ids, todo : SUBSET Ids]]
  /\ reply \in [Clients -> [kind : {"none", "error", "scope", "spawned", "sessions",
                                    "status", "host", "restarting", "blocked", "closed",
                                    "written"},
                            ids : SUBSET Ids]]
  /\ scope \in [Clients -> 0..2]
  /\ connections \in Nat
  /\ stopping \in BOOLEAN /\ exited \in BOOLEAN
  /\ lifecycle \in Clients \cup {NoClient}
  /\ spawn_lock \in Clients \cup {NoClient}
  /\ registry_lock \in Clients \cup {NoClient}
  /\ writer \in [Ids -> Clients \cup {NoClient}]
  /\ registry \in SUBSET Ids
  /\ requests \in [Requests -> Ids \cup {0}]
  /\ next_id \in 1..(MaxId + 1)
  /\ made_for \in [Ids -> Requests \cup {NoRequest}]
  /\ program \in [Ids -> {"none", "shell", "command", "dead"}]
  /\ input \in SUBSET Ids /\ terminated \in SUBSET Ids

\* Whatever the threads do, the registry behaves like SessionTable: ids are not
\* reused, retries of a spawn request never make a second live session, and no
\* session is made once the host is stopping.
Table == INSTANCE SessionTable WITH live <- registry, owner <- made_for,
                                    used <- Known, down <- stopping
TableSpec == Table!Spec

\* The answer to spawn_status is exact: a client that lost the answer to its
\* spawn finds the session if and only if it is there, even when another
\* connection is in the middle of a spawn or a close.
SpawnStatusExact ==
  [][\A c \in Clients :
       reply[c].kind = "none" /\ reply'[c].kind = "status" =>
         reply'[c].ids = {id \in registry : made_for[id] = job[c].request}]_vars

\* Between the check of an idle close and the kill no input reaches a terminal
\* that is about to be killed (docs/daemon-protocol.md:64, "The host checks the
\* process and stops the session in one operation").
NoInputAfterIdleCheck ==
  [][\A c \in Clients :
       pc[c] = "kill" /\ job[c].op # "close" => (input' \ input) \cap job[c].found = {}]_vars

\* The holders of the mutexes that keep c's handler from its next step.
Held(mutex) == {mutex} \ {NoClient}
WaitsFor(c) ==
  CASE pc[c] \in {"done", "leave"}       -> Held(lifecycle)
    [] pc[c] = "allocate"                -> Held(lifecycle) \cup Held(registry_lock)
    [] pc[c] \in {"list", "unregister"}  -> Held(registry_lock)
    [] pc[c] = "lock writers"            ->
         IF \E id \in NextWriter(c) : writer[id] = NoClient THEN {}
         ELSE {writer[id] : id \in NextWriter(c)}
    [] pc[c] = "write"                   -> {writer[id] : id \in job[c].ids} \ {NoClient}
    [] pc[c] = "begin" /\ Permitted(c)   ->
         Held(registry_lock)
           \cup (IF job[c].op \in {"spawn", "status"} THEN Held(spawn_lock) ELSE {})
           \cup (IF job[c].op \in {"restart", "host_status"} THEN Held(lifecycle) ELSE {})
    [] OTHER -> {}
InRequest == {c \in Clients : pc[c] \notin {"none", "read"}}

\* Nothing but a mutex that another handler holds, or the client that is sent an
\* answer, keeps a handler from going on: no error path is without an answer.
HandlersWaitForMutexes ==
  ~exited => \A c \in InRequest : ENABLED HandlerStep(c) <=> WaitsFor(c) = {}

\* Handlers never wait for each other in a circle: while some are in a request,
\* one of them waits for nobody but its own client.  Idle closes hold several
\* writers at once, and a write holds the registry while it waits for a writer.
HandlersNeverStuck == InRequest # {} => \E c \in InRequest : WaitsFor(c) = {}

\* Every request that is read is answered, or the host is gone, if clients read
\* their answers: whatever a handler waits for is given back again and again, on
\* its error paths too and when it was held until an answer was sent.
EveryRequestAnswered ==
  \A c \in Clients : pc[c] = "begin" ~> (exited \/ pc[c] \in {"read", "none"})

\* A restart that was granted happens, once its client has read the answer: the
\* accept loop needs the mutex that the answer is sent with.
RestartCompletes == stopping ~> exited
=============================================================================
