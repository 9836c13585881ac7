---------------------------- MODULE SessionIds ----------------------------
(***************************************************************************)
(* Start-up, shutdown and id reservation of the session host processes     *)
(* (src/daemon.rs: unix_impl::run, acquire_instance_lock,                  *)
(* reserve_session_ids_in, allocate_session_id).                           *)
(*                                                                         *)
(* A process is a host child (`fastty --fastty-session-host`, which only   *)
(* runs unix_impl::run) or an embedded daemon (`fastty mcp`, `fastty       *)
(* gateway`: daemon::start runs unix_impl::run on a thread of its own and  *)
(* the main thread calls ensure_default_session without waiting for it).   *)
(* A process runs once: its name is its HostInstanceId.  All processes     *)
(* share the state directory: the flock on fasttyd.lock, the socket path,  *)
(* host-session-high-water and its .pending file.                          *)
(*                                                                         *)
(* In a process everything here runs under the mutex host_lifecycle();     *)
(* phase[p] # "idle" means that a reservation holds it.  The disk steps of *)
(* a reservation are separate actions, so that another process, a crash or *)
(* a power loss can come between any two of them.                          *)
(***************************************************************************)
EXTENDS Integers, FiniteSets

CONSTANTS Hosts,          \* host child processes
          Embedded,       \* mcp and gateway processes
          NoProc,         \* the lock or the socket path belongs to nobody
          First,          \* 100, the first id of a session
          Block,          \* 1024, the ids of one reservation
          MaxId,          \* usize::MAX
          AcceptMayFail   \* listener.accept() may return a hard error

Procs == Hosts \cup Embedded

ASSUME ProcsAssumption == NoProc \notin Procs /\ Hosts \cap Embedded = {}
ASSUME IdsAssumption == /\ First \in Nat /\ MaxId \in Nat
                        /\ Block \in Nat \ {0}
ASSUME AcceptAssumption == AcceptMayFail \in BOOLEAN

VARIABLES
  lock_holder,     \* process holding the flock on fasttyd.lock
  socket,          \* process whose listener the socket path leads to
  boot,            \* where unix_impl::run of each process is
  bound,           \* processes that have bound the socket
  default_due,     \* embedded processes whose main thread has yet to call
                   \* ensure_default_session
  stopping,        \* HostLifecycle.stopping
  next_id,         \* HostLifecycle.next_id
  reserved_until,  \* HostLifecycle.reserved_until
  phase,           \* step of the reservation in progress in each process
  asker,           \* "boot" or "spawn": who asked for it
  start,           \* `start` of that reservation
  fd,              \* where the .pending file a process has open is now
  high_water,      \* content of host-session-high-water
  pending,         \* content of host-session-high-water.pending
  durable,         \* the high-water content that survives a power loss
  issued           \* ids given to the sessions of each process

runVars  == <<lock_holder, socket, boot, bound>>
memVars  == <<next_id, reserved_until, stopping>>
resvVars == <<phase, asker, start, fd>>
diskVars == <<high_water, pending, durable>>
vars == <<runVars, memVars, resvVars, diskVars, default_due, issued>>

\* A file holds a number, or:
NoFile == -1     \* it does not exist, open() fails with NotFound
Torn   == -2     \* it is truncated, and does not parse as a number

Content == Nat \cup {NoFile, Torn}

BootSteps == {"off", "lock", "connect", "unlink stale", "reserve", "bind",
              "serve", "unlink", "release", "returned", "dead"}

Init == /\ lock_holder = NoProc
        /\ socket = NoProc
        /\ boot = [p \in Procs |-> "off"]
        /\ bound = {}
        /\ default_due = {}
        /\ stopping = [p \in Procs |-> FALSE]
        /\ next_id = [p \in Procs |-> 0]
        /\ reserved_until = [p \in Procs |-> 0]
        /\ phase = [p \in Procs |-> "idle"]
        /\ asker = [p \in Procs |-> "boot"]
        /\ start = [p \in Procs |-> 0]
        /\ fd = [p \in Procs |-> "closed"]
        /\ high_water = NoFile
        /\ pending = NoFile
        /\ durable = NoFile
        /\ issued = [p \in Procs |-> {}]

-----------------------------------------------------------------------------
(* unix_impl::run *)

\* UnixStream::connect succeeds: a process still has its listener there.
Reachable == /\ socket \in Procs
             /\ boot[socket] \in {"serve", "unlink"}

\* run() returns, and its locals, the lock file among them, are dropped.
ReturnFromRun(p) ==
  /\ boot' = [boot EXCEPT ![p] = "returned"]
  /\ lock_holder' = IF lock_holder = p THEN NoProc ELSE lock_holder

\* ensure_running, mcp and gateway start a process when connect fails.
Launch(p) ==
  /\ boot[p] = "off"
  /\ ~Reachable
  /\ boot' = [boot EXCEPT ![p] = "lock"]
  /\ default_due' = default_due \cup ({p} \cap Embedded)
  /\ UNCHANGED <<lock_holder, socket, bound, memVars, resvVars, diskVars, issued>>

\* Mutant: the result of flock() is not looked at.
AcquireWithoutFlock(p) ==
  /\ boot[p] = "lock"
  /\ lock_holder' = p /\ boot' = [boot EXCEPT ![p] = "connect"]
  /\ UNCHANGED <<socket, bound, default_due, memVars, resvVars, diskVars, issued>>

\* flock(LOCK_EX | LOCK_NB)
AcquireInstanceLock(p) ==
  /\ boot[p] = "lock"
  /\ IF lock_holder = NoProc
     THEN lock_holder' = p /\ boot' = [boot EXCEPT ![p] = "connect"]
     ELSE ReturnFromRun(p)
  /\ UNCHANGED <<socket, bound, default_due, memVars, resvVars, diskVars, issued>>

ConnectProbe(p) ==
  /\ boot[p] = "connect"
  /\ IF Reachable
     THEN ReturnFromRun(p)
     ELSE /\ boot' = [boot EXCEPT ![p] = "unlink stale"]
          /\ UNCHANGED lock_holder
  /\ UNCHANGED <<socket, bound, default_due, memVars, resvVars, diskVars, issued>>

RemoveStaleSocket(p) ==
  /\ boot[p] = "unlink stale"
  /\ socket' = NoProc
  /\ boot' = [boot EXCEPT ![p] = "reserve"]
  /\ UNCHANGED <<lock_holder, bound, default_due, memVars, resvVars, diskVars, issued>>

\* UnixListener::bind fails when something is at the path.
Bind(p) ==
  /\ boot[p] = "bind"
  /\ IF socket = NoProc
     THEN /\ socket' = p
          /\ bound' = bound \cup {p}
          /\ boot' = [boot EXCEPT ![p] = "serve"]
          /\ UNCHANGED lock_holder
     ELSE ReturnFromRun(p) /\ UNCHANGED <<socket, bound>>
  /\ UNCHANGED <<default_due, memVars, resvVars, diskVars, issued>>

\* A file operation or the set-up of the listener fails: run() returns, and a
\* socket that was already bound stays behind at the path.
StartFails(p) ==
  /\ boot[p] \in {"lock", "unlink stale", "bind"}
  /\ ReturnFromRun(p)
  /\ \/ UNCHANGED socket
     \/ boot[p] = "bind" /\ socket = NoProc /\ socket' = p
  /\ UNCHANGED <<bound, default_due, memVars, resvVars, diskVars, issued>>

\* RestartHost accepted: restart_if_empty, under the lifecycle mutex.
StopHost(p) ==
  /\ boot[p] = "serve" /\ phase[p] = "idle" /\ ~stopping[p]
  /\ stopping' = [stopping EXCEPT ![p] = TRUE]
  /\ UNCHANGED <<runVars, default_due, next_id, reserved_until, resvVars, diskVars, issued>>

\* The accept loop takes the lifecycle mutex, sees `stopping` and breaks.
AcceptLoopStops(p) ==
  /\ boot[p] = "serve" /\ phase[p] = "idle"
  /\ stopping[p]
  /\ boot' = [boot EXCEPT ![p] = "unlink"]
  /\ UNCHANGED <<lock_holder, socket, bound, default_due, memVars, resvVars, diskVars, issued>>

\* accept() returns an error other than WouldBlock: the loop breaks too.
AcceptFails(p) ==
  /\ AcceptMayFail
  /\ boot[p] = "serve" /\ phase[p] = "idle"
  /\ boot' = [boot EXCEPT ![p] = "unlink"]
  /\ UNCHANGED <<lock_holder, socket, bound, default_due, memVars, resvVars, diskVars, issued>>

\* remove_file(&path): whatever socket is at the path.
RemoveSocket(p) ==
  /\ boot[p] = "unlink"
  /\ socket' = NoProc
  /\ boot' = [boot EXCEPT ![p] = "release"]
  /\ UNCHANGED <<lock_holder, bound, default_due, memVars, resvVars, diskVars, issued>>

\* Mutant: the lock file is kept in a static and outlives run().
ReleaseKeepsLock(p) ==
  /\ boot[p] = "release"
  /\ boot' = [boot EXCEPT ![p] = "returned"]
  /\ UNCHANGED <<lock_holder, socket, bound, default_due, memVars, resvVars, diskVars, issued>>

Release(p) ==
  /\ boot[p] = "release"
  /\ ReturnFromRun(p)
  /\ UNCHANGED <<socket, bound, default_due, memVars, resvVars, diskVars, issued>>

-----------------------------------------------------------------------------
(* reserve_session_ids_in *)

\* The reservation ends with an error and leaves HostLifecycle unchanged;
\* run() returns, a spawn is refused.
ReservationFailed(p, who) ==
  /\ phase' = [phase EXCEPT ![p] = "idle"]
  /\ fd' = [fd EXCEPT ![p] = "closed"]
  /\ UNCHANGED <<asker, start>>
  /\ IF who = "boot" THEN ReturnFromRun(p) ELSE UNCHANGED <<lock_holder, boot>>

\* Mutant: a missing mark is not replaced by the first id.
ReadHighWaterNoDefault(p, who) ==
  /\ phase' = [phase EXCEPT ![p] = "open"]
  /\ asker' = [asker EXCEPT ![p] = who]
  /\ start' = [start EXCEPT ![p] = high_water]
  /\ UNCHANGED <<fd, lock_holder, boot>>

\* An unreadable mark, or `start.checked_add(1024)` overflowing, is an error.
ReadHighWater(p, who) ==
  LET mark == IF high_water = NoFile THEN First ELSE high_water
      from == IF mark < First THEN First ELSE mark
  IN  IF high_water = Torn \/ from + Block > MaxId
      THEN ReservationFailed(p, who)
      ELSE /\ phase' = [phase EXCEPT ![p] = "open"]
           /\ asker' = [asker EXCEPT ![p] = who]
           /\ start' = [start EXCEPT ![p] = from]
           /\ UNCHANGED <<fd, lock_holder, boot>>

\* run() reserves a block before it binds the socket.
ReserveAtBoot(p) ==
  /\ boot[p] = "reserve" /\ phase[p] = "idle"
  /\ ReadHighWater(p, "boot")
  /\ UNCHANGED <<socket, bound, default_due, memVars, diskVars, issued>>

\* OpenOptions::truncate(true): the file another process has open, if any.
OpenPending(p) ==
  /\ phase[p] = "open"
  /\ pending' = Torn
  /\ fd' = [fd EXCEPT ![p] = "pending"]
  /\ phase' = [phase EXCEPT ![p] = "write"]
  /\ UNCHANGED <<runVars, default_due, memVars, asker, start, high_water, durable, issued>>

\* Mutant: the mark written is the start of the block.
WriteStart(p) ==
  /\ phase[p] = "write"
  /\ pending' = IF fd[p] = "pending" THEN start[p] ELSE pending
  /\ phase' = [phase EXCEPT ![p] = "rename"]
  /\ UNCHANGED <<runVars, default_due, memVars, asker, start, fd, high_water, durable, issued>>

\* writeln!(file, "{end}") and file.sync_all(), wherever the file now is.
WritePending(p) ==
  LET end == start[p] + Block
  IN  /\ phase[p] = "write"
      /\ pending' = IF fd[p] = "pending" THEN end ELSE pending
      /\ high_water' = IF fd[p] = "high water" THEN end ELSE high_water
      /\ durable' = IF fd[p] = "high water" /\ durable = high_water
                    THEN end ELSE durable
      /\ phase' = [phase EXCEPT ![p] = "rename"]
      /\ UNCHANGED <<runVars, default_due, memVars, asker, start, fd, issued>>

\* rename(): open files move with their directory entry.
RenamePending(p) ==
  /\ phase[p] = "rename"
  /\ pending # NoFile
  /\ high_water' = pending
  /\ pending' = NoFile
  /\ fd' = [q \in Procs |-> CASE fd[q] = "pending" -> "high water"
                              [] fd[q] = "high water" -> "unlinked"
                              [] OTHER -> fd[q]]
  /\ phase' = [phase EXCEPT ![p] = "sync"]
  /\ UNCHANGED <<runVars, default_due, memVars, asker, start, durable, issued>>

\* Mutant: the directory is not synced.
CommitWithoutSync(p) ==
  /\ phase[p] = "sync"
  /\ UNCHANGED durable
  /\ next_id' = [next_id EXCEPT ![p] = start[p]]
  /\ reserved_until' = [reserved_until EXCEPT ![p] = start[p] + Block]
  /\ fd' = [fd EXCEPT ![p] = "closed"]
  /\ phase' = [phase EXCEPT ![p] = IF asker[p] = "boot" THEN "idle" ELSE "take"]
  /\ boot' = IF asker[p] = "boot" THEN [boot EXCEPT ![p] = "bind"] ELSE boot
  /\ UNCHANGED <<lock_holder, socket, bound, default_due, stopping, asker, start,
                 high_water, pending, issued>>

\* Mutant: the block is one id too long.
CommitOneTooMany(p) ==
  /\ phase[p] = "sync"
  /\ durable' = high_water
  /\ next_id' = [next_id EXCEPT ![p] = start[p]]
  /\ reserved_until' = [reserved_until EXCEPT ![p] = start[p] + Block + 1]
  /\ fd' = [fd EXCEPT ![p] = "closed"]
  /\ phase' = [phase EXCEPT ![p] = IF asker[p] = "boot" THEN "idle" ELSE "take"]
  /\ boot' = IF asker[p] = "boot" THEN [boot EXCEPT ![p] = "bind"] ELSE boot
  /\ UNCHANGED <<lock_holder, socket, bound, default_due, stopping, asker, start,
                 high_water, pending, issued>>

\* The directory is synced; only then are the ids this process's to use.
CommitReservation(p) ==
  /\ phase[p] = "sync"
  /\ durable' = high_water
  /\ next_id' = [next_id EXCEPT ![p] = start[p]]
  /\ reserved_until' = [reserved_until EXCEPT ![p] = start[p] + Block]
  /\ fd' = [fd EXCEPT ![p] = "closed"]
  /\ IF asker[p] = "boot"
     THEN /\ phase' = [phase EXCEPT ![p] = "idle"]
          /\ boot' = [boot EXCEPT ![p] = "bind"]
     ELSE /\ phase' = [phase EXCEPT ![p] = "take"]
          /\ UNCHANGED boot
  /\ UNCHANGED <<lock_holder, socket, bound, default_due, stopping, asker, start,
                 high_water, pending, issued>>

\* open, write, sync or rename fails; rename fails when .pending is gone.
ReservationIoError(p) ==
  /\ phase[p] \in {"open", "write", "rename", "sync"}
  /\ ReservationFailed(p, asker[p])
  /\ UNCHANGED <<socket, bound, default_due, memVars, diskVars, issued>>

-----------------------------------------------------------------------------
(* spawn_headless_session: from the threads of a process's connections, or *)
(* from ensure_default_session on an embedded process's main thread.       *)

CanSpawn(p) ==
  /\ boot[p] \notin {"off", "dead"}
  /\ p \in bound \cup default_due
  /\ phase[p] = "idle"
  /\ ~stopping[p]

\* Inside `next_id == reserved_until` the spawn reserves another block.
ReserveForSpawn(p) ==
  /\ CanSpawn(p)
  /\ next_id[p] = reserved_until[p]
  /\ ReadHighWater(p, "spawn")
  /\ default_due' = IF p \in bound THEN default_due ELSE default_due \ {p}
  /\ UNCHANGED <<socket, bound, memVars, diskVars, issued>>

\* allocate_session_id; when TerminalState::new_headless fails the id is lost.
TakeId(p) ==
  /\ \/ phase[p] = "take"
     \/ CanSpawn(p) /\ next_id[p] # reserved_until[p]
  /\ next_id' = [next_id EXCEPT ![p] = next_id[p] + 1]
  /\ phase' = [phase EXCEPT ![p] = "idle"]
  /\ \/ issued' = [issued EXCEPT ![p] = issued[p] \cup {next_id[p]}]
     \/ UNCHANGED issued
  /\ default_due' = IF p \in bound \/ phase[p] = "take" THEN default_due
                                                      ELSE default_due \ {p}
  /\ UNCHANGED <<runVars, reserved_until, stopping, asker, start, fd, diskVars>>

-----------------------------------------------------------------------------
(* Crashes *)

\* The memory, the open files and the flock of the processes in ps are gone;
\* what was on disk stays, the socket path included.
ProcessesDie(ps) ==
  LET reset(f, v) == [p \in Procs |-> IF p \in ps THEN v ELSE f[p]]
  IN  /\ boot' = reset(boot, "dead")
      /\ lock_holder' = IF lock_holder \in ps THEN NoProc ELSE lock_holder
      /\ default_due' = default_due \ ps
      /\ stopping' = reset(stopping, FALSE)
      /\ next_id' = reset(next_id, 0)
      /\ reserved_until' = reset(reserved_until, 0)
      /\ phase' = reset(phase, "idle")
      /\ asker' = reset(asker, "boot")
      /\ start' = reset(start, 0)
      /\ fd' = reset(fd, "closed")
      /\ UNCHANGED <<socket, bound, issued>>

Running == {p \in Procs : boot[p] \notin {"off", "dead"}}

\* A signal, a panic in main, or the exit of main after run() returned.
Crash(p) ==
  /\ p \in Running
  /\ ProcessesDie({p})
  /\ UNCHANGED diskVars

\* A rename whose directory was not synced may be lost, and .pending with it.
PowerLoss ==
  /\ Running # {}
  /\ ProcessesDie(Running)
  /\ \E survivor \in {durable, high_water} :
        high_water' = survivor /\ durable' = survivor
  /\ pending' \in {NoFile, pending}

RunStep(p) == \/ AcquireInstanceLock(p) \/ ConnectProbe(p)
              \/ RemoveStaleSocket(p) \/ ReserveAtBoot(p) \/ Bind(p) \/ StartFails(p)
              \/ AcceptLoopStops(p) \/ RemoveSocket(p) \/ Release(p)

ReserveStep(p) == \/ OpenPending(p) \/ WritePending(p) \/ RenamePending(p)
                  \/ CommitReservation(p) \/ ReservationIoError(p)

SpawnStep(p) == ReserveForSpawn(p) \/ TakeId(p)

Next == \/ PowerLoss
        \/ \E p \in Procs : \/ Launch(p) \/ RunStep(p) \/ ReserveStep(p)
                            \/ SpawnStep(p) \/ StopHost(p) \/ AcceptFails(p)
                            \/ Crash(p)

\* Threads that have work run on; nobody is obliged to launch a process, to
\* spawn a session or to ask for a restart.
Fairness == \A p \in Procs : WF_vars(RunStep(p)) /\ WF_vars(ReserveStep(p))
                             /\ WF_vars(phase[p] = "take" /\ TakeId(p))

Spec == Init /\ [][Next]_vars
FairSpec == Spec /\ Fairness

-----------------------------------------------------------------------------
(* Properties *)

\* Every variable keeps the type of the field, file or lock it stands for.
TypeOK ==
  /\ lock_holder \in Procs \cup {NoProc}
  /\ socket \in Procs \cup {NoProc}
  /\ boot \in [Procs -> BootSteps]
  /\ bound \in SUBSET Procs
  /\ default_due \in SUBSET Embedded
  /\ stopping \in [Procs -> BOOLEAN]
  /\ next_id \in [Procs -> Nat]
  /\ reserved_until \in [Procs -> Nat]
  /\ phase \in [Procs -> {"idle", "open", "write", "rename", "sync", "take"}]
  /\ asker \in [Procs -> {"boot", "spawn"}]
  /\ start \in [Procs -> Nat]
  /\ fd \in [Procs -> {"closed", "pending", "high water", "unlinked"}]
  /\ high_water \in Content /\ pending \in Content /\ durable \in Content
  /\ issued \in [Procs -> SUBSET Nat]

\* Two host processes never give the same numeric id to a session, over any
\* sequence of crashes, power losses and restarts.
IdsUnique == \A p, q \in Procs : p # q => issued[p] \cap issued[q] = {}

\* An id reaches a session only once the mark that excludes it from every
\* later reservation would survive a power loss (docs/daemon-protocol.md:405,
\* "It saves and syncs the upper limit before it uses an ID").
DurableAboveIssued ==
  \A p \in Procs : \A id \in issued[p] :
     durable \notin {NoFile, Torn} /\ id < durable

\* The process in the accept loop is the one the socket path leads to: a host
\* that starts or stops never takes away the socket of the one that serves.
ServingReachable == \A p \in Procs : boot[p] = "serve" => socket = p

\* A granted restart ends: the old host gives up the instance lock, so that
\* its successor can take it.
RestartReleases ==
  \A p \in Procs : (boot[p] = "serve" /\ stopping[p]) ~> lock_holder # p

\* Ids are only ever handed out in increasing order, across all processes.
AllIssued == UNION {issued[p] : p \in Procs}
Ids == INSTANCE FreshIds WITH issued <- AllIssued
FreshIdsSpec == Ids!Spec
=============================================================================
