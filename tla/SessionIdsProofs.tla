------------------------- MODULE SessionIdsProofs -------------------------
(***************************************************************************)
(* Proofs about SessionIds, for every set of processes and every value of  *)
(* First, Block and MaxId.                                                 *)
(*                                                                         *)
(* TypeCorrect and ServingIsReachable hold of every kind of process.  The  *)
(* results about ids need HostsOnly: an embedded daemon reserves ids       *)
(* without the instance lock, and after a hard accept() error the threads  *)
(* of a host outlive its lock for a moment (README.md, section 10).        *)
(***************************************************************************)
EXTENDS SessionIds, TLAPS

HostsOnly == Embedded = {} /\ AcceptMayFail = FALSE

\* unix_impl::run holds the flock from acquire_instance_lock to its return.
Owning == {"connect", "unlink stale", "reserve", "bind", "serve", "unlink",
           "release"}
LockInv == \A p \in Procs : boot[p] \in Owning => lock_holder = p

\* While run() waits for its own reservation it goes nowhere else.
AskerInv == \A p \in Procs :
              phase[p] # "idle" /\ asker[p] = "boot" => boot[p] = "reserve"

ServingInv == LockInv /\ AskerInv /\ ServingReachable

\* A process spawns, and so reserves, only while it holds the flock.
BoundInv ==
  \A p \in bound : /\ boot[p] \in {"serve", "unlink", "release", "returned", "dead"}
                   /\ boot[p] \in {"unlink", "release", "returned"} => stopping[p]

PhaseInv ==
  \A p \in Procs : phase[p] # "idle" =>
     \/ boot[p] = "reserve" /\ asker[p] = "boot" /\ phase[p] # "take"
     \/ boot[p] = "serve" /\ asker[p] = "spawn"

\* A process that has not reserved has no ids.
EmptyInv ==
  \A p \in Procs : boot[p] \in {"off", "lock", "connect", "unlink stale", "reserve", "dead"}
                     => next_id[p] = 0 /\ reserved_until[p] = 0

RunInv == BoundInv /\ PhaseInv /\ EmptyInv

\* What a reservation has established at each of its steps.
ReservationInv ==
  \A p \in Procs :
    /\ phase[p] \in {"open", "write", "rename"} => high_water <= start[p]
    /\ phase[p] \in {"open", "write", "rename", "sync"} => durable <= start[p]
    /\ phase[p] \in {"write", "rename"} => fd[p] = "pending"
    /\ phase[p] = "rename" => pending = start[p] + Block
    /\ phase[p] = "sync" => high_water = start[p] + Block

\* The marks are numbers or missing, and the durable one is never ahead.
MarkInv == /\ high_water # Torn /\ durable # Torn
           /\ durable <= high_water

\* The ids a process may still give out.
BlockInv ==
  \A p \in Procs :
    /\ next_id[p] <= reserved_until[p]
    /\ phase[p] = "take" => next_id[p] < reserved_until[p]
    /\ next_id[p] < reserved_until[p] => reserved_until[p] <= durable

IssuedBelowMark == \A p \in Procs : \A id \in issued[p] : id < durable

\* Every id given out so far is below what the lock holder gives out next.
IssuedBelowNext ==
  \A p, q \in Procs : \A id \in issued[q] :
    lock_holder = p /\ next_id[p] < reserved_until[p] => id < next_id[p]

DiskInv == /\ ReservationInv /\ MarkInv /\ BlockInv
           /\ IssuedBelowMark /\ IssuedBelowNext

\* The inductive invariant behind the results about ids.
IInv == TypeOK /\ ServingInv /\ RunInv /\ DiskInv

-----------------------------------------------------------------------------
(* Type correctness *)

USE DEF Procs, vars, runVars, memVars, resvVars, diskVars

\* Ids and block ends are natural numbers.
LEMMA IdTypes ==
  ASSUME TypeOK, NEW p \in Procs
  PROVE  /\ start[p] \in Nat /\ start[p] + Block \in Nat
         /\ next_id[p] \in Nat /\ next_id[p] + 1 \in Nat
         /\ reserved_until[p] \in Nat
<1>1. start[p] \in Nat /\ next_id[p] \in Nat /\ reserved_until[p] \in Nat
  BY DEF TypeOK
<1>2. QED BY <1>1, IdsAssumption

\* Marks, missing and torn ones too, are integers.
LEMMA MarkTypes ==
  ASSUME TypeOK
  PROVE  /\ high_water \in Int /\ durable \in Int /\ pending \in Int
         /\ high_water # Torn => high_water \in Nat \/ high_water = -1
<1>1. high_water \in Content /\ pending \in Content /\ durable \in Content
  BY DEF TypeOK
<1>2. \A c \in Content : c \in Int /\ (c # Torn => c \in Nat \/ c = -1)
  BY DEF Content, NoFile, Torn
<1>3. QED BY <1>1, <1>2

\* What a process has issued are numbers.
LEMMA IssuedType == TypeOK => \A p \in Procs : \A id \in issued[p] : id \in Nat
BY DEF TypeOK

\* A mark read from disk gives a start that is a natural number.
LEMMA ReadHighWaterType ==
  ASSUME TypeOK, NEW p \in Procs, NEW who \in {"boot", "spawn"}, ReadHighWater(p, who)
  PROVE  /\ lock_holder' \in Procs \cup {NoProc}
         /\ boot' \in [Procs -> BootSteps]
         /\ phase' \in [Procs -> {"idle", "open", "write", "rename", "sync", "take"}]
         /\ asker' \in [Procs -> {"boot", "spawn"}]
         /\ start' \in [Procs -> Nat]
         /\ fd' \in [Procs -> {"closed", "pending", "high water", "unlinked"}]
<1> DEFINE mark == IF high_water = NoFile THEN First ELSE high_water
           from == IF mark < First THEN First ELSE mark
<1>1. high_water # Torn => from \in Nat
  BY IdsAssumption DEF TypeOK, Content, NoFile, Torn
<1>2. CASE ReservationFailed(p, who)
  BY <1>2 DEF TypeOK, ReservationFailed, ReturnFromRun, BootSteps
<1>3. CASE ~ReservationFailed(p, who)
  <2>1. /\ high_water # Torn
        /\ phase' = [phase EXCEPT ![p] = "open"]
        /\ asker' = [asker EXCEPT ![p] = who]
        /\ start' = [start EXCEPT ![p] = from]
        /\ UNCHANGED <<fd, lock_holder, boot>>
    BY <1>3 DEF ReadHighWater
  <2> HIDE DEF from
  <2>2. QED BY <1>1, <2>1 DEF TypeOK
<1>4. QED BY <1>2, <1>3

\* A spawn adds at most the next id to the ids of its process.
LEMMA TakeIdType ==
  ASSUME TypeOK, NEW p \in Procs, TakeId(p)
  PROVE  issued' \in [Procs -> SUBSET Nat]
<1>1. issued \in [Procs -> SUBSET Nat] /\ next_id[p] \in Nat
  BY IdTypes DEF TypeOK
<1>2. issued[p] \cup {next_id[p]} \in SUBSET Nat
  BY <1>1
<1>3. CASE issued' = [issued EXCEPT ![p] = issued[p] \cup {next_id[p]}]
  BY <1>1, <1>2, <1>3
<1>4. CASE issued' = issued
  BY <1>1, <1>4
<1>5. QED BY <1>3, <1>4 DEF TakeId

\* No step of a process or of the environment leaves the types.
LEMMA TypeStep == TypeOK /\ [Next]_vars => TypeOK'
<1> SUFFICES ASSUME TypeOK, [Next]_vars PROVE TypeOK'
  OBVIOUS
<1> USE IdsAssumption DEF TypeOK, BootSteps, Content, NoFile, Torn
<1>1. CASE PowerLoss
  BY <1>1 DEF PowerLoss, ProcessesDie, Running
<1>2. ASSUME NEW p \in Procs, RunStep(p) PROVE TypeOK'
  <2>1. CASE AcquireInstanceLock(p)
    BY <2>1 DEF AcquireInstanceLock, ReturnFromRun
  <2>2. CASE ConnectProbe(p)
    BY <2>2 DEF ConnectProbe, ReturnFromRun
  <2>3. CASE RemoveStaleSocket(p)
    BY <2>3 DEF RemoveStaleSocket
  <2>4. CASE ReserveAtBoot(p)
    <3>1. ReadHighWater(p, "boot")
      BY <2>4 DEF ReserveAtBoot
    <3>2. QED BY <2>4, <3>1, ReadHighWaterType DEF ReserveAtBoot
  <2>5. CASE Bind(p)
    BY <2>5 DEF Bind, ReturnFromRun
  <2>6. CASE AcceptLoopStops(p)
    BY <2>6 DEF AcceptLoopStops
  <2>7. CASE RemoveSocket(p)
    BY <2>7 DEF RemoveSocket
  <2>8. CASE Release(p)
    BY <2>8 DEF Release, ReturnFromRun
  <2>9. CASE StartFails(p)
    BY <2>9 DEF StartFails, ReturnFromRun
  <2>10. QED
    BY <1>2, <2>1, <2>2, <2>3, <2>4, <2>5, <2>6, <2>7, <2>8, <2>9 DEF RunStep
<1>3. ASSUME NEW p \in Procs, ReserveStep(p) PROVE TypeOK'
  <2>1. CASE OpenPending(p)
    BY <2>1 DEF OpenPending
  <2>2. CASE WritePending(p)
    <3>1. start[p] + Block \in Nat
      BY IdTypes
    <3>2. QED BY <2>2, <3>1 DEF WritePending
  <2>3. CASE RenamePending(p)
    BY <2>3 DEF RenamePending
  <2>4. CASE CommitReservation(p)
    <3>1. start[p] \in Nat /\ start[p] + Block \in Nat
      BY IdTypes
    <3>2. QED BY <2>4, <3>1 DEF CommitReservation
  <2>5. CASE ReservationIoError(p)
    BY <2>5 DEF ReservationIoError, ReservationFailed, ReturnFromRun
  <2>6. QED BY <1>3, <2>1, <2>2, <2>3, <2>4, <2>5 DEF ReserveStep
<1>4. ASSUME NEW p \in Procs, SpawnStep(p) PROVE TypeOK'
  <2>1. CASE ReserveForSpawn(p)
    <3>1. ReadHighWater(p, "spawn")
      BY <2>1 DEF ReserveForSpawn
    <3>2. QED BY <2>1, <3>1, ReadHighWaterType DEF ReserveForSpawn
  <2>2. CASE TakeId(p)
    <3>1. next_id[p] \in Nat /\ next_id[p] + 1 \in Nat
      BY IdTypes
    <3>2. next_id' \in [Procs -> Nat]
      BY <2>2, <3>1 DEF TakeId
    <3>3. issued' \in [Procs -> SUBSET Nat]
      BY <2>2, TakeIdType
    <3>4. QED BY <2>2, <3>2, <3>3 DEF TakeId
  <2>3. QED BY <1>4, <2>1, <2>2 DEF SpawnStep
<1>5. ASSUME NEW p \in Procs, Launch(p) \/ StopHost(p) \/ AcceptFails(p) \/ Crash(p)
      PROVE  TypeOK'
  <2>1. CASE Launch(p)
    BY <2>1 DEF Launch
  <2>2. CASE StopHost(p)
    BY <2>2 DEF StopHost
  <2>3. CASE AcceptFails(p)
    BY <2>3 DEF AcceptFails
  <2>4. CASE Crash(p)
    BY <2>4 DEF Crash, ProcessesDie
  <2>5. QED BY <1>5, <2>1, <2>2, <2>3, <2>4
<1>6. CASE UNCHANGED vars
  BY <1>6
<1>7. QED BY <1>1, <1>2, <1>3, <1>4, <1>5, <1>6 DEF Next

\* TypeOK holds at the start and no step of any process, no crash and no power
\* loss breaks it.
THEOREM TypeCorrect == Spec => []TypeOK
<1>1. Init => TypeOK
  BY ProcsAssumption DEF Init, TypeOK, BootSteps, Content, NoFile
<1>2. QED BY <1>1, TypeStep, PTL DEF Spec

-----------------------------------------------------------------------------
(* The socket path *)

\* A reservation that starts leaves run() where it is; one that is refused
\* makes run() return when run() asked for it.
LEMMA ReadHighWaterBoot ==
  ASSUME TypeOK, NEW p \in Procs, NEW who \in {"boot", "spawn"}, ReadHighWater(p, who)
  PROVE  \/ /\ UNCHANGED <<lock_holder, boot>>
            /\ phase' = [phase EXCEPT ![p] = "open"]
            /\ asker' = [asker EXCEPT ![p] = who]
         \/ /\ IF who = "boot" THEN ReturnFromRun(p) ELSE UNCHANGED <<lock_holder, boot>>
            /\ phase' = [phase EXCEPT ![p] = "idle"]
            /\ UNCHANGED asker
BY DEF ReadHighWater, ReservationFailed

\* A return from run() keeps ServingInv when no reservation of it is left.
LEMMA ReturnKeepsServing ==
  ASSUME TypeOK, ServingInv, NEW p \in Procs, ReturnFromRun(p),
         UNCHANGED <<socket, asker>>,
         phase' \in {phase, [phase EXCEPT ![p] = "idle"]},
         phase'[p] = "idle"
  PROVE  ServingInv'
BY DEF TypeOK, ServingInv, LockInv, AskerInv, ServingReachable, ReturnFromRun, Owning

\* Before it reserves, and after it has bound the socket, run() has no
\* reservation of its own in progress.
LEMMA NoBootReservation ==
  ASSUME TypeOK, ServingInv, NEW p \in Procs, boot[p] # "reserve"
  PROVE  phase[p] = "idle" \/ asker[p] # "boot"
BY DEF ServingInv, AskerInv

\* The same, of a return from run() at a step other than "reserve".
LEMMA ReturnKeepsServing2 ==
  ASSUME TypeOK, ServingInv, NEW p \in Procs, ReturnFromRun(p), boot[p] # "reserve",
         UNCHANGED <<socket, asker, phase>>
  PROVE  ServingInv'
BY NoBootReservation
   DEF TypeOK, ServingInv, LockInv, AskerInv, ServingReachable, ReturnFromRun, Owning

\* The instance lock makes run() exclusive from the connect probe to the
\* return, so nobody but the server removes or replaces the server's socket.
LEMMA ServingStep == TypeOK /\ ServingInv /\ [Next]_vars => ServingInv'
<1> SUFFICES ASSUME TypeOK, ServingInv, [Next]_vars PROVE ServingInv'
  OBVIOUS
<1> USE DEF ServingInv, LockInv, AskerInv, ServingReachable, Owning
<1>1. CASE UNCHANGED <<lock_holder, socket, boot, phase, asker>>
  BY <1>1
<1>2. CASE PowerLoss
  BY <1>2, ProcsAssumption DEF PowerLoss, ProcessesDie, Running, TypeOK
<1>3. ASSUME NEW p \in Procs, RunStep(p) PROVE ServingInv'
  <2> USE DEF TypeOK
  <2>1. CASE AcquireInstanceLock(p)
    <3>1. CASE lock_holder = NoProc
      <4>1. /\ boot[p] = "lock" /\ lock_holder' = p
            /\ boot' = [boot EXCEPT ![p] = "connect"]
            /\ UNCHANGED <<socket, phase, asker>>
        BY <2>1, <3>1 DEF AcquireInstanceLock
      <4>2. \A q \in Procs : boot[q] \notin Owning
        BY <3>1, ProcsAssumption
      <4>3. QED BY <4>1, <4>2
    <3>2. CASE lock_holder # NoProc
      BY <2>1, <3>2, ReturnKeepsServing2 DEF AcquireInstanceLock
    <3>3. QED BY <3>1, <3>2
  <2>2. CASE ConnectProbe(p)
    <3>1. CASE Reachable
      BY <2>2, <3>1, ReturnKeepsServing2 DEF ConnectProbe
    <3>2. CASE ~Reachable
      BY <2>2, <3>2 DEF ConnectProbe
    <3>3. QED BY <3>1, <3>2
  <2>3. CASE RemoveStaleSocket(p)
    BY <2>3 DEF RemoveStaleSocket
  <2>4. CASE ReserveAtBoot(p)
    <3>1. ReadHighWater(p, "boot") /\ socket' = socket /\ boot[p] = "reserve"
      BY <2>4 DEF ReserveAtBoot
    <3>2. CASE /\ UNCHANGED <<lock_holder, boot>>
               /\ phase' = [phase EXCEPT ![p] = "open"]
               /\ asker' = [asker EXCEPT ![p] = "boot"]
      BY <3>1, <3>2
    <3>3. CASE /\ ReturnFromRun(p)
               /\ phase' = [phase EXCEPT ![p] = "idle"]
               /\ UNCHANGED asker
      BY <3>1, <3>3, ReturnKeepsServing
    <3>4. QED BY <3>1, <3>2, <3>3, ReadHighWaterBoot
  <2>5. CASE Bind(p)
    <3>1. CASE socket = NoProc
      <4>1. /\ boot[p] = "bind" /\ lock_holder = p
            /\ socket' = p /\ boot' = [boot EXCEPT ![p] = "serve"]
            /\ UNCHANGED <<lock_holder, phase, asker>>
        BY <2>5, <3>1 DEF Bind
      <4>2. QED BY <4>1
    <3>2. CASE socket # NoProc
      BY <2>5, <3>2, ReturnKeepsServing2 DEF Bind
    <3>3. QED BY <3>1, <3>2
  <2>6. CASE AcceptLoopStops(p)
    BY <2>6 DEF AcceptLoopStops
  <2>7. CASE RemoveSocket(p)
    BY <2>7 DEF RemoveSocket
  <2>8. CASE Release(p)
    BY <2>8, ReturnKeepsServing2 DEF Release
  <2>9. CASE StartFails(p)
    <3>1. CASE UNCHANGED socket
      BY <2>9, <3>1, ReturnKeepsServing2 DEF StartFails
    <3>2. CASE boot[p] = "bind"
      <4>1. lock_holder = p /\ \A q \in Procs : boot'[q] # "serve"
        BY <2>9, <3>2 DEF StartFails, ReturnFromRun
      <4>2. LockInv' /\ AskerInv'
        BY <2>9, <3>2 DEF StartFails, ReturnFromRun
      <4>3. QED BY <4>1, <4>2
    <3>3. QED BY <2>9, <3>1, <3>2 DEF StartFails
  <2>10. QED
    BY <1>3, <2>1, <2>2, <2>3, <2>4, <2>5, <2>6, <2>7, <2>8, <2>9 DEF RunStep
<1>4. ASSUME NEW p \in Procs, ReserveStep(p) PROVE ServingInv'
  <2>1. CASE OpenPending(p) \/ WritePending(p) \/ RenamePending(p)
    BY <2>1 DEF OpenPending, WritePending, RenamePending, TypeOK
  <2>2. CASE CommitReservation(p)
    <3>1. /\ phase[p] = "sync" /\ UNCHANGED <<lock_holder, socket, asker>>
          /\ \/ /\ asker[p] = "boot" /\ phase' = [phase EXCEPT ![p] = "idle"]
                /\ boot' = [boot EXCEPT ![p] = "bind"]
             \/ /\ asker[p] # "boot" /\ phase' = [phase EXCEPT ![p] = "take"]
                /\ UNCHANGED boot
      BY <2>2 DEF CommitReservation
    <3>2. QED BY <3>1 DEF TypeOK
  <2>3. CASE ReservationIoError(p)
    <3>1. /\ UNCHANGED <<socket, asker>> /\ phase' = [phase EXCEPT ![p] = "idle"]
          /\ IF asker[p] = "boot" THEN ReturnFromRun(p) ELSE UNCHANGED <<lock_holder, boot>>
      BY <2>3 DEF ReservationIoError, ReservationFailed
    <3>2. CASE asker[p] = "boot"
      BY <3>1, <3>2, ReturnKeepsServing DEF TypeOK
    <3>3. CASE asker[p] # "boot"
      BY <3>1, <3>3 DEF TypeOK
    <3>4. QED BY <3>2, <3>3
  <2>4. QED BY <1>4, <2>1, <2>2, <2>3 DEF ReserveStep
<1>5. ASSUME NEW p \in Procs, SpawnStep(p) PROVE ServingInv'
  <2>1. CASE ReserveForSpawn(p)
    <3>1. ReadHighWater(p, "spawn") /\ socket' = socket
      BY <2>1 DEF ReserveForSpawn
    <3>2. QED BY <3>1, ReadHighWaterBoot DEF TypeOK
  <2>2. CASE TakeId(p)
    BY <2>2 DEF TakeId, TypeOK
  <2>3. QED BY <1>5, <2>1, <2>2 DEF SpawnStep
<1>6. ASSUME NEW p \in Procs, Launch(p) \/ StopHost(p) \/ AcceptFails(p) \/ Crash(p)
      PROVE  ServingInv'
  <2>1. CASE Launch(p)
    BY <2>1 DEF Launch, TypeOK
  <2>2. CASE StopHost(p)
    BY <1>1, <2>2 DEF StopHost
  <2>3. CASE AcceptFails(p)
    BY <2>3 DEF AcceptFails, TypeOK
  <2>4. CASE Crash(p)
    BY <2>4, ProcsAssumption DEF Crash, ProcessesDie, TypeOK
  <2>5. QED BY <1>6, <2>1, <2>2, <2>3, <2>4
<1>7. CASE UNCHANGED vars
  BY <1>1, <1>7
<1>8. QED BY <1>2, <1>3, <1>4, <1>5, <1>6, <1>7 DEF Next

\* The host in its accept loop is the one clients reach through the socket
\* path, for host children and embedded daemons alike.
THEOREM ServingIsReachable == Spec => []ServingReachable
<1>1. Init => ServingInv
  BY DEF Init, ServingInv, LockInv, AskerInv, ServingReachable, Owning
<1>2. QED BY <1>1, TypeCorrect, ServingStep, PTL DEF Spec, ServingInv

-----------------------------------------------------------------------------
(* Host children only: who reserves and who spawns *)

\* A host process spawns only while it is in the accept loop.
LEMMA SpawnerServes ==
  ASSUME HostsOnly, TypeOK, RunInv, NEW p \in Procs, CanSpawn(p)
  PROVE  boot[p] = "serve" /\ p \in bound
BY DEF HostsOnly, TypeOK, RunInv, BoundInv, CanSpawn

\* A return from run() keeps RunInv when it leaves no reservation behind and
\* either nothing was served or the host is stopping.
LEMMA ReturnKeepsRun ==
  ASSUME TypeOK, RunInv, NEW p \in Procs, ReturnFromRun(p),
         p \in bound => stopping[p],
         UNCHANGED <<bound, stopping, asker, next_id, reserved_until>>,
         phase' \in {phase, [phase EXCEPT ![p] = "idle"]},
         phase'[p] = "idle"
  PROVE  RunInv'
<1>1. BoundInv'
  BY DEF TypeOK, RunInv, BoundInv, ReturnFromRun
<1>2. PhaseInv'
  BY DEF TypeOK, RunInv, PhaseInv, ReturnFromRun
<1>3. EmptyInv'
  BY DEF TypeOK, RunInv, EmptyInv, ReturnFromRun
<1>4. QED BY <1>1, <1>2, <1>3 DEF RunInv

\* A process has ids to reserve or to give only while it holds the flock.
LEMMA RunInvStep ==
  HostsOnly /\ TypeOK /\ ServingInv /\ RunInv /\ [Next]_vars => RunInv'
<1> SUFFICES ASSUME HostsOnly, TypeOK, ServingInv, RunInv, [Next]_vars
             PROVE  RunInv'
  OBVIOUS
<1> USE DEF RunInv, BoundInv, PhaseInv, EmptyInv
<1>1. CASE UNCHANGED <<boot, bound, stopping, phase, asker, next_id, reserved_until>>
  BY <1>1
<1>2. CASE PowerLoss
  BY <1>2 DEF PowerLoss, ProcessesDie, Running, TypeOK
<1>3. ASSUME NEW p \in Procs, RunStep(p) PROVE RunInv'
  <2>1. CASE AcquireInstanceLock(p)
    <3>1. /\ boot[p] = "lock" /\ phase[p] = "idle" /\ p \notin bound
          /\ UNCHANGED <<bound, stopping, phase, asker, next_id, reserved_until>>
      BY <2>1 DEF AcquireInstanceLock
    <3>2. CASE boot' = [boot EXCEPT ![p] = "connect"]
      BY <3>1, <3>2 DEF TypeOK
    <3>3. CASE ReturnFromRun(p)
      BY <3>1, <3>3, ReturnKeepsRun
    <3>4. QED BY <2>1, <3>2, <3>3 DEF AcquireInstanceLock
  <2>2. CASE ConnectProbe(p)
    <3>1. /\ boot[p] = "connect" /\ phase[p] = "idle" /\ p \notin bound
          /\ UNCHANGED <<bound, stopping, phase, asker, next_id, reserved_until>>
      BY <2>2 DEF ConnectProbe
    <3>2. CASE boot' = [boot EXCEPT ![p] = "unlink stale"]
      BY <3>1, <3>2 DEF TypeOK
    <3>3. CASE ReturnFromRun(p)
      BY <3>1, <3>3, ReturnKeepsRun
    <3>4. QED BY <2>2, <3>2, <3>3 DEF ConnectProbe
  <2>3. CASE RemoveStaleSocket(p)
    BY <2>3 DEF RemoveStaleSocket, TypeOK
  <2>4. CASE ReserveAtBoot(p)
    <3>1. /\ ReadHighWater(p, "boot") /\ boot[p] = "reserve" /\ phase[p] = "idle"
          /\ UNCHANGED <<bound, stopping, next_id, reserved_until>>
      BY <2>4 DEF ReserveAtBoot
    <3>2. CASE /\ UNCHANGED <<lock_holder, boot>>
               /\ phase' = [phase EXCEPT ![p] = "open"]
               /\ asker' = [asker EXCEPT ![p] = "boot"]
      BY <3>1, <3>2 DEF TypeOK
    <3>3. CASE /\ ReturnFromRun(p)
               /\ phase' = [phase EXCEPT ![p] = "idle"]
               /\ UNCHANGED asker
      BY <3>1, <3>3 DEF ReturnFromRun, TypeOK
    <3>4. QED BY <3>1, <3>2, <3>3, ReadHighWaterBoot
  <2>5. CASE Bind(p)
    <3>1. /\ boot[p] = "bind" /\ phase[p] = "idle" /\ p \notin bound
          /\ UNCHANGED <<stopping, phase, asker, next_id, reserved_until>>
      BY <2>5 DEF Bind
    <3>2. CASE bound' = bound \cup {p} /\ boot' = [boot EXCEPT ![p] = "serve"]
      <4>1. BoundInv'
        <5>1. boot'[p] = "serve" /\ \A q \in Procs : q # p => boot'[q] = boot[q]
          BY <3>2 DEF TypeOK
        <5>2. ASSUME NEW q \in bound'
              PROVE  /\ boot'[q] \in {"serve", "unlink", "release", "returned", "dead"}
                     /\ boot'[q] \in {"unlink", "release", "returned"} => stopping'[q]
          <6>1. q \in Procs /\ (q = p \/ q \in bound)
            BY <3>2 DEF TypeOK
          <6>2. QED BY <3>1, <5>1, <6>1
        <5>3. QED BY <5>2
      <4>2. PhaseInv' /\ EmptyInv'
        BY <3>1, <3>2 DEF TypeOK
      <4>3. QED BY <4>1, <4>2
    <3>3. CASE UNCHANGED bound /\ ReturnFromRun(p)
      BY <3>1, <3>3, ReturnKeepsRun
    <3>4. QED BY <2>5, <3>2, <3>3 DEF Bind
  <2>6. CASE AcceptLoopStops(p)
    BY <2>6 DEF AcceptLoopStops, TypeOK
  <2>7. CASE RemoveSocket(p)
    BY <2>7 DEF RemoveSocket, TypeOK
  <2>8. CASE Release(p)
    BY <2>8 DEF Release, ReturnFromRun, TypeOK
  <2>9. CASE StartFails(p)
    <3>1. /\ boot[p] \in {"lock", "unlink stale", "bind"} /\ ReturnFromRun(p)
          /\ phase[p] = "idle" /\ p \notin bound
          /\ UNCHANGED <<bound, stopping, phase, asker, next_id, reserved_until>>
      BY <2>9 DEF StartFails
    <3>2. QED BY <3>1, ReturnKeepsRun
  <2>10. QED
    BY <1>3, <2>1, <2>2, <2>3, <2>4, <2>5, <2>6, <2>7, <2>8, <2>9 DEF RunStep
<1>4. ASSUME NEW p \in Procs, ReserveStep(p) PROVE RunInv'
  <2>1. CASE OpenPending(p) \/ WritePending(p) \/ RenamePending(p)
    <3>1. /\ UNCHANGED <<boot, bound, stopping, asker, next_id, reserved_until>>
          /\ phase[p] \notin {"idle", "take"}
          /\ \E step \in {"write", "rename", "sync"} : phase' = [phase EXCEPT ![p] = step]
      BY <2>1 DEF OpenPending, WritePending, RenamePending
    <3>2. QED BY <3>1 DEF TypeOK
  <2>2. CASE CommitReservation(p)
    <3>1. /\ phase[p] = "sync" /\ UNCHANGED <<bound, stopping, asker>>
          /\ \/ /\ asker[p] = "boot" /\ phase' = [phase EXCEPT ![p] = "idle"]
                /\ boot' = [boot EXCEPT ![p] = "bind"]
             \/ /\ asker[p] # "boot" /\ phase' = [phase EXCEPT ![p] = "take"]
                /\ UNCHANGED boot
          /\ next_id' = [next_id EXCEPT ![p] = start[p]]
          /\ reserved_until' = [reserved_until EXCEPT ![p] = start[p] + Block]
      BY <2>2 DEF CommitReservation, memVars
    <3>2. BoundInv' /\ PhaseInv'
      BY <3>1 DEF TypeOK
    <3>3. EmptyInv'
      BY <3>1 DEF TypeOK
    <3>4. QED BY <3>2, <3>3
  <2>3. CASE ReservationIoError(p)
    <3>1. /\ UNCHANGED <<bound, stopping, asker, next_id, reserved_until>>
          /\ phase[p] # "idle" /\ phase' = [phase EXCEPT ![p] = "idle"]
          /\ IF asker[p] = "boot" THEN ReturnFromRun(p) ELSE UNCHANGED <<lock_holder, boot>>
      BY <2>3 DEF ReservationIoError, ReservationFailed
    <3>2. CASE asker[p] = "boot"
      <4>1. p \notin bound
        BY <3>1, <3>2
      <4>2. QED BY <3>1, <3>2, <4>1, ReturnKeepsRun DEF TypeOK
    <3>3. CASE asker[p] # "boot"
      BY <3>1, <3>3 DEF TypeOK
    <3>4. QED BY <3>2, <3>3
  <2>4. QED BY <1>4, <2>1, <2>2, <2>3 DEF ReserveStep
<1>5. ASSUME NEW p \in Procs, SpawnStep(p) PROVE RunInv'
  <2>1. CASE ReserveForSpawn(p)
    <3>1. /\ ReadHighWater(p, "spawn") /\ boot[p] = "serve" /\ phase[p] = "idle"
          /\ UNCHANGED <<bound, stopping, next_id, reserved_until>>
      BY <2>1, SpawnerServes DEF ReserveForSpawn, CanSpawn
    <3>2. CASE /\ UNCHANGED <<lock_holder, boot>>
               /\ phase' = [phase EXCEPT ![p] = "open"]
               /\ asker' = [asker EXCEPT ![p] = "spawn"]
      BY <3>1, <3>2 DEF TypeOK
    <3>3. CASE /\ UNCHANGED <<lock_holder, boot>>
               /\ phase' = [phase EXCEPT ![p] = "idle"]
               /\ UNCHANGED asker
      BY <3>1, <3>3 DEF TypeOK
    <3>4. QED BY <3>1, <3>2, <3>3, ReadHighWaterBoot
  <2>2. CASE TakeId(p)
    <3>1. /\ UNCHANGED <<boot, bound, stopping, asker, reserved_until>>
          /\ phase' = [phase EXCEPT ![p] = "idle"]
          /\ next_id' = [next_id EXCEPT ![p] = next_id[p] + 1]
          /\ phase[p] = "take" \/ CanSpawn(p)
      BY <2>2 DEF TakeId
    <3>2. boot[p] = "serve"
      BY <3>1, SpawnerServes
    <3>3. QED BY <3>1, <3>2 DEF TypeOK
  <2>3. QED BY <1>5, <2>1, <2>2 DEF SpawnStep
<1>6. ASSUME NEW p \in Procs, Launch(p) \/ StopHost(p) \/ AcceptFails(p) \/ Crash(p)
      PROVE  RunInv'
  <2>1. CASE Launch(p)
    BY <2>1 DEF Launch, TypeOK
  <2>2. CASE StopHost(p)
    BY <2>2 DEF StopHost, TypeOK
  <2>3. CASE AcceptFails(p)
    BY <2>3 DEF AcceptFails, HostsOnly
  <2>4. CASE Crash(p)
    BY <2>4 DEF Crash, ProcessesDie, TypeOK
  <2>5. QED BY <1>6, <2>1, <2>2, <2>3, <2>4
<1>7. CASE UNCHANGED vars
  BY <1>1, <1>7
<1>8. QED BY <1>2, <1>3, <1>4, <1>5, <1>6, <1>7 DEF Next

-----------------------------------------------------------------------------
(* Host children only: marks, blocks and ids *)

\* Without embedded daemons only the holder of the lock reserves ids.
LEMMA OneReserver ==
  ASSUME TypeOK, ServingInv, RunInv, NEW p \in Procs, NEW q \in Procs,
         phase[p] # "idle" \/ boot[p] \in {"reserve", "serve"},
         phase[q] # "idle" \/ boot[q] \in {"reserve", "serve"}
  PROVE  p = q /\ lock_holder = p
BY DEF ServingInv, LockInv, RunInv, PhaseInv, Owning

\* The lock passes on, or back to NoProc: only a process without ids gets it.
LEMMA LockMoves ==
  ASSUME TypeOK, DiskInv, NEW p \in Procs,
         UNCHANGED <<next_id, reserved_until, resvVars, diskVars, issued>>,
         \/ lock_holder' \in {lock_holder, NoProc}
         \/ lock_holder' = p /\ next_id[p] = 0 /\ reserved_until[p] = 0
  PROVE  DiskInv'
<1>1. ReservationInv' /\ MarkInv' /\ BlockInv' /\ IssuedBelowMark'
  BY DEF DiskInv, ReservationInv, MarkInv, BlockInv, IssuedBelowMark
<1>2. IssuedBelowNext'
  BY ProcsAssumption DEF DiskInv, IssuedBelowNext
<1>3. QED BY <1>1, <1>2 DEF DiskInv

\* What ReadHighWater does to the reservation: a new one starts at a mark that
\* is not below either mark on disk, or none is left.
LEMMA ReadHighWaterDisk ==
  ASSUME TypeOK, DiskInv, NEW p \in Procs, NEW who \in {"boot", "spawn"},
         ReadHighWater(p, who)
  PROVE  \/ /\ phase' = [phase EXCEPT ![p] = "open"]
            /\ UNCHANGED <<fd, lock_holder>>
            /\ \E from \in Nat : /\ start' = [start EXCEPT ![p] = from]
                                 /\ high_water <= from /\ durable <= from
         \/ /\ phase' = [phase EXCEPT ![p] = "idle"]
            /\ fd' = [fd EXCEPT ![p] = "closed"]
            /\ UNCHANGED start
            /\ lock_holder' \in {lock_holder, NoProc}
<1> DEFINE mark == IF high_water = NoFile THEN First ELSE high_water
           from == IF mark < First THEN First ELSE mark
<1>1. high_water # Torn => from \in Nat /\ high_water <= from /\ durable <= from
  <2>1. /\ First \in Nat /\ durable <= high_water
        /\ high_water \in Int /\ durable \in Int
        /\ high_water # Torn => high_water \in Nat \/ high_water = -1
    BY IdsAssumption, MarkTypes DEF DiskInv, MarkInv
  <2>2. QED BY <2>1 DEF NoFile
<1>2. CASE ReservationFailed(p, who)
  BY <1>2 DEF ReservationFailed, ReturnFromRun
<1>3. CASE ~ReservationFailed(p, who)
  <2>1. /\ high_water # Torn
        /\ phase' = [phase EXCEPT ![p] = "open"]
        /\ start' = [start EXCEPT ![p] = from]
        /\ UNCHANGED <<fd, lock_holder>>
    BY <1>3 DEF ReadHighWater
  <2> HIDE DEF from
  <2>2. QED BY <1>1, <2>1
<1>4. QED BY <1>2, <1>3

\* A reservation that starts or fails keeps DiskInv.
LEMMA ReadHighWaterKeepsDisk ==
  ASSUME TypeOK, DiskInv, NEW p \in Procs, NEW who \in {"boot", "spawn"},
         ReadHighWater(p, who), phase[p] = "idle",
         UNCHANGED <<next_id, reserved_until, diskVars, issued>>
  PROVE  DiskInv'
<1>1. BlockInv' /\ MarkInv' /\ IssuedBelowMark'
  BY ReadHighWaterDisk DEF TypeOK, DiskInv, BlockInv, MarkInv, IssuedBelowMark
<1>2. IssuedBelowNext'
  BY ReadHighWaterDisk, ProcsAssumption DEF DiskInv, IssuedBelowNext
<1>3. ReservationInv'
  BY ReadHighWaterDisk DEF TypeOK, DiskInv, ReservationInv
<1>4. QED BY <1>1, <1>2, <1>3 DEF DiskInv

\* The files on disk stay ahead of the ids given out, step by step of a
\* reservation.
LEMMA DiskInvStep ==
  HostsOnly /\ TypeOK /\ TypeOK' /\ ServingInv /\ RunInv /\ DiskInv /\ [Next]_vars
    => DiskInv'
<1> SUFFICES ASSUME HostsOnly, TypeOK, TypeOK', ServingInv, RunInv, DiskInv, [Next]_vars
             PROVE  DiskInv'
  OBVIOUS
<1>1. ASSUME NEW p \in Procs, RunStep(p) PROVE DiskInv'
  <2>1. CASE AcquireInstanceLock(p)
    BY <2>1, LockMoves DEF AcquireInstanceLock, ReturnFromRun, RunInv, EmptyInv
  <2>2. CASE ConnectProbe(p)
    BY <2>2, LockMoves DEF ConnectProbe, ReturnFromRun
  <2>3. CASE RemoveStaleSocket(p)
    BY <2>3, LockMoves DEF RemoveStaleSocket
  <2>4. CASE ReserveAtBoot(p)
    <3>1. /\ ReadHighWater(p, "boot") /\ phase[p] = "idle"
          /\ UNCHANGED <<next_id, reserved_until, diskVars, issued>>
      BY <2>4 DEF ReserveAtBoot
    <3>2. QED BY <3>1, ReadHighWaterKeepsDisk
  <2>5. CASE Bind(p)
    BY <2>5, LockMoves DEF Bind, ReturnFromRun
  <2>6. CASE AcceptLoopStops(p)
    BY <2>6, LockMoves DEF AcceptLoopStops
  <2>7. CASE RemoveSocket(p)
    BY <2>7, LockMoves DEF RemoveSocket
  <2>8. CASE Release(p)
    BY <2>8, LockMoves DEF Release, ReturnFromRun
  <2>9. CASE StartFails(p)
    BY <2>9, LockMoves DEF StartFails, ReturnFromRun
  <2>10. QED
    BY <1>1, <2>1, <2>2, <2>3, <2>4, <2>5, <2>6, <2>7, <2>8, <2>9 DEF RunStep
<1>2. CASE \E p \in Procs : OpenPending(p)
  <2>1. PICK p \in Procs : OpenPending(p)
    BY <1>2
  <2>2. \A q \in Procs : q # p => phase[q] = "idle"
    BY <2>1, OneReserver DEF OpenPending
  <2>3. ReservationInv'
    BY <2>1, <2>2 DEF OpenPending, TypeOK, DiskInv, ReservationInv
  <2>4. QED BY <2>1, <2>3
            DEF OpenPending, TypeOK, DiskInv, MarkInv, BlockInv, IssuedBelowMark, IssuedBelowNext
<1>3. CASE \E p \in Procs : WritePending(p)
  <2>1. PICK p \in Procs : WritePending(p)
    BY <1>3
  <2>2. \A q \in Procs : q # p => phase[q] = "idle"
    BY <2>1, OneReserver DEF WritePending
  <2>3. /\ phase[p] = "write" /\ fd[p] = "pending"
        /\ pending' = start[p] + Block /\ phase' = [phase EXCEPT ![p] = "rename"]
        /\ UNCHANGED <<high_water, durable, start, fd, lock_holder, next_id,
                      reserved_until, issued>>
    BY <2>1 DEF WritePending, DiskInv, ReservationInv
  <2>4. ReservationInv'
    BY <2>2, <2>3 DEF TypeOK, DiskInv, ReservationInv
  <2>5. QED BY <2>3, <2>4
            DEF TypeOK, DiskInv, MarkInv, BlockInv, IssuedBelowMark, IssuedBelowNext
<1>4. CASE \E p \in Procs : RenamePending(p)
  <2>1. PICK p \in Procs : RenamePending(p)
    BY <1>4
  <2>2. \A q \in Procs : q # p => phase[q] = "idle"
    BY <2>1, OneReserver DEF RenamePending
  <2>3. /\ phase[p] = "rename" /\ phase' = [phase EXCEPT ![p] = "sync"]
        /\ high_water' = start[p] + Block
        /\ start[p] \in Nat /\ durable <= start[p]
        /\ UNCHANGED <<durable, start, lock_holder, next_id, reserved_until, issued>>
    BY <2>1, IdTypes DEF RenamePending, DiskInv, ReservationInv
  <2>4. ReservationInv'
    BY <2>2, <2>3 DEF TypeOK, DiskInv, ReservationInv
  <2>5. MarkInv'
    <3>1. durable \in Int /\ durable # Torn
      BY MarkTypes DEF DiskInv, MarkInv
    <3>2. QED BY <2>3, <3>1, IdsAssumption DEF MarkInv, Torn
  <2>6. QED BY <2>3, <2>4, <2>5
            DEF TypeOK, DiskInv, BlockInv, IssuedBelowMark, IssuedBelowNext
<1>5. CASE \E p \in Procs : CommitReservation(p)
  <2>1. PICK p \in Procs : CommitReservation(p)
    BY <1>5
  <2>2. \A q \in Procs : q # p => phase[q] = "idle" /\ lock_holder # q
    BY <2>1, OneReserver DEF CommitReservation
  <2>3. /\ phase[p] = "sync" /\ \E s \in {"idle", "take"} : phase' = [phase EXCEPT ![p] = s]
        /\ high_water = start[p] + Block /\ durable' = high_water
        /\ next_id' = [next_id EXCEPT ![p] = start[p]]
        /\ reserved_until' = [reserved_until EXCEPT ![p] = start[p] + Block]
        /\ start[p] \in Nat /\ durable <= start[p]
        /\ UNCHANGED <<high_water, start, lock_holder, issued>>
    BY <2>1, IdTypes DEF CommitReservation, DiskInv, ReservationInv
  <2>4. durable \in Int /\ durable <= durable' /\ durable' \in Nat
    <3>1. durable \in Int /\ start[p] + Block \in Nat /\ start[p] <= start[p] + Block
      BY <2>3, MarkTypes, IdsAssumption
    <3>2. QED BY <2>3, <3>1
  <2>5. ReservationInv'
    <3>1. \A q \in Procs : phase'[q] \in {"idle", "take"}
      BY <2>2, <2>3 DEF TypeOK
    <3>2. QED BY <3>1 DEF ReservationInv
  <2>6. MarkInv'
    BY <2>3, <2>4 DEF MarkInv, Torn
  <2>7. BlockInv'
    <3>1. ASSUME NEW q \in Procs, q # p
          PROVE  /\ next_id'[q] <= reserved_until'[q]
                 /\ phase'[q] = "take" => next_id'[q] < reserved_until'[q]
                 /\ next_id'[q] < reserved_until'[q] => reserved_until'[q] <= durable'
      <4>1. /\ next_id'[q] = next_id[q] /\ reserved_until'[q] = reserved_until[q]
            /\ phase'[q] = "idle" /\ reserved_until[q] \in Nat
        BY <2>2, <2>3, <3>1, IdTypes DEF TypeOK
      <4>2. QED BY <2>4, <4>1 DEF DiskInv, BlockInv
    <3>2. next_id'[p] = start[p] /\ reserved_until'[p] = start[p] + Block
      BY <2>3 DEF TypeOK
    <3>3. QED BY <2>3, <3>1, <3>2, IdsAssumption DEF BlockInv
  <2>8. IssuedBelowMark'
    <3>1. \A q \in Procs : \A id \in issued[q] : id \in Nat /\ id < durable
      BY IssuedType DEF DiskInv, IssuedBelowMark
    <3>2. QED BY <2>3, <2>4, <3>1 DEF IssuedBelowMark
  <2>9. IssuedBelowNext'
    <3>1. \A q \in Procs : \A id \in issued[q] : id \in Nat /\ id < start[p]
      BY <2>3, <2>4, IssuedType DEF DiskInv, IssuedBelowMark
    <3>2. next_id'[p] = start[p]
      BY <2>3 DEF TypeOK
    <3>3. QED BY <2>2, <2>3, <3>1, <3>2 DEF IssuedBelowNext
  <2>10. QED BY <2>5, <2>6, <2>7, <2>8, <2>9 DEF DiskInv
<1>6. CASE \E p \in Procs : ReservationIoError(p)
  <2>1. PICK p \in Procs : ReservationIoError(p)
    BY <1>6
  <2>2. /\ phase' = [phase EXCEPT ![p] = "idle"] /\ fd' = [fd EXCEPT ![p] = "closed"]
        /\ lock_holder' \in {lock_holder, NoProc}
        /\ UNCHANGED <<start, high_water, pending, durable, next_id, reserved_until, issued>>
    BY <2>1 DEF ReservationIoError, ReservationFailed, ReturnFromRun
  <2>3. ReservationInv'
    BY <2>2 DEF TypeOK, DiskInv, ReservationInv
  <2>4. MarkInv' /\ BlockInv' /\ IssuedBelowMark'
    BY <2>2 DEF TypeOK, DiskInv, MarkInv, BlockInv, IssuedBelowMark
  <2>5. IssuedBelowNext'
    BY <2>2, ProcsAssumption DEF DiskInv, IssuedBelowNext
  <2>6. QED BY <2>3, <2>4, <2>5 DEF DiskInv
<1>7. CASE \E p \in Procs : ReserveForSpawn(p)
  <2>1. PICK p \in Procs : ReserveForSpawn(p)
    BY <1>7
  <2>2. /\ ReadHighWater(p, "spawn") /\ phase[p] = "idle"
        /\ UNCHANGED <<next_id, reserved_until, diskVars, issued>>
    BY <2>1 DEF ReserveForSpawn, CanSpawn
  <2>3. QED BY <2>2, ReadHighWaterKeepsDisk
<1>8. CASE \E p \in Procs : TakeId(p)
  <2>1. PICK p \in Procs : TakeId(p)
    BY <1>8
  <2>2. lock_holder = p /\ next_id[p] < reserved_until[p]
    <3>1. phase[p] # "idle" \/ boot[p] \in {"reserve", "serve"}
      BY <2>1, SpawnerServes DEF TakeId
    <3>2. next_id[p] \in Nat /\ reserved_until[p] \in Nat
      BY IdTypes
    <3>3. QED BY <2>1, <3>1, <3>2, OneReserver DEF TakeId, DiskInv, BlockInv
  <2>3. /\ next_id' = [next_id EXCEPT ![p] = next_id[p] + 1]
        /\ phase' = [phase EXCEPT ![p] = "idle"]
        /\ issued' \in {issued, [issued EXCEPT ![p] = issued[p] \cup {next_id[p]}]}
        /\ UNCHANGED <<lock_holder, reserved_until, start, fd, diskVars>>
    BY <2>1 DEF TakeId
  <2>4. /\ next_id[p] \in Nat /\ reserved_until[p] \in Nat
        /\ reserved_until[p] <= durable /\ durable \in Int
    BY <2>2, IdTypes, MarkTypes DEF DiskInv, BlockInv
  <2>5. \A q \in Procs : \A id \in issued'[q] :
           id \in Nat /\ (id = next_id[p] \/ id \in issued[q])
    <3>1. issued \in [Procs -> SUBSET Nat]
      BY DEF TypeOK
    <3>2. CASE issued' = issued
      BY <3>2, IssuedType
    <3>3. CASE issued' = [issued EXCEPT ![p] = issued[p] \cup {next_id[p]}]
      BY <2>4, <3>1, <3>3, IssuedType
    <3>4. QED BY <2>3, <3>2, <3>3
  <2>6. ReservationInv' /\ MarkInv'
    BY <2>3 DEF TypeOK, DiskInv, ReservationInv, MarkInv
  <2>7. BlockInv'
    <3>1. next_id'[p] = next_id[p] + 1 /\ phase'[p] = "idle"
          /\ \A q \in Procs : q # p => next_id'[q] = next_id[q] /\ phase'[q] = phase[q]
      BY <2>3 DEF TypeOK
    <3>2. QED BY <2>2, <2>3, <2>4, <3>1 DEF DiskInv, BlockInv
  <2>8. IssuedBelowMark'
    BY <2>2, <2>3, <2>4, <2>5 DEF DiskInv, IssuedBelowMark
  <2>9. IssuedBelowNext'
    <3>1. \A q \in Procs : \A id \in issued'[q] : id < next_id[p] + 1
      BY <2>2, <2>4, <2>5 DEF DiskInv, IssuedBelowNext
    <3>2. next_id'[p] = next_id[p] + 1
      BY <2>3 DEF TypeOK
    <3>3. QED BY <2>2, <2>3, <3>1, <3>2 DEF IssuedBelowNext
  <2>10. QED BY <2>6, <2>7, <2>8, <2>9 DEF DiskInv
<1>9. ASSUME NEW ps \in SUBSET Procs, ProcessesDie(ps),
             \/ high_water' = durable' /\ durable' \in {durable, high_water}
             \/ UNCHANGED <<high_water, durable, pending>>,
             \A p \in Procs \ ps : phase[p] = "idle" \/ UNCHANGED <<high_water, durable, pending>>,
             \A p \in Procs \ ps : \/ next_id[p] = 0 /\ reserved_until[p] = 0
                                 \/ UNCHANGED <<high_water, durable, pending>>
      PROVE  DiskInv'
  <2>1. /\ \A p \in Procs : /\ phase'[p] = IF p \in ps THEN "idle" ELSE phase[p]
                            /\ fd'[p] = IF p \in ps THEN "closed" ELSE fd[p]
                            /\ start'[p] = IF p \in ps THEN 0 ELSE start[p]
                            /\ next_id'[p] = IF p \in ps THEN 0 ELSE next_id[p]
                            /\ reserved_until'[p] = IF p \in ps THEN 0 ELSE reserved_until[p]
        /\ lock_holder' \in {lock_holder, NoProc} /\ issued' = issued
    BY <1>9 DEF ProcessesDie
  <2>2. /\ durable \in Int /\ high_water \in Int /\ durable' \in Int
        /\ durable <= high_water /\ durable <= durable' /\ durable' <= high_water'
        /\ durable' # Torn /\ high_water' # Torn
    <3>1. /\ durable \in Int /\ high_water \in Int /\ durable <= high_water
          /\ durable # Torn /\ high_water # Torn
      BY MarkTypes DEF DiskInv, MarkInv
    <3>2. QED BY <1>9, <3>1
  <2>3. ReservationInv'
    BY <1>9, <2>1 DEF DiskInv, ReservationInv
  <2>4. BlockInv'
    BY <1>9, <2>1 DEF DiskInv, BlockInv
  <2>5. IssuedBelowMark'
    <3>1. \A q \in Procs : \A id \in issued[q] : id \in Nat /\ id < durable
      BY IssuedType DEF DiskInv, IssuedBelowMark
    <3>2. QED BY <2>1, <2>2, <3>1 DEF IssuedBelowMark
  <2>6. IssuedBelowNext'
    BY <2>1, ProcsAssumption DEF DiskInv, IssuedBelowNext
  <2>7. QED BY <2>2, <2>3, <2>4, <2>5, <2>6 DEF DiskInv, MarkInv
<1>10. CASE PowerLoss
  <2>1. \A p \in Procs \ Running :
           phase[p] = "idle" /\ next_id[p] = 0 /\ reserved_until[p] = 0
    BY DEF Running, RunInv, PhaseInv, EmptyInv
  <2>2. high_water' = durable' /\ durable' \in {durable, high_water}
    BY <1>10 DEF PowerLoss
  <2>3. ProcessesDie(Running) /\ Running \in SUBSET Procs
    BY <1>10 DEF PowerLoss, Running
  <2>4. QED BY <1>9, <2>1, <2>2, <2>3
<1>11. CASE \E p \in Procs : Crash(p)
  <2>1. PICK p \in Procs : Crash(p)
    BY <1>11
  <2>2. ProcessesDie({p}) /\ UNCHANGED <<high_water, durable, pending>>
    BY <2>1 DEF Crash
  <2>3. QED BY <1>9, <2>2
<1>12. CASE \E p \in Procs : Launch(p) \/ StopHost(p) \/ AcceptFails(p)
  BY <1>12, LockMoves DEF Launch, StopHost, AcceptFails
<1>13. CASE UNCHANGED vars
  BY <1>13 DEF DiskInv, ReservationInv, MarkInv, BlockInv, IssuedBelowMark, IssuedBelowNext
<1>14. QED
  BY <1>1, <1>2, <1>3, <1>4, <1>5, <1>6, <1>7, <1>8, <1>10, <1>11, <1>12, <1>13
  DEF Next, ReserveStep, SpawnStep

\* A spawn only ever hands out an id above all the ids handed out before.
LEMMA IssuesAreFresh ==
  ASSUME HostsOnly, IInv, [Next]_vars
  PROVE  \/ UNCHANGED issued
         \/ \E p \in Procs : \E id \in Nat :
              /\ issued' = [issued EXCEPT ![p] = issued[p] \cup {id}]
              /\ \A q \in Procs : \A old \in issued[q] : old \in Nat /\ old < id
<1> USE DEF IInv
<1>1. CASE \E p \in Procs : TakeId(p)
  <2>1. PICK p \in Procs : TakeId(p)
    BY <1>1
  <2>2. phase[p] # "idle" \/ boot[p] \in {"reserve", "serve"}
    BY <2>1, SpawnerServes DEF TakeId
  <2>3. next_id[p] \in Nat /\ reserved_until[p] \in Nat
    BY IdTypes
  <2>4. lock_holder = p /\ next_id[p] < reserved_until[p]
    BY <2>1, <2>2, <2>3, OneReserver DEF TakeId, DiskInv, BlockInv
  <2>5. \A q \in Procs : \A old \in issued[q] : old \in Nat /\ old < next_id[p]
    BY <2>4, IssuedType DEF DiskInv, IssuedBelowNext
  <2>6. issued' \in {issued, [issued EXCEPT ![p] = issued[p] \cup {next_id[p]}]}
    BY <2>1 DEF TakeId
  <2>7. QED BY <2>3, <2>5, <2>6
<1>2. CASE ~\E p \in Procs : TakeId(p)
  BY <1>2
  DEF Next, PowerLoss, ProcessesDie, RunStep, ReserveStep, SpawnStep, Launch, StopHost,
      AcceptFails, Crash, AcquireInstanceLock, ConnectProbe, RemoveStaleSocket,
      ReserveAtBoot, Bind, StartFails, AcceptLoopStops, RemoveSocket, Release, OpenPending,
      WritePending, RenamePending, CommitReservation, ReservationIoError, ReserveForSpawn
<1>3. QED BY <1>1, <1>2

\* The invariant is inductive.
LEMMA IInvInductive == HostsOnly /\ IInv /\ [Next]_vars => IInv'
<1> SUFFICES ASSUME HostsOnly, IInv, [Next]_vars PROVE IInv'
  OBVIOUS
<1>1. TypeOK'
  BY TypeStep DEF IInv
<1>2. QED BY <1>1, ServingStep, RunInvStep, DiskInvStep DEF IInv

\* It holds before any process has started.
LEMMA InitIInv == HostsOnly /\ Init => IInv
<1> SUFFICES ASSUME HostsOnly, Init PROVE IInv
  OBVIOUS
<1>1. TypeOK
  BY ProcsAssumption DEF Init, TypeOK, BootSteps, Content, NoFile
<1>2. ServingInv
  BY DEF Init, ServingInv, LockInv, AskerInv, ServingReachable, Owning
<1>3. RunInv
  BY DEF Init, RunInv, BoundInv, PhaseInv, EmptyInv
<1>4. DiskInv
  BY DEF Init, DiskInv, ReservationInv, MarkInv, BlockInv, IssuedBelowMark,
         IssuedBelowNext, NoFile, Torn
<1>5. QED BY <1>1, <1>2, <1>3, <1>4 DEF IInv

\* It holds in every reachable state of the host children.
LEMMA IInvHolds ==
  ASSUME HostsOnly
  PROVE  Spec => []IInv
<1>1. Init => IInv
  BY InitIInv
<1>2. IInv /\ [Next]_vars => IInv'
  BY IInvInductive
<1>3. QED BY <1>1, <1>2, PTL DEF Spec

\* No id is given out before the mark that excludes it survives a power loss.
THEOREM MarkBeforeUse ==
  ASSUME HostsOnly
  PROVE  Spec => []DurableAboveIssued
<1>1. IInv => DurableAboveIssued
  <2> SUFFICES ASSUME IInv PROVE DurableAboveIssued
    OBVIOUS
  <2>1. \A p \in Procs : \A id \in issued[p] : id \in Nat /\ id < durable
    BY IssuedType DEF IInv, DiskInv, IssuedBelowMark
  <2>2. durable \in Int
    BY MarkTypes DEF IInv
  <2>3. QED BY <2>1, <2>2 DEF DurableAboveIssued, NoFile, Torn
<1>2. QED BY <1>1, IInvHolds, PTL

\* A half-written mark is never visible under the name every later host reads:
\* one would make every later reservation, and so every later host, fail.
HighWaterReadable == high_water # Torn /\ durable # Torn

\* No crash or power loss leaves a torn mark where later hosts read it.
THEOREM MarkNeverTorn ==
  ASSUME HostsOnly
  PROVE  Spec => []HighWaterReadable
<1>1. IInv => HighWaterReadable
  BY DEF IInv, DiskInv, MarkInv, HighWaterReadable
<1>2. QED BY <1>1, IInvHolds, PTL

\* No two host processes ever give the same numeric id to a session.
THEOREM IdsNeverReused ==
  ASSUME HostsOnly
  PROVE  Spec => []IdsUnique
<1>1. Init => IdsUnique
  BY DEF Init, IdsUnique
<1>2. IInv /\ IdsUnique /\ [Next]_vars => IdsUnique'
  <2> SUFFICES ASSUME IInv, IdsUnique, [Next]_vars PROVE IdsUnique'
    OBVIOUS
  <2>1. CASE UNCHANGED issued
    BY <2>1 DEF IdsUnique
  <2>2. ASSUME NEW p \in Procs, NEW id \in Nat,
               issued' = [issued EXCEPT ![p] = issued[p] \cup {id}],
               \A q \in Procs : \A old \in issued[q] : old \in Nat /\ old < id
        PROVE  IdsUnique'
    <3>1. \A q \in Procs : id \notin issued[q]
      BY <2>2
    <3>2. \A q \in Procs : issued'[q] = IF q = p THEN issued[p] \cup {id} ELSE issued[q]
      BY <2>2 DEF IInv, TypeOK
    <3>3. QED BY <3>1, <3>2 DEF IdsUnique
  <2>3. QED BY <2>1, <2>2, IssuesAreFresh
<1>3. QED BY <1>1, <1>2, IInvHolds, PTL DEF Spec

\* The host processes together implement FreshIds: every id is above all the
\* ids that any of them gave out before.
THEOREM ImplementsFreshIds ==
  ASSUME HostsOnly
  PROVE  Spec => FreshIdsSpec
<1>1. Init => Ids!Init
  BY DEF Init, Ids!Init, AllIssued
<1>2. IInv /\ [Next]_vars => [Ids!Issue]_AllIssued
  <2> SUFFICES ASSUME IInv, [Next]_vars PROVE [Ids!Issue]_AllIssued
    OBVIOUS
  <2>1. CASE UNCHANGED issued
    BY <2>1 DEF AllIssued
  <2>2. ASSUME NEW p \in Procs, NEW id \in Nat,
               issued' = [issued EXCEPT ![p] = issued[p] \cup {id}],
               \A q \in Procs : \A old \in issued[q] : old \in Nat /\ old < id
        PROVE  Ids!Issue
    <3>1. \A q \in Procs : issued'[q] = IF q = p THEN issued[p] \cup {id} ELSE issued[q]
      BY <2>2 DEF IInv, TypeOK
    <3>2. AllIssued' = AllIssued \cup {id}
      BY <3>1 DEF AllIssued
    <3>3. \A old \in AllIssued : old \in Nat /\ old < id
      BY <2>2 DEF AllIssued
    <3>4. id \in AllIssued' \ AllIssued
      BY <3>2, <3>3
    <3>5. QED BY <3>2, <3>3, <3>4 DEF Ids!Issue
  <2>3. QED BY <2>1, <2>2, IssuesAreFresh
<1>3. QED BY <1>1, <1>2, IInvHolds, PTL DEF Spec, Ids!Spec, FreshIdsSpec
=============================================================================
