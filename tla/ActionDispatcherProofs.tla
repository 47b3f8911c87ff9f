----------------------- MODULE ActionDispatcherProofs -----------------------
(***************************************************************************)
(* Proofs about ActionDispatcher, for every fleet, every number of clients *)
(* and workers, and every bound on faults and restarts.                    *)
(***************************************************************************)
EXTENDS ActionDispatcher, TLAPS

(* A thread in the middle of something holds a job whose row exists, and a *)
(* client past validate() knows its device.                                *)
ThreadsHoldRows ==
    /\ \A c \in Clients : client[c].at # "idle" => client[c].device \in Devices
    /\ \A c \in Clients : HeldByClient(c) => client[c].job \in JobIds
    /\ \A w \in Workers : worker[w].at \in {"idle", "dead"} <=> worker[w].job = NoJob
    /\ \A w \in Workers : worker[w].at = "settled" => status[worker[w].job] \in Terminal
    /\ \A j \in JobIds : status[j] # "absent" => device[j] \in Devices

(* Who is between acquiring and releasing a lock holds it.                 *)
LocksHeld ==
    /\ \A w \in Workers : worker[w].at \in Executing => locks[device[worker[w].job]] = w
    /\ \A c \in Clients : client[c].at = "admitted" <=> enqueue_lock = c

(* What validate() found is still so when the INSERT runs: enqueue_lock    *)
(* keeps every other INSERT out, and nothing else makes a row pending.     *)
AdmissionHolds ==
    faults = 0 => /\ available
                  /\ \A c \in Clients : client[c].at = "admitted" /\ client[c].exclusive
                                        => PendingOn(client[c].device) = {}

(* The inductive invariant behind the safety theorems.                     *)
IInv == TypeOK /\ ThreadsHoldRows /\ LocksHeld /\ EachJobHeldOnce

-----------------------------------------------------------------------------
USE JobsAssumption, DispatcherAssumption
    DEF ClientAt, WorkerAt, Executing, HeldByClient, HeldByWorker,
        Statuses, Pending, Terminal, jobVars, threadVars

LEMMA InitInv == DispatcherInit => IInv
<1> SUFFICES ASSUME DispatcherInit PROVE IInv
  OBVIOUS
<1> USE DEF DispatcherInit, Init, IdleClient, IdleWorker
<1>1. TypeOK
  <2>1. JobsTypeOK
    BY DEF JobsTypeOK
  <2>2. client \in [Clients -> [at : ClientAt, job : JobIds \cup {NoJob},
                                device : Devices \cup {NoDevice}, exclusive : BOOLEAN]]
    OBVIOUS
  <2>3. worker \in [Workers -> [at : WorkerAt, job : JobIds \cup {NoJob}]]
    OBVIOUS
  <2>4. faults \in 0..MaxFaults /\ restarts \in 0..MaxRestarts /\ queue \in Seq(JobIds)
    OBVIOUS
  <2>5. QED BY <2>1, <2>2, <2>3, <2>4 DEF TypeOK
<1>2. ThreadsHoldRows
  BY DEF ThreadsHoldRows
<1>3. LocksHeld
  BY DEF LocksHeld
<1>4. EachJobHeldOnce
  BY DEF EachJobHeldOnce, HeldRowsQueued, HeldAlone
<1>5. QED BY <1>1, <1>2, <1>3, <1>4 DEF IInv

LEMMA ValidateInv ==
  ASSUME IInv, NEW c \in Clients, NEW d \in Devices, NEW x \in BOOLEAN, Validate(c, d, x)
  PROVE  IInv'
<1> USE DEF IInv, Validate, IdleClient
<1>1. TypeOK'
  BY DEF TypeOK, JobsTypeOK, ThreadsHoldRows
<1>2. ThreadsHoldRows'
  BY DEF TypeOK, JobsTypeOK, ThreadsHoldRows, EachJobHeldOnce, HeldRowsQueued, HeldAlone
<1>3. LocksHeld'
  BY DEF TypeOK, JobsTypeOK, ThreadsHoldRows, LocksHeld, EachJobHeldOnce, HeldRowsQueued, HeldAlone
<1>4. HeldRowsQueued'
  BY DEF TypeOK, JobsTypeOK, ThreadsHoldRows, EachJobHeldOnce, HeldRowsQueued, HeldAlone
<1>5. HeldAlone'
  BY DEF TypeOK, JobsTypeOK, ThreadsHoldRows, EachJobHeldOnce, HeldRowsQueued, HeldAlone
<1>6. QED BY <1>1, <1>2, <1>3, <1>4, <1>5 DEF EachJobHeldOnce

LEMMA ValidateUnreadInv ==
  ASSUME IInv, NEW c \in Clients, NEW d \in Devices, NEW x \in BOOLEAN,
         ValidateUnread(c, d, x)
  PROVE  IInv'
<1> USE DEF IInv, ValidateUnread, Raised, Fault
<1>1. TypeOK'
  BY DEF TypeOK, JobsTypeOK, ThreadsHoldRows
<1>2. ThreadsHoldRows'
  BY DEF TypeOK, JobsTypeOK, ThreadsHoldRows, EachJobHeldOnce, HeldRowsQueued, HeldAlone
<1>3. LocksHeld'
  BY DEF TypeOK, JobsTypeOK, ThreadsHoldRows, LocksHeld, EachJobHeldOnce, HeldRowsQueued, HeldAlone
<1>4. HeldRowsQueued'
  BY DEF TypeOK, JobsTypeOK, ThreadsHoldRows, EachJobHeldOnce, HeldRowsQueued, HeldAlone
<1>5. HeldAlone'
  BY DEF TypeOK, JobsTypeOK, ThreadsHoldRows, EachJobHeldOnce, HeldRowsQueued, HeldAlone
<1>6. QED BY <1>1, <1>2, <1>3, <1>4, <1>5 DEF EachJobHeldOnce

LEMMA InsertJobInv ==
  ASSUME IInv, NEW c \in Clients, NEW j \in JobIds, InsertJob(c, j)
  PROVE  IInv'
<1> USE DEF IInv, InsertJob, Insert, Wrote
<1>1. TypeOK'
  <2>1. JobsTypeOK'
    BY DEF TypeOK, JobsTypeOK, ThreadsHoldRows
  <2>2. client' \in [Clients -> [at : ClientAt, job : JobIds \cup {NoJob},
                                 device : Devices \cup {NoDevice}, exclusive : BOOLEAN]]
    BY DEF TypeOK
  <2>3. QED BY <2>1, <2>2 DEF TypeOK
<1>2. ThreadsHoldRows'
  BY DEF TypeOK, JobsTypeOK, ThreadsHoldRows, EachJobHeldOnce, HeldRowsQueued, HeldAlone
<1>3. LocksHeld'
  <2>1. \A v \in Workers : worker[v].at \in Executing
                           => device'[worker[v].job] = device[worker[v].job]
    BY DEF TypeOK, JobsTypeOK, ThreadsHoldRows, EachJobHeldOnce, HeldRowsQueued
  <2>2. \A v \in Workers : worker'[v].at \in Executing => locks'[device'[worker'[v].job]] = v
    BY <2>1 DEF LocksHeld
  <2>3. \A b \in Clients : client'[b].at = "admitted" <=> enqueue_lock' = b
    BY DEF TypeOK, LocksHeld
  <2>4. QED BY <2>2, <2>3 DEF LocksHeld
<1>4. HeldRowsQueued'
  BY DEF TypeOK, JobsTypeOK, ThreadsHoldRows, EachJobHeldOnce, HeldRowsQueued, HeldAlone
<1>5. HeldAlone'
  BY DEF TypeOK, JobsTypeOK, ThreadsHoldRows, EachJobHeldOnce, HeldRowsQueued, HeldAlone
<1>6. QED BY <1>1, <1>2, <1>3, <1>4, <1>5 DEF EachJobHeldOnce

LEMMA AuditQueuedInv ==
  ASSUME IInv, NEW c \in Clients, AuditQueued(c)
  PROVE  IInv'
<1> USE DEF IInv, AuditQueued, Wrote
<1>1. TypeOK'
  BY DEF TypeOK, JobsTypeOK, ThreadsHoldRows
<1>2. ThreadsHoldRows'
  BY DEF TypeOK, JobsTypeOK, ThreadsHoldRows, EachJobHeldOnce, HeldRowsQueued, HeldAlone
<1>3. LocksHeld'
  BY DEF TypeOK, JobsTypeOK, ThreadsHoldRows, LocksHeld, EachJobHeldOnce, HeldRowsQueued, HeldAlone
<1>4. HeldRowsQueued'
  BY DEF TypeOK, JobsTypeOK, ThreadsHoldRows, EachJobHeldOnce, HeldRowsQueued, HeldAlone
<1>5. HeldAlone'
  BY DEF TypeOK, JobsTypeOK, ThreadsHoldRows, EachJobHeldOnce, HeldRowsQueued, HeldAlone
<1>6. QED BY <1>1, <1>2, <1>3, <1>4, <1>5 DEF EachJobHeldOnce

LEMMA PutInv ==
  ASSUME IInv, NEW c \in Clients, Put(c)
  PROVE  IInv'
<1> USE DEF IInv, Put, IdleClient
<1>1. TypeOK'
  BY DEF TypeOK, JobsTypeOK, ThreadsHoldRows
<1>2. ThreadsHoldRows'
  BY DEF TypeOK, JobsTypeOK, ThreadsHoldRows, EachJobHeldOnce, HeldRowsQueued, HeldAlone
<1>3. LocksHeld'
  BY DEF TypeOK, JobsTypeOK, ThreadsHoldRows, LocksHeld, EachJobHeldOnce, HeldRowsQueued, HeldAlone
<1>4. HeldRowsQueued'
  BY DEF TypeOK, JobsTypeOK, ThreadsHoldRows, EachJobHeldOnce, HeldRowsQueued, HeldAlone
<1>5. HeldAlone'
  BY DEF TypeOK, JobsTypeOK, ThreadsHoldRows, EachJobHeldOnce, HeldRowsQueued, HeldAlone
<1>6. QED BY <1>1, <1>2, <1>3, <1>4, <1>5 DEF EachJobHeldOnce

LEMMA EnqueueRaisesInv ==
  ASSUME IInv, NEW c \in Clients, EnqueueRaises(c)
  PROVE  IInv'
<1> USE DEF IInv, EnqueueRaises, Raised, Fault, IdleClient
<1>1. TypeOK'
  BY DEF TypeOK, JobsTypeOK, ThreadsHoldRows
<1>2. ThreadsHoldRows'
  BY DEF TypeOK, JobsTypeOK, ThreadsHoldRows, EachJobHeldOnce, HeldRowsQueued, HeldAlone
<1>3. LocksHeld'
  BY DEF TypeOK, JobsTypeOK, ThreadsHoldRows, LocksHeld, EachJobHeldOnce, HeldRowsQueued, HeldAlone
<1>4. HeldRowsQueued'
  BY DEF TypeOK, JobsTypeOK, ThreadsHoldRows, EachJobHeldOnce, HeldRowsQueued, HeldAlone
<1>5. HeldAlone'
  BY DEF TypeOK, JobsTypeOK, ThreadsHoldRows, EachJobHeldOnce, HeldRowsQueued, HeldAlone
<1>6. QED BY <1>1, <1>2, <1>3, <1>4, <1>5 DEF EachJobHeldOnce

LEMMA TakeInv ==
  ASSUME IInv, NEW w \in Workers, Take(w)
  PROVE  IInv'
<1> USE DEF IInv, Take
<1>1. TypeOK'
  BY DEF TypeOK, JobsTypeOK, ThreadsHoldRows
<1>2. ThreadsHoldRows'
  BY DEF TypeOK, JobsTypeOK, ThreadsHoldRows, EachJobHeldOnce, HeldRowsQueued, HeldAlone
<1>3. LocksHeld'
  BY DEF TypeOK, JobsTypeOK, ThreadsHoldRows, LocksHeld, EachJobHeldOnce, HeldRowsQueued, HeldAlone
<1>4. HeldRowsQueued'
  BY DEF TypeOK, JobsTypeOK, ThreadsHoldRows, EachJobHeldOnce, HeldRowsQueued, HeldAlone
<1>5. HeldAlone'
  <2>1. queue' \in Seq(JobIds) /\ Len(queue') = Len(queue) - 1
    BY DEF TypeOK
  <2>2. \A n \in 1..Len(queue') : n + 1 \in 1..Len(queue) /\ queue'[n] = queue[n + 1]
    BY <2>1 DEF TypeOK
  <2>3. 1 \in 1..Len(queue) /\ Head(queue) = queue[1] /\ queue[1] \in JobIds
    BY DEF TypeOK
  <2>4. \A v \in Workers : v # w /\ worker[v].job # NoJob => worker[v].job # Head(queue)
    BY <2>3 DEF TypeOK, ThreadsHoldRows, EachJobHeldOnce, HeldRowsQueued, HeldAlone
  <2>5. \A n \in 1..Len(queue') : queue'[n] # Head(queue)
    BY <2>2, <2>3 DEF TypeOK, EachJobHeldOnce, HeldAlone
  <2>6. \A m, n \in 1..Len(queue') : m # n => queue'[m] # queue'[n]
    BY <2>1, <2>2 DEF TypeOK, EachJobHeldOnce, HeldAlone
  <2>7. QED
    BY <2>2, <2>3, <2>4, <2>5, <2>6 DEF TypeOK, ThreadsHoldRows, EachJobHeldOnce, HeldAlone
<1>6. QED BY <1>1, <1>2, <1>3, <1>4, <1>5 DEF EachJobHeldOnce

LEMMA TakeUnreadInv ==
  ASSUME IInv, NEW w \in Workers, TakeUnread(w)
  PROVE  IInv'
<1> USE DEF IInv, TakeUnread, Raised, Fault
<1>1. TypeOK'
  BY DEF TypeOK, JobsTypeOK, ThreadsHoldRows
<1>2. ThreadsHoldRows'
  BY DEF TypeOK, JobsTypeOK, ThreadsHoldRows, EachJobHeldOnce, HeldRowsQueued, HeldAlone
<1>3. LocksHeld'
  BY DEF TypeOK, JobsTypeOK, ThreadsHoldRows, LocksHeld, EachJobHeldOnce, HeldRowsQueued, HeldAlone
<1>4. HeldRowsQueued'
  BY DEF TypeOK, JobsTypeOK, ThreadsHoldRows, EachJobHeldOnce, HeldRowsQueued, HeldAlone
<1>5. HeldAlone'
  BY DEF TypeOK, JobsTypeOK, ThreadsHoldRows, EachJobHeldOnce, HeldRowsQueued, HeldAlone
<1>6. QED BY <1>1, <1>2, <1>3, <1>4, <1>5 DEF EachJobHeldOnce

LEMMA LockDeviceInv ==
  ASSUME IInv, NEW w \in Workers, LockDevice(w)
  PROVE  IInv'
<1> USE DEF IInv, LockDevice
<1>1. TypeOK'
  <2>1. worker' \in [Workers -> [at : WorkerAt, job : JobIds \cup {NoJob}]]
    BY DEF TypeOK, WorkerAt
  <2>2. locks' \in [Devices -> Workers \cup {Free}]
    BY DEF TypeOK
  <2>3. QED BY <2>1, <2>2 DEF TypeOK, JobsTypeOK
<1>2. ThreadsHoldRows'
  BY DEF TypeOK, JobsTypeOK, ThreadsHoldRows, EachJobHeldOnce, HeldRowsQueued, HeldAlone
<1>3. LocksHeld'
  BY DEF TypeOK, JobsTypeOK, ThreadsHoldRows, LocksHeld, EachJobHeldOnce, HeldRowsQueued, HeldAlone
<1>4. HeldRowsQueued'
  BY DEF TypeOK, JobsTypeOK, ThreadsHoldRows, EachJobHeldOnce, HeldRowsQueued, HeldAlone
<1>5. HeldAlone'
  BY DEF TypeOK, JobsTypeOK, ThreadsHoldRows, EachJobHeldOnce, HeldRowsQueued, HeldAlone
<1>6. QED BY <1>1, <1>2, <1>3, <1>4, <1>5 DEF EachJobHeldOnce

LEMMA MarkRunningInv ==
  ASSUME IInv, NEW w \in Workers, MarkRunning(w)
  PROVE  IInv'
<1> USE DEF IInv, MarkRunning, Wrote
<1>1. TypeOK'
  BY DEF TypeOK, JobsTypeOK, ThreadsHoldRows
<1>2. ThreadsHoldRows'
  BY DEF TypeOK, JobsTypeOK, ThreadsHoldRows, EachJobHeldOnce, HeldRowsQueued, HeldAlone
<1>3. LocksHeld'
  BY DEF TypeOK, JobsTypeOK, ThreadsHoldRows, LocksHeld, EachJobHeldOnce, HeldRowsQueued, HeldAlone
<1>4. HeldRowsQueued'
  BY DEF TypeOK, JobsTypeOK, ThreadsHoldRows, EachJobHeldOnce, HeldRowsQueued, HeldAlone
<1>5. HeldAlone'
  BY DEF TypeOK, JobsTypeOK, ThreadsHoldRows, EachJobHeldOnce, HeldRowsQueued, HeldAlone
<1>6. QED BY <1>1, <1>2, <1>3, <1>4, <1>5 DEF EachJobHeldOnce

LEMMA SettleInv ==
  ASSUME IInv, NEW w \in Workers, NEW outcome \in Terminal, Settle(w, outcome)
  PROVE  IInv'
<1> USE DEF IInv, Settle, Wrote
<1>1. TypeOK'
  BY DEF TypeOK, JobsTypeOK, ThreadsHoldRows
<1>2. ThreadsHoldRows'
  BY DEF TypeOK, JobsTypeOK, ThreadsHoldRows, EachJobHeldOnce, HeldRowsQueued, HeldAlone
<1>3. LocksHeld'
  BY DEF TypeOK, JobsTypeOK, ThreadsHoldRows, LocksHeld, EachJobHeldOnce, HeldRowsQueued, HeldAlone
<1>4. HeldRowsQueued'
  BY DEF TypeOK, JobsTypeOK, ThreadsHoldRows, EachJobHeldOnce, HeldRowsQueued, HeldAlone
<1>5. HeldAlone'
  BY DEF TypeOK, JobsTypeOK, ThreadsHoldRows, EachJobHeldOnce, HeldRowsQueued, HeldAlone
<1>6. QED BY <1>1, <1>2, <1>3, <1>4, <1>5 DEF EachJobHeldOnce

LEMMA ReportInv ==
  ASSUME IInv, NEW w \in Workers, Report(w)
  PROVE  IInv'
<1> USE DEF IInv, Report, Wrote, IdleWorker
<1>1. TypeOK'
  BY DEF TypeOK, JobsTypeOK, ThreadsHoldRows
<1>2. ThreadsHoldRows'
  BY DEF TypeOK, JobsTypeOK, ThreadsHoldRows, EachJobHeldOnce, HeldRowsQueued, HeldAlone
<1>3. LocksHeld'
  BY DEF TypeOK, JobsTypeOK, ThreadsHoldRows, LocksHeld, EachJobHeldOnce, HeldRowsQueued, HeldAlone
<1>4. HeldRowsQueued'
  BY DEF TypeOK, JobsTypeOK, ThreadsHoldRows, EachJobHeldOnce, HeldRowsQueued, HeldAlone
<1>5. HeldAlone'
  BY DEF TypeOK, JobsTypeOK, ThreadsHoldRows, EachJobHeldOnce, HeldRowsQueued, HeldAlone
<1>6. QED BY <1>1, <1>2, <1>3, <1>4, <1>5 DEF EachJobHeldOnce

LEMMA WorkerDiesInv ==
  ASSUME IInv, NEW w \in Workers, WorkerDies(w)
  PROVE  IInv'
<1> USE DEF IInv, WorkerDies, Raised, Fault, DeadWorker
<1>1. TypeOK'
  <2>1. locks' \in [Devices -> Workers \cup {Free}]
    BY DEF TypeOK
  <2>2. worker' \in [Workers -> [at : WorkerAt, job : JobIds \cup {NoJob}]]
    BY DEF TypeOK
  <2>3. faults' \in 0..MaxFaults
    BY DEF TypeOK
  <2>4. QED BY <2>1, <2>2, <2>3 DEF TypeOK, JobsTypeOK
<1>2. ThreadsHoldRows'
  BY DEF TypeOK, JobsTypeOK, ThreadsHoldRows, EachJobHeldOnce, HeldRowsQueued, HeldAlone
<1>3. LocksHeld'
  BY DEF TypeOK, JobsTypeOK, ThreadsHoldRows, LocksHeld, EachJobHeldOnce, HeldRowsQueued, HeldAlone
<1>4. HeldRowsQueued'
  BY DEF TypeOK, JobsTypeOK, ThreadsHoldRows, EachJobHeldOnce, HeldRowsQueued, HeldAlone
<1>5. HeldAlone'
  BY DEF TypeOK, JobsTypeOK, ThreadsHoldRows, EachJobHeldOnce, HeldRowsQueued, HeldAlone
<1>6. QED BY <1>1, <1>2, <1>3, <1>4, <1>5 DEF EachJobHeldOnce

LEMMA RestartInv ==
  ASSUME IInv, Restart
  PROVE  IInv'
<1> USE DEF IInv, Restart, FailPending, Wrote, Fault, IdleClient, IdleWorker
<1>1. TypeOK'
  <2>1. JobsTypeOK'
    BY DEF TypeOK, JobsTypeOK
  <2>2. /\ client' \in [Clients -> [at : ClientAt, job : JobIds \cup {NoJob},
                                    device : Devices \cup {NoDevice}, exclusive : BOOLEAN]]
        /\ worker' \in [Workers -> [at : WorkerAt, job : JobIds \cup {NoJob}]]
    OBVIOUS
  <2>3. faults' \in 0..MaxFaults /\ restarts' \in 0..MaxRestarts
    BY DEF TypeOK
  <2>4. available' \in BOOLEAN /\ stop_event' \in BOOLEAN
    BY DEF TypeOK
  <2>5. enqueue_lock' \in Clients \cup {Free} /\ locks' \in [Devices -> Workers \cup {Free}]
    OBVIOUS
  <2>6. queue' \in Seq(JobIds)
    OBVIOUS
  <2>7. QED BY <2>1, <2>2, <2>3, <2>4, <2>5, <2>6 DEF TypeOK
<1>2. ThreadsHoldRows'
  BY DEF TypeOK, JobsTypeOK, ThreadsHoldRows, EachJobHeldOnce, HeldRowsQueued, HeldAlone
<1>3. LocksHeld'
  BY DEF TypeOK, JobsTypeOK, ThreadsHoldRows, LocksHeld, EachJobHeldOnce, HeldRowsQueued, HeldAlone
<1>4. HeldRowsQueued'
  BY DEF TypeOK, JobsTypeOK, ThreadsHoldRows, EachJobHeldOnce, HeldRowsQueued, HeldAlone
<1>5. HeldAlone'
  BY DEF TypeOK, JobsTypeOK, ThreadsHoldRows, EachJobHeldOnce, HeldRowsQueued, HeldAlone
<1>6. QED BY <1>1, <1>2, <1>3, <1>4, <1>5 DEF EachJobHeldOnce

LEMMA StepInv == IInv /\ [DispatcherNext]_vars => IInv'
<1> SUFFICES ASSUME IInv, [DispatcherNext]_vars PROVE IInv'
  OBVIOUS
<1>1. ASSUME NEW c \in Clients, ClientStep(c) PROVE IInv'
  BY <1>1, ValidateInv, ValidateUnreadInv, InsertJobInv, AuditQueuedInv, PutInv, EnqueueRaisesInv
  DEF ClientStep
<1>2. ASSUME NEW w \in Workers, WorkerStep(w) PROVE IInv'
  BY <1>2, TakeInv, TakeUnreadInv, LockDeviceInv, MarkRunningInv, SettleInv, ReportInv, WorkerDiesInv
  DEF WorkerStep
<1>3. CASE Outage \/ OutageEnds \/ Stop
  <2> USE DEF Outage, OutageEnds, Stop, Wrote, Fault
  <2>1. faults' \in 0..MaxFaults
    BY <1>3 DEF IInv, TypeOK
  <2>2. TypeOK'
    BY <1>3, <2>1 DEF IInv, TypeOK, JobsTypeOK
  <2>3. (ThreadsHoldRows /\ LocksHeld /\ EachJobHeldOnce)'
    BY <1>3 DEF IInv, ThreadsHoldRows, LocksHeld, EachJobHeldOnce, HeldRowsQueued, HeldAlone
  <2>4. QED BY <2>2, <2>3 DEF IInv
<1>4. CASE UNCHANGED vars
  BY <1>4 DEF vars, IInv, TypeOK, JobsTypeOK, ThreadsHoldRows, LocksHeld, EachJobHeldOnce,
              HeldRowsQueued, HeldAlone
<1>5. QED BY <1>1, <1>2, <1>3, <1>4, RestartInv DEF DispatcherNext

LEMMA Invariance == DispatcherSpec => []IInv
  BY InitInv, StepInv, PTL DEF DispatcherSpec

(* Every record, lock and counter stays in its domain.                     *)
THEOREM TypeCorrect == DispatcherSpec => []TypeOK
<1>1. IInv => TypeOK
  BY DEF IInv
<1>2. QED BY <1>1, Invariance, PTL

(* _worker() executes one job of a device at a time, whatever fails: two   *)
(* workers inside `with lock` hold two locks, hence two devices.           *)
THEOREM ExecutionSerialized == DispatcherSpec => []DeviceSerialized
<1>1. IInv => DeviceSerialized
  BY DEF IInv, LocksHeld, DeviceSerialized
<1>2. QED BY <1>1, Invariance, PTL

(* No job is in two places, and none is handed to its handler twice or     *)
(* after a restart has failed it.                                          *)
THEOREM NoDoubleExecution == DispatcherSpec => []EachJobHeldOnce
<1>1. IInv => EachJobHeldOnce
  BY DEF IInv
<1>2. QED BY <1>1, Invariance, PTL

-----------------------------------------------------------------------------
(* The conflict check.  Only an INSERT makes a row pending, and only the   *)
(* client that holds enqueue_lock executes one.                            *)
LEMMA PendingShrinks ==
  ASSUME IInv, [DispatcherNext]_vars,
         ~ \E c \in Clients, j \in JobIds : InsertJob(c, j)
  PROVE  /\ UNCHANGED <<device, exclusive>>
         /\ \A j \in JobIds : status'[j] \in Pending => status[j] \in Pending
<1> USE DEF IInv, TypeOK, JobsTypeOK
<1>1. ASSUME NEW c \in Clients, ClientStep(c)
      PROVE  UNCHANGED <<status, device, exclusive>>
  <2>1. ~ \E j \in JobIds : InsertJob(c, j)
    OBVIOUS
  <2>2. QED BY <1>1, <2>1 DEF ClientStep, Validate, ValidateUnread, AuditQueued, Put, EnqueueRaises
<1>2. CASE \E w \in Workers : MarkRunning(w)
  BY <1>2 DEF MarkRunning, ThreadsHoldRows, EachJobHeldOnce, HeldRowsQueued
<1>3. CASE \E w \in Workers, outcome \in Terminal : Settle(w, outcome)
  BY <1>3 DEF Settle
<1>4. CASE \E w \in Workers : Take(w) \/ TakeUnread(w) \/ LockDevice(w) \/ Report(w) \/ WorkerDies(w)
  BY <1>4 DEF Take, TakeUnread, LockDevice, Report, WorkerDies
<1>5. CASE Restart
  BY <1>5 DEF Restart, FailPending
<1>6. CASE Outage \/ OutageEnds \/ Stop \/ UNCHANGED vars
  BY <1>6 DEF Outage, OutageEnds, Stop, vars
<1>7. QED BY <1>1, <1>2, <1>3, <1>4, <1>5, <1>6 DEF DispatcherNext, WorkerStep

LEMMA FaultsCount ==
  ASSUME IInv, [DispatcherNext]_vars, faults' = 0
  PROVE  /\ faults = 0
         /\ available => available'
<1>1. faults \in Nat /\ faults + 1 # 0
  BY DEF IInv, TypeOK
<1>2. ~Fault
  BY <1>1 DEF Fault
<1>3. ASSUME NEW c \in Clients, ClientStep(c)
      PROVE  faults' = faults /\ (available => available')
  <2>1. CASE \E d \in Devices, x \in BOOLEAN : Validate(c, d, x) \/ ValidateUnread(c, d, x)
    BY <1>2, <2>1 DEF Validate, ValidateUnread, Raised
  <2>2. CASE \E j \in JobIds : InsertJob(c, j)
    BY <2>2 DEF InsertJob, Wrote
  <2>3. CASE AuditQueued(c) \/ Put(c) \/ EnqueueRaises(c)
    BY <1>2, <2>3 DEF AuditQueued, Put, EnqueueRaises, Raised, Wrote
  <2>4. QED BY <1>3, <2>1, <2>2, <2>3 DEF ClientStep
<1>4. ASSUME NEW w \in Workers, WorkerStep(w)
      PROVE  faults' = faults /\ (available => available')
  BY <1>2, <1>4 DEF WorkerStep, Take, TakeUnread, LockDevice, MarkRunning, Settle, Report, WorkerDies,
                    Raised, Wrote
<1>5. CASE Outage \/ OutageEnds \/ Stop \/ Restart \/ UNCHANGED vars
  BY <1>2, <1>5 DEF Outage, OutageEnds, Stop, Restart, vars, Wrote
<1>6. QED BY <1>3, <1>4, <1>5 DEF DispatcherNext

(* Every step that leaves a client between validate() and the INSERT either *)
(* put it there after an empty COUNT, or left it there untouched.          *)
LEMMA AdmittedComesFromValidate ==
  ASSUME IInv, [DispatcherNext]_vars, faults' = 0,
         NEW b \in Clients, client'[b].at = "admitted"
  PROVE  /\ ~ \E c \in Clients, j \in JobIds : InsertJob(c, j)
         /\ \/ client'[b] = client[b]
            \/ \E d \in Devices, x \in BOOLEAN : Validate(b, d, x)
<1>1. faults \in Nat /\ faults + 1 # 0
  BY DEF IInv, TypeOK
<1>2. ~Fault
  BY <1>1 DEF Fault
<1>3. client \in [Clients -> [at : ClientAt, job : JobIds \cup {NoJob},
                              device : Devices \cup {NoDevice}, exclusive : BOOLEAN]]
  BY DEF IInv, TypeOK
<1>4. ~ \E c \in Clients, j \in JobIds : InsertJob(c, j)
  <2> SUFFICES ASSUME NEW c \in Clients, NEW j \in JobIds, InsertJob(c, j) PROVE FALSE
    OBVIOUS
  <2>1. client[c].at = "admitted" /\ client'[c].at = "inserted"
    BY <1>3 DEF InsertJob
  <2>2. b # c /\ client[b].at = "admitted"
    BY <1>3, <2>1 DEF InsertJob
  <2>3. QED BY <2>1, <2>2 DEF IInv, LocksHeld
<1>5. \/ client'[b] = client[b]
      \/ \E d \in Devices, x \in BOOLEAN : Validate(b, d, x)
  <2>1. ASSUME NEW c \in Clients, ClientStep(c)
        PROVE  \/ client'[b] = client[b]
               \/ \E d \in Devices, x \in BOOLEAN : Validate(b, d, x)
    <3>1. CASE \E d \in Devices, x \in BOOLEAN : Validate(c, d, x)
      BY <1>3, <3>1 DEF Validate
    <3>2. CASE \E d \in Devices, x \in BOOLEAN : ValidateUnread(c, d, x)
      BY <1>2, <3>2 DEF ValidateUnread, Raised
    <3>3. CASE AuditQueued(c) \/ Put(c) \/ EnqueueRaises(c)
      BY <1>3, <3>3 DEF AuditQueued, Put, EnqueueRaises, IdleClient
    <3>4. QED BY <1>4, <2>1, <3>1, <3>2, <3>3 DEF ClientStep
  <2>2. CASE \E w \in Workers : WorkerStep(w)
    BY <2>2 DEF WorkerStep, Take, TakeUnread, LockDevice, MarkRunning, Settle, Report, WorkerDies
  <2>3. CASE Restart
    BY <1>3, <2>3 DEF Restart, IdleClient
  <2>4. CASE Outage \/ OutageEnds \/ Stop \/ UNCHANGED vars
    BY <2>4 DEF Outage, OutageEnds, Stop, vars
  <2>5. QED BY <2>1, <2>2, <2>3, <2>4 DEF DispatcherNext
<1>6. QED BY <1>4, <1>5

LEMMA AdmissionStep ==
  ASSUME IInv, AdmissionHolds, [DispatcherNext]_vars
  PROVE  AdmissionHolds'
<1> SUFFICES ASSUME faults' = 0
             PROVE  /\ available'
                    /\ \A b \in Clients : client'[b].at = "admitted" /\ client'[b].exclusive
                                           => PendingOn(client[b].device)' = {}
  BY DEF AdmissionHolds
<1>1. faults = 0 /\ available /\ available'
  BY FaultsCount DEF AdmissionHolds
<1>2. ASSUME NEW b \in Clients, client'[b].at = "admitted", client'[b].exclusive
      PROVE  PendingOn(client[b].device)' = {}
  <2>1. UNCHANGED device /\ \A j \in JobIds : status'[j] \in Pending => status[j] \in Pending
    BY <1>2, AdmittedComesFromValidate, PendingShrinks
  <2>2. CASE client'[b] = client[b]
    BY <1>1, <1>2, <2>1, <2>2 DEF AdmissionHolds, PendingOn
  <2>3. ASSUME NEW d \in Devices, NEW x \in BOOLEAN, Validate(b, d, x)
        PROVE  PendingOn(client[b].device)' = {}
    <3>1. client'[b].device = d /\ client'[b].exclusive = x
      BY <2>3 DEF Validate, IInv, TypeOK
    <3>2. PendingOn(d) = {}
      BY <1>1, <1>2, <2>3, <3>1 DEF Validate, Conflict
    <3>3. QED BY <2>1, <3>1, <3>2 DEF PendingOn
  <2>4. QED BY <1>2, <2>2, <2>3, AdmittedComesFromValidate
<1>3. QED BY <1>1, <1>2

LEMMA OnePendingStep ==
  ASSUME IInv, AdmissionHolds, OnePendingUnlessFault, [DispatcherNext]_vars
  PROVE  OnePendingUnlessFault'
<1> SUFFICES ASSUME faults' = 0 PROVE OnePendingPerDevice'
  BY DEF OnePendingUnlessFault
<1>1. OnePendingPerDevice
  BY FaultsCount DEF OnePendingUnlessFault
<1>2. ASSUME NEW c \in Clients, NEW j \in JobIds, InsertJob(c, j)
      PROVE  OnePendingPerDevice'
  <2>1. /\ status' = [status EXCEPT ![j] = "queued"]
        /\ device' = [device EXCEPT ![j] = client[c].device]
        /\ exclusive' = [exclusive EXCEPT ![j] = client[c].exclusive]
        /\ client[c].at = "admitted"
    BY <1>2 DEF InsertJob, Insert
  <2>2. client[c].exclusive => PendingOn(client[c].device) = {}
    BY <2>1, FaultsCount DEF AdmissionHolds
  <2>3. ASSUME NEW i \in JobIds, i # j, status'[i] \in Pending, client[c].exclusive
        PROVE  device'[i] # device'[j]
    <3>1. status[i] \in Pending /\ device'[i] = device[i] /\ device'[j] = client[c].device
      BY <2>1, <2>3 DEF IInv, TypeOK, JobsTypeOK
    <3>2. QED BY <2>2, <2>3, <3>1 DEF PendingOn
  <2>4. QED BY <1>1, <2>1, <2>3 DEF OnePendingPerDevice, IInv, TypeOK, JobsTypeOK
<1>3. CASE ~ \E c \in Clients, j \in JobIds : InsertJob(c, j)
  BY <1>1, <1>3, PendingShrinks DEF OnePendingPerDevice
<1>4. QED BY <1>2, <1>3

(* As long as no database fault has happened, a device has at most one     *)
(* exclusive job pending: the check of validate() and the INSERT are one   *)
(* step under enqueue_lock.                                                *)
THEOREM OnePending == DispatcherSpec => []OnePendingUnlessFault
<1>1. DispatcherInit => AdmissionHolds /\ OnePendingUnlessFault
  BY DEF DispatcherInit, Init, IdleClient, AdmissionHolds, OnePendingUnlessFault, OnePendingPerDevice
<1>2. IInv /\ AdmissionHolds /\ OnePendingUnlessFault /\ [DispatcherNext]_vars
      => (AdmissionHolds /\ OnePendingUnlessFault)'
  BY AdmissionStep, OnePendingStep
<1>3. QED BY <1>1, <1>2, Invariance, PTL DEF DispatcherSpec

-----------------------------------------------------------------------------
(* Refinement.  A dispatcher step is a step of the job table or leaves it  *)
(* alone; the invariant supplies what the UPDATEs of _execute() do not ask *)
(* for themselves, the status of the row before.                           *)
LEMMA StepRefinesLoose ==
  ASSUME IInv, [DispatcherNext]_vars
  PROVE  [Jobs!LooseNext]_(Jobs!jobVars)
<1> USE DEF Jobs!jobVars, Jobs!LooseNext, Jobs!Progress, Jobs!Terminal, Jobs!Pending
<1>1. ASSUME NEW c \in Clients, NEW j \in JobIds, InsertJob(c, j)
      PROVE  Jobs!LooseNext
  <2>1. client[c].device \in Devices /\ client[c].exclusive \in BOOLEAN
    BY <1>1 DEF InsertJob, IInv, TypeOK, ThreadsHoldRows
  <2>2. Jobs!Insert(j, client[c].device, client[c].exclusive)
    BY <1>1 DEF InsertJob, Insert, Jobs!Insert
  <2>3. QED BY <2>1, <2>2
<1>2. ASSUME NEW w \in Workers, MarkRunning(w)
      PROVE  Jobs!LooseNext
  <2>1. worker[w].job \in JobIds /\ status[worker[w].job] = "queued"
    BY <1>2 DEF MarkRunning, IInv, TypeOK, ThreadsHoldRows, EachJobHeldOnce, HeldRowsQueued
  <2>2. Jobs!Start(worker[w].job)
    BY <1>2, <2>1 DEF MarkRunning, Jobs!Start
  <2>3. QED BY <2>1, <2>2
<1>3. ASSUME NEW w \in Workers, NEW outcome \in Terminal, Settle(w, outcome)
      PROVE  Jobs!LooseNext
  <2>1. worker[w].job \in JobIds /\ status[worker[w].job] = "running"
    BY <1>3 DEF Settle, IInv, TypeOK, ThreadsHoldRows, EachJobHeldOnce, HeldRowsQueued
  <2>2. Jobs!Finish(worker[w].job, outcome)
    BY <1>3, <2>1 DEF Settle, Jobs!Finish
  <2>3. QED BY <2>1, <2>2
<1>4. CASE Restart
  BY <1>4 DEF Restart, FailPending, Jobs!FailPending
<1>5. ASSUME NEW c \in Clients, ClientStep(c), ~ \E j \in JobIds : InsertJob(c, j)
      PROVE  UNCHANGED jobVars
  BY <1>5 DEF ClientStep, Validate, ValidateUnread, AuditQueued, Put, EnqueueRaises
<1>6. CASE \E w \in Workers : Take(w) \/ TakeUnread(w) \/ LockDevice(w) \/ Report(w) \/ WorkerDies(w)
  BY <1>6 DEF Take, TakeUnread, LockDevice, Report, WorkerDies
<1>7. CASE Outage \/ OutageEnds \/ Stop \/ UNCHANGED vars
  BY <1>7 DEF Outage, OutageEnds, Stop, vars
<1>8. QED BY <1>1, <1>2, <1>3, <1>4, <1>5, <1>6, <1>7 DEF DispatcherNext, WorkerStep

(* Through database faults and restarts, the job table follows the life    *)
(* cycle of ActionJobs: admitted once, started once, settled once.         *)
THEOREM FollowsLifeCycle == DispatcherSpec => LifeCycle
<1>1. DispatcherInit => Jobs!Init
  BY DEF DispatcherInit, Init, Jobs!Init
<1>2. IInv /\ [DispatcherNext]_vars => [Jobs!LooseNext]_(Jobs!jobVars)
  BY StepRefinesLoose
<1>3. QED BY <1>1, <1>2, Invariance, PTL DEF DispatcherSpec, LifeCycle, Jobs!LooseSpec

(* With no fault behind it, an INSERT finds the device as validate() did.  *)
LEMMA StepRefines ==
  ASSUME IInv, AdmissionHolds, faults = 0, [DispatcherNext]_vars
  PROVE  [Jobs!Next]_(Jobs!jobVars)
<1>1. CASE \E c \in Clients, j \in JobIds : InsertJob(c, j)
  <2>1. PICK c \in Clients, j \in JobIds : InsertJob(c, j)
    BY <1>1
  <2>2. client[c].device \in Devices /\ client[c].exclusive \in BOOLEAN
    BY <2>1 DEF InsertJob, IInv, TypeOK, ThreadsHoldRows
  <2>3. client[c].exclusive => Jobs!PendingOn(client[c].device) = {}
    BY <2>1 DEF InsertJob, AdmissionHolds, PendingOn, Jobs!PendingOn, Jobs!Pending
  <2>4. Jobs!Enqueue(j, client[c].device, client[c].exclusive)
    BY <2>1, <2>3 DEF InsertJob, Insert, Jobs!Enqueue, Jobs!Insert
  <2>5. QED BY <2>2, <2>4 DEF Jobs!Next
<1>2. CASE ~ \E c \in Clients, j \in JobIds : InsertJob(c, j)
  <2>1. \A j \in JobIds : status'[j] \in Pending => status[j] \in Pending
    BY <1>2, PendingShrinks
  <2>2. ASSUME NEW j \in JobIds, NEW d \in Devices, NEW x \in BOOLEAN, Jobs!Insert(j, d, x)
        PROVE  FALSE
    BY <2>1, <2>2 DEF Jobs!Insert, IInv, TypeOK, JobsTypeOK
  <2>3. QED BY <2>2, StepRefinesLoose DEF Jobs!LooseNext, Jobs!Next
<1>3. QED BY <1>1, <1>2

(* Until the database fails, the dispatcher keeps the whole promise of     *)
(* ActionJobs, the conflict check of validate() included.                  *)
THEOREM KeepsPromise == DispatcherSpec => Promise
<1>1. DispatcherInit => Jobs!Init /\ AdmissionHolds
  BY DEF DispatcherInit, Init, Jobs!Init, AdmissionHolds, IdleClient
<1>2. IInv /\ AdmissionHolds /\ [DispatcherNext]_vars => AdmissionHolds'
  BY AdmissionStep
<1>3. IInv /\ AdmissionHolds /\ [DispatcherNext]_vars => [faults = 0 => Jobs!Next]_jobVars
  BY StepRefines DEF Jobs!jobVars
<1>4. QED BY <1>1, <1>2, <1>3, Invariance, PTL DEF DispatcherSpec, Promise

-----------------------------------------------------------------------------
(* NoJobLost, one action at a time: each hands the job on to the next      *)
(* thread, or takes the row out of the pending ones.                       *)
LEMMA NoJobLostStep ==
  ASSUME IInv, AdmissionHolds, NoJobLost, [DispatcherNext]_vars
  PROVE  NoJobLost'
<1> DEFINE Carried(j) == \/ \E c \in Clients : HeldByClient(c) /\ client[c].job = j
                         \/ \E n \in 1..Len(queue) : queue[n] = j
                         \/ \E w \in Workers : HeldByWorker(w) /\ worker[w].job = j
           Handled(j) == \E w \in Workers : worker[w].at = "handling" /\ worker[w].job = j
           Kept == \A j \in JobIds : /\ status[j] = "queued" => Carried(j)
                                     /\ status[j] = "running" => Handled(j)
<1> SUFFICES ASSUME faults' = 0 PROVE Kept'
  BY DEF NoJobLost
<1>1. faults = 0 /\ available /\ Kept /\ ~Fault
  <2>1. faults = 0 /\ available
    BY FaultsCount DEF AdmissionHolds
  <2>2. ~Fault
    BY <2>1 DEF Fault
  <2>3. QED BY <2>1, <2>2 DEF NoJobLost
<1> USE DEF IInv, TypeOK, JobsTypeOK
<1>2. ASSUME NEW c \in Clients, ClientStep(c) PROVE Kept'
  <2>1. CASE \E d \in Devices, x \in BOOLEAN : Validate(c, d, x)
    BY <1>1, <2>1 DEF Validate
  <2>2. ASSUME NEW j \in JobIds, InsertJob(c, j) PROVE Kept'
    BY <1>1, <2>2 DEF InsertJob, Insert
  <2>3. CASE AuditQueued(c)
    BY <1>1, <2>3 DEF AuditQueued
  <2>4. CASE Put(c)
    BY <1>1, <2>4 DEF Put, IdleClient
  <2>5. ~EnqueueRaises(c) /\ ~ \E d \in Devices, x \in BOOLEAN : ValidateUnread(c, d, x)
    BY <1>1 DEF EnqueueRaises, ValidateUnread, Raised
  <2>6. QED BY <1>2, <2>1, <2>2, <2>3, <2>4, <2>5 DEF ClientStep
<1>3. ASSUME NEW w \in Workers, WorkerStep(w) PROVE Kept'
  <2>1. CASE Take(w)
    <3> SUFFICES ASSUME NEW j \in JobIds, status[j] = "queued" PROVE Carried(j)'
      BY <1>1, <2>1 DEF Take
    <3>1. CASE \E c \in Clients : HeldByClient(c) /\ client[c].job = j
      BY <2>1, <3>1 DEF Take
    <3>2. CASE \E v \in Workers : HeldByWorker(v) /\ worker[v].job = j
      BY <2>1, <3>2 DEF Take
    <3>3. ASSUME NEW n \in 1..Len(queue), queue[n] = j PROVE Carried(j)'
      <4>1. CASE n = 1
        <5>1. Head(queue) = j
          BY <2>1, <3>3, <4>1 DEF Take
        <5>2. QED BY <2>1, <5>1 DEF Take
      <4>2. CASE n # 1
        <5>1. n - 1 \in 1..Len(Tail(queue)) /\ Tail(queue)[n - 1] = j
          BY <2>1, <3>3, <4>2 DEF Take
        <5>2. QED BY <2>1, <5>1 DEF Take
      <4>3. QED BY <4>1, <4>2
    <3>4. QED BY <1>1, <3>1, <3>2, <3>3
  <2>2. CASE LockDevice(w)
    BY <1>1, <2>2 DEF LockDevice
  <2>3. CASE MarkRunning(w)
    BY <1>1, <2>3 DEF MarkRunning, ThreadsHoldRows
  <2>4. ASSUME NEW outcome \in Terminal, Settle(w, outcome) PROVE Kept'
    BY <1>1, <2>4 DEF Settle, ThreadsHoldRows
  <2>5. CASE Report(w)
    BY <1>1, <2>5 DEF Report, IdleWorker
  <2>6. ~TakeUnread(w) /\ ~WorkerDies(w)
    BY <1>1 DEF TakeUnread, WorkerDies, Raised
  <2>7. QED BY <1>3, <2>1, <2>2, <2>3, <2>4, <2>5, <2>6 DEF WorkerStep
<1>4. CASE Restart
  <2>1. FailPending
    BY <1>1, <1>4 DEF Restart
  <2>2. QED BY <2>1 DEF FailPending
<1>5. CASE OutageEnds \/ Stop \/ UNCHANGED vars
  <2>1. UNCHANGED <<status, queue, client, worker>>
    BY <1>5 DEF OutageEnds, Stop, vars
  <2>2. QED BY <1>1, <2>1
<1>6. ~Outage
  BY <1>1 DEF Outage
<1>7. QED BY <1>2, <1>3, <1>4, <1>5, <1>6 DEF DispatcherNext

(* Without a fault no pending row is orphaned: each is still carried by a  *)
(* client, the FIFO or a worker, so its device does not stay blocked.      *)
THEOREM NoPendingOrphan == DispatcherSpec => []NoJobLost
<1>1. DispatcherInit => AdmissionHolds /\ NoJobLost
  BY DEF DispatcherInit, Init, IdleClient, AdmissionHolds, NoJobLost
<1>2. IInv /\ AdmissionHolds /\ NoJobLost /\ [DispatcherNext]_vars => (AdmissionHolds /\ NoJobLost)'
  BY AdmissionStep, NoJobLostStep
<1>3. QED BY <1>1, <1>2, Invariance, PTL DEF DispatcherSpec
=============================================================================
