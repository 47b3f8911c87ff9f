-------------------------- MODULE ActionDispatcher --------------------------
(***************************************************************************)
(* pinoc/actions.py: HTTP handlers and the poll-loop services (clients)    *)
(* call enqueue(); worker threads drain a FIFO of job ids and execute each *)
(* job under a lock per device.  The action_jobs table survives a restart, *)
(* the FIFO and the locks do not.                                          *)
(*                                                                         *)
(* The database is the part that misbehaves.  Database.rows() answers []   *)
(* while `available` is FALSE or when the read itself fails; available is  *)
(* cleared by HistoryManager when one of its writes fails and set again by *)
(* the next execute() that succeeds.  A failing execute() raises in the    *)
(* thread that called it.  MaxFaults bounds how often any of this happens. *)
(***************************************************************************)
EXTENDS ActionJobs, Naturals, Sequences

CONSTANTS Clients,     (* threads that call enqueue()                        *)
          Workers,     (* the action-worker-n threads                        *)
          Free,        (* the holder of a lock nobody holds                  *)
          NoJob,       (* a thread between jobs                              *)
          MaxFaults,   (* bound on database faults                           *)
          MaxRestarts  (* bound on restarts of the process                   *)

ASSUME DispatcherAssumption ==
    /\ Free \notin Clients \cup Workers
    /\ NoJob \notin JobIds
    /\ MaxFaults \in Nat
    /\ MaxRestarts \in Nat

VARIABLES queue,         (* self.queue: job ids not yet taken by a worker    *)
          enqueue_lock,  (* the client inside enqueue()'s critical section   *)
          locks,         (* self.locks: per device, the worker executing     *)
          client,        (* per client: where it is in enqueue(), and what for *)
          worker,        (* per worker: where it is in _worker(), and its job *)
          available,     (* Database.available                               *)
          stop_event,    (* set by stop(); workers leave their loop          *)
          faults, restarts

threadVars == <<queue, enqueue_lock, locks, client, worker, stop_event>>
vars == <<jobVars, threadVars, available, faults, restarts>>

ClientAt == {"idle", "admitted", "inserted", "audited"}
WorkerAt == {"idle", "waiting", "locked", "handling", "settled", "dead"}
Executing == {"locked", "handling", "settled"}  (* inside `with lock:`       *)

IdleClient == [at |-> "idle", job |-> NoJob, device |-> NoDevice, exclusive |-> FALSE]
IdleWorker == [at |-> "idle", job |-> NoJob]
DeadWorker == [at |-> "dead", job |-> NoJob]

DispatcherInit ==
    /\ Init
    /\ queue = <<>>
    /\ enqueue_lock = Free
    /\ locks = [d \in Devices |-> Free]
    /\ client = [c \in Clients |-> IdleClient]
    /\ worker = [w \in Workers |-> IdleWorker]
    /\ available = TRUE
    /\ stop_event = FALSE
    /\ faults = 0
    /\ restarts = 0

-----------------------------------------------------------------------------
(* The database.                                                           *)
Wrote == available' = TRUE /\ UNCHANGED faults
Fault == faults < MaxFaults /\ faults' = faults + 1
Raised == Fault /\ UNCHANGED available

(* A write of HistoryManager fails, for the device of one snapshot or for  *)
(* a whole one: every read is answered with [] from here on.               *)
Outage == /\ available
          /\ Fault
          /\ available' = FALSE
          /\ UNCHANGED <<jobVars, threadVars, restarts>>

(* Another thread's execute() succeeds.                                    *)
OutageEnds == /\ ~available
              /\ Wrote
              /\ UNCHANGED <<jobVars, threadVars, restarts>>

-----------------------------------------------------------------------------
(* enqueue(), one action per statement that another thread can see.        *)

(* validate() under enqueue_lock: the COUNT of pending jobs, None when the *)
(* table cannot be read.  A refused request raises ActionError and leaves  *)
(* no trace, so only the admitted one is a step.                           *)
Conflict(d) == available /\ PendingOn(d) # {}

(* Mutation of Validate: the COUNT is not read under enqueue_lock.         *)
ValidateUnlocked(c, d, x) ==
    /\ client[c].at = "idle"
    /\ x => ~Conflict(d)
    /\ enqueue_lock' = c
    /\ client' = [client EXCEPT ![c] = [at |-> "admitted", job |-> NoJob,
                                        device |-> d, exclusive |-> x]]
    /\ UNCHANGED <<jobVars, queue, locks, worker, stop_event, available, faults, restarts>>

Validate(c, d, x) ==
    /\ client[c].at = "idle"
    /\ enqueue_lock = Free
    /\ x => ~Conflict(d)
    /\ enqueue_lock' = c
    /\ client' = [client EXCEPT ![c] = [at |-> "admitted", job |-> NoJob,
                                        device |-> d, exclusive |-> x]]
    /\ UNCHANGED <<jobVars, queue, locks, worker, stop_event, available, faults, restarts>>

(* The read of that COUNT itself fails: scalar() is None, nothing conflicts. *)
ValidateUnread(c, d, x) ==
    /\ client[c].at = "idle"
    /\ enqueue_lock = Free
    /\ x /\ Conflict(d)
    /\ Raised
    /\ enqueue_lock' = c
    /\ client' = [client EXCEPT ![c] = [at |-> "admitted", job |-> NoJob,
                                        device |-> d, exclusive |-> x]]
    /\ UNCHANGED <<jobVars, queue, locks, worker, stop_event, restarts>>

InsertJob(c, j) ==
    /\ client[c].at = "admitted"
    /\ Insert(j, client[c].device, client[c].exclusive)
    /\ enqueue_lock' = Free
    /\ client' = [client EXCEPT ![c] = [@ EXCEPT !.at = "inserted", !.job = j]]
    /\ Wrote
    /\ UNCHANGED <<queue, locks, worker, stop_event, restarts>>

AuditQueued(c) ==
    /\ client[c].at = "inserted"
    /\ client' = [client EXCEPT ![c].at = "audited"]
    /\ Wrote
    /\ UNCHANGED <<jobVars, queue, enqueue_lock, locks, worker, stop_event, restarts>>

Put(c) ==
    /\ client[c].at = "audited"
    /\ queue' = Append(queue, client[c].job)
    /\ client' = [client EXCEPT ![c] = IdleClient]
    /\ UNCHANGED <<jobVars, enqueue_lock, locks, worker, stop_event, available, faults, restarts>>

(* The INSERT or the audit record raises out of enqueue(); `with` releases *)
(* the lock.  After the INSERT the row stays behind with no queue entry.   *)
EnqueueRaises(c) ==
    /\ client[c].at \in {"admitted", "inserted"}
    /\ Raised
    /\ enqueue_lock' = IF enqueue_lock = c THEN Free ELSE enqueue_lock
    /\ client' = [client EXCEPT ![c] = IdleClient]
    /\ UNCHANGED <<jobVars, queue, locks, worker, stop_event, restarts>>

-----------------------------------------------------------------------------
(* _worker() and _execute().                                               *)

(* queue.get() and the SELECT of the row.                                  *)
Take(w) ==
    /\ worker[w].at = "idle"
    /\ ~stop_event
    /\ queue # <<>>
    /\ available
    /\ queue' = Tail(queue)
    /\ worker' = [worker EXCEPT ![w] = [at |-> "waiting", job |-> Head(queue)]]
    /\ UNCHANGED <<jobVars, enqueue_lock, locks, client, stop_event, available, faults, restarts>>

(* `if not row: continue`: an unread row drops the job, still 'queued'.    *)
TakeUnread(w) ==
    /\ worker[w].at = "idle"
    /\ ~stop_event
    /\ queue # <<>>
    /\ \/ ~available /\ UNCHANGED <<available, faults>>
       \/ available /\ Raised
    /\ queue' = Tail(queue)
    /\ UNCHANGED <<jobVars, enqueue_lock, locks, client, worker, stop_event, restarts>>

(* Mutation of LockDevice: workers do not wait for each other.             *)
LockNothing(w) ==
    /\ worker[w].at = "waiting"
    /\ worker' = [worker EXCEPT ![w].at = "locked"]
    /\ UNCHANGED <<jobVars, queue, enqueue_lock, locks, client, stop_event, available, faults,
                   restarts>>

LockDevice(w) ==
    LET d == device[worker[w].job] IN
    /\ worker[w].at = "waiting"
    /\ locks[d] = Free
    /\ locks' = [locks EXCEPT ![d] = w]
    /\ worker' = [worker EXCEPT ![w].at = "locked"]
    /\ UNCHANGED <<jobVars, queue, enqueue_lock, client, stop_event, available, faults, restarts>>

MarkRunning(w) ==
    /\ worker[w].at = "locked"
    /\ status' = [status EXCEPT ![worker[w].job] = "running"]
    /\ worker' = [worker EXCEPT ![w].at = "handling"]
    /\ Wrote
    /\ UNCHANGED <<device, exclusive, queue, enqueue_lock, locks, client, stop_event, restarts>>

(* The handler returns an exit code, times out or raises, and the row gets *)
(* its terminal status.                                                    *)
Settle(w, outcome) ==
    /\ worker[w].at = "handling"
    /\ status' = [status EXCEPT ![worker[w].job] = outcome]
    /\ worker' = [worker EXCEPT ![w].at = "settled"]
    /\ Wrote
    /\ UNCHANGED <<device, exclusive, queue, enqueue_lock, locks, client, stop_event, restarts>>

(* Mutation of Report: the device lock is not released.                    *)
ReportHolding(w) ==
    /\ worker[w].at = "settled"
    /\ worker' = [worker EXCEPT ![w] = IdleWorker]
    /\ Wrote
    /\ UNCHANGED <<jobVars, queue, enqueue_lock, locks, client, stop_event, restarts>>

(* The audit record, the coordinator's refresh, and the end of `with lock`. *)
Report(w) ==
    /\ worker[w].at = "settled"
    /\ locks' = [locks EXCEPT ![device[worker[w].job]] = Free]
    /\ worker' = [worker EXCEPT ![w] = IdleWorker]
    /\ Wrote
    /\ UNCHANGED <<jobVars, queue, enqueue_lock, client, stop_event, restarts>>

(* Any of the three writes raises.  Nothing in _worker() catches it: the   *)
(* device lock is released and the thread is gone.                         *)
WorkerDies(w) ==
    /\ worker[w].at \in Executing
    /\ Raised
    /\ locks' = [locks EXCEPT ![device[worker[w].job]] = Free]
    /\ worker' = [worker EXCEPT ![w] = DeadWorker]
    /\ UNCHANGED <<jobVars, queue, enqueue_lock, client, stop_event, restarts>>

-----------------------------------------------------------------------------
Stop == /\ ~stop_event
        /\ restarts < MaxRestarts
        /\ stop_event' = TRUE
        /\ UNCHANGED <<jobVars, queue, enqueue_lock, locks, client, worker, available, faults, restarts>>

(* The process ends, killed or stopped, and __init__ runs in the next one: *)
(* threads, FIFO and locks are new; pending rows fail if the database      *)
(* opened, and are left as they are if it did not.                         *)
Restart ==
    /\ restarts < MaxRestarts
    /\ restarts' = restarts + 1
    /\ queue' = <<>>
    /\ enqueue_lock' = Free
    /\ locks' = [d \in Devices |-> Free]
    /\ client' = [c \in Clients |-> IdleClient]
    /\ worker' = [w \in Workers |-> IdleWorker]
    /\ stop_event' = FALSE
    /\ \/ Wrote /\ FailPending
       \/ Fault /\ available' = FALSE /\ UNCHANGED jobVars

-----------------------------------------------------------------------------
ClientStep(c) == \/ \E d \in Devices, x \in BOOLEAN : Validate(c, d, x) \/ ValidateUnread(c, d, x)
                 \/ \E j \in JobIds : InsertJob(c, j)
                 \/ AuditQueued(c)
                 \/ Put(c)
                 \/ EnqueueRaises(c)

WorkerStep(w) == \/ Take(w)
                 \/ TakeUnread(w)
                 \/ LockDevice(w)
                 \/ MarkRunning(w)
                 \/ \E outcome \in Terminal : Settle(w, outcome)
                 \/ Report(w)
                 \/ WorkerDies(w)

DispatcherNext == \/ \E c \in Clients : ClientStep(c)
                  \/ \E w \in Workers : WorkerStep(w)
                  \/ Outage
                  \/ OutageEnds
                  \/ Stop
                  \/ Restart

DispatcherSpec == DispatcherInit /\ [][DispatcherNext]_vars

(* A thread that can take its next step is scheduled; a handler returns    *)
(* because every remote command runs under a timeout.  No request is owed, *)
(* and neither a fault, a stop nor a restart.                              *)
Fairness == /\ \A c \in Clients : /\ WF_vars(\E j \in JobIds : InsertJob(c, j))
                                  /\ WF_vars(AuditQueued(c))
                                  /\ WF_vars(Put(c))
            /\ \A w \in Workers : /\ WF_vars(Take(w) \/ TakeUnread(w) \/ LockDevice(w)
                                             \/ MarkRunning(w) \/ Report(w))
                                  /\ WF_vars(\E outcome \in Terminal : Settle(w, outcome))

FairSpec == DispatcherSpec /\ Fairness

-----------------------------------------------------------------------------
HeldByClient(c) == client[c].at \in {"inserted", "audited"}
HeldByWorker(w) == worker[w].at \in {"waiting", "locked"}

(* Records, locks and counters stay in their domains.                      *)
TypeOK ==
    /\ JobsTypeOK
    /\ queue \in Seq(JobIds)
    /\ enqueue_lock \in Clients \cup {Free}
    /\ locks \in [Devices -> Workers \cup {Free}]
    /\ client \in [Clients -> [at : ClientAt, job : JobIds \cup {NoJob},
                               device : Devices \cup {NoDevice}, exclusive : BOOLEAN]]
    /\ worker \in [Workers -> [at : WorkerAt, job : JobIds \cup {NoJob}]]
    /\ available \in BOOLEAN
    /\ stop_event \in BOOLEAN
    /\ faults \in 0..MaxFaults
    /\ restarts \in 0..MaxRestarts

(* Never two workers inside _execute() for one device, whatever the        *)
(* database does (the per-device lock of _worker()).                       *)
DeviceSerialized ==
    \A v, w \in Workers :
        /\ v # w
        /\ worker[v].at \in Executing /\ worker[w].at \in Executing
        => device[worker[v].job] # device[worker[w].job]

(* While no database fault has happened, validate() and the INSERT are one *)
(* atomic step: a device never has two exclusive jobs pending.             *)
OnePendingUnlessFault == faults = 0 => OnePendingPerDevice

(* A job id is in one place of the process at most (a client that has yet  *)
(* to put it, the FIFO, a worker that has yet to start it), and its row is *)
(* 'queued' for as long: no job is handed to its handler twice, or after a *)
(* restart has failed it.                                                  *)
HeldRowsQueued ==
    /\ \A c \in Clients : HeldByClient(c) => status[client[c].job] = "queued"
    /\ \A n \in 1..Len(queue) : status[queue[n]] = "queued"
    /\ \A w \in Workers : HeldByWorker(w) => status[worker[w].job] = "queued"
    /\ \A w \in Workers : worker[w].at = "handling" => status[worker[w].job] = "running"

HeldAlone ==
    /\ \A c, b \in Clients : c # b /\ HeldByClient(c) /\ HeldByClient(b)
                             => client[c].job # client[b].job
    /\ \A v, w \in Workers : v # w /\ worker[v].job # NoJob => worker[v].job # worker[w].job
    /\ \A m, n \in 1..Len(queue) : m # n => queue[m] # queue[n]
    /\ \A c \in Clients, n \in 1..Len(queue) : HeldByClient(c) => client[c].job # queue[n]
    /\ \A w \in Workers, n \in 1..Len(queue) : HeldByWorker(w) => worker[w].job # queue[n]
    /\ \A c \in Clients, w \in Workers :
           HeldByClient(c) /\ HeldByWorker(w) => client[c].job # worker[w].job

EachJobHeldOnce == HeldRowsQueued /\ HeldAlone

(* While no database fault has happened, every pending row is on its way:  *)
(* somebody in the process holds the job, so no device stays blocked by a  *)
(* row nobody will ever settle.                                            *)
NoJobLost ==
    faults = 0 =>
        \A j \in JobIds :
            /\ status[j] = "queued" => \/ \E c \in Clients : HeldByClient(c) /\ client[c].job = j
                                       \/ \E n \in 1..Len(queue) : queue[n] = j
                                       \/ \E w \in Workers : HeldByWorker(w) /\ worker[w].job = j
            /\ status[j] = "running" => \E w \in Workers : worker[w].at = "handling" /\ worker[w].job = j

(* The life cycle of ActionJobs, kept through every fault and restart.     *)
Jobs == INSTANCE ActionJobs
LifeCycle == Jobs!LooseSpec

(* The whole promise of ActionJobs, the conflict check included, for as    *)
(* long as no database fault has happened.                                 *)
Promise == Jobs!Init /\ [][faults = 0 => Jobs!Next]_jobVars

(* Every admitted job settles, unless PiNOC is stopped first.              *)
JobSettles == \A j \in JobIds : status[j] \in Pending ~> status[j] \in Terminal \/ stop_event
=============================================================================
