------------------------------- MODULE Rollout ------------------------------
(***************************************************************************)
(* pinoc/rollout.py: one staged update run.  Three threads share its rows  *)
(* and the job table: create_run() and cancel() in HTTP threads, and the   *)
(* service thread, whose tick() reads the run, walks the rows of the       *)
(* current wave and then tries to advance.  Each SQL write is a step of    *)
(* its own; the reads a write is decided from belong to the step before    *)
(* it, so another thread can act between a decision and its write.         *)
(*                                                                         *)
(* Jobs are those of ActionJobs.  What the tick sees of a device is        *)
(* view[d], the entry of the state cache, not the device.                  *)
(***************************************************************************)
EXTENDS ActionJobs, Integers, FiniteSets, FiniteSetsExt

CONSTANTS Requests,           (* what a run may be created with                 *)
          Observations,       (* what a collection may put in the state cache   *)
          NoJob,              (* a job id column that is NULL                   *)
          Cancellable,        (* whether an operator may cancel the run         *)
          MaxFaults           (* bound: restarts and statements that fail       *)

(* Devices are numbered in the order of their ids (ORDER BY device_id); a  *)
(* job id says what it was drawn for, which no step looks at.              *)
ASSUME RolloutAssumption ==
    /\ Devices \subseteq Nat \ {0} /\ IsFiniteSet(Devices)
    /\ Requests \subseteq [canary : SUBSET Nat, count : Nat, size : Nat, respects : BOOLEAN]
    /\ Cancellable \in BOOLEAN
    /\ Observations \subseteq [online : BOOLEAN, critical : BOOLEAN, maintenance : BOOLEAN]
    /\ JobIds \subseteq [device : Devices, action : {"apt.upgrade", "device.reboot"},
                         try : Nat]
    /\ NoJob \notin JobIds
    /\ MaxFaults \in Nat

VARIABLES run,       (* rollout_runs: status, current_wave and the plan        *)
          row,       (* rollout_devices, one record per device                 *)
          tick,      (* the service thread: where it is in tick(), and its row *)
          canceller, (* the thread of cancel()                                 *)
          creating,  (* devices whose row create_run() has yet to INSERT       *)
          view,      (* state.device(d)                                        *)
          down,      (* devices that took a reboot and are not back            *)
          overdue,   (* devices past REBOOT_TIMEOUT_SECONDS since reboot_at    *)
          flagged,   (* update jobs whose summary says reboot_required=1       *)
          faults,    (* restarts of the process and statements that failed     *)
          cut        (* one of them came between a failed row and its halt     *)

worldVars == <<view, down, overdue, flagged>>
faultVars == <<faults, cut>>
vars == <<jobVars, run, row, tick, canceller, creating, worldVars, faultVars>>

Active   == {"not_started", "pending", "updating", "rebooting", "verifying"}
(* plan_waves(): the canary devices that were named and are selected, or    *)
(* the first `count` of the selection; then the others, `size` at a time.   *)
PlanWaves(r) ==
    LET Before(d, S) == Cardinality({e \in S : e < d})
        named  == r.canary \cap Devices
        canary == IF named # {} THEN named ELSE {d \in Devices : Before(d, Devices) < r.count}
        others == Devices \ canary
        first  == IF canary = {} THEN 0 ELSE 1
    IN  [d \in Devices |-> IF d \in canary THEN 0
                           ELSE IF r.size = 0 THEN first
                           ELSE first + Before(d, others) \div r.size]

(* The plan of the run, and rollout_runs.respect_maintenance.              *)
WaveOf             == run.plan.waveOf
RespectMaintenance == run.plan.respects

Waves     == {WaveOf[d] : d \in Devices}
LastWave  == Max(Waves)
InWave(k) == {d \in Devices : WaveOf[d] = k}
Rows(k)   == {d \in InWave(k) : row[d].status # "none"}

NoRow    == [status |-> "none", update |-> NoJob, reboot |-> NoJob, required |-> FALSE]
NoDev    == 0
IdleTick == [at |-> "idle", todo |-> {}, seen |-> <<>>, dev |-> NoDev, job |-> NoJob]

At(p)       == tick' = [tick EXCEPT !.at = p]
SetRow(d, s) == row' = [row EXCEPT ![d] = [@ EXCEPT !.status = s]]

(* health.evaluate(), as far as the gate asks: an offline or a maintained  *)
(* device is classified before anything about it is found critical.        *)
Health(v) == IF ~v.online THEN "offline"
             ELSE IF v.maintenance THEN "maintenance"
             ELSE IF v.critical THEN "critical"
             ELSE "healthy"

RolloutInit ==
    /\ Init
    /\ run \in {[status |-> "none", wave |-> 0,
                plan |-> [waveOf |-> PlanWaves(r), respects |-> r.respects]] : r \in Requests}
    /\ row = [d \in Devices |-> NoRow]
    /\ tick = IdleTick
    /\ canceller = "idle"
    /\ creating = {}
    /\ view \in [Devices -> Observations]
    /\ down = {}
    /\ overdue = {}
    /\ flagged = {}
    /\ faults = 0 /\ cut = FALSE

-----------------------------------------------------------------------------
(* create_run(): the run is 'running' before its first device row exists;  *)
(* rows follow in wave order.  Mutation of InsertRow: no wave is opened.   *)
CreateRun == /\ run.status = "none"
             /\ run' = [run EXCEPT !.status = "running"]
             /\ creating' = Devices
             /\ UNCHANGED <<jobVars, row, tick, canceller, worldVars, faultVars>>

InsertNotStarted(d) == /\ d \in creating
                       /\ \A e \in creating : WaveOf[d] <= WaveOf[e]
                       /\ SetRow(d, "not_started")
                       /\ creating' = creating \ {d}
                       /\ UNCHANGED <<jobVars, run, tick, canceller, worldVars, faultVars>>

InsertRow(d) == /\ d \in creating
                /\ \A e \in creating : WaveOf[d] <= WaveOf[e]
                /\ SetRow(d, IF WaveOf[d] = 0 THEN "pending" ELSE "not_started")
                /\ creating' = creating \ {d}
                /\ UNCHANGED <<jobVars, run, tick, canceller, worldVars, faultVars>>

-----------------------------------------------------------------------------
(* tick() and _advance().                                                  *)
TickBegin ==
    LET todo == Rows(run.wave) IN
    /\ tick.at = "idle"
    /\ run.status = "running"
    /\ tick' = [IdleTick EXCEPT !.at = "rows", !.todo = todo,
                                !.seen = [d \in todo |-> row[d].status]]
    /\ UNCHANGED <<jobVars, run, row, canceller, creating, worldVars, faultVars>>

(* What the tick will do about row d, from the status it read when it began, *)
(* the state cache and the job table.  "rows" is nothing yet.              *)
JobOutcome(j) == IF j = NoJob \/ status[j] \in Pending THEN "pending"
                 ELSE IF status[j] = "succeeded" THEN "succeeded" ELSE "failed"

MaybeDispatchUpdate(d) == IF RespectMaintenance /\ ~view[d].maintenance THEN "rows" ELSE "dispatch"

ReconcileUpdate(d) == LET outcome == JobOutcome(row[d].update)
                      IN IF outcome = "pending" THEN "rows"
                         ELSE IF outcome = "failed" THEN "fail"
                         ELSE IF row[d].update \in flagged THEN "reboot" ELSE "verifying"

ReconcileReboot(d) == LET outcome == JobOutcome(row[d].reboot)
                      IN IF outcome = "pending" THEN "rows"
                         ELSE IF outcome = "failed" THEN "fail" ELSE "verifying"

VerifyHealth(d) == IF row[d].required /\ ~view[d].online
                   THEN IF d \in overdue THEN "fail" ELSE "rows"
                   ELSE IF Health(view[d]) = "critical" THEN "fail" ELSE "succeed"

Decision(d) == CASE tick.seen[d] = "pending"   -> MaybeDispatchUpdate(d)
                 [] tick.seen[d] = "updating"  -> ReconcileUpdate(d)
                 [] tick.seen[d] = "rebooting" -> ReconcileReboot(d)
                 [] tick.seen[d] = "verifying" -> VerifyHealth(d)
                 [] OTHER                      -> "rows"

NextRow == \E d \in tick.todo :
    /\ tick.at = "rows"
    /\ \A e \in tick.todo : d <= e
    /\ tick' = IF run.status = "running"
               THEN [tick EXCEPT !.at = Decision(d), !.todo = @ \ {d}, !.dev = d]
               ELSE IdleTick
    /\ UNCHANGED <<jobVars, run, row, canceller, creating, worldVars, faultVars>>

(* ActionDispatcher.enqueue(): refused while the device is offline or has a *)
(* pending job, this run's or, at any moment, that of another client, and  *)
(* then the row fails; else the job is in the table.                       *)
EnqueueFor(d, action, next) ==
    \/ /\ view[d].online /\ PendingOn(d) = {}
       /\ \E j \in JobIds :
              /\ j.device = d /\ j.action = action
              /\ \A i \in JobIds : i.device = d /\ i.action = action /\ i.try < j.try
                                   => status[i] # "absent"
              /\ Enqueue(j, d, TRUE)
              /\ tick' = [tick EXCEPT !.at = next, !.job = j]
    \/ /\ At("fail")
       /\ UNCHANGED jobVars

Dispatch == /\ tick.at = "dispatch"
            /\ EnqueueFor(tick.dev, "apt.upgrade", "record_update")
            /\ UNCHANGED <<run, row, canceller, creating, worldVars, faultVars>>

RecordUpdate == /\ tick.at = "record_update"
                /\ row' = [row EXCEPT ![tick.dev] = [@ EXCEPT !.status = "updating", !.update = tick.job]]
                /\ At("rows")
                /\ UNCHANGED <<jobVars, run, canceller, creating, worldVars, faultVars>>

(* Mutation of Reboot: a refused reboot is left out.                       *)
RebootIfAccepted == /\ tick.at = "reboot"
                    /\ \/ /\ EnqueueFor(tick.dev, "device.reboot", "record_reboot")
                          /\ tick'.at # "fail"
                       \/ /\ ~view[tick.dev].online
                          /\ At("verifying")
                          /\ UNCHANGED jobVars
                    /\ UNCHANGED <<run, row, canceller, creating, worldVars, faultVars>>

Reboot == /\ tick.at = "reboot"
          /\ EnqueueFor(tick.dev, "device.reboot", "record_reboot")
          /\ UNCHANGED <<run, row, canceller, creating, worldVars, faultVars>>

RecordReboot == /\ tick.at = "record_reboot"
                /\ row' = [row EXCEPT ![tick.dev] = [@ EXCEPT !.status = "rebooting",
                                                             !.reboot = tick.job,
                                                             !.required = TRUE]]
                /\ At("rows")
                /\ UNCHANGED <<jobVars, run, canceller, creating, worldVars, faultVars>>

RecordVerifying == /\ tick.at = "verifying"
                   /\ SetRow(tick.dev, "verifying")
                   /\ At("rows")
                   /\ UNCHANGED <<jobVars, run, canceller, creating, worldVars, faultVars>>

RecordSuccess == /\ tick.at = "succeed"
                 /\ SetRow(tick.dev, "succeeded")
                 /\ At("rows")
                 /\ UNCHANGED <<jobVars, run, canceller, creating, worldVars, faultVars>>

(* Mutation of RecordFailure: the halt is left to _maybe_advance_wave().    *)
RecordFailureOnly == /\ tick.at = "fail"
                     /\ SetRow(tick.dev, "failed")
                     /\ At("rows")
                     /\ UNCHANGED <<jobVars, run, canceller, creating, worldVars, faultVars>>

RecordFailure == /\ tick.at = "fail"
                 /\ SetRow(tick.dev, "failed")
                 /\ At("halt")
                 /\ UNCHANGED <<jobVars, run, canceller, creating, worldVars, faultVars>>

(* _halt() of the service thread; after it the loop goes on to the next    *)
(* row, where the run is found not to be running.                          *)
TickHalt == /\ tick.at = "halt"
            /\ IF run.status = "running" THEN At("halting") ELSE At("rows")
            /\ UNCHANGED <<jobVars, run, row, canceller, creating, worldVars, faultVars>>

TickHaltRun == /\ tick.at = "halting"
               /\ run' = [run EXCEPT !.status = "halted"]
               /\ At("skipping")
               /\ UNCHANGED <<jobVars, row, canceller, creating, worldVars, faultVars>>

SkipRows == row' = [d \in Devices |-> IF row[d].status \in {"not_started", "pending"}
                                      THEN [row[d] EXCEPT !.status = "skipped"] ELSE row[d]]

TickSkipRows == /\ tick.at = "skipping"
                /\ SkipRows
                /\ At("rows")
                /\ UNCHANGED <<jobVars, run, canceller, creating, worldVars, faultVars>>

(* Every row has been looked at: the run is read once more, and then its   *)
(* rows, by _maybe_advance_wave().                                         *)
AfterRows == /\ tick.at = "rows"
             /\ tick.todo = {}
             /\ tick' = IF run.status = "running" THEN [IdleTick EXCEPT !.at = "wave"] ELSE IdleTick
             /\ UNCHANGED <<jobVars, run, row, canceller, creating, worldVars, faultVars>>

(* Mutation of Advancement: rows still being worked on do not hold the     *)
(* wave back.                                                              *)
AdvancementEager(statuses) ==
    IF statuses = {} THEN "idle"
    ELSE IF "failed" \in statuses THEN "halt"
    ELSE IF run.wave >= LastWave THEN "complete" ELSE "advance"

Advancement(statuses) ==
    IF statuses = {} \/ statuses \cap Active # {} THEN "idle"
    ELSE IF "failed" \in statuses THEN "halt"
    ELSE IF run.wave >= LastWave THEN "complete" ELSE "advance"

ReadWave == /\ tick.at = "wave"
            /\ At(Advancement({row[d].status : d \in Rows(run.wave)}))
            /\ UNCHANGED <<jobVars, run, row, canceller, creating, worldVars, faultVars>>

Complete == /\ tick.at = "complete"
            /\ run' = [run EXCEPT !.status = "completed"]
            /\ tick' = IdleTick
            /\ UNCHANGED <<jobVars, row, canceller, creating, worldVars, faultVars>>

AdvanceWave == /\ tick.at = "advance"
               /\ run' = [run EXCEPT !.wave = @ + 1]
               /\ At("open")
               /\ UNCHANGED <<jobVars, row, canceller, creating, worldVars, faultVars>>

(* Every row of the new wave becomes 'pending', whatever it was.           *)
OpenWave == /\ tick.at = "open"
            /\ row' = [d \in Devices |-> IF d \in Rows(run.wave)
                                         THEN [row[d] EXCEPT !.status = "pending"] ELSE row[d]]
            /\ tick' = IdleTick
            /\ UNCHANGED <<jobVars, run, canceller, creating, worldVars, faultVars>>

-----------------------------------------------------------------------------
(* cancel(), through _halt().                                              *)
Cancel == /\ Cancellable
          /\ canceller = "idle"
          /\ run.status = "running"
          /\ canceller' = "halting"
          /\ UNCHANGED <<jobVars, run, row, tick, creating, worldVars, faultVars>>

CancelHaltRun == /\ canceller = "halting"
                 /\ run' = [run EXCEPT !.status = "halted"]
                 /\ canceller' = "skipping"
                 /\ UNCHANGED <<jobVars, row, tick, creating, worldVars, faultVars>>

CancelSkipRows == /\ canceller = "skipping"
                  /\ SkipRows
                  /\ canceller' = "idle"
                  /\ UNCHANGED <<jobVars, run, tick, creating, worldVars, faultVars>>

-----------------------------------------------------------------------------
(* The dispatcher, the collector, time and the process.                    *)
JobStarts(j) == /\ Start(j)
                /\ UNCHANGED <<run, row, tick, canceller, creating, worldVars, faultVars>>

(* To the tick a job that timed out is one that failed.                    *)
Outcomes == {"succeeded", "failed"}

(* A finished update says whether a reboot is pending; a reboot that took  *)
(* brings the device down.  A remote command outlasts the INSERTs of       *)
(* create_run().                                                           *)
JobFinishes(j, outcome) ==
    /\ creating = {}
    /\ Finish(j, outcome)
    /\ \/ flagged' = flagged
       \/ j.action = "apt.upgrade" /\ outcome = "succeeded" /\ flagged' = flagged \cup {j}
    /\ down' = IF j.action = "device.reboot" /\ outcome = "succeeded"
               THEN down \cup {j.device} ELSE down
    /\ UNCHANGED <<run, row, tick, canceller, creating, view, overdue, faultVars>>

(* A collection of device d.  One that fails, as it does while the device  *)
(* is down, leaves the last data in place, and `online` with it until      *)
(* offline_seconds have passed.                                            *)
Collect(d) == \E o \in Observations :
                  /\ d \in down => o \in {view[d], [view[d] EXCEPT !.online = FALSE]}
                  /\ o # view[d]
                  /\ view' = [view EXCEPT ![d] = o]
                  /\ UNCHANGED <<jobVars, run, row, tick, canceller, creating, down, overdue,
                                 flagged, faultVars>>

ComesBack(d) == /\ d \in down
                /\ down' = down \ {d}
                /\ UNCHANGED <<jobVars, run, row, tick, canceller, creating, view, overdue,
                               flagged, faultVars>>

TimePasses(d) == /\ row[d].required
                 /\ overdue' = overdue \cup {d}
                 /\ UNCHANGED <<jobVars, run, row, tick, canceller, creating, view, down,
                                flagged, faultVars>>

(* What a fault cuts: a row has failed and its run is not halted yet.      *)
Unhalted == run.status = "running" /\ \E d \in Devices : row[d].status = "failed"

Fault == /\ faults < MaxFaults
         /\ faults' = faults + 1
         /\ cut' = (cut \/ Unhalted)
         /\ UNCHANGED <<run, row, worldVars>>

(* A statement fails: execute() raises, and the thread gives up what it    *)
(* was doing; rows() returns nothing, which ends the tick of the run too,  *)
(* but lets it go on to the next row when _halt() or _job() reads.         *)
TickFails == /\ tick.at # "idle"
             /\ \/ tick' = IdleTick
                \/ tick.at = "halt" /\ At("rows")
                \/ tick.at = "rows" /\ \E d \in tick.todo : tick' = [tick EXCEPT !.todo = @ \ {d}]
             /\ Fault
             /\ UNCHANGED <<jobVars, canceller, creating>>

CreateFails == /\ creating # {}
               /\ creating' = {}
               /\ Fault
               /\ UNCHANGED <<jobVars, tick, canceller>>

CancelFails == /\ canceller # "idle"
               /\ canceller' = "idle"
               /\ Fault
               /\ UNCHANGED <<jobVars, tick, creating>>

(* The process is restarted: threads are gone wherever they were, and      *)
(* ActionDispatcher.__init__ fails what was pending.                       *)
Restart == /\ FailPending
           /\ tick' = IdleTick
           /\ canceller' = "idle"
           /\ creating' = {}
           /\ Fault

-----------------------------------------------------------------------------
TickStep == \/ NextRow \/ Dispatch \/ RecordUpdate \/ Reboot \/ RecordReboot \/ RecordVerifying
            \/ RecordSuccess \/ RecordFailure \/ TickHalt \/ TickHaltRun \/ TickSkipRows
            \/ AfterRows \/ ReadWave \/ Complete \/ AdvanceWave \/ OpenWave

RolloutNext == \/ CreateRun
               \/ \E d \in Devices : InsertRow(d) \/ Collect(d) \/ ComesBack(d) \/ TimePasses(d)
               \/ TickBegin
               \/ TickStep
               \/ Cancel \/ CancelHaltRun \/ CancelSkipRows
               \/ \E j \in JobIds : JobStarts(j)
               \/ \E j \in JobIds, outcome \in Outcomes : JobFinishes(j, outcome)
               \/ TickFails \/ CreateFails \/ CancelFails \/ Restart

RolloutSpec == RolloutInit /\ [][RolloutNext]_vars

(* The service thread keeps ticking, the dispatcher and the devices answer, *)
(* the clock runs, and create_run() runs to its end.  Nobody has to cancel. *)
Fairness == /\ WF_vars(TickBegin) /\ WF_vars(TickStep)
            /\ WF_vars(CancelHaltRun \/ CancelSkipRows)
            /\ WF_vars(\E d \in Devices : InsertRow(d))
            /\ \A j \in JobIds : /\ WF_vars(JobStarts(j))
                                 /\ WF_vars(\E outcome \in Outcomes : JobFinishes(j, outcome))
            /\ \A d \in Devices : WF_vars(TimePasses(d))

FairSpec == RolloutSpec /\ Fairness

-----------------------------------------------------------------------------
Updated(d)     == \E j \in JobIds : j.device = d /\ j.action = "apt.upgrade" /\ status[j] # "absent"
WaveStarted(k) == \E d \in InWave(k) : Updated(d)

(* No device of a later wave is touched before every device of the earlier *)
(* waves has passed its gate, however cancel() and restarts interleave.    *)
WaveGate == \A d, e \in Devices : Updated(d) /\ WaveOf[e] < WaveOf[d] => row[e].status = "succeeded"

(* A device whose update left a reboot pending is only counted a success   *)
(* after a reboot job of the run has succeeded on it.                      *)
PendingRebootTaken ==
    \A d \in Devices : row[d].status = "succeeded" /\ row[d].update \in flagged
                       => row[d].reboot # NoJob /\ status[row[d].reboot] = "succeeded"

(* Once a device has failed, the run dispatches nothing more: "the rollout *)
(* halts immediately", siblings of the same wave included, whatever was    *)
(* restarted or failed before or since.  The one exception is a fault that *)
(* came between the UPDATE of the row and that of the run.                 *)
FailureStopsDispatch ==
    [][~cut /\ (\E e \in Devices : row[e].status = "failed")
       => \A d \in Devices : Updated(d)' => Updated(d)]_vars

(* A run that is created, and does not wait for maintenance windows, comes *)
(* to an end, whoever cancels it, unless the process is restarted or a     *)
(* statement fails: that may leave it running for ever.                    *)
RunSettles == run.status = "running" /\ ~RespectMaintenance
              ~> run.status \in {"halted", "completed"} \/ faults > 0
=============================================================================
