------------------------------ MODULE Schedules -----------------------------
(***************************************************************************)
(* pinoc/schedules.py: one scheduled action of one device.  Its row is     *)
(* written by the service thread, whose tick() first learns the outcome of *)
(* the last job (_reconcile) and then fires what is due (_fire_due), by    *)
(* update() and delete() and by run_now() in HTTP threads.  Every write    *)
(* is decided from a row read before, and nobody takes self.lock.          *)
(*                                                                         *)
(* next_run is "null", in the "future" or "due"; a one-shot is `over` once *)
(* its time has come.  Jobs are those of ActionJobs.                       *)
(***************************************************************************)
EXTENDS ActionJobs, Naturals, FiniteSetsExt

CONSTANTS Device,       (* action_schedules.device_id                        *)
          NoJob,        (* last_job_id is NULL                               *)
          ManualJobs,   (* the job ids run_now() draws, the others are fired *)
          MaxFailures,  (* MAX_CONSECUTIVE_FAILURES                          *)
          MaxEdits,     (* bound on update() and delete()                    *)
          MaxRestarts   (* bound on restarts of the process                  *)

ASSUME SchedulesAssumption == /\ Device \in Devices
                              /\ JobIds \subseteq Nat /\ ManualJobs \subseteq JobIds
                              /\ NoJob \notin JobIds
                              /\ MaxFailures \in Nat \ {0}
                              /\ MaxEdits \in Nat /\ MaxRestarts \in Nat

VARIABLES row,      (* the row of action_schedules                           *)
          tick,     (* the service thread: where it is, the row it read and  *)
                    (* the job it has queued                                 *)
          editor,   (* the thread of update() or delete()                    *)
          runner,   (* the thread of run_now()                               *)
          fired,    (* jobs the tick has queued for the slot that is due     *)
          learnt,   (* jobs whose outcome _reconcile() has counted           *)
          edits, restarts,
          stale,    (* an update() has written over what it had not read     *)
          cut       (* the process ended between the job of the slot that is *)
                    (* due and the record of it                              *)

counts == <<edits, restarts, stale, cut>>
vars == <<jobVars, row, tick, editor, runner, fired, learnt, counts>>

Specs      == {"cron", "once"}
Edits      == {"pause", "resume", "respec", "save", "delete"}
FailureCap == MaxFailures + 1   (* bound: more failures than that are not told apart *)

NoRow     == [exists |-> FALSE, spec |-> "cron", over |-> FALSE, paused |-> FALSE,
              next |-> "null", job |-> NoJob, last |-> "null", failures |-> 0]

(* What a thread keeps of the row it has read.                             *)
TickRead == [spec |-> row.spec, job |-> row.job, failures |-> row.failures]
EditRead == [paused |-> row.paused, next |-> row.next, failures |-> row.failures]

NoTickRead == [spec |-> "cron", job |-> NoJob, failures |-> 0]
NoEditRead == [paused |-> FALSE, next |-> "null", failures |-> 0]
IdleTick   == [at |-> "idle", seen |-> NoTickRead, job |-> NoJob]
IdleEditor == [at |-> "idle", what |-> "save", spec |-> "cron", over |-> FALSE, seen |-> NoEditRead]
IdleRunner == [at |-> "idle", job |-> NoJob]

Plus1(n) == Min({n + 1, FailureCap})

(* Mutation of Exhausted: one failure too many.                            *)
ExhaustedLate(n) == n > MaxFailures
Exhausted(n) == n >= MaxFailures

(* next_after(): the slot after now, none for a one-shot that is over.     *)
NextAfter(spec, over) == IF spec = "once" /\ over THEN "null" ELSE "future"

(* An UPDATE of a row that has been deleted changes nothing.               *)
Update(new) == row' = IF row.exists THEN new ELSE row

SchedulesInit == /\ Init
                 /\ row = NoRow
                 /\ tick = IdleTick
                 /\ editor = IdleEditor
                 /\ runner = IdleRunner
                 /\ fired = 0
                 /\ learnt = {}
                 /\ edits = 0 /\ restarts = 0
                 /\ stale = FALSE /\ cut = FALSE

-----------------------------------------------------------------------------
(* create(): the spec has to have a time to come.                          *)
Create(spec) == /\ ~row.exists /\ edits = 0
                /\ row' = [NoRow EXCEPT !.exists = TRUE, !.spec = spec, !.next = "future"]
                /\ UNCHANGED <<jobVars, tick, editor, runner, fired, learnt, counts>>

(* The clock.  The slot of next_run comes; a one-shot's own time passes    *)
(* also while its row is paused or waits for a retry.                      *)
TimePasses == /\ row.next = "future"
              /\ row' = [row EXCEPT !.next = "due", !.over = row.spec = "once"]
              /\ fired' = 0 /\ cut' = FALSE
              /\ UNCHANGED <<jobVars, tick, editor, runner, learnt, edits, restarts, stale>>

OncePasses == /\ row.exists /\ row.spec = "once" /\ ~row.over /\ row.next = "null"
              /\ row' = [row EXCEPT !.over = TRUE]
              /\ UNCHANGED <<jobVars, tick, editor, runner, fired, learnt, counts>>

-----------------------------------------------------------------------------
(* tick(): _reconcile().                                                   *)

(* Mutation of Unlearnt: paused rows are not reconciled.                   *)
UnlearntActive == row.last \in {"queued", "dispatch_failed"} /\ ~row.paused

(* last_status is not one of the terminal ones.                            *)
Unlearnt == row.last \in {"queued", "dispatch_failed"}

TickBegin == /\ tick.at = "idle"
             /\ tick' = IF row.exists /\ row.job # NoJob /\ Unlearnt /\ status[row.job] \in Terminal
                        THEN [IdleTick EXCEPT !.at = "learn", !.seen = TickRead]
                        ELSE [IdleTick EXCEPT !.at = "fire"]
             /\ UNCHANGED <<jobVars, row, editor, runner, fired, learnt, counts>>

(* A success clears the failures and the pause; a failure counts, and ends *)
(* a one-shot.  Either way the next slot is computed anew.                 *)
Learn ==
    LET won      == status[tick.seen.job] = "succeeded"
        failures == IF won THEN 0 ELSE Plus1(tick.seen.failures)
    IN /\ tick.at = "learn"
       /\ Update([row EXCEPT !.last = status[tick.seen.job],
                             !.failures = failures,
                             !.paused = ~won /\ (tick.seen.spec = "once" \/ Exhausted(failures)),
                             !.next = NextAfter(tick.seen.spec, row.over)])
       /\ learnt' = learnt \cup {tick.seen.job}
       /\ tick' = [IdleTick EXCEPT !.at = "fire"]
       /\ UNCHANGED <<jobVars, editor, runner, fired, counts>>

(* _fire_due() and _dispatch_one().                                        *)

(* Mutation of FireDue: a row whose last dispatch failed is passed over.   *)
FireDueFresh == /\ tick.at = "fire"
                /\ tick' = IF row.exists /\ ~row.paused /\ row.next = "due"
                              /\ row.last # "dispatch_failed"
                           THEN [tick EXCEPT !.at = "dispatch", !.seen = TickRead] ELSE IdleTick
                /\ UNCHANGED <<jobVars, row, editor, runner, fired, learnt, counts>>

FireDue == /\ tick.at = "fire"
           /\ tick' = IF row.exists /\ ~row.paused /\ row.next = "due"
                      THEN [tick EXCEPT !.at = "dispatch", !.seen = TickRead] ELSE IdleTick
           /\ UNCHANGED <<jobVars, row, editor, runner, fired, learnt, counts>>

(* ActionDispatcher.enqueue() with the next fresh job id of a caller.      *)
Queue(j, ids) == /\ j \in ids
                 /\ \A i \in ids : i < j => status[i] # "absent"
                 /\ Enqueue(j, Device, TRUE)

Dispatch(j) == /\ tick.at = "dispatch"
               /\ Queue(j, JobIds \ ManualJobs)
               /\ tick' = [tick EXCEPT !.at = "record", !.job = j]
               /\ fired' = Min({fired + 1, 2})
               /\ UNCHANGED <<row, editor, runner, learnt, counts>>

(* The device is offline or busy, or its target is no longer approved.     *)
Refuse == /\ tick.at = "dispatch"
          /\ tick' = [tick EXCEPT !.at = "refused"]
          /\ UNCHANGED <<jobVars, row, editor, runner, fired, learnt, counts>>

(* Mutation of RecordFired: the slot is not moved on.                      *)
RecordFiredDue ==
    /\ tick.at = "record"
    /\ Update([row EXCEPT !.job = tick.job, !.last = "queued", !.paused = FALSE])
    /\ tick' = IdleTick
    /\ UNCHANGED <<jobVars, editor, runner, fired, learnt, counts>>

(* A one-shot is consumed.                                                 *)
RecordFired ==
    /\ tick.at = "record"
    /\ Update([row EXCEPT !.job = tick.job, !.last = "queued", !.paused = FALSE,
                          !.next = IF tick.seen.spec = "once" THEN "null" ELSE "future"])
    /\ tick' = IdleTick
    /\ UNCHANGED <<jobVars, editor, runner, fired, learnt, counts>>

RecordRefused ==
    LET failures == Plus1(tick.seen.failures) IN
    /\ tick.at = "refused"
    /\ Update([row EXCEPT !.last = "dispatch_failed", !.failures = failures,
                          !.paused = Exhausted(failures),
                          !.next = IF Exhausted(failures) THEN "null" ELSE "future"])
    /\ tick' = IdleTick
    /\ UNCHANGED <<jobVars, editor, runner, fired, learnt, counts>>

-----------------------------------------------------------------------------
(* update() and delete(): the read, then the write.  To pause what is      *)
(* paused, or to resume what is not, is to save.  A new one-shot may lie   *)
(* in the past, which validate_spec() lets pass.                           *)
EditBegin(what, spec, over) ==
    /\ editor.at = "idle" /\ row.exists /\ edits < MaxEdits
    /\ what = "pause" => ~row.paused
    /\ what = "resume" => row.paused
    /\ what # "respec" => spec = row.spec /\ over = row.over
    /\ over => spec = "once"
    /\ editor' = [at |-> "write", what |-> what, spec |-> spec, over |-> over,
                  seen |-> EditRead]
    /\ edits' = edits + 1
    /\ UNCHANGED <<jobVars, row, tick, runner, fired, learnt, restarts, stale, cut>>

EditWrite ==
    LET seen   == editor.seen
        respec == editor.what = "respec"
        paused == \/ editor.what = "pause"
                  \/ editor.what # "resume" /\ seen.paused
        over   == IF respec THEN editor.over ELSE row.over
    IN /\ editor.at = "write" /\ editor.what # "delete"
       /\ Update([row EXCEPT !.spec = editor.spec, !.over = over, !.paused = paused,
                             !.failures = IF respec \/ (seen.paused /\ ~paused) THEN 0
                                          ELSE seen.failures,
                             !.next = IF paused THEN "null"
                                      ELSE IF respec \/ seen.paused
                                           THEN NextAfter(editor.spec, over) ELSE seen.next])
       /\ editor' = IdleEditor
       /\ stale' = (stale \/ seen # EditRead)
       /\ UNCHANGED <<jobVars, tick, runner, fired, learnt, edits, restarts, cut>>

Delete == /\ editor.at = "write" /\ editor.what = "delete"
          /\ row' = NoRow
          /\ editor' = IdleEditor
          /\ UNCHANGED <<jobVars, tick, runner, fired, learnt, counts>>

(* run_now(): the job, then the record of it.                              *)
RunNow(j) == /\ runner.at = "idle" /\ row.exists
             /\ Queue(j, ManualJobs)
             /\ runner' = [at |-> "record", job |-> j]
             /\ UNCHANGED <<row, tick, editor, fired, learnt, counts>>

RecordRunNow == /\ runner.at = "record"
                /\ Update([row EXCEPT !.job = runner.job, !.last = "queued"])
                /\ runner' = IdleRunner
                /\ UNCHANGED <<jobVars, tick, editor, fired, learnt, counts>>

-----------------------------------------------------------------------------
(* The dispatcher and the process.  To the tick a job that timed out is    *)
(* one that failed.                                                        *)
JobStarts(j) == /\ Start(j)
                /\ UNCHANGED <<row, tick, editor, runner, fired, learnt, counts>>

JobFinishes(j) == /\ \E outcome \in {"succeeded", "failed"} : Finish(j, outcome)
                  /\ UNCHANGED <<row, tick, editor, runner, fired, learnt, counts>>

Restart == /\ restarts < MaxRestarts
           /\ restarts' = restarts + 1
           /\ FailPending
           /\ tick' = IdleTick
           /\ editor' = IdleEditor
           /\ runner' = IdleRunner
           /\ cut' = (cut \/ tick.at = "record")
           /\ UNCHANGED <<row, fired, learnt, edits, stale>>

-----------------------------------------------------------------------------
TickStep == \/ Learn \/ FireDue \/ Refuse \/ RecordFired \/ RecordRefused
            \/ \E j \in JobIds : Dispatch(j)

SchedulesNext == \/ \E spec \in Specs : Create(spec)
                 \/ TimePasses \/ OncePasses
                 \/ TickBegin \/ TickStep
                 \/ \E what \in Edits, spec \in Specs, over \in BOOLEAN : EditBegin(what, spec, over)
                 \/ EditWrite \/ Delete
                 \/ \E j \in JobIds : RunNow(j) \/ JobStarts(j) \/ JobFinishes(j)
                 \/ RecordRunNow
                 \/ Restart

SchedulesSpec == SchedulesInit /\ [][SchedulesNext]_vars

(* The tick goes on, requests come to their end, workers work.             *)
Fairness == /\ WF_vars(TickBegin) /\ WF_vars(TickStep)
            /\ WF_vars(EditWrite \/ Delete) /\ WF_vars(RecordRunNow)
            /\ \A j \in JobIds : WF_vars(JobStarts(j)) /\ WF_vars(JobFinishes(j))

FairSpec == SchedulesSpec /\ Fairness

-----------------------------------------------------------------------------
Rows == [exists : BOOLEAN, spec : Specs, over : BOOLEAN, paused : BOOLEAN,
         next : {"null", "future", "due"}, job : JobIds \cup {NoJob},
         last : {"null", "queued", "dispatch_failed"} \cup Terminal, failures : 0..FailureCap]
Ticks   == [at : {"idle", "learn", "fire", "dispatch", "record", "refused"},
            seen : [spec : Specs, job : JobIds \cup {NoJob}, failures : 0..FailureCap],
            job : JobIds \cup {NoJob}]
Editors == [at : {"idle", "write"}, what : Edits, spec : Specs, over : BOOLEAN,
            seen : [paused : BOOLEAN, next : {"null", "future", "due"}, failures : 0..FailureCap]]
Runners == [at : {"idle", "record"}, job : JobIds \cup {NoJob}]

(* The row, the threads and the counters stay in their domains.            *)
TypeOK == /\ JobsTypeOK /\ row \in Rows
          /\ tick \in Ticks /\ editor \in Editors /\ runner \in Runners
          /\ fired \in 0..2 /\ learnt \subseteq JobIds
          /\ edits \in 0..MaxEdits /\ restarts \in 0..MaxRestarts
          /\ stale \in BOOLEAN /\ cut \in BOOLEAN

(* A slot is fired once: nobody finds it due again while its job is queued *)
(* or after it, whatever was edited or restarted, unless an update() wrote *)
(* back a row that had changed since it read it, or the process ended      *)
(* between the job of this slot and the record of it.                      *)
SlotFiredOnce == ~stale /\ ~cut => fired <= 1

(* A row with MAX_CONSECUTIVE_FAILURES is paused, manual runs, edits and   *)
(* restarts notwithstanding, unless an update() wrote back a row that had  *)
(* changed since it read it.                                               *)
AutoPauseHolds == ~stale => (row.failures >= MaxFailures => row.paused)

(* A slot that comes due does not stay due: it is fired, refused, moved on *)
(* or paused.                                                              *)
DueSlotHandled == row.exists /\ row.next = "due" ~> row.next # "due" \/ row.paused

(* The outcome of a fired job a row shows is learnt, whatever is edited or *)
(* restarted, unless another job takes its place.                          *)
OutcomeLearnt == \A j \in JobIds \ ManualJobs :
    row.job = j /\ status[j] \in Terminal ~> j \in learnt \/ row.job # j

=============================================================================
