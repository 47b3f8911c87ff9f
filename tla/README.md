# PiNOC in TLA+

PiNOC is a Raspberry Pi fleet console: one Python process (Flask request
threads, poll-loop service threads, action workers, collectors) around one
SQLite database and one in-memory state cache, and an agent on each development
device. This directory holds TLA+ models of the parts whose correctness depends
on the order in which those threads act, the TLC instances that check them and
the proofs that TLAPS checks.

## Inventory

What each part keeps, does and shares, what is hard about it, and what makes it
correct. The last column names the module here.

| Part | State | Operations | Hard behaviour | Correct when | Modelled in |
| --- | --- | --- | --- | --- | --- |
| Action dispatcher (`actions.py`) | `action_jobs` rows, FIFO of job ids, `enqueue_lock`, a lock per device | `enqueue`, `_worker`, `_execute`, restart, `stop` | request threads and workers interleave; the database fails between two writes; the FIFO dies with the process | one exclusive job pending per device; one job executing per device; no pending row nobody holds | `ActionJobs`, `ActionDispatcher` |
| Staged rollouts (`rollout.py`) | `rollout_runs`, `rollout_devices` | `create_run`, `cancel`, `tick` | `cancel` races the tick; every decision is a read and a later write; restarts and failing statements between writes; a stale cache behind the health gate | waves in order, behind a passed gate; nothing dispatched after a failure; every run ends | `Rollout` |
| Scheduled actions (`schedules.py`) | `action_schedules` | CRUD, `run_now`, `tick`, reconciliation, retry, auto-pause | one row is written by the tick and by request threads; outcomes arrive a tick later | a slot is fired once; failures pause; a due slot is handled; an outcome is learnt | `Schedules` |
| Development gateway and agent (`development.py`, `pinoc_agent.py`) | `development_jobs` and approvals; the agent's spool | `submit`, `decide`, `cancel`, `claim`, `result`; the agent's claim/run/report loop | lost answers, re-sent results, an agent taken for lost | a job runs at most once, never after it was finished without the agent; the agent gets free | `DevGateway` |
| Remediation (`remediation.py`) | `remediation_runs` | `tick`, `decide`, cooldown, reset | alerts that resolve or reopen between ticks; two deciders; a dispatch a restart keeps from being recorded | attempts bounded; a denial holds; nothing is left of a resolved alert; an open one is worked on | `Remediation` |
| History and alerts (`history.py`) | `alerts`, `previous`, a queue of snapshots; the marks of `device_operational_state` | the writer's reconcile, acknowledge, mute, marks of `actions.py` | a statement fails in the middle of a device; a mark is set or runs out during a pass; three writers of the cache | one open alert per fingerprint; the dashboard catches up | `Alerts`, `AlertLifecycle` |
| Correlation and incidents (`correlation.py`, `incidents.py`) | `alert_clusters`, `incidents` | attach, form, finish, synthesize | members join a cluster in the pass in which others leave it | one incident per event; every transition is told | `Alerts` |
| Anomalies (`anomalies.py`) | `metric_baselines` | observe, reject, re-learn | rejected outliers keep a baseline where it is | a level that stays is learnt | `Baselines` |
| Collection and state cache (`collectors/`, `state.py`, `pi_noc.py`) | scheduler tasks, `snapshots`, forced scans, the cache | poll, `refresh_task`, publish, probes, discovery | eight tasks publish the whole cache, each from its own last results | the cache never knows less; a requested scan is on its way | `Collection` |
| Device checks and repairs (`collectors/fleet.py`, `actions.py`, `history.py`) | `config_snapshots`, published conditions | drift checks, captures, `restore_config`, `enable` | a check that is not due carries old items over; a poll publishes what it read before a repair | what is reported is in the end what is so | `DeviceChecks` |
| Network matrix (`topology.py`, `collectors/network_matrix.py`) | `network_matrix_samples` | segments and pairs, sampling, degraded segment | misleading, lost and late samples; segments that share pairs, or a name | the hint says in the end what the links are | `Links` |
| Environment models (`applications.py`, `repositories.py`, `venvs.py`, `software.py`, `projects.py`, `envstates.py`) | one table each | health poll, refresh of inventories, CRUD, membership | reports late and in any order; edits during a poll | healthy means found healthy lately; nothing learnt is lost; one identity | `EnvStates`, `Applications`, `Inventories`, `Registry`, `LastGood` |
| Notifications (`notifications.py`) | a bounded queue, one worker, a pool of channels | `enqueue`, deliver, `stop` | a full queue, a slow channel, the stop | accepted messages in order, each once, at every channel | `Notifier` |
| Reports (`reports.py`) | `report_runs`, `report_editions` | `generate` by the tick and by operators, pruning | two runs prune by lists read before the other's edition | the newest editions stay | `ReportRuns` |
| SLOs (`slo.py`) | `health_samples` | good and bad seconds, burn rates | window edges, gaps, aged-out samples | every second counted once | `Attainment` |
| Self-monitoring and SLO alerts (`self_monitoring.py`, `slo.py`) | open alerts, `PiNOCState` | tick | reads that come back empty, writes that raise, restarts | alerts follow signals | `Overseers` |
| Database (`database.py`) | a connection per thread and the inode beside it, `schema_version` | statements, `initialize`, migrations | two programs migrate at once; a restore replaces the file | a database reported as ready has every table | `Pool` |
| Backup and saves (`backup.py`, `config_store.py`) | bundles, rotated backups, the database's log | bundle, rotate, save, restore | a crash in the middle of a copy or a restore, a clock that goes back, the log of the database that was replaced | a restorable bundle exists; nothing torn is made of a bundle | `Bundles` |
| Settings and onboarding (`web/app.py`, `config_store.py`, `security.py`) | `config.json`, `config/devices.json` | form, redaction, restore, validation, confirm | placeholders in reordered lists; two administrators | what was not touched stays | `Settings` |
| Health, wave plans (`health.py`, `rollout.py`) | none | `evaluate`, `plan_waves` | boundaries | | `Rollout` (`Health`, `PlanWaves`) |
| Sessions and request limits, dashboards, playbook files, discovery, integrations | per route | CRUD, parsing, network I/O | little of their own | | not modelled |

How they interact: every service calls `ActionDispatcher.enqueue()` from a
thread of its own and reads `action_jobs` later to learn what became of its
job; there are no callbacks. The services, the collectors and the request
threads share the database, where each statement is atomic and nothing spans
two statements, and the state cache, where `publish()` replaces whole snapshots.
What is hard is therefore nearly always the same: a decision taken from a row
or from the cache, and a write that follows after somebody else has acted.

## Modules

| Module | Is | Uses |
| --- | --- | --- |
| `ActionJobs` | the promise of the `action_jobs` table | |
| `ActionDispatcher` | the dispatcher that keeps it | EXTENDS `ActionJobs`, INSTANCE of it for the refinement |
| `Rollout` | a staged update run | EXTENDS `ActionJobs`: the jobs it starts and the other client's |
| `Schedules` | one scheduled action | EXTENDS `ActionJobs` |
| `DevGateway` | development jobs, server and agent | |
| `AlertLifecycle` | the promise of the `alerts` table | |
| `Remediation` | the playbooks | EXTENDS `AlertLifecycle`: the alerts it reads |
| `Alerts` | the alert pipeline from snapshot to cache | INSTANCE `AlertLifecycle` for the refinement |
| `EnvStates` | the health states and their roll-up, as functions | |
| `Applications`, `Registry` | health polls; operators' requests | `EnvStates` |
| `LastGood` | the promise of an inventory | |
| `Inventories` | deployments, virtual environments, components | INSTANCE `LastGood` for the refinement |
| `Collection`, `DeviceChecks`, `Links`, `Baselines`, `Pool`, `Bundles`, `Notifier`, `ReportRuns`, `Attainment`, `Overseers` | one service each | |
| `Services` | the ten of the row above with `Applications`, `Registry` and `Inventories` | EXTENDS the thirteen of them |
| `Settings` | the settings form and the onboarding confirmation | |
| `...Proofs` | theorems about the module of that name | EXTENDS it |
| `MC...` | instances for TLC | EXTENDS the module of that name |

Conventions. One action is one SQL statement, one lock operation or one message;
a read belongs to the action before the write it decides, in the same action
only when the code holds a lock around both or nothing else can write what was
read. A variable that stands for a thread holds where the thread is (`at`) and
what it read. Bounds are constants named `Max...`. Definitions whose comment
begins "Mutation of" are never used by the specifications: each is a plausible
bug, and a property is worth its place only if such a bug violates it.

### ActionJobs and ActionDispatcher (`actions.py`, `database.py`)

`status`, `device` and `exclusive` are columns of `action_jobs` (`exclusive`
stands for the `conflict` field of the action's definition). `queue`,
`enqueue_lock` and `locks` are the attributes of those names. `client[c]` is a
thread in `enqueue()`: `Validate` is `validate()` under the lock, `InsertJob`
the INSERT, `AuditQueued` the audit record, `Put` the `queue.put()` and the
release of the lock. `worker[w]` is a thread in `_worker()`: `Take`,
`LockDevice`, `MarkRunning`, `Settle` (handler and final UPDATE), `Report`
(final audit record, unlock, `task_done`). `Restart` is the end of the process
and the next `__init__`, which fails every pending row; `Stop` is `stop()`.

The database is what makes it interesting. `Database.rows()` answers `[]` while
`available` is FALSE or when its own read fails, so `validate()` finds no
conflict (`ValidateUnread`) and a worker finds no job (`TakeUnread`); a write
that fails raises in its thread (`EnqueueRaises`, `WorkerDies`). `MaxFaults`
bounds these.

`ActionJobs` is the abstract specification. The dispatcher implements it
literally until the first fault (`Promise`), and implements its life cycle
without the conflict check through every fault (`LifeCycle`): after one, a second
exclusive job may be admitted, rows may be stranded in 'queued' until the next
restart, but a job is still started and settled at most once, and the per-device
lock still serializes execution (`DeviceSerialized`).

### Rollout (`rollout.py`)

`run` is the row of `rollout_runs`, `row[d]` that of `rollout_devices`, `tick`
the service thread, `canceller` a request thread in `cancel()`, `creating` what
`create_run()` has yet to insert. A tick reads the run, walks the rows of the
current wave (`NextRow`, whose `Decision` is the branch of `_advance()` the row
calls for), reads the run again (`AfterRows`), reads the wave (`ReadWave`) and
advances; every UPDATE on the way is an action. `_halt()` is two UPDATEs, made by
the tick (`TickHaltRun`, `TickSkipRows`) or by `cancel()` (`CancelHaltRun`,
`CancelSkipRows`). `view[d]` is what the state cache shows of a device, which may
lag behind `down`; `Health` is `health.evaluate` as far as the gate asks. A run is
created from a request (canaries, their count, the size of a wave, whether
windows are respected), from which `PlanWaves` makes the waves as `plan_waves()`
does. What the tick decides of a row is one operator per handler:
`MaybeDispatchUpdate`, `ReconcileUpdate`, `ReconcileReboot`, `VerifyHealth`.

A fault is a restart or a statement that fails (`faults`). A read that comes back
empty lets the tick pass over a row, and a statement that raises ends the tick, which
begins anew (`TickFails`), `create_run()` (`CreateFails`) or `cancel()`
(`CancelFails`), with what was written before left behind. `cut` is history: a fault
came between the UPDATE of a failed row and that of the run, the one place where a
failure does not halt the rollout; a fault anywhere else excuses nothing. One
assumption of timing is made: no remote command ends before `create_run()` has made
its INSERTs (`creating = {}` in `JobFinishes`).

### Schedules (`schedules.py`)

`row` is one row of `scheduled_actions`, with `next_run` reduced to NULL, future
or due and `over` to whether another slot exists. `tick` is the service thread
(`Learn` is an UPDATE of `_reconcile()`, `FireDue`, `Dispatch`, `RecordFired`,
`RecordRefused` are `_fire_due()` and `_dispatch_one()`), `editor` a request
thread in `update()` between its read and its write, `runner` one in `run_now()`
between `enqueue()` and its UPDATE. Four variables are history: `fired`, how often
the slot now due was fired; `learnt`, whose outcomes were reconciled; `stale`, an
`update()` wrote back a row that had changed since it read it; `cut`, the process
ended between the job of the slot now due and its record. The last two are the races
the code admits, and the properties except them and nothing else: other edits and
restarts are in their scope.

### DevGateway (`development.py`, `pinoc_agent.py`)

One device, its agent and the server. `status`, `approval` and `asked` are
`development_jobs.status`, `job_approvals.status` and `cancel_requested`.
`submitting`, `canceller`, `admins` and `checker` are request threads between two
of their statements in `submit()`, `cancel()`, `decide()` and `_agent()`. The
agent's `run()` and `execute_job()` each have at most one request under way;
`beats` and `posts` are the handlers of those requests on the server: the one
whose answer the agent waits for ("live") and one the agent has given up, whose
handler goes on all the same ("stray"). `worker` is `current_job` and where
`execute_job()` is, `cancelled` is `Executor.cancelled`. A delivery may fail
before, while or after its handler acts (`DeliveryFails`), as often as
`MaxAttempts` allows; heartbeats given up, silences, crashes of the agent and
restarts of the server are bounded by `MaxFaults`. `closed` is history (`Observe`):
jobs that were once finished while the agent had nothing of them. "done" stands for
succeeded, failed and timed_out, which no step tells apart.

### Remediation (`remediation.py`) over AlertLifecycle

`alert` is what an operator sees of each fingerprint, changed by the actions of
`AlertLifecycle` at any moment. `row[f]` is the row of `remediation_runs` with the
policy copied when it was made, `tick` the service thread: it reads the open alerts
once (`open`), resets rows whose alert was not among them, then walks the alerts,
deciding from the attempts it read (`read`). Every read and every write is a step:
the rows to be reset are listed (`RowsListed`) before the first is, a row is read
(`Process`) before the request it calls for is written (`TickAsks`, unconditionally,
as `_request_approval()` does) or the action dispatched. `operator` are threads in
`decide()` between the row they read and what they write, `playbook` the policy a
restart loads. `ran`, `unrecorded` and `denied` are history: dispatches since the
last reset, those whose UPDATE a restart prevented, and a denial that was written
while no other operator was deciding and the tick was not about to ask.

### Alerts (`history.py`, `correlation.py`, `incidents.py`, `actions.py`)

`snapshots` is the writer's queue, `hist` the writer with the device it is at, what
it has read and what it has still to tell; `mark` is `device_operational_state`,
written by operators, by `_power()` before its command and by the writer, which
mends marks that ran out. A device that does not answer has one condition, being
offline. `Reconcile` is the INSERT or UPDATE of its alert, `Correlate` the step that
attaches it to a cluster, forms one or finishes it, `Errand` one call of the
notifier or of `incidents`, `RefreshRead` and `RefreshWrite` the two halves of
`_refresh_cache()`; `refresher` is another service in the same two halves. A read
or a statement may fail (`ReadExisting(TRUE)`, `CorrelateFails`, `Abandon`), after
which `available` is FALSE and reads come back empty until a write succeeds. Each
behaviour has one budget of disturbances (`spare`), so that two kinds are not
multiplied with one another. The module implements `AlertLifecycle`: `StateOf(d)`
is what the rows of a device show, and "twice" if two are open.

### Services

Thirteen modules with variables of their own, which share the database file and
nothing of what is modelled. `Services` is their disjoint composition: `subject`
chooses one, whose `Next` and fairness apply, while the others rest in one initial
state (`OthersRest`, which keeps TLC from multiplying their initial states). A
property of one of them thus holds of the composition exactly if it holds of that
module by itself.

- `Applications`: one application, its `instance` rows, the health thread (`poll`)
  from listing to roll-up, operators who archive, add and delete meanwhile, and edit
  any field that a poll looks at, the strategies of the application and of an
  instance included (plain or composite; a target is data). Time is the age of a
  success, up to the freshness `Floor`, at the moment the poll began. `Check` stores
  what a strategy concludes; one that cannot tell leaves the last success, but a
  composite takes such a child's state for an answer (`Composite`): a success it
  makes that way is in `unearned` until a check finds health. `changes` counts
  changed fields.
- `Inventories`: one object of one of three `kind`s with the merge rules of each
  (`Merge`, `DerivedDeployment`, `DerivedComponent`). `reported[s]` is what a source
  said and when; `pass` the refresh thread in its four steps.
- `Registry`: requests of `projects.py` and `repositories.py`, each a read
  (`Look`) and a write; `rows` counts rows of one slug or remote.
- `Collection`: one device. Facts are the number of the `world`'s version that was
  seen, per section; `snapshot`, `results` and `cache` are the three places they
  travel through. Sections with a cadence have an `age`. The device changes once
  (`MaxWorld` is 2).
- `DeviceChecks`: a file, a unit and a listener; `look` is what a poll has read and
  not yet published, `captures` known-good contents on their way to the history,
  `repair` a job in the middle of writing the file.
- `Links`: `Parsed` is the pure part of `topology.py` (segments from the section or
  from tags, pairs, their cap and order); `pings` the newest samples of each pair. A
  segment has its place in the list and its name, since the hint goes by the name and
  takes the first that has it; that of the devices left over is named as the tag
  `Lan` is.
- `Baselines`: numbers are integers because alpha is at its largest; `Deviates` is
  the comparison of a z-score without the division.
- `Attainment`: samples in seconds, `Seconds` the code's sum over the rows of a
  window, as the number of pairs of a row and a second it holds, and `TrueSeconds`
  the definition it is compared with. `Burns` compares, by multiplication, with two
  thresholds of which the fast window's is the higher, as in the code; the rounding of
  a rate to four decimals (slo.py:253) is left out.
- `Overseers`: two ticks of the same code over their own signals and tables.
- `Pool`: each program's cached connection and inode (`cached`), the file behind it
  and what ran on every file there ever was (`schema`).
- `Bundles`: versions of the files of an instance, 0 for one that is torn. `wal` says
  whose frames `pinoc.db-wal` holds: none, those of the database beside it, or, once a
  restore has replaced that, of the former one. Whoever opens the database then makes
  them part of it (`Mixes`), and the file is torn; the restore may be cut off before
  it removes the log, or fail to (`RestoreUnlinks`). `mixed` records that this came to
  pass.
- `Notifier`: messages numbered in the order in which they are accepted.
- `ReportRuns`: every thread's place in `generate()` with the list it pruned by.

### Settings (`web/app.py`, `config_store.py`, `security.py`)

`saved` is the file, `current` the configuration in memory, `form[a]` what an
administrator was served (redacted), has edited, or has sent and had restored;
`confirm[a]` a confirmation of onboarding that has read `config/devices.json`.

## What the runs check

| Run | Instance | Shows |
| --- | --- | --- |
| `dispatcher_safety` | 3 jobs, 2 devices, 2 clients, 2 workers, 2 database faults, 1 restart; symmetric in all of them | `DeviceSerialized` through every fault; `NoJobLost`, `Promise` until the first |
| `dispatcher_live` | 3 jobs, 1 device, 2 workers, 1 restart, no fault | `JobSettles` |
| `rollout` | two devices and four requests: a canary and another, one after the other, both at once, with and without windows; failing jobs, critical and offline devices, reboots, a cancel, 1 restart or failing statement | `WaveGate`, `PendingRebootTaken`, `FailureStopsDispatch`, `RunSettles` |
| `schedules` | 3 jobs, one of them manual, 2 failures to a pause, 1 edit, 1 restart | `SlotFiredOnce`, `AutoPauseHolds`, `DueSlotHandled`, `OutcomeLearnt` |
| `gateway_safety` | 2 jobs, the first to be approved, 1 administrator, 1 cancel, 1 fault, 2 attempts | `RunsAtMostOnce`, `FinishedStaysHome` |
| `gateway_live` | the same without a cancel | `AgentFreed`, `QueuedMoves` |
| `remediation` | an alert that opens twice, 2 operators, 2 attempts, 1 window, 1 restart | `AttemptsBounded`, `DenialHolds`, `CleanSlate`, `KeepsTrying` |
| `alerts` | 2 devices behind one gateway; 5 turns of a device, or 3 and one fault, restart, mark, other refresher or two edits | `OneOpenAlert` (the refinement), `OneIncident`, `NothingUnsaid`, `ShownAgain` |
| `services` | each of the thirteen with its own small instance (`MCServices`) | one or two properties of each, and `TypeOK` of all |
| `probe_failures`, `anomalies`, `settings` | the smallest instances that show it | that a sentence of the documentation does not hold, see below |

The properties of `services`: `HealthyIsRecent` (Applications), `OneIdentity`
(Registry), `NothingForgotten` (the refinement of LastGood) and `VerdictsSettle`
(Inventories), `NeverForgets` and `RefreshServed` (Collection), `RestorableBundle`
(Bundles), `DeliveredInOrder` (Notifier), `EditionsKept` (ReportRuns),
`AttainmentExact` (Attainment), `AlertsFollowSignals` (Overseers), `SchemaComplete`
(Pool), `NewLevelLearnt` (Baselines), `LinksSettle` (Links), `ChecksSettle`
(DeviceChecks).

The largest runs are `remediation` (1.4 million states), `schedules` and `rollout`
(1.1 million each) and `services` (0.5 million); each takes two to four minutes.

`CHECK_DEADLOCK FALSE` is in every configuration because the system may stop: when
the job ids and the bounds are used up and every run, row and job has come to rest,
nothing is owed.

### Bounds

They are the smallest at which every hazard listed in `PROJECT.json` can happen.
Two jobs of one device and a third elsewhere are what a conflict, a queue behind a
device's lock and an idle worker need; two faults are a read and a write that fail
in one story. Two devices in two waves give an earlier wave and one that must not
start, in one wave a sibling of a failure. Two jobs of an agent are one at the head
of the queue and one behind it, two attempts one that fails and one that repeats
it. An alert that opens twice meets what its first occurrence left. Two devices
behind a gateway form a cluster, five turns let one leave it and come back. In the
services: two facts and three times give an older report that comes later; two
request threads are what a race takes; a queue of two is full with a third message;
three bundles with two kept make rotation delete one; of four devices, three with
tags in a chain share a segment, or two share the tag whose name the segment of the
other two gets. Constants of the code that only scale a count are
reduced: `min_samples` to 2, `MAX_CONSECUTIVE_FAILURES` to 2, a period of 60 s or
300 s to 2 ticks. Where a bound would hide something, the proofs below are for every
value of it.

### Where the code and its documentation part

Three runs expect a violation; each checks one sentence of the repository that the
code does not keep. The findings in `PROJECT.json` quote the sentence.

| Run | Sentence | What happens |
| --- | --- | --- |
| `probe_failures` | failing checks "open a single `probe_failed` alert per device" (README.md:740) | the result is merged beside the publication the history observes, and the next publication brings the placeholder back |
| `anomalies` | z_open: "open when \|z\| is at least this" (README.md:983) | resolved alerts count as open when the threshold is chosen (history.py:264) |
| `settings` | the API "redacts secret-valued keys and restores them on save" (README.md:554) | a credential inside a URL comes back as the placeholder; one of a reordered list goes to another channel |

## Disagreements met

Found while modelling and kept in the models as the code has them; none has a run
of its own.

Rollouts and schedules
- A cancel between the tick's check of a row and its `enqueue()` still starts that
  device (README.md:954 against rollout.py:299); rows of a halted run stay 'updating'
  for good (rollout.py:262); tick and `cancel()` each end the run with an
  unconditional UPDATE.
- A restart or a failing statement inside `create_run()` leaves a run with some of its
  devices, one between the two writes that open a wave (rollout.py:403, 406) a run that
  waits for ever, and one between the failed row and the halt lets siblings be
  dispatched.
- The gate asks the cache: an offline device without a reboot passes, as does one
  whose trouble has not been collected.
- A manual run that succeeds resumes a paused schedule (schedules.py:454, 526); a
  refused dispatch makes the job before it count as a failure a second time
  (schedules.py:436 against README.md:900); a manual run of a due schedule moves its slot
  on (README.md:914).

Development jobs and remediation
- `claim()` hands a job out even when its UPDATE found it no longer queued;
  `submit()` inserts a claimable job before its approval; `decide()` lifts the approval
  before it rejects the job; `result()` writes without a condition on the status it
  read (development.py:319). A job whose answer got lost stays 'dispatched' while the
  agent sends heartbeats.
- A row of `remediation_runs` keeps the policy of the playbook it was made under. A
  denial written between the tick's read of the row (remediation.py:163) and the
  request it then writes (:248), or beside an approval being decided (:280), is
  overwritten, and an approval then dispatches.

History, alerts, anomalies
- After a failure in the last device of a snapshot every service that asks for
  `db.available` waits until somebody else writes (history.py:57).
- A reboot overwrites the mark of a device under maintenance (README.md:554 against
  actions.py:367); the mark of a shutdown is not cleared when the device returns.
- With hourly baselines off, a global baseline that only rejects stays as it is and
  keeps its anomaly open; a stale one re-learns a single sample.
- `max_lag_seconds` is never reset; a `database_unavailable` alert needs the database
  it is about; a tick that fails between two alerts loses the notification of the first.
- Hourly buckets are replaced by their later part when `maintenance` runs in the
  middle of an hour.

Collection, checks, links
- `set_integration` leaves old fields of an application's result; the clock of the
  journal section is reset by every poll (README.md:424 says every 300 s); a forced scan
  that arrives during a poll is dropped with the one that caused it; snapshots of
  devices that left are kept.
- A due poll whose section lacks the file drops its drift item; an expected file that
  is empty always reads as unreadable; a repaired drift shows until its next check;
  `tee` is not atomic.
- Devices without a shared tag are in a segment named 'lan' (topology.py:89-91) even if
  a tag has that name; the hint then shows them the tag's segment (:294-299).
- `segment_for` answers with the first segment only; pairs that two tags share count
  twice against `max_pairs`; collector, history and web each have their own roster.

Inventories and registries
- A composite strategy is always conclusive: a success it makes of a child that could
  not tell survives an edit to a strategy that would not have made it. A new target
  keeps the success of the old one; an instance id that is reused during a poll gets the old one's result.
- `repositories.add()` may give an old revision a newer time; reasons contain the age
  in seconds, so every refresh rewrites and reports an unchanged stale row; virtual
  environments report healthy to stale at each tick.
- An edit that carries a lifecycle revives an archived row and leaves `archived_at`;
  members may join a project archived meanwhile; an UPDATE without fields is an SQL
  error.

Storage, settings, reports
- A restore between `connect()` and the second `stat()` pairs the old file with the
  new inode (database.py:244). The version is read outside the migrations'
  transactions: a second program may set it back. An older database that was
  restored is migrated at the next start only.
- Between the replacement of `pinoc.db` (backup.py:373) and the removal of the former
  log (:382, whose failure is only logged) whoever opens the database replays the old
  frames into it, which the comment there says must not happen (:379-381).
- Rotation over ssh lists the whole directory; a bundle without `config/devices.json` fails
  in verification; bundles are named by the second; failed saves rotate good backups
  away.
- Two confirmations of onboarding at once lose a device; several sections are saved
  without validation; a key that was deleted comes back by the merge with the defaults.
- A report is repeated after a crash between its edition and `next_run`; the next run
  moves on even if generating failed. Notifications are stopped before the history
  has drained.

## Fairness

Weak fairness, and only of what the code repeats or finishes by itself: threads of
the process (workers, the `_run()` loops of the services, handlers that have
begun), the agent's loop and its worker, remote commands (each handler has a
timeout), an execution of the agent (a time limit), and the clock. One strong
fairness: a poll of a device that is tried for ever is in the end published
(`Reports` in `DeviceChecks`), since a poll may fail any number of times and
`ChecksSettle` is about devices that answer. Nothing is assumed of people: nobody
has to submit, approve, cancel, edit or list. No fairness lets a fault end: where a
liveness property needs the database, it says so (`ShownAgain` by `available`,
`AlertsFollowSignals` by its premise), and `JobSettles` is checked without faults
because a database that stays away leaves rows pending for good.

## What is proved

Eight modules hold theorems, each for every value of the constants, under the named
assumptions of the module proved about: "none" values differ from ids, bounds are
natural numbers, sets that are counted are finite. None assumes anything of the
environment beyond the specification. In each, `IInv` is the inductive invariant,
proved from `InitInv` and one lemma per action; the listed theorems follow. In
`ServicesProofs` there is one for each of the services.

| Module | Inductive invariant, and why it is needed | Theorems |
| --- | --- | --- |
| `ActionDispatcherProofs` | a thread past its INSERT or its `Take` holds an existing row, a lock is held by the thread that says so, a job is in one place only; `EachJobHeldOnce` alone does not keep two clients out of `enqueue()` | `TypeCorrect`, `ExecutionSerialized` (`DeviceSerialized`), `NoDoubleExecution`, `NoPendingOrphan` (`NoJobLost`), `OnePending`; the refinement as `FollowsLifeCycle` for every behaviour and `KeepsPromise` (`Promise`) up to the first fault |
| `RolloutProofs` | rows are created in the order of their waves (`Created`); the tick walks rows of the current wave whose status only `cancel()` changes (`Walking`); behind the wave, and in one about to be left, are only successes (`Behind`); what is verified has been updated and rebooted (`Verifying`); a failed row halts before the next dispatch (`Failing`), and a fault that comes between leaves its mark in `cut`: `FaultInv` shows it for a fault of any thread, `TickLeft` for the tick that is abandoned | `WavesInOrder` (`WaveGate`), `RebootsTaken` (`PendingRebootTaken`), `FailureHalts` (`FailureStopsDispatch`) |
| `SchedulesProofs` | what the tick fires has failures left (`FailuresLeft`), and a slot that is due has not been fired unless the tick is about to record it (`SlotHeld`); a write-back of a stale row breaks both, a restart before the record the second | `TypeCorrect`, `FiredOnce` (`SlotFiredOnce`), `PausedAfterFailures` (`AutoPauseHolds`) |
| `DevGatewayProofs` | the guard against handing a job out twice is the status 'queued', which nothing writes after `submit()`; what the agent has had is out of the queue (`HandedOutOnce`), and the window of a claim that read earlier is closed at the agent, which asks one thing at a time (`OneAtATime`) | `TypeCorrect`, `AtMostOnce` (`RunsAtMostOnce`), `ClosedStaysHome` (`FinishedStaysHome`) |
| `RemediationProofs` | dispatches are the recorded, the one in flight and the lost (`Counted`); the tick dispatches only from attempts the row still has (`TickHolds`); nobody decides beside an unraced denial, and the tick is not about to ask (`DenialAlone`) | `TypeCorrect`, `Bounded` (`AttemptsBounded`), `Denied` (`DenialHolds`) |
| `AlertsProofs` | at most one open row of a device, and what the writer is about to update is the open row it read (`OneEach`, `Placed`, `RowHeld`), the unique index included. For incidents and notifications, as long as nothing has failed, the `Books`: every alert and cluster that is over has its one incident and every transition was told, or an errand still owes it, in the thread's hands and nowhere twice; and what the reconciliation has just opened or closed is what the correlation is about to see | `Implements` (`OneOpenAlert`): every step is a step of `AlertLifecycle` or a stutter; `Incidents` (`OneIncident`), `NothingMissed` (`NothingUnsaid`) |
| `CollectionProofs` | facts travel from the device to the snapshot, the results and the cache, each behind the one before (`Downstream`); a poll of a configured device has a result (`Polled`) | `CacheOnlyGrows` (`NeverForgets`) |
| `ServicesProofs` | each service acts by itself (`Apart`), so each has an invariant of its own; the table below | see below |

The sections of `ServicesProofs`:

| Service | Inductive invariant, and why it is needed | Theorem |
| --- | --- | --- |
| Database | the version of a file never exceeds what ran on it, and a migration counts from what its file has (`VersionBacked`, `CountsTables`) | `ReadyIsComplete` (`SchemaComplete`) |
| Backups | what is delivered was read whole but for a mixed database (`Sound`), and rotation keeps one (`BundlesInv`) | `AlwaysRestorable` (`RestorableBundle`) |
| Notifier | the queue is numbered after what the worker took, and every channel has been tried up to the message in hand (`Queued`, `TriedUpTo`, `InHand`) | `ToldInOrder` (`DeliveredInOrder`) |
| Applications | the success of a row, and of what the poll has read of it, is no younger than the check that earned it, unless it is `unearned` (`Earned`) | `HealthIsEarned` (`HealthyIsRecent`) |
| Registries | the property with the types is inductive as it stands (`RegistryInv`): the constraint of the table refuses what was taken since it was found free | `OneName` (`OneIdentity`) |
| Inventories | a fact never comes without the time at which it was learnt, in a row, in a report or in the hands of the refresh thread, and a row that is not there knows nothing (`InventoryInv`, `ToldOk`); each of the three merges then keeps the fact of a row or replaces it by one (`UpsertedKept`) | `InventoriesRemember` (`NothingForgotten`): every step is a step of `LastGood` or a stutter |
| Reports | what a run is about to delete has as many newer editions as are kept, the newest are there, and while nothing has failed what is beyond them is on somebody's list (`EditionsInv`: `OldEnough`, `NewestKept`, `SurplusSeen`) | `EditionsStay` (`EditionsKept`) |
| Attainment | none but the types: the property is a fact about a table of samples. As long as samples come in time, a pair of a row and a second it holds is one second of the window, and every second is one such pair (`CountedIsTrue`, `TrueIsCounted`), so the two sets have the same size (`SecondsExact`) | `AttainmentIsExact` (`AttainmentExact`) |
| All thirteen | what every variable holds; for the overseers, baselines, links, checks and the collection an invariant each, and for the applications that `Worst`, `Escalate` and `Rollup` return a state of health (`WorstIsOne`, `RolledIsOne`) | `ServicesTyped` (`TypeOK`) |

Every safety invariant and every action property of a passing run is thereby proved.
The invariants that carry the most, `Books` and `EditionsInv`, were model-checked as
invariants of `alerts` and `services` before they were proved.

Only model-checked: every liveness property and the fairness it needs (TLAPS has no
ENABLED here), and what functions over data compute (`PlanWaves`, `Parsed`,
`Deviates`): the proofs use of them only what they are guarded by, or what they are
made of. `Seconds` and the roll-ups of health are proved about, since they count and
choose from sets and need no induction over data.

## Not modelled

`PROJECT.json` lists every part with its status. Left out for good: what a remote
command does beyond its outcome, parsing of what ssh returns, rendering, routes as
such (they appear as the clients of what they call), sessions and request limits,
and CRUD of dashboards and playbooks. Left out of the modelled parts: several
rollouts or schedules at once, a device that leaves the fleet during a run,
database faults in schedules, remediation and the gateway, enrollment
and signatures of agents, artifacts, process isolation, the cron arithmetic, package
snapshots of environments, tags and links of projects, two bundles of one second.
The pure arithmetic of thresholds (`evaluate()` beyond what the gate asks) is
ordinary code that unit tests reach.

## Plan

Done: the five components of the core with their proofs; remediation; the alert
pipeline with its refinement; the services and the settings. What would come next,
in order of what it would add:

1. several runs of `Rollout` and several rows of `Schedules` in one tick, whose jobs
   meet in the dispatcher's conflict check;
2. database faults in `Schedules`, as in `Rollout`;
3. what the notifications of a cluster and of its members are after a fault, where
   `OneIncident` and `NothingUnsaid` promise nothing;
4. the package snapshots of environments and the tags of projects.
