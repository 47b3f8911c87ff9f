---------------------------- MODULE RolloutProofs ----------------------------
(***************************************************************************)
(* Proofs about Rollout, for any fleet, plan of waves and jobs, and any    *)
(* number of faults.                                                       *)
(***************************************************************************)
EXTENDS Rollout, FiniteSetTheorems, TLAPS

RowStatuses == {"none", "succeeded", "failed", "skipped"} \cup Active
RunStatuses == {"none", "running", "halted", "completed"}
Over        == {"halted", "completed"}
Working     == {"dispatch", "record_update", "reboot", "record_reboot", "verifying", "succeed",
                "fail"}
WaveEnds    == {"wave", "advance", "open", "complete"}
TickAt      == {"idle", "rows", "halt", "halting", "skipping"} \cup Working \cup WaveEnds

RunRecords == [status : RunStatuses, wave : Nat,
               plan : [waveOf : [Devices -> Nat], respects : BOOLEAN]]
RowRecords == [status : RowStatuses, update : JobIds \cup {NoJob}, reboot : JobIds \cup {NoJob},
               required : BOOLEAN]
TickOk(t)  == t \in [at : TickAt, todo : SUBSET Devices, seen : {t.seen},
                     dev : Devices \cup {NoDev}, job : JobIds \cup {NoJob}]

Typed == /\ JobsTypeOK
         /\ run \in RunRecords
         /\ row \in [Devices -> RowRecords]
         /\ TickOk(tick)
         /\ canceller \in {"idle", "halting", "skipping"}
         /\ creating \subseteq Devices
         /\ cut \in BOOLEAN

(* Before create_run() there is nothing; while it inserts rows, in the     *)
(* order of their waves, no job can have succeeded and no wave can be over. *)
Created ==
    /\ run.status = "none" => /\ run.wave = 0 /\ creating = {} /\ tick.at = "idle"
                              /\ canceller = "idle"
                              /\ \A d \in Devices : row[d].status = "none"
                              /\ \A j \in JobIds : status[j] = "absent"
    /\ creating # {} => /\ \A d \in Devices : d \in creating <=> row[d].status = "none"
                        /\ \A j \in JobIds : status[j] # "succeeded"
                        /\ run.status = "running" => run.wave = 0 /\ tick.at # "advance"
    /\ \A d, e \in Devices : row[d].status = "none" /\ row[e].status # "none"
                             => WaveOf[e] <= WaveOf[d]

(* Only rows of a run that is over are skipped.                            *)
Halted == /\ tick.at = "skipping" \/ canceller = "skipping" => run.status \in Over
          /\ run.status = "running" => \A d \in Devices : row[d].status # "skipped"

(* The tick walks rows of the current wave, and knows their status but for *)
(* what cancel() has skipped.                                              *)
Walking ==
    /\ \A d \in tick.todo : WaveOf[d] = run.wave /\ row[d].status # "none"
    /\ \A d \in tick.todo : \/ tick.seen[d] = row[d].status
                            \/ tick.seen[d] \in {"not_started", "pending"}
    /\ tick.at \in WaveEnds => tick.todo = {}
    /\ tick.at \in Working => /\ tick.dev \in Devices /\ tick.dev \notin tick.todo
                              /\ WaveOf[tick.dev] = run.wave /\ row[tick.dev].status # "none"

(* No update beyond the current wave; behind it, and in a wave that is     *)
(* about to be left, nothing but successes.                                *)
Behind ==
    /\ \A d \in Devices : Updated(d) => WaveOf[d] <= run.wave
    /\ run.status = "running" =>
          \A e \in Devices : \/ WaveOf[e] < run.wave
                             \/ tick.at = "advance" /\ WaveOf[e] = run.wave
                             => row[e].status \in {"none", "succeeded"}
    /\ tick.at = "dispatch" =>
          \A e \in Devices : WaveOf[e] < WaveOf[tick.dev] => row[e].status = "succeeded"
    /\ WaveGate

(* What is verified has been updated, and rebooted when that was pending.  *)
Upgraded(d) == row[d].update \in JobIds /\ status[row[d].update] = "succeeded"
Verified(d) == /\ Upgraded(d)
               /\ row[d].update \in flagged => /\ row[d].reboot \in JobIds
                                               /\ status[row[d].reboot] = "succeeded"
Verifying == /\ \A d \in Devices : row[d].status = "rebooting" => Upgraded(d)
             /\ \A d \in Devices : row[d].status \in {"verifying", "succeeded"} => Verified(d)
             /\ tick.at \in {"reboot", "record_reboot"} => Upgraded(tick.dev)
             /\ tick.at \in {"verifying", "succeed"} => Verified(tick.dev)

(* A failed row halts the run before anything else is dispatched.          *)
AnyFailed == \E d \in Devices : row[d].status = "failed"
Failing   == ~cut /\ AnyFailed => /\ tick.at # "dispatch"
                                  /\ run.status = "running" => tick.at \in {"halt", "halting"}

(* The inductive invariant behind the theorems.                            *)
IInv == Typed /\ Created /\ Halted /\ Walking /\ Behind /\ Verifying /\ Failing

-----------------------------------------------------------------------------
USE RolloutAssumption, JobsAssumption
    DEF RowStatuses, RunStatuses, Over, Working, WaveEnds, TickAt, Active, Pending, Terminal,
        Statuses, jobVars, worldVars, faultVars

LEMMA PlanIs == \A r \in Requests : PlanWaves(r) \in [Devices -> Nat]
<1> SUFFICES ASSUME NEW r \in Requests, NEW d \in Devices
             PROVE  PlanWaves(r)[d] \in Nat
  BY DEF PlanWaves
<1>1. r.size \in Nat
  OBVIOUS
<1>2. \A S \in SUBSET Devices : Cardinality({e \in S : e < d}) \in Nat
  <2> SUFFICES ASSUME NEW S \in SUBSET Devices
               PROVE  Cardinality({e \in S : e < d}) \in Nat
    OBVIOUS
  <2>1. IsFiniteSet({e \in S : e < d})
    BY FS_Subset
  <2>2. QED BY <2>1, FS_CardinalityType
<1> DEFINE Before(S) == Cardinality({e \in S : e < d})
           named  == r.canary \cap Devices
           canary == IF named # {} THEN named
                     ELSE {c \in Devices : Cardinality({e \in Devices : e < c}) < r.count}
           others == Devices \ canary
           first  == IF canary = {} THEN 0 ELSE 1
<1>3. PlanWaves(r)[d] = IF d \in canary THEN 0
                        ELSE IF r.size = 0 THEN first ELSE first + Before(others) \div r.size
  BY DEF PlanWaves
<1>4. Before(others) \in Nat
  BY <1>2
<1> HIDE DEF Before, canary
<1>5. r.size # 0 => Before(others) \div r.size \in Nat
  BY <1>1, <1>4
<1>6. QED BY <1>3, <1>4, <1>5

LEMMA InitInv == RolloutInit => IInv
<1> SUFFICES ASSUME RolloutInit PROVE IInv
  OBVIOUS
<1>1. /\ run.status = "none" /\ run.wave = 0 /\ run \in RunRecords
  BY PlanIs DEF RolloutInit, RunRecords
<1>2. /\ row = [d \in Devices |-> NoRow] /\ NoRow \in RowRecords /\ NoRow.status = "none"
  BY DEF RolloutInit, NoRow, RowRecords
<1>3. /\ TickOk(tick) /\ tick.at = "idle" /\ tick.todo = {}
  BY DEF RolloutInit, IdleTick, TickOk
<1>4. JobsTypeOK /\ \A j \in JobIds : status[j] = "absent"
  BY DEF RolloutInit, Init, JobsTypeOK
<1>5. canceller = "idle" /\ creating = {} /\ cut = FALSE
  BY DEF RolloutInit
<1>6. QED BY <1>1, <1>2, <1>3, <1>4, <1>5
          DEF IInv, Typed, Created, Halted, Walking, Behind, WaveGate, Updated, Verifying, Failing,
              AnyFailed

-----------------------------------------------------------------------------
(* The invariant looks at nothing of the world but what is flagged.        *)
LEMMA WorldInv ==
  ASSUME IInv,
         UNCHANGED <<status, device, exclusive, run, row, tick, canceller, creating, flagged, cut>>
  PROVE  IInv'
BY DEF IInv, Typed, JobsTypeOK, Created, Halted, Walking, Behind, WaveGate, Updated, Verifying,
       Verified, Upgraded, Failing, AnyFailed, WaveOf

(* The tick moves on.                                                      *)
LEMMA AtIs ==
  ASSUME Typed, NEW p \in TickAt, At(p)
  PROVE  /\ TickOk(tick') /\ tick'.at = p /\ tick'.todo = tick.todo /\ tick'.seen = tick.seen
         /\ tick'.dev = tick.dev /\ tick'.job = tick.job
BY DEF Typed, At, TickOk

LEMMA IdleIs == /\ TickOk(IdleTick) /\ IdleTick.at = "idle" /\ IdleTick.todo = {}
BY DEF IdleTick, TickOk

(* One row is written.                                                     *)
LEMMA RowIs ==
  ASSUME Typed, NEW d \in Devices, NEW r \in RowRecords, row' = [row EXCEPT ![d] = r]
  PROVE  /\ row' \in [Devices -> RowRecords] /\ row'[d] = r
         /\ \A e \in Devices \ {d} : row'[e] = row[e]
BY DEF Typed

LEMMA SetRowIs ==
  ASSUME Typed, NEW d \in Devices, NEW s \in RowStatuses, SetRow(d, s)
  PROVE  /\ row' \in [Devices -> RowRecords]
         /\ row'[d].status = s /\ row'[d].update = row[d].update /\ row'[d].reboot = row[d].reboot
         /\ \A e \in Devices \ {d} : row'[e] = row[e]
<1> DEFINE r == [row[d] EXCEPT !.status = s]
<1>1. row[d] \in RowRecords
  BY DEF Typed
<1>2. r \in RowRecords /\ r.status = s /\ r.update = row[d].update /\ r.reboot = row[d].reboot
  BY <1>1 DEF RowRecords
<1>3. row' = [row EXCEPT ![d] = r]
  BY DEF SetRow, Typed
<1> HIDE DEF r
<1>4. QED BY <1>2, <1>3, RowIs

(* Many are: only the status changes, to s, of the rows in S.              *)
RowsSet(S, s) == /\ row' \in [Devices -> RowRecords]
                 /\ \A d \in S : row'[d].status = s
                 /\ \A d \in Devices \ S : row'[d].status = row[d].status
                 /\ \A d \in Devices : row'[d].update = row[d].update /\ row'[d].reboot = row[d].reboot

LEMMA ManyRows ==
  ASSUME Typed, NEW S \in SUBSET Devices, NEW s \in RowStatuses,
         row' = [d \in Devices |-> IF d \in S THEN [row[d] EXCEPT !.status = s] ELSE row[d]]
  PROVE  RowsSet(S, s)
<1>1. \A r \in RowRecords : /\ [r EXCEPT !.status = s] \in RowRecords
                            /\ [r EXCEPT !.status = s].status = s
                            /\ [r EXCEPT !.status = s].update = r.update
                            /\ [r EXCEPT !.status = s].reboot = r.reboot
  BY DEF RowRecords
<1>2. \A d \in Devices : row[d] \in RowRecords
  BY DEF Typed
<1>3. QED BY <1>1, <1>2 DEF RowsSet

LEMMA SkipRowsIs ==
  ASSUME Typed, SkipRows
  PROVE  RowsSet({d \in Devices : row[d].status \in {"not_started", "pending"}}, "skipped")
<1> DEFINE S == {d \in Devices : row[d].status \in {"not_started", "pending"}}
<1>1. row' = [d \in Devices |-> IF d \in S THEN [row[d] EXCEPT !.status = "skipped"] ELSE row[d]]
  BY DEF SkipRows
<1>2. S \in SUBSET Devices
  OBVIOUS
<1> HIDE DEF S
<1>3. RowsSet(S, "skipped")
  BY <1>1, <1>2, ManyRows
<1>4. QED BY <1>3 DEF S

(* The status or the wave of the run is written.                           *)
LEMMA RunIs ==
  ASSUME Typed, NEW s \in RunStatuses, NEW n \in Nat
  PROVE  /\ [run EXCEPT !.status = s] \in RunRecords /\ [run EXCEPT !.status = s].status = s
         /\ [run EXCEPT !.status = s].wave = run.wave /\ [run EXCEPT !.status = s].plan = run.plan
         /\ [run EXCEPT !.wave = n] \in RunRecords /\ [run EXCEPT !.wave = n].status = run.status
         /\ [run EXCEPT !.wave = n].wave = n /\ [run EXCEPT !.wave = n].plan = run.plan
<1>1. run \in RunRecords
  BY DEF Typed
<1>2. QED BY <1>1 DEF RunRecords

LEMMA WaveOfIs == Typed => WaveOf \in [Devices -> Nat] /\ run.wave \in Nat
BY DEF Typed, RunRecords, WaveOf

-----------------------------------------------------------------------------
(* Steps of the tick that only read.                                       *)
ReadStep == UNCHANGED <<jobVars, run, row, canceller, creating, flagged, cut>>

LEMMA ReadKept ==
  ASSUME IInv, ReadStep, TickOk(tick')
  PROVE  /\ Typed' /\ WaveOf' = WaveOf /\ WaveGate' /\ (AnyFailed <=> AnyFailed')
         /\ \A d \in Devices : /\ Updated(d)' <=> Updated(d)
                               /\ Upgraded(d)' <=> Upgraded(d)
                               /\ Verified(d)' <=> Verified(d)
<1>1. Typed'
  BY DEF IInv, Typed, JobsTypeOK, ReadStep
<1>2. WaveOf' = WaveOf /\ (AnyFailed <=> AnyFailed')
  BY DEF WaveOf, AnyFailed, ReadStep
<1>3. \A d \in Devices : /\ Updated(d)' <=> Updated(d)
                         /\ Upgraded(d)' <=> Upgraded(d)
                         /\ Verified(d)' <=> Verified(d)
  <2>1. \A d \in Devices : Updated(d)' <=> Updated(d)
    BY DEF Updated, ReadStep
  <2>2. \A d \in Devices : Upgraded(d)' <=> Upgraded(d)
    BY DEF Upgraded, ReadStep
  <2>3. \A d \in Devices : Verified(d)' <=> Verified(d)
    BY <2>2 DEF Verified, ReadStep
  <2>4. QED BY <2>1, <2>2, <2>3
<1>4. WaveGate'
  BY <1>2, <1>3 DEF IInv, Behind, WaveGate, ReadStep
<1>5. QED BY <1>1, <1>2, <1>3, <1>4

(* A reading step keeps the invariant when the tick knows what it holds.   *)
LEMMA TickOnlyInv ==
  ASSUME IInv, ReadStep, TickOk(tick'), run.status # "none",
         creating # {} /\ run.status = "running" => tick'.at # "advance",
         tick'.at = "skipping" => run.status \in Over,
         Walking',
         run.status = "running" /\ tick'.at = "advance" =>
            \A e \in Devices : WaveOf[e] = run.wave => row[e].status \in {"none", "succeeded"},
         tick'.at = "dispatch" =>
            \A e \in Devices : WaveOf[e] < WaveOf[tick'.dev] => row[e].status = "succeeded",
         tick'.at \in {"reboot", "record_reboot"} => Upgraded(tick'.dev),
         tick'.at \in {"verifying", "succeed"} => Verified(tick'.dev),
         ~cut /\ AnyFailed =>
            /\ tick'.at # "dispatch"
            /\ run.status = "running" => tick'.at \in {"halt", "halting"}
  PROVE  IInv'
<1> USE DEF ReadStep
<1>1. Created'
  BY ReadKept DEF IInv, Created
<1>2. Halted'
  BY DEF IInv, Halted
<1>3. Behind'
  BY ReadKept DEF IInv, Behind
<1>4. Verifying'
  BY ReadKept DEF IInv, Verifying, Verified, Upgraded
<1>5. Failing'
  BY ReadKept DEF Failing
<1>6. QED BY <1>1, <1>2, <1>3, <1>4, <1>5, ReadKept DEF IInv

LEMMA TickBeginInv == ASSUME IInv, TickBegin PROVE IInv'
<1> DEFINE todo == Rows(run.wave)
           seen == [d \in todo |-> row[d].status]
<1>1. /\ tick' = [IdleTick EXCEPT !.at = "rows", !.todo = todo, !.seen = seen]
      /\ ReadStep /\ run.status = "running" /\ tick.at = "idle"
  BY DEF TickBegin, ReadStep
<1>2. /\ todo \in SUBSET Devices
      /\ \A d \in todo : WaveOf[d] = run.wave /\ row[d].status # "none" /\ seen[d] = row[d].status
  BY DEF Rows, InWave
<1> HIDE DEF todo, seen
<1>3. TickOk(tick') /\ tick'.at = "rows" /\ tick'.todo = todo /\ tick'.seen = seen
  <2>1. tick' = [at |-> "rows", todo |-> todo, seen |-> seen, dev |-> NoDev, job |-> NoJob]
    BY <1>1 DEF IdleTick
  <2>2. tick'.at = "rows" /\ tick'.todo = todo /\ tick'.seen = seen
    BY <2>1
  <2>3. TickOk(tick')
    BY <1>2, <2>1, <2>2 DEF TickOk
  <2>4. QED BY <2>2, <2>3
<1>4. Walking'
  BY <1>1, <1>2, <1>3, ReadKept DEF Walking, ReadStep
<1>5. ~(~cut /\ AnyFailed)
  BY <1>1 DEF IInv, Failing
<1>6. QED BY <1>1, <1>3, <1>4, <1>5, TickOnlyInv

(* What the tick decides about a row follows from what the row shows.      *)
LEMMA OutcomeIs ==
  ASSUME NEW j \in JobIds \cup {NoJob}, JobOutcome(j) \notin {"pending", "failed"}
  PROVE  j \in JobIds /\ status[j] = "succeeded"
BY DEF JobOutcome

LEMMA DecisionIs ==
  ASSUME IInv, tick.at = "rows", NEW d \in tick.todo
  PROVE  /\ Decision(d) \in {"rows", "dispatch", "fail", "reboot", "verifying", "succeed"}
         /\ Decision(d) = "reboot" => Upgraded(d)
         /\ Decision(d) \in {"verifying", "succeed"} => Verified(d)
<1> DEFINE u == row[d].update
           b == row[d].reboot
           s == tick.seen[d]
<1>1. d \in Devices /\ u \in JobIds \cup {NoJob} /\ b \in JobIds \cup {NoJob}
  BY DEF IInv, Typed, TickOk, RowRecords
<1>2. s \notin {"not_started", "pending"} => row[d].status = s
  BY DEF IInv, Walking
<1>3. /\ s = "pending"   => Decision(d) = MaybeDispatchUpdate(d)
      /\ s = "updating"  => Decision(d) = ReconcileUpdate(d)
      /\ s = "rebooting" => Decision(d) = ReconcileReboot(d)
      /\ s = "verifying" => Decision(d) = VerifyHealth(d)
      /\ s \notin {"pending", "updating", "rebooting", "verifying"} => Decision(d) = "rows"
  BY DEF Decision
<1> HIDE DEF s
<1>4. MaybeDispatchUpdate(d) \in {"rows", "dispatch"} /\ VerifyHealth(d) \in {"rows", "fail", "succeed"}
  BY DEF MaybeDispatchUpdate, VerifyHealth
<1>5. CASE s = "updating"
  <2>1. /\ ReconcileUpdate(d) \in {"rows", "fail", "reboot", "verifying"}
        /\ ReconcileUpdate(d) \in {"reboot", "verifying"} => JobOutcome(u) \notin {"pending", "failed"}
        /\ ReconcileUpdate(d) = "verifying" => u \notin flagged
    BY DEF ReconcileUpdate
  <2>2. QED BY <1>1, <1>3, <1>5, <2>1, OutcomeIs DEF Verified, Upgraded
<1>6. CASE s = "rebooting"
  <2>1. /\ ReconcileReboot(d) \in {"rows", "fail", "verifying"}
        /\ ReconcileReboot(d) = "verifying" => JobOutcome(b) \notin {"pending", "failed"}
    BY DEF ReconcileReboot
  <2>2. Upgraded(d)
    BY <1>1, <1>2, <1>6 DEF IInv, Verifying
  <2>3. QED BY <1>1, <1>3, <1>6, <2>1, <2>2, OutcomeIs DEF Verified
<1>7. CASE s = "verifying"
  <2>1. Verified(d)
    BY <1>1, <1>2, <1>7 DEF IInv, Verifying
  <2>2. QED BY <1>3, <1>4, <1>7, <2>1
<1>8. CASE s \notin {"updating", "rebooting", "verifying"}
  BY <1>3, <1>4, <1>8
<1>9. QED BY <1>5, <1>6, <1>7, <1>8

LEMMA NextRowInv == ASSUME IInv, NextRow PROVE IInv'
<1>1. PICK d \in tick.todo :
         /\ tick.at = "rows"
         /\ tick' = IF run.status = "running"
                    THEN [tick EXCEPT !.at = Decision(d), !.todo = @ \ {d}, !.dev = d] ELSE IdleTick
  BY DEF NextRow
<1>2. ReadStep /\ run.status # "none" /\ d \in Devices
  BY <1>1 DEF NextRow, ReadStep, IInv, Created, Typed, TickOk
<1>3. CASE run.status # "running"
  <2>1. tick' = IdleTick
    BY <1>1, <1>3
  <2>2. Walking'
    BY <2>1, IdleIs DEF Walking
  <2>3. QED BY <1>2, <1>3, <2>1, <2>2, IdleIs, TickOnlyInv
<1>4. CASE run.status = "running"
  <2> DEFINE p == Decision(d)
             todo == tick.todo \ {d}
  <2>1. /\ p \in {"rows", "dispatch", "fail", "reboot", "verifying", "succeed"}
        /\ p = "reboot" => Upgraded(d)
        /\ p \in {"verifying", "succeed"} => Verified(d)
    BY <1>1, DecisionIs
  <2>2. tick' = [tick EXCEPT !.at = p, !.todo = todo, !.dev = d]
    BY <1>1, <1>4
  <2>3. todo \in SUBSET Devices /\ d \notin todo /\ todo \subseteq tick.todo
    BY DEF IInv, Typed, TickOk
  <2> HIDE DEF p, todo
  <2>4. /\ TickOk(tick') /\ tick'.at = p /\ tick'.todo = todo /\ tick'.dev = d
        /\ tick'.seen = tick.seen
    BY <1>2, <2>1, <2>2, <2>3 DEF IInv, Typed, TickOk
  <2>5. WaveOf[d] = run.wave /\ row[d].status # "none"
    BY DEF IInv, Walking
  <2>6. Walking'
    BY <1>2, <2>1, <2>3, <2>4, <2>5, ReadKept DEF IInv, Walking, ReadStep
  <2>7. \A e \in Devices : WaveOf[e] < WaveOf[d] => row[e].status = "succeeded"
    <3> SUFFICES ASSUME NEW e \in Devices, WaveOf[e] < WaveOf[d] PROVE row[e].status = "succeeded"
      OBVIOUS
    <3>1. WaveOf[e] \in Nat /\ WaveOf[d] \in Nat
      BY <1>2, WaveOfIs DEF IInv
    <3>2. row[e].status \in {"none", "succeeded"}
      BY <1>4, <2>5 DEF IInv, Behind
    <3>3. ASSUME row[e].status = "none" PROVE FALSE
      <4>1. \A a, b \in Devices : row[a].status = "none" /\ row[b].status # "none"
                                     => WaveOf[b] <= WaveOf[a]
        BY DEF IInv, Created
      <4>2. WaveOf[d] <= WaveOf[e]
        BY <1>2, <2>5, <3>3, <4>1
      <4>3. QED BY <3>1, <4>2
    <3>4. QED BY <3>2, <3>3
  <2>8. ~(~cut /\ AnyFailed)
    BY <1>1, <1>4 DEF IInv, Failing
  <2>9. QED BY <1>2, <2>1, <2>4, <2>6, <2>7, <2>8, TickOnlyInv
<1>5. QED BY <1>3, <1>4

LEMMA TickHaltInv == ASSUME IInv, TickHalt PROVE IInv'
<1>1. PICK p \in {"halting", "rows"} : At(p)
  BY DEF TickHalt
<1>2. ReadStep /\ tick.at = "halt" /\ run.status # "none"
  BY DEF TickHalt, ReadStep, IInv, Created
<1>3. run.status = "running" => tick'.at = "halting"
  BY DEF TickHalt, At, IInv, Typed, TickOk
<1>4. /\ TickOk(tick') /\ tick'.at = p /\ tick'.todo = tick.todo /\ tick'.seen = tick.seen
  BY <1>1, AtIs DEF IInv
<1>5. Walking'
  BY <1>1, <1>2, <1>4, ReadKept DEF IInv, Walking, ReadStep
<1>6. QED BY <1>1, <1>2, <1>3, <1>4, <1>5, TickOnlyInv

LEMMA AfterRowsInv == ASSUME IInv, AfterRows PROVE IInv'
<1>1. ReadStep /\ tick.at = "rows" /\ run.status # "none"
  BY DEF AfterRows, ReadStep, IInv, Created
<1>2. /\ TickOk(tick') /\ tick'.todo = {} /\ tick'.at \in {"wave", "idle"}
      /\ tick'.at = "wave" => run.status = "running"
  <2>1. tick' \in {[IdleTick EXCEPT !.at = "wave"], IdleTick}
    BY DEF AfterRows
  <2>2. QED BY <2>1 DEF AfterRows, IdleTick, TickOk
<1>3. Walking'
  BY <1>2 DEF Walking
<1>4. run.status = "running" => ~(~cut /\ AnyFailed)
  BY <1>1 DEF IInv, Failing
<1>5. QED BY <1>1, <1>2, <1>3, <1>4, TickOnlyInv

(* Before a wave is left everything in it has succeeded.                   *)
LEMMA ReadWaveInv == ASSUME IInv, ReadWave PROVE IInv'
<1> DEFINE S == {row[d].status : d \in Rows(run.wave)}
           p == Advancement(S)
<1>1. /\ ReadStep /\ tick.at = "wave" /\ run.status # "none" /\ At(p)
  BY DEF ReadWave, ReadStep, IInv, Created
<1>2. /\ p \in {"idle", "halt", "complete", "advance"}
      /\ p # "idle" => S # {} /\ S \cap Active = {}
      /\ "failed" \in S => p \in {"idle", "halt"}
  <2> DEFINE last == run.wave >= LastWave
  <2>1. p = IF S = {} \/ S \cap Active # {} THEN "idle"
            ELSE IF "failed" \in S THEN "halt"
            ELSE IF last THEN "complete" ELSE "advance"
    BY DEF Advancement
  <2> HIDE DEF last, S, p
  <2>2. QED BY <2>1
<1>3. ASSUME p = "advance", run.status = "running"
      PROVE  /\ \A e \in Devices : WaveOf[e] = run.wave => row[e].status \in {"none", "succeeded"}
             /\ creating = {}
  <2>1. \A e \in Devices : WaveOf[e] = run.wave /\ row[e].status # "none" => row[e].status \in S
    BY DEF Rows, InWave
  <2>2. \A e \in Devices : row[e].status \in RowStatuses \ {"skipped"}
    BY <1>3 DEF IInv, Typed, RowRecords, Halted
  <2>3. \A e \in Devices : WaveOf[e] = run.wave => row[e].status \in {"none", "succeeded"}
    <3> HIDE DEF S, p
    <3>1. QED BY <1>2, <1>3, <2>1, <2>2
  <2>4. PICK e \in Devices : row[e].status \in S /\ row[e].status # "none" /\ WaveOf[e] = run.wave
    BY <1>2, <1>3 DEF Rows, InWave
  <2>5. row[e].status = "succeeded"
    BY <2>3, <2>4
  <2>6. QED BY <2>3, <2>5 DEF IInv, Created, Verifying, Verified, Upgraded
<1> HIDE DEF p, S
<1>4. /\ TickOk(tick') /\ tick'.at = p /\ tick'.todo = tick.todo /\ tick'.seen = tick.seen
  BY <1>1, <1>2, AtIs DEF IInv
<1>5. Walking'
  BY <1>1, <1>2, <1>4, ReadKept DEF IInv, Walking, ReadStep
<1>6. ~cut /\ AnyFailed => run.status # "running"
  BY <1>1 DEF IInv, Failing
<1>7. QED BY <1>1, <1>2, <1>3, <1>4, <1>5, <1>6, TickOnlyInv

-----------------------------------------------------------------------------
(* Steps that write rows.                                                  *)
RowStep == UNCHANGED <<jobVars, run, flagged, cut>>

LEMMA RowKept ==
  ASSUME IInv, RowStep, row' \in [Devices -> RowRecords], TickOk(tick'),
         canceller' \in {"idle", "halting", "skipping"}, creating' \subseteq Devices
  PROVE  /\ Typed' /\ WaveOf' = WaveOf
         /\ \A d \in Devices : Updated(d)' <=> Updated(d)
BY DEF IInv, Typed, JobsTypeOK, WaveOf, Updated, RowStep

(* The tick records what it has decided of a row of the current wave.      *)
LEMMA RecordInv ==
  ASSUME IInv, RowStep, UNCHANGED <<canceller, creating>>, tick.at \in Working,
         NEW p \in {"rows", "halt"}, At(p), row' \in [Devices -> RowRecords],
         row'[tick.dev].status \in {"updating", "rebooting", "verifying", "succeeded", "failed"},
         \A e \in Devices \ {tick.dev} : row'[e] = row[e],
         row'[tick.dev].status = "rebooting" => Upgraded(tick.dev)',
         row'[tick.dev].status \in {"verifying", "succeeded"} => Verified(tick.dev)',
         row'[tick.dev].status = "failed" => p = "halt"
  PROVE  IInv'
<1> DEFINE c == tick.dev
<1>1. /\ TickOk(tick') /\ tick'.at = p /\ tick'.todo = tick.todo /\ tick'.seen = tick.seen
      /\ tick'.dev = tick.dev
  BY AtIs DEF IInv
<1>2. /\ c \in Devices /\ c \notin tick.todo /\ WaveOf[c] = run.wave
      /\ row[c].status # "none" /\ row'[c].status # "none"
  BY DEF IInv, Walking
<1>3. /\ Typed' /\ WaveOf' = WaveOf
      /\ \A d \in Devices : Updated(d)' <=> Updated(d)
  BY <1>1, RowKept DEF IInv, Typed
<1>4. run' = run /\ status' = status /\ flagged' = flagged /\ cut' = cut
  BY DEF RowStep
<1>5. c' = c
  BY <1>1
<1>6. \A d \in Devices \ {c} : /\ Upgraded(d)' <=> Upgraded(d)
                               /\ Verified(d)' <=> Verified(d)
  BY <1>4 DEF Upgraded, Verified
<1>7. run.status # "none"
  BY DEF IInv, Created
<1> HIDE DEF c
<1>8. Created'
  <2>1. \A d \in Devices : row'[d].status = "none" <=> row[d].status = "none"
    BY <1>2 DEF c
  <2>2. QED BY <1>1, <1>3, <1>4, <1>7, <2>1 DEF IInv, Created
<1>9. Halted'
  BY <1>1, <1>2, <1>4 DEF IInv, Halted, c
<1>10. Walking'
  BY <1>1, <1>2, <1>3, <1>4 DEF IInv, Walking, Typed, TickOk, c
<1>11. Behind'
  <2>1. \A d \in Devices : WaveOf[d] \in Nat
    BY WaveOfIs DEF IInv
  <2>2. \A e \in Devices \ {c} : row'[e].status = row[e].status
    BY DEF c
  <2>3. WaveGate'
    <3> SUFFICES ASSUME NEW d \in Devices, NEW e \in Devices, Updated(d), WaveOf[e] < WaveOf[d]
                 PROVE  row'[e].status = "succeeded"
      BY <1>3 DEF WaveGate
    <3>1. WaveOf[d] <= run.wave /\ row[e].status = "succeeded"
      BY DEF IInv, Behind, WaveGate
    <3>2. e # c
      BY <1>2, <2>1, <3>1
    <3>3. QED BY <2>2, <3>1, <3>2
  <2>4. QED BY <1>1, <1>2, <1>3, <1>4, <2>1, <2>2, <2>3 DEF IInv, Behind
<1>12. Verifying'
  BY <1>1, <1>6 DEF IInv, Verifying, c
<1>13. Failing'
  <2>1. AnyFailed' => AnyFailed \/ p = "halt"
    BY DEF AnyFailed
  <2>2. QED BY <1>1, <1>4, <2>1 DEF IInv, Failing
<1>14. QED BY <1>3, <1>8, <1>9, <1>10, <1>11, <1>12, <1>13 DEF IInv

LEMMA RecordStatusInv ==
  ASSUME IInv, RecordVerifying \/ RecordSuccess \/ RecordFailure PROVE IInv'
<1>1. PICK s \in {"verifying", "succeeded", "failed"}, p \in {"rows", "halt"} :
         /\ SetRow(tick.dev, s) /\ At(p)
         /\ s = "failed" => p = "halt"
         /\ s # "failed" => tick.at \in {"verifying", "succeed"}
  BY DEF RecordVerifying, RecordSuccess, RecordFailure
<1>2. /\ RowStep /\ UNCHANGED <<canceller, creating>> /\ tick.at \in Working
  BY DEF RecordVerifying, RecordSuccess, RecordFailure, RowStep
<1>3. tick.dev \in Devices
  BY <1>2 DEF IInv, Walking
<1>4. /\ row' \in [Devices -> RowRecords] /\ row'[tick.dev].status = s
      /\ row'[tick.dev].update = row[tick.dev].update
      /\ row'[tick.dev].reboot = row[tick.dev].reboot
      /\ \A e \in Devices \ {tick.dev} : row'[e] = row[e]
  BY <1>1, <1>3, SetRowIs DEF IInv
<1>5. tick'.dev = tick.dev
  BY <1>1, AtIs DEF IInv
<1>6. s # "failed" => Verified(tick.dev)'
  <2>1. s # "failed" => Verified(tick.dev)
    BY <1>1 DEF IInv, Verifying
  <2>2. QED BY <1>2, <1>4, <1>5, <2>1 DEF Verified, Upgraded, RowStep
<1>7. QED BY <1>1, <1>2, <1>4, <1>6, RecordInv

LEMMA RecordUpdateInv == ASSUME IInv, RecordUpdate PROVE IInv'
<1> DEFINE r == [row[tick.dev] EXCEPT !.status = "updating", !.update = tick.job]
<1>1. /\ RowStep /\ UNCHANGED <<canceller, creating>> /\ tick.at \in Working /\ At("rows")
  BY DEF RecordUpdate, RowStep
<1>2. tick.dev \in Devices /\ row[tick.dev] \in RowRecords /\ tick.job \in JobIds \cup {NoJob}
  BY <1>1 DEF IInv, Walking, Typed, TickOk
<1>3. r \in RowRecords /\ r.status = "updating"
  BY <1>2 DEF RowRecords
<1>4. row' = [row EXCEPT ![tick.dev] = r]
  BY <1>2 DEF RecordUpdate, IInv, Typed
<1> HIDE DEF r
<1>5. /\ row' \in [Devices -> RowRecords] /\ row'[tick.dev].status = "updating"
      /\ \A e \in Devices \ {tick.dev} : row'[e] = row[e]
  BY <1>2, <1>3, <1>4, RowIs DEF IInv
<1>6. QED BY <1>1, <1>5, RecordInv

LEMMA RecordRebootInv == ASSUME IInv, RecordReboot PROVE IInv'
<1> DEFINE r == [row[tick.dev] EXCEPT !.status = "rebooting", !.reboot = tick.job, !.required = TRUE]
<1>1. /\ RowStep /\ UNCHANGED <<canceller, creating>> /\ tick.at = "record_reboot" /\ At("rows")
  BY DEF RecordReboot, RowStep
<1>2. /\ tick.dev \in Devices /\ row[tick.dev] \in RowRecords /\ tick.job \in JobIds \cup {NoJob}
      /\ Upgraded(tick.dev)
  BY <1>1 DEF IInv, Walking, Typed, TickOk, Verifying
<1>3. r \in RowRecords /\ r.status = "rebooting" /\ r.update = row[tick.dev].update
  BY <1>2 DEF RowRecords
<1>4. row' = [row EXCEPT ![tick.dev] = r]
  BY <1>2 DEF RecordReboot, IInv, Typed
<1> HIDE DEF r
<1>5. /\ row' \in [Devices -> RowRecords] /\ row'[tick.dev] = r
      /\ \A e \in Devices \ {tick.dev} : row'[e] = row[e]
  BY <1>2, <1>3, <1>4, RowIs DEF IInv
<1>6. tick'.dev = tick.dev
  BY <1>1, AtIs DEF IInv
<1>7. Upgraded(tick.dev)'
  BY <1>1, <1>2, <1>3, <1>5, <1>6 DEF Upgraded, RowStep
<1>8. QED BY <1>1, <1>3, <1>5, <1>7, RecordInv

(* Rows are skipped once the run is over; a wave is opened behind Behind.  *)
SkippedRows == {d \in Devices : row[d].status \in {"not_started", "pending"}}

LEMMA RowsSetKept ==
  ASSUME IInv, RowStep, NEW S \in SUBSET Devices, NEW s \in {"skipped", "pending"}, RowsSet(S, s),
         \A d \in S : row[d].status # "none",
         TickOk(tick'), canceller' \in {"idle", "halting", "skipping"}, creating' = creating
  PROVE  /\ Typed' /\ WaveOf' = WaveOf
         /\ \A d \in Devices : /\ Updated(d)' <=> Updated(d)
                               /\ Upgraded(d)' <=> Upgraded(d)
                               /\ Verified(d)' <=> Verified(d)
                               /\ row'[d].status = "none" <=> row[d].status = "none"
         /\ AnyFailed' => AnyFailed
<1>1. /\ Typed' /\ WaveOf' = WaveOf
      /\ \A d \in Devices : Updated(d)' <=> Updated(d)
  BY RowKept DEF IInv, Typed, RowsSet
<1>2. /\ status' = status /\ flagged' = flagged
      /\ \A d \in Devices : row'[d].update = row[d].update /\ row'[d].reboot = row[d].reboot
  BY DEF RowStep, RowsSet
<1>3. \A d \in Devices : (Upgraded(d)' <=> Upgraded(d)) /\ (Verified(d)' <=> Verified(d))
  BY <1>2 DEF Upgraded, Verified
<1>4. \A d \in Devices : row'[d].status = "none" <=> row[d].status = "none"
  BY DEF RowsSet
<1>5. AnyFailed' => AnyFailed
  BY DEF RowsSet, AnyFailed
<1>6. QED BY <1>1, <1>3, <1>4, <1>5

LEMMA SkippedInv ==
  ASSUME IInv, RowStep, SkipRows, run.status \in Over, creating' = creating,
         \/ At("rows") /\ tick.at = "skipping" /\ canceller' = canceller
         \/ tick' = tick /\ canceller' = "idle"
  PROVE  IInv'
<1> DEFINE S == SkippedRows
<1>1. RowsSet(S, "skipped") /\ S \in SUBSET Devices
      /\ \A d \in S : row[d].status \in {"not_started", "pending"}
  BY SkipRowsIs DEF SkippedRows, IInv
<1> HIDE DEF S
<1>2. /\ TickOk(tick') /\ tick'.todo = tick.todo /\ tick'.seen = tick.seen /\ tick'.dev = tick.dev
      /\ tick'.at = tick.at \/ tick'.at = "rows"
      /\ tick'.at = "skipping" => tick.at = "skipping"
  BY AtIs DEF IInv, Typed
<1>3. canceller' \in {"idle", canceller}
  OBVIOUS
<1>4. /\ Typed' /\ WaveOf' = WaveOf
      /\ \A d \in Devices : /\ Updated(d)' <=> Updated(d)
                            /\ Upgraded(d)' <=> Upgraded(d)
                            /\ Verified(d)' <=> Verified(d)
                            /\ row'[d].status = "none" <=> row[d].status = "none"
      /\ AnyFailed' => AnyFailed
  BY <1>1, <1>2, <1>3, RowsSetKept DEF IInv, Typed
<1>5. run' = run /\ status' = status /\ cut' = cut
  BY DEF RowStep
<1>6. \A d \in Devices : /\ row'[d].status = row[d].status \/ row'[d].status = "skipped"
                         /\ row[d].status \notin {"not_started", "pending"}
                            => row'[d].status = row[d].status
  BY <1>1 DEF RowsSet
<1>7. Created'
  BY <1>2, <1>4, <1>5 DEF IInv, Created
<1>8. Halted'
  BY <1>5 DEF IInv, Halted
<1>9. Walking'
  BY <1>2, <1>4, <1>5, <1>6 DEF IInv, Walking, Typed, TickOk
<1>10. Behind'
  BY <1>2, <1>4, <1>5, <1>6 DEF IInv, Behind, WaveGate
<1>11. Verifying'
  <2>1. tick'.at \in Working => tick'.dev \in Devices
    BY <1>2 DEF IInv, Walking
  <2>2. QED BY <1>2, <1>4, <1>6, <2>1 DEF IInv, Verifying
<1>12. Failing'
  BY <1>2, <1>4, <1>5 DEF IInv, Failing
<1>13. QED BY <1>4, <1>7, <1>8, <1>9, <1>10, <1>11, <1>12 DEF IInv

LEMMA SkipInv == ASSUME IInv, TickSkipRows \/ CancelSkipRows PROVE IInv'
<1>1. RowStep /\ SkipRows /\ creating' = creating
  BY DEF TickSkipRows, CancelSkipRows, RowStep
<1>2. run.status \in Over
  BY DEF TickSkipRows, CancelSkipRows, IInv, Halted
<1>3. QED BY <1>1, <1>2, SkippedInv DEF TickSkipRows, CancelSkipRows

LEMMA OpenWaveInv == ASSUME IInv, OpenWave PROVE IInv'
<1> DEFINE S == Rows(run.wave)
<1>1. /\ RowStep /\ tick' = IdleTick /\ tick.at = "open"
      /\ UNCHANGED <<canceller, creating>>
  BY DEF OpenWave, RowStep
<1>2. S \in SUBSET Devices /\ \A d \in S : WaveOf[d] = run.wave /\ row[d].status # "none"
  BY DEF Rows, InWave
<1>3. row' = [d \in Devices |-> IF d \in S THEN [row[d] EXCEPT !.status = "pending"] ELSE row[d]]
  BY DEF OpenWave
<1> HIDE DEF S
<1>4. RowsSet(S, "pending")
  BY <1>2, <1>3, ManyRows DEF IInv
<1>5. TickOk(tick') /\ tick'.at = "idle" /\ tick'.todo = {}
  BY <1>1, IdleIs
<1>6. /\ Typed' /\ WaveOf' = WaveOf
      /\ \A d \in Devices : /\ Updated(d)' <=> Updated(d)
                            /\ Upgraded(d)' <=> Upgraded(d)
                            /\ Verified(d)' <=> Verified(d)
                            /\ row'[d].status = "none" <=> row[d].status = "none"
      /\ AnyFailed' => AnyFailed
  BY <1>1, <1>2, <1>4, <1>5, RowsSetKept DEF IInv, Typed
<1>7. run' = run /\ status' = status /\ cut' = cut
  BY <1>1 DEF RowStep
<1>8. \A d \in Devices : /\ row'[d].status = row[d].status \/ row'[d].status = "pending"
                         /\ WaveOf[d] # run.wave => row'[d].status = row[d].status
  BY <1>2, <1>4 DEF RowsSet
<1>9. Created'
  BY <1>1, <1>5, <1>6, <1>7 DEF IInv, Created
<1>10. Halted'
  BY <1>1, <1>5, <1>7, <1>8 DEF IInv, Halted
<1>11. Walking'
  BY <1>5 DEF Walking
<1>12. Behind'
  <2>1. (\A d \in Devices : WaveOf[d] \in Nat) /\ run.wave \in Nat
    BY WaveOfIs DEF IInv
  <2>2. WaveGate'
    <3> SUFFICES ASSUME NEW d \in Devices, NEW e \in Devices, Updated(d), WaveOf[e] < WaveOf[d]
                 PROVE  row'[e].status = "succeeded"
      BY <1>6 DEF WaveGate
    <3>1. WaveOf[d] <= run.wave /\ row[e].status = "succeeded"
      BY DEF IInv, Behind, WaveGate
    <3>2. WaveOf[e] # run.wave
      BY <2>1, <3>1
    <3>3. QED BY <1>8, <3>1, <3>2
  <2>3. run.status = "running" => \A e \in Devices : WaveOf[e] < run.wave
                                     => row'[e].status \in {"none", "succeeded"}
    <3> SUFFICES ASSUME run.status = "running", NEW e \in Devices, WaveOf[e] < run.wave
                 PROVE  row'[e].status \in {"none", "succeeded"}
      OBVIOUS
    <3>1. row[e].status \in {"none", "succeeded"}
      BY DEF IInv, Behind
    <3>2. WaveOf[e] # run.wave
      BY <2>1
    <3>3. QED BY <1>8, <3>1, <3>2
  <2>4. QED BY <1>5, <1>6, <1>7, <2>2, <2>3 DEF IInv, Behind
<1>13. Verifying'
  BY <1>5, <1>6, <1>8 DEF IInv, Verifying
<1>14. Failing'
  BY <1>1, <1>5, <1>6, <1>7 DEF IInv, Failing
<1>15. QED BY <1>6, <1>9, <1>10, <1>11, <1>12, <1>13, <1>14 DEF IInv

LEMMA InsertRowInv == ASSUME IInv, NEW d \in Devices, InsertRow(d) PROVE IInv'
<1>1. PICK s \in {"pending", "not_started"} : SetRow(d, s)
  BY DEF InsertRow
<1>2. /\ RowStep /\ d \in creating /\ creating' = creating \ {d} /\ UNCHANGED <<tick, canceller>>
      /\ \A e \in creating : WaveOf[d] <= WaveOf[e]
  BY DEF InsertRow, RowStep
<1>3. /\ row' \in [Devices -> RowRecords] /\ row'[d].status = s
      /\ \A e \in Devices \ {d} : row'[e] = row[e]
  BY <1>1, SetRowIs DEF IInv
<1>4. /\ Typed' /\ WaveOf' = WaveOf
      /\ \A e \in Devices : Updated(e)' <=> Updated(e)
  BY <1>2, <1>3, RowKept DEF IInv, Typed
<1>5. run' = run /\ status' = status /\ cut' = cut /\ flagged' = flagged /\ tick' = tick
      /\ canceller' = canceller
  BY <1>2 DEF RowStep
<1>6. row[d].status = "none" /\ run.status # "none"
  BY <1>2 DEF IInv, Created
<1>7. d \notin tick.todo /\ (tick.at \in Working => tick.dev \in Devices \ {d})
  BY <1>6 DEF IInv, Walking
<1>8. \A e \in Devices \ {d} : (Upgraded(e)' <=> Upgraded(e)) /\ (Verified(e)' <=> Verified(e))
  BY <1>3, <1>5 DEF Upgraded, Verified
<1>9. Created'
  BY <1>2, <1>3, <1>4, <1>5, <1>6 DEF IInv, Created
<1>10. Halted'
  BY <1>3, <1>5 DEF IInv, Halted
<1>11. Walking'
  BY <1>3, <1>4, <1>5, <1>7 DEF IInv, Walking, Typed, TickOk
<1>12. Behind'
  <2>1. (\A e \in Devices : WaveOf[e] \in Nat) /\ run.wave \in Nat
    BY WaveOfIs DEF IInv
  <2>2. run.status = "running" => run.wave = 0 /\ tick.at # "advance"
    BY <1>2 DEF IInv, Created
  <2>3. WaveGate'
    BY <1>3, <1>4, <1>6 DEF IInv, Behind, WaveGate
  <2>4. \A e \in Devices : row[e].status = "succeeded" => row'[e].status = "succeeded"
    BY <1>3, <1>6
  <2>5. \A e \in Devices : Updated(e)' => WaveOf'[e] <= run'.wave
    BY <1>4, <1>5 DEF IInv, Behind
  <2>6. run.status = "running" => \A e \in Devices : ~(WaveOf[e] < run.wave)
    BY <2>1, <2>2
  <2>7. tick.at = "dispatch" =>
           \A e \in Devices : WaveOf[e] < WaveOf[tick.dev] => row'[e].status = "succeeded"
    BY <2>4 DEF IInv, Behind
  <2>8. QED BY <1>4, <1>5, <2>2, <2>3, <2>5, <2>6, <2>7 DEF Behind
<1>13. Verifying'
  BY <1>3, <1>5, <1>7, <1>8 DEF IInv, Verifying
<1>14. Failing'
  <2>1. AnyFailed' => AnyFailed
    BY <1>3 DEF AnyFailed
  <2>2. QED BY <1>5, <2>1 DEF IInv, Failing
<1>15. QED BY <1>4, <1>9, <1>10, <1>11, <1>12, <1>13, <1>14 DEF IInv

-----------------------------------------------------------------------------
(* Steps that write the run.                                               *)
RunStep == UNCHANGED <<jobVars, row, flagged, cut>>

LEMMA RunKept ==
  ASSUME IInv, RunStep, run' \in RunRecords, run'.plan = run.plan, TickOk(tick'),
         canceller' \in {"idle", "halting", "skipping"}, creating' \subseteq Devices
  PROVE  /\ Typed' /\ WaveOf' = WaveOf /\ WaveGate' /\ (AnyFailed <=> AnyFailed')
         /\ \A d \in Devices : /\ Updated(d)' <=> Updated(d)
                               /\ Upgraded(d)' <=> Upgraded(d)
                               /\ Verified(d)' <=> Verified(d)
<1>1. Typed'
  BY DEF IInv, Typed, JobsTypeOK, RunStep
<1>2. WaveOf' = WaveOf /\ (AnyFailed <=> AnyFailed')
  BY DEF WaveOf, AnyFailed, RunStep
<1>3. \A d \in Devices : (Updated(d)' <=> Updated(d)) /\ (Upgraded(d)' <=> Upgraded(d))
  BY DEF Updated, Upgraded, RunStep
<1>4. \A d \in Devices : Verified(d)' <=> Verified(d)
  BY <1>3 DEF Verified, RunStep
<1>5. WaveGate'
  BY <1>2, <1>3 DEF IInv, Behind, WaveGate, RunStep
<1>6. QED BY <1>1, <1>2, <1>3, <1>4, <1>5

(* The run ends, by the tick or by an operator.                            *)
LEMMA OverInv ==
  ASSUME IInv, RunStep, NEW s \in Over, run' = [run EXCEPT !.status = s], run.status # "none",
         creating' = creating, canceller' \in {"idle", "halting", "skipping"},
         \/ tick' = tick \/ tick' = IdleTick \/ At("skipping")
  PROVE  IInv'
<1>1. /\ run' \in RunRecords /\ run'.status = s /\ run'.wave = run.wave /\ run'.plan = run.plan
  BY RunIs DEF IInv, Typed, RunRecords
<1>2. /\ TickOk(tick')
      /\ \/ tick' = tick
         \/ tick'.at = "idle" /\ tick'.todo = {}
         \/ tick'.at = "skipping" /\ tick'.todo = tick.todo /\ tick'.seen = tick.seen
  <2>1. CASE tick' = tick
    BY <2>1 DEF IInv, Typed, TickOk
  <2>2. CASE tick' = IdleTick
    BY <2>2, IdleIs
  <2>3. CASE At("skipping")
    BY <2>3, AtIs DEF IInv
  <2>4. QED BY <2>1, <2>2, <2>3
<1>3. /\ Typed' /\ WaveOf' = WaveOf /\ WaveGate' /\ (AnyFailed <=> AnyFailed')
      /\ \A d \in Devices : /\ Updated(d)' <=> Updated(d)
                            /\ Upgraded(d)' <=> Upgraded(d)
                            /\ Verified(d)' <=> Verified(d)
  BY <1>1, <1>2, RunKept DEF IInv, Typed
<1>4. row' = row /\ status' = status /\ cut' = cut
  BY DEF RunStep
<1>5. Created'
  BY <1>1, <1>3, <1>4 DEF IInv, Created
<1>6. Halted'
  BY <1>1 DEF Halted
<1>7. Walking'
  BY <1>1, <1>2, <1>3, <1>4 DEF IInv, Walking
<1>8. Behind'
  BY <1>1, <1>2, <1>3, <1>4 DEF IInv, Behind
<1>9. Verifying'
  <2>1. tick.at \in Working => tick.dev \in Devices
    BY DEF IInv, Walking
  <2>2. QED BY <1>2, <1>3, <1>4, <2>1 DEF IInv, Verifying
<1>10. Failing'
  BY <1>1, <1>2, <1>3, <1>4 DEF IInv, Failing
<1>11. QED BY <1>3, <1>5, <1>6, <1>7, <1>8, <1>9, <1>10 DEF IInv

LEMMA EndsInv == ASSUME IInv, TickHaltRun \/ Complete \/ CancelHaltRun PROVE IInv'
<1>1. /\ RunStep /\ creating' = creating /\ canceller' \in {"idle", "halting", "skipping"}
      /\ tick' = tick \/ tick' = IdleTick \/ At("skipping")
  BY DEF TickHaltRun, Complete, CancelHaltRun, RunStep, IInv, Typed
<1>2. run.status # "none"
  BY DEF TickHaltRun, Complete, CancelHaltRun, IInv, Created
<1>3. PICK s \in Over : run' = [run EXCEPT !.status = s]
  BY DEF TickHaltRun, Complete, CancelHaltRun
<1>4. QED BY <1>1, <1>2, <1>3, OverInv

LEMMA CancelInv == ASSUME IInv, Cancel PROVE IInv'
<1>1. UNCHANGED <<jobVars, run, row, tick, creating, flagged, cut>>
  BY DEF Cancel
<1>2. canceller' = "halting" /\ run.status = "running"
  BY DEF Cancel
<1>3. Verifying' /\ WaveGate'
  BY <1>1 DEF IInv, Verifying, Verified, Upgraded, Behind, WaveGate, WaveOf, Updated
<1>4. Created' /\ Halted' /\ Walking'
  BY <1>1, <1>2 DEF IInv, Created, Halted, Walking, WaveOf
<1>5. Typed' /\ Behind' /\ Failing'
  BY <1>1, <1>2, <1>3 DEF IInv, Typed, JobsTypeOK, Behind, Updated, WaveOf, Failing, AnyFailed
<1>6. QED BY <1>3, <1>4, <1>5 DEF IInv

LEMMA CreateRunInv == ASSUME IInv, CreateRun PROVE IInv'
<1>1. /\ RunStep /\ run.status = "none" /\ run' = [run EXCEPT !.status = "running"]
      /\ creating' = Devices /\ tick' = tick /\ canceller' = canceller
  BY DEF CreateRun, RunStep
<1>2. /\ run' \in RunRecords /\ run'.status = "running" /\ run'.wave = run.wave
      /\ run'.plan = run.plan
  BY <1>1, RunIs DEF IInv, Typed, RunRecords
<1>3. /\ Typed' /\ WaveOf' = WaveOf /\ WaveGate' /\ (AnyFailed <=> AnyFailed')
      /\ \A d \in Devices : /\ Updated(d)' <=> Updated(d)
                            /\ Upgraded(d)' <=> Upgraded(d)
                            /\ Verified(d)' <=> Verified(d)
  BY <1>1, <1>2, RunKept DEF IInv, Typed
<1>4. row' = row /\ status' = status /\ cut' = cut
  BY <1>1 DEF RunStep
<1>5. /\ run.wave = 0 /\ tick.at = "idle" /\ canceller = "idle"
      /\ \A d \in Devices : row[d].status = "none"
      /\ \A j \in JobIds : status[j] = "absent"
  BY <1>1 DEF IInv, Created
<1>6. Created'
  BY <1>1, <1>2, <1>3, <1>4, <1>5 DEF Created
<1>7. Halted'
  BY <1>1, <1>4, <1>5 DEF Halted
<1>8. Walking'
  BY <1>1, <1>2, <1>3, <1>4, <1>5 DEF IInv, Walking
<1>9. Behind'
  BY <1>1, <1>2, <1>3, <1>4, <1>5 DEF IInv, Behind
<1>10. Verifying'
  BY <1>1, <1>4, <1>5 DEF Verifying
<1>11. Failing'
  BY <1>3, <1>4, <1>5 DEF Failing, AnyFailed
<1>12. QED BY <1>3, <1>6, <1>7, <1>8, <1>9, <1>10, <1>11 DEF IInv

LEMMA AdvanceWaveInv == ASSUME IInv, AdvanceWave PROVE IInv'
<1> DEFINE n == run.wave + 1
<1>1. /\ RunStep /\ tick.at = "advance" /\ run' = [run EXCEPT !.wave = n] /\ At("open")
      /\ creating' = creating /\ canceller' = canceller
  BY DEF AdvanceWave, RunStep
<1>2. (\A d \in Devices : WaveOf[d] \in Nat) /\ run.wave \in Nat /\ n \in Nat
  BY WaveOfIs DEF IInv
<1>3. /\ run' \in RunRecords /\ run'.status = run.status /\ run'.wave = n
      /\ run'.plan = run.plan
  <2> HIDE DEF n
  <2>1. QED BY <1>1, <1>2, RunIs DEF IInv, Typed, RunRecords
<1>4. TickOk(tick') /\ tick'.at = "open" /\ tick'.todo = {}
  BY <1>1, AtIs DEF IInv, Walking
<1>5. /\ Typed' /\ WaveOf' = WaveOf /\ WaveGate' /\ (AnyFailed <=> AnyFailed')
      /\ \A d \in Devices : /\ Updated(d)' <=> Updated(d)
                            /\ Upgraded(d)' <=> Upgraded(d)
                            /\ Verified(d)' <=> Verified(d)
  BY <1>1, <1>3, <1>4, RunKept DEF IInv, Typed
<1>6. row' = row /\ status' = status /\ cut' = cut
  BY <1>1 DEF RunStep
<1>7. run.status # "none" /\ (creating # {} => run.status # "running")
  BY <1>1 DEF IInv, Created
<1>8. Created'
  BY <1>1, <1>3, <1>5, <1>6, <1>7 DEF IInv, Created
<1>9. Halted'
  BY <1>1, <1>3, <1>4, <1>6 DEF IInv, Halted
<1>10. Walking'
  BY <1>4 DEF Walking
<1>11. Behind'
  <2>1. \A d \in Devices : Updated(d) => WaveOf[d] <= n
    <3> SUFFICES ASSUME NEW d \in Devices, Updated(d) PROVE WaveOf[d] <= n
      OBVIOUS
    <3>1. WaveOf[d] <= run.wave
      BY DEF IInv, Behind
    <3>2. QED BY <1>2, <3>1
  <2>2. \A e \in Devices : WaveOf[e] < n => WaveOf[e] < run.wave \/ WaveOf[e] = run.wave
    BY <1>2
  <2>3. run.status = "running" =>
           \A e \in Devices : WaveOf[e] < n => row[e].status \in {"none", "succeeded"}
    BY <1>1, <2>2 DEF IInv, Behind
  <2> HIDE DEF n
  <2>4. QED BY <1>3, <1>4, <1>5, <1>6, <2>1, <2>3 DEF Behind
<1>12. Verifying'
  BY <1>4, <1>5, <1>6 DEF IInv, Verifying
<1>13. Failing'
  BY <1>1, <1>3, <1>4, <1>5, <1>6 DEF IInv, Failing
<1>14. QED BY <1>5, <1>8, <1>9, <1>10, <1>11, <1>12, <1>13 DEF IInv

-----------------------------------------------------------------------------
(* Steps that write jobs.                                                  *)
JobStep == UNCHANGED <<run, row, canceller, cut>>

(* Jobs come and end, none of them updates anew; what has succeeded stays. *)
LEMMA JobsInv ==
  ASSUME IInv, JobStep, JobsTypeOK', creating' = creating,
         TickOk(tick'), Walking', run.status # "none",
         \A j \in JobIds : status[j] = "succeeded" => status'[j] = "succeeded",
         creating # {} => \A j \in JobIds : status'[j] # "succeeded",
         \A d \in Devices : Upgraded(d) => (row[d].update \in flagged' => row[d].update \in flagged),
         \A d \in Devices : Updated(d)' => \/ Updated(d)
                                           \/ WaveOf[d] = run.wave /\ tick.at = "dispatch" /\ tick.dev = d,
         tick'.at \in {"skipping", "advance"} => tick'.at = tick.at,
         tick'.at = "dispatch" => tick.at = "dispatch" /\ tick'.dev = tick.dev,
         tick'.at \in {"reboot", "record_reboot"} =>
            tick.at \in {"reboot", "record_reboot"} /\ tick'.dev = tick.dev,
         tick'.at \in {"verifying", "succeed"} => tick'.at = tick.at /\ tick'.dev = tick.dev,
         tick.at \in {"halt", "halting"} => tick'.at = tick.at
  PROVE  IInv'
<1> USE DEF JobStep
<1>1. Typed' /\ WaveOf' = WaveOf /\ (AnyFailed <=> AnyFailed')
  BY DEF IInv, Typed, WaveOf, AnyFailed
<1>2. \A d \in Devices : (Upgraded(d) => Upgraded(d)') /\ (Verified(d) => Verified(d)')
  BY DEF Upgraded, Verified
<1>3. Created' /\ Halted'
  BY <1>1 DEF IInv, Created, Halted
<1>4. (\A d \in Devices : WaveOf[d] \in Nat) /\ run.wave \in Nat
  BY WaveOfIs DEF IInv
<1>5. \A d \in Devices : Updated(d)' => WaveOf[d] <= run.wave
  BY <1>4 DEF IInv, Behind
<1>6. WaveGate'
  <2> SUFFICES ASSUME NEW d \in Devices, NEW e \in Devices, Updated(d)', WaveOf[e] < WaveOf[d]
               PROVE  row[e].status = "succeeded"
    BY <1>1 DEF WaveGate
  <2>1. CASE Updated(d)
    BY <2>1 DEF IInv, Behind, WaveGate
  <2>2. CASE tick.at = "dispatch" /\ tick.dev = d
    BY <2>2 DEF IInv, Behind
  <2>3. QED BY <2>1, <2>2
<1>7. Behind'
  BY <1>1, <1>5, <1>6 DEF IInv, Behind
<1>8. Verifying'
  <2>1. tick'.at \in Working => tick'.dev \in Devices
    BY DEF Walking
  <2>2. QED BY <1>2, <2>1 DEF IInv, Verifying
<1>9. Failing'
  BY <1>1 DEF IInv, Failing
<1>10. QED BY <1>1, <1>3, <1>7, <1>8, <1>9 DEF IInv

LEMMA JobRunsInv ==
  ASSUME IInv, NEW j \in JobIds,
         JobStarts(j) \/ \E outcome \in Outcomes : JobFinishes(j, outcome)
  PROVE  IInv'
<1>1. /\ JobStep /\ creating' = creating /\ tick' = tick /\ status[j] \in Pending
      /\ \A i \in JobIds \ {j} : status'[i] = status[i]
      /\ flagged' \in {flagged, flagged \cup {j}}
      /\ status'[j] # "absent" /\ (creating # {} => status'[j] # "succeeded")
      /\ JobsTypeOK'
  BY DEF JobStarts, JobFinishes, Start, Finish, JobStep, Outcomes, IInv, Typed, JobsTypeOK
<1>2. run.status # "none"
  BY <1>1 DEF IInv, Created
<1>3. TickOk(tick')
  BY <1>1 DEF IInv, Typed, TickOk
<1>4. Walking'
  BY <1>1 DEF IInv, Walking, JobStep, WaveOf
<1>5. creating # {} => \A i \in JobIds : status'[i] # "succeeded"
  BY <1>1 DEF IInv, Created
<1>6. \A d \in Devices : Upgraded(d) => (row[d].update \in flagged' => row[d].update \in flagged)
  BY <1>1 DEF Upgraded
<1>7. \A d \in Devices : Updated(d)' => Updated(d)
  BY <1>1 DEF Updated
<1>8. \A i \in JobIds : status[i] = "succeeded" => status'[i] = "succeeded"
  BY <1>1
<1>9. QED BY <1>1, <1>2, <1>3, <1>4, <1>5, <1>6, <1>7, <1>8, JobsInv

(* enqueue() in the tick: the job is in the table, or the row fails.       *)
LEMMA EnqueueInv == ASSUME IInv, Dispatch \/ Reboot PROVE IInv'
<1> DEFINE c == tick.dev
<1>1. /\ JobStep /\ creating' = creating /\ flagged' = flagged /\ tick.at \in {"dispatch", "reboot"}
  BY DEF Dispatch, Reboot, JobStep
<1>2. c \in Devices /\ WaveOf[c] = run.wave /\ run.status # "none"
  BY <1>1 DEF IInv, Walking, Created
<1>3. CASE UNCHANGED jobVars /\ At("fail")
  <2>1. /\ TickOk(tick') /\ tick'.at = "fail" /\ tick'.todo = tick.todo /\ tick'.seen = tick.seen
        /\ tick'.dev = tick.dev
    BY <1>3, AtIs DEF IInv
  <2>2. Walking'
    BY <1>1, <2>1 DEF IInv, Walking, JobStep, WaveOf
  <2>3. JobsTypeOK' /\ status' = status
    BY <1>3 DEF IInv, Typed, JobsTypeOK
  <2>4. \A d \in Devices : Updated(d)' => Updated(d)
    BY <2>3 DEF Updated
  <2>5. creating # {} => \A i \in JobIds : status'[i] # "succeeded"
    BY <2>3 DEF IInv, Created
  <2>6. QED BY <1>1, <1>2, <2>1, <2>2, <2>3, <2>4, <2>5, JobsInv
<1>4. ASSUME NEW j \in JobIds, NEW n \in {"record_update", "record_reboot"},
             j.device = c, Enqueue(j, c, TRUE), tick' = [tick EXCEPT !.at = n, !.job = j],
             \/ tick.at = "dispatch" /\ n = "record_update"
             \/ tick.at = "reboot" /\ n = "record_reboot" /\ j.action = "device.reboot"
      PROVE  IInv'
  <2>1. /\ JobsTypeOK' /\ status[j] = "absent" /\ status'[j] = "queued"
        /\ \A i \in JobIds \ {j} : status'[i] = status[i]
    BY <1>2, <1>4 DEF IInv, Typed, JobsTypeOK, Enqueue, Insert
  <2>2. /\ TickOk(tick') /\ tick'.at = n /\ tick'.todo = tick.todo /\ tick'.seen = tick.seen
        /\ tick'.dev = tick.dev
    BY <1>4 DEF IInv, Typed, TickOk
  <2>3. Walking'
    BY <1>1, <1>2, <2>2 DEF IInv, Walking, JobStep, WaveOf
  <2>4. \A d \in Devices : Updated(d)' => \/ Updated(d)
                                          \/ WaveOf[d] = run.wave /\ tick.at = "dispatch" /\ tick.dev = d
    BY <1>2, <1>4, <2>1 DEF Updated
  <2>5. creating # {} => \A i \in JobIds : status'[i] # "succeeded"
    BY <2>1 DEF IInv, Created
  <2>6. \A i \in JobIds : status[i] = "succeeded" => status'[i] = "succeeded"
    BY <2>1
  <2>7. QED BY <1>1, <1>2, <1>4, <2>1, <2>2, <2>3, <2>4, <2>5, <2>6, JobsInv
<1>5. QED
  <2>1. CASE Dispatch
    <3>1. CASE At("fail") /\ UNCHANGED jobVars
      BY <1>3, <3>1
    <3>2. CASE \E j \in JobIds : /\ j.device = c /\ Enqueue(j, c, TRUE)
                                 /\ tick' = [tick EXCEPT !.at = "record_update", !.job = j]
      <4>1. PICK j \in JobIds : /\ j.device = c /\ Enqueue(j, c, TRUE)
                                /\ tick' = [tick EXCEPT !.at = "record_update", !.job = j]
        BY <3>2
      <4>2. tick.at = "dispatch"
        BY <2>1 DEF Dispatch
      <4>3. QED BY <1>4, <4>1, <4>2
    <3>3. QED BY <2>1, <3>1, <3>2 DEF Dispatch, EnqueueFor
  <2>2. CASE Reboot
    BY <1>3, <1>4, <2>2 DEF Reboot, EnqueueFor
  <2>3. QED BY <2>1, <2>2

(* What a fault leaves of the tick knows nothing, or goes on to a row.     *)
PassesRow == tick.at = "rows" /\ \E d \in tick.todo : tick' = [tick EXCEPT !.todo = @ \ {d}]

LEMMA TickLeft ==
  ASSUME IInv,
         tick' = IdleTick \/ tick' = tick \/ (tick.at = "halt" /\ At("rows")) \/ PassesRow,
         run' = run, row' = row
  PROVE  TickOk(tick') /\ Walking' /\ (tick' = tick \/ tick'.at \in {"idle", "rows"})
<1>1. CASE tick' = IdleTick
  BY <1>1, IdleIs DEF Walking
<1>2. CASE tick.at = "halt" /\ At("rows")
  <2>1. TickOk(tick') /\ tick'.at = "rows" /\ tick'.todo = tick.todo /\ tick'.seen = tick.seen
    BY <1>2, AtIs DEF IInv
  <2>2. QED BY <2>1 DEF IInv, Walking, WaveOf
<1>3. CASE tick' = tick
  BY <1>3 DEF IInv, Typed, TickOk, Walking, WaveOf
<1>4. CASE PassesRow
  <2>1. PICK d \in tick.todo : tick' = [tick EXCEPT !.todo = @ \ {d}]
    BY <1>4 DEF PassesRow
  <2>2. /\ TickOk(tick') /\ tick'.at = "rows" /\ tick'.todo = tick.todo \ {d}
        /\ tick'.seen = tick.seen
    BY <1>4, <2>1 DEF IInv, Typed, TickOk, PassesRow
  <2>3. QED BY <2>2 DEF IInv, Walking, WaveOf
<1>5. QED BY <1>1, <1>2, <1>3, <1>4

(* A restart, or a statement that fails: a run whose halt it cuts is marked. *)
LEMMA FaultInv ==
  ASSUME IInv, TickFails \/ CreateFails \/ CancelFails \/ Restart
  PROVE  IInv'
<1>1. /\ UNCHANGED <<run, row, flagged>> /\ (cut' = (cut \/ Unhalted))
      /\ canceller' \in {canceller, "idle"} /\ creating' \in {creating, {}}
      /\ \/ tick' = IdleTick
         \/ tick.at = "halt" /\ At("rows")
         \/ PassesRow
         \/ UNCHANGED tick
      /\ UNCHANGED jobVars \/ FailPending
  BY DEF TickFails, CreateFails, CancelFails, Restart, Fault, PassesRow
<1>2. /\ JobsTypeOK'
      /\ \A j \in JobIds : /\ status[j] = "succeeded" <=> status'[j] = "succeeded"
                           /\ status[j] = "absent" <=> status'[j] = "absent"
  BY <1>1 DEF FailPending, IInv, Typed, JobsTypeOK
<1>3. TickOk(tick') /\ Walking' /\ (tick' = tick \/ tick'.at \in {"idle", "rows"})
  <2>1. tick' = IdleTick \/ tick' = tick \/ (tick.at = "halt" /\ At("rows")) \/ PassesRow
    BY <1>1
  <2>2. run' = run /\ row' = row
    BY <1>1
  <2>3. QED BY <2>1, <2>2, TickLeft
<1>4. Typed' /\ WaveOf' = WaveOf /\ (AnyFailed' <=> AnyFailed)
  <2>1. cut' \in BOOLEAN
    BY <1>1 DEF Unhalted
  <2>2. QED BY <1>1, <1>2, <1>3, <2>1 DEF IInv, Typed, WaveOf, AnyFailed
<1>5. \A d \in Devices : (Updated(d)' <=> Updated(d)) /\ (Verified(d) => Verified(d)')
                         /\ (Upgraded(d) => Upgraded(d)')
  BY <1>1, <1>2 DEF Updated, Verified, Upgraded
<1>6. Created'
  <2>1. tick.at = "idle" => tick'.at = "idle"
    BY <1>1, IdleIs DEF PassesRow
  <2>2. QED BY <1>1, <1>2, <1>3, <1>4, <2>1 DEF IInv, Created
<1>7. Halted'
  BY <1>1, <1>3 DEF IInv, Halted
<1>8. Failing'
  <2>1. CASE Unhalted
    BY <1>1, <2>1 DEF Failing
  <2>2. CASE ~Unhalted
    BY <1>1, <1>3, <1>4, <2>2 DEF IInv, Failing, Unhalted, AnyFailed
  <2>3. QED BY <2>1, <2>2
<1>9. Behind'
  <2>1. WaveGate'
    BY <1>1, <1>4, <1>5 DEF IInv, Behind, WaveGate
  <2>2. QED BY <1>1, <1>3, <1>4, <1>5, <2>1 DEF IInv, Behind
<1>10. Verifying'
  <2>1. \A d \in Devices : row'[d] = row[d]
    BY <1>1
  <2>2. CASE tick' = tick
    <3>1. tick.at \in Working => tick.dev \in Devices
      BY DEF IInv, Walking
    <3>2. QED BY <1>5, <2>1, <2>2, <3>1 DEF IInv, Verifying
  <2>3. CASE tick'.at \in {"idle", "rows"}
    BY <1>5, <2>1, <2>3 DEF IInv, Verifying
  <2>4. QED BY <1>3, <2>2, <2>3
<1>11. QED BY <1>3, <1>4, <1>6, <1>7, <1>8, <1>9, <1>10 DEF IInv

-----------------------------------------------------------------------------
(* Every step                                                              *)

LEMMA NextInv == ASSUME IInv, [RolloutNext]_vars PROVE IInv'
<1>1. CASE TickBegin \/ TickStep
  BY <1>1, TickBeginInv, NextRowInv, EnqueueInv, RecordUpdateInv, RecordRebootInv, RecordStatusInv,
     TickHaltInv, EndsInv, SkipInv, AfterRowsInv, ReadWaveInv, AdvanceWaveInv, OpenWaveInv
     DEF TickStep
<1>2. CASE \/ CreateRun \/ Cancel \/ CancelHaltRun \/ CancelSkipRows
           \/ TickFails \/ CreateFails \/ CancelFails \/ Restart
  BY <1>2, CreateRunInv, CancelInv, EndsInv, SkipInv, FaultInv
<1>3. ASSUME NEW d \in Devices, Collect(d) \/ ComesBack(d) \/ TimePasses(d) PROVE IInv'
  BY <1>3, WorldInv DEF Collect, ComesBack, TimePasses
<1>4. ASSUME NEW d \in Devices, InsertRow(d) PROVE IInv'
  BY <1>4, InsertRowInv
<1>5. ASSUME NEW j \in JobIds, JobStarts(j) \/ \E outcome \in Outcomes : JobFinishes(j, outcome)
      PROVE  IInv'
  BY <1>5, JobRunsInv
<1>6. CASE UNCHANGED vars
  BY <1>6, WorldInv DEF vars
<1>7. QED BY <1>1, <1>2, <1>3, <1>4, <1>5, <1>6 DEF RolloutNext

LEMMA AlwaysInv == RolloutSpec => []IInv
BY InitInv, NextInv, PTL DEF RolloutSpec

(* No device of a later wave is touched before every device of the earlier *)
(* waves has passed its gate: for any plan, cancels and faults.            *)
THEOREM WavesInOrder == RolloutSpec => []WaveGate
<1>1. IInv => WaveGate
  BY DEF IInv, Behind
<1>2. QED BY <1>1, AlwaysInv, PTL

(* A device whose update left a reboot pending is counted a success only   *)
(* after its reboot has succeeded.                                         *)
THEOREM RebootsTaken == RolloutSpec => []PendingRebootTaken
<1>1. IInv => PendingRebootTaken
  BY DEF IInv, Verifying, Verified, PendingRebootTaken
<1>2. QED BY <1>1, AlwaysInv, PTL

(* A device is updated anew by nothing but Dispatch.                       *)
LEMMA OnlyDispatch ==
  ASSUME IInv, [RolloutNext]_vars, NEW d \in Devices, Updated(d)', ~Updated(d)
  PROVE  tick.at = "dispatch"
<1>1. UNCHANGED status => (Updated(d)' <=> Updated(d))
  BY DEF Updated
<1>2. CASE Dispatch
  BY <1>2 DEF Dispatch
<1>3. CASE Reboot
  <2>1. CASE UNCHANGED jobVars
    BY <1>1, <2>1
  <2>2. CASE \E j \in JobIds : j.action = "device.reboot" /\ status' = [status EXCEPT ![j] = "queued"]
    BY <2>2 DEF Updated, IInv, Typed, JobsTypeOK
  <2>3. QED BY <1>3, <2>1, <2>2 DEF Reboot, EnqueueFor, Enqueue, Insert
<1>4. ASSUME NEW j \in JobIds, JobStarts(j) \/ \E outcome \in Outcomes : JobFinishes(j, outcome)
      PROVE  Updated(d)' => Updated(d)
  BY <1>4 DEF JobStarts, JobFinishes, Start, Finish, Updated, IInv, Typed, JobsTypeOK
<1>5. Restart => (Updated(d)' => Updated(d))
  BY DEF Restart, FailPending, Updated, IInv, Typed, JobsTypeOK
<1>6. CASE TickBegin \/ (TickStep /\ ~Dispatch /\ ~Reboot)
  BY <1>1, <1>6 DEF TickBegin, TickStep, NextRow, RecordUpdate, RecordReboot, RecordVerifying,
     RecordSuccess, RecordFailure, TickHalt, TickHaltRun, TickSkipRows, AfterRows, ReadWave, Complete,
     AdvanceWave, OpenWave
<1>7. CASE \/ CreateRun \/ Cancel \/ CancelHaltRun \/ CancelSkipRows
           \/ TickFails \/ CreateFails \/ CancelFails \/ UNCHANGED vars
  BY <1>1, <1>7 DEF CreateRun, Cancel, CancelHaltRun, CancelSkipRows, TickFails, CreateFails,
     CancelFails, vars
<1>8. ASSUME NEW e \in Devices, InsertRow(e) \/ Collect(e) \/ ComesBack(e) \/ TimePasses(e)
      PROVE  Updated(d)' => Updated(d)
  BY <1>1, <1>8 DEF InsertRow, Collect, ComesBack, TimePasses
<1>9. QED BY <1>2, <1>3, <1>4, <1>5, <1>6, <1>7, <1>8 DEF RolloutNext, TickStep

(* Once a device has failed, the run dispatches nothing more, whatever is  *)
(* restarted and whichever statements fail, but between row and run.       *)
THEOREM FailureHalts == RolloutSpec => FailureStopsDispatch
<1>1. ASSUME IInv, [RolloutNext]_vars
      PROVE  [~cut /\ (\E e \in Devices : row[e].status = "failed")
              => \A d \in Devices : Updated(d)' => Updated(d)]_vars
  BY <1>1, OnlyDispatch DEF IInv, Failing, AnyFailed
<1>2. QED BY <1>1, AlwaysInv, PTL DEF RolloutSpec, FailureStopsDispatch
=============================================================================
