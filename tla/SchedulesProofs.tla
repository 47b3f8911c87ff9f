--------------------------- MODULE SchedulesProofs ---------------------------
(***************************************************************************)
(* Proofs about Schedules, for any jobs and any bounds on failures, edits  *)
(* and restarts.                                                           *)
(***************************************************************************)
EXTENDS Schedules, TLAPS

Firing == {"dispatch", "record", "refused"}

(* The tick learns what has ended; a row that is not there has no slot.    *)
ThreadsHold == /\ tick.at = "learn" => tick.seen.job \in JobIds /\ status[tick.seen.job] \in Terminal
               /\ ~row.exists => row.next = "null"

(* Unless a stale row was written back, what the tick fires has not used   *)
(* up its failures, ...                                                    *)
FailuresLeft == ~stale => /\ row.failures >= MaxFailures => row.paused
                          /\ tick.at \in Firing => row.failures < MaxFailures

(* ... and is not fired before the tick has queued it.                     *)
SlotHeld == ~stale /\ ~cut =>
    /\ fired <= 1
    /\ tick.at = "dispatch" => fired = 0
    /\ row.next = "due" /\ tick.at # "record" => fired = 0

(* The inductive invariant behind the theorems.                            *)
IInv == TypeOK /\ ThreadsHold /\ FailuresLeft /\ SlotHeld

-----------------------------------------------------------------------------
USE SchedulesAssumption, JobsAssumption
    DEF Specs, Edits, FailureCap, Statuses, Pending, Terminal, Firing, jobVars, counts

(* Mapped to one more than the failures, up to the cap.                    *)
LEMMA Plus1Is ==
  ASSUME NEW n \in 0..FailureCap
  PROVE  Plus1(n) = IF n < FailureCap THEN n + 1 ELSE FailureCap
<1> DEFINE S == {n + 1, FailureCap}
           m == IF n < FailureCap THEN n + 1 ELSE FailureCap
<1>1. m \in S /\ \A y \in S : m <= y
  OBVIOUS
<1>2. \A x \in S : (\A y \in S : x <= y) => x = m
  OBVIOUS
<1>3. QED BY <1>1, <1>2 DEF Plus1, Min

LEMMA InitInv == SchedulesInit => IInv
<1> SUFFICES ASSUME SchedulesInit PROVE IInv
  OBVIOUS
<1> USE DEF SchedulesInit, Init
<1>1. NoRow \in Rows /\ NoRow.failures = 0 /\ NoRow.next = "null"
  BY DEF NoRow, Rows
<1>2. IdleTick \in Ticks /\ IdleTick.at = "idle"
  BY DEF IdleTick, NoTickRead, Ticks
<1>3. IdleEditor \in Editors /\ IdleEditor.at = "idle"
  BY DEF IdleEditor, NoEditRead, Editors
<1>4. IdleRunner \in Runners
  BY DEF IdleRunner, Runners
<1>5. /\ stale = FALSE /\ cut = FALSE
      /\ edits \in 0..MaxEdits /\ restarts \in 0..MaxRestarts
  OBVIOUS
<1>a. JobsTypeOK /\ learnt \subseteq JobIds
  BY DEF JobsTypeOK
<1>b. row \in Rows /\ tick \in Ticks /\ editor \in Editors /\ runner \in Runners
  BY <1>1, <1>2, <1>3, <1>4
<1>c. fired \in 0..2
  OBVIOUS
<1>d. stale \in BOOLEAN /\ cut \in BOOLEAN
  BY <1>5
<1>6. TypeOK
  BY <1>a, <1>b, <1>c, <1>d, <1>5 DEF TypeOK
<1>7. QED BY <1>1, <1>2, <1>3, <1>6 DEF IInv, ThreadsHold, FailuresLeft, SlotHeld

-----------------------------------------------------------------------------
(* Only the job table changes, and what has ended stays ended.             *)
LEMMA JobsInv ==
  ASSUME IInv,
         \/ \E j \in JobIds : JobStarts(j) \/ JobFinishes(j)
  PROVE  IInv'
<1>1. /\ JobsTypeOK' /\ \A j \in JobIds : status[j] \in Terminal => status'[j] = status[j]
      /\ UNCHANGED <<row, tick, editor, runner, fired, learnt, counts>>
  BY DEF IInv, TypeOK, JobsTypeOK, JobStarts, JobFinishes, Start, Finish
<1>2. QED BY <1>1 DEF IInv, TypeOK, ThreadsHold, FailuresLeft, SlotHeld

LEMMA QueueIs ==
  ASSUME TypeOK, NEW j \in JobIds, NEW ids, Queue(j, ids)
  PROVE  JobsTypeOK' /\ \A i \in JobIds : status[i] \in Terminal => status'[i] = status[i]
BY DEF TypeOK, JobsTypeOK, Queue, Enqueue, Insert

LEMMA RunNowInv == ASSUME IInv, NEW j \in JobIds, RunNow(j) PROVE IInv'
<1>1. /\ JobsTypeOK' /\ \A i \in JobIds : status[i] \in Terminal => status'[i] = status[i]
      /\ UNCHANGED <<row, tick, editor, fired, learnt, counts>>
  BY QueueIs DEF IInv, RunNow
<1>2. runner' \in Runners
  BY DEF RunNow, Runners
<1>3. QED BY <1>1, <1>2 DEF IInv, TypeOK, ThreadsHold, FailuresLeft, SlotHeld

(* A step that leaves the failures, the pause and the slot of the row.     *)
LEMMA RowAsideInv ==
  ASSUME IInv, NEW r \in Rows, row' = r, NEW n \in Runners, runner' = n,
         UNCHANGED <<jobVars, tick, editor, fired, learnt, counts>>,
         r.exists = row.exists, r.next = row.next, r.failures = row.failures, r.paused = row.paused
  PROVE  IInv'
BY DEF IInv, TypeOK, JobsTypeOK, ThreadsHold, FailuresLeft, SlotHeld

LEMMA RecordRunNowInv == ASSUME IInv, RecordRunNow PROVE IInv'
<1> DEFINE r == [row EXCEPT !.job = runner.job, !.last = "queued"]
<1>1. row \in Rows /\ runner.job \in JobIds \cup {NoJob} /\ IdleRunner \in Runners
  BY DEF IInv, TypeOK, Runners, IdleRunner
<1>2. /\ r \in Rows
      /\ r.exists = row.exists /\ r.next = row.next /\ r.failures = row.failures /\ r.paused = row.paused
  BY <1>1 DEF Rows
<1>3. /\ row' = r \/ row' = row
      /\ runner' = IdleRunner
      /\ UNCHANGED <<jobVars, tick, editor, fired, learnt, counts>>
  BY DEF RecordRunNow, Update
<1> HIDE DEF r, IdleRunner
<1>4. QED BY <1>1, <1>2, <1>3, RowAsideInv

LEMMA OncePassesInv == ASSUME IInv, OncePasses PROVE IInv'
<1> DEFINE r == [row EXCEPT !.over = TRUE]
<1>1. row \in Rows /\ runner \in Runners
  BY DEF IInv, TypeOK
<1>2. /\ r \in Rows
      /\ r.exists = row.exists /\ r.next = row.next /\ r.failures = row.failures /\ r.paused = row.paused
  BY <1>1 DEF Rows
<1>3. row' = r /\ UNCHANGED <<jobVars, tick, editor, runner, fired, learnt, counts>>
  BY DEF OncePasses
<1> HIDE DEF r
<1>4. QED BY <1>1, <1>2, <1>3, RowAsideInv

LEMMA CreateInv == ASSUME IInv, NEW spec \in Specs, Create(spec) PROVE IInv'
<1>1. /\ row' \in Rows /\ row'.failures = 0 /\ row'.next = "future" /\ row'.exists
  <2>1. NoRow \in Rows /\ NoRow.failures = 0
    BY DEF NoRow, Rows
  <2>2. row' = [NoRow EXCEPT !.exists = TRUE, !.spec = spec, !.next = "future"]
    BY DEF Create
  <2> HIDE DEF NoRow
  <2>3. QED BY <2>1, <2>2 DEF Rows
<1>2. ~row.exists /\ UNCHANGED <<jobVars, tick, editor, runner, fired, learnt, counts>>
  BY DEF Create
<1>3. TypeOK'
  BY <1>1, <1>2 DEF IInv, TypeOK, JobsTypeOK
<1>4. ThreadsHold' /\ FailuresLeft' /\ SlotHeld'
  BY <1>1, <1>2 DEF IInv, TypeOK, ThreadsHold, FailuresLeft, SlotHeld
<1>5. QED BY <1>3, <1>4 DEF IInv

(* The slot comes, and has not been fired.                                 *)
LEMMA TimePassesInv == ASSUME IInv, TimePasses PROVE IInv'
<1>1. row \in Rows
  BY DEF IInv, TypeOK
<1>2. /\ row' \in Rows /\ row'.exists = row.exists /\ row'.paused = row.paused
      /\ row'.failures = row.failures
  <2> DEFINE o == row.spec = "once"
             r == [row EXCEPT !.next = "due", !.over = o]
  <2>1. o \in BOOLEAN
    OBVIOUS
  <2> HIDE DEF o
  <2>2. r \in Rows /\ r.exists = row.exists /\ r.paused = row.paused /\ r.failures = row.failures
    BY <1>1, <2>1 DEF Rows
  <2>3. QED BY <2>2 DEF TimePasses, o
<1>3. /\ row.next = "future" /\ fired' = 0
      /\ UNCHANGED <<jobVars, tick, editor, runner, learnt, edits, restarts, stale>> /\ cut' = FALSE
  BY DEF TimePasses
<1>4. TypeOK'
  <2>1. cut' \in BOOLEAN
    BY <1>3
  <2>2. QED BY <1>2, <1>3, <2>1 DEF IInv, TypeOK, JobsTypeOK
<1>5. ThreadsHold' /\ FailuresLeft' /\ SlotHeld'
  BY <1>2, <1>3 DEF IInv, TypeOK, ThreadsHold, FailuresLeft, SlotHeld
<1>6. QED BY <1>4, <1>5 DEF IInv

-----------------------------------------------------------------------------
(* The tick reads: what it fires is due, and is not paused.                *)
LEMMA TickReadsInv == ASSUME IInv, TickBegin \/ FireDue \/ Refuse PROVE IInv'
<1>1. TickRead \in [spec : Specs, job : JobIds \cup {NoJob}, failures : 0..FailureCap]
  BY DEF IInv, TypeOK, Rows, TickRead
<1>2. IdleTick \in Ticks
  BY DEF IdleTick, NoTickRead, Ticks
<1>3. tick' \in Ticks
  <2>1. CASE TickBegin
    BY <1>1, <1>2, <2>1 DEF TickBegin, Ticks
  <2>2. CASE FireDue
    BY <1>1, <1>2, <2>2 DEF IInv, TypeOK, FireDue, Ticks
  <2>3. CASE Refuse
    BY <2>3 DEF IInv, TypeOK, Refuse, Ticks
  <2>4. QED BY <2>1, <2>2, <2>3
<1>4. UNCHANGED <<jobVars, row, editor, runner, fired, learnt, counts>>
  BY DEF TickBegin, FireDue, Refuse
<1>5. /\ tick'.at = "learn" => tick'.seen.job \in JobIds /\ status[tick'.seen.job] \in Terminal
      /\ tick'.at \in Firing => \/ row.exists /\ ~row.paused /\ row.next = "due"
                                \/ tick.at = "dispatch"
      /\ tick'.at # "record" /\ tick.at # "record"
  <2>1. CASE TickBegin
    BY <2>1 DEF IInv, TypeOK, Rows, TickBegin, TickRead, IdleTick
  <2>2. CASE FireDue
    BY <2>2 DEF IInv, TypeOK, Ticks, FireDue, IdleTick
  <2>3. CASE Refuse
    BY <2>3 DEF IInv, TypeOK, Ticks, Refuse
  <2>4. QED BY <2>1, <2>2, <2>3
<1>6. TypeOK'
  BY <1>3, <1>4 DEF IInv, TypeOK, JobsTypeOK
<1>7. ThreadsHold' /\ FailuresLeft' /\ SlotHeld'
  BY <1>4, <1>5 DEF IInv, TypeOK, Rows, ThreadsHold, FailuresLeft, SlotHeld
<1>8. QED BY <1>6, <1>7 DEF IInv

LEMMA DispatchInv == ASSUME IInv, NEW j \in JobIds, Dispatch(j) PROVE IInv'
<1>1. /\ JobsTypeOK' /\ \A i \in JobIds : status[i] \in Terminal => status'[i] = status[i]
      /\ UNCHANGED <<row, editor, runner, learnt, counts>>
  BY QueueIs DEF IInv, Dispatch
<1>2. tick' \in Ticks /\ tick'.at = "record" /\ tick.at = "dispatch"
  BY DEF IInv, TypeOK, Dispatch, Ticks
<1>3. fired' \in 0..2 /\ (fired = 0 => fired' = 1)
  <2>1. fired \in 0..2 /\ fired' = Min({fired + 1, 2})
    BY DEF IInv, TypeOK, Dispatch
  <2>2. \A x \in {fired + 1, 2} : (\A y \in {fired + 1, 2} : x <= y)
            => x \in 0..2 /\ (fired = 0 => x = 1)
    BY <2>1
  <2>3. \E x \in {fired + 1, 2} : \A y \in {fired + 1, 2} : x <= y
    BY <2>1
  <2>4. QED BY <2>1, <2>2, <2>3 DEF Min
<1>4. TypeOK'
  BY <1>1, <1>2, <1>3 DEF IInv, TypeOK
<1>5. ThreadsHold' /\ FailuresLeft' /\ SlotHeld'
  BY <1>1, <1>2, <1>3 DEF IInv, TypeOK, ThreadsHold, FailuresLeft, SlotHeld
<1>6. QED BY <1>4, <1>5 DEF IInv

(* A step of the tick that ends with the row of the outcome or the firing. *)
LEMMA TickWritesInv ==
  ASSUME IInv, NEW r \in Rows, row' = IF row.exists THEN r ELSE row,
         NEW t \in Ticks, tick' = t, t.at \in {"idle", "fire"},
         tick.at \in {"learn", "record", "refused"},
         r.exists = row.exists,
         r.next # "due",
         ~stale => (r.failures >= MaxFailures => r.paused),
         NEW l \in SUBSET JobIds, learnt' = l,
         UNCHANGED <<jobVars, editor, runner, fired, counts>>
  PROVE  IInv'
<1>1. TypeOK'
  BY DEF IInv, TypeOK, JobsTypeOK
<1>a. (~row.exists => row.next = "null") /\ row \in Rows
  BY DEF IInv, TypeOK, ThreadsHold
<1>2. /\ row'.next # "due" /\ (~row'.exists => row'.next = "null")
      /\ row' = r \/ row' = row
  <2>1. CASE row.exists
    BY <2>1
  <2>2. CASE ~row.exists
    BY <2>2, <1>a
  <2>3. QED BY <2>1, <2>2
<1>3. ThreadsHold' /\ FailuresLeft'
  BY <1>2 DEF IInv, ThreadsHold, FailuresLeft
<1>4. SlotHeld'
  BY <1>2 DEF IInv, SlotHeld
<1>5. QED BY <1>1, <1>3, <1>4 DEF IInv

LEMMA LearnInv == ASSUME IInv, Learn PROVE IInv'
<1> DEFINE won == status[tick.seen.job] = "succeeded"
           n == IF won THEN 0 ELSE Plus1(tick.seen.failures)
           p == ~won /\ (tick.seen.spec = "once" \/ Exhausted(n))
           x == NextAfter(tick.seen.spec, row.over)
           s == status[tick.seen.job]
           r == [row EXCEPT !.last = s, !.failures = n, !.paused = p, !.next = x]
           t == [IdleTick EXCEPT !.at = "fire"]
           l == learnt \cup {tick.seen.job}
<1>1. /\ row \in Rows /\ tick.at = "learn" /\ tick.seen.job \in JobIds
      /\ s \in Terminal /\ tick.seen.failures \in 0..FailureCap
  BY DEF IInv, TypeOK, ThreadsHold, Learn, Ticks
<1>2. /\ n \in 0..FailureCap /\ p \in BOOLEAN /\ x \in {"null", "future"}
      /\ n >= MaxFailures => p
  BY <1>1, Plus1Is DEF NextAfter, Exhausted
<1>3. t \in Ticks /\ t.at = "fire"
  BY DEF IdleTick, NoTickRead, Ticks
<1>4. l \in SUBSET JobIds
  BY <1>1 DEF IInv, TypeOK
<1>5. /\ row' = IF row.exists THEN r ELSE row
      /\ tick' = t /\ learnt' = l /\ UNCHANGED <<jobVars, editor, runner, fired, counts>>
  BY DEF Learn, Update
<1> HIDE DEF n, p, x, s, t, l
<1>6. r \in Rows /\ r.exists = row.exists /\ r.next = x /\ r.failures = n /\ r.paused = p
  BY <1>1, <1>2 DEF Rows
<1> HIDE DEF r
<1>7. QED BY <1>1, <1>2, <1>3, <1>4, <1>5, <1>6, TickWritesInv

LEMMA RecordFiredInv == ASSUME IInv, RecordFired PROVE IInv'
<1> DEFINE x == IF tick.seen.spec = "once" THEN "null" ELSE "future"
           r == [row EXCEPT !.job = tick.job, !.last = "queued", !.paused = FALSE, !.next = x]
<1>1. /\ row \in Rows /\ tick.at = "record" /\ tick.job \in JobIds \cup {NoJob}
      /\ learnt \in SUBSET JobIds /\ x \in {"null", "future"}
  BY DEF IInv, TypeOK, RecordFired, Ticks
<1>2. IdleTick \in Ticks /\ IdleTick.at = "idle"
  BY DEF IdleTick, NoTickRead, Ticks
<1>3. /\ row' = IF row.exists THEN r ELSE row
      /\ tick' = IdleTick /\ UNCHANGED <<jobVars, editor, runner, fired, learnt, counts>>
  BY DEF RecordFired, Update
<1> HIDE DEF x, IdleTick
<1>4. r \in Rows /\ r.exists = row.exists /\ r.next = x /\ r.failures = row.failures
  BY <1>1 DEF Rows
<1>5. ~stale => r.failures < MaxFailures
  BY <1>1, <1>4 DEF IInv, FailuresLeft
<1>6. row.failures \in Nat
  BY <1>1 DEF Rows
<1> HIDE DEF r
<1>7. QED BY <1>1, <1>2, <1>3, <1>4, <1>5, <1>6, TickWritesInv

LEMMA RecordRefusedInv == ASSUME IInv, RecordRefused PROVE IInv'
<1> DEFINE n == Plus1(tick.seen.failures)
           p == Exhausted(n)
           x == IF p THEN "null" ELSE "future"
           r == [row EXCEPT !.last = "dispatch_failed", !.failures = n, !.paused = p, !.next = x]
<1>1. /\ row \in Rows /\ tick.at = "refused" /\ tick.seen.failures \in 0..FailureCap
      /\ learnt \in SUBSET JobIds
  BY DEF IInv, TypeOK, RecordRefused, Ticks
<1>2. n \in 0..FailureCap /\ p \in BOOLEAN /\ x \in {"null", "future"} /\ (n >= MaxFailures => p)
  BY <1>1, Plus1Is DEF Exhausted
<1>3. IdleTick \in Ticks /\ IdleTick.at = "idle"
  BY DEF IdleTick, NoTickRead, Ticks
<1>4. /\ row' = IF row.exists THEN r ELSE row
      /\ tick' = IdleTick /\ UNCHANGED <<jobVars, editor, runner, fired, learnt, counts>>
  BY DEF RecordRefused, Update
<1> HIDE DEF n, p, x, IdleTick
<1>5. r \in Rows /\ r.exists = row.exists /\ r.next = x /\ r.failures = n /\ r.paused = p
  BY <1>1, <1>2 DEF Rows
<1> HIDE DEF r
<1>6. QED BY <1>1, <1>2, <1>3, <1>4, <1>5, TickWritesInv

-----------------------------------------------------------------------------
(* An edit reads, and writes: what it had read, or a row of its own.       *)
LEMMA EditBeginInv ==
  ASSUME IInv, NEW what \in Edits, NEW spec \in Specs, NEW over \in BOOLEAN,
         EditBegin(what, spec, over)
  PROVE  IInv'
<1>1. editor' \in Editors
  BY DEF IInv, TypeOK, Rows, EditBegin, EditRead, Editors
<1>2. edits' \in 0..MaxEdits
  BY DEF IInv, TypeOK, EditBegin
<1>3. UNCHANGED <<jobVars, row, tick, runner, fired, learnt, restarts, stale, cut>>
  BY DEF EditBegin
<1>4. QED BY <1>1, <1>2, <1>3 DEF IInv, TypeOK, JobsTypeOK, ThreadsHold, FailuresLeft, SlotHeld

(* A row that an editor leaves behind, unless it was stale.                *)
LEMMA EditedInv ==
  ASSUME IInv, NEW r \in Rows, row' = r, NEW s \in BOOLEAN, stale' = s, stale => s,
         ~r.exists => r.next = "null",
         ~s => /\ r.failures = 0 \/ r.failures = row.failures
               /\ r.failures >= MaxFailures => r.paused
               /\ r.next = "due" => row.next = "due",
         NEW e \in Editors, editor' = e,
         UNCHANGED <<jobVars, tick, runner, fired, learnt, edits, restarts, cut>>
  PROVE  IInv'
BY DEF IInv, TypeOK, JobsTypeOK, ThreadsHold, FailuresLeft, SlotHeld

LEMMA DeleteInv == ASSUME IInv, Delete PROVE IInv'
<1>1. NoRow \in Rows /\ NoRow.failures = 0 /\ NoRow.next = "null"
  BY DEF NoRow, Rows
<1>2. IdleEditor \in Editors
  BY DEF IdleEditor, NoEditRead, Editors
<1>3. /\ row' = NoRow /\ editor' = IdleEditor /\ stale \in BOOLEAN
      /\ UNCHANGED <<jobVars, tick, runner, fired, learnt, counts>>
  BY DEF Delete, IInv, TypeOK
<1> HIDE DEF NoRow, IdleEditor
<1>4. QED BY <1>1, <1>2, <1>3, EditedInv

LEMMA EditWriteInv == ASSUME IInv, EditWrite PROVE IInv'
<1> DEFINE seen == editor.seen
           respec == editor.what = "respec"
           paused == \/ editor.what = "pause"
                     \/ editor.what # "resume" /\ seen.paused
           over == IF respec THEN editor.over ELSE row.over
           n == IF respec \/ (seen.paused /\ ~paused) THEN 0 ELSE seen.failures
           x == IF paused THEN "null" ELSE IF respec \/ seen.paused
                                           THEN NextAfter(editor.spec, over) ELSE seen.next
           s == editor.spec
           r == [row EXCEPT !.spec = s, !.over = over, !.paused = paused, !.failures = n,
                            !.next = x]
           st == stale \/ seen # EditRead
<1>1. row \in Rows /\ editor \in Editors
  BY DEF IInv, TypeOK
<1>2. s \in Specs /\ over \in BOOLEAN /\ paused \in BOOLEAN /\ n \in 0..FailureCap
      /\ x \in {"null", "future", "due"}
  BY <1>1 DEF Rows, Editors, NextAfter
<1>3. /\ row' = IF row.exists THEN r ELSE row
      /\ editor' = IdleEditor /\ stale' = st
      /\ UNCHANGED <<jobVars, tick, runner, fired, learnt, edits, restarts, cut>>
  BY DEF EditWrite, Update
<1>4. st \in BOOLEAN /\ (stale => st) /\ IdleEditor \in Editors
  BY DEF IdleEditor, NoEditRead, Editors
<1>5. ASSUME ~st
      PROVE  /\ n = 0 \/ n = row.failures
             /\ n >= MaxFailures => paused
             /\ x = "due" => row.next = "due"
             /\ row.failures >= MaxFailures => row.paused
  <2>1. /\ seen.paused = row.paused /\ seen.next = row.next /\ seen.failures = row.failures
        /\ row.failures >= MaxFailures => row.paused
    BY <1>5 DEF EditRead, IInv, FailuresLeft
  <2>2. NextAfter(s, over) # "due"
    BY DEF NextAfter
  <2>3. QED BY <2>1, <2>2
<1> HIDE DEF s, over, paused, n, x, st
<1>6. r \in Rows /\ r.failures = n /\ r.paused = paused /\ r.next = x /\ r.exists = row.exists
  BY <1>1, <1>2 DEF Rows
<1> HIDE DEF r, IdleEditor
<1>7. CASE row.exists
  <2>1. row' = r
    BY <1>3, <1>7
  <2>2. ~r.exists => r.next = "null"
    BY <1>6, <1>7
  <2>3. QED BY <2>1, <2>2, <1>3, <1>4, <1>5, <1>6, EditedInv
<1>8. CASE ~row.exists
  <2>1. row' = row
    BY <1>3, <1>8
  <2>2. row.next = "null"
    BY <1>8 DEF IInv, ThreadsHold
  <2>3. QED BY <2>1, <2>2, <1>1, <1>3, <1>4, <1>5, EditedInv
<1>9. QED BY <1>7, <1>8

LEMMA RestartInv == ASSUME IInv, Restart PROVE IInv'
<1>1. IdleTick \in Ticks /\ IdleTick.at = "idle"
  BY DEF IdleTick, NoTickRead, Ticks
<1>2. IdleEditor \in Editors /\ IdleEditor.at = "idle"
  BY DEF IdleEditor, NoEditRead, Editors
<1>3. IdleRunner \in Runners
  BY DEF IdleRunner, Runners
<1>4. JobsTypeOK' /\ restarts' \in 0..MaxRestarts /\ cut' \in BOOLEAN
  BY DEF IInv, TypeOK, JobsTypeOK, Restart, FailPending
<1>5. QED BY <1>1, <1>2, <1>3, <1>4
          DEF Restart, IInv, TypeOK, ThreadsHold, FailuresLeft, SlotHeld

LEMMA NextInv == IInv /\ [SchedulesNext]_vars => IInv'
<1> SUFFICES ASSUME IInv, [SchedulesNext]_vars PROVE IInv'
  OBVIOUS
<1>1. CASE UNCHANGED vars
  BY <1>1 DEF vars, IInv, TypeOK, JobsTypeOK, ThreadsHold, FailuresLeft, SlotHeld
<1>2. CASE TickBegin \/ TickStep
  BY <1>2, TickReadsInv, DispatchInv, LearnInv, RecordFiredInv, RecordRefusedInv DEF TickStep
<1>3. CASE SchedulesNext
  BY <1>2, <1>3, CreateInv, TimePassesInv, OncePassesInv, EditBeginInv, EditWriteInv, DeleteInv, RunNowInv,
     RecordRunNowInv, JobsInv, RestartInv DEF SchedulesNext
<1>4. QED BY <1>1, <1>3

-----------------------------------------------------------------------------
(* The row, the threads and the counters stay in their domains.            *)
THEOREM TypeCorrect == SchedulesSpec => []TypeOK
<1>1. SchedulesInit => IInv
  BY InitInv
<1>2. IInv /\ [SchedulesNext]_vars => IInv'
  BY NextInv
<1>3. IInv => TypeOK
  BY DEF IInv
<1>4. QED BY <1>1, <1>2, <1>3, PTL DEF SchedulesSpec

(* _fire_due() and _dispatch_one(): the tick queues at most one job for a  *)
(* slot, run_now(), edits and restarts beside it, unless update() wrote    *)
(* back a stale row or PiNOC ended between that job and its record.        *)
THEOREM FiredOnce == SchedulesSpec => []SlotFiredOnce
<1>1. SchedulesInit => IInv
  BY InitInv
<1>2. IInv /\ [SchedulesNext]_vars => IInv'
  BY NextInv
<1>3. IInv => SlotFiredOnce
  BY DEF IInv, SlotHeld, SlotFiredOnce
<1>4. QED BY <1>1, <1>2, <1>3, PTL DEF SchedulesSpec

(* _reconcile() and _dispatch_one(): a schedule that has failed as often   *)
(* as it may stays paused, through manual runs, restarts and edits, unless *)
(* one of these wrote back a stale row.                                    *)
THEOREM PausedAfterFailures == SchedulesSpec => []AutoPauseHolds
<1>1. SchedulesInit => IInv
  BY InitInv
<1>2. IInv /\ [SchedulesNext]_vars => IInv'
  BY NextInv
<1>3. IInv => AutoPauseHolds
  BY DEF IInv, FailuresLeft, AutoPauseHolds
<1>4. QED BY <1>1, <1>2, <1>3, PTL DEF SchedulesSpec
=============================================================================
