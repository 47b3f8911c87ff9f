----------------------------- MODULE AlertsProofs -----------------------------
(***************************************************************************)
(* Alerts implements AlertLifecycle: proved for every fleet, and for any   *)
(* number of faults, restarts, edits, marks and refreshes.  And as long as *)
(* nothing has failed, everything that opens and closes is told and has    *)
(* one incident: proved from what is done and what is still an errand.     *)
(***************************************************************************)
EXTENDS Alerts, SequenceTheorems, FiniteSetTheorems, TLAPS

States == {"active", "acknowledged", "muted"}

(* A row of the table, whatever its cluster.                               *)
RowOk(r) == /\ r \in [device : Devices, open : BOOLEAN, state : States \cup {"resolved"},
                      acknowledged : BOOLEAN, mute : {"no", "later", "over"},
                      cluster : {r.cluster}, fresh : BOOLEAN]
            /\ r.open <=> r.state # "resolved"

Table(q) == q \in Seq(Range(q)) /\ \A a \in DOMAIN q : RowOk(q[a])

(* The open alerts of a device in a table, and what it shows for them.     *)
OpenIn(q, d)  == {a \in DOMAIN q : q[a].open /\ q[a].device = d}
StateIn(q, d) == IF OpenIn(q, d) = {} THEN "none"
                 ELSE IF \E a, b \in OpenIn(q, d) : a # b THEN "twice"
                 ELSE q[Min(OpenIn(q, d))].state

(* No device has two open alerts.                                          *)
OneEach(q) == \A d \in Devices : \A a, b \in OpenIn(q, d) : a = b

(* The history thread; what it keeps beside its place is its own.          *)
Places == {"idle", "marks", "mend", "alerts", "reconcile", "correlate", "errands", "refresh", "show"}
Shape(h) == h \in [at : Places, i : Nat, seen : {h.seen}, maintained : {h.maintained},
                   expected : {h.expected}, mend : {h.mend}, window : {h.window}, row : Nat,
                   muteOver : {h.muteOver}, acknowledged : {h.acknowledged}, opened : {h.opened},
                   resolved : {h.resolved}, errands : {h.errands}, rows : {h.rows}]

(* It is at a device of the fleet, and when it writes an alert of it, the  *)
(* alert it has read is open.                                              *)
Placed(h) == /\ Shape(h)
             /\ h.at \in {"marks", "mend", "alerts", "reconcile", "correlate", "errands"}
                => h.i \in 1..Len(Roster)
             /\ h.at \in {"marks", "mend", "alerts"} => h.row = 0
RowHeld  == hist.at = "reconcile" /\ hist.row # 0 => hist.row \in OpenOf(Here)

(* The inductive invariant behind the theorem.                             *)
IInv == Table(alerts) /\ OneEach(alerts) /\ Placed(hist) /\ RowHeld

-----------------------------------------------------------------------------
USE AlertsAssumption

(* Tables                                                                  *)

LEMMA StateOfIs == /\ \A d \in Devices : StateOf(d) = StateIn(alerts, d)
                   /\ \A d \in Devices : StateOf(d)' = StateIn(alerts', d)
                   /\ \A d \in Devices : OpenOf(d) = OpenIn(alerts, d)
                   /\ \A d \in Devices : OpenOf(d)' = OpenIn(alerts', d)
<1>1. \A d \in Devices : OpenOf(d) = OpenIn(alerts, d)
  BY DEF OpenOf, OpenRows, OpenIn
<1>2. \A d \in Devices : OpenOf(d)' = OpenIn(alerts', d)
  BY DEF OpenOf, OpenRows, OpenIn
<1>3. QED BY <1>1, <1>2 DEF StateOf, StateIn

LEMMA MinOfOne == ASSUME NEW a, a \in Nat PROVE Min({a}) = a
BY DEF Min

(* With one open alert at most, a device shows the state of it.            *)
LEMMA Shows ==
  ASSUME NEW q, Table(q), OneEach(q), NEW d \in Devices
  PROVE  /\ \A a \in OpenIn(q, d) : OpenIn(q, d) = {a} /\ StateIn(q, d) = q[a].state
         /\ StateIn(q, d) \in States \cup {"none"}
         /\ StateIn(q, d) = "none" <=> OpenIn(q, d) = {}
<1>1. ASSUME NEW a \in OpenIn(q, d)
      PROVE  /\ OpenIn(q, d) = {a} /\ StateIn(q, d) = q[a].state
             /\ q[a].state \in States
  <2>1. OpenIn(q, d) = {a}
    BY <1>1 DEF OneEach
  <2>2. a \in Nat
    BY <1>1, LenProperties DEF OpenIn, Table
  <2>3. q[a].state \in States
    BY <1>1 DEF OpenIn, Table, RowOk
  <2>4. QED BY <2>1, <2>2, <2>3, MinOfOne DEF StateIn
<1>2. OpenIn(q, d) = {} => StateIn(q, d) = "none"
  BY DEF StateIn
<1>3. QED BY <1>1, <1>2 DEF States

(* A table whose rows are written in place, none opened and none closed.   *)
LEMMA InPlace ==
  ASSUME NEW q, Table(q), OneEach(q), NEW p, p = [a \in DOMAIN q |-> p[a]],
         \A a \in DOMAIN q : RowOk(p[a]) /\ p[a].open = q[a].open /\ p[a].device = q[a].device
  PROVE  /\ Table(p) /\ OneEach(p)
         /\ \A d \in Devices : OpenIn(p, d) = OpenIn(q, d)
<1>1. Len(q) \in Nat /\ DOMAIN q = 1..Len(q)
  BY LenProperties DEF Table
<1>2. p \in [1..Len(q) -> Range(p)]
  BY <1>1 DEF Range
<1>3. p \in Seq(Range(p))
  BY <1>1, <1>2, SeqDef
<1>4. DOMAIN p = DOMAIN q
  BY <1>1, <1>2
<1>5. Table(p)
  BY <1>3, <1>4 DEF Table
<1>6. \A d \in Devices : OpenIn(p, d) = OpenIn(q, d)
  BY <1>4 DEF OpenIn
<1>7. OneEach(p)
  BY <1>6 DEF OneEach
<1>8. QED BY <1>5, <1>6, <1>7

(* One row of it is written.                                               *)
LEMMA OneInPlace ==
  ASSUME NEW q, Table(q), OneEach(q), NEW c \in DOMAIN q, NEW r,
         RowOk(r), r.open = q[c].open, r.device = q[c].device
  PROVE  /\ Table([q EXCEPT ![c] = r]) /\ OneEach([q EXCEPT ![c] = r])
         /\ \A d \in Devices : OpenIn([q EXCEPT ![c] = r], d) = OpenIn(q, d)
<1> DEFINE p == [q EXCEPT ![c] = r]
<1>1. p = [a \in DOMAIN q |-> p[a]]
  OBVIOUS
<1>2. \A a \in DOMAIN q : RowOk(p[a]) /\ p[a].open = q[a].open /\ p[a].device = q[a].device
  BY DEF Table
<1> HIDE DEF p
<1>3. QED BY <1>1, <1>2, InPlace DEF p

LEMMA InitInv == AlertsInit => IInv
<1> SUFFICES ASSUME AlertsInit PROVE IInv
  OBVIOUS
<1>1. alerts = <<>> /\ hist = Idle
  BY DEF AlertsInit
<1>2. Table(alerts) /\ OneEach(alerts)
  BY <1>1, EmptySeq DEF Table, OneEach, OpenIn
<1>3. Placed(Idle) /\ Idle.at = "idle"
  BY DEF Placed, Shape, Idle, Places
<1>4. QED BY <1>1, <1>2, <1>3 DEF IInv, RowHeld

-----------------------------------------------------------------------------
(* What leaves every open alert open and opens none.                       *)
Still == /\ Table(alerts') /\ OneEach(alerts')
         /\ \A d \in Devices : OpenIn(alerts', d) = OpenIn(alerts, d)

LEMMA RowTyped == ASSUME IInv, NEW a \in DOMAIN alerts PROVE RowOk(alerts[a])
BY DEF IInv, Table

LEMMA UnchangedStill == ASSUME IInv, UNCHANGED alerts PROVE Still
BY DEF IInv, Still

(* What an operator, the clock or maintenance() does to a row.             *)
LEMMA MuteWritten ==
  \A r : RowOk(r) /\ r.open
        => /\ RowOk([r EXCEPT !.mute = "later", !.state = "muted"])
           /\ [r EXCEPT !.mute = "later", !.state = "muted"].open = r.open
           /\ [r EXCEPT !.mute = "later", !.state = "muted"].device = r.device
BY DEF RowOk, States

LEMMA UnmuteWritten ==
  \A r, t : RowOk(r) /\ t \in States \cup {"resolved"} /\ (r.open <=> t # "resolved")
           => /\ RowOk([r EXCEPT !.mute = "no", !.state = t])
              /\ [r EXCEPT !.mute = "no", !.state = t].open = r.open
              /\ [r EXCEPT !.mute = "no", !.state = t].device = r.device
BY DEF RowOk

LEMMA AcknowledgedWritten ==
  \A r : RowOk(r) /\ r.open
        => /\ RowOk([r EXCEPT !.acknowledged = TRUE, !.state = "acknowledged"])
           /\ [r EXCEPT !.acknowledged = TRUE, !.state = "acknowledged"].open = r.open
           /\ [r EXCEPT !.acknowledged = TRUE, !.state = "acknowledged"].device = r.device
BY DEF RowOk, States

LEMMA MuteOverWritten ==
  \A r : RowOk(r) => /\ RowOk([r EXCEPT !.mute = "over"])
                     /\ [r EXCEPT !.mute = "over"].open = r.open
                     /\ [r EXCEPT !.mute = "over"].device = r.device
BY DEF RowOk

LEMMA UnmutedIs ==
  ASSUME IInv, NEW a \in DOMAIN alerts
  PROVE  /\ RowOk(Unmuted(a)) /\ Unmuted(a).open = alerts[a].open
         /\ Unmuted(a).device = alerts[a].device
<1> DEFINE r == alerts[a]
           t == IF ~r.open THEN r.state ELSE IF r.acknowledged THEN "acknowledged" ELSE "active"
<1>1. RowOk(r)
  BY RowTyped
<1>2. t \in States \cup {"resolved"} /\ (r.open <=> t # "resolved")
  BY <1>1 DEF RowOk, States
<1> DEFINE w == [r EXCEPT !.mute = "no", !.state = t]
<1>3. Unmuted(a) = w
  BY DEF Unmuted
<1> HIDE DEF r, t
<1>4. RowOk(w) /\ w.open = r.open /\ w.device = r.device
  BY <1>1, <1>2, UnmuteWritten
<1> HIDE DEF w
<1>5. QED BY <1>3, <1>4 DEF r

LEMMA EditsStill == ASSUME IInv, Edits PROVE Still
<1>1. PICK a \in OpenRows : Acknowledge(a) \/ Mute(a) \/ Unmute(a) \/ MuteRunsOut(a)
  BY DEF Edits
<1> DEFINE q == alerts[a]
<1>2. /\ a \in DOMAIN alerts /\ RowOk(q) /\ q.open
  BY RowTyped DEF OpenRows
<1>3. q.state \in States
  BY <1>2 DEF RowOk
<1>4. ASSUME NEW r, RowOk(r), r.open = q.open, r.device = q.device,
             alerts' = [alerts EXCEPT ![a] = r]
      PROVE  Still
  BY <1>2, <1>4, OneInPlace DEF IInv, Still
<1>5. CASE Acknowledge(a)
  <2> DEFINE r == [q EXCEPT !.acknowledged = TRUE, !.state = "acknowledged"]
  <2>1. alerts' = [alerts EXCEPT ![a] = r]
    BY <1>2, <1>5 DEF Acknowledge
  <2>2. RowOk(r) /\ r.open = q.open /\ r.device = q.device
    BY <1>2, AcknowledgedWritten
  <2> HIDE DEF r
  <2>3. QED BY <1>4, <2>1, <2>2
<1>6. CASE Mute(a)
  <2> DEFINE r == [q EXCEPT !.mute = "later", !.state = "muted"]
  <2>1. alerts' = [alerts EXCEPT ![a] = r]
    BY <1>2, <1>6 DEF Mute
  <2>2. RowOk(r) /\ r.open = q.open /\ r.device = q.device
    BY <1>2, MuteWritten
  <2> HIDE DEF r
  <2>3. QED BY <1>4, <2>1, <2>2
<1>7. CASE Unmute(a)
  BY <1>2, <1>4, <1>7, UnmutedIs DEF Unmute
<1>8. CASE MuteRunsOut(a)
  <2> DEFINE r == [q EXCEPT !.mute = "over"]
  <2>1. alerts' = [alerts EXCEPT ![a] = r]
    BY <1>8 DEF MuteRunsOut
  <2>2. RowOk(r) /\ r.open = q.open /\ r.device = q.device
    BY <1>2, <1>3, MuteOverWritten
  <2> HIDE DEF r
  <2>3. QED BY <1>4, <2>1, <2>2
<1>9. QED BY <1>1, <1>5, <1>6, <1>7, <1>8

LEMMA AllRowsStill == ASSUME IInv, LiftMutes \/ WindowPasses \/ Correlate PROVE Still
<1> SUFFICES /\ alerts' = [a \in DOMAIN alerts |-> alerts'[a]]
             /\ \A a \in DOMAIN alerts : /\ RowOk(alerts'[a]) /\ alerts'[a].open = alerts[a].open
                                         /\ alerts'[a].device = alerts[a].device
  BY InPlace DEF IInv, Still
<1>1. CASE LiftMutes
  BY <1>1, RowTyped, UnmutedIs DEF LiftMutes
<1>2. CASE WindowPasses
  <2>1. \A a \in DOMAIN alerts : alerts'[a] = [alerts[a] EXCEPT !.fresh = FALSE]
    BY <1>2 DEF WindowPasses
  <2>2. alerts' = [a \in DOMAIN alerts |-> alerts'[a]]
    BY <1>2 DEF WindowPasses
  <2>3. \A r : RowOk(r) => /\ RowOk([r EXCEPT !.fresh = FALSE])
                           /\ [r EXCEPT !.fresh = FALSE].open = r.open
                           /\ [r EXCEPT !.fresh = FALSE].device = r.device
    BY DEF RowOk
  <2>4. QED BY <2>1, <2>2, <2>3, RowTyped
<1>3. CASE Correlate
  <2>1. CASE UNCHANGED alerts
    BY <2>1, RowTyped, LenProperties DEF IInv, Table
  <2>2. CASE alerts' = [a \in DOMAIN alerts |-> IF a \in Loose
                           THEN [alerts[a] EXCEPT !.cluster = Home(a)] ELSE alerts[a]]
    <3>1. \A r, c : RowOk(r) => /\ RowOk([r EXCEPT !.cluster = c])
                                /\ [r EXCEPT !.cluster = c].open = r.open
                                /\ [r EXCEPT !.cluster = c].device = r.device
      BY DEF RowOk
    <3>2. QED BY <2>2, <3>1, RowTyped
  <2>3. QED BY <1>3, <2>1, <2>2 DEF Correlate
<1>4. QED BY <1>1, <1>2, <1>3

LEMMA RefreshedStill == ASSUME IInv, hist.at = "reconcile", Refreshed PROVE Still
<1> DEFINE c == hist.row
           t == IF hist.acknowledged THEN "acknowledged" ELSE "active"
           r == [alerts[c] EXCEPT !.mute = "no", !.state = t]
<1>1. c \in DOMAIN alerts /\ alerts[c].open
  BY DEF IInv, RowHeld, Refreshed, OpenOf, OpenRows
<1>2. CASE UNCHANGED alerts
  BY <1>2, UnchangedStill
<1>3. CASE alerts' = [alerts EXCEPT ![c] = r]
  <2>1. RowOk(alerts[c]) /\ t \in States
    BY <1>1, RowTyped DEF States
  <2> HIDE DEF t
  <2>2. RowOk(r) /\ r.open = alerts[c].open /\ r.device = alerts[c].device
    BY <1>1, <2>1, UnmuteWritten DEF States, RowOk
  <2> HIDE DEF r
  <2>3. QED BY <1>1, <1>3, <2>2, OneInPlace DEF IInv, Still
<1>4. QED BY <1>2, <1>3 DEF Refreshed

-----------------------------------------------------------------------------
(* The thread                                                              *)

LEMMA IdlePlaced == Placed(Idle) /\ Idle.at # "reconcile"
BY DEF Placed, Shape, Idle, Places

LEMMA NextPlaced ==
  ASSUME Placed(hist), hist.i \in 1..Len(Roster)
  PROVE  Placed(NextDevice(hist)) /\ NextDevice(hist).at # "reconcile"
<1>1. Len(Roster) \in Nat
  BY LenProperties
<1> DEFINE n == IF hist.i < Len(Roster) THEN hist.i + 1 ELSE 0
           a == IF hist.i < Len(Roster) THEN "marks" ELSE "refresh"
           v == IF hist.i < Len(Roster) THEN hist.seen ELSE {}
           h == [Idle EXCEPT !.at = a, !.i = n, !.seen = v]
<1>2. NextDevice(hist) = h
  BY DEF NextDevice
<1>3. n \in Nat /\ ((a = "marks" /\ n \in 1..Len(Roster)) \/ a = "refresh")
  BY <1>1
<1> HIDE DEF n, a, v
<1>4. /\ h.at = a /\ h.i = n /\ h.row = 0
      /\ Shape(h)
  BY <1>3 DEF Shape, Idle, Places
<1> HIDE DEF h
<1>5. QED BY <1>2, <1>3, <1>4 DEF Placed

(* The steps that leave the table alone, but for ReadExisting.             *)
Moves == Take \/ ReadMarks \/ MendMarks \/ Errand \/ DeviceDone \/ RefreshRead \/ RefreshWrite
         \/ Abandon \/ CorrelateFails

LEMMA MovesPlaced == ASSUME IInv, Moves PROVE Placed(hist') /\ hist'.at # "reconcile"
<1> USE DEF IInv
<1>1. CASE Take
  <2>1. Len(Roster) \in Nat /\ 1 \in 1..Len(Roster)
    BY LenProperties
  <2>2. QED BY <1>1, <2>1 DEF Take, Placed, Shape, Idle, Places
<1>2. CASE ReadMarks
  <2>1. PICK w, m, e, n :
          hist' = [hist EXCEPT !.at = "mend", !.window = w, !.maintained = m, !.expected = e,
                               !.mend = n]
    BY <1>2 DEF ReadMarks
  <2>2. QED BY <1>2, <2>1 DEF ReadMarks, Placed, Shape, Places
<1>3. CASE MendMarks
  BY <1>3 DEF MendMarks, Placed, Shape, Places
<1>4. CASE Errand
  <2>1. PICK e : hist' = [hist EXCEPT !.errands = e]
    BY <1>4 DEF Errand
  <2>2. QED BY <1>4, <2>1 DEF Errand, Placed, Shape, Places
<1>5. CASE DeviceDone \/ Abandon
  <2>1. hist.i \in 1..Len(Roster)
    BY <1>5 DEF DeviceDone, Abandon, Placed
  <2>2. hist' = NextDevice(hist)
    BY <1>5 DEF DeviceDone, Abandon
  <2>3. QED BY <2>1, <2>2, NextPlaced
<1>6. CASE RefreshRead
  <2>1. PICK q : hist' = [hist EXCEPT !.at = "show", !.rows = q]
    BY <1>6 DEF RefreshRead
  <2>2. QED BY <1>6, <2>1 DEF RefreshRead, Placed, Shape, Places
<1>7. CASE RefreshWrite
  BY <1>7, IdlePlaced DEF RefreshWrite
<1>8. CASE CorrelateFails
  <2>1. PICK e : hist' = [hist EXCEPT !.at = "errands", !.errands = e]
    BY <1>8 DEF CorrelateFails
  <2>2. QED BY <1>8, <2>1 DEF CorrelateFails, Placed, Shape, Places
<1>9. QED BY <1>1, <1>2, <1>3, <1>4, <1>5, <1>6, <1>7, <1>8 DEF Moves

LEMMA CorrelatePlaced == ASSUME IInv, Correlate PROVE Placed(hist') /\ hist'.at # "reconcile"
<1>1. CASE hist' = NextDevice(hist)
  BY <1>1, NextPlaced DEF IInv, Placed, Correlate
<1>2. CASE \E e : hist' = [hist EXCEPT !.at = "errands", !.errands = e]
  BY <1>2 DEF IInv, Correlate, Placed, Shape, Places
<1>3. QED BY <1>1, <1>2 DEF Correlate

LEMMA LiftPlaced == ASSUME IInv, LiftMutes PROVE Placed(hist') /\ hist'.at # "reconcile"
BY DEF IInv, LiftMutes, Placed, Shape, Places

(* The row that ReadExisting reads is an open alert of its device.         *)
LEMMA ReadHolds ==
  ASSUME IInv, NEW lost \in BOOLEAN, ReadExisting(lost)
  PROVE  /\ Placed(hist')
         /\ hist'.row # 0 => hist'.row \in OpenOf(Here) /\ hist'.i = hist.i
<1>1. Placed(hist) /\ hist.at = "alerts" /\ hist.row = 0
  BY DEF IInv, ReadExisting, Placed
<1>2. CASE hist' = [hist EXCEPT !.at = "correlate"] \/ hist' = [hist EXCEPT !.at = "reconcile"]
  BY <1>1, <1>2 DEF Placed, Shape, Places
<1>3. CASE \E m, k : /\ OpenOf(Here) # {}
                     /\ hist' = [hist EXCEPT !.at = "reconcile", !.row = Min(OpenOf(Here)),
                                             !.muteOver = m, !.acknowledged = k]
  <2>1. PICK m, k : hist' = [hist EXCEPT !.at = "reconcile", !.row = Min(OpenOf(Here)),
                                         !.muteOver = m, !.acknowledged = k]
    BY <1>3
  <2>2. Here \in Devices
    <3>1. hist.i \in DOMAIN Roster
      BY <1>1, LenProperties DEF Placed
    <3>2. QED BY <3>1 DEF Here, Devices, Range
  <2>3. PICK a : a \in OpenOf(Here)
    BY <1>3
  <2>4. OpenOf(Here) = {a} /\ a \in Nat
    BY <2>2, <2>3, StateOfIs, Shows, LenProperties DEF IInv, OpenIn, Table
  <2>5. Min(OpenOf(Here)) = a
    BY <2>4, MinOfOne
  <2>6. hist' = [hist EXCEPT !.at = "reconcile", !.row = a, !.muteOver = m, !.acknowledged = k]
    BY <2>1, <2>5
  <2>7. QED BY <1>1, <2>3, <2>4, <2>6 DEF Placed, Shape, Places
<1>4. QED
  <2>1. CASE hist.maintained \/ lost \/ OpenOf(Here) = {}
    BY <1>2, <2>1 DEF ReadExisting
  <2>2. CASE ~hist.maintained /\ ~lost /\ OpenOf(Here) # {}
    BY <1>3, <2>2 DEF ReadExisting
  <2>3. QED BY <2>1, <2>2

-----------------------------------------------------------------------------
(* The rows that are opened and closed                                     *)

LEMMA OpenedOne ==
  ASSUME IInv, hist.at = "reconcile", Opened
  PROVE  /\ Table(alerts') /\ OneEach(alerts') /\ Here \in Devices
         /\ StateOf(Here) = "none"
         /\ \A d \in Devices : StateOf(d)' = IF d = Here THEN "active" ELSE StateOf(d)
<1> DEFINE q == alerts
           r == NewAlert(Here)
           p == Append(q, r)
           n == Len(q) + 1
<1>1. Here \in Devices
  <2>1. hist.i \in DOMAIN Roster
    BY LenProperties DEF IInv, Placed
  <2>2. QED BY <2>1 DEF Here, Devices, Range
<1>2. alerts' = p /\ OpenIn(q, Here) = {}
  BY <1>1, StateOfIs DEF Opened, Insertable
<1>3. RowOk(r) /\ r.open /\ r.device = Here /\ r.state = "active"
  BY <1>1 DEF RowOk, NewAlert, States
<1> HIDE DEF r
<1>4. q \in Seq(Range(q)) /\ Len(q) \in Nat /\ DOMAIN q = 1..Len(q)
  BY LenProperties DEF IInv, Table
<1>5. /\ p \in Seq(Range(q) \cup {r}) /\ DOMAIN p = 1..n
      /\ \A a \in DOMAIN q : p[a] = q[a]
      /\ p[n] = r
  <2>1. q \in Seq(Range(q) \cup {r})
    BY <1>4, SeqDef
  <2>2. QED BY <1>4, <2>1, AppendProperties, LenProperties
<1> HIDE DEF p, n
<1>6. DOMAIN p = DOMAIN q \cup {n} /\ n \notin DOMAIN q /\ n \in Nat
  BY <1>4, <1>5 DEF n
<1>7. Table(p)
  <2>1. p \in [1..n -> Range(p)]
    <3>1. p = [a \in DOMAIN p |-> p[a]]
      BY <1>5
    <3>2. QED BY <1>5, <3>1 DEF Range
  <2>2. p \in Seq(Range(p))
    BY <1>6, <2>1, SeqDef
  <2>3. \A a \in DOMAIN p : RowOk(p[a])
    BY <1>3, <1>5, <1>6 DEF IInv, Table
  <2>4. QED BY <2>2, <2>3 DEF Table
<1>8. OpenIn(p, Here) = {n}
  BY <1>2, <1>3, <1>5, <1>6 DEF OpenIn
<1>9. \A d \in Devices \ {Here} :
         OpenIn(p, d) = OpenIn(q, d) /\ \A a \in OpenIn(q, d) : p[a] = q[a]
  BY <1>3, <1>5, <1>6 DEF OpenIn
<1>10. OneEach(p)
  BY <1>8, <1>9 DEF IInv, OneEach
<1>11. StateIn(q, Here) = "none" /\ StateIn(p, Here) = "active"
  BY <1>1, <1>2, <1>3, <1>5, <1>7, <1>8, <1>10, Shows DEF StateIn
<1>12. \A d \in Devices \ {Here} : StateIn(p, d) = StateIn(q, d)
  <2> SUFFICES ASSUME NEW d \in Devices \ {Here} PROVE StateIn(p, d) = StateIn(q, d)
    OBVIOUS
  <2>1. CASE OpenIn(q, d) = {}
    BY <1>9, <2>1 DEF StateIn
  <2>2. CASE OpenIn(q, d) # {}
    BY <1>7, <1>9, <1>10, <2>2, Shows DEF IInv
  <2>3. QED BY <2>1, <2>2
<1>13. QED BY <1>1, <1>2, <1>7, <1>10, <1>11, <1>12, StateOfIs

LEMMA ResolvedOne ==
  ASSUME IInv, hist.at = "reconcile", Resolved
  PROVE  /\ Table(alerts') /\ OneEach(alerts') /\ Here \in Devices
         /\ StateOf(Here) \in States
         /\ \A d \in Devices : StateOf(d)' = IF d = Here THEN "none" ELSE StateOf(d)
<1> DEFINE q == alerts
           c == hist.row
           r == [q[c] EXCEPT !.open = FALSE, !.state = "resolved"]
           p == [q EXCEPT ![c] = r]
<1>1. Here \in Devices
  <2>1. hist.i \in DOMAIN Roster
    BY LenProperties DEF IInv, Placed
  <2>2. QED BY <2>1 DEF Here, Devices, Range
<1>2. alerts' = p
  BY DEF Resolved
<1>3. c \in OpenIn(q, Here) /\ c \in DOMAIN q
  BY <1>1, StateOfIs DEF IInv, RowHeld, Resolved, OpenIn
<1>4. RowOk(q[c]) /\ q[c].device = Here
  BY <1>3, RowTyped DEF OpenIn
<1>5. RowOk(r) /\ ~r.open /\ r.device = Here
  BY <1>4 DEF RowOk
<1> HIDE DEF r
<1>6. /\ DOMAIN p = DOMAIN q /\ p[c] = r
      /\ \A a \in DOMAIN q \ {c} : p[a] = q[a]
      /\ p = [a \in DOMAIN q |-> p[a]]
  BY <1>3
<1> HIDE DEF p
<1>7. Table(p)
  <2>1. Len(q) \in Nat /\ DOMAIN q = 1..Len(q)
    BY LenProperties DEF IInv, Table
  <2>2. p \in [1..Len(q) -> Range(p)]
    BY <1>6, <2>1 DEF Range
  <2>3. p \in Seq(Range(p))
    BY <2>1, <2>2, SeqDef
  <2>4. \A a \in DOMAIN p : RowOk(p[a])
    BY <1>5, <1>6 DEF IInv, Table
  <2>5. QED BY <2>3, <2>4 DEF Table
<1>8. OpenIn(p, Here) = {}
  BY <1>1, <1>3, <1>5, <1>6 DEF IInv, OneEach, OpenIn
<1>9. \A d \in Devices \ {Here} :
         OpenIn(p, d) = OpenIn(q, d) /\ \A a \in OpenIn(q, d) : p[a] = q[a]
  BY <1>4, <1>5, <1>6 DEF OpenIn
<1>10. OneEach(p)
  BY <1>8, <1>9 DEF IInv, OneEach
<1>11. StateIn(q, Here) \in States /\ StateIn(p, Here) = "none"
  <2>1. StateIn(q, Here) \in States \cup {"none"} /\ StateIn(q, Here) # "none"
    BY <1>1, <1>3, Shows DEF IInv
  <2>2. QED BY <1>8, <2>1 DEF StateIn
<1>12. \A d \in Devices \ {Here} : StateIn(p, d) = StateIn(q, d)
  <2> SUFFICES ASSUME NEW d \in Devices \ {Here} PROVE StateIn(p, d) = StateIn(q, d)
    OBVIOUS
  <2>1. CASE OpenIn(q, d) = {}
    BY <1>9, <2>1 DEF StateIn
  <2>2. CASE OpenIn(q, d) # {}
    BY <1>7, <1>9, <1>10, <2>2, Shows DEF IInv
  <2>3. QED BY <2>1, <2>2
<1>13. QED BY <1>1, <1>2, <1>7, <1>10, <1>11, <1>12, StateOfIs

-----------------------------------------------------------------------------
(* Every step                                                              *)

(* What leaves the table or changes nothing that is shown of it.           *)
Stays == Moves \/ (\E lost \in BOOLEAN : ReadExisting(lost)) \/ Correlate \/ LiftMutes
         \/ (hist.at = "reconcile" /\ (Refreshed \/ InsertFails \/ Quiet)) \/ Restart
         \/ (hist' = hist /\ (UNCHANGED alerts \/ Edits \/ WindowPasses))

LEMMA StepKinds ==
  ASSUME Next
  PROVE  Stays \/ (hist.at = "reconcile" /\ (Opened \/ Resolved))
<1>1. ASSUME \/ \E d \in Devices : Turn(d)
             \/ Submit \/ OtherRead \/ OtherWrite \/ OtherStatement
      PROVE  hist' = hist /\ UNCHANGED alerts
  BY <1>1 DEF Turn, Submit, OtherRead, OtherWrite, OtherStatement, table
<1>2. ASSUME Marks PROVE hist' = hist /\ UNCHANGED alerts
  BY <1>2 DEF Marks, SetMaintenance, Power, PowerEnds, ClearMaintenance, ClearExpected,
              WindowRunsOut, MarkRunsOut, others
<1>3. ASSUME Edits PROVE hist' = hist
  BY <1>3 DEF Edits, Acknowledge, Mute, Unmute, MuteRunsOut, others
<1>4. ASSUME WindowPasses PROVE hist' = hist
  BY <1>4 DEF WindowPasses
<1>5. ASSUME HistoryStep \/ Faults PROVE Stays \/ (hist.at = "reconcile" /\ (Opened \/ Resolved))
  BY <1>5 DEF HistoryStep, Faults, Stays, Moves, Reconcile
<1>6. QED BY <1>1, <1>2, <1>3, <1>4, <1>5 DEF Next, Stays

LEMMA StaysStill == ASSUME IInv, Stays PROVE Still
<1>1. CASE Moves \/ (\E lost \in BOOLEAN : ReadExisting(lost)) \/ Restart
  BY <1>1, UnchangedStill DEF Moves, Take, ReadMarks, MendMarks, ReadExisting, Errand, DeviceDone,
     RefreshRead, RefreshWrite, Abandon, CorrelateFails, Restart, table
<1>2. CASE Correlate \/ LiftMutes
  BY <1>2, AllRowsStill
<1>3. CASE hist.at = "reconcile" /\ (Refreshed \/ InsertFails \/ Quiet)
  BY <1>3, RefreshedStill, UnchangedStill DEF InsertFails, Quiet
<1>4. CASE UNCHANGED alerts \/ Edits \/ WindowPasses
  BY <1>4, AllRowsStill, EditsStill, UnchangedStill
<1>5. QED BY <1>1, <1>2, <1>3, <1>4 DEF Stays

LEMMA ReconciledPlaced ==
  ASSUME IInv, hist.at = "reconcile", Refreshed \/ Opened \/ InsertFails \/ Resolved \/ Quiet
  PROVE  Placed(hist') /\ hist'.at # "reconcile"
<1>1. CASE InsertFails
  BY <1>1, NextPlaced DEF InsertFails, IInv, Placed
<1>2. CASE Opened
  <2>1. PICK n : hist' = [hist EXCEPT !.at = "correlate", !.opened = n]
    BY <1>2 DEF Opened
  <2>2. QED BY <2>1 DEF IInv, Placed, Shape, Places
<1>3. CASE Resolved
  <2>1. PICK n : hist' = [hist EXCEPT !.at = "correlate", !.resolved = n]
    BY <1>3 DEF Resolved
  <2>2. QED BY <2>1 DEF IInv, Placed, Shape, Places
<1>4. CASE Refreshed \/ Quiet
  <2>1. hist' = [hist EXCEPT !.at = "correlate"]
    BY <1>4 DEF Refreshed, Quiet
  <2>2. QED BY <2>1 DEF IInv, Placed, Shape, Places
<1>5. QED BY <1>1, <1>2, <1>3, <1>4

LEMMA StaysInv == ASSUME IInv, Stays PROVE IInv'
<1>1. Table(alerts') /\ OneEach(alerts')
  BY StaysStill DEF Still
<1>2. CASE Placed(hist') /\ hist'.at # "reconcile"
  BY <1>1, <1>2 DEF IInv, RowHeld
<1>3. ASSUME Placed(hist'), hist'.i = hist.i,
             hist'.at = "reconcile" /\ hist'.row # 0 => hist'.row \in OpenIn(alerts, Here)
      PROVE  IInv'
  <2>1. SUFFICES ASSUME hist'.at = "reconcile", hist'.row # 0
                 PROVE  hist'.row \in OpenOf(Here)'
    BY <1>1, <1>3 DEF IInv, RowHeld
  <2>2. Here' = Here /\ Here \in Devices
    <3>1. hist'.i \in DOMAIN Roster
      BY <1>3, <2>1, LenProperties DEF Placed
    <3>2. QED BY <1>3, <3>1 DEF Here, Devices, Range
  <2>3. hist'.row \in OpenIn(alerts', Here)
    BY <1>3, <2>1, <2>2, StaysStill DEF Still
  <2>4. QED BY <2>2, <2>3 DEF OpenOf, OpenRows, OpenIn
<1>4. CASE Moves
  BY <1>2, <1>4, MovesPlaced
<1>5. ASSUME NEW lost \in BOOLEAN, ReadExisting(lost) PROVE IInv'
  <2>1. Placed(hist') /\ (hist'.row # 0 => hist'.row \in OpenOf(Here) /\ hist'.i = hist.i)
    BY <1>5, ReadHolds
  <2>2. CASE hist'.row = 0
    BY <1>1, <2>1, <2>2 DEF IInv, RowHeld
  <2>3. CASE hist'.row # 0
    BY <1>3, <2>1, <2>3 DEF OpenOf, OpenRows, OpenIn
  <2>4. QED BY <2>2, <2>3
<1>6. CASE Correlate
  BY <1>2, <1>6, CorrelatePlaced
<1>7. CASE LiftMutes
  BY <1>2, <1>7, LiftPlaced
<1>8. CASE hist.at = "reconcile" /\ (Refreshed \/ InsertFails \/ Quiet)
  BY <1>2, <1>8, ReconciledPlaced
<1>9. CASE Restart
  BY <1>2, <1>9, IdlePlaced DEF Restart
<1>10. CASE hist' = hist
  BY <1>3, <1>10 DEF IInv, RowHeld, OpenOf, OpenRows, OpenIn
<1>11. QED BY <1>4, <1>5, <1>6, <1>7, <1>8, <1>9, <1>10 DEF Stays

LEMMA WritesInv ==
  ASSUME IInv, hist.at = "reconcile", Opened \/ Resolved PROVE IInv'
BY ReconciledPlaced, OpenedOne, ResolvedOne DEF IInv, RowHeld

LEMMA StutterInv == ASSUME IInv, UNCHANGED vars PROVE IInv'
BY DEF IInv, RowHeld, OpenOf, OpenRows, Here, vars, table

LEMMA NextInv == ASSUME IInv, [Next]_vars PROVE IInv'
BY StepKinds, StaysInv, WritesInv, StutterInv

-----------------------------------------------------------------------------
(* The refinement                                                          *)

LEMMA InitLife == AlertsInit => Life!LifecycleInit
BY DEF AlertsInit, Life!LifecycleInit, StateOf, OpenOf, OpenRows

LEMMA StaysLife == ASSUME IInv, IInv', Still PROVE Life!Show
<1>1. \A d \in Devices : /\ StateOf(d) \in States \cup {"none"}
                         /\ StateOf(d)' \in States \cup {"none"}
                         /\ StateOf(d)' = "none" <=> StateOf(d) = "none"
  <2> SUFFICES ASSUME NEW d \in Devices
               PROVE  /\ StateIn(alerts, d) \in States \cup {"none"}
                      /\ StateIn(alerts', d) \in States \cup {"none"}
                      /\ StateIn(alerts', d) = "none" <=> StateIn(alerts, d) = "none"
    BY StateOfIs
  <2>1. QED BY Shows DEF Still, IInv
<1>2. QED BY <1>1 DEF Life!Show, Life!Shown, States

LEMMA WritesLife ==
  ASSUME IInv, hist.at = "reconcile", Opened \/ Resolved PROVE Life!LifecycleNext
<1>1. CASE Opened
  <2>1. Life!Open(Here)
    BY <1>1, OpenedOne DEF Life!Open
  <2>2. QED BY <1>1, <2>1, OpenedOne DEF Life!LifecycleNext
<1>2. CASE Resolved
  <2>1. Life!Resolve(Here)
    BY <1>2, ResolvedOne DEF Life!Resolve, Life!Shown, States
  <2>2. QED BY <1>2, <2>1, ResolvedOne DEF Life!LifecycleNext
<1>3. QED BY <1>1, <1>2

LEMMA StutterLife == UNCHANGED vars => UNCHANGED [d \in Devices |-> StateOf(d)]
BY DEF vars, table, StateOf, OpenOf, OpenRows

LEMMA StepLife ==
  ASSUME IInv, IInv', [Next]_vars
  PROVE  [Life!LifecycleNext \/ Life!Show]_[d \in Devices |-> StateOf(d)]
BY StepKinds, StaysStill, StaysLife, WritesLife, StutterLife

(* "A stable fingerprint updates an existing unresolved occurrence rather  *)
(* than opening one per poll": the alerts table implements AlertLifecycle. *)
THEOREM Implements == AlertsSpec => OneOpenAlert
<1>1. AlertsSpec => []IInv
  BY InitInv, NextInv, PTL DEF AlertsSpec
<1>2. QED BY <1>1, InitLife, StepLife, PTL DEF AlertsSpec, OneOpenAlert, Life!LifecycleSpec

-----------------------------------------------------------------------------
(* The books: what is recorded and told, and what is about to be           *)

(* What a sequence of errands still holds.                                 *)
Due(s, e)  == \E k \in DOMAIN s : s[k] = e
Owed(e)    == Due(hist.errands, e)

(* The alerts that the reconciliation has just opened and closed, which    *)
(* the correlation has not seen.                                           *)
Newly      == IF hist.at = "correlate" THEN hist.opened ELSE 0
Over       == IF hist.at = "correlate" THEN hist.resolved ELSE 0

(* Done, or still an errand.                                               *)
Said(kind, id, what) == Heard(kind, id, what) \/ Owed(Tell(kind, id, what))
Announced(c)         == Heard("cluster", c, "open") \/ Owed(Announce(c))
Flagged(c)           == clusters[c].told \/ Owed(Flag(c)) \/ Owed(Announce(c))
Recorded(kind, id)   == <<kind, id>> \in incidents \/ Owed(Record(kind, id))

Ids      == ({"alert"} \X DOMAIN alerts) \cup ({"cluster"} \X DOMAIN clusters)
ErrandOk(e) == \/ e \in [do : {"tell"}, on : {e.on}]
               \/ e \in [do : {"record"}, on : Ids]
               \/ \E c \in DOMAIN clusters : e = Announce(c) \/ e = Flag(c)
ClusterOk(r) == r \in [hint : {r.hint}, open : BOOLEAN, fresh : {r.fresh}, told : BOOLEAN]

(* What the tables hold.                                                   *)
Groups   == /\ clusters \in Seq(Range(clusters))
            /\ \A c \in DOMAIN clusters : ClusterOk(clusters[c])
            /\ incidents \subseteq Ids
            /\ \A a \in DOMAIN alerts : alerts[a].cluster \in {0} \cup DOMAIN clusters

(* Where the thread has errands, and what it hands to the correlation.     *)
Carried  == /\ hist.errands \in Seq(Range(hist.errands))
            /\ \A k \in DOMAIN hist.errands : ErrandOk(hist.errands[k])
            /\ hist.at # "errands" => hist.errands = <<>>
            /\ hist.at \in {"marks", "mend", "alerts", "reconcile"}
               => hist.opened = 0 /\ hist.resolved = 0
            /\ Newly \in {0} \cup DOMAIN alerts
            /\ Over \in {0} \cup DOMAIN alerts
            /\ Over # 0 => /\ ~alerts[Over].open
                           /\ alerts[Over].cluster # 0 => clusters[alerts[Over].cluster].open

(* What is over has its one incident, and nothing else has.                *)
Filed    == /\ \A a \in DOMAIN alerts :
                  Recorded("alert", a) <=> ~alerts[a].open /\ alerts[a].cluster = 0 /\ a # Over
            /\ \A c \in DOMAIN clusters : Recorded("cluster", c) <=> ~clusters[c].open

(* Nothing is kept from the told.                                          *)
OpenSaid(a) == \/ Said("alert", a, "open") \/ a = Newly
               \/ alerts[a].cluster # 0
EndSaid(a)  == \/ alerts[a].open \/ Said("alert", a, "resolve") \/ a = Over
               \/ /\ alerts[a].cluster # 0
                  /\ clusters[alerts[a].cluster].open \/ Said("cluster", alerts[a].cluster, "resolve")
Spoken   == /\ \A a \in DOMAIN alerts : OpenSaid(a) /\ EndSaid(a)
            /\ \A c \in DOMAIN clusters : Announced(c) /\ Flagged(c)
            /\ \A a \in OpenRows : alerts[a].cluster # 0 => clusters[alerts[a].cluster].open

Books    == Groups /\ Carried /\ Filed /\ Spoken

(* Sequences and finite sets                                               *)

LEMMA DueNone == \A e : ~Due(<<>>, e)
BY EmptySeq, LenProperties DEF Due

LEMMA DueOne == \A x, e : Due(<<x>>, e) <=> e = x
<1> SUFFICES ASSUME NEW x, NEW e PROVE Due(<<x>>, e) <=> e = x
  OBVIOUS
<1>1. DOMAIN <<x>> = {1} /\ <<x>>[1] = x
  OBVIOUS
<1>2. QED BY <1>1 DEF Due

LEMMA DueBoth ==
  ASSUME NEW S, NEW s \in Seq(S), NEW t \in Seq(S), NEW e
  PROVE  Due(s \o t, e) <=> Due(s, e) \/ Due(t, e)
<1> DEFINE u == s \o t
<1>1. /\ Len(s) \in Nat /\ Len(t) \in Nat /\ Len(u) = Len(s) + Len(t)
      /\ DOMAIN s = 1..Len(s) /\ DOMAIN t = 1..Len(t) /\ DOMAIN u = 1..Len(u)
      /\ \A k \in 1..Len(u) : u[k] = IF k <= Len(s) THEN s[k] ELSE t[k - Len(s)]
  BY ConcatProperties, LenProperties
<1> HIDE DEF u
<1>2. ASSUME NEW k \in DOMAIN u, u[k] = e PROVE Due(s, e) \/ Due(t, e)
  <2>1. CASE k <= Len(s)
    BY <1>1, <1>2, <2>1 DEF Due
  <2>2. CASE ~(k <= Len(s))
    <3>1. k - Len(s) \in DOMAIN t /\ t[k - Len(s)] = e
      BY <1>1, <1>2, <2>2
    <3>2. QED BY <3>1 DEF Due
  <2>3. QED BY <2>1, <2>2
<1>3. ASSUME NEW k \in DOMAIN s, s[k] = e PROVE Due(u, e)
  <2>1. k \in DOMAIN u /\ u[k] = e
    BY <1>1, <1>3
  <2>2. QED BY <2>1 DEF Due
<1>4. ASSUME NEW k \in DOMAIN t, t[k] = e PROVE Due(u, e)
  <2>1. k + Len(s) \in 1..Len(u) /\ ~(k + Len(s) <= Len(s)) /\ (k + Len(s)) - Len(s) = k
    BY <1>1
  <2>2. u[k + Len(s)] = t[k]
    BY <1>1, <2>1
  <2>3. QED BY <1>1, <1>4, <2>1, <2>2 DEF Due
<1>5. QED BY <1>2, <1>3, <1>4 DEF Due, u

LEMMA DueHead ==
  ASSUME NEW S, NEW s \in Seq(S), s # <<>>
  PROVE  /\ 1 \in DOMAIN s /\ Head(s) = s[1]
         /\ \A e : Due(s, e) <=> e = Head(s) \/ Due(Tail(s), e)
         /\ \A k \in DOMAIN Tail(s) : k + 1 \in DOMAIN s /\ Tail(s)[k] = s[k + 1]
<1>1. /\ Len(s) \in Nat \ {0} /\ DOMAIN s = 1..Len(s) /\ Head(s) = s[1]
      /\ Tail(s) \in Seq(S) /\ Len(Tail(s)) = Len(s) - 1
      /\ \A k \in 1..Len(Tail(s)) : Tail(s)[k] = s[k + 1]
  BY EmptySeq, LenProperties, HeadTailProperties
<1> DEFINE t == Tail(s)
<1>2. DOMAIN t = 1..Len(t)
  BY <1>1, LenProperties
<1> HIDE DEF t
<1>3. \A k \in DOMAIN t : k + 1 \in DOMAIN s /\ t[k] = s[k + 1]
  BY <1>1, <1>2 DEF t
<1>4. ASSUME NEW k \in DOMAIN s, s[k] # s[1] PROVE k - 1 \in DOMAIN t /\ t[k - 1] = s[k]
  <2>1. k - 1 \in 1..Len(t) /\ (k - 1) + 1 = k
    BY <1>1, <1>4 DEF t
  <2>2. QED BY <1>2, <1>3, <2>1
<1>5. ASSUME NEW e PROVE Due(s, e) <=> e = s[1] \/ Due(t, e)
  BY <1>1, <1>3, <1>4 DEF Due
<1>6. QED BY <1>1, <1>3, <1>5 DEF t

LEMMA MinIn == ASSUME NEW S, S \subseteq Nat, S # {} PROVE Min(S) \in S
<1>1. \E x \in S : \A y \in S : ~(<<y, x>> \in OpToRel(<, Nat))
  BY NatLessThanWellFounded, WFMin, Zenon
<1>2. \A x, y : x \in Nat /\ y \in Nat /\ x < y => <<x, y>> \in OpToRel(<, Nat)
  <2> SUFFICES ASSUME NEW x \in Nat, NEW y \in Nat, x < y PROVE <<x, y>> \in OpToRel(<, Nat)
    OBVIOUS
  <2>1. <<x, y>> \in Nat \X Nat /\ <<x, y>>[1] = x /\ <<x, y>>[2] = y
    OBVIOUS
  <2>2. QED BY <2>1, Zenon DEF OpToRel
<1> DEFINE R == OpToRel(<, Nat)
<1> HIDE DEF R
<1>3. PICK x \in S : \A y \in S : ~(<<y, x>> \in R)
  BY <1>1 DEF R
<1>4. \A y \in S : ~(y < x)
  BY <1>2, <1>3 DEF R
<1>5. \A y \in S : x <= y
  BY <1>4
<1>6. QED BY <1>5 DEF Min

LEMMA SequenceOf ==
  ASSUME NEW S, IsFiniteSet(S)
  PROVE  SetToSeq(S) \in Seq(S) /\ \A x : Due(SetToSeq(S), x) <=> x \in S
<1> DEFINE n == Cardinality(S)
           q == SetToSeq(S)
<1>1. n \in Nat /\ ExistsBijection(1..n, S)
  BY FS_CardinalityType
<1>2. \E f \in [1..n -> S] : IsInjective(f)
  BY <1>1 DEF ExistsBijection, Bijection, Injection
<1>3. q \in [1..n -> S] /\ IsInjective(q)
  BY <1>2 DEF SetToSeq
<1>4. q \in Injection(1..n, S)
  BY <1>3 DEF Injection
<1>5. Cardinality(1..n) = n /\ IsFiniteSet(1..n)
  BY <1>1, FS_Interval
<1> HIDE DEF q
<1>6. q \in Surjection(1..n, S)
  <2>1. Cardinality(1..n) = Cardinality(S)
    BY <1>5
  <2>2. QED BY <1>4, <2>1, FS_Injection
<1>7. q \in Seq(S)
  BY <1>1, <1>3, SeqDef
<1>8. QED BY <1>3, <1>6, <1>7 DEF Surjection, Due, q

-----------------------------------------------------------------------------
(* What the books do not notice                                            *)

SameRows == /\ DOMAIN alerts' = DOMAIN alerts
            /\ \A a \in DOMAIN alerts : /\ alerts'[a].open = alerts[a].open
                                        /\ alerts'[a].cluster = alerts[a].cluster

SameClusters == /\ clusters' \in Seq(Range(clusters')) /\ DOMAIN clusters' = DOMAIN clusters
                /\ \A c \in DOMAIN clusters : /\ ClusterOk(clusters'[c])
                                              /\ clusters'[c].open = clusters[c].open
                                              /\ clusters'[c].told = clusters[c].told

SameThread == /\ hist'.errands = hist.errands
              /\ hist'.at # "errands" => hist'.errands = <<>>
              /\ Newly' = Newly /\ Over' = Over
              /\ hist'.at \in {"marks", "mend", "alerts", "reconcile"}
                 => hist'.opened = 0 /\ hist'.resolved = 0

LEMMA Unnoticed ==
  ASSUME Books, UNCHANGED <<told, incidents>>, SameRows, SameClusters, SameThread
  PROVE  Books'
<1>1. Ids' = Ids /\ \A e : ErrandOk(e)' <=> ErrandOk(e)
  BY DEF Ids, ErrandOk, SameRows, SameClusters
<1>2. /\ \A k, i, w : Said(k, i, w)' <=> Said(k, i, w)
      /\ \A k, i : Recorded(k, i)' <=> Recorded(k, i)
      /\ \A c : Announced(c)' <=> Announced(c)
  BY DEF Said, Heard, Recorded, Announced, Owed, SameThread
<1>3. \A c \in DOMAIN clusters : Flagged(c)' <=> Flagged(c)
  BY DEF Flagged, Owed, SameThread, SameClusters
<1>4. Groups'
  BY <1>1 DEF Books, Groups, SameRows, SameClusters
<1>5. Carried'
  <2>1. (\A k \in DOMAIN hist.errands : ErrandOk(hist.errands[k]))'
    <3>1. \A x : ErrandOk(x)' <=> ErrandOk(x)
      BY <1>1
    <3>2. SUFFICES ASSUME NEW k \in DOMAIN hist'.errands PROVE ErrandOk(hist.errands[k])'
      OBVIOUS
    <3>3. ErrandOk(hist.errands[k])
      BY <3>2 DEF Books, Carried, SameThread
    <3>4. QED BY <1>1, <3>3 DEF SameThread, ErrandOk
  <2>2. Over' # 0 => /\ ~alerts'[Over'].open
                     /\ alerts'[Over'].cluster # 0 => clusters'[alerts'[Over'].cluster].open
    BY DEF Books, Groups, Carried, SameThread, SameRows, SameClusters
  <2>3. QED BY <2>1, <2>2 DEF Books, Carried, SameThread, SameRows
<1>6. Filed'
  BY <1>2 DEF Books, Filed, SameRows, SameClusters, SameThread
<1>7. Spoken'
  <2>1. \A a \in DOMAIN alerts : OpenSaid(a)'
    BY <1>2 DEF Books, Spoken, OpenSaid, SameRows, SameThread
  <2>2. \A a \in DOMAIN alerts : EndSaid(a)'
    BY <1>2 DEF Books, Groups, Spoken, EndSaid, SameRows, SameClusters, SameThread
  <2>3. \A c \in DOMAIN clusters : Announced(c)' /\ Flagged(c)'
    BY <1>2, <1>3 DEF Books, Spoken
  <2>4. \A a \in OpenRows' : alerts'[a].cluster # 0 => clusters'[alerts'[a].cluster].open
    BY DEF Books, Groups, Spoken, OpenRows, SameRows, SameClusters
  <2>5. QED BY <2>1, <2>2, <2>3, <2>4 DEF Spoken, SameRows, SameClusters
<1>8. QED BY <1>4, <1>5, <1>6, <1>7 DEF Books

LEMMA ClustersKept == ASSUME Groups, UNCHANGED clusters PROVE SameClusters
BY DEF Groups, SameClusters

LEMMA RowsKept == ASSUME UNCHANGED alerts PROVE SameRows
BY DEF SameRows

LEMMA ThreadKept == ASSUME Carried, UNCHANGED hist PROVE SameThread
BY DEF Carried, SameThread, Newly, Over

(* The thread moves on with nothing to hand to anybody.                    *)
LEMMA ThreadFree ==
  ASSUME hist.at # "correlate" \/ (hist.opened = 0 /\ hist.resolved = 0),
         hist.errands = <<>>, hist'.errands = <<>>,
         hist'.at \in {"refresh", "show"} \/ (hist'.opened = 0 /\ hist'.resolved = 0)
  PROVE  SameThread
BY DEF SameThread, Newly, Over

(* One errand                                                              *)

LEMMA ErrandBooks == ASSUME Books, IInv, Errand PROVE Books'
<1> DEFINE s == hist.errands
           e == Head(s)
           f == IF e.do = "announce" THEN <<Flag(e.on[2])>> ELSE <<>>
           t == Tail(s)
<1>1. /\ s \in Seq(Range(s)) /\ s # <<>> /\ hist.at = "errands"
      /\ hist' = [hist EXCEPT !.errands = f \o t]
  BY DEF Books, Carried, Errand
<1>2. /\ ErrandOk(e) /\ e \in Range(s) /\ t \in Seq(Range(s))
      /\ \A x : Due(s, x) <=> x = e \/ Due(t, x)
      /\ \A k \in DOMAIN t : ErrandOk(t[k])
  BY <1>1, DueHead, HeadTailProperties DEF Books, Carried
<1>3. hist'.errands = f \o t /\ hist'.at = "errands"
  BY <1>1 DEF IInv, Placed, Shape
<1> DEFINE S == Range(s) \cup Range(f) 
           u == f \o t
<1>4. /\ f \in Seq(S) /\ t \in Seq(S)
      /\ \A x : Due(f, x) <=> e.do = "announce" /\ x = Flag(e.on[2])
  <2>1. t \in Seq(S)
    <3>1. Range(s) \subseteq S /\ t \in Seq(Range(s))
      BY <1>2
    <3> HIDE DEF S, t, s
    <3>2. QED BY <3>1, SeqMonotonic
  <2>2. CASE e.do = "announce"
    <3> DEFINE x == Flag(e.on[2])
    <3>1. f = <<x>>
      BY <2>2
    <3> HIDE DEF x, f
    <3>2. f \in Seq({x}) /\ DOMAIN f = {1} /\ f[1] = x
      BY <3>1
    <3>3. f \in Seq(S)
      BY <3>2, SeqMonotonic DEF Range
    <3>4. QED BY <2>1, <2>2, <3>1, <3>3, DueOne DEF x
  <2>3. CASE e.do # "announce"
    <3>1. f = <<>>
      BY <2>3
    <3> HIDE DEF f
    <3>2. QED BY <2>1, <2>3, <3>1, EmptySeq, DueNone
  <2>4. QED BY <2>2, <2>3
<1> HIDE DEF f, t, e, S
<1>5. /\ u \in Seq(S)
      /\ \A x : Due(u, x) <=> (e.do = "announce" /\ x = Flag(e.on[2])) \/ Due(t, x)
  BY <1>4, DueBoth, ConcatProperties
<1> HIDE DEF u
<1>6. \A x : Owed(x) <=> x = e \/ Due(t, x)
  BY <1>2 DEF Owed
<1>7. \A x : Owed(x)' <=> (e.do = "announce" /\ x = Flag(e.on[2])) \/ Due(t, x)
  BY <1>3, <1>5 DEF Owed, u
<1>8. /\ \A k, i, w : e = Tell(k, i, w) <=> e.do = "tell" /\ e.on = <<k, i, w>>
      /\ \A k, i : e = Record(k, i) <=> e.do = "record" /\ e.on = <<k, i>>
      /\ \A c : e = Announce(c) <=> e.do = "announce" /\ e.on = <<"cluster", c, "open">>
      /\ \A c : e = Flag(c) <=> e.do = "flag" /\ e.on = <<"cluster", c>>
      /\ e.do = "record" => e.on \in Ids
      /\ e.do = "announce" => e.on[2] \in DOMAIN clusters /\ e = Announce(e.on[2])
      /\ e.do = "flag" => e.on[2] \in DOMAIN clusters /\ e = Flag(e.on[2])
      /\ \A c, k, i, w : /\ Flag(c) # Tell(k, i, w) /\ Flag(c) # Record(k, i)
                         /\ Flag(c) # Announce(i)
  <2>1. CASE e \in [do : {"tell"}, on : {e.on}] \/ e \in [do : {"record"}, on : Ids]
    <3> DEFINE d == e.do
               o == e.on
    <3>1. /\ e = [do |-> d, on |-> o] /\ d \in {"tell", "record"}
          /\ d = "record" => o \in Ids
      BY <2>1
    <3> HIDE DEF d, o
    <3>2. e.do = d /\ e.on = o
      BY DEF d, o
    <3>3. \A k, i, w : Tell(k, i, w) = e <=> d = "tell" /\ o = <<k, i, w>>
      BY <3>1 DEF Tell
    <3>4. \A k, i : Record(k, i) = e <=> d = "record" /\ o = <<k, i>>
      BY <3>1 DEF Record
    <3>5. \A c : Announce(c).do = "announce" /\ Flag(c).do = "flag"
      BY DEF Announce, Flag
    <3>6. \A c, k, i, w : Tell(k, i, w).do = "tell" /\ Record(k, i).do = "record"
      BY DEF Tell, Record
    <3>7. QED BY <3>1, <3>2, <3>3, <3>4, <3>5, <3>6
  <2>2. CASE \E c \in DOMAIN clusters : e = Announce(c)
    BY <2>2 DEF Tell, Record, Announce, Flag
  <2>3. CASE \E c \in DOMAIN clusters : e = Flag(c)
    BY <2>3 DEF Tell, Record, Announce, Flag
  <2>4. QED BY <1>2, <2>1, <2>2, <2>3 DEF ErrandOk
<1>9. /\ told' = IF e.do \in {"tell", "announce"} THEN told \cup {e.on} ELSE told
      /\ incidents' = IF e.do = "record" THEN incidents \cup {e.on} ELSE incidents
      /\ clusters' = IF e.do = "flag" THEN [clusters EXCEPT ![e.on[2]].told = TRUE] ELSE clusters
      /\ alerts' = alerts
      /\ Newly = 0 /\ Over = 0 /\ Newly' = 0 /\ Over' = 0
  BY <1>1, <1>3 DEF Errand, e, Newly, Over
<1>10. /\ \A k, i, w : Said(k, i, w) => Said(k, i, w)'
       /\ \A c : Announced(c) => Announced(c)'
  BY <1>6, <1>7, <1>8, <1>9 DEF Said, Heard, Announced
<1>11. \A k, i : Recorded(k, i) <=> Recorded(k, i)'
  <2> SUFFICES ASSUME NEW k, NEW i PROVE Recorded(k, i) <=> Recorded(k, i)'
    OBVIOUS
  <2>1. Owed(Record(k, i)) <=> (e.do = "record" /\ e.on = <<k, i>>) \/ Owed(Record(k, i))'
    BY <1>6, <1>7, <1>8
  <2>2. <<k, i>> \in incidents' <=> <<k, i>> \in incidents \/ (e.do = "record" /\ e.on = <<k, i>>)
    BY <1>9
  <2>3. QED BY <2>1, <2>2 DEF Recorded
<1>12. /\ DOMAIN clusters' = DOMAIN clusters /\ clusters' \in Seq(Range(clusters'))
       /\ \A c \in DOMAIN clusters :
             /\ ClusterOk(clusters'[c]) /\ clusters'[c].open = clusters[c].open
             /\ clusters[c].told => clusters'[c].told
             /\ e = Flag(c) => clusters'[c].told
  <2>1. /\ clusters \in Seq(Range(clusters)) /\ Len(clusters) \in Nat
        /\ DOMAIN clusters = 1..Len(clusters)
    BY LenProperties DEF Books, Groups
  <2>2. CASE e.do # "flag"
    BY <1>8, <1>9, <2>1, <2>2 DEF Books, Groups
  <2>3. CASE e.do = "flag"
    <3> DEFINE d == e.on[2]
               r == [clusters[d] EXCEPT !.told = TRUE]
    <3>1. d \in DOMAIN clusters /\ clusters' = [clusters EXCEPT ![d] = r]
      BY <1>8, <1>9, <2>3
    <3>2. ClusterOk(r) /\ r.open = clusters[d].open /\ r.told
      BY <3>1 DEF Books, Groups, ClusterOk
    <3>3. \A c : e = Flag(c) => c = d
      BY <1>8
    <3> HIDE DEF r, d
    <3>4. /\ clusters'[d] = r /\ DOMAIN clusters' = DOMAIN clusters
          /\ \A c \in DOMAIN clusters \ {d} : clusters'[c] = clusters[c]
          /\ clusters' \in [1..Len(clusters) -> Range(clusters')]
      BY <2>1, <3>1 DEF Range
    <3>5. clusters' \in Seq(Range(clusters'))
      BY <2>1, <3>4, SeqDef
    <3>6. QED BY <3>2, <3>3, <3>4, <3>5 DEF Books, Groups
  <2>4. QED BY <2>2, <2>3
<1>13. \A c \in DOMAIN clusters : Flagged(c) => Flagged(c)'
  <2> SUFFICES ASSUME NEW c \in DOMAIN clusters, Flagged(c) PROVE Flagged(c)'
    OBVIOUS
  <2>1. CASE Owed(Announce(c))
    <3>1. e = Announce(c) => e.do = "announce" /\ e.on[2] = c
      BY <1>8
    <3>2. QED BY <1>6, <1>7, <2>1, <3>1 DEF Flagged
  <2>2. CASE Owed(Flag(c))
    BY <1>6, <1>7, <1>12, <2>2 DEF Flagged
  <2>3. CASE clusters[c].told
    BY <1>12, <2>3 DEF Flagged
  <2>4. QED BY <2>1, <2>2, <2>3 DEF Flagged
<1>14. Ids' = Ids /\ \A x : ErrandOk(x)' <=> ErrandOk(x)
  BY <1>9, <1>12 DEF Ids, ErrandOk
<1>15. Groups'
  BY <1>8, <1>9, <1>12, <1>14 DEF Books, Groups
<1>16. Carried'
  <2>1. u \in Seq(Range(u))
    <3>1. u \in [1..Len(u) -> Range(u)] /\ Len(u) \in Nat
      BY <1>5, LenProperties DEF Range
    <3>2. QED BY <3>1, SeqDef
  <2>2. ASSUME NEW k \in DOMAIN u PROVE ErrandOk(u[k])
    <3>1. CASE Due(t, u[k])
      BY <1>2, <3>1 DEF Due
    <3>2. CASE e.do = "announce" /\ u[k] = Flag(e.on[2])
      BY <1>8, <3>2 DEF ErrandOk
    <3>3. Due(u, u[k])
      BY DEF Due
    <3>4. QED BY <1>5, <3>1, <3>2, <3>3
  <2>3. (\A k \in DOMAIN hist.errands : ErrandOk(hist.errands[k]))'
    BY <1>3, <1>9, <1>12, <1>14, <2>2 DEF u, ErrandOk
  <2>4. QED BY <1>3, <1>9, <2>1, <2>3 DEF Carried, u
<1>17. Filed'
  BY <1>9, <1>11, <1>12 DEF Books, Filed
<1>18. Spoken'
  <2>1. \A a \in DOMAIN alerts : OpenSaid(a)'
    BY <1>9, <1>10 DEF Books, Spoken, OpenSaid
  <2>2. \A a \in DOMAIN alerts : EndSaid(a)'
    BY <1>9, <1>10, <1>12 DEF Books, Groups, Spoken, EndSaid
  <2>3. \A c \in DOMAIN clusters : Announced(c)' /\ Flagged(c)'
    BY <1>10, <1>13 DEF Books, Spoken
  <2>4. \A a \in OpenRows' : alerts'[a].cluster # 0 => clusters'[alerts'[a].cluster].open
    BY <1>9, <1>12 DEF Books, Groups, Spoken, OpenRows
  <2>5. QED BY <1>9, <1>12, <2>1, <2>2, <2>3, <2>4 DEF Spoken
<1>19. QED BY <1>15, <1>16, <1>17, <1>18 DEF Books

(* An alert opens, an alert closes                                         *)

LEMMA OpenedBooks ==
  ASSUME Books, IInv, hist.at = "reconcile", Opened, UNCHANGED <<clusters, incidents, told>>
  PROVE  Books'
<1> DEFINE n == Len(alerts) + 1
           r == NewAlert(Here)
<1>1. /\ Len(alerts) \in Nat /\ DOMAIN alerts = 1..Len(alerts)
      /\ alerts \in Seq(Range(alerts))
  BY LenProperties DEF IInv, Table
<1>2. r.open /\ r.cluster = 0
  BY DEF NewAlert
<1>3. alerts' = Append(alerts, r)
  BY DEF Opened
<1> HIDE DEF r
<1>4. /\ DOMAIN alerts' = DOMAIN alerts \cup {n} /\ n \notin DOMAIN alerts /\ n # 0
      /\ alerts'[n] = r /\ \A a \in DOMAIN alerts : alerts'[a] = alerts[a]
  <2>1. alerts \in Seq(Range(alerts) \cup {r})
    BY <1>1, SeqMonotonic
  <2>2. QED BY <1>1, <1>3, <2>1, AppendProperties, LenProperties
<1>5. /\ Newly = 0 /\ Over = 0 /\ Newly' = n /\ Over' = 0
      /\ hist.errands = <<>> /\ hist'.errands = hist.errands /\ hist'.at = "correlate"
  BY DEF Books, Carried, Opened, Newly, Over, IInv, Placed, Shape
<1> HIDE DEF n
<1>6. /\ \A k, i, w : Said(k, i, w)' <=> Said(k, i, w)
      /\ \A k, i : Recorded(k, i)' <=> Recorded(k, i)
      /\ \A c : Announced(c)' <=> Announced(c)
      /\ \A c : Flagged(c)' <=> Flagged(c)
  BY <1>5 DEF Said, Heard, Recorded, Announced, Flagged, Owed
<1>7. ~Recorded("alert", n)
  BY <1>4, <1>5, DueNone DEF Recorded, Owed, Books, Groups, Ids
<1>8. Groups'
  BY <1>2, <1>4 DEF Books, Groups, Ids
<1>9. Carried'
  <2>1. hist'.errands \in Seq(Range(hist'.errands))
    BY <1>5 DEF Books, Carried
  <2>2. DOMAIN hist'.errands = {}
    BY <1>5
  <2>3. QED BY <1>4, <1>5, <2>1, <2>2 DEF Carried
<1>10. Filed'
  BY <1>2, <1>4, <1>5, <1>6, <1>7 DEF Books, Filed
<1>11. Spoken'
  <2> \A a \in DOMAIN alerts : a # 0
    BY <1>1
  <2>1. \A a \in DOMAIN alerts' : OpenSaid(a)'
    BY <1>4, <1>5, <1>6 DEF Books, Spoken, OpenSaid
  <2>2. \A a \in DOMAIN alerts' : EndSaid(a)'
    BY <1>2, <1>4, <1>5, <1>6 DEF Books, Spoken, EndSaid
  <2>3. \A c \in DOMAIN clusters : Announced(c)' /\ Flagged(c)'
    BY <1>6 DEF Books, Spoken
  <2>4. \A a \in OpenRows' : alerts'[a].cluster # 0 => clusters'[alerts'[a].cluster].open
    BY <1>2, <1>4 DEF Books, Spoken, OpenRows
  <2>5. QED BY <2>1, <2>2, <2>3, <2>4 DEF Spoken
<1>12. QED BY <1>8, <1>9, <1>10, <1>11 DEF Books

LEMMA ResolvedBooks ==
  ASSUME Books, IInv, hist.at = "reconcile", Resolved, UNCHANGED <<clusters, incidents, told>>
  PROVE  Books'
<1> DEFINE c == hist.row
           r == [alerts[c] EXCEPT !.open = FALSE, !.state = "resolved"]
<1>1. c \in OpenRows /\ c \in DOMAIN alerts /\ c # 0
  BY DEF IInv, RowHeld, Resolved, OpenOf, OpenRows
<1>2. alerts' = [alerts EXCEPT ![c] = r]
  BY DEF Resolved
<1>3. ~r.open /\ r.cluster = alerts[c].cluster
  <2>1. RowOk(alerts[c])
    BY <1>1, RowTyped
  <2>2. QED BY <2>1 DEF RowOk
<1> HIDE DEF r
<1>4. /\ DOMAIN alerts' = DOMAIN alerts /\ alerts'[c] = r
      /\ \A a \in DOMAIN alerts \ {c} : alerts'[a] = alerts[a]
  BY <1>1, <1>2
<1>5. /\ Newly = 0 /\ Over = 0 /\ Newly' = 0 /\ Over' = c
      /\ hist.errands = <<>> /\ hist'.errands = hist.errands /\ hist'.at = "correlate"
  BY DEF Books, Carried, Resolved, Newly, Over, IInv, Placed, Shape
<1> HIDE DEF c
<1>6. /\ \A k, i, w : Said(k, i, w)' <=> Said(k, i, w)
      /\ \A k, i : Recorded(k, i)' <=> Recorded(k, i)
      /\ \A d : Announced(d)' <=> Announced(d)
      /\ \A d : Flagged(d)' <=> Flagged(d)
  BY <1>5 DEF Said, Heard, Recorded, Announced, Flagged, Owed
<1>7. \A a \in DOMAIN alerts : alerts'[a].cluster = alerts[a].cluster /\ a # 0
  <2>1. \A a \in DOMAIN alerts : a # 0
    BY LenProperties DEF IInv, Table
  <2>2. QED BY <1>3, <1>4, <2>1
<1>8. Groups'
  BY <1>4, <1>7 DEF Books, Groups, Ids
<1>9. Carried'
  <2>1. hist'.errands \in Seq(Range(hist'.errands)) /\ DOMAIN hist'.errands = {}
    BY <1>5 DEF Books, Carried
  <2>2. alerts'[c].cluster # 0 => clusters'[alerts'[c].cluster].open
    BY <1>1, <1>7 DEF Books, Spoken
  <2>3. QED BY <1>1, <1>3, <1>4, <1>5, <2>1, <2>2 DEF Carried
<1>10. Filed'
  BY <1>1, <1>3, <1>4, <1>5, <1>6, <1>7 DEF Books, Filed, OpenRows
<1>11. Spoken'
  <2>1. \A a \in DOMAIN alerts' : OpenSaid(a)'
    BY <1>4, <1>5, <1>6, <1>7 DEF Books, Spoken, OpenSaid
  <2>2. \A a \in DOMAIN alerts' : EndSaid(a)'
    BY <1>4, <1>5, <1>6, <1>7 DEF Books, Spoken, EndSaid
  <2>3. \A d \in DOMAIN clusters : Announced(d)' /\ Flagged(d)'
    BY <1>6 DEF Books, Spoken
  <2>4. \A a \in OpenRows' : alerts'[a].cluster # 0 => clusters'[alerts'[a].cluster].open
    BY <1>3, <1>4 DEF Books, Spoken, OpenRows
  <2>5. QED BY <2>1, <2>2, <2>3, <2>4 DEF Spoken
<1>12. QED BY <1>8, <1>9, <1>10, <1>11 DEF Books

-----------------------------------------------------------------------------
(* The correlation                                                         *)

LEMMA IsSeq ==
  ASSUME NEW n \in Nat, NEW f, f = [k \in 1..n |-> f[k]]
  PROVE  f \in Seq(Range(f)) /\ Len(f) = n
<1>1. f \in [1..n -> Range(f)]
  BY DEF Range
<1>2. f \in Seq(Range(f))
  BY <1>1, SeqDef
<1>3. QED BY <1>1, <1>2, LenProperties

LEMMA DueAppended ==
  ASSUME NEW s, NEW t, s \in Seq(Range(s)), t \in Seq(Range(t))
  PROVE  /\ s \o t \in Seq(Range(s \o t))
         /\ \A e : Due(s \o t, e) <=> Due(s, e) \/ Due(t, e)
<1> DEFINE S == Range(s) \cup Range(t)
<1>1. Range(s) \subseteq S /\ Range(t) \subseteq S
  OBVIOUS
<1> HIDE DEF S
<1>2. s \in Seq(S) /\ t \in Seq(S)
  BY <1>1, SeqMonotonic
<1>3. s \o t \in Seq(S)
  BY <1>2, ConcatProperties
<1>4. s \o t \in Seq(Range(s \o t))
  <2> DEFINE u == s \o t
  <2> HIDE DEF u
  <2>1. u \in Seq(S)
    BY <1>3 DEF u
  <2>2. Len(u) \in Nat /\ u = [k \in 1..Len(u) |-> u[k]]
    BY <2>1, LenProperties
  <2>3. QED BY <2>2, IsSeq DEF u
<1>5. QED BY <1>2, <1>4, DueBoth

LEMMA FinishedSeq ==
  ASSUME Groups, NEW T \in SUBSET Finished
  PROVE  SetToSeq(T) \in Seq(T) /\ \A c : Due(SetToSeq(T), c) <=> c \in T
<1>1. IsFiniteSet(1..Len(clusters)) /\ DOMAIN clusters = 1..Len(clusters)
  BY LenProperties, FS_Interval DEF Groups
<1>2. T \in SUBSET (1..Len(clusters))
  BY <1>1 DEF Finished, OpenClusters
<1>3. IsFiniteSet(T)
  BY <1>1, <1>2, FS_Subset
<1>4. QED BY <1>3, SequenceOf

LEMMA FormingSeq == ASSUME IInv PROVE Len(Forming) \in Nat /\ DOMAIN Forming = 1..Len(Forming)
<1> DEFINE T == {HintOf(a) : a \in Loose}
           f == [a \in Loose |-> HintOf(a)]
           S == {h \in Range(Hint) : Cardinality({alerts[a].device : a \in Grouped(h)}) >= 2}
<1>1. IsFiniteSet(1..Len(alerts)) /\ DOMAIN alerts = 1..Len(alerts)
  BY LenProperties, FS_Interval DEF IInv, Table
<1>2. Loose \in SUBSET (1..Len(alerts))
  BY <1>1 DEF Loose, OpenRows
<1>3. IsFiniteSet(Loose)
  BY <1>1, <1>2, FS_Subset
<1>4. f \in Surjection(Loose, T)
  BY DEF Surjection
<1> HIDE DEF f, T
<1>5. IsFiniteSet(T)
  BY <1>3, <1>4, FS_Surjection
<1>6. ASSUME NEW h \in S PROVE h \in T
  <2>1. CASE Grouped(h) = {}
    <3>1. {alerts[a].device : a \in Grouped(h)} = {}
      BY <2>1
    <3>2. Cardinality({alerts[a].device : a \in Grouped(h)}) = 0
      BY <3>1, FS_EmptySet
    <3>3. QED BY <3>2
  <2>2. CASE Grouped(h) # {}
    BY <2>2 DEF Grouped, T
  <2>3. QED BY <2>1, <2>2
<1> HIDE DEF S
<1>7. IsFiniteSet(S)
  BY <1>5, <1>6, FS_Subset
<1>8. Forming \in Seq(S)
  BY <1>7, SequenceOf DEF Forming, S
<1>9. QED BY <1>8, LenProperties

(* Where an alert goes: to a cluster that stays open, or to one that opens. *)
LEMMA HomeIs ==
  ASSUME Groups, IInv, NEW a \in DOMAIN alerts
  PROVE  \/ Home(a) = alerts[a].cluster
         \/ /\ a \in Loose
            /\ \/ Home(a) \in OpenClusters \ Finished
               \/ \E k \in DOMAIN Forming : Home(a) = Len(clusters) + k
<1>1. CASE a \in Joining
  <2> DEFINE S == Candidates(HintOf(a))
  <2>1. S # {} /\ a \in Loose /\ S \subseteq OpenClusters \ Finished
    BY <1>1 DEF Joining, Joins, Candidates
  <2>2. S \subseteq Nat
    BY <2>1, LenProperties DEF OpenClusters, Groups
  <2> HIDE DEF S
  <2>3. Min(S) \in S
    BY <2>1, <2>2, MinIn
  <2>4. Home(a) = Min(S)
    BY <1>1 DEF Home, S
  <2>5. QED BY <2>1, <2>3, <2>4
<1>2. CASE a \notin Joining /\ \E k \in DOMAIN Forming : a \in Grouped(Forming[k])
  <2> DEFINE k == CHOOSE k \in DOMAIN Forming : a \in Grouped(Forming[k])
  <2>1. k \in DOMAIN Forming /\ a \in Grouped(Forming[k])
    BY <1>2
  <2>2. Home(a) = Len(clusters) + k
    BY <1>2 DEF Home
  <2> HIDE DEF k
  <2>3. a \in Loose
    BY <2>1 DEF Grouped
  <2>4. QED BY <2>1, <2>2, <2>3
<1>3. CASE a \notin Joining /\ ~\E k \in DOMAIN Forming : a \in Grouped(Forming[k])
  BY <1>3 DEF Home
<1>4. QED BY <1>1, <1>2, <1>3

(* What the correlation leaves to tell and to record.                      *)
LEMMA AlertErrandsAre ==
  ASSUME NEW b \in BOOLEAN
  PROVE  /\ AlertErrands(b) \in Seq(Range(AlertErrands(b)))
         /\ \A e : Due(AlertErrands(b), e) <=>
                     \/ hist.opened # 0 /\ ~b /\ e = Tell("alert", hist.opened, "open")
                     \/ /\ hist.resolved # 0 /\ Standalone(hist.resolved)
                        /\ \/ e = Tell("alert", hist.resolved, "resolve")
                           \/ e = Record("alert", hist.resolved)
<1> DEFINE x == Tell("alert", hist.opened, "open")
           y == Tell("alert", hist.resolved, "resolve")
           z == Record("alert", hist.resolved)
           s == IF hist.opened # 0 /\ ~b THEN <<x>> ELSE <<>>
           t == IF hist.resolved = 0 \/ ~Standalone(hist.resolved) THEN <<>> ELSE <<y, z>>
<1>1. AlertErrands(b) = s \o t
  BY DEF AlertErrands
<1> HIDE DEF x, y, z
<1>2. <<>> \in Seq(Range(<<>>))
  BY EmptySeq
<1>3. s \in Seq(Range(s)) /\ \A e : Due(s, e) <=> hist.opened # 0 /\ ~b /\ e = x
  <2>1. <<x>> \in Seq(Range(<<x>>)) /\ \A e : Due(<<x>>, e) <=> e = x
    BY DueOne DEF Range
  <2> DEFINE p == <<x>>
  <2> HIDE DEF p
  <2>2. QED BY <1>2, <2>1, DueNone DEF p
<1>4. t \in Seq(Range(t)) /\ \A e : Due(t, e) <=> /\ hist.resolved # 0 /\ Standalone(hist.resolved)
                                                  /\ e = y \/ e = z
  <2>1. <<y, z>> \in Seq(Range(<<y, z>>)) /\ \A e : Due(<<y, z>>, e) <=> e = y \/ e = z
    BY DEF Due, Range
  <2> DEFINE p == <<y, z>>
  <2> HIDE DEF p
  <2>2. QED BY <1>2, <2>1, DueNone DEF p
<1> HIDE DEF s, t
<1>5. QED BY <1>1, <1>3, <1>4, DueAppended DEF x, y, z

LEMMA ClusterErrandsAre ==
  ASSUME Groups, IInv
  PROVE  /\ ClusterErrands \in Seq(Range(ClusterErrands))
         /\ \A e : Due(ClusterErrands, e) <=>
                     \/ \E c \in Finished : clusters[c].told /\ e = Tell("cluster", c, "resolve")
                     \/ \E k \in DOMAIN Forming : e = Announce(Len(clusters) + k)
                     \/ \E c \in Finished : e = Record("cluster", c)
<1> DEFINE T == {c \in Finished : clusters[c].told}
           o == SetToSeq(Finished)
           m == SetToSeq(T)
           F == Forming
           s == [k \in DOMAIN m |-> Tell("cluster", m[k], "resolve")]
           t == [k \in DOMAIN F |-> Announce(Len(clusters) + k)]
           u == [k \in DOMAIN o |-> Record("cluster", o[k])]
<1>1. ClusterErrands = s \o t \o u
  BY DEF ClusterErrands
<1>2. o \in Seq(Finished) /\ \A c : Due(o, c) <=> c \in Finished
  BY FinishedSeq
<1>3. m \in Seq(T) /\ \A c : Due(m, c) <=> c \in T
  BY FinishedSeq
<1>4. Len(F) \in Nat /\ DOMAIN F = 1..Len(F)
  BY FormingSeq
<1> HIDE DEF o, m, F
<1>5. s \in Seq(Range(s)) /\ \A e : Due(s, e) <=> \E c \in T : e = Tell("cluster", c, "resolve")
  <2>1. Len(m) \in Nat /\ DOMAIN m = 1..Len(m)
    BY <1>3, LenProperties
  <2>2. s = [k \in 1..Len(m) |-> s[k]] /\ DOMAIN s = DOMAIN m
    BY <2>1
  <2>3. \A k \in DOMAIN m : s[k] = Tell("cluster", m[k], "resolve")
    OBVIOUS
  <2> HIDE DEF s
  <2>4. s \in Seq(Range(s))
    BY <2>1, <2>2, IsSeq
  <2> HIDE DEF T
  <2>5. \A e : Due(s, e) <=> \E c \in T : e = Tell("cluster", c, "resolve")
    BY <1>3, <2>2, <2>3 DEF Due
  <2>6. QED BY <2>4, <2>5
<1>6. /\ t \in Seq(Range(t))
      /\ \A e : Due(t, e) <=> \E k \in DOMAIN F : e = Announce(Len(clusters) + k)
  <2>1. t = [k \in 1..Len(F) |-> t[k]] /\ DOMAIN t = DOMAIN F
    BY <1>4
  <2>2. \A k \in DOMAIN F : t[k] = Announce(Len(clusters) + k)
    OBVIOUS
  <2> HIDE DEF t
  <2>3. t \in Seq(Range(t))
    BY <1>4, <2>1, IsSeq
  <2>4. QED BY <2>1, <2>2, <2>3 DEF Due
<1>7. u \in Seq(Range(u)) /\ \A e : Due(u, e) <=> \E c \in Finished : e = Record("cluster", c)
  <2>1. Len(o) \in Nat /\ DOMAIN o = 1..Len(o)
    BY <1>2, LenProperties
  <2>2. u = [k \in 1..Len(o) |-> u[k]] /\ DOMAIN u = DOMAIN o
    BY <2>1
  <2>3. \A k \in DOMAIN o : u[k] = Record("cluster", o[k])
    OBVIOUS
  <2> HIDE DEF u
  <2>4. u \in Seq(Range(u))
    BY <2>1, <2>2, IsSeq
  <2>5. \A e : Due(u, e) <=> \E c \in Finished : e = Record("cluster", c)
    BY <1>2, <2>2, <2>3 DEF Due
  <2>6. QED BY <2>4, <2>5
<1> HIDE DEF s, t, u
<1>8. s \o t \in Seq(Range(s \o t)) /\ \A e : Due(s \o t, e) <=> Due(s, e) \/ Due(t, e)
  BY <1>5, <1>6, DueAppended
<1> DEFINE v == s \o t
<1> HIDE DEF v
<1>9. v \o u \in Seq(Range(v \o u)) /\ \A e : Due(v \o u, e) <=> Due(v, e) \/ Due(u, e)
  BY <1>7, <1>8, DueAppended DEF v
<1>10. QED BY <1>1, <1>5, <1>6, <1>7, <1>8, <1>9 DEF v, F

(* Every cluster has its row, and as many follow as form.                  *)
LEMMA ClustersAfter ==
  ASSUME Groups, IInv, Correlate, hist.opened # 0 \/ hist.resolved # 0
  PROVE  /\ clusters' \in Seq(Range(clusters'))
         /\ DOMAIN clusters' = DOMAIN clusters \cup {Len(clusters) + k : k \in DOMAIN Forming}
         /\ \A c \in DOMAIN clusters :
               /\ ClusterOk(clusters'[c]) /\ clusters'[c].told = clusters[c].told
               /\ clusters'[c].open <=> clusters[c].open /\ c \notin Finished
         /\ \A k \in DOMAIN Forming :
               /\ ClusterOk(clusters'[Len(clusters) + k])
               /\ Len(clusters) + k \notin DOMAIN clusters
               /\ clusters'[Len(clusters) + k].open
<1> DEFINE n == Len(clusters)
           F == Forming
           m == Len(F)
           J(c) == \E a \in Joining : Home(a) = c
           s == [c \in DOMAIN clusters |->
                   [clusters[c] EXCEPT !.open = @ /\ c \notin Finished, !.fresh = @ \/ J(c)]]
           t == [k \in DOMAIN F |-> [hint |-> F[k], open |-> TRUE, fresh |-> TRUE, told |-> FALSE]]
<1>1. clusters' = s \o t
  BY DEF Correlate
<1>2. n \in Nat /\ DOMAIN clusters = 1..n
  BY LenProperties DEF Groups
<1>3. m \in Nat /\ DOMAIN F = 1..m
  BY FormingSeq
<1> HIDE DEF F, m, n, J
<1>4. \A c \in DOMAIN clusters : /\ ClusterOk(s[c]) /\ s[c].told = clusters[c].told
                                 /\ s[c].open <=> clusters[c].open /\ c \notin Finished
  <2> SUFFICES ASSUME NEW c \in DOMAIN clusters
               PROVE  /\ ClusterOk(s[c]) /\ s[c].told = clusters[c].told
                      /\ s[c].open <=> clusters[c].open /\ c \notin Finished
    OBVIOUS
  <2> DEFINE r == clusters[c]
             o == r.open /\ c \notin Finished
             f == r.fresh \/ J(c)
             w == [r EXCEPT !.open = o, !.fresh = f]
  <2>1. s[c] = w
    OBVIOUS
  <2>2. ClusterOk(r) /\ o \in BOOLEAN
    BY DEF Groups
  <2> HIDE DEF r, o, f
  <2>3. ClusterOk(w) /\ w.told = r.told /\ w.open = o
    BY <2>2 DEF ClusterOk
  <2> HIDE DEF w
  <2>4. QED BY <2>1, <2>3 DEF r, o
<1>5. \A k \in DOMAIN F : ClusterOk(t[k]) /\ t[k].open
  BY DEF ClusterOk
<1>6. /\ s = [c \in 1..n |-> s[c]] /\ DOMAIN s = DOMAIN clusters
      /\ t = [k \in 1..m |-> t[k]] /\ DOMAIN t = DOMAIN F
  BY <1>2, <1>3
<1> HIDE DEF s, t
<1>7. s \in Seq(Range(s)) /\ Len(s) = n /\ t \in Seq(Range(t)) /\ Len(t) = m
  BY <1>2, <1>3, <1>6, IsSeq
<1> DEFINE S == Range(s) \cup Range(t)
           u == s \o t
<1>8. Range(s) \subseteq S /\ Range(t) \subseteq S
  OBVIOUS
<1> HIDE DEF S
<1>9. s \in Seq(S) /\ t \in Seq(S)
  BY <1>7, <1>8, SeqMonotonic
<1>10. /\ u \in Seq(S) /\ Len(u) = n + m /\ DOMAIN u = 1..(n + m)
       /\ \A i \in 1..(n + m) : u[i] = IF i <= n THEN s[i] ELSE t[i - n]
  <2>1. /\ u \in Seq(S) /\ Len(u) = n + m
        /\ \A i \in 1..(n + m) : u[i] = IF i <= n THEN s[i] ELSE t[i - n]
    BY <1>7, <1>9, ConcatProperties
  <2> HIDE DEF u
  <2>2. QED BY <2>1, LenProperties
<1>11. u \in Seq(Range(u))
  BY <1>7, DueAppended
<1> HIDE DEF u
<1>12. \A c \in 1..n : c \in 1..(n + m) /\ c <= n
  BY <1>2, <1>3
<1>13. \A k \in 1..m : n + k \in 1..(n + m) /\ ~(n + k <= n) /\ (n + k) - n = k /\ n + k \notin 1..n
  BY <1>2, <1>3
<1>14. \A i \in 1..(n + m) : i \in 1..n \/ (i - n \in 1..m /\ i = n + (i - n))
  BY <1>2, <1>3
<1>15. \A c \in DOMAIN clusters : u[c] = s[c]
  BY <1>2, <1>10, <1>12
<1>16. \A k \in DOMAIN F : u[n + k] = t[k] /\ n + k \notin DOMAIN clusters
  BY <1>2, <1>3, <1>10, <1>13
<1>17. DOMAIN u = DOMAIN clusters \cup {n + k : k \in DOMAIN F}
  <2>1. \A i \in DOMAIN u : i \in DOMAIN clusters \/ \E k \in DOMAIN F : i = n + k
    BY <1>2, <1>3, <1>10, <1>14
  <2>2. \A i \in DOMAIN clusters : i \in DOMAIN u
    BY <1>2, <1>10, <1>12
  <2>3. \A k \in DOMAIN F : n + k \in DOMAIN u
    BY <1>3, <1>10, <1>13
  <2>4. QED BY <2>1, <2>2, <2>3
<1>18. QED BY <1>1, <1>4, <1>5, <1>11, <1>15, <1>16, <1>17 DEF u, n, F

LEMMA ErrandsDiffer ==
  /\ \A k, i, l, j : Record(k, i) = Record(l, j) <=> k = l /\ i = j
  /\ \A k, i, w, l, j, v : Tell(k, i, w) = Tell(l, j, v) <=> k = l /\ i = j /\ w = v
  /\ \A c, d : Announce(c) = Announce(d) <=> c = d
  /\ \A k, i, w, l, j : Record(k, i) # Tell(l, j, w)
  /\ \A k, i, w, c : /\ Record(k, i) # Announce(c) /\ Tell(k, i, w) # Announce(c)
                     /\ Record(k, i) # Flag(c) /\ Tell(k, i, w) # Flag(c)
  /\ \A c, d : Announce(c) # Flag(d)
<1>1. /\ \A k, i : Record(k, i).do = "record" /\ Record(k, i).on = <<k, i>>
      /\ \A k, i, w : Tell(k, i, w).do = "tell" /\ Tell(k, i, w).on = <<k, i, w>>
      /\ \A c : Announce(c).do = "announce" /\ Announce(c).on = <<"cluster", c, "open">>
      /\ \A c : Flag(c).do = "flag"
  BY DEF Record, Tell, Announce, Flag
<1>2. \A k, i, l, j : Record(k, i) = Record(l, j) <=> k = l /\ i = j
  <2>1. \A k, i, l, j : <<k, i>> = <<l, j>> <=> k = l /\ i = j
    OBVIOUS
  <2>2. QED BY <1>1, <2>1
<1>3. \A k, i, w, l, j, v : Tell(k, i, w) = Tell(l, j, v) <=> k = l /\ i = j /\ w = v
  <2>1. \A k, i, w, l, j, v : <<k, i, w>> = <<l, j, v>> <=> k = l /\ i = j /\ w = v
    OBVIOUS
  <2>2. QED BY <1>1, <2>1
<1>4. \A c, d : Announce(c) = Announce(d) <=> c = d
  <2>1. \A c, d : <<"cluster", c, "open">> = <<"cluster", d, "open">> <=> c = d
    OBVIOUS
  <2>2. QED BY <1>1, <2>1
<1>5. QED BY <1>1, <1>2, <1>3, <1>4

LEMMA CorrelateBooks ==
  ASSUME Books, IInv, ~hurt, Correlate, hist.opened # 0 \/ hist.resolved # 0
  PROVE  Books'
<1> DEFINE b == hist.opened # 0 /\ Absorbed(hist.opened)
           n == Len(clusters)
           u == AlertErrands(b) \o ClusterErrands
<1>1. /\ hist.at = "correlate" /\ hist' = [hist EXCEPT !.at = "errands", !.errands = u]
      /\ alerts' = [a \in DOMAIN alerts |->
                       IF a \in Loose THEN [alerts[a] EXCEPT !.cluster = Home(a)] ELSE alerts[a]]
      /\ told' = told /\ incidents' = incidents
  BY DEF Correlate
<1>2. /\ b \in BOOLEAN /\ Newly = hist.opened /\ Over = hist.resolved
      /\ hist.errands = <<>>
      /\ hist'.at = "errands" /\ hist'.errands = u /\ Newly' = 0 /\ Over' = 0
  <2>1. b \in BOOLEAN
    BY DEF Absorbed
  <2> HIDE DEF b, u
  <2>2. hist'.at = "errands" /\ hist'.errands = u
    BY <1>1 DEF IInv, Placed, Shape
  <2>3. QED BY <1>1, <2>1, <2>2 DEF Newly, Over, Books, Carried
<1>3. Groups /\ Carried /\ Filed /\ Spoken
  BY DEF Books
<1> HIDE DEF b
<1>4. /\ u \in Seq(Range(u))
      /\ \A e : Due(u, e) <=>
                  \/ Newly # 0 /\ ~b /\ e = Tell("alert", Newly, "open")
                  \/ /\ Over # 0 /\ Standalone(Over)
                     /\ e = Tell("alert", Over, "resolve") \/ e = Record("alert", Over)
                  \/ \E c \in Finished : clusters[c].told /\ e = Tell("cluster", c, "resolve")
                  \/ \E k \in DOMAIN Forming : e = Announce(n + k)
                  \/ \E c \in Finished : e = Record("cluster", c)
  <2>1. /\ AlertErrands(b) \in Seq(Range(AlertErrands(b)))
        /\ \A e : Due(AlertErrands(b), e) <=>
                    \/ Newly # 0 /\ ~b /\ e = Tell("alert", Newly, "open")
                    \/ /\ Over # 0 /\ Standalone(Over)
                       /\ e = Tell("alert", Over, "resolve") \/ e = Record("alert", Over)
    BY <1>2, AlertErrandsAre
  <2>2. /\ ClusterErrands \in Seq(Range(ClusterErrands))
        /\ \A e : Due(ClusterErrands, e) <=>
                  \/ \E c \in Finished : clusters[c].told /\ e = Tell("cluster", c, "resolve")
                  \/ \E k \in DOMAIN Forming : e = Announce(n + k)
                  \/ \E c \in Finished : e = Record("cluster", c)
    BY <1>3, ClusterErrandsAre
  <2> HIDE DEF n
  <2>3. /\ u \in Seq(Range(u))
        /\ \A e : Due(u, e) <=> Due(AlertErrands(b), e) \/ Due(ClusterErrands, e)
    BY <2>1, <2>2, DueAppended
  <2> HIDE DEF u
  <2>4. QED BY <2>1, <2>2, <2>3
<1> HIDE DEF u, n
<1>5. /\ clusters' \in Seq(Range(clusters'))
      /\ DOMAIN clusters' = DOMAIN clusters \cup {n + k : k \in DOMAIN Forming}
      /\ \A c \in DOMAIN clusters :
            /\ ClusterOk(clusters'[c]) /\ clusters'[c].told = clusters[c].told
            /\ clusters'[c].open <=> clusters[c].open /\ c \notin Finished
      /\ \A k \in DOMAIN Forming : /\ ClusterOk(clusters'[n + k]) /\ n + k \notin DOMAIN clusters
                                   /\ clusters'[n + k].open
  BY <1>3, ClustersAfter DEF n
<1>6. /\ DOMAIN alerts' = DOMAIN alerts
      /\ \A a \in DOMAIN alerts : alerts'[a].open = alerts[a].open /\ alerts'[a].cluster = Home(a)
  <2>1. ASSUME NEW a \in DOMAIN alerts
        PROVE  alerts'[a].open = alerts[a].open /\ alerts'[a].cluster = Home(a)
    <3>1. RowOk(alerts[a])
      BY RowTyped
    <3>2. CASE a \in Loose
      BY <1>1, <3>1, <3>2 DEF RowOk
    <3>3. CASE a \notin Loose
      BY <1>1, <3>3 DEF Home, Joining, Grouped
    <3>4. QED BY <3>2, <3>3
  <2>2. QED BY <1>1, <2>1
<1>7. \A a \in DOMAIN alerts :
         \/ Home(a) = alerts[a].cluster
         \/ /\ alerts[a].open /\ alerts[a].cluster = 0
            /\ \/ Home(a) \in OpenClusters \ Finished
               \/ \E k \in DOMAIN Forming : Home(a) = n + k
  BY <1>3, HomeIs DEF Loose, OpenRows, n
<1>8. /\ Finished \subseteq DOMAIN clusters
      /\ \A a \in OpenRows : alerts[a].cluster \notin Finished
      /\ \A c \in DOMAIN clusters : c # 0
  <2>1. \A a \in OpenRows : alerts[a].cluster \notin Finished
    BY DEF Finished, Members, OpenRows
  <2>2. QED BY <1>3, <2>1, LenProperties DEF Finished, OpenClusters, Groups
<1>9. /\ \A e : ~Owed(e)
      /\ \A e : Owed(e)' <=> Due(u, e)
  BY <1>2, DueNone DEF Owed
<1>10. /\ \A k, i, w : Said(k, i, w) => Said(k, i, w)'
       /\ \A c : Announced(c) => Announced(c)'
  BY <1>1, <1>9 DEF Said, Heard, Announced
<1>11. \A a : Recorded("alert", a)' <=> Recorded("alert", a) \/ (Over # 0 /\ Standalone(Over) /\ a = Over)
  <2> SUFFICES ASSUME NEW a
               PROVE  Due(u, Record("alert", a)) <=> Over # 0 /\ Standalone(Over) /\ a = Over
    BY <1>1, <1>9 DEF Recorded
  <2>1. QED BY <1>4, ErrandsDiffer
<1>12. \A c : Recorded("cluster", c)' <=> Recorded("cluster", c) \/ c \in Finished
  <2> SUFFICES ASSUME NEW c PROVE Due(u, Record("cluster", c)) <=> c \in Finished
    BY <1>1, <1>9 DEF Recorded
  <2>1. QED BY <1>4, ErrandsDiffer
<1>13. /\ \A k \in DOMAIN Forming : Due(u, Announce(n + k))
       /\ \A c \in Finished : clusters[c].told => Due(u, Tell("cluster", c, "resolve"))
       /\ Newly # 0 /\ ~b => Due(u, Tell("alert", Newly, "open"))
       /\ Over # 0 /\ Standalone(Over) => Due(u, Tell("alert", Over, "resolve"))
  BY <1>4
<1>14. Groups'
  <2>1. Ids \subseteq Ids'
    BY <1>5, <1>6 DEF Ids
  <2>2. \A a \in DOMAIN alerts : Home(a) \in {0} \cup DOMAIN clusters'
    BY <1>3, <1>5, <1>7 DEF Groups, OpenClusters
  <2>3. \A c \in DOMAIN clusters' : ClusterOk(clusters'[c])
    BY <1>5
  <2>4. QED BY <1>1, <1>3, <1>5, <1>6, <2>1, <2>2, <2>3 DEF Groups
<1>15. Carried'
  <2>1. ASSUME NEW x, Due(u, x) PROVE ErrandOk(x)'
    <3>1. CASE \E k, i, w : x = Tell(k, i, w)
      BY <3>1 DEF ErrandOk, Tell
    <3>2. CASE x = Record("alert", Over) /\ Over # 0
      <4>1. <<"alert", Over>> \in Ids'
        BY <1>3, <1>6, <3>2 DEF Ids, Carried
      <4>2. QED BY <3>2, <4>1 DEF ErrandOk, Record
    <3>3. CASE \E c \in Finished : x = Record("cluster", c)
      <4>1. PICK c \in Finished : x = Record("cluster", c)
        BY <3>3
      <4>2. <<"cluster", c>> \in Ids'
        BY <1>5, <1>8 DEF Ids
      <4>3. QED BY <4>1, <4>2 DEF ErrandOk, Record
    <3>4. CASE \E k \in DOMAIN Forming : x = Announce(n + k)
      BY <1>5, <3>4 DEF ErrandOk
    <3>5. QED BY <1>4, <2>1, <3>1, <3>2, <3>3, <3>4
  <2>2. (\A k \in DOMAIN hist.errands : ErrandOk(hist.errands[k]))'
    <3> SUFFICES ASSUME NEW k \in DOMAIN hist'.errands PROVE ErrandOk(hist.errands[k])'
      OBVIOUS
    <3>1. Due(u, u[k]) /\ hist'.errands[k] = u[k]
      BY <1>2 DEF Due
    <3>2. QED BY <2>1, <3>1 DEF ErrandOk
  <2>3. QED BY <1>2, <1>4, <2>2 DEF Carried
<1>16. Filed'
  <2>1. \A a \in DOMAIN alerts : Recorded("alert", a)' <=> ~alerts[a].open /\ Home(a) = 0
    <3> SUFFICES ASSUME NEW a \in DOMAIN alerts
                 PROVE  Recorded("alert", a)' <=> ~alerts[a].open /\ Home(a) = 0
      OBVIOUS
    <3>1. Recorded("alert", a) <=> ~alerts[a].open /\ alerts[a].cluster = 0 /\ a # Over
      BY <1>3 DEF Filed
    <3>2. /\ ~alerts[a].open => Home(a) = alerts[a].cluster
          /\ a # 0 /\ (a = Over => ~alerts[a].open)
      <4>1. a # 0
        BY LenProperties DEF IInv, Table
      <4>2. QED BY <1>3, <1>7, <4>1 DEF Carried
    <3>3. Recorded("alert", a)' <=> Recorded("alert", a) \/ (alerts[a].cluster = 0 /\ a = Over)
      BY <1>11, <3>2 DEF Standalone
    <3>4. QED BY <3>1, <3>2, <3>3
  <2>2. \A c \in DOMAIN clusters : Recorded("cluster", c)' <=> ~clusters'[c].open
    BY <1>3, <1>5, <1>12 DEF Filed
  <2>3. ASSUME NEW c, c \notin DOMAIN clusters PROVE ~Recorded("cluster", c)'
    <3>1. <<"cluster", c>> \notin incidents
      BY <1>3, <2>3 DEF Groups, Ids
    <3>2. QED BY <1>8, <1>9, <1>12, <2>3, <3>1 DEF Recorded
  <2>4. \A a \in DOMAIN alerts' : a # 0
    BY <1>6, LenProperties DEF IInv, Table
  <2>5. \A a \in DOMAIN alerts' :
           Recorded("alert", a)' <=> ~alerts'[a].open /\ alerts'[a].cluster = 0 /\ a # Over'
    BY <1>2, <1>6, <2>1, <2>4
  <2>6. ASSUME NEW c \in DOMAIN clusters' PROVE Recorded("cluster", c)' <=> ~clusters'[c].open
    <3>1. CASE c \in DOMAIN clusters
      BY <2>2, <3>1
    <3>2. CASE c \notin DOMAIN clusters
      <4>1. clusters'[c].open
        BY <1>5, <3>2
      <4>2. QED BY <2>3, <3>2, <4>1
    <3>3. QED BY <3>1, <3>2
  <2>7. QED BY <2>5, <2>6 DEF Filed
<1>17. Spoken'
  <2>1. \A c \in Finished : Said("cluster", c, "resolve")'
    <3>1. \A c \in Finished : clusters[c].told
      BY <1>3, <1>8, <1>9 DEF Spoken, Flagged
    <3>2. QED BY <1>9, <1>13, <3>1 DEF Said
  <2>2. ASSUME NEW a \in DOMAIN alerts PROVE OpenSaid(a)'
    <3>1. CASE Home(a) # 0
      BY <1>6, <3>1 DEF OpenSaid
    <3>2. CASE Home(a) = 0 /\ a = Newly
      <4>1. a # 0
        BY LenProperties DEF IInv, Table
      <4>2. ~b
        BY <1>2, <3>2 DEF b, Absorbed
      <4>3. QED BY <1>9, <1>13, <3>2, <4>1, <4>2 DEF OpenSaid, Said
    <3>3. CASE Home(a) = 0 /\ a # Newly
      BY <1>3, <1>7, <1>10, <3>3 DEF Spoken, OpenSaid
    <3>4. QED BY <3>1, <3>2, <3>3
  <2>3. ASSUME NEW a \in DOMAIN alerts PROVE EndSaid(a)'
    <3>1. CASE alerts[a].open \/ Said("alert", a, "resolve")
      BY <1>6, <1>10, <3>1 DEF EndSaid
    <3>2. CASE ~alerts[a].open
      <4>1. Home(a) = alerts[a].cluster
        BY <1>7, <3>2
      <4>2. ASSUME NEW c \in DOMAIN clusters,
                   clusters[c].open \/ Said("cluster", c, "resolve")
            PROVE  clusters'[c].open \/ Said("cluster", c, "resolve")'
        BY <1>5, <1>10, <2>1, <4>2
      <4>3. CASE a = Over /\ alerts[a].cluster = 0
        <5>1. a # 0
          BY LenProperties DEF IInv, Table
        <5>2. QED BY <1>9, <1>13, <4>3, <5>1 DEF EndSaid, Said, Standalone
      <4>4. CASE /\ alerts[a].cluster # 0
                 /\ \/ clusters[alerts[a].cluster].open
                    \/ Said("cluster", alerts[a].cluster, "resolve")
        <5>1. PICK c \in DOMAIN clusters : /\ c = alerts[a].cluster /\ c # 0
                                           /\ clusters[c].open \/ Said("cluster", c, "resolve")
          BY <1>3, <4>4 DEF Groups
        <5>2. clusters'[c].open \/ Said("cluster", c, "resolve")'
          BY <4>2, <5>1
        <5>3. alerts'[a].cluster = c
          BY <1>6, <4>1, <5>1
        <5>4. QED BY <5>1, <5>2, <5>3 DEF EndSaid, Said
      <4>5. CASE a = Over /\ alerts[a].cluster # 0
        <5>1. a # 0
          BY LenProperties DEF IInv, Table
        <5>2. clusters[alerts[a].cluster].open
          BY <1>3, <4>5, <5>1 DEF Carried
        <5>3. QED BY <4>4, <4>5, <5>2
      <4>6. CASE Said("alert", a, "resolve")
        BY <3>1, <4>6
      <4>7. QED BY <1>3, <3>2, <4>3, <4>4, <4>5, <4>6 DEF Spoken, EndSaid
    <3>3. QED BY <3>1, <3>2
  <2>4. \A c \in DOMAIN clusters' : Announced(c)' /\ Flagged(c)'
    <3>1. \A c \in DOMAIN clusters : Announced(c)' /\ Flagged(c)'
      BY <1>3, <1>5, <1>9, <1>10 DEF Spoken, Flagged
    <3>2. \A c : Due(u, Announce(c)) => Announced(c)' /\ Flagged(c)'
      BY <1>9 DEF Announced, Flagged
    <3>3. ASSUME NEW c \in DOMAIN clusters' \ DOMAIN clusters PROVE Due(u, Announce(c))
      <4>1. PICK k \in DOMAIN Forming : c = n + k
        BY <1>5, <3>3
      <4>2. QED BY <1>13, <4>1
    <3>4. QED BY <3>1, <3>2, <3>3
  <2>5. \A a \in OpenRows' : alerts'[a].cluster # 0 => clusters'[alerts'[a].cluster].open
    <3> SUFFICES ASSUME NEW a \in OpenRows, Home(a) # 0 PROVE clusters'[Home(a)].open
      BY <1>6 DEF OpenRows
    <3>1. CASE Home(a) = alerts[a].cluster
      <4>1. clusters[Home(a)].open /\ Home(a) \notin Finished /\ Home(a) \in DOMAIN clusters
        BY <1>3, <1>8, <3>1 DEF Spoken, Groups, OpenRows
      <4>2. QED BY <1>5, <4>1
    <3>2. CASE Home(a) \in OpenClusters \ Finished
      BY <1>5, <3>2 DEF OpenClusters
    <3>3. CASE \E k \in DOMAIN Forming : Home(a) = n + k
      BY <1>5, <3>3
    <3>4. QED BY <1>7, <3>1, <3>2, <3>3 DEF OpenRows
  <2>6. QED BY <1>6, <2>2, <2>3, <2>4, <2>5 DEF Spoken
<1>18. QED BY <1>14, <1>15, <1>16, <1>17 DEF Books

-----------------------------------------------------------------------------
(* Every step but those of a fault                                         *)

LEMMA UnmutedKeeps ==
  ASSUME IInv, NEW a \in DOMAIN alerts
  PROVE  Unmuted(a).open = alerts[a].open /\ Unmuted(a).cluster = alerts[a].cluster
<1> DEFINE r == alerts[a]
           t == IF ~r.open THEN r.state ELSE IF r.acknowledged THEN "acknowledged" ELSE "active"
           w == [r EXCEPT !.mute = "no", !.state = t]
<1>1. Unmuted(a) = w
  BY DEF Unmuted
<1>2. RowOk(r)
  BY RowTyped
<1> HIDE DEF r, t
<1>3. w.open = r.open /\ w.cluster = r.cluster
  BY <1>2 DEF RowOk
<1> HIDE DEF w
<1>4. QED BY <1>1, <1>3 DEF r

LEMMA EditsRows == ASSUME IInv, Edits PROVE SameRows
<1>1. PICK a \in OpenRows : Acknowledge(a) \/ Mute(a) \/ Unmute(a) \/ MuteRunsOut(a)
  BY DEF Edits
<1> DEFINE q == alerts[a]
<1>2. a \in DOMAIN alerts /\ RowOk(q) /\ q.open
  BY RowTyped DEF OpenRows
<1>3. ASSUME NEW r, r.open = q.open, r.cluster = q.cluster, alerts' = [alerts EXCEPT ![a] = r]
      PROVE  SameRows
  BY <1>2, <1>3 DEF SameRows
<1>4. \A p : RowOk(p) =>
         /\ [p EXCEPT !.acknowledged = TRUE, !.state = "acknowledged"].open = p.open
         /\ [p EXCEPT !.acknowledged = TRUE, !.state = "acknowledged"].cluster = p.cluster
         /\ [p EXCEPT !.mute = "later", !.state = "muted"].open = p.open
         /\ [p EXCEPT !.mute = "later", !.state = "muted"].cluster = p.cluster
         /\ [p EXCEPT !.mute = "over"].open = p.open
         /\ [p EXCEPT !.mute = "over"].cluster = p.cluster
  BY DEF RowOk
<1>5. CASE Acknowledge(a)
  <2> DEFINE r == [q EXCEPT !.acknowledged = TRUE, !.state = "acknowledged"]
  <2>1. alerts' = [alerts EXCEPT ![a] = r]
    BY <1>2, <1>5 DEF Acknowledge
  <2>2. r.open = q.open /\ r.cluster = q.cluster
    BY <1>2, <1>4
  <2> HIDE DEF r
  <2>3. QED BY <1>3, <2>1, <2>2
<1>6. CASE Mute(a)
  <2> DEFINE r == [q EXCEPT !.mute = "later", !.state = "muted"]
  <2>1. alerts' = [alerts EXCEPT ![a] = r]
    BY <1>2, <1>6 DEF Mute
  <2>2. r.open = q.open /\ r.cluster = q.cluster
    BY <1>2, <1>4
  <2> HIDE DEF r
  <2>3. QED BY <1>3, <2>1, <2>2
<1>7. CASE Unmute(a)
  <2> DEFINE r == Unmuted(a)
  <2>1. alerts' = [alerts EXCEPT ![a] = r]
    BY <1>7 DEF Unmute
  <2>2. r.open = q.open /\ r.cluster = q.cluster
    BY <1>2, UnmutedKeeps
  <2> HIDE DEF r
  <2>3. QED BY <1>3, <2>1, <2>2
<1>8. CASE MuteRunsOut(a)
  <2> DEFINE r == [q EXCEPT !.mute = "over"]
  <2>1. alerts' = [alerts EXCEPT ![a] = r]
    BY <1>8 DEF MuteRunsOut
  <2>2. r.open = q.open /\ r.cluster = q.cluster
    BY <1>2, <1>4
  <2> HIDE DEF r
  <2>3. QED BY <1>3, <2>1, <2>2
<1>9. QED BY <1>1, <1>5, <1>6, <1>7, <1>8

LEMMA LiftRows == ASSUME IInv, LiftMutes PROVE SameRows
BY UnmutedKeeps DEF LiftMutes, SameRows

LEMMA RefreshedRows == ASSUME IInv, hist.at = "reconcile", Refreshed PROVE SameRows
<1> DEFINE c == hist.row
           t == IF hist.acknowledged THEN "acknowledged" ELSE "active"
           r == [alerts[c] EXCEPT !.mute = "no", !.state = t]
<1>1. c \in DOMAIN alerts /\ RowOk(alerts[c])
  BY RowTyped DEF IInv, RowHeld, Refreshed, OpenOf, OpenRows
<1>2. CASE UNCHANGED alerts
  BY <1>2, RowsKept
<1>3. CASE alerts' = [alerts EXCEPT ![c] = r]
  <2> HIDE DEF t
  <2>1. r.open = alerts[c].open /\ r.cluster = alerts[c].cluster
    BY <1>1 DEF RowOk
  <2> HIDE DEF r
  <2>2. QED BY <1>1, <1>3, <2>1 DEF SameRows
<1>4. QED BY <1>2, <1>3 DEF Refreshed

LEMMA WindowTables == ASSUME IInv, Groups, WindowPasses PROVE SameRows /\ SameClusters
<1>1. \A a \in DOMAIN alerts : alerts'[a] = [alerts[a] EXCEPT !.fresh = FALSE]
  BY DEF WindowPasses
<1>2. \A c \in DOMAIN clusters : clusters'[c] = [clusters[c] EXCEPT !.fresh = FALSE]
  BY DEF WindowPasses
<1>3. DOMAIN alerts' = DOMAIN alerts /\ DOMAIN clusters' = DOMAIN clusters
  BY DEF WindowPasses
<1>4. \A r : RowOk(r) => /\ [r EXCEPT !.fresh = FALSE].open = r.open
                         /\ [r EXCEPT !.fresh = FALSE].cluster = r.cluster
  BY DEF RowOk
<1>5. \A r : ClusterOk(r) => /\ ClusterOk([r EXCEPT !.fresh = FALSE])
                             /\ [r EXCEPT !.fresh = FALSE].open = r.open
                             /\ [r EXCEPT !.fresh = FALSE].told = r.told
  BY DEF ClusterOk
<1>6. SameRows
  BY <1>1, <1>3, <1>4, RowTyped DEF SameRows
<1>7. clusters' \in Seq(Range(clusters'))
  <2>1. Len(clusters) \in Nat /\ DOMAIN clusters = 1..Len(clusters)
    BY LenProperties DEF Groups
  <2>2. clusters' = [c \in 1..Len(clusters) |-> clusters'[c]]
    BY <2>1 DEF WindowPasses
  <2>3. QED BY <2>1, <2>2, IsSeq
<1>8. SameClusters
  BY <1>2, <1>3, <1>5, <1>7 DEF SameClusters, Groups
<1>9. QED BY <1>6, <1>8

LEMMA NextDeviceFree ==
  ASSUME NEW h
  PROVE  /\ NextDevice(h).errands = <<>>
         /\ NextDevice(h).opened = 0 /\ NextDevice(h).resolved = 0
BY DEF NextDevice, Idle

(* The steps of the thread that hand nothing on.                           *)
Plain == Take \/ ReadMarks \/ MendMarks \/ ReadExisting(FALSE) \/ DeviceDone \/ RefreshRead
         \/ RefreshWrite \/ (Reconcile /\ (Refreshed \/ Quiet))
         \/ (Correlate /\ hist.opened = 0 /\ hist.resolved = 0)
         \/ LiftMutes \/ (Restart /\ hist.at = "idle")

LEMMA PlainThread == ASSUME IInv, Carried, Plain PROVE SameThread
<1>1. Shape(hist)
  BY DEF IInv, Placed
<1>2. Idle.errands = <<>> /\ Idle.opened = 0 /\ Idle.resolved = 0
  BY DEF Idle
<1>3. CASE Take
  <2>1. hist'.errands = <<>> /\ hist'.opened = 0 /\ hist'.resolved = 0
    BY <1>3 DEF Take, Idle
  <2>2. QED BY <1>3, <2>1, ThreadFree DEF Take, Carried
<1>4. CASE ReadMarks
  <2>1. PICK w, m, e, n :
          hist' = [hist EXCEPT !.at = "mend", !.window = w, !.maintained = m, !.expected = e,
                               !.mend = n]
    BY <1>4 DEF ReadMarks
  <2>2. /\ hist'.errands = hist.errands /\ hist'.opened = hist.opened
        /\ hist'.resolved = hist.resolved
    BY <1>1, <2>1 DEF Shape
  <2>3. QED BY <1>4, <2>2, ThreadFree DEF ReadMarks, Carried
<1>5. CASE MendMarks \/ (Reconcile /\ (Refreshed \/ Quiet))
  <2>1. /\ hist'.errands = hist.errands /\ hist'.opened = hist.opened
        /\ hist'.resolved = hist.resolved
    BY <1>1, <1>5 DEF Shape, MendMarks, Refreshed, Quiet
  <2>2. QED BY <1>5, <2>1, ThreadFree DEF MendMarks, Reconcile, Carried
<1>6. CASE ReadExisting(FALSE)
  <2>1. CASE \E t : hist' = [hist EXCEPT !.at = t]
    BY <1>1, <1>6, <2>1, ThreadFree DEF ReadExisting, Carried, Shape
  <2>2. CASE \E a, m, k : hist' = [hist EXCEPT !.at = "reconcile", !.row = a, !.muteOver = m,
                                               !.acknowledged = k]
    <3>1. /\ hist'.errands = hist.errands /\ hist'.opened = hist.opened
          /\ hist'.resolved = hist.resolved
      BY <1>1, <2>2 DEF Shape
    <3>2. QED BY <1>6, <3>1, ThreadFree DEF ReadExisting, Carried
  <2>3. CASE hist.maintained \/ OpenOf(Here) = {}
    BY <1>6, <2>1, <2>3 DEF ReadExisting
  <2>4. CASE ~hist.maintained /\ OpenOf(Here) # {}
    <3> DEFINE a == Min(OpenOf(Here))
               m == MuteOver(a)
               k == alerts[a].acknowledged
    <3>1. hist' = [hist EXCEPT !.at = "reconcile", !.row = a, !.muteOver = m, !.acknowledged = k]
      BY <1>6, <2>4 DEF ReadExisting
    <3> HIDE DEF a, m, k
    <3>2. QED BY <2>2, <3>1
  <2>5. QED BY <2>3, <2>4
<1>7. CASE DeviceDone \/ (Correlate /\ hist.opened = 0 /\ hist.resolved = 0)
  <2>1. hist' = NextDevice(hist) /\ hist.errands = <<>>
    BY <1>7 DEF DeviceDone, Correlate, Carried
  <2>2. hist.at # "correlate" \/ (hist.opened = 0 /\ hist.resolved = 0)
    BY <1>7 DEF DeviceDone
  <2>3. QED BY <2>1, <2>2, NextDeviceFree, ThreadFree
<1>8. CASE RefreshRead \/ LiftMutes
  <2> SUFFICES hist'.errands = hist.errands /\ hist'.at \in {"refresh", "show"}
    BY <1>8, ThreadFree DEF RefreshRead, LiftMutes, Carried
  <2>1. CASE RefreshRead
    <3> DEFINE q == Readable
    <3>1. hist' = [hist EXCEPT !.at = "show", !.rows = q]
      BY <2>1 DEF RefreshRead
    <3> HIDE DEF q
    <3>2. QED BY <1>1, <3>1 DEF Shape
  <2>2. CASE LiftMutes
    BY <1>1, <2>2 DEF LiftMutes, Shape
  <2>3. QED BY <1>8, <2>1, <2>2
<1>9. CASE RefreshWrite \/ (Restart /\ hist.at = "idle")
  <2>1. hist' = Idle /\ hist.at # "correlate" /\ hist.errands = <<>>
    BY <1>9 DEF RefreshWrite, Restart, Carried
  <2>2. QED BY <1>2, <2>1, ThreadFree
<1>10. QED BY <1>3, <1>4, <1>5, <1>6, <1>7, <1>8, <1>9 DEF Plain

LEMMA PlainTables ==
  ASSUME IInv, Plain
  PROVE  SameRows /\ UNCHANGED <<told, incidents, clusters>>
<1>1. UNCHANGED <<told, incidents, clusters>>
  BY DEF Plain, Take, ReadMarks, MendMarks, ReadExisting, DeviceDone, RefreshRead, RefreshWrite,
         Reconcile, Correlate, LiftMutes, Restart, table
<1>2. CASE Reconcile /\ Refreshed
  BY <1>1, <1>2, RefreshedRows DEF Reconcile
<1>3. CASE LiftMutes
  BY <1>1, <1>3, LiftRows
<1>4. CASE ~LiftMutes /\ ~(Reconcile /\ Refreshed)
  <2>1. UNCHANGED alerts
    BY <1>4 DEF Plain, Take, ReadMarks, MendMarks, ReadExisting, DeviceDone, RefreshRead,
                RefreshWrite, Reconcile, Quiet, Correlate, Restart, table
  <2>2. QED BY <1>1, <2>1, RowsKept
<1>5. QED BY <1>1, <1>2, <1>3, <1>4

LEMMA PlainBooks == ASSUME IInv, Books, Plain PROVE Books'
<1>1. SameRows /\ UNCHANGED <<told, incidents, clusters>> /\ SameThread
  BY PlainTables, PlainThread DEF Books
<1>2. SameClusters
  BY <1>1, ClustersKept DEF Books
<1>3. QED BY <1>1, <1>2, Unnoticed

(* What everybody else does, and time.                                     *)
LEMMA BesideBooks ==
  ASSUME IInv, Books, UNCHANGED <<told, incidents, hist>>,
         \/ UNCHANGED <<alerts, clusters>>
         \/ Edits /\ UNCHANGED clusters
         \/ WindowPasses
  PROVE  Books'
<1>1. SameThread
  BY ThreadKept DEF Books
<1>2. SameRows /\ SameClusters
  BY RowsKept, ClustersKept, EditsRows, WindowTables DEF Books
<1>3. QED BY <1>1, <1>2, Unnoticed

(* Nothing that was hurt is whole again.                                   *)
LEMMA StepHurts ==
  ASSUME Next, ~hurt'
  PROVE  /\ ~hurt
         /\ \/ /\ UNCHANGED <<told, incidents, hist>>
               /\ UNCHANGED <<alerts, clusters>> \/ (Edits /\ UNCHANGED clusters) \/ WindowPasses
            \/ Plain
            \/ Reconcile /\ (Opened \/ Resolved)
            \/ Correlate /\ (hist.opened # 0 \/ hist.resolved # 0)
            \/ Errand
<1> DEFINE Beside == /\ UNCHANGED <<told, incidents, hist>>
                     /\ \/ UNCHANGED <<alerts, clusters>>
                        \/ Edits /\ UNCHANGED clusters
                        \/ WindowPasses
           Goes == Plain \/ (Reconcile /\ (Opened \/ Resolved)) \/ Errand
                   \/ (Correlate /\ (hist.opened # 0 \/ hist.resolved # 0))
<1>1. ASSUME \/ \E d \in Devices : Turn(d)
             \/ Submit \/ OtherRead \/ OtherWrite \/ OtherStatement
      PROVE  ~hurt /\ Beside
  BY <1>1 DEF Turn, Submit, OtherRead, OtherWrite, OtherStatement, table
<1>2. ASSUME Marks PROVE ~hurt /\ Beside
  BY <1>2 DEF Marks, SetMaintenance, Power, PowerEnds, ClearMaintenance, ClearExpected,
              WindowRunsOut, MarkRunsOut, others
<1>3. ASSUME Edits PROVE ~hurt /\ Beside
  <2>1. UNCHANGED <<told, incidents, hist, clusters, hurt>>
    BY <1>3 DEF Edits, Acknowledge, Mute, Unmute, MuteRunsOut, others
  <2>2. QED BY <1>3, <2>1
<1>4. ASSUME WindowPasses PROVE ~hurt /\ Beside
  BY <1>4 DEF WindowPasses
<1>5. ASSUME Reconcile PROVE ~hurt /\ Goes
  <2>1. ~hurt /\ (Refreshed \/ Quiet \/ Opened \/ Resolved)
    BY <1>5 DEF Reconcile, Refreshed, Opened, InsertFails, Resolved, Quiet
  <2>2. QED BY <1>5, <2>1 DEF Plain
<1>6. ASSUME Correlate PROVE ~hurt /\ Goes
  BY <1>6 DEF Correlate, Plain
<1>7. ASSUME \/ Take \/ ReadMarks \/ MendMarks \/ ReadExisting(FALSE) \/ DeviceDone
             \/ RefreshRead \/ RefreshWrite \/ LiftMutes
      PROVE  ~hurt /\ Goes
  BY <1>7 DEF Take, ReadMarks, MendMarks, ReadExisting, DeviceDone, RefreshRead, RefreshWrite,
              LiftMutes, Plain
<1>8. ASSUME Errand PROVE ~hurt /\ Goes
  BY <1>8 DEF Errand
<1>9. ASSUME Restart PROVE ~hurt /\ Goes
  BY <1>9 DEF Restart, Plain
<1>10. ~Faults
  BY DEF Faults, ReadExisting, CorrelateFails, Abandon
<1> HIDE DEF Beside, Goes
<1>11. ~hurt /\ (Beside \/ Goes)
  BY <1>1, <1>2, <1>3, <1>4, <1>5, <1>6, <1>7, <1>8, <1>9, <1>10 DEF Next, HistoryStep
<1>12. QED BY <1>11 DEF Beside, Goes

LEMMA StepBooks == ASSUME IInv, ~hurt => Books, [Next]_vars PROVE (~hurt => Books)'
<1> SUFFICES ASSUME ~hurt' PROVE Books'
  OBVIOUS
<1>1. CASE UNCHANGED vars
  <2>1. UNCHANGED <<told, incidents, hist, alerts, clusters, hurt>>
    BY <1>1 DEF vars, table
  <2>2. QED BY <2>1, BesideBooks
<1>2. CASE Next
  <2>1. Books
    BY <1>2, StepHurts
  <2>2. CASE Reconcile /\ (Opened \/ Resolved)
    BY <2>1, <2>2, OpenedBooks, ResolvedBooks DEF Reconcile
  <2>3. QED BY <1>2, <2>1, <2>2, StepHurts, BesideBooks, PlainBooks, CorrelateBooks, ErrandBooks
<1>3. QED BY <1>1, <1>2

LEMMA InitBooks == AlertsInit => Books
<1> SUFFICES ASSUME AlertsInit PROVE Books
  OBVIOUS
<1>1. /\ alerts = <<>> /\ clusters = <<>> /\ incidents = {} /\ told = {} /\ hist.at = "idle"
      /\ hist.errands = <<>>
  BY DEF AlertsInit, Idle
<1>2. DOMAIN alerts = {} /\ DOMAIN clusters = {} /\ DOMAIN hist.errands = {}
  BY <1>1
<1>3. Newly = 0 /\ Over = 0
  BY <1>1 DEF Newly, Over
<1>4. <<>> \in Seq(Range(<<>>))
  BY EmptySeq
<1>5. QED BY <1>1, <1>2, <1>3, <1>4 DEF Books, Groups, Carried, Filed, Spoken, OpenRows

LEMMA BooksHold == AlertsSpec => [](IInv /\ (~hurt => Books))
<1>1. AlertsInit => IInv /\ (~hurt => Books)
  BY InitInv, InitBooks
<1>2. (IInv /\ (~hurt => Books)) /\ [Next]_vars => (IInv /\ (~hurt => Books))'
  BY NextInv, StepBooks
<1>3. QED BY <1>1, <1>2, PTL DEF AlertsSpec

(* Between two snapshots nothing is owed.                                  *)
LEMMA SettledBooks ==
  ASSUME Books, Settled
  PROVE  /\ \A k, i, w : Said(k, i, w) <=> Heard(k, i, w)
         /\ \A k, i : Recorded(k, i) <=> <<k, i>> \in incidents
         /\ \A c \in DOMAIN clusters : Heard("cluster", c, "open")
         /\ Newly = 0 /\ Over = 0
<1>1. hist.errands = <<>> /\ Newly = 0 /\ Over = 0
  BY DEF Settled, Books, Carried, Newly, Over
<1>2. \A e : ~Owed(e)
  BY <1>1, DueNone DEF Owed
<1>3. QED BY <1>1, <1>2 DEF Said, Recorded, Books, Spoken, Announced

(* "An alert that belongs to a cluster is only ever represented by that    *)
(* cluster's incident, never both": however many alerts and clusters there *)
(* have been, when a snapshot is done the incidents are the alerts that    *)
(* are over and stood alone, and the clusters that are over, each once.    *)
THEOREM Incidents == AlertsSpec => []OneIncident
<1>1. IInv /\ (~hurt => Books) => OneIncident
  <2> SUFFICES ASSUME IInv, Books, Settled PROVE OneIncident
    BY DEF OneIncident, Settled
  <2>1. \A a \in DOMAIN alerts : a # 0
    BY LenProperties DEF IInv, Table
  <2>2. QED BY <2>1, SettledBooks DEF Books, Filed, OneIncident
<1>2. QED BY <1>1, BooksHold, PTL

(* "Clustering only changes how alerts are notified": every open and every *)
(* resolve has been told, by the alert or by its cluster, and no cluster   *)
(* with an open alert is over.                                             *)
THEOREM NothingMissed == AlertsSpec => []NothingUnsaid
<1>1. IInv /\ (~hurt => Books) => NothingUnsaid
  <2> SUFFICES ASSUME IInv, Books, Settled PROVE NothingUnsaid
    BY DEF NothingUnsaid, Settled
  <2>1. \A a \in DOMAIN alerts : a # 0
    BY LenProperties DEF IInv, Table
  <2>2. ASSUME NEW a \in DOMAIN alerts, NEW c, c = alerts[a].cluster
        PROVE  /\ Heard("alert", a, "open") \/ (c # 0 /\ Heard("cluster", c, "open"))
               /\ alerts[a].open \/ Heard("alert", a, "resolve")
                  \/ (c # 0 /\ (clusters[c].open \/ Heard("cluster", c, "resolve")))
    <3>1. OpenSaid(a) /\ EndSaid(a) /\ c \in {0} \cup DOMAIN clusters
      BY <2>2 DEF Books, Groups, Spoken
    <3>2. Heard("alert", a, "open") \/ (c # 0 /\ Heard("cluster", c, "open"))
      BY <2>1, <2>2, <3>1, SettledBooks DEF OpenSaid
    <3>3. \/ alerts[a].open \/ Heard("alert", a, "resolve")
          \/ (c # 0 /\ (clusters[c].open \/ Heard("cluster", c, "resolve")))
      BY <2>1, <2>2, <3>1, SettledBooks DEF EndSaid
    <3>4. QED BY <3>2, <3>3
  <2>3. \A a \in OpenRows : alerts[a].cluster # 0 => clusters[alerts[a].cluster].open
    BY DEF Books, Spoken
  <2>4. QED BY <2>2, <2>3 DEF NothingUnsaid
<1>2. QED BY <1>1, BooksHold, PTL
=============================================================================
