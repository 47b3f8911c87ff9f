------------------------------- MODULE Alerts --------------------------------
(***************************************************************************)
(* The alert pipeline: pinoc/history.py writes alerts device by device in  *)
(* its one thread, correlation.py groups them into clusters, incidents.py  *)
(* records what is over, notifications.py is told, and state.py shows what *)
(* is open.  Beside the thread: the operational marks of a device, written *)
(* by actions.py, operators that acknowledge and mute, and the refreshes   *)
(* of the cache by self_monitoring.py and slo.py.  Every device has one    *)
(* condition, being offline, and one hint for the correlation.             *)
(***************************************************************************)
EXTENDS Integers, SequencesExt

CONSTANTS Roster,      (* the devices, in the order of a snapshot               *)
          Hint,        (* what a device shares with others                      *)
          Marked,      (* the devices that operators mark                       *)
          Budgets      (* bounds: how often what disturbs a behaviour happens   *)

ASSUME AlertsAssumption == /\ Roster \in Seq(Range(Roster)) /\ Len(Roster) > 0
                           /\ Marked \subseteq Range(Roster)

Devices == Range(Roster)

VARIABLES up,        (* the devices that answer                                *)
          snapshots, (* HistoryManager.queue                                   *)
          previous,  (* HistoryManager.previous: the last seen state           *)
          available, (* Database.available                                     *)
          mark,      (* device_operational_state                               *)
          powering,  (* devices whose reboot or shutdown command is running    *)
          window,    (* an operator's maintenance window stands                *)
          alerts,    (* the table, a sequence of rows                          *)
          clusters,  (* alert_clusters                                         *)
          incidents, (* {<<kind, source_id>>}                                  *)
          hist,      (* the history thread                                     *)
          told,      (* what NotificationService.enqueue() was called with     *)
          shown,     (* the open alerts in the state cache                     *)
          refresher, (* another thread in _refresh_cache()                     *)
          hurt,      (* a fault or a crash has happened                        *)
          spare

table     == <<alerts, clusters, incidents>>
sources   == <<up, snapshots, window, powering, refresher>>
vars == <<up, snapshots, previous, available, mark, powering, window, table, hist, told,
          shown, refresher, hurt, spare>>

NoMark   == [until |-> "none", named |-> FALSE, why |-> "none", whyUntil |-> "none"]
(* `row` is the open alert the thread has read, 0 without one; `errands`   *)
(* what is left to tell and to record; `rows` the alerts read to be shown. *)
Idle     == [at |-> "idle", i |-> 0, seen |-> {}, maintained |-> FALSE, expected |-> FALSE,
             mend |-> "none", window |-> FALSE, row |-> 0, muteOver |-> FALSE,
             acknowledged |-> FALSE, opened |-> 0, resolved |-> 0, errands |-> <<>>,
             rows |-> {}]
NoReader == [at |-> "idle", rows |-> {}]

AlertsInit == /\ up = Devices
              /\ snapshots = <<>>
              /\ previous = [d \in Devices |-> "unknown"]
              /\ available = TRUE
              /\ mark = [d \in Devices |-> NoMark]
              /\ powering = {}
              /\ window = [d \in Devices |-> FALSE]
              /\ alerts = <<>> /\ clusters = <<>> /\ incidents = {}
              /\ hist = Idle
              /\ told = {}
              /\ shown = {} /\ refresher = NoReader
              /\ hurt = FALSE
              /\ spare \in Budgets

OpenRows       == {a \in DOMAIN alerts : alerts[a].open}
OpenOf(d)      == {a \in OpenRows : alerts[a].device = d}
Members(c)     == {a \in DOMAIN alerts : alerts[a].cluster = c}
OpenClusters   == {c \in DOMAIN clusters : clusters[c].open}
Here           == Roster[hist.i]
Spend(what)    == /\ spare[what] > 0
                  /\ spare' = [spare EXCEPT ![what] = @ - 1]

-----------------------------------------------------------------------------
(* The fleet, and submit(): a snapshot that does not fit is dropped.       *)
Turn(d) == /\ Spend("turns")
           /\ up' = IF d \in up THEN up \ {d} ELSE up \cup {d}
           /\ UNCHANGED <<snapshots, previous, available, mark, powering, window, table, hist, told,
                          shown, refresher, hurt>>

Submit == /\ available /\ snapshots = <<>>
          /\ snapshots' = <<up>>
          /\ UNCHANGED <<up, previous, available, mark, powering, window, table, hist, told,
                         shown, refresher, hurt, spare>>

Take == /\ hist.at = "idle" /\ snapshots # <<>>
        /\ hist' = [Idle EXCEPT !.at = "marks", !.i = 1, !.seen = Head(snapshots)]
        /\ snapshots' = <<>>
        /\ UNCHANGED <<up, previous, available, mark, powering, window, table, told, shown,
                       refresher, hurt, spare>>

(* _device(): the marks of the device are read; the UPDATE of those that   *)
(* are over, or of a reboot that is, follows.  A database that has failed  *)
(* reads as empty until the first write, the device's own row.             *)
Maintained(m) == m.until = "later" \/ (m.until = "none" /\ (m.why = "maintenance" \/ m.named))
MarkOver(m)   == m.whyUntil = "past" /\ m.until # "later"

ReadMarks ==
    /\ hist.at = "marks"
    /\ LET m == IF available THEN mark[Here] ELSE NoMark
           returned == previous[Here] = "down" /\ Here \in hist.seen
       IN hist' = [hist EXCEPT
                     !.at = "mend", !.window = window[Here],
                     !.maintained = Maintained(m),
                     !.expected = m.until # "past" /\ m.why # "none" /\ ~MarkOver(m),
                     !.mend = IF m.until = "past" THEN "all"
                              ELSE IF MarkOver(m) \/ (returned /\ m.why = "reboot") THEN "mark"
                              ELSE "none"]
    /\ available' = TRUE
    /\ UNCHANGED <<up, snapshots, previous, mark, powering, window, table, told, shown,
                   refresher, hurt, spare>>

Unmarked(m) == [m EXCEPT !.why = "none", !.whyUntil = "none"]

MendMarks ==
    /\ hist.at = "mend"
    /\ mark' = [mark EXCEPT ![Here] = CASE hist.mend = "all"  -> NoMark
                                        [] hist.mend = "mark" -> Unmarked(@)
                                        [] OTHER              -> @]
    /\ hist' = [hist EXCEPT !.at = "alerts"]
    /\ UNCHANGED <<up, snapshots, previous, available, powering, window, table, told, shown,
                   refresher, hurt, spare>>
(* _alerts(): under maintenance nothing opens and nothing resolves.        *)
(* Otherwise the open alert is read, which may come back empty.            *)
MuteOver(a) == alerts[a].state = "muted" /\ alerts[a].mute # "later"

ReadExisting(lost) ==
    /\ hist.at = "alerts"
    /\ IF hist.maintained
       THEN /\ ~lost
            /\ hist' = [hist EXCEPT !.at = "correlate"]
       ELSE LET open == IF lost THEN {} ELSE OpenOf(Here)
            IN hist' = IF open = {} THEN [hist EXCEPT !.at = "reconcile"]
                       ELSE LET a == Min(open)
                            IN [hist EXCEPT !.at = "reconcile", !.row = a,
                                            !.muteOver = MuteOver(a),
                                            !.acknowledged = alerts[a].acknowledged]
    /\ IF lost THEN Spend("faults") /\ hurt' = TRUE ELSE UNCHANGED <<spare, hurt>>
    /\ UNCHANGED <<sources, previous, available, mark, table, told, shown>>

NextDevice(h) == [Idle EXCEPT !.at = IF h.i < Len(Roster) THEN "marks" ELSE "refresh",
                              !.i = IF h.i < Len(Roster) THEN h.i + 1 ELSE 0,
                              !.seen = IF h.i < Len(Roster) THEN h.seen ELSE {}]

NewAlert(d) == [device |-> d, open |-> TRUE, state |-> "active", acknowledged |-> FALSE,
                mute |-> "no", cluster |-> 0, fresh |-> TRUE]

(* The index alerts_one_open.  Mutation: none.                             *)
NoIndex(d) == TRUE
Insertable(d) == OpenOf(d) = {}

Down == Here \notin hist.seen /\ ~hist.expected

(* _reconcile(): one UPDATE or INSERT, from the row that was read.         *)
Refreshed == /\ Down /\ hist.row # 0
             /\ alerts' = IF hist.muteOver
                          THEN [alerts EXCEPT ![hist.row] = [@ EXCEPT !.mute = "no", !.state =
                                    IF hist.acknowledged THEN "acknowledged" ELSE "active"]]
                          ELSE alerts
             /\ hist' = [hist EXCEPT !.at = "correlate"]
             /\ UNCHANGED <<available, hurt>>

Opened == /\ Down /\ hist.row = 0 /\ Insertable(Here)
          /\ alerts' = Append(alerts, NewAlert(Here))
          /\ hist' = [hist EXCEPT !.at = "correlate", !.opened = Len(alerts) + 1]
          /\ UNCHANGED <<available, hurt>>

InsertFails == /\ Down /\ hist.row = 0 /\ ~Insertable(Here)
               /\ hist' = NextDevice(hist)
               /\ available' = FALSE /\ hurt' = TRUE
               /\ UNCHANGED alerts

Resolved == /\ ~Down /\ hist.row # 0
            /\ alerts' = [alerts EXCEPT ![hist.row] = [@ EXCEPT !.open = FALSE, !.state = "resolved"]]
            /\ hist' = [hist EXCEPT !.at = "correlate", !.resolved = hist.row]
            /\ UNCHANGED <<available, hurt>>

Quiet == /\ ~Down /\ hist.row = 0
         /\ hist' = [hist EXCEPT !.at = "correlate"]
         /\ UNCHANGED <<alerts, available, hurt>>

Reconcile == /\ hist.at = "reconcile"
             /\ Refreshed \/ Opened \/ InsertFails \/ Resolved \/ Quiet
             /\ UNCHANGED <<sources, previous, mark, clusters, incidents, told, shown, spare>>

-----------------------------------------------------------------------------
(* correlation.py, reconcile(): clusters without open alerts are over; an  *)
(* alert without a cluster joins the first open one of its hint, if that   *)
(* has been seen lately; enough fresh alerts of one hint form a new one.   *)
Finished   == {c \in OpenClusters : Members(c) \cap OpenRows = {}}
Candidates(h) == {c \in OpenClusters \ Finished : clusters[c].hint = h}
HintOf(a)  == Hint[alerts[a].device]
Loose      == {a \in OpenRows : alerts[a].cluster = 0 /\ HintOf(a) # "none"}
Joins(a)   == /\ Candidates(HintOf(a)) # {}
              /\ clusters[Min(Candidates(HintOf(a)))].fresh
Joining    == {a \in Loose : Joins(a)}
Grouped(h) == {a \in Loose \ Joining : HintOf(a) = h /\ alerts[a].fresh}
Forming    == SetToSeq({h \in Range(Hint) :
                           Cardinality({alerts[a].device : a \in Grouped(h)}) >= 2})
Home(a)    == IF a \in Joining THEN Min(Candidates(HintOf(a)))
              ELSE IF \E k \in DOMAIN Forming : a \in Grouped(Forming[k])
              THEN Len(clusters) + CHOOSE k \in DOMAIN Forming : a \in Grouped(Forming[k])
              ELSE alerts[a].cluster

(* A cluster that opens is announced and, by an UPDATE of its own, flagged.*)
Tell(kind, id, what) == [do |-> "tell", on |-> <<kind, id, what>>]
Announce(c)          == [do |-> "announce", on |-> <<"cluster", c, "open">>]
Flag(c)              == [do |-> "flag", on |-> <<"cluster", c>>]
Record(kind, id)     == [do |-> "record", on |-> <<kind, id>>]

(* Mutation of Absorbed: a member of any cluster is not told alone.        *)
AbsorbedAll(a) == TRUE
Absorbed(a) == Home(a) # 0

(* Mutation of Standalone: every alert gets an incident of its own.        *)
StandaloneAlways(a) == TRUE
Standalone(a) == alerts[a].cluster = 0

(* _correlate(): who is told what, and what becomes an incident.           *)
AlertErrands(absorbed) ==
    (IF hist.opened # 0 /\ ~absorbed THEN <<Tell("alert", hist.opened, "open")>> ELSE <<>>) \o
    (IF hist.resolved = 0 \/ ~Standalone(hist.resolved) THEN <<>>
     ELSE <<Tell("alert", hist.resolved, "resolve"), Record("alert", hist.resolved)>>)

ClusterErrands ==
    LET over == SetToSeq(Finished)
        missed == SetToSeq({c \in Finished : clusters[c].told})
    IN [k \in DOMAIN missed |-> Tell("cluster", missed[k], "resolve")] \o
       [k \in DOMAIN Forming |-> Announce(Len(clusters) + k)] \o
       [k \in DOMAIN over |-> Record("cluster", over[k])]

Correlate ==
    /\ hist.at = "correlate"
    /\ IF hist.opened = 0 /\ hist.resolved = 0
       THEN /\ hist' = NextDevice(hist)
            /\ UNCHANGED <<alerts, clusters>>
       ELSE /\ hist' = [hist EXCEPT !.at = "errands", !.errands =
                           AlertErrands(hist.opened # 0 /\ Absorbed(hist.opened)) \o ClusterErrands]
            /\ alerts' = [a \in DOMAIN alerts |->
                             IF a \in Loose THEN [alerts[a] EXCEPT !.cluster = Home(a)] ELSE alerts[a]]
            /\ clusters' = [c \in DOMAIN clusters |->
                               [clusters[c] EXCEPT !.open = @ /\ c \notin Finished,
                                                   !.fresh = @ \/ \E a \in Joining : Home(a) = c]]
                           \o [k \in DOMAIN Forming |-> [hint |-> Forming[k], open |-> TRUE,
                                                          fresh |-> TRUE, told |-> FALSE]]
    /\ previous' = [previous EXCEPT ![Here] = IF Here \in hist.seen THEN "up" ELSE "down"]
    /\ UNCHANGED <<sources, available, mark, incidents, told, shown, hurt, spare>>

(* It fails: what it had closed stays closed, every alert is told alone.   *)
CorrelateFails ==
    /\ hist.at = "correlate" /\ hist.opened + hist.resolved > 0
    /\ Spend("faults") /\ hurt' = TRUE
    /\ hist' = [hist EXCEPT !.at = "errands", !.errands =
                   (IF hist.opened = 0 THEN <<>> ELSE <<Tell("alert", hist.opened, "open")>>) \o
                   (IF hist.resolved = 0 THEN <<>>
                    ELSE <<Tell("alert", hist.resolved, "resolve")>> \o
                         (IF Standalone(hist.resolved) THEN <<Record("alert", hist.resolved)>>
                          ELSE <<>>))]
    /\ \E closed \in SUBSET Finished :
          clusters' = [c \in DOMAIN clusters |-> [clusters[c] EXCEPT !.open = @ /\ c \notin closed]]
    /\ previous' = [previous EXCEPT ![Here] = IF Here \in hist.seen THEN "up" ELSE "down"]
    /\ UNCHANGED <<sources, available, mark, alerts, incidents, told, shown>>

Errand ==
    /\ hist.at = "errands" /\ hist.errands # <<>>
    /\ LET e == Head(hist.errands)
       IN /\ told' = IF e.do \in {"tell", "announce"} THEN told \cup {e.on} ELSE told
          /\ incidents' = IF e.do = "record" THEN incidents \cup {e.on} ELSE incidents
          /\ clusters' = IF e.do = "flag" THEN [clusters EXCEPT ![e.on[2]].told = TRUE] ELSE clusters
          /\ hist' = [hist EXCEPT !.errands = (IF e.do = "announce" THEN <<Flag(e.on[2])>> ELSE <<>>)
                                              \o Tail(@)]
    /\ UNCHANGED <<sources, previous, available, mark, alerts, shown, hurt, spare>>

DeviceDone == /\ hist.at = "errands" /\ hist.errands = <<>>
              /\ hist' = NextDevice(hist)
              /\ UNCHANGED <<sources, previous, available, mark, table, told, shown, hurt, spare>>

(* A failing statement abandons the device, the next one goes on.          *)
Abandon == /\ hist.at \in {"mend", "alerts", "reconcile", "correlate", "errands"}
           /\ Spend("faults") /\ hurt' = TRUE
           /\ available' = FALSE
           /\ hist' = NextDevice(hist)
           /\ UNCHANGED <<sources, previous, mark, table, told, shown>>

-----------------------------------------------------------------------------
(* _refresh_cache(): the open alerts are read, then attached to the cache. *)
Readable == IF available THEN OpenRows ELSE {}

RefreshRead == /\ hist.at = "refresh"
               /\ hist' = [hist EXCEPT !.at = "show", !.rows = Readable]
               /\ UNCHANGED <<sources, previous, available, mark, table, told, shown, hurt, spare>>

(* Mutation of Displayed: an empty list is not shown.                      *)
DisplayedIfAny(rows) == IF rows = {} THEN shown ELSE rows
Displayed(rows) == rows

RefreshWrite == /\ hist.at = "show"
                /\ shown' = Displayed(hist.rows)
                /\ hist' = Idle
                /\ UNCHANGED <<sources, previous, available, mark, table, told, hurt, spare>>

OtherRead == /\ refresher.at = "idle" /\ Spend("others")
             /\ refresher' = [at |-> "show", rows |-> Readable]
             /\ UNCHANGED <<up, snapshots, previous, available, mark, powering, window, table, hist,
                            told, shown, hurt>>

OtherWrite == /\ refresher.at = "show"
              /\ shown' = Displayed(refresher.rows)
              /\ refresher' = NoReader
              /\ UNCHANGED <<up, snapshots, previous, available, mark, powering, window, table, hist,
                             told, hurt, spare>>

(* A write of another component succeeds, after which reads work again.    *)
OtherStatement == /\ ~available
                  /\ available' = TRUE
                  /\ UNCHANGED <<up, snapshots, previous, mark, powering, window, table, hist, told,
                                 shown, refresher, hurt, spare>>

(* maintenance(), between two snapshots: mutes that are over are lifted.   *)
Unmuted(a) == [alerts[a] EXCEPT !.mute = "no", !.state =
                  IF ~alerts[a].open THEN @
                  ELSE IF alerts[a].acknowledged THEN "acknowledged" ELSE "active"]

LiftMutes == /\ hist.at = "idle"
             /\ LET over == {a \in OpenRows : alerts[a].state = "muted" /\ alerts[a].mute = "over"}
                IN /\ over # {}
                   /\ alerts' = [a \in DOMAIN alerts |-> IF a \in over THEN Unmuted(a) ELSE alerts[a]]
             /\ hist' = [hist EXCEPT !.at = "refresh"]
             /\ UNCHANGED <<sources, previous, available, mark, clusters, incidents, told, shown,
                            hurt, spare>>

-----------------------------------------------------------------------------
(* Operators, each request one UPDATE; and time.                           *)
others == <<up, snapshots, previous, available, clusters, incidents, hist, told, shown,
            refresher, hurt>>

Acknowledge(a) == /\ Spend("edits")
                  /\ alerts' = [alerts EXCEPT ![a] = [@ EXCEPT !.acknowledged = TRUE, !.state =
                                   IF alerts[a].open THEN "acknowledged" ELSE @]]
                  /\ UNCHANGED <<others, mark, powering, window>>

Mute(a) == /\ Spend("edits")
           /\ alerts' = [alerts EXCEPT ![a] = [@ EXCEPT !.mute = "later", !.state =
                            IF alerts[a].open THEN "muted" ELSE @]]
           /\ UNCHANGED <<others, mark, powering, window>>

Unmute(a) == /\ Spend("edits")
             /\ alerts' = [alerts EXCEPT ![a] = Unmuted(a)]
             /\ UNCHANGED <<others, mark, powering, window>>

MuteRunsOut(a) == /\ alerts[a].mute = "later"
                  /\ alerts' = [alerts EXCEPT ![a].mute = "over"]
                  /\ UNCHANGED <<others, mark, powering, window, spare>>

(* The correlation window passes: what is there now is no longer recent.   *)
WindowPasses == /\ hist.at = "idle"
                /\ \E r \in Range(alerts) \cup Range(clusters) : r.open /\ r.fresh
                /\ alerts' = [a \in DOMAIN alerts |-> [alerts[a] EXCEPT !.fresh = FALSE]]
                /\ clusters' = [c \in DOMAIN clusters |-> [clusters[c] EXCEPT !.fresh = FALSE]]
                /\ UNCHANGED <<sources, previous, available, mark, incidents, hist, told, shown, hurt,
                               spare>>

SetMaintenance(d, until, named) ==
    /\ Spend("marks")
    /\ mark' = [mark EXCEPT ![d] = [until |-> until, named |-> named, why |-> "maintenance",
                                    whyUntil |-> until]]
    /\ window' = [window EXCEPT ![d] = TRUE]
    /\ UNCHANGED <<others, alerts, powering>>

ClearMaintenance(d) == /\ mark[d] # NoMark
                       /\ mark' = [mark EXCEPT ![d] = NoMark]
                       /\ window' = [window EXCEPT ![d] = FALSE]
                       /\ UNCHANGED <<others, alerts, powering, spare>>

(* _power(): the mark is set before the command, removed when it fails.    *)
Power(d, why) == /\ Spend("marks") /\ d \notin powering
                 /\ mark' = [mark EXCEPT ![d].why = why, ![d].whyUntil =
                                IF why = "reboot" THEN "later" ELSE "none"]
                 /\ powering' = powering \cup {d}
                 /\ UNCHANGED <<others, alerts, window>>

PowerEnds(d, fails) == /\ d \in powering
                       /\ mark' = IF fails THEN [mark EXCEPT ![d] = Unmarked(@)] ELSE mark
                       /\ powering' = powering \ {d}
                       /\ UNCHANGED <<others, alerts, window, spare>>

(* The endpoint that takes an expected-offline mark back.                  *)
ClearExpected(d) == /\ mark[d].why # "none"
                    /\ mark' = [mark EXCEPT ![d] = Unmarked(@)]
                    /\ window' = [window EXCEPT ![d] = @ /\ mark[d].why # "maintenance"]
                    /\ UNCHANGED <<others, alerts, powering, spare>>

WindowRunsOut(d) == /\ mark[d].until = "later"
                    /\ mark' = [mark EXCEPT ![d].until = "past", ![d].whyUntil =
                                   IF mark[d].why = "maintenance" THEN "past" ELSE @]
                    /\ window' = [window EXCEPT ![d] = FALSE]
                    /\ UNCHANGED <<others, alerts, powering, spare>>

MarkRunsOut(d) == /\ mark[d].why = "reboot" /\ mark[d].whyUntil = "later"
                  /\ mark' = [mark EXCEPT ![d].whyUntil = "past"]
                  /\ UNCHANGED <<others, alerts, powering, window, spare>>

-----------------------------------------------------------------------------
(* The process may end at any point; its tables stay.                       *)
Restart == /\ Spend("restarts")
           /\ hist' = Idle /\ refresher' = NoReader
           /\ snapshots' = <<>> /\ previous' = [d \in Devices |-> "unknown"]
           /\ available' = TRUE
           /\ powering' = {} /\ shown' = {}
           /\ hurt' = (hurt \/ hist.at # "idle")
           /\ UNCHANGED <<up, mark, window, table, told>>

HistoryStep == \/ Take \/ ReadMarks \/ MendMarks \/ ReadExisting(FALSE) \/ Reconcile \/ Correlate
               \/ Errand \/ DeviceDone \/ RefreshRead \/ RefreshWrite
Faults      == ReadExisting(TRUE) \/ CorrelateFails \/ Abandon
Edits       == \E a \in OpenRows : \/ Acknowledge(a) \/ Mute(a) \/ Unmute(a)
                                   \/ MuteRunsOut(a)
Marks       == \E d \in Marked :
                  \/ \E until \in {"none", "later"}, named \in BOOLEAN : SetMaintenance(d, until, named)
                  \/ \E why \in {"reboot", "shutdown"} : Power(d, why)
                  \/ \E fails \in BOOLEAN : PowerEnds(d, fails)
                  \/ ClearMaintenance(d) \/ ClearExpected(d) \/ WindowRunsOut(d) \/ MarkRunsOut(d)

Next == \/ \E d \in Devices : Turn(d)
        \/ Submit \/ HistoryStep \/ LiftMutes \/ Faults \/ OtherRead \/ OtherWrite
        \/ OtherStatement \/ Edits \/ Marks \/ WindowPasses
        \/ Restart

AlertsSpec == AlertsInit /\ [][Next]_vars

(* The collectors go on submitting, the threads go on, an UPDATE is one step. *)
FairSpec == AlertsSpec /\ WF_vars(Submit) /\ WF_vars(HistoryStep) /\ WF_vars(OtherWrite)

-----------------------------------------------------------------------------
(* What an operator sees of the condition of a device.                     *)
StateOf(d) == IF OpenOf(d) = {} THEN "none"
              ELSE IF \E a, b \in OpenOf(d) : a # b THEN "twice"
              ELSE alerts[Min(OpenOf(d))].state

(* "A stable fingerprint updates an existing unresolved occurrence rather  *)
(* than opening one per poll": whatever fails or restarts, and whatever    *)
(* stale row the thread writes from, the table implements AlertLifecycle.  *)
Life == INSTANCE AlertLifecycle WITH Fingerprints <- Devices,
                                     alert <- [d \in Devices |-> StateOf(d)]
OneOpenAlert == Life!LifecycleSpec

Settled == hist.at = "idle" /\ ~hurt
Heard(kind, id, what) == <<kind, id, what>> \in told

(* "An alert that belongs to a cluster is only ever represented by that    *)
(* cluster's incident, never both": once a snapshot is done, what is over  *)
(* has its one incident, and nothing else has.                             *)
OneIncident ==
    Settled => /\ \A a \in DOMAIN alerts :
                     <<"alert", a>> \in incidents <=> ~alerts[a].open /\ alerts[a].cluster = 0
               /\ \A c \in DOMAIN clusters : <<"cluster", c>> \in incidents <=> ~clusters[c].open

(* "Clustering only changes how alerts are notified": no open or resolve   *)
(* is kept from the told, it gets the alert's own or its cluster's; and *)
(* no cluster that is over still has an open alert.                        *)
NothingUnsaid ==
    Settled => /\ \A a \in DOMAIN alerts :
                     LET c == alerts[a].cluster
                     IN /\ Heard("alert", a, "open") \/ (c # 0 /\ Heard("cluster", c, "open"))
                        /\ alerts[a].open \/ Heard("alert", a, "resolve")
                           \/ (c # 0 /\ (clusters[c].open \/ Heard("cluster", c, "resolve")))
               /\ \A a \in OpenRows : alerts[a].cluster # 0 => clusters[alerts[a].cluster].open

(* The dashboard does not stay behind: however another thread's older list *)
(* and a failed database get in between, the cache shows the open alerts   *)
(* again and again, unless nobody writes to the database after it has      *)
(* failed, for submit() does not.                                          *)
ShownAgain == []<>(shown = OpenRows \/ ~available)
=============================================================================
