------------------------------ MODULE Overseers ------------------------------
(***************************************************************************)
(* The threads that open and resolve alerts about PiNOC itself and about   *)
(* error budgets: pinoc/self_monitoring.py and the same code in            *)
(* pinoc/slo.py.  Each tick gathers its signals and writes the difference  *)
(* to the open alerts row by row, over a database that may fail at any     *)
(* statement: a read that fails returns nothing, a write raises.  What is  *)
(* enqueued for the notifier is in Notifier.tla.                           *)
(***************************************************************************)
EXTENDS Naturals

CONSTANTS Overseers,    (* the two services                                  *)
          Owns,         (* overseer -> the signals it watches                *)
          FromTables,   (* signals that are read from the database           *)
          MaxRestarts   (* bound: restarts of PiNOC                          *)

ASSUME OverseersAssumption ==
    /\ MaxRestarts \in Nat
    /\ \A o, p \in Overseers : o # p => Owns[o] \cap Owns[p] = {}

VARIABLES raised,    (* signals beyond their threshold                       *)
          broken,    (* statements fail                                      *)
          available, (* Database.available                                   *)
          opened,    (* alerts that are not resolved                         *)
          shown,     (* the alerts of PiNOCState                             *)
          tick,      (* overseer -> where its tick is                        *)
          restarts

overseerVars == <<raised, broken, available, opened, shown, tick, restarts>>

Signals == UNION {Owns[o] : o \in Overseers}
Between == [at |-> "between", active |-> {}, existing |-> {}, todo |-> {}, stale |-> {}, read |-> {}]

OverseersInit == /\ raised = {} /\ opened = {} /\ shown = {}
                 /\ broken = FALSE /\ available = TRUE
                 /\ tick = [o \in Overseers |-> Between] /\ restarts = 0

outside == <<raised, broken, restarts>>

(* Database.rows(): nothing while unavailable or when the read fails.      *)
Reading(table) == IF available /\ ~broken THEN table ELSE {}

-----------------------------------------------------------------------------
(* What happens to the signals, to the database and to its flag: a failed  *)
(* write of the history thread clears it, any thread's write sets it.      *)
SignalMoves(s) == /\ raised' \in {raised \cup {s}, raised \ {s}} \ {raised}
                  /\ UNCHANGED <<broken, available, opened, shown, tick, restarts>>

DatabaseTurns == broken' = ~broken /\ UNCHANGED <<raised, available, opened, shown, tick, restarts>>

HistoryWrites == /\ available' = ~broken /\ available' # available
                 /\ UNCHANGED <<outside, opened, shown, tick>>

PiNOCRestarts == /\ restarts < MaxRestarts /\ restarts' = restarts + 1
                 /\ available' = ~broken /\ shown' = {}
                 /\ tick' = [o \in Overseers |-> Between]
                 /\ UNCHANGED <<raised, broken, opened>>

-----------------------------------------------------------------------------
(* snapshot() or evaluate_one(): a table that cannot be read raises none.  *)
Observes(o) ==
    /\ tick[o].at = "between"
    /\ LET active == (raised \cap (Owns[o] \ FromTables))
                     \cup Reading(raised \cap Owns[o] \cap FromTables)
       IN tick' = [tick EXCEPT ![o] = [Between EXCEPT !.at = "observed", !.active = active]]
    /\ UNCHANGED <<outside, available, opened, shown>>

(* Mutation of StaleAlerts: what is no longer raised stays open.           *)
StaleAlertsLeft(existing, active) == {}
StaleAlerts(existing, active) == existing \ active

(* tick() goes on to _apply() only with a database that is available.      *)
Compares(o) ==
    /\ tick[o].at = "observed"
    /\ LET existing == Reading(opened \cap Owns[o])
           active   == tick[o].active
       IN tick' = [tick EXCEPT ![o] =
              IF available THEN [@ EXCEPT !.at = "writing", !.existing = existing, !.todo = active,
                                          !.stale = StaleAlerts(existing, active)]
              ELSE Between]
    /\ UNCHANGED <<outside, available, opened, shown>>

(* The UPDATE or the INSERT of one active signal; the index alerts_one_open *)
(* refuses a second open row of it, which ends the tick.                   *)
WritesAlert(o, s) ==
    /\ tick[o].at = "writing" /\ s \in tick[o].todo
    /\ ~broken /\ (s \in opened => s \in tick[o].existing)
    /\ opened' = IF s \in tick[o].existing THEN opened ELSE opened \cup {s}
    /\ available' = TRUE
    /\ tick' = [tick EXCEPT ![o].todo = @ \ {s}]
    /\ UNCHANGED <<outside, shown>>

Settles(o, s) ==
    /\ tick[o].at = "writing" /\ tick[o].todo = {} /\ s \in tick[o].stale /\ ~broken
    /\ opened' = opened \ {s} /\ available' = TRUE
    /\ tick' = [tick EXCEPT ![o].stale = @ \ {s}]
    /\ UNCHANGED <<outside, shown>>

Breaks(o) == /\ tick[o].at = "writing"
             /\ \/ broken /\ tick[o].todo \cup tick[o].stale # {}
                \/ \E s \in tick[o].todo : s \in opened \ tick[o].existing
             /\ tick' = [tick EXCEPT ![o] = Between]
             /\ UNCHANGED <<outside, available, opened, shown>>

(* set_alerts(): all open alerts are read, then put in the cache.          *)
Lookup(o) == /\ tick[o].at = "writing" /\ tick[o].todo = {} /\ tick[o].stale = {}
             /\ tick' = [tick EXCEPT ![o] = [Between EXCEPT !.at = "showing", !.read = Reading(opened)]]
             /\ UNCHANGED <<outside, available, opened, shown>>

SetsAlerts(o) == /\ tick[o].at = "showing"
                 /\ shown' = tick[o].read
                 /\ tick' = [tick EXCEPT ![o] = Between]
                 /\ UNCHANGED <<outside, available, opened>>

TickStep(o) == \/ Observes(o) \/ Compares(o) \/ Breaks(o) \/ Lookup(o) \/ SetsAlerts(o)
               \/ \E s \in Owns[o] : WritesAlert(o, s) \/ Settles(o, s)

OverseersNext == \/ \E s \in Signals : SignalMoves(s)
                 \/ DatabaseTurns \/ HistoryWrites \/ PiNOCRestarts
                 \/ \E o \in Overseers : TickStep(o)

OverseersTypeOK == /\ raised \cup opened \cup shown \subseteq Signals
                   /\ broken \in BOOLEAN /\ available \in BOOLEAN /\ restarts \in 0..MaxRestarts
                   /\ \A o \in Overseers :
                        /\ tick[o].at \in {"between", "observed", "writing", "showing"}
                        /\ tick[o].active \cup tick[o].existing \subseteq Owns[o]

(* A signal that stays beyond its threshold, or below it, is in the end an *)
(* open alert that everybody sees, or none, although earlier ticks failed  *)
(* between any two statements, read empty tables, met the row of an alert  *)
(* they had not seen, or were cut off by a restart.  The database has to   *)
(* work, and to be flagged so, from some time on.                          *)
AlertsFollowSignals ==
    <>[](~broken /\ available) =>
        \A s \in Signals : /\ <>[](s \in raised) => <>[](s \in opened /\ s \in shown)
                           /\ <>[](s \notin raised) => <>[](s \notin opened /\ s \notin shown)
=============================================================================
