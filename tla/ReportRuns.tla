----------------------------- MODULE ReportRuns -----------------------------
(***************************************************************************)
(* ReportService in pinoc/reports.py, for one report: its tick thread and  *)
(* the request threads of run_now() all go through generate(), which       *)
(* archives an edition, delivers it and prunes old ones, statement by      *)
(* statement.  A statement or the delivery fails, PiNOC ends and starts    *)
(* again, at any point.                                                    *)
(***************************************************************************)
EXTENDS Naturals, FiniteSets, Sequences

CONSTANTS Runners,     (* request threads that run the report now            *)
          Retention,   (* edition_retention                                  *)
          MaxClock     (* bound: readings of the clock                       *)

ASSUME ReportRunsAssumption == Retention \in Nat \ {0} /\ MaxClock \in Nat /\ "tick" \notin Runners

VARIABLES clock,     (* every reading is later than the one before           *)
          nextRun,   (* next_run: "unknown", "due" or "later"                *)
          editions,  (* rows of report_editions                              *)
          archived,  (* ghost: every edition ever inserted                   *)
          run,       (* thread -> where it is in generate()                  *)
          clean      (* ghost: no statement has failed, PiNOC has not ended  *)

reportVars == <<clock, nextRun, editions, archived, run, clean>>

Everyone == Runners \cup {"tick"}
AtRest   == [at |-> "rest", now |-> 0, stale |-> {}]

ReportsInit == /\ clock = 0 /\ nextRun = "unknown" /\ editions = {} /\ archived = {}
               /\ run = [r \in Everyone |-> AtRest] /\ clean = TRUE

(* The edition of a run, by its generated_at: when the run began.          *)
Goes(r, where) == run' = [run EXCEPT ![r].at = where]

-----------------------------------------------------------------------------
(* _ensure_next_run(): the first sight of a report only plans it.          *)
Plans == /\ run["tick"].at = "rest" /\ nextRun = "unknown"
         /\ nextRun' = "later"
         /\ UNCHANGED <<clock, editions, archived, run, clean>>

FallsDue == /\ nextRun = "later" /\ nextRun' = "due"
            /\ UNCHANGED <<clock, editions, archived, run, clean>>

(* _maybe_fire(), or run_now() by an operator: now is read, then the       *)
(* sections are built.                                                     *)
Begins(r) == /\ run[r].at = "rest" /\ clock < MaxClock
             /\ r = "tick" => nextRun = "due"
             /\ clock' = clock + 1
             /\ run' = [run EXCEPT ![r] = [AtRest EXCEPT !.at = "building", !.now = clock + 1]]
             /\ UNCHANGED <<nextRun, editions, archived, clean>>

Archives(r) == /\ run[r].at = "building" /\ Goes(r, "delivering")
               /\ editions' = editions \cup {[now |-> run[r].now, delivered |-> FALSE]}
               /\ archived' = archived \cup {run[r].now}
               /\ UNCHANGED <<clock, nextRun, clean>>

(* _deliver() never raises; its outcome goes into the row, if it is there. *)
Delivers(r, ok) == /\ run[r].at = "delivering" /\ Goes(r, "delivered")
                   /\ editions' = {IF e.now = run[r].now THEN [e EXCEPT !.delivered = ok] ELSE e :
                                       e \in editions}
                   /\ UNCHANGED <<clock, nextRun, archived, clean>>

(* Mutation of Surplus: the slice begins one row early.                    *)
SurplusFromLast(es) == {e.now : e \in {x \in es : Cardinality({y \in es : y.now > x.now}) >= Retention - 1}}
(* _prune(): rows[retention:], the newest first.                           *)
Surplus(es) == {e.now : e \in {x \in es : Cardinality({y \in es : y.now > x.now}) >= Retention}}

Lists(r) == /\ run[r].at = "delivered"
            /\ run' = [run EXCEPT ![r].at = "pruning", ![r].stale = Surplus(editions)]
            /\ UNCHANGED <<clock, nextRun, editions, archived, clean>>

(* The oldest row last.                                                    *)
Deletes(r) == /\ run[r].at = "pruning"
              /\ \E n \in run[r].stale :
                     /\ \A m \in run[r].stale : m <= n
                     /\ editions' = {e \in editions : e.now # n}
                     /\ run' = [run EXCEPT ![r].stale = @ \ {n}]
              /\ UNCHANGED <<clock, nextRun, archived, clean>>

Pruned(r) == /\ run[r].at = "pruning" /\ run[r].stale = {}
             /\ IF r = "tick" THEN Goes(r, "ending") ELSE run' = [run EXCEPT ![r] = AtRest]
             /\ UNCHANGED <<clock, nextRun, editions, archived, clean>>

(* A statement raises: a request answers with the error; the tick goes on  *)
(* to its finally.                                                         *)
Fails(r) == /\ run[r].at \in {"building", "delivering", "delivered", "pruning"}
            /\ IF r = "tick" THEN Goes(r, "ending") ELSE run' = [run EXCEPT ![r] = AtRest]
            /\ clean' = FALSE
            /\ UNCHANGED <<clock, nextRun, editions, archived>>

(* The finally of _maybe_fire(): the next run is after this one's time,    *)
(* unless the UPDATE fails too.                                            *)
Reschedules == /\ run["tick"].at = "ending"
               /\ \/ nextRun' = "later" /\ UNCHANGED clean
                  \/ UNCHANGED nextRun /\ clean' = FALSE
               /\ run' = [run EXCEPT !["tick"] = AtRest]
               /\ UNCHANGED <<clock, editions, archived>>

ReportsEnd == /\ run' = [r \in Everyone |-> AtRest] /\ run' # run /\ clean' = FALSE
        /\ UNCHANGED <<clock, nextRun, editions, archived>>

ReportsNext == \/ Plans \/ FallsDue \/ Reschedules \/ ReportsEnd
               \/ \E r \in Everyone : \/ Begins(r) \/ Archives(r) \/ Lists(r) \/ Deletes(r)
                                      \/ Pruned(r) \/ Fails(r)
                                      \/ \E ok \in BOOLEAN : Delivers(r, ok)

ReportsTypeOK == /\ clock \in 0..MaxClock /\ nextRun \in {"unknown", "due", "later"}
                 /\ \A e \in editions : e.now \in archived /\ e.delivered \in BOOLEAN
                 /\ archived \subseteq 1..clock
                 /\ \A r \in Everyone : run[r].stale \subseteq archived

(* However the runs of a report race, fail or are cut off, the newest      *)
(* editions that were ever archived are there, as many as are to be kept;  *)
(* and when nothing has failed and nobody is at work no older one is left. *)
EditionsKept ==
    /\ \A n \in archived :
           Cardinality({m \in archived : m > n}) < Retention => \E e \in editions : e.now = n
    /\ (clean /\ \A r \in Everyone : run[r].at \in {"rest", "building", "ending"})
           => Cardinality(editions) <= Retention
=============================================================================
