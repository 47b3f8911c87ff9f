------------------------------ MODULE Baselines ------------------------------
(***************************************************************************)
(* pinoc/anomalies.py, as the history calls it: one metric of one device,  *)
(* its global baseline and those of the hours of the day, and the anomaly  *)
(* alert.  A baseline learns at once here, that is at the largest alpha    *)
(* the tracker takes, so that its numbers stay integers: the mean is the   *)
(* last sample it took and the variance the square of the last step.       *)
(* Times are in hours, and a z-score is given doubled.                     *)
(***************************************************************************)
EXTENDS Integers

CONSTANTS Levels,      (* values of the metric, all positive                 *)
          Hours,       (* hours of a day                                     *)
          MinSamples,  (* min_samples                                        *)
          ZOpen, ZHold, Outlier,  (* z_open, z_hysteresis, outlier_limit     *)
          MaxAge,      (* max_baseline_age_seconds                           *)
          MaxShifts    (* bound: changes of the metric's level               *)

ASSUME BaselinesAssumption == /\ Levels \subseteq Nat \ {0} /\ Hours \in Nat \ {0}
                              /\ MinSamples \in Nat \ {0} /\ MaxAge \in Nat /\ MaxShifts \in Nat
                              /\ {ZOpen, ZHold, Outlier} \subseteq Nat

VARIABLES level,     (* what the metric is at                                *)
          shifts,
          hour,
          baseline,  (* metric_baselines: of every hour, and of Always       *)
          flagged,   (* the last sample was an anomaly                       *)
          recorded,  (* an anomaly alert of the metric is in alerts          *)
          mode       (* hourly_seasonality and alerting                      *)

baselineVars == <<level, shifts, hour, baseline, flagged, recorded, mode>>

Always  == -1
NoBaseline == [mean |-> 0, var |-> 0, samples |-> 0, age |-> 0]

BaselinesInit ==
    /\ level \in Levels /\ shifts = 0 /\ hour = 0
    /\ baseline = [h \in {Always} \cup 0..Hours - 1 |-> NoBaseline]
    /\ flagged = FALSE /\ recorded = FALSE
    /\ mode \in [hourly : BOOLEAN, alerting : BOOLEAN]

-----------------------------------------------------------------------------
(* _reference(): the hour's own baseline once it has samples enough.       *)
Reference == IF mode.hourly /\ baseline[hour].samples >= MinSamples
             THEN baseline[hour] ELSE baseline[Always]
Stale == Reference.age > MaxAge

(* |z| >= z / 2, the deviation being one hundredth of the mean at least.   *)
Deviates(b, z) == LET step == level - b.mean IN
                  /\ 4 * step * step >= z * z * b.var
                  /\ 40000 * step * step >= z * z * b.mean * b.mean

(* history._alerts(): the metrics of the device's anomaly alerts, of which *)
(* those that are resolved are not left out.                               *)
Threshold == IF recorded THEN ZHold ELSE ZOpen

IsAnomaly == /\ Reference.samples >= MinSamples /\ ~Stale
             /\ Deviates(Reference, Threshold)

(* _update(): the sample is taken in, and counted.                         *)
Learnt(b) == [mean |-> level, age |-> 0,
              var |-> IF b.samples = 0 THEN 0 ELSE (level - b.mean) * (level - b.mean),
              samples |-> IF b.samples < MinSamples THEN b.samples + 1 ELSE MinSamples]

(* Mutation of Rejects: outliers are kept out of the hours' baselines too. *)
RejectsAnywhere(h) == baseline[h].samples > 0 /\ ~Stale /\ Deviates(baseline[h], Outlier)
Rejects(h) == /\ h = Always /\ baseline[h].samples > 0 /\ ~Stale
              /\ Deviates(baseline[h], Outlier)

Updated == [h \in DOMAIN baseline |->
               IF h # Always /\ ~(mode.hourly /\ h = hour) THEN baseline[h]
               ELSE IF Rejects(h) THEN [baseline[h] EXCEPT !.age = 0]
               ELSE Learnt(baseline[h])]

(* A sample: an alert is opened, held or resolved, or the deviation only   *)
(* recorded as a preview; then the baselines are updated.                  *)
ObservesSample == /\ flagged' = IsAnomaly /\ baseline' = Updated
                  /\ recorded' = (recorded \/ (mode.alerting /\ IsAnomaly))
                  /\ UNCHANGED <<level, shifts, hour, mode>>

(* A poll that found the device offline resolves what was open.            *)
ObservesNothing == /\ flagged' = FALSE
                   /\ UNCHANGED <<level, shifts, hour, baseline, recorded, mode>>

LevelShifts == /\ shifts < MaxShifts /\ shifts' = shifts + 1
               /\ level' \in Levels \ {level}
               /\ UNCHANGED <<hour, baseline, flagged, recorded, mode>>

(* An hour passes, with no sample at all when the device is away.          *)
HourTurns ==
    /\ hour' = (hour + 1) % Hours
    /\ baseline' = [h \in DOMAIN baseline |->
                       [baseline[h] EXCEPT !.age = IF @ > MaxAge \/ baseline[h].samples = 0
                                                   THEN @ ELSE @ + 1]]
    /\ UNCHANGED <<level, shifts, flagged, recorded, mode>>

BaselinesNext == ObservesSample \/ ObservesNothing \/ LevelShifts \/ HourTurns

BaselinesSpec == /\ BaselinesInit /\ [][BaselinesNext]_baselineVars
                 /\ WF_baselineVars(ObservesSample)

BaselinesTypeOK ==
    /\ level \in Levels /\ hour \in 0..Hours - 1
    /\ \A h \in DOMAIN baseline : /\ baseline[h].samples \in 0..MinSamples
                                  /\ baseline[h].age \in 0..MaxAge + 1

(* A level that stays is not reported as an anomaly for ever, whatever     *)
(* spikes, shifts and gaps came before: the hours' baselines learn it,     *)
(* though the global one keeps out what is far from it.                    *)
NewLevelLearnt == mode.hourly => <>[]~flagged

(* "z_open": "open when |z| is at least this" (README): only a deviation   *)
(* of z_open begins an anomaly; less of it only holds one that is open.    *)
OpensAtZOpen == [][~flagged /\ flagged' => Deviates(Reference, ZOpen)]_baselineVars
=============================================================================
