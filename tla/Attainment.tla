----------------------------- MODULE Attainment -----------------------------
(***************************************************************************)
(* The samples of one device's health, taken by the history thread and     *)
(* aged out by its maintenance, and what pinoc/slo.py makes of them: the   *)
(* good and bad seconds of a window that ends now, and whether an error    *)
(* budget burns too fast in a fast and in a slow window.                   *)
(***************************************************************************)
EXTENDS Integers, FiniteSets, FiniteSetsExt

CONSTANTS SampleEvery, (* intervals["health"]                                *)
          SamplesKept, (* sample_retention_days                              *)
          Cap,         (* cap_seconds                                        *)
          Fast, Slow,  (* the two windows of the burn rate                   *)
          MaxTime      (* bound: the clock                                   *)

ASSUME AttainmentAssumption ==
    {SampleEvery, SamplesKept, Cap, Fast, Slow, MaxTime} \subseteq Nat

VARIABLES time,
          samples,     (* health_samples: time -> health, or "none"          *)
          sampled      (* last_sample of the history thread, or -1           *)

attainmentVars == <<time, samples, sampled>>

Bad      == {"offline"}
Verdicts == Bad \cup {"healthy", "maintenance"}

AttainmentInit == /\ time = 0 /\ samples = [t \in 0..MaxTime |-> "none"] /\ sampled = -1

(* _due() and _sample(): the time is noted before the INSERT, which fails  *)
(* or finds the row there.                                                 *)
Samples(health) ==
    /\ sampled = -1 \/ time - sampled >= SampleEvery
    /\ sampled' = time
    /\ \/ UNCHANGED samples
       \/ samples[time] = "none" /\ samples' = [samples EXCEPT ![time] = health]
    /\ UNCHANGED time

TimeGoesOn == /\ time < MaxTime /\ time' = time + 1 /\ UNCHANGED <<samples, sampled>>

(* maintenance(), and the start of another process.                        *)
AgesOut == /\ samples' = [t \in DOMAIN samples |->
                             IF t < time - SamplesKept THEN "none" ELSE samples[t]]
           /\ samples' # samples
           /\ UNCHANGED <<time, sampled>>

HistoryRestarts == sampled # -1 /\ sampled' = -1 /\ UNCHANGED <<time, samples>>

AttainmentNext == \/ \E h \in Verdicts : Samples(h)
                  \/ TimeGoesOn \/ AgesOut \/ HistoryRestarts

AttainmentTypeOK == /\ time \in 0..MaxTime
                    /\ samples \in [0..MaxTime -> Verdicts \cup {"none"}]
                    /\ sampled \in -1..time

-----------------------------------------------------------------------------
(* compute_attainment(): the rows in the window and the one before it.     *)
Taken(from, to) == {t \in from..to : samples[t] # "none"}
Sampled(start)  == Taken(start, time)
                   \cup {t \in Taken(0, start - 1) : Taken(t + 1, start - 1) = {}}

(* Mutation of Begun: the carried-over row counts from its own time.       *)
BegunAtSample(t, start) == t
Begun(t, start) == IF t < start THEN start ELSE t

(* _device_seconds(): a row holds to the next one, or to the end, and for  *)
(* no longer than the cap.                                                 *)
Held(t, start) ==
    LET ends == {n \in Sampled(start) : n > t} \cup {time}
        left == Min(ends) - Begun(t, start)
    IN IF left <= 0 THEN 0 ELSE Min({left, Cap})

(* What the rows hold, in all: a pair of a row and a number per second.    *)
Seconds(healths, start) ==
    Cardinality({p \in Sampled(start) \X (1..Cap) :
                     samples[p[1]] \in healths /\ p[2] <= Held(p[1], start)})

(* burn_rate() of evaluate_one(): the share of bad seconds is at least the *)
(* threshold of the window, here half of the fast and a third of the slow  *)
(* one; a window without data burns nothing.  The rounding of the share to *)
(* four decimals of a percent is left out.                                 *)
Burns(w, bad, good) == bad + good > 0 /\ (IF w = Fast THEN 2 ELSE 3) * bad >= bad + good

Started(window) == IF window > time THEN 0 ELSE time - window
Firing == \A w \in {Fast, Slow} :
              Burns(w, Seconds(Bad, Started(w)), Seconds({"healthy"}, Started(w)))

-----------------------------------------------------------------------------
(* What each second of the window was: the last sample up to it.           *)
LastUpTo(s)     == {t \in Taken(0, s) : Taken(t + 1, s) = {}}
TrueSeconds(healths, start) ==
    Cardinality({s \in start..(time - 1) : \E t \in LastUpTo(s) : samples[t] \in healths})
NoGap == \A s \in 0..(time - 1) : \A t \in LastUpTo(s) : s - t < Cap

(* As long as samples come in time every second of a window is counted     *)
(* exactly once, as good or as bad by the last sample before it, wherever  *)
(* the window begins and whatever was aged out, seconds of maintenance not *)
(* at all; and the alert fires exactly when both windows say so.  No gap   *)
(* is ever credited with more than the cap.                                *)
AttainmentExact ==
    /\ NoGap => /\ \A start \in 0..time : \A h \in {Bad, {"healthy"}} :
                       Seconds(h, start) = TrueSeconds(h, start)
                /\ Firing <=> \A w \in {Fast, Slow} :
                       Burns(w, TrueSeconds(Bad, Started(w)), TrueSeconds({"healthy"}, Started(w)))
    /\ \A start \in 0..time : \A t \in Sampled(start) : Held(t, start) <= Cap
=============================================================================
