----------------------------- MODULE EnvStates ------------------------------
(***************************************************************************)
(* pinoc/envstates.py: the eight states of health that projects, applica-  *)
(* tions and their members share, the criticality policy and the roll-up.  *)
(***************************************************************************)
EXTENDS Naturals, Sequences, Functions

HealthStates == <<"healthy", "maintenance", "unknown", "stale",
                  "warning", "degraded", "offline", "critical">>
Healths == Range(HealthStates)
Criticalities == {"low", "standard", "high", "critical"}

Rank(h) == CHOOSE k \in DOMAIN HealthStates : HealthStates[k] = h

Worst(S) == IF S = {} THEN "unknown" ELSE CHOOSE h \in S : \A g \in S : Rank(g) <= Rank(h)

(* How a member's state counts in a container of that criticality.         *)
Escalate(h, criticality) ==
    CASE criticality = "critical" /\ h \in {"stale", "degraded"} -> "critical"
      [] criticality = "critical" /\ h = "warning"               -> "degraded"
      [] criticality = "high" /\ h \in {"stale", "warning"}      -> "degraded"
      [] criticality = "standard" /\ h = "stale"                 -> "warning"
      [] OTHER                                                   -> h

(* Planned downtime counts neither for nor against.                        *)
Rollup(members, criticality) ==
    LET counted == {Escalate(h, criticality) : h \in members \ {"maintenance"}}
    IN IF counted = {} THEN "healthy" ELSE Worst(counted)

(* What a last success of that age implies; without one nothing is known.  *)
FreshState(known, age, floor) == IF ~known THEN "unknown"
                                 ELSE IF age >= floor THEN "stale" ELSE "healthy"
=============================================================================
