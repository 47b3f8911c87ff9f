--------------------------- MODULE AlertLifecycle ---------------------------
(***************************************************************************)
(* The promise of the alerts table (pinoc/history.py): a condition, named  *)
(* by its fingerprint, has at most one open alert, which opens, is muted   *)
(* or acknowledged and resolves; when the condition comes back it opens a  *)
(* new alert.  Alerts implements this module; Remediation relies on it.    *)
(***************************************************************************)
CONSTANT Fingerprints

VARIABLE alert     (* what the open alert of a condition shows, "none" without one *)

Shown == {"active", "acknowledged", "muted"}

LifecycleInit == alert = [f \in Fingerprints |-> "none"]

Open(f) == /\ alert[f] = "none"
           /\ alert' = [alert EXCEPT ![f] = "active"]

(* Several at once when the mutes that are over are lifted.                *)
Show == /\ alert' \in [Fingerprints -> Shown \cup {"none"}]
        /\ \A f \in Fingerprints : alert'[f] = "none" <=> alert[f] = "none"

Resolve(f) == /\ alert[f] \in Shown
              /\ alert' = [alert EXCEPT ![f] = "none"]

LifecycleNext == \E f \in Fingerprints : \/ Open(f)
                                         \/ Resolve(f)

LifecycleSpec == LifecycleInit /\ [][LifecycleNext \/ Show]_alert
=============================================================================
