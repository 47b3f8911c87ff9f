------------------------------ MODULE MCRollout -----------------------------
(* Instances of Rollout for TLC.                                           *)
EXTENDS Rollout

(* The first device as a canary, named beside one that is not selected or  *)
(* counted; one after the other; both at once.                             *)
Request(canary, count, size, respects) ==
    [canary |-> canary, count |-> count, size |-> size, respects |-> respects]
FourRequests == {Request({1, 7}, 0, 0, FALSE), Request({}, 1, 2, TRUE), Request({7}, 0, 1, FALSE),
                 Request({}, 0, 0, FALSE)}

(* An update of each device, and one more and a reboot of the first; the   *)
(* second is never rebooted, as any enqueue() may be refused.              *)
Jobs == {[device |-> 1, action |-> "apt.upgrade", try |-> 1],
         [device |-> 1, action |-> "apt.upgrade", try |-> 2],
         [device |-> 2, action |-> "apt.upgrade", try |-> 1],
         [device |-> 1, action |-> "device.reboot", try |-> 1]}

Observed(online, critical, maintenance) ==
    [online |-> online, critical |-> critical, maintenance |-> maintenance]

(* Healthy in its maintenance window, offline, or critical.                *)
Seen == {Observed(TRUE, FALSE, TRUE), Observed(FALSE, FALSE, FALSE), Observed(TRUE, TRUE, FALSE)}
=============================================================================
