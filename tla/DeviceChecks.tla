----------------------------- MODULE DeviceChecks -----------------------------
(***************************************************************************)
(* The checks of a device against its configuration: a file, a unit and a  *)
(* listener that are expected.  The fleet poll reads the device and then   *)
(* publishes; the history's thread keeps contents that were as expected;   *)
(* an operator's job restores the file from there, or enables the unit.    *)
(* Who else changes the device does so at any moment, and the expected     *)
(* content changes with a restart of PiNOC.  A content and its digest are  *)
(* the same thing here.                                                    *)
(***************************************************************************)
EXTENDS Naturals, Sequences

CONSTANTS Contents,    (* contents that the file is expected or found with   *)
          MaxDrifts,   (* bound: changes of the device                       *)
          MaxRepairs,  (* bound: jobs that repair it                         *)
          MaxReloads   (* bound: restarts of PiNOC                           *)

ASSUME DeviceChecksAssumption == {MaxDrifts, MaxRepairs, MaxReloads} \subseteq Nat

VARIABLES device,    (* file, unit and listener as they are                  *)
          expects,   (* config_drift.expected_files, of this run of PiNOC    *)
          look,      (* the poll: what it has read of the device             *)
          checkDue,  (* drift_check_seconds have passed                      *)
          offSince,  (* _listener_since: how long the listener is off        *)
          report,    (* conditions of the device that are published          *)
          captures,  (* good_snapshots on their way to the history           *)
          goodCopy,  (* config_snapshots                                     *)
          repair,    (* the job on the device                                *)
          counts     (* changes, jobs and restarts so far                    *)

checkVars == <<device, expects, look, checkDue, offSince, report, captures, goodCopy, repair, counts>>

NoContent == "none"
Partial   == "partial"
NoLook    == [at |-> "idle", saw |-> [file |-> NoContent, unit |-> TRUE, listener |-> TRUE],
              due |-> FALSE]
NoReport  == [known |-> FALSE, file |-> FALSE, unit |-> FALSE, listener |-> FALSE]
NoRepair  == [at |-> "idle", content |-> NoContent]
Expected  == [file |-> expects, unit |-> TRUE, listener |-> TRUE]

ChecksInit == /\ expects \in Contents
              /\ device = Expected /\ look = NoLook /\ checkDue = TRUE /\ offSince = "never"
              /\ report = NoReport /\ captures = <<>> /\ goodCopy = NoContent
              /\ repair = NoRepair /\ counts = [drifts |-> 0, repairs |-> 0, reloads |-> 0]

Counted(k, bound) == counts[k] < bound /\ counts' = [counts EXCEPT ![k] = @ + 1]

DeviceDrifts ==
    /\ Counted("drifts", MaxDrifts)
    /\ \/ \E c \in Contents \cup {NoContent} : c # device.file /\ device' = [device EXCEPT !.file = c]
       \/ device' = [device EXCEPT !.unit = ~@]
       \/ device' = [device EXCEPT !.listener = ~@]
    /\ UNCHANGED <<expects, look, checkDue, offSince, report, captures, goodCopy, repair>>

-----------------------------------------------------------------------------
(* collect_device(): the remote script reads the file only when the check  *)
(* is due.                                                                 *)
LooksAt == /\ look.at = "idle"
           /\ look' = [at |-> "read", saw |-> device, due |-> checkDue]
           /\ UNCHANGED <<device, expects, checkDue, offSince, report, captures, goodCopy, repair,
                          counts>>

(* compute_config_drift(): a check that was not due keeps its items.       *)
(* Mutation of FileDrift: items of a check that was not due are let go.    *)
FileDriftNow == look.due /\ look.saw.file # expects
FileDrift == IF look.due THEN look.saw.file # expects ELSE report.file

(* _security_status(): a change is reported once it has lasted.            *)
Since == IF look.saw.listener THEN "never" ELSE IF offSince = "never" THEN "lately" ELSE offSince

Reports == /\ look.at = "read" /\ look' = NoLook
           /\ checkDue' = (checkDue /\ ~look.due)
           /\ offSince' = Since
           /\ report' = [known |-> TRUE, file |-> FileDrift, unit |-> ~look.saw.unit,
                         listener |-> Since = "long"]
           /\ captures' = IF look.due /\ look.saw.file = expects
                          THEN Append(captures, look.saw.file) ELSE captures
           /\ Len(captures') <= 2
           /\ UNCHANGED <<device, expects, goodCopy, repair, counts>>

(* The device could not be reached: the last report stays.                 *)
LookFails == /\ look.at = "read" /\ look' = NoLook
             /\ report' = [report EXCEPT !.known = TRUE]
             /\ UNCHANGED <<device, expects, checkDue, offSince, captures, goodCopy, repair, counts>>

CheckFallsDue == /\ ~checkDue /\ checkDue' = TRUE
                 /\ UNCHANGED <<device, expects, look, offSince, report, captures, goodCopy, repair,
                                counts>>

ChangeLasts == /\ offSince = "lately" /\ offSince' = "long"
               /\ UNCHANGED <<device, expects, look, checkDue, report, captures, goodCopy, repair,
                              counts>>

(* save_config_snapshot(), in the history's thread; errors are logged.     *)
Captures == /\ captures # <<>> /\ captures' = Tail(captures)
            /\ goodCopy' \in {Head(captures), goodCopy}
            /\ UNCHANGED <<device, expects, look, checkDue, offSince, report, repair, counts>>

-----------------------------------------------------------------------------
(* _config_drift_restore_file(): what was kept must still be expected; tee *)
(* then truncates the file and fills it, or is cut off in between.         *)
Restorable == goodCopy = expects

RestoreChecks == /\ repair.at = "idle" /\ report.known /\ Restorable
                 /\ Counted("repairs", MaxRepairs)
                 /\ repair' = [at |-> "writing", content |-> goodCopy]
                 /\ device' = [device EXCEPT !.file = Partial]
                 /\ UNCHANGED <<expects, look, checkDue, offSince, report, captures, goodCopy>>

RestoreFills == /\ repair.at = "writing" /\ repair' = NoRepair
                /\ device' = [device EXCEPT !.file = repair.content]
                /\ UNCHANGED <<expects, look, checkDue, offSince, report, captures, goodCopy, counts>>

RestoreCutOff == /\ repair.at = "writing" /\ repair' = NoRepair
                 /\ UNCHANGED <<device, expects, look, checkDue, offSince, report, captures, goodCopy,
                                counts>>

(* _config_drift_reenable_unit()                                           *)
Reenables == /\ repair.at = "idle" /\ report.known /\ Counted("repairs", MaxRepairs)
             /\ device' = [device EXCEPT !.unit = TRUE]
             /\ UNCHANGED <<expects, look, checkDue, offSince, report, captures, goodCopy, repair>>

(* PiNOC starts again, with the device configured as it was or anew.       *)
Reloads == /\ Counted("reloads", MaxReloads)
           /\ expects' \in Contents
           /\ look' = NoLook /\ checkDue' = TRUE /\ offSince' = "never" /\ report' = NoReport
           /\ captures' = <<>> /\ repair' = NoRepair
           /\ UNCHANGED <<device, goodCopy>>

ChecksNext == \/ DeviceDrifts \/ LooksAt \/ Reports \/ LookFails \/ CheckFallsDue \/ ChangeLasts
              \/ Captures \/ RestoreChecks \/ RestoreFills \/ RestoreCutOff \/ Reenables
              \/ Reloads

ChecksSpec == /\ ChecksInit /\ [][ChecksNext]_checkVars
              /\ WF_checkVars(LooksAt) /\ SF_checkVars(Reports)
              /\ WF_checkVars(CheckFallsDue) /\ WF_checkVars(ChangeLasts)
              /\ WF_checkVars(Captures)

ChecksTypeOK ==
    /\ device.file \in Contents \cup {NoContent, Partial} /\ expects \in Contents
    /\ look.at \in {"idle", "read"} /\ offSince \in {"never", "lately", "long"}
    /\ repair.at \in {"idle", "writing"}

(* Once the device stays as it is, what is reported of it is what it is:   *)
(* neither a check that is not due, a poll that fails, one that read the   *)
(* device before a repair, nor a restart leaves a drift that is not there, *)
(* or hides one that is.                                                   *)
ChecksSettle == <>[](/\ report.file <=> device.file # expects
                     /\ report.unit <=> ~device.unit
                     /\ report.listener <=> ~device.listener)
=============================================================================
