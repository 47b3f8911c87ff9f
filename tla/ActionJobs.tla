----------------------------- MODULE ActionJobs -----------------------------
(***************************************************************************)
(* The promise of the action_jobs table (pinoc/actions.py): a job is       *)
(* admitted, started and settled at most once, an exclusive job is never   *)
(* admitted while its device has a pending one, and a restart of PiNOC     *)
(* fails whatever was pending.  ActionDispatcher implements this module;   *)
(* the services built on the dispatcher (Rollout, Schedules) rely on it.   *)
(***************************************************************************)
EXTENDS FiniteSets

CONSTANTS JobIds,    (* uuid4 values enqueue() may draw                     *)
          Devices,   (* the configured fleet                                *)
          NoDevice   (* device column of a row that does not exist yet      *)

ASSUME JobsAssumption == NoDevice \notin Devices

VARIABLES status,    (* action_jobs.status; "absent" before the INSERT      *)
          device,    (* action_jobs.device_id                               *)
          exclusive  (* FALSE for the actions registered conflict="refresh" *)

jobVars == <<status, device, exclusive>>

Pending  == {"queued", "running"}
Terminal == {"succeeded", "failed", "timed_out"}
Statuses == {"absent"} \cup Pending \cup Terminal

PendingOn(d) == {j \in JobIds : device[j] = d /\ status[j] \in Pending}

JobsTypeOK == /\ status \in [JobIds -> Statuses]
              /\ device \in [JobIds -> Devices \cup {NoDevice}]
              /\ exclusive \in [JobIds -> BOOLEAN]

-----------------------------------------------------------------------------
Init == /\ status = [j \in JobIds |-> "absent"]
        /\ device = [j \in JobIds |-> NoDevice]
        /\ exclusive = [j \in JobIds |-> FALSE]

(* The INSERT of one queued row, whatever else is pending.                 *)
Insert(j, d, x) == /\ status[j] = "absent"
                   /\ status' = [status EXCEPT ![j] = "queued"]
                   /\ device' = [device EXCEPT ![j] = d]
                   /\ exclusive' = [exclusive EXCEPT ![j] = x]

(* enqueue() as validate() intends it: an exclusive job needs an idle device. *)
Enqueue(j, d, x) == /\ x => PendingOn(d) = {}
                    /\ Insert(j, d, x)

Start(j) == /\ status[j] = "queued"
            /\ status' = [status EXCEPT ![j] = "running"]
            /\ UNCHANGED <<device, exclusive>>

Finish(j, outcome) == /\ status[j] = "running"
                      /\ status' = [status EXCEPT ![j] = outcome]
                      /\ UNCHANGED <<device, exclusive>>

(* Mutation of FailPending: queued rows are left to a queue that is gone.  *)
FailRunning == /\ status' = [j \in JobIds |-> IF status[j] = "running"
                                              THEN "failed" ELSE status[j]]
               /\ UNCHANGED <<device, exclusive>>

(* ActionDispatcher.__init__: what the dead process left pending has failed. *)
FailPending == /\ status' = [j \in JobIds |-> IF status[j] \in Pending
                                              THEN "failed" ELSE status[j]]
               /\ UNCHANGED <<device, exclusive>>

Progress == \/ \E j \in JobIds : Start(j)
            \/ \E j \in JobIds, outcome \in Terminal : Finish(j, outcome)
            \/ FailPending

Next == \/ \E j \in JobIds, d \in Devices, x \in BOOLEAN : Enqueue(j, d, x)
        \/ Progress

Spec == Init /\ [][Next]_jobVars

(* The same life cycle without the conflict check: what is left of the     *)
(* promise once a table read has been answered with nothing.               *)
LooseNext == \/ \E j \in JobIds, d \in Devices, x \in BOOLEAN : Insert(j, d, x)
             \/ Progress

LooseSpec == Init /\ [][LooseNext]_jobVars

-----------------------------------------------------------------------------
(* At most one exclusive job of a device is pending: the "one pending      *)
(* action per device" the comment on ActionDispatcher.enqueue_lock names.  *)
OnePendingPerDevice ==
    \A i, j \in JobIds :
        /\ i # j
        /\ status[i] \in Pending /\ status[j] \in Pending
        /\ exclusive[i] /\ exclusive[j]
        => device[i] # device[j]
=============================================================================
