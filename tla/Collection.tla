----------------------------- MODULE Collection -----------------------------
(***************************************************************************)
(* pinoc/collectors and SharedSnapshotCoordinator in pi_noc.py, for one    *)
(* device: the scheduler's thread submits a task that is due and not in    *)
(* flight; the fleet task polls the device, keeps what was not due or not  *)
(* answered from the last snapshot, and hands its result to the            *)
(* coordinator, from which every task republishes the whole cache.         *)
(* Temperature packets add a device to the fleet and drop it again, probes *)
(* write to the cache beside the tasks, operators ask for scans.           *)
(***************************************************************************)
EXTENDS Naturals

CONSTANTS Period,      (* ticks between two readings of a gated section      *)
          Environments, (* virtual environments of the device                *)
          Outcomes,    (* how a poll may end                                 *)
          MaxWorld,    (* bound: changes of the device                       *)
          MaxScans     (* bound: scans asked for                             *)

ASSUME CollectionAssumption == /\ Outcomes \subseteq {"answered", "failed", "garbled"}
                               /\ Period \in Nat /\ MaxWorld \in Nat /\ MaxScans \in Nat

VARIABLES world,   (* the version of what there is to see on the device      *)
          listed,  (* how the device is in the fleet                         *)
          age,     (* ticks since a gated section was last marked as read    *)
          wait,    (* ticks until the fleet task is due                      *)
          fleet,   (* the fleet task                                         *)
          snapshot, (* FleetCollector.snapshots                              *)
          results, (* coordinator.fleet_devices                              *)
          cache,   (* the device in PiNOCState                               *)
          forced,  (* _forced_venvs                                          *)
          probe,   (* the result the probe task is about to merge            *)
          history, (* what the publish hook last told the history of probes  *)
          waker,   (* a request thread that asked for a scan                 *)
          scans

collectionVars == <<world, listed, age, wait, fleet, snapshot, results, cache, forced, probe,
                    history, waker, scans>>

(* Read on every poll, or on a cadence of their own; packages, drift,      *)
(* applications and runtimes go like venvs, but cannot be forced.          *)
Gated    == {"logs", "venvs"}
Sections == Gated \cup {"vitals"}
Nothing  == [s \in Sections |-> 0]
Absent   == [there |-> FALSE, facts |-> Nothing]
Uncached == [there |-> FALSE, facts |-> Nothing, probe |-> "none"]
Interval == 1
NoPoll   == [at |-> "idle", due |-> {}, took |-> {}, there |-> FALSE]

CollectionInit ==
    /\ world = 1 /\ listed \in {"configured", "gone"}
    /\ age = [s \in Gated |-> Period] /\ wait = 0
    /\ fleet = NoPoll /\ snapshot = Nothing /\ results = Absent /\ cache = Uncached
    /\ forced = {} /\ probe = "none" /\ history = "none" /\ waker = "idle" /\ scans = 0

polling == <<fleet, snapshot, results>>
showing == <<cache, probe, history>>
asking  == <<forced, waker, scans>>

-----------------------------------------------------------------------------
(* The device changes; time passes; collect_temperatures() hears of a       *)
(* device that is not configured, or has not heard of it for too long.      *)
DeviceMoves == /\ world < MaxWorld /\ world' = world + 1
               /\ UNCHANGED <<listed, age, wait, polling, showing, asking>>

Ticks == /\ wait' = IF wait > 0 THEN wait - 1 ELSE 0
         /\ age' = [s \in Gated |-> IF age[s] < Period THEN age[s] + 1 ELSE Period]
         /\ <<wait, age>>' # <<wait, age>>
         /\ UNCHANGED <<world, listed, polling, showing, asking>>

Hears == /\ listed # "configured"
         /\ listed' \in {"discovered", "gone"} \ {listed}
         /\ UNCHANGED <<world, age, wait, polling, showing, asking>>

-----------------------------------------------------------------------------
(* CollectionScheduler._run(): one flight at a time, and the next run is   *)
(* an interval from the submission.                                        *)
Submits == /\ fleet.at = "idle" /\ wait = 0
           /\ fleet' = [NoPoll EXCEPT !.at = "submitted"]
           /\ wait' = Interval
           /\ UNCHANGED <<world, listed, age, snapshot, results, showing, asking>>

(* Mutation of Ended: the end of a run arms the next one.                  *)
EndedAndArmed == Interval
Ended == wait

(* collect() forgets requests for devices that left; collect_device() then *)
(* reads the request and decides what is due.                              *)
FleetBegins ==
    /\ fleet.at = "submitted"
    /\ LET kept == IF listed = "gone" THEN {} ELSE forced
           late == {s \in Gated : age[s] >= Period}
       IN /\ forced' = kept
          /\ waker' = IF waker = "waiting" THEN "idle" ELSE waker
          /\ fleet' = [at |-> "polling", took |-> kept, there |-> listed # "gone",
                       due |-> IF kept = {} THEN late ELSE late \cup {"venvs"}]
    /\ UNCHANGED <<world, listed, age, wait, snapshot, results, showing, scans>>

(* Mutation of Kept: a section that is not due is reported as empty.       *)
KeptNothing(s) == 0
Kept(s) == snapshot[s]

Seen == [s \in Sections |-> IF s \in fleet.due \cup {"vitals"} THEN world ELSE Kept(s)]

(* The journal's clock is reset by every answer, the others' by a reading. *)
Read == fleet.due \cup {"logs"}

(* collect_device() after the command: an answer resets the clocks and     *)
(* takes every request back before it is parsed; _failure_result() shows   *)
(* the last snapshot for a failed command as for a garbled answer, and     *)
(* collect() leaves a result even of a poll that raises.                   *)
PollEnds(outcome) ==
    /\ fleet.at = "polling" /\ fleet.there
    /\ snapshot' = IF outcome = "answered" THEN Seen ELSE snapshot
    /\ age' = [s \in Gated |-> IF outcome # "failed" /\ s \in Read THEN 0 ELSE age[s]]
    /\ forced' = IF outcome # "failed" /\ "venvs" \in fleet.due THEN {} ELSE forced
    /\ fleet' = [fleet EXCEPT !.at = "polled"]
    /\ UNCHANGED <<world, listed, wait, results, showing, waker, scans>>

Collected == [there |-> fleet.there, facts |-> IF fleet.there THEN snapshot ELSE Nothing]

(* collect_fleet() hands over all results under the lock.                  *)
HandsOver == /\ fleet.at = "polled" \/ (fleet.at = "polling" /\ ~fleet.there)
             /\ results' = Collected
             /\ fleet' = [NoPoll EXCEPT !.at = "collected"]
             /\ UNCHANGED <<world, listed, age, wait, snapshot, showing, asking>>

(* _publish() and PiNOCState.publish(): the cache is replaced by the       *)
(* results, the probe with it by what the fleet poll put in its place.     *)
Shown == IF results.there THEN [there |-> TRUE, facts |-> results.facts, probe |-> "pending"]
         ELSE Uncached

Published == /\ cache' = Shown
             /\ history' = Shown.probe

FleetPublishes == /\ fleet.at = "collected" /\ Published
                  /\ fleet' = NoPoll /\ wait' = Ended
                  /\ UNCHANGED <<world, listed, age, snapshot, results, probe, asking>>

(* Another task has ended.                                                 *)
OtherPublishes == /\ Published
                  /\ UNCHANGED <<world, listed, age, wait, polling, probe, asking>>

-----------------------------------------------------------------------------
(* ProbeCollector: the checks that are due run from here; set_integration()*)
(* merges the result into a device that is still in the cache.             *)
ProbeRuns == /\ probe = "none" /\ listed = "configured"
             /\ probe' \in {"passing", "failing"}
             /\ UNCHANGED <<world, listed, age, wait, polling, cache, history, asking>>

ProbeMerges == /\ probe # "none" /\ probe' = "none"
               /\ cache' = IF cache.there THEN [cache EXCEPT !.probe = probe] ELSE cache
               /\ UNCHANGED <<world, listed, age, wait, polling, history, asking>>

(* venv_refresh(): the request is queued, then the fleet task is made due. *)
Asks(e) == /\ waker = "idle" /\ scans < MaxScans /\ scans' = scans + 1
           /\ forced' = forced \cup {e} /\ waker' = "asked"
           /\ UNCHANGED <<world, listed, age, wait, polling, showing>>

Wakes == /\ waker = "asked" /\ waker' = "waiting" /\ wait' = 0
         /\ UNCHANGED <<world, listed, age, polling, showing, forced, scans>>

-----------------------------------------------------------------------------
CollectionNext == \/ DeviceMoves \/ Ticks \/ Hears
                  \/ Submits \/ FleetBegins \/ HandsOver \/ FleetPublishes
                  \/ \E o \in Outcomes : PollEnds(o)
                  \/ OtherPublishes \/ ProbeRuns \/ ProbeMerges
                  \/ (\E e \in Environments : Asks(e)) \/ Wakes

(* The scheduler's thread, the fleet task and the request go on.           *)
FleetStep == Submits \/ FleetBegins \/ HandsOver \/ FleetPublishes
             \/ \E o \in Outcomes : PollEnds(o)

CollectionTypeOK ==
    /\ world \in Nat /\ listed \in {"configured", "discovered", "gone"}
    /\ age \in [Gated -> 0..Period] /\ wait \in 0..Interval
    /\ fleet.at \in {"idle", "submitted", "polling", "polled", "collected"}
    /\ fleet.due \subseteq Gated /\ forced \cup fleet.took \subseteq Environments
    /\ snapshot \in [Sections -> 0..world] /\ results.facts \in [Sections -> 0..world]
    /\ cache.facts \in [Sections -> 0..world] /\ (cache.there \/ cache = Uncached)

(* What the cache knows of a device gets newer and never older or less,    *)
(* section by section, whichever task publishes it and however its polls   *)
(* end, and a configured device never leaves the cache again.              *)
NeverForgets == [][cache.there => /\ listed = "configured" => cache'.there
                                  /\ cache'.there => \A s \in Sections :
                                         cache'.facts[s] >= cache.facts[s]]_collectionVars

(* A scan that is asked for is on the way without waiting for the cadence: *)
(* a poll begins after the request although one may have been in flight    *)
(* when it came.                                                           *)
RefreshServed == (waker = "waiting") ~> (waker = "idle")

(* README.md:740: "Failing http_get/http_head/tcp checks open a single     *)
(* probe_failed alert per device": a failure that the probe finds again    *)
(* and again, with no success between, is told to the history, which opens *)
(* the alerts.                                                             *)
FailureHeard == (<>[](cache.probe # "passing" /\ probe # "passing") /\ []<>(cache.probe = "failing"))
                    => <>(history = "failing")

CollectionSpec == /\ CollectionInit /\ [][CollectionNext]_collectionVars
                  /\ WF_collectionVars(FleetStep) /\ WF_collectionVars(Wakes)
                  /\ WF_collectionVars(Ticks) /\ WF_collectionVars(ProbeMerges)
=============================================================================
