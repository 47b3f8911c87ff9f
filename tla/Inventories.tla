---------------------------- MODULE Inventories -----------------------------
(***************************************************************************)
(* pinoc/repositories.py, venvs.py and software.py: an inventory learns of *)
(* an object of a device - a deployment, a virtual environment or a soft-  *)
(* ware component - from several sources, each with the time of what it    *)
(* says.  The refresh thread reads the sources, merges them, updates the   *)
(* row, then reads all rows again and derives the state of each.  Nothing  *)
(* deletes a row: an object nobody reports any more grows stale.           *)
(***************************************************************************)
EXTENDS Naturals

CONSTANTS Facts,      (* revisions, versions or conditions of the object    *)
          StaleAfter, (* stale_seconds, in ticks                            *)
          MaxNow,     (* bound: the clock                                   *)
          MaxReports  (* bound: reports, edits, changes and restarts        *)

ASSUME InventoriesAssumption == /\ "silent" \notin Facts /\ StaleAfter \in Nat
                                /\ MaxNow \in Nat \ {0} /\ MaxReports \in Nat

VARIABLES kind,       (* which inventory: the three have their own rules    *)
          now,        (* the time                                           *)
          truth,      (* what is the case on the device                     *)
          reported,   (* what each source last said, and when               *)
          desired,    (* what the operator wants the repository to be at    *)
          row,        (* the row of the object                              *)
          pass,       (* the refresh thread                                 *)
          reports

inventoryVars == <<kind, now, truth, reported, desired, row, pass, reports>>

Kinds   == {"deployment", "venv", "component"}
Sources == {"live", "job", "agent"}
(* The live state of the device, the last git_status job, and workspaces   *)
(* and agents, which know that the object is there and nothing else.       *)
SourcesOf(k) == IF k = "deployment" THEN Sources ELSE {"live"}

Silence == [at |-> 0, fact |-> "silent"]
NoRow   == [there |-> FALSE, fact |-> "silent", at |-> 0, seen |-> 0, verdict |-> "unknown",
            linked |-> FALSE]
Resting == [at |-> "idle", time |-> 0, seen |-> Silence, read |-> NoRow, want |-> "silent"]

InventoriesInit ==
    /\ kind \in Kinds
    /\ now = 1 /\ truth \in Facts /\ reports = 0
    /\ reported = [s \in Sources |-> Silence]
    /\ desired = "silent" /\ row = NoRow /\ pass = Resting

-----------------------------------------------------------------------------
(* What a source may tell: an agent never tells a revision, a component    *)
(* may be reported without a version, a scan always finds some condition.  *)
ToldOfDeployment(s) == CASE s = "live"  -> {truth, "silent"}
                         [] s = "job"   -> {truth}
                         [] s = "agent" -> {"silent"}
ToldOfComponent == {truth, "silent"}
ToldOfVenv == {truth}
ToldOf(s) == CASE kind = "deployment" -> ToldOfDeployment(s)
               [] kind = "component"  -> ToldOfComponent
               [] kind = "venv"       -> ToldOfVenv

Report(s) ==
    /\ reports < MaxReports /\ reports' = reports + 1
    /\ s \in SourcesOf(kind)
    /\ \E fact \in ToldOf(s) :
           reported' = [reported EXCEPT ![s] = [at |-> now, fact |-> fact]]
    /\ UNCHANGED <<kind, now, truth, desired, row, pass>>

(* The device leaves the live state, or its agent is revoked.              *)
FallSilent(s) == /\ reported[s] # Silence
                 /\ reported' = [reported EXCEPT ![s] = Silence]
                 /\ UNCHANGED <<kind, now, truth, desired, row, pass, reports>>

DeviceChanges == /\ \E fact \in Facts \ {truth} : truth' = fact
                 /\ reports < MaxReports /\ reports' = reports + 1
                 /\ UNCHANGED <<kind, now, reported, desired, row, pass>>

DesiredChanges == /\ kind = "deployment" /\ reports < MaxReports /\ reports' = reports + 1
                  /\ desired' \in Facts \ {desired}
                  /\ UNCHANGED <<kind, now, truth, reported, row, pass>>

TimePasses == /\ now < MaxNow /\ now' = now + 1
              /\ UNCHANGED <<kind, truth, reported, desired, row, pass, reports>>

-----------------------------------------------------------------------------
(* add(): the newest observation wins by field, so that it lends its time  *)
(* to what only an older one knows; of two as old the first comes first.   *)
Merge(m, o) ==
    IF o.at = 0 \/ o.at < m.at THEN m
    ELSE IF m.at = 0 THEN o
    ELSE IF o.at > m.at THEN [o EXCEPT !.fact = IF @ = "silent" THEN m.fact ELSE @]
    ELSE [m EXCEPT !.fact = IF @ = "silent" THEN o.fact ELSE @]

RefreshCollects ==
    /\ pass.at = "idle"
    /\ pass' = [Resting EXCEPT !.at = "collected", !.time = now,
                   !.seen = Merge(Merge(reported["live"], reported["job"]), reported["agent"])]
    /\ UNCHANGED <<kind, now, truth, reported, desired, row, reports>>

(* A deployment belongs to an application if one alone claims its remote.  *)
ApplicationLink(claims) == claims = 1

(* _apply_observation() of deployments: last_seen moves on any news, what  *)
(* is known on news of a revision that is not older.                       *)
UpsertedDeployment(r, o, claims) ==
    LET revision == o.fact # "silent" /\ o.at >= r.at
    IN IF ~r.there
       THEN [r EXCEPT !.there = TRUE, !.fact = o.fact, !.seen = o.at,
                      !.at = IF o.fact = "silent" THEN 0 ELSE o.at,
                      !.linked = ApplicationLink(claims)]
       ELSE [r EXCEPT !.seen = IF o.at > @ THEN o.at ELSE @,
                      !.at = IF revision THEN o.at ELSE @,
                      !.fact = IF revision THEN o.fact ELSE @]

(* Mutation of UpsertedComponent: a report without a version clears it.    *)
UpsertedAndCleared(r, o) ==
    IF o.at >= r.at THEN [r EXCEPT !.there = TRUE, !.at = o.at, !.fact = o.fact] ELSE r

(* _apply_observation() of components: one time for the sight and for the  *)
(* version; a version is kept when the sight has none.                     *)
UpsertedComponent(r, o) ==
    IF o.at < r.at THEN r
    ELSE [r EXCEPT !.there = TRUE, !.at = o.at,
                   !.fact = IF o.fact = "silent" THEN @ ELSE o.fact]

(* _apply_venv(): a scan that is not older is what the row says, its state *)
(* included; links are only gained.                                        *)
UpsertedVenv(r, o, claims) ==
    LET scanned == IF o.at < r.at THEN r
                   ELSE [r EXCEPT !.there = TRUE, !.at = o.at, !.fact = o.fact,
                                  !.verdict = o.fact]
    IN [scanned EXCEPT !.linked = @ \/ claims > 0]

Upserted(k, r, o, claims) == CASE k = "deployment" -> UpsertedDeployment(r, o, claims)
                               [] k = "component"  -> UpsertedComponent(r, o)
                               [] k = "venv"       -> UpsertedVenv(r, o, claims)

TooOld(at, time) == time > at + StaleAfter

(* _is_drifted(): what is not known does not differ.                       *)
IsDrifted(r, want) == want # "silent" /\ r.fact # "silent" /\ r.fact # want

(* The states as derived from a row.  That of a venv starts from the state *)
(* column, which a scan writes and staleness covers.                       *)
DerivedDeployment(r, want, time) == IF r.at = 0 THEN "unknown"
                                    ELSE IF TooOld(r.at, time) THEN "stale"
                                    ELSE IF IsDrifted(r, want) THEN "drifted"
                                    ELSE "clean"
DerivedComponent(r, time) == IF r.fact = "silent" THEN "unknown"
                             ELSE IF TooOld(r.at, time) THEN "stale"
                             ELSE "current"
DerivedVenv(r, time) == IF TooOld(r.at, time) THEN "stale" ELSE r.verdict

Derived(k, r, want, time) == CASE k = "deployment" -> DerivedDeployment(r, want, time)
                               [] k = "component"  -> DerivedComponent(r, time)
                               [] k = "venv"       -> DerivedVenv(r, time)

(* A deployment that has nothing to update has no valid UPDATE either: the *)
(* observation is given up.  Of the others the state is derived at once.   *)
RefreshApplies ==
    /\ pass.at = "collected"
    /\ \E claims \in 0..2 :
        LET new == Upserted(kind, row, pass.seen, claims)
            known == /\ kind = "deployment" /\ row.there /\ pass.seen.at < row.seen
                     /\ pass.seen.fact = "silent" \/ pass.seen.at < row.at
            derives == kind = "deployment" \/ (kind = "component" /\ ~row.there)
        IN row' = IF pass.seen = Silence \/ known THEN row
                  ELSE IF derives
                  THEN [new EXCEPT !.verdict = Derived(kind, new, desired, pass.time)]
                  ELSE new
    /\ pass' = [pass EXCEPT !.at = "applied"]
    /\ UNCHANGED <<kind, now, truth, reported, desired, reports>>

(* Mutation of RefreshReads: only what was just observed is derived.       *)
RefreshReadsObserved ==
    /\ pass.at = "applied"
    /\ pass' = [pass EXCEPT !.at = "read", !.want = desired,
                            !.read = IF pass.seen = Silence THEN NoRow ELSE row]
    /\ UNCHANGED <<kind, now, truth, reported, desired, row, reports>>

(* _rederive_states(): all rows are read, deployments with what is desired.*)
RefreshReads == /\ pass.at = "applied"
                /\ pass' = [pass EXCEPT !.at = "read", !.read = row, !.want = desired]
                /\ UNCHANGED <<kind, now, truth, reported, desired, row, reports>>

(* _apply_state(): only the state is written.                              *)
RefreshWrites ==
    /\ pass.at = "read"
    /\ row' = IF ~pass.read.there THEN row
              ELSE [row EXCEPT !.verdict = Derived(kind, pass.read, pass.want, pass.time)]
    /\ pass' = Resting
    /\ UNCHANGED <<kind, now, truth, reported, desired, reports>>

RefreshRestarts == /\ pass # Resting /\ pass' = Resting
                   /\ reports < MaxReports /\ reports' = reports + 1
                   /\ UNCHANGED <<kind, now, truth, reported, desired, row>>

InventoriesNext ==
    \/ \E s \in Sources : Report(s) \/ FallSilent(s)
    \/ DeviceChanges \/ DesiredChanges \/ TimePasses
    \/ RefreshCollects \/ RefreshApplies \/ RefreshReads \/ RefreshWrites
    \/ RefreshRestarts

(* The steps of the thread, which goes on; restarts are bounded events.    *)
RefreshStep == RefreshCollects \/ RefreshApplies \/ RefreshReads \/ RefreshWrites

-----------------------------------------------------------------------------
InventoriesTypeOK ==
    LET Known == Facts \cup {"silent"}
        Told  == [at : 0..MaxNow, fact : Known]
        Row   == [there : BOOLEAN, fact : Known, at : 0..MaxNow, seen : 0..MaxNow,
                  verdict : Facts \cup {"unknown", "stale", "clean", "drifted", "current"},
                  linked : BOOLEAN]
    IN /\ kind \in Kinds /\ now \in 1..MaxNow /\ truth \in Facts
       /\ reported \in [Sources -> Told] /\ desired \in Known
       /\ row \in Row /\ reports \in 0..MaxReports
       /\ pass \in [at : {"idle", "collected", "applied", "read"}, time : 0..MaxNow,
                    seen : Told, read : Row, want : Known]

Good == INSTANCE LastGood WITH Learnable <- Facts, Unknown <- "silent",
                               known <- row.fact, since <- row.at

(* The inventories implement LastGood: no report, silence, failed poll,    *)
(* restart or late answer makes one forget what it learnt of an object, or *)
(* turn back the time at which it was so.                                  *)
NothingForgotten == Good!Spec

(* Every state is again and again what the row and the clock say: no       *)
(* observation that fails, no edit of the desired revision in the middle   *)
(* of a pass and no silence of the sources leaves a state behind for good. *)
VerdictFits == row.there =>
    row.verdict = IF kind = "venv" THEN IF TooOld(row.at, now) THEN "stale" ELSE row.fact
                  ELSE Derived(kind, row, desired, now)
VerdictsSettle == []<>VerdictFits
=============================================================================
