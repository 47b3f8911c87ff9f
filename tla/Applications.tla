---------------------------- MODULE Applications ----------------------------
(***************************************************************************)
(* pinoc/applications.py: the health poll of an application.  The thread   *)
(* reads the application and the device cache, then its enabled instances, *)
(* checks each by its strategy, stores what it found and rolls the states  *)
(* up, while operators edit, archive and delete.  A check that cannot tell *)
(* leaves the last success where it is: the state only ages.  The tick     *)
(* takes each application by itself, so there is one here.                 *)
(***************************************************************************)
EXTENDS EnvStates, FiniteSets

CONSTANTS Instances,   (* instance_id                                       *)
          Floor,       (* freshness_seconds, in ticks of the clock          *)
          MaxChanges   (* bound: rows and fields that operators change      *)

ASSUME ApplicationsAssumption == Floor \in Nat \ {0} /\ MaxChanges \in Nat

VARIABLES application, (* the row of applications                           *)
          instance,    (* the rows of application_instances                 *)
          confirmed,   (* age of the last check under that id to find health *)
          unearned,    (* ids whose last success a composite made of silence *)
          poll,        (* the health thread                                 *)
          changes

applicationVars == <<application, instance, confirmed, unearned, poll, changes>>

Never == Floor + 1
Ages  == 0..Never
Older(age) == IF age >= Floor THEN age ELSE age + 1
Implied(age) == FreshState(age # Never, age, Floor)

(* A composite strategy has two children; every other is "plain", as is    *)
(* the one that neither the application nor the instance has chosen.       *)
Strategies == {"inherited", "plain", "composite"}

NewInstance == [there |-> TRUE, enabled |-> TRUE, critical |-> FALSE, strategy |-> "inherited",
                health |-> "unknown", success |-> Never]
NoInstance  == [NewInstance EXCEPT !.there = FALSE]
Idle == [at |-> "idle", age |-> 0, up |-> FALSE,
         row |-> [lifecycle |-> "active", criticality |-> "standard", strategy |-> "plain",
                  health |-> "unknown"],
         todo |-> {}, asof |-> [i \in Instances |-> Never],
         read |-> [i \in Instances |-> NoInstance], states |-> {}]

ApplicationsInit ==
    /\ application = Idle.row
    /\ instance = [i \in Instances |-> NewInstance]
    /\ confirmed = [i \in Instances |-> Never]
    /\ unearned = {}
    /\ poll = Idle
    /\ changes = 0

-----------------------------------------------------------------------------
(* tick(): the time, the application and the devices, up or not, are read  *)
(* once; `asof` is how old the successes are at that time.                 *)
PollBegins == /\ poll.at = "idle" /\ application.lifecycle # "archived"
              /\ \E up \in BOOLEAN :
                    poll' = [Idle EXCEPT !.at = "begun", !.up = up,
                                         !.row = [application EXCEPT !.health = "unknown"],
                                         !.asof = [i \in Instances |-> instance[i].success]]
              /\ UNCHANGED <<application, instance, confirmed, unearned, changes>>

(* What an instance's last success implies at the time of the poll.        *)
Floored(i) == Implied(IF instance[i].success = Never THEN Never ELSE poll.asof[i])

(* _tick_app(): the enabled instances are read; their health, which        *)
(* decides nothing, gives way to what their last success implies.          *)
PollReads == /\ poll.at = "begun"
             /\ LET enabled == {i \in Instances : instance[i].there /\ instance[i].enabled}
                IN poll' = [poll EXCEPT !.at = "checking", !.todo = enabled,
                     !.asof = Idle.asof,
                     !.read = [i \in Instances |-> IF i \in enabled
                                 THEN [instance[i] EXCEPT !.health = Floored(i)]
                                 ELSE NoInstance]]
             /\ UNCHANGED <<application, instance, confirmed, unearned, changes>>

(* What a unit, a process, an endpoint, a port, a command or an integra-   *)
(* tion shows; "silent" stands for everything that cannot tell: a unit the *)
(* host does not report, a timeout, a strategy that raises.                *)
Sights == {"up", "planned", "weak", "down", "silent"}

(* The strategies: [conclusive, state].  An instance marked critical is a  *)
(* degree worse when it is down.                                           *)
Observed(sight, up, critical) ==
    IF ~up THEN [conclusive |-> TRUE, state |-> "offline"]
    ELSE [conclusive |-> sight # "silent",
          state |-> CASE sight = "up"      -> "healthy"
                      [] sight = "planned" -> "maintenance"
                      [] sight = "weak"    -> IF critical THEN "degraded" ELSE "warning"
                      [] sight = "down"    -> IF critical THEN "critical" ELSE "degraded"
                      [] sight = "silent"  -> "unknown"]

(* A child that cannot tell counts as what the instance's last success     *)
(* implies; the second child is marked critical.  The whole is conclusive. *)
Composed(first, second, floored, criticality) ==
    LET Child(o) == IF o.conclusive THEN o.state ELSE floored
    IN [conclusive |-> TRUE,
        state |-> Worst({Child(first), Escalate(Child(second), criticality)})]

(* Mutation of Finalized: what cannot tell counts as a success.            *)
FinalizedAnyway(r, result, age) ==
    [r EXCEPT !.health = IF result.conclusive THEN result.state ELSE @,
              !.success = IF result.conclusive /\ result.state # "healthy" THEN @ ELSE age]

(* _finalize(): a conclusive result is the health; any other keeps the     *)
(* last success.  The time of the poll is the time of its beginning.       *)
Finalized(r, result, age) ==
    [r EXCEPT !.health = IF result.conclusive THEN result.state ELSE @,
              !.success = IF result.conclusive /\ result.state = "healthy" THEN age ELSE @]

(* _resolve_strategy(): the instance's own, else the application's.        *)
Resolved(r, row) == IF r.strategy = "inherited" THEN row.strategy ELSE r.strategy
Composite(i)     == Resolved(poll.read[i], poll.row) = "composite"

(* _tick_instance(): the UPDATE goes to the instance_id, whatever became   *)
(* of the row since it was read.                                           *)
Check(i, first, second) ==
    LET r == poll.read[i]
        one == Observed(first, poll.up, r.critical)
        result == IF Composite(i)
                  THEN Composed(one, Observed(second, poll.up, r.critical), r.health,
                                poll.row.criticality)
                  ELSE one
        final == Finalized(r, result, poll.age)
        found == poll.up /\ "up" = first /\ (Composite(i) => second = "up")
    IN /\ poll.at = "checking" /\ i \in poll.todo
       /\ instance' = IF instance[i].there
                      THEN [instance EXCEPT ![i].health = final.health,
                                            ![i].success = final.success]
                      ELSE instance
       /\ confirmed' = IF found THEN [confirmed EXCEPT ![i] = 0] ELSE confirmed
       /\ unearned' = IF found THEN unearned \ {i}
                      ELSE IF Composite(i) /\ result.state = "healthy" THEN unearned \cup {i}
                      ELSE unearned
       /\ poll' = [poll EXCEPT !.todo = @ \ {i}, !.read[i] = NoInstance,
                               !.states = @ \cup {final.health}]
       /\ UNCHANGED <<application, changes>>

(* _tick_app(), its end: retired applications count as planned downtime.   *)
RollUp ==
    LET rolled == Rollup(poll.states, poll.row.criticality)
        state == IF poll.states = {} THEN "unknown"
                 ELSE IF poll.row.lifecycle = "retired" THEN Worst({rolled, "maintenance"})
                 ELSE rolled
    IN /\ poll.at = "checking" /\ poll.todo = {}
       /\ application' = [application EXCEPT !.health = state]
       /\ poll' = Idle
       /\ UNCHANGED <<instance, confirmed, unearned, changes>>

-----------------------------------------------------------------------------
(* Operators.  What one request reads and writes is one step here; the     *)
(* race between the two is the subject of Registry.                        *)
Request(lifecycles, n) == /\ changes + n <= MaxChanges /\ changes' = changes + n
                          /\ application.lifecycle \in lifecycles
                          /\ UNCHANGED <<confirmed, unearned, poll>>

Editable == {"active", "retired"}
Edited(old, new, fields) == Cardinality({f \in fields : old[f] # new[f]})

EditApplication(lifecycle, criticality, strategy) ==
    LET row == [application EXCEPT !.lifecycle = lifecycle, !.criticality = criticality,
                                   !.strategy = strategy]
    IN /\ Request(Editable, Edited(application, row, {"lifecycle", "criticality", "strategy"}))
       /\ application' = row
       /\ UNCHANGED instance

ArchiveApplication == /\ Request(Editable, 1)
                      /\ application' = [application EXCEPT !.lifecycle = "archived"]
                      /\ UNCHANGED instance

RestoreApplication == /\ Request({"archived"}, 1)
                      /\ application' = [application EXCEPT !.lifecycle = "active"]
                      /\ UNCHANGED instance

(* The id of a deleted instance may be given to the next one.              *)
AddInstance(i, strategy) ==
    /\ Request(Editable, 1) /\ ~instance[i].there
    /\ instance' = [instance EXCEPT ![i] = [NewInstance EXCEPT !.strategy = strategy]]
    /\ UNCHANGED application

(* An edit, of the target or the mechanism too, leaves the health and the  *)
(* last success as they are.                                               *)
UpdateInstance(i, enabled, critical, strategy) ==
    LET row == [instance[i] EXCEPT !.enabled = enabled, !.critical = critical,
                                   !.strategy = strategy]
    IN /\ Request(Editable, Edited(instance[i], row, {"enabled", "critical", "strategy"}))
       /\ instance[i].there
       /\ instance' = [instance EXCEPT ![i] = row]
       /\ UNCHANGED application

DeleteInstance(i) == /\ Request(Editable, 1) /\ instance[i].there
                     /\ instance' = [instance EXCEPT ![i] = NoInstance]
                     /\ UNCHANGED application

(* A restart forgets the poll; time passes.                                *)
PollRestarts == /\ poll' = Idle
                /\ UNCHANGED <<application, instance, confirmed, unearned, changes>>

FreshnessPasses ==
    /\ \E i \in Instances : instance[i].success < Floor \/ confirmed[i] < Floor
    /\ instance' = [i \in Instances |-> [instance[i] EXCEPT !.success = Older(@)]]
    /\ confirmed' = [i \in Instances |-> Older(confirmed[i])]
    /\ poll' = IF poll.at = "idle" THEN poll
               ELSE [poll EXCEPT !.age = Older(@),
                       !.read = [i \in Instances |-> [poll.read[i] EXCEPT !.success = Older(@)]]]
    /\ UNCHANGED <<application, unearned, changes>>

ApplicationsNext ==
    \/ PollBegins \/ PollReads \/ RollUp
    \/ \E i \in Instances, first, second \in Sights :
           (Composite(i) \/ second = first) /\ Check(i, first, second)
    \/ \E lifecycle \in {"active", "retired"}, criticality \in {"standard", "critical"},
          strategy \in Strategies \ {"inherited"} : EditApplication(lifecycle, criticality, strategy)
    \/ ArchiveApplication \/ RestoreApplication
    \/ \E i \in Instances, strategy \in Strategies : AddInstance(i, strategy)
    \/ \E i \in Instances : DeleteInstance(i)
    \/ \E i \in Instances, enabled, critical \in BOOLEAN, strategy \in Strategies :
           UpdateInstance(i, enabled, critical, strategy)
    \/ PollRestarts \/ FreshnessPasses

-----------------------------------------------------------------------------
(* health(): what an instance shows, aged to the moment it is looked at.   *)
DisplayedHealth(i) == LET floored == Implied(instance[i].success)
                      IN IF Rank(instance[i].health) < Rank(floored) THEN floored
                         ELSE instance[i].health

ApplicationsTypeOK ==
    /\ application \in [lifecycle : {"active", "retired", "archived"},
                        criticality : Criticalities, strategy : Strategies \ {"inherited"},
                        health : Healths]
    /\ instance \in [Instances -> [there : BOOLEAN, enabled : BOOLEAN, critical : BOOLEAN,
                                   strategy : Strategies, health : Healths, success : Ages]]
    /\ confirmed \in [Instances -> Ages]
    /\ unearned \subseteq Instances
    /\ changes \in 0..MaxChanges
    /\ poll.at \in {"idle", "begun", "checking"} /\ poll.todo \subseteq Instances
    /\ poll.age \in Ages /\ poll.asof \in [Instances -> Ages] /\ poll.states \subseteq Healths

(* An instance that shows healthy was found healthy within the freshness   *)
(* floor: neither silence nor a restart, a slow poll, a row deleted or     *)
(* added meanwhile, or a change of strategy passes for a success.  But for *)
(* one that a composite strategy made of a child that could not tell; it   *)
(* stays until a check finds health again, under whatever strategy.  The   *)
(* check is one under that id: what an edit made of the row since, its     *)
(* target included, is not asked.                                          *)
HealthyIsRecent == \A i \in Instances \ unearned :
    instance[i].there /\ DisplayedHealth(i) = "healthy" => confirmed[i] < Floor
=============================================================================
