---------------------------- MODULE Remediation -----------------------------
(***************************************************************************)
(* pinoc/remediation.py: the playbook of an alert runs its action, or asks *)
(* an operator first.  A row of remediation_runs per fingerprint keeps the *)
(* attempts, the cooldown and the decision; it is written by the service   *)
(* thread, tick(), and by decide() in the threads of operators, each from  *)
(* a row it has read before.  The alerts, AlertLifecycle, open and resolve *)
(* at any moment.  Dispatching is ActionDispatcher.enqueue(): it queues a  *)
(* job or refuses.                                                         *)
(***************************************************************************)
EXTENDS AlertLifecycle, Naturals, FiniteSets

CONSTANTS Operators,     (* threads in decide()                              *)
          MaxAttempts,   (* the playbook's max_attempts                      *)
          MaxEpisodes,   (* bound: times an alert opens                      *)
          MaxRestarts,   (* bound: restarts of the process                   *)
          MaxWindows     (* bound: maintenance windows                       *)

ASSUME RemediationAssumption == /\ MaxAttempts \in Nat \ {0}
                                /\ MaxEpisodes \in Nat /\ MaxRestarts \in Nat
                                /\ MaxWindows \in Nat
                                /\ "none" \notin Fingerprints /\ IsFiniteSet(Operators)

VARIABLES row,        (* remediation_runs, per fingerprint                   *)
          playbook,   (* remediation.policy of the loaded playbook           *)
          tick,       (* the service thread                                  *)
          operator,   (* the threads of decide()                             *)
          maintained, (* the fleet is in a maintenance window                *)
          ran,        (* dispatches of a fingerprint since its row was reset *)
          unrecorded, (* ... of them those whose UPDATE never came           *)
          denied,     (* a denial stands that nothing raced with             *)
          episodes, restarts, windows

vars == <<alert, row, playbook, tick, operator, maintained, ran, unrecorded, denied,
          episodes, restarts, windows>>
ticking == <<alert, playbook, operator, maintained, episodes, restarts, windows>>
deciding == <<alert, playbook, tick, maintained, episodes, restarts, windows>>
around  == <<row, playbook, tick, operator, ran, unrecorded, denied>>

Policies  == {"auto", "approve"}
Decisions == {"null", "pending", "denied", "approved"}

NoRow     == [exists |-> FALSE, policy |-> "auto", attempts |-> 0, cooling |-> FALSE,
              approval |-> "null"]

(* A thread with no row at hand; `read` is attempts of the row it has read. *)
IdleTick     == [at |-> "idle", open |-> {}, todo |-> {}, doing |-> "none", read |-> 0]
IdleOperator == [at |-> "idle", on |-> "none", read |-> 0]

RemediationInit == /\ LifecycleInit
                   /\ row = [f \in Fingerprints |-> NoRow]
                   /\ playbook \in Policies
                   /\ tick = IdleTick
                   /\ operator = [o \in Operators |-> IdleOperator]
                   /\ maintained = FALSE
                   /\ ran = [f \in Fingerprints |-> 0]
                   /\ unrecorded = [f \in Fingerprints |-> 0]
                   /\ denied = [f \in Fingerprints |-> FALSE]
                   /\ episodes = 0 /\ restarts = 0 /\ windows = 0

Opened == {f \in Fingerprints : alert[f] \in Shown}
Deciding(f) == {o \in Operators : operator[o].at # "idle" /\ operator[o].on = f}

-----------------------------------------------------------------------------
(* tick(): the open alerts are read once; what follows works on that list. *)
TickBegin == /\ tick.at = "idle"
             /\ tick' = [IdleTick EXCEPT !.at = "listing", !.open = Opened]
             /\ UNCHANGED <<row, ran, unrecorded, denied, ticking>>

(* Mutation of Kept: a row whose only trace is a decision is not looked at. *)
KeptWithAttempts(r) == r.attempts > 0
Kept(r) == r.attempts > 0 \/ r.approval # "null"

(* _reconcile_resolved(): the rows that say something are listed; then the *)
(* row of every alert that was not open is reset, whatever it says by now. *)
RowsListed == /\ tick.at = "listing"
              /\ tick' = [tick EXCEPT !.at = "resetting",
                                      !.todo = {f \in Fingerprints \ tick.open : Kept(row[f])}]
              /\ UNCHANGED <<row, ran, unrecorded, denied, ticking>>

Reset(f) == /\ tick.at = "resetting" /\ f \in tick.todo
            /\ tick' = [tick EXCEPT !.todo = @ \ {f}]
            /\ row' = [row EXCEPT ![f] = [@ EXCEPT !.attempts = 0, !.cooling = FALSE,
                                                   !.approval = "null"]]
            /\ ran' = [ran EXCEPT ![f] = 0]
            /\ unrecorded' = [unrecorded EXCEPT ![f] = 0]
            /\ denied' = [denied EXCEPT ![f] = FALSE]
            /\ UNCHANGED ticking

ResetDone == /\ tick.at = "resetting" /\ tick.todo = {}
             /\ tick' = [IdleTick EXCEPT !.at = "alerts", !.todo = tick.open]
             /\ UNCHANGED <<row, ran, unrecorded, denied, ticking>>

TickEnd == /\ tick.at = "alerts" /\ tick.todo = {}
           /\ tick' = IdleTick
           /\ UNCHANGED <<row, ran, unrecorded, denied, ticking>>

(* _ensure_row(): the terms of the playbook are copied when the row is made. *)
Ensured(f) == IF row[f].exists THEN row[f]
              ELSE [NoRow EXCEPT !.exists = TRUE, !.policy = playbook]

(* Mutation of Undecided: a denied remediation is offered again.           *)
UndecidedOnce(r) == r.approval # "pending"
Undecided(r) == r.approval \notin {"pending", "denied"}

(* Mutations of Spent: one attempt too many, one too few.                  *)
SpentLate(r)  == r.attempts > MaxAttempts
SpentEarly(r) == r.attempts >= MaxAttempts - 1
Spent(r) == r.attempts >= MaxAttempts

Due(r) == Undecided(r) /\ ~maintained /\ ~r.cooling /\ ~Spent(r)

(* _process(): from the row it reads, nothing is due, or an operator is to *)
(* be asked, or a dispatch begins.  The alert may have resolved since the  *)
(* list was read.                                                          *)
Process(f) ==
    /\ tick.at = "alerts" /\ f \in tick.todo /\ tick.doing = "none"
    /\ LET seen == Ensured(f)
           asks == Due(seen) /\ seen.policy = "approve"
           runs == Due(seen) /\ seen.policy = "auto"
       IN /\ row' = [row EXCEPT ![f] = seen]
          /\ \/ asks /\ tick' = [tick EXCEPT !.at = "asking", !.doing = f]
             \/ runs /\ tick' = [tick EXCEPT !.doing = f, !.read = seen.attempts]
             \/ ~Due(seen) /\ tick' = [tick EXCEPT !.todo = @ \ {f}]
    /\ UNCHANGED <<ran, unrecorded, denied, ticking>>

(* _request_approval(): its UPDATE looks at nothing, so it takes back what *)
(* an operator who had read an older request decided since the row's read. *)
TickAsks == /\ tick.at = "asking"
            /\ row' = [row EXCEPT ![tick.doing].approval = "pending"]
            /\ tick' = [tick EXCEPT !.at = "alerts", !.todo = @ \ {tick.doing}, !.doing = "none"]
            /\ UNCHANGED <<ran, unrecorded, denied, ticking>>

(* _dispatch(): enqueue() queues a job or refuses; both are an attempt.    *)
(* The UPDATE that says so comes after it, from the attempts of the row    *)
(* that was read; the cooldown runs from there.                            *)
Recorded(f, read) == row' = [row EXCEPT ![f] = [@ EXCEPT !.attempts = read + 1, !.cooling = TRUE]]

TickQueues == /\ tick.at = "alerts" /\ tick.doing # "none"
              /\ tick' = [tick EXCEPT !.at = "queued"]
              /\ ran' = [ran EXCEPT ![tick.doing] = @ + 1]
              /\ UNCHANGED <<row, unrecorded, denied, ticking>>

TickRecords == /\ tick.at = "queued"
               /\ Recorded(tick.doing, tick.read)
               /\ tick' = [tick EXCEPT !.at = "alerts", !.todo = @ \ {tick.doing},
                                       !.doing = "none", !.read = 0]
               /\ UNCHANGED <<ran, unrecorded, denied, ticking>>

-----------------------------------------------------------------------------
(* decide(): only a pending remediation can be decided, as far as the read  *)
(* at the beginning goes.                                                   *)
Asked(f) == row[f].approval = "pending"

Decide(o, f, approve) ==
    /\ operator[o].at = "idle" /\ Asked(f)
    /\ operator' = [operator EXCEPT ![o] =
                       [at |-> IF approve THEN "approving" ELSE "denying", on |-> f,
                        read |-> IF approve THEN row[f].attempts ELSE 0]]
    /\ UNCHANGED <<row, ran, unrecorded, denied, deciding>>

(* Nobody else is about to write a decision, or a request, to the row.     *)
Alone(o, f) == Deciding(f) = {o} /\ tick.doing # f

Deny(o) == LET f == operator[o].on
           IN /\ operator[o].at = "denying"
              /\ row' = [row EXCEPT ![f].approval = "denied"]
              /\ denied' = [denied EXCEPT ![f] = Alone(o, f)]
              /\ operator' = [operator EXCEPT ![o] = IdleOperator]
              /\ UNCHANGED <<ran, unrecorded, deciding>>

ApproveQueues(o) == /\ operator[o].at = "approving"
                    /\ operator' = [operator EXCEPT ![o].at = "queued"]
                    /\ ran' = [ran EXCEPT ![operator[o].on] = @ + 1]
                    /\ UNCHANGED <<row, unrecorded, denied, deciding>>

ApproveRecords(o) == /\ operator[o].at = "queued"
                     /\ Recorded(operator[o].on, operator[o].read)
                     /\ operator' = [operator EXCEPT ![o] = [@ EXCEPT !.at = "recorded", !.read = 0]]
                     /\ UNCHANGED <<ran, unrecorded, denied, deciding>>

Approved(o) == /\ operator[o].at = "recorded"
               /\ row' = [row EXCEPT ![operator[o].on].approval = "approved"]
               /\ operator' = [operator EXCEPT ![o] = IdleOperator]
               /\ UNCHANGED <<ran, unrecorded, denied, deciding>>

-----------------------------------------------------------------------------
(* Around it: alerts, the clock, maintenance windows, and a restart, after  *)
(* which the configuration may bind another policy to the alert type.       *)
AlertOpens(f) == /\ episodes < MaxEpisodes
                 /\ Open(f)
                 /\ episodes' = episodes + 1
                 /\ UNCHANGED <<around, maintained, restarts, windows>>

AlertResolves(f) == /\ Resolve(f)
                    /\ UNCHANGED <<around, maintained, episodes, restarts, windows>>

CooldownEnds(f) == /\ row[f].cooling
                   /\ row' = [row EXCEPT ![f].cooling = FALSE]
                   /\ UNCHANGED <<tick, ran, unrecorded, denied, ticking>>

WindowBegins == /\ ~maintained /\ windows < MaxWindows
                /\ maintained' = TRUE
                /\ windows' = windows + 1
                /\ UNCHANGED <<alert, around, episodes, restarts>>

WindowEnds == /\ maintained
              /\ maintained' = FALSE
              /\ UNCHANGED <<alert, around, episodes, restarts, windows>>

QueuedBy(f) == Cardinality({o \in Operators : operator[o].at = "queued" /\ operator[o].on = f})
               + (IF tick.at = "queued" /\ tick.doing = f THEN 1 ELSE 0)

Restart == /\ restarts < MaxRestarts
           /\ restarts' = restarts + 1
           /\ unrecorded' = [f \in Fingerprints |-> unrecorded[f] + QueuedBy(f)]
           /\ tick' = IdleTick
           /\ operator' = [o \in Operators |-> IdleOperator]
           /\ playbook' \in Policies
           /\ UNCHANGED <<alert, row, maintained, ran, denied, episodes, windows>>

TickStep == \/ TickBegin \/ RowsListed \/ ResetDone \/ TickEnd
            \/ TickAsks \/ TickQueues \/ TickRecords
            \/ \E f \in Fingerprints : Reset(f) \/ Process(f)

DecisionStep(o) == Deny(o) \/ ApproveQueues(o) \/ ApproveRecords(o) \/ Approved(o)

Next == \/ TickStep
        \/ \E o \in Operators : \/ DecisionStep(o)
                                \/ \E f \in Fingerprints, a \in BOOLEAN : Decide(o, f, a)
        \/ \E f \in Fingerprints : AlertOpens(f) \/ AlertResolves(f) \/ CooldownEnds(f)
        \/ WindowBegins \/ WindowEnds \/ Restart

RemediationSpec == RemediationInit /\ [][Next]_vars

(* The service thread ticks on its interval, a request thread ends, time passes. *)
FairSpec == /\ RemediationSpec
            /\ WF_vars(TickStep) /\ WF_vars(WindowEnds)
            /\ \A o \in Operators : WF_vars(DecisionStep(o))
            /\ \A f \in Fingerprints : WF_vars(CooldownEnds(f))

-----------------------------------------------------------------------------
TypeOK ==
    /\ row \in [Fingerprints -> [exists : BOOLEAN, policy : Policies, attempts : Nat,
                                 cooling : BOOLEAN, approval : Decisions]]
    /\ playbook \in Policies /\ maintained \in BOOLEAN
    /\ tick \in [at : {"idle", "listing", "resetting", "alerts", "asking", "queued"},
                 open : SUBSET Fingerprints, todo : SUBSET Fingerprints,
                 doing : Fingerprints \cup {"none"}, read : Nat]
    /\ operator \in [Operators -> [at : {"idle", "denying", "approving", "queued", "recorded"},
                                   on : Fingerprints \cup {"none"}, read : Nat]]
    /\ ran \in [Fingerprints -> Nat] /\ unrecorded \in [Fingerprints -> Nat]
    /\ denied \in [Fingerprints -> BOOLEAN]

(* "max_attempts bound ... how many times remediation retries the same     *)
(* alert": the automatic dispatches of one alert, the refused ones and     *)
(* those a reopened alert inherits included, never exceed max_attempts,    *)
(* but for the one a restart kept from being recorded.                     *)
AttemptsBounded == \A f \in Fingerprints :
    row[f].policy = "auto" => ran[f] <= MaxAttempts + unrecorded[f]

(* A denial holds until the service has reset the row: whatever ticks,     *)
(* restarts and operators do meanwhile, nothing is dispatched.  Two races  *)
(* that the unconditional writes admit are left out, where it does not:    *)
(* another operator who is deciding from an older read as the denial is    *)
(* written (decide()), and the service that has read the row before it and *)
(* asks after it (_request_approval()).                                    *)
DenialHolds == [][\A f \in Fingerprints : denied[f] => ran'[f] <= ran[f]]_vars

(* "both reset once the alert resolves": once an alert stays resolved its  *)
(* attempts are forgotten and no decision is left, neither a pending one   *)
(* nor one that an operator was making meanwhile.                          *)
CleanSlate == \A f \in Fingerprints :
    <>[](alert[f] = "none") => <>[](row[f].attempts = 0 /\ row[f].approval = "null")

(* An automatic remediation goes on until it is used up: an alert that     *)
(* stays open gets all its attempts, cooldowns, windows and restarts aside. *)
KeepsTrying == \A f \in Fingerprints :
    <>[](alert[f] \in Shown /\ row[f].policy = "auto") => <>(row[f].attempts = MaxAttempts)

=============================================================================
