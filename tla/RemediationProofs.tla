-------------------------- MODULE RemediationProofs --------------------------
(***************************************************************************)
(* Proofs about Remediation, for any fingerprints, any finite number of    *)
(* operators, and any number of attempts, episodes, windows and restarts.  *)
(***************************************************************************)
EXTENDS Remediation, FiniteSetTheorems, TLAPS

RowRecords == [exists : BOOLEAN, policy : Policies, attempts : Nat, cooling : BOOLEAN,
               approval : Decisions]
TickStates == [at : {"idle", "listing", "resetting", "alerts", "asking", "queued"},
                 open : SUBSET Fingerprints, todo : SUBSET Fingerprints,
                 doing : Fingerprints \cup {"none"}, read : Nat]

(* The one dispatch of an alert that is queued and not yet recorded.       *)
InFlight(f) == IF tick.at = "queued" /\ tick.doing = f THEN 1 ELSE 0

(* Nothing has happened to an alert without a row, and what it says of a   *)
(* decision it says only where operators are asked.                        *)
RowsMade  == \A f \in Fingerprints :
    ~row[f].exists => /\ row[f].attempts = 0 /\ row[f].cooling = FALSE /\ row[f].approval = "null"
                      /\ ran[f] = 0 /\ unrecorded[f] = 0
AsksFirst == \A f \in Fingerprints :
    row[f].approval # "null" => row[f].exists /\ row[f].policy = "approve"

(* An automatic row with attempts left, as the service has read it.        *)
Running(r, read) == r.policy = "auto" /\ r.attempts = read /\ read < MaxAttempts

(* The service dispatches on its own, from the attempts that the row still *)
(* has; it asks where the row says so, and operators dispatch what asked.  *)
TickHolds == /\ tick.at \in {"asking", "queued"} => tick.doing # "none"
             /\ tick.doing # "none" => /\ tick.at \in {"alerts", "asking", "queued"}
                                       /\ tick.doing \in tick.todo
                                       /\ row[tick.doing].exists
                                       /\ tick.at = "asking" => row[tick.doing].policy = "approve"
                                       /\ tick.at # "asking" => Running(row[tick.doing], tick.read)
OperatorHolds == \A o \in Operators :
    operator[o].at # "idle" => /\ operator[o].on \in Fingerprints
                               /\ row[operator[o].on].exists
                               /\ row[operator[o].on].policy = "approve"

(* Beside a denial that nothing raced with, nobody is deciding or asking.  *)
DenialAlone == \A f \in Fingerprints :
    denied[f] => /\ row[f].approval = "denied" /\ tick.doing # f
                 /\ \A o \in Operators : operator[o].at # "idle" => operator[o].on # f

(* Every automatic dispatch is recorded, in flight or lost to a restart.   *)
Counted == \A f \in Fingerprints :
    row[f].policy = "auto" => /\ row[f].attempts <= MaxAttempts
                              /\ ran[f] = row[f].attempts + unrecorded[f] + InFlight(f)

(* The inductive invariant behind the theorems.                            *)
IInv == TypeOK /\ RowsMade /\ AsksFirst /\ TickHolds /\ OperatorHolds /\ DenialAlone /\ Counted

-----------------------------------------------------------------------------
USE RemediationAssumption DEF Policies, Decisions

LEMMA RowTyped == ASSUME TypeOK, NEW f \in Fingerprints PROVE row[f] \in RowRecords
BY DEF TypeOK, RowRecords

(* What is written to a row keeps it a row, for the same policy.           *)
LEMMA RowWritten ==
  ASSUME NEW r \in RowRecords, NEW a \in Nat, NEW c \in BOOLEAN, NEW d \in Decisions
  PROVE  /\ [r EXCEPT !.attempts = a, !.cooling = c, !.approval = d] \in RowRecords
         /\ [r EXCEPT !.attempts = a, !.cooling = c] \in RowRecords
         /\ [r EXCEPT !.cooling = c] \in RowRecords
         /\ [r EXCEPT !.approval = d] \in RowRecords
BY DEF RowRecords

LEMMA InitInv == RemediationInit => IInv
<1> SUFFICES ASSUME RemediationInit PROVE IInv
  OBVIOUS
<1> USE DEF RemediationInit
<1>1. NoRow \in RowRecords /\ IdleTick \in TickStates
  BY DEF NoRow, RowRecords, IdleTick, TickStates
<1>2. IdleOperator \in [at : {"idle", "denying", "approving", "queued", "recorded"},
                       on : Fingerprints \cup {"none"}, read : Nat]
  BY DEF IdleOperator
<1>3. TypeOK
  BY <1>1, <1>2 DEF TypeOK, RowRecords, TickStates
<1>4. \A f \in Fingerprints : /\ row[f] = NoRow /\ ran[f] = 0 /\ unrecorded[f] = 0 /\ ~denied[f]
                             /\ row[f].approval = "null" /\ row[f].attempts = 0 /\ row[f].cooling = FALSE
  BY DEF NoRow
<1>5. tick.at = "idle" /\ tick.doing = "none" /\ \A o \in Operators : operator[o].at = "idle"
  BY DEF IdleTick, IdleOperator
<1>6. QED BY <1>3, <1>4, <1>5 DEF IInv, RowsMade, AsksFirst, TickHolds, OperatorHolds, DenialAlone,
                                  Counted, InFlight

(* The loop of the tick goes on, with nothing in hand.                     *)
LEMMA LoopInv == ASSUME IInv, TickBegin \/ RowsListed \/ ResetDone \/ TickEnd PROVE IInv'
<1> USE DEF IInv, TickBegin, RowsListed, ResetDone, TickEnd, ticking
<1>1. tick'.doing = "none" /\ tick'.at \notin {"asking", "queued"} /\ tick' \in TickStates
  <2>1. CASE TickBegin
    BY <2>1 DEF TickStates, IdleTick, Opened
  <2>2. CASE ResetDone
    BY <2>2 DEF TypeOK, TickStates, IdleTick
  <2>3. CASE TickEnd
    BY <2>3 DEF TickStates, IdleTick
  <2>4. CASE RowsListed
    BY <2>4 DEF TypeOK, TickHolds, TickStates
  <2>5. QED BY <2>1, <2>2, <2>3, <2>4
<1>2. tick.at \notin {"asking", "queued"} /\ UNCHANGED <<row, ran, unrecorded, denied, operator, playbook, maintained>>
  OBVIOUS
<1>3. TypeOK'
  BY <1>1, <1>2 DEF TypeOK, TickStates
<1>4. QED BY <1>1, <1>2, <1>3 DEF RowsMade, AsksFirst, TickHolds, OperatorHolds, DenialAlone, Counted,
                                  InFlight

LEMMA ResetInv == ASSUME IInv, NEW f \in Fingerprints, Reset(f) PROVE IInv'
<1> DEFINE r == [row[f] EXCEPT !.attempts = 0, !.cooling = FALSE, !.approval = "null"]
<1> USE DEF IInv, Reset, ticking
<1>1. tick' \in TickStates /\ tick'.at = "resetting" /\ tick'.doing = "none" /\ tick.doing = "none"
  BY DEF TypeOK, TickHolds, TickStates
<1>2. r \in RowRecords /\ row' = [row EXCEPT ![f] = r]
  BY RowTyped, RowWritten DEF TypeOK
<1>3. /\ r.exists = row[f].exists /\ r.attempts = 0 /\ r.approval = "null" /\ r.policy = row[f].policy
      /\ r.cooling = FALSE
  BY RowTyped DEF RowRecords
<1>4. /\ row'[f] = r /\ ran'[f] = 0 /\ unrecorded'[f] = 0 /\ ~denied'[f]
      /\ \A g \in Fingerprints \ {f} : /\ row'[g] = row[g] /\ ran'[g] = ran[g]
                                       /\ unrecorded'[g] = unrecorded[g] /\ denied'[g] = denied[g]
  BY <1>2 DEF TypeOK
<1> HIDE DEF r
<1>5. TypeOK'
  <2>1. row' \in [Fingerprints -> RowRecords]
    BY <1>2 DEF TypeOK, RowRecords
  <2>2. QED BY <1>1, <2>1 DEF TypeOK, TickStates, RowRecords
<1>6. RowsMade' /\ AsksFirst'
  BY <1>3, <1>4 DEF RowsMade, AsksFirst
<1>7. OperatorHolds' /\ DenialAlone'
  <2>1. UNCHANGED operator /\ \A g \in Fingerprints : row'[g].exists = row[g].exists
                                                   /\ row'[g].policy = row[g].policy
    BY <1>3, <1>4
  <2>2. OperatorHolds'
    BY <2>1 DEF OperatorHolds
  <2>3. DenialAlone'
    <3>1. ASSUME NEW g \in Fingerprints, denied'[g] PROVE denied[g] /\ row'[g] = row[g]
      BY <1>4, <3>1, Zenon
    <3>2. tick'.doing \notin Fingerprints
      BY <1>1
    <3> SUFFICES ASSUME NEW g \in Fingerprints, denied'[g]
                 PROVE  /\ row'[g].approval = "denied" /\ tick'.doing # g
                        /\ \A o \in Operators : operator[o].at # "idle" => operator[o].on # g
      BY <2>1 DEF DenialAlone
    <3>3. denied[g] /\ row'[g] = row[g] /\ tick'.doing # g
      BY <3>1, <3>2, Zenon
    <3>4. QED BY <3>3 DEF DenialAlone
  <2>4. QED BY <2>2, <2>3
<1>8. TickHolds' /\ Counted'
  BY <1>1, <1>3, <1>4 DEF TypeOK, TickHolds, Counted, InFlight
<1>9. QED BY <1>5, <1>6, <1>7, <1>8

(* What is due has attempts left and no decision that stands.              *)
LEMMA ProcessInv == ASSUME IInv, NEW f \in Fingerprints, Process(f) PROVE IInv'
<1> DEFINE seen == Ensured(f)
           asks == Due(seen) /\ seen.policy = "approve"
           runs == Due(seen) /\ seen.policy = "auto"
<1> USE DEF IInv
<1>1. /\ tick.at = "alerts" /\ f \in tick.todo /\ tick.doing = "none"
      /\ row' = [row EXCEPT ![f] = seen]
      /\ UNCHANGED <<ran, unrecorded, denied, operator, playbook, maintained>>
  BY DEF Process, ticking
<1>2. /\ seen \in RowRecords /\ seen.exists
      /\ row[f].exists => seen = row[f]
      /\ ~row[f].exists => seen.attempts = 0 /\ seen.approval = "null" /\ ran[f] = 0 /\ unrecorded[f] = 0
  <2>1. CASE row[f].exists
    BY <2>1 DEF Ensured, TypeOK, RowRecords
  <2>2. CASE ~row[f].exists
    BY <2>2 DEF Ensured, TypeOK, RowRecords, RowsMade, NoRow
  <2>3. QED BY <2>1, <2>2
<1>3. denied[f] => ~Due(seen)
  BY <1>1, <1>2 DEF DenialAlone, AsksFirst, Due, Undecided
<1>4. /\ tick' \in TickStates /\ tick'.at \in {"alerts", "asking"}
      /\ tick'.at = "asking" => tick'.doing = f
      /\ tick'.doing # "none" => /\ tick'.doing = f /\ f \in tick'.todo /\ Due(seen)
                                 /\ tick'.at = "asking" => seen.policy = "approve"
                                 /\ tick'.at # "asking" => Running(seen, tick'.read)
  <2>1. seen.attempts \in Nat /\ tick \in TickStates
    BY <1>2 DEF RowRecords, TypeOK, TickStates
  <2>2. CASE runs /\ tick' = [tick EXCEPT !.doing = f, !.read = seen.attempts]
    <3> DEFINE a == seen.attempts
    <3>1. seen.policy = "auto" /\ a \in Nat /\ a < MaxAttempts /\ Due(seen)
      BY <2>1, <2>2 DEF Due, Spent
    <3>2. tick' = [tick EXCEPT !.doing = f, !.read = a] /\ (a = seen.attempts)
      BY <2>2
    <3> HIDE DEF a, seen
    <3>3. tick' \in TickStates
      BY <2>1, <3>1, <3>2 DEF TickStates
    <3>4. tick'.at = "alerts" /\ tick'.doing = f /\ tick'.todo = tick.todo /\ tick'.read = a
      BY <1>1, <2>1, <3>2 DEF TickStates
    <3>5. QED BY <1>1, <3>1, <3>2, <3>3, <3>4 DEF Running
  <2>3. CASE asks /\ tick' = [tick EXCEPT !.at = "asking", !.doing = f]
    <3>1. seen.policy = "approve" /\ Due(seen)
      BY <2>3
    <3> HIDE DEF seen
    <3>2. tick' \in TickStates /\ tick'.at = "asking" /\ tick'.doing = f /\ tick'.todo = tick.todo
      BY <2>1, <2>3 DEF TickStates
    <3>3. QED BY <1>1, <3>1, <3>2
  <2>4. CASE ~Due(seen) /\ tick' = [tick EXCEPT !.todo = @ \ {f}]
    <3> HIDE DEF seen
    <3>1. QED BY <1>1, <2>1, <2>4 DEF TickStates
  <2>5. QED BY <2>2, <2>3, <2>4 DEF Process
<1>5. seen.policy = "auto" => seen.attempts <= MaxAttempts /\ ran[f] = seen.attempts + unrecorded[f]
  BY <1>1, <1>2 DEF TypeOK, Counted, InFlight
<1> HIDE DEF seen
<1>6. TypeOK'
  BY <1>1, <1>2, <1>4 DEF TypeOK, TickStates, RowRecords
<1>7. RowsMade' /\ TickHolds'
  BY <1>1, <1>2, <1>4 DEF TypeOK, RowsMade, TickHolds
<1>8. AsksFirst'
  BY <1>1, <1>2 DEF TypeOK, AsksFirst
<1>9. OperatorHolds'
  BY <1>1, <1>2 DEF TypeOK, OperatorHolds
<1>10. DenialAlone'
  <2> SUFFICES ASSUME NEW g \in Fingerprints, denied[g]
               PROVE  /\ row'[g].approval = "denied" /\ tick'.doing # g
                      /\ \A o \in Operators : operator[o].at # "idle" => operator[o].on # g
    BY <1>1 DEF DenialAlone
  <2>1. row[g].approval = "denied" /\ row[g].exists
    BY DEF DenialAlone, AsksFirst
  <2>2. row'[g].approval = "denied"
    BY <1>1, <1>2, <2>1 DEF TypeOK
  <2>3. tick'.doing # g
    BY <1>3, <1>4, RemediationAssumption
  <2>4. QED BY <2>2, <2>3 DEF DenialAlone
<1>11. Counted'
  BY <1>1, <1>2, <1>4, <1>5 DEF TypeOK, Counted, InFlight
<1>12. QED BY <1>6, <1>7, <1>8, <1>9, <1>10, <1>11

(* The request comes where operators are asked, and over no denial that    *)
(* counts.                                                                 *)
LEMMA TickAsksInv == ASSUME IInv, TickAsks PROVE IInv'
<1> DEFINE f == tick.doing
           r == [row[f] EXCEPT !.approval = "pending"]
<1> USE DEF IInv, TickAsks, ticking
<1>1. f \in Fingerprints /\ row[f].exists /\ row[f].policy = "approve" /\ ~denied[f]
  BY DEF TypeOK, TickHolds, DenialAlone
<1>2. /\ row' = [row EXCEPT ![f] = r] /\ r \in RowRecords
      /\ r.exists /\ r.policy = "approve" /\ r.attempts = row[f].attempts
  BY <1>1, RowTyped DEF RowRecords, TypeOK
<1>3. /\ tick' \in TickStates /\ tick'.at = "alerts" /\ tick'.doing = "none"
      /\ tick.at # "queued"
  BY DEF TypeOK, TickStates
<1> HIDE DEF r
<1>4. TypeOK'
  BY <1>1, <1>2, <1>3 DEF TypeOK, TickStates, RowRecords
<1>5. RowsMade' /\ AsksFirst' /\ TickHolds' /\ OperatorHolds' /\ DenialAlone'
  BY <1>1, <1>2, <1>3 DEF TypeOK, RowsMade, AsksFirst, TickHolds, OperatorHolds, DenialAlone
<1>6. Counted'
  BY <1>1, <1>2, <1>3 DEF TypeOK, Counted, InFlight
<1>7. QED BY <1>4, <1>5, <1>6

LEMMA TickQueuesInv == ASSUME IInv, TickQueues PROVE IInv'
<1> USE DEF IInv, TickQueues, ticking
<1>1. tick.doing \in Fingerprints
  BY DEF TypeOK
<1>2. TypeOK'
  BY <1>1 DEF TypeOK
<1>3. RowsMade' /\ AsksFirst' /\ TickHolds' /\ OperatorHolds' /\ DenialAlone'
  BY <1>1 DEF TypeOK, RowsMade, AsksFirst, TickHolds, OperatorHolds, DenialAlone
<1>4. Counted'
  BY <1>1 DEF TypeOK, Counted, InFlight
<1>5. QED BY <1>2, <1>3, <1>4

LEMMA TickRecordsInv == ASSUME IInv, TickRecords PROVE IInv'
<1> DEFINE f == tick.doing
           r == [row[f] EXCEPT !.attempts = tick.read + 1, !.cooling = TRUE]
<1> USE DEF IInv, TickRecords, ticking
<1>1. /\ f \in Fingerprints /\ row[f].exists /\ row[f].policy = "auto"
      /\ row[f].attempts = tick.read /\ tick.read < MaxAttempts
  BY DEF TypeOK, TickHolds, Running
<1>2. r \in RowRecords /\ r.exists /\ r.policy = "auto" /\ r.approval = row[f].approval
      /\ r.attempts = row[f].attempts + 1
  <2>1. row[f] \in RowRecords /\ tick.read + 1 \in Nat
    BY <1>1 DEF TypeOK, RowRecords
  <2> HIDE DEF f
  <2>2. QED BY <1>1, <2>1 DEF RowRecords
<1>3. row' = [row EXCEPT ![f] = r]
  BY <1>1 DEF TypeOK, Recorded
<1> HIDE DEF r
<1>4. TypeOK'
  BY <1>1, <1>2, <1>3 DEF TypeOK, RowRecords
<1>5. RowsMade' /\ AsksFirst' /\ TickHolds' /\ OperatorHolds' /\ DenialAlone'
  BY <1>1, <1>2, <1>3 DEF TypeOK, RowsMade, AsksFirst, TickHolds, OperatorHolds, DenialAlone
<1>6. Counted'
  BY <1>1, <1>2, <1>3 DEF TypeOK, Counted, InFlight
<1>7. QED BY <1>4, <1>5, <1>6

-----------------------------------------------------------------------------
LEMMA DecideInv ==
  ASSUME IInv, NEW o \in Operators, NEW f \in Fingerprints, NEW a \in BOOLEAN, Decide(o, f, a)
  PROVE  IInv'
<1> USE DEF IInv, Decide, deciding
<1>1. row[f].approval = "pending" /\ row[f].exists /\ row[f].policy = "approve"
  BY DEF Asked, AsksFirst
<1>2. TypeOK'
  BY DEF TypeOK
<1>3. OperatorHolds' /\ DenialAlone'
  BY <1>1 DEF TypeOK, OperatorHolds, DenialAlone
<1>4. RowsMade' /\ AsksFirst' /\ TickHolds' /\ Counted'
  BY DEF RowsMade, AsksFirst, TickHolds, Counted, InFlight
<1>5. QED BY <1>2, <1>3, <1>4

(* The row of a decision is changed, in nothing the service relies on.     *)
LEMMA DecisionInv ==
  ASSUME IInv, NEW o \in Operators, Deny(o) \/ ApproveRecords(o) \/ Approved(o)
  PROVE  IInv'
<1> DEFINE f == operator[o].on
           r == row'[f]
           p == operator'[o]
<1> USE DEF IInv, deciding
<1>0. operator[o].at # "idle" /\ UNCHANGED <<playbook, tick, maintained, ran, unrecorded>>
  BY DEF Deny, ApproveRecords, Approved
<1>1. f \in Fingerprints /\ row[f].exists /\ row[f].policy = "approve" /\ ~denied[f]
  BY <1>0 DEF OperatorHolds, DenialAlone
<1>2. /\ row' = [row EXCEPT ![f] = r] /\ r \in RowRecords
      /\ r.exists /\ r.policy = "approve"
  <2>1. row[f] \in RowRecords /\ operator[o].read \in Nat
    BY <1>1 DEF TypeOK, RowRecords
  <2>2. CASE ApproveRecords(o)
    <3> DEFINE a == operator[o].read + 1
               n == [row[f] EXCEPT !.attempts = a, !.cooling = TRUE]
    <3>1. row' = [row EXCEPT ![f] = n]
      BY <2>2 DEF ApproveRecords, Recorded
    <3>2. n \in RowRecords
      <4>1. a \in Nat
        BY <2>1
      <4> HIDE DEF a
      <4>2. QED BY <2>1, <4>1, RowWritten
    <3>4. n.exists /\ n.policy = "approve"
      BY <1>1, <2>1 DEF RowRecords
    <3> HIDE DEF n
    <3>3. QED BY <1>1, <3>1, <3>2, <3>4 DEF TypeOK
  <2>3. CASE Deny(o) \/ Approved(o)
    <3>1. PICK d \in {"denied", "approved"} : row' = [row EXCEPT ![f].approval = d]
      BY <2>3 DEF Deny, Approved
    <3> DEFINE n == [row[f] EXCEPT !.approval = d]
    <3>2. row' = [row EXCEPT ![f] = n]
      BY <3>1
    <3>3. n \in RowRecords /\ n.exists /\ n.policy = "approve"
      BY <1>1, <2>1 DEF RowRecords
    <3> HIDE DEF n
    <3>4. QED BY <1>1, <3>2, <3>3 DEF TypeOK
  <2>4. QED BY <2>2, <2>3
<1>3. /\ operator' = [operator EXCEPT ![o] = p]
      /\ p \in [at : {"idle", "denying", "approving", "queued", "recorded"},
                on : Fingerprints \cup {"none"}, read : Nat]
      /\ p.at # "idle" => p.on = f
  <2>1. CASE Deny(o) \/ Approved(o)
    BY <1>1, <2>1 DEF TypeOK, Deny, Approved, IdleOperator
  <2>2. CASE ApproveRecords(o)
    <3> DEFINE n == [operator[o] EXCEPT !.at = "recorded", !.read = 0]
    <3>1. operator' = [operator EXCEPT ![o] = n]
      BY <2>2 DEF ApproveRecords
    <3>2. /\ n \in [at : {"idle", "denying", "approving", "queued", "recorded"},
                     on : Fingerprints \cup {"none"}, read : Nat]
          /\ n.on = f
      <4>1. operator[o] \in [at : {"idle", "denying", "approving", "queued", "recorded"},
                             on : Fingerprints \cup {"none"}, read : Nat]
        BY DEF TypeOK
      <4>2. QED BY <4>1
    <3> HIDE DEF n
    <3>3. p = n
      BY <3>1 DEF TypeOK
    <3>4. operator' = [operator EXCEPT ![o] = p]
      BY <3>1, <3>3
    <3> HIDE DEF p
    <3>5. QED BY <3>2, <3>3, <3>4
  <2>3. QED BY <2>1, <2>2
<1>4. /\ denied' \in [Fingerprints -> BOOLEAN]
      /\ \A g \in Fingerprints \ {f} : denied'[g] = denied[g]
      /\ denied'[f] => /\ r.approval = "denied" /\ p.at = "idle" /\ tick.doing # f
                       /\ \A q \in Operators \ {o} : operator[q].at # "idle" => operator[q].on # f
  <2>1. CASE ApproveRecords(o) \/ Approved(o)
    BY <1>1, <2>1 DEF TypeOK, ApproveRecords, Approved
  <2>2. CASE Deny(o)
    <3>1. /\ row' = [row EXCEPT ![f].approval = "denied"] /\ p = IdleOperator
          /\ denied' = [denied EXCEPT ![f] = Alone(o, f)]
      BY <2>2 DEF Deny, TypeOK
    <3>2. r.approval = "denied" /\ p.at = "idle"
      BY <1>1, <3>1 DEF TypeOK, IdleOperator
    <3>3. denied' \in [Fingerprints -> BOOLEAN]
          /\ \A g \in Fingerprints \ {f} : denied'[g] = denied[g]
      <4>1. Alone(o, f) \in BOOLEAN
        BY DEF Alone
      <4>2. QED BY <1>1, <3>1, <4>1 DEF TypeOK
    <3>4. ASSUME denied'[f] PROVE Deciding(f) = {o} /\ tick.doing # f
      BY <1>1, <3>1, <3>4 DEF TypeOK, Alone
    <3>5. QED BY <3>2, <3>3, <3>4 DEF Deciding
  <2>3. QED BY <2>1, <2>2
<1> HIDE DEF r, p
<1>5. TypeOK'
  BY <1>0, <1>1, <1>2, <1>3, <1>4 DEF TypeOK, RowRecords
<1>6. RowsMade' /\ AsksFirst' /\ TickHolds'
  BY <1>0, <1>1, <1>2 DEF TypeOK, RowsMade, AsksFirst, TickHolds, Running
<1>7. OperatorHolds'
  BY <1>1, <1>2, <1>3 DEF TypeOK, OperatorHolds
<1>8. DenialAlone'
  <2> SUFFICES ASSUME NEW g \in Fingerprints, denied'[g]
               PROVE  /\ row'[g].approval = "denied" /\ tick.doing # g
                      /\ \A q \in Operators : operator'[q].at # "idle" => operator'[q].on # g
    BY <1>0 DEF DenialAlone
  <2>1. CASE g = f
    BY <1>1, <1>2, <1>3, <1>4, <2>1 DEF TypeOK
  <2>2. CASE g # f
    <3>1. denied[g] /\ row'[g] = row[g]
      BY <1>2, <1>4, <2>2 DEF TypeOK
    <3>2. QED BY <1>3, <2>2, <3>1 DEF TypeOK, DenialAlone
  <2>3. QED BY <2>1, <2>2
<1>9. Counted'
  BY <1>0, <1>1, <1>2 DEF TypeOK, Counted, InFlight
<1>10. QED BY <1>5, <1>6, <1>7, <1>8, <1>9

LEMMA ApproveQueuesInv == ASSUME IInv, NEW o \in Operators, ApproveQueues(o) PROVE IInv'
<1> DEFINE f == operator[o].on
<1> USE DEF IInv, ApproveQueues, deciding
<1>1. f \in Fingerprints /\ row[f].exists /\ row[f].policy = "approve"
  BY DEF OperatorHolds
<1>2. TypeOK'
  BY <1>1 DEF TypeOK
<1>3. RowsMade' /\ AsksFirst' /\ TickHolds' /\ OperatorHolds' /\ DenialAlone'
  BY <1>1 DEF TypeOK, RowsMade, AsksFirst, TickHolds, OperatorHolds, DenialAlone
<1>4. Counted'
  BY <1>1 DEF TypeOK, Counted, InFlight
<1>5. QED BY <1>2, <1>3, <1>4

-----------------------------------------------------------------------------
LEMMA CooldownEndsInv == ASSUME IInv, NEW f \in Fingerprints, CooldownEnds(f) PROVE IInv'
<1> USE DEF IInv, CooldownEnds, ticking
<1>1. row[f].exists
  BY DEF RowsMade
<1>2. TypeOK'
  <2> DEFINE r == [row[f] EXCEPT !.cooling = FALSE]
  <2>1. r \in RowRecords
    BY RowTyped, RowWritten
  <2>2. row' = [row EXCEPT ![f] = r]
    OBVIOUS
  <2> HIDE DEF r
  <2>3. row' \in [Fingerprints -> RowRecords]
    <3>1. row \in [Fingerprints -> RowRecords]
      BY DEF TypeOK, RowRecords
    <3>2. QED BY <2>1, <2>2, <3>1
  <2>4. QED BY <2>3 DEF TypeOK, RowRecords
<1>3. /\ row'[f].exists /\ row'[f].policy = row[f].policy /\ row'[f].attempts = row[f].attempts
      /\ row'[f].approval = row[f].approval
      /\ \A g \in Fingerprints \ {f} : row'[g] = row[g]
  BY <1>1 DEF TypeOK
<1>4. RowsMade' /\ AsksFirst' /\ TickHolds' /\ OperatorHolds' /\ DenialAlone'
  BY <1>1, <1>3 DEF TypeOK, RowsMade, AsksFirst, TickHolds, Running, OperatorHolds, DenialAlone
<1>5. Counted'
  BY <1>3 DEF TypeOK, Counted, InFlight
<1>6. QED BY <1>2, <1>4, <1>5

LEMMA AsideInv ==
  ASSUME IInv, \/ \E f \in Fingerprints : AlertOpens(f) \/ AlertResolves(f)
               \/ WindowBegins \/ WindowEnds \/ UNCHANGED vars
  PROVE  IInv'
<1>1. UNCHANGED around /\ maintained' \in BOOLEAN
  BY DEF IInv, TypeOK, AlertOpens, AlertResolves, WindowBegins, WindowEnds, vars, around
<1>2. TypeOK'
  BY <1>1 DEF IInv, TypeOK, around
<1>3. QED BY <1>1, <1>2 DEF IInv, RowsMade, AsksFirst, TickHolds, OperatorHolds, DenialAlone, Counted,
                            InFlight, around

(* What was in flight when PiNOC ended is never recorded.                  *)
LEMMA RestartInv == ASSUME IInv, Restart PROVE IInv'
<1> USE DEF IInv, Restart
<1>1. \A f \in Fingerprints : QueuedBy(f) \in Nat
  <2> SUFFICES ASSUME NEW f \in Fingerprints PROVE QueuedBy(f) \in Nat
    OBVIOUS
  <2> DEFINE Q == {o \in Operators : operator[o].at = "queued" /\ operator[o].on = f}
  <2>1. IsFiniteSet(Q)
    BY FS_Subset
  <2>2. Cardinality(Q) \in Nat
    BY <2>1, FS_CardinalityType
  <2>3. QED BY <2>2 DEF QueuedBy
<1>2. \A f \in Fingerprints : row[f].policy = "auto" \/ ~row[f].exists => QueuedBy(f) = InFlight(f)
  <2> SUFFICES ASSUME NEW f \in Fingerprints, row[f].policy = "auto" \/ ~row[f].exists
               PROVE  QueuedBy(f) = InFlight(f)
    OBVIOUS
  <2>1. {o \in Operators : operator[o].at = "queued" /\ operator[o].on = f} = {}
    BY DEF OperatorHolds
  <2>2. Cardinality({o \in Operators : operator[o].at = "queued" /\ operator[o].on = f}) = 0
    BY <2>1, FS_EmptySet
  <2>3. QED BY <2>2 DEF QueuedBy, InFlight
<1>3. TypeOK'
  BY <1>1 DEF TypeOK, IdleTick, IdleOperator
<1>4. RowsMade'
  BY <1>2 DEF TypeOK, RowsMade, TickHolds, InFlight
<1>5. AsksFirst' /\ TickHolds' /\ OperatorHolds' /\ DenialAlone'
  BY DEF TypeOK, AsksFirst, TickHolds, OperatorHolds, DenialAlone, IdleTick, IdleOperator
<1>6. Counted'
  BY <1>1, <1>2 DEF TypeOK, Counted, InFlight, IdleTick
<1>7. QED BY <1>3, <1>4, <1>5, <1>6

LEMMA NextInv == IInv /\ [Next]_vars => IInv'
<1> SUFFICES ASSUME IInv, [Next]_vars PROVE IInv'
  OBVIOUS
<1>1. CASE TickStep
  BY <1>1, LoopInv, ResetInv, ProcessInv, TickAsksInv, TickQueuesInv, TickRecordsInv DEF TickStep
<1>2. CASE \E o \in Operators : \/ DecisionStep(o)
                                \/ \E f \in Fingerprints, a \in BOOLEAN : Decide(o, f, a)
  BY <1>2, DecideInv, DecisionInv, ApproveQueuesInv DEF DecisionStep
<1>3. CASE \E f \in Fingerprints : AlertOpens(f) \/ AlertResolves(f) \/ CooldownEnds(f)
  BY <1>3, AsideInv, CooldownEndsInv
<1>4. CASE WindowBegins \/ WindowEnds \/ UNCHANGED vars
  BY <1>4, AsideInv
<1>5. CASE Restart
  BY <1>5, RestartInv
<1>6. QED BY <1>1, <1>2, <1>3, <1>4, <1>5 DEF Next

-----------------------------------------------------------------------------
(* The rows, the threads and the counts stay in their domains.             *)
THEOREM TypeCorrect == RemediationSpec => []TypeOK
<1>1. RemediationInit => IInv
  BY InitInv
<1>2. IInv /\ [Next]_vars => IInv'
  BY NextInv
<1>3. IInv => TypeOK
  BY DEF IInv
<1>4. QED BY <1>1, <1>2, <1>3, PTL DEF RemediationSpec

(* _process() and _dispatch(): however alerts come and go, operators       *)
(* decide and PiNOC restarts, an alert's automatic dispatches stay within  *)
(* max_attempts, but for those a restart kept from being recorded.         *)
THEOREM Bounded == RemediationSpec => []AttemptsBounded
<1>1. RemediationInit => IInv
  BY InitInv
<1>2. IInv /\ [Next]_vars => IInv'
  BY NextInv
<1>3. IInv => AttemptsBounded
  <2> SUFFICES ASSUME IInv, NEW f \in Fingerprints, row[f].policy = "auto"
               PROVE  ran[f] <= MaxAttempts + unrecorded[f]
    BY DEF AttemptsBounded
  <2>1. /\ row[f].attempts \in Nat /\ unrecorded[f] \in Nat /\ row[f].attempts <= MaxAttempts
        /\ ran[f] = row[f].attempts + unrecorded[f] + InFlight(f)
    BY DEF IInv, TypeOK, Counted
  <2>2. InFlight(f) = 1 => row[f].attempts < MaxAttempts
    BY DEF IInv, TickHolds, Running, InFlight
  <2>3. QED BY <2>1, <2>2 DEF InFlight
<1>4. QED BY <1>1, <1>2, <1>3, PTL DEF RemediationSpec

(* decide(): a denial keeps tick() and every operator from dispatching     *)
(* until its row is reset, unless another operator was deciding, or tick() *)
(* about to ask, as it was written.                                        *)
Withheld == \A f \in Fingerprints : denied[f] => ran'[f] <= ran[f]

LEMMA NextWithheld == ASSUME IInv, [Next]_vars PROVE Withheld
<1> USE DEF IInv
<1> SUFFICES ASSUME NEW f \in Fingerprints, denied[f] PROVE ran'[f] <= ran[f]
  BY DEF Withheld
<1>1. /\ ran[f] \in Nat /\ row[f].policy = "approve"
      /\ tick.doing # f /\ \A o \in Operators : operator[o].at # "idle" => operator[o].on # f
  BY DEF TypeOK, AsksFirst, TickHolds, DenialAlone
<1>2. CASE UNCHANGED ran
  BY <1>1, <1>2
<1>3. CASE TickQueues
  BY <1>1, <1>3 DEF TypeOK, TickQueues
<1>4. CASE \E o \in Operators : ApproveQueues(o)
  BY <1>1, <1>4 DEF TypeOK, ApproveQueues
<1>5. CASE \E g \in Fingerprints : Reset(g)
  BY <1>1, <1>5 DEF TypeOK, Reset
<1>6. CASE \/ TickBegin \/ RowsListed \/ ResetDone \/ TickEnd \/ TickAsks \/ TickRecords
           \/ (\E g \in Fingerprints : Process(g))
           \/ (\E o \in Operators : Deny(o) \/ ApproveRecords(o) \/ Approved(o))
           \/ (\E o \in Operators, g \in Fingerprints, a \in BOOLEAN : Decide(o, g, a))
           \/ (\E g \in Fingerprints : AlertOpens(g) \/ AlertResolves(g) \/ CooldownEnds(g))
           \/ WindowBegins \/ WindowEnds \/ Restart \/ UNCHANGED vars
  BY <1>2, <1>6 DEF TickBegin, RowsListed, ResetDone, TickEnd, TickAsks, TickRecords, Process,
     Deny, ApproveRecords, Approved, Decide, AlertOpens, AlertResolves, CooldownEnds, WindowBegins, WindowEnds, Restart,
     vars, around
<1>7. QED BY <1>2, <1>3, <1>4, <1>5, <1>6 DEF Next, TickStep, DecisionStep

THEOREM Denied == RemediationSpec => DenialHolds
<1>1. RemediationInit => IInv
  BY InitInv
<1>2. IInv /\ [Next]_vars => IInv'
  BY NextInv
<1>3. IInv /\ [Next]_vars => [Withheld]_vars
  BY NextWithheld
<1>4. QED BY <1>1, <1>2, <1>3, PTL DEF RemediationSpec, DenialHolds, Withheld
=============================================================================
