-------------------------- MODULE DevGatewayProofs --------------------------
(***************************************************************************)
(* Proofs about DevGateway, for every set of jobs and administrators and   *)
(* every bound on attempts, cancels and faults.                            *)
(***************************************************************************)
EXTENDS DevGateway, TLAPS

LeftQueue(j) == status[j] \notin {"absent", "queued"}

(* The agent asks for a job, and is about to get one, only while it has    *)
(* none.                                                                   *)
OneAtATime ==
    /\ worker.at = "idle" <=> worker.job = NoJob
    /\ beats["live"].at \in {"claim", "mark"} \/ beats["live"].job # NoJob => worker.job = NoJob
    /\ beats["live"].at \in {"idle", "claim"} => beats["live"].job = NoJob
    /\ \A l \in Line : beats[l].at = "mark" => beats[l].job \in Job /\ status[beats[l].job] # "absent"

(* What the agent has or has executed has left the queue, and what it has  *)
(* not begun it has never executed.                                        *)
HandedOutOnce ==
    /\ \A j \in Job : runs[j] > 0 => LeftQueue(j)
    /\ \A j \in Job : worker.job = j => LeftQueue(j)
    /\ \A j \in Job : beats["live"].at = "answer" /\ beats["live"].job = j => LeftQueue(j)
    /\ \A j \in Job : beats["live"].job = j => runs[j] = 0
    /\ \A j \in Job : worker.at = "ack" /\ worker.job = j => runs[j] = 0
    /\ RunsAtMostOnce

(* A closed job is neither in the queue nor with the agent.                *)
ClosedIsHome == \A j \in closed : LeftQueue(j) /\ j \notin OnItsWay

(* cancel() has read the row of a job that exists.                         *)
CancelledExists == canceller.at = "write" => canceller.job \in Job /\ canceller.seen # "absent"

(* The inductive invariant behind the theorems.                            *)
IInv == TypeOK /\ OneAtATime /\ HandedOutOnce /\ ClosedIsHome /\ CancelledExists

-----------------------------------------------------------------------------
USE GatewayAssumption
    DEF Line, Active, Outcomes, Finished, Statuses, dbVars, serverVars, agentVars, bounds

LEMMA InitInv == GatewayInit => IInv
<1> SUFFICES ASSUME GatewayInit PROVE IInv
  OBVIOUS
<1> USE DEF GatewayInit, IdleBeat, IdlePost, IdleWorker, IdleCanceller, IdleAdmin
<1>1. RowsTypeOK
  BY DEF RowsTypeOK
<1>2. ServerTypeOK
  BY DEF ServerTypeOK
<1>3. AgentTypeOK
  BY DEF AgentTypeOK
<1>4. TypeOK
  BY <1>1, <1>2, <1>3 DEF TypeOK
<1>5. OneAtATime
  BY DEF OneAtATime
<1>6. HandedOutOnce
  BY DEF HandedOutOnce, RunsAtMostOnce
<1>7. ClosedIsHome /\ CancelledExists
  BY DEF ClosedIsHome, CancelledExists
<1>8. QED BY <1>4, <1>5, <1>6, <1>7 DEF IInv

LEMMA SubmitInv ==
  ASSUME IInv, NEW j \in Job, Submit(j), Observe
  PROVE  IInv'
<1> USE DEF IInv, Submit
<1>1. TypeOK'
  <2>1. RowsTypeOK'
    BY DEF TypeOK, RowsTypeOK, ServerTypeOK, AgentTypeOK
  <2>2. ServerTypeOK'
    BY DEF TypeOK, RowsTypeOK, ServerTypeOK
  <2>3. AgentTypeOK'
    BY DEF TypeOK, AgentTypeOK
  <2>4. closed' \subseteq Job
    BY DEF TypeOK, Observe
  <2>5. cancels' \in 0..MaxCancels /\ faults' \in 0..MaxFaults
    BY DEF TypeOK
  <2>6. QED BY <2>1, <2>2, <2>3, <2>4, <2>5 DEF TypeOK
<1>2. OneAtATime'
  BY DEF TypeOK, RowsTypeOK, ServerTypeOK, AgentTypeOK, OneAtATime
<1>3. HandedOutOnce'
  BY DEF TypeOK, RowsTypeOK, ServerTypeOK, AgentTypeOK, OneAtATime, HandedOutOnce, RunsAtMostOnce, LeftQueue, CancelledExists
<1>4. ClosedIsHome'
  BY DEF TypeOK, RowsTypeOK, ServerTypeOK, AgentTypeOK, OneAtATime, ClosedIsHome, OnItsWay, LeftQueue, CancelledExists, Observe
<1>5. CancelledExists'
  BY DEF TypeOK, RowsTypeOK, ServerTypeOK, CancelledExists
<1>6. QED BY <1>1, <1>2, <1>3, <1>4, <1>5

LEMMA AskApprovalInv ==
  ASSUME IInv, AskApproval, Observe
  PROVE  IInv'
<1> USE DEF IInv, AskApproval
<1>1. TypeOK'
  <2>1. RowsTypeOK'
    BY DEF TypeOK, RowsTypeOK, ServerTypeOK, AgentTypeOK
  <2>2. ServerTypeOK'
    BY DEF TypeOK, RowsTypeOK, ServerTypeOK
  <2>3. AgentTypeOK'
    BY DEF TypeOK, AgentTypeOK
  <2>4. closed' \subseteq Job
    BY DEF TypeOK, Observe
  <2>5. cancels' \in 0..MaxCancels /\ faults' \in 0..MaxFaults
    BY DEF TypeOK
  <2>6. QED BY <2>1, <2>2, <2>3, <2>4, <2>5 DEF TypeOK
<1>2. OneAtATime'
  BY DEF TypeOK, RowsTypeOK, ServerTypeOK, AgentTypeOK, OneAtATime
<1>3. HandedOutOnce'
  BY DEF TypeOK, RowsTypeOK, ServerTypeOK, AgentTypeOK, OneAtATime, HandedOutOnce, RunsAtMostOnce, LeftQueue, CancelledExists
<1>4. ClosedIsHome'
  BY DEF TypeOK, RowsTypeOK, ServerTypeOK, AgentTypeOK, OneAtATime, ClosedIsHome, OnItsWay, LeftQueue, CancelledExists, Observe
<1>5. CancelledExists'
  BY DEF TypeOK, RowsTypeOK, ServerTypeOK, CancelledExists
<1>6. QED BY <1>1, <1>2, <1>3, <1>4, <1>5

LEMMA ReadApprovalInv ==
  ASSUME IInv, NEW a \in Admin, NEW j \in Job, NEW approve \in BOOLEAN, ReadApproval(a, j, approve), Observe
  PROVE  IInv'
<1> USE DEF IInv, ReadApproval
<1>1. TypeOK'
  <2>1. RowsTypeOK'
    BY DEF TypeOK, RowsTypeOK, ServerTypeOK, AgentTypeOK
  <2>2. ServerTypeOK'
    BY DEF TypeOK, RowsTypeOK, ServerTypeOK
  <2>3. AgentTypeOK'
    BY DEF TypeOK, AgentTypeOK
  <2>4. closed' \subseteq Job
    BY DEF TypeOK, Observe
  <2>5. cancels' \in 0..MaxCancels /\ faults' \in 0..MaxFaults
    BY DEF TypeOK
  <2>6. QED BY <2>1, <2>2, <2>3, <2>4, <2>5 DEF TypeOK
<1>2. OneAtATime'
  BY DEF TypeOK, RowsTypeOK, ServerTypeOK, AgentTypeOK, OneAtATime
<1>3. HandedOutOnce'
  BY DEF TypeOK, RowsTypeOK, ServerTypeOK, AgentTypeOK, OneAtATime, HandedOutOnce, RunsAtMostOnce, LeftQueue, CancelledExists
<1>4. ClosedIsHome'
  BY DEF TypeOK, RowsTypeOK, ServerTypeOK, AgentTypeOK, OneAtATime, ClosedIsHome, OnItsWay, LeftQueue, CancelledExists, Observe
<1>5. CancelledExists'
  BY DEF TypeOK, RowsTypeOK, ServerTypeOK, CancelledExists
<1>6. QED BY <1>1, <1>2, <1>3, <1>4, <1>5

LEMMA WriteApprovalInv ==
  ASSUME IInv, NEW a \in Admin, WriteApproval(a), Observe
  PROVE  IInv'
<1> USE DEF IInv, WriteApproval, IdleAdmin
<1>1. TypeOK'
  <2>1. RowsTypeOK'
    BY DEF TypeOK, RowsTypeOK, ServerTypeOK, AgentTypeOK
  <2>2. ServerTypeOK'
    BY DEF TypeOK, RowsTypeOK, ServerTypeOK
  <2>3. AgentTypeOK'
    BY DEF TypeOK, AgentTypeOK
  <2>4. closed' \subseteq Job
    BY DEF TypeOK, Observe
  <2>5. cancels' \in 0..MaxCancels /\ faults' \in 0..MaxFaults
    BY DEF TypeOK
  <2>6. QED BY <2>1, <2>2, <2>3, <2>4, <2>5 DEF TypeOK
<1>2. OneAtATime'
  BY DEF TypeOK, RowsTypeOK, ServerTypeOK, AgentTypeOK, OneAtATime
<1>3. HandedOutOnce'
  BY DEF TypeOK, RowsTypeOK, ServerTypeOK, AgentTypeOK, OneAtATime, HandedOutOnce, RunsAtMostOnce, LeftQueue, CancelledExists
<1>4. ClosedIsHome'
  BY DEF TypeOK, RowsTypeOK, ServerTypeOK, AgentTypeOK, OneAtATime, ClosedIsHome, OnItsWay, LeftQueue, CancelledExists, Observe
<1>5. CancelledExists'
  BY DEF TypeOK, RowsTypeOK, ServerTypeOK, CancelledExists
<1>6. QED BY <1>1, <1>2, <1>3, <1>4, <1>5

LEMMA RejectJobInv ==
  ASSUME IInv, NEW a \in Admin, RejectJob(a), Observe
  PROVE  IInv'
<1> USE DEF IInv, RejectJob, IdleAdmin
<1>1. TypeOK'
  <2>1. RowsTypeOK'
    BY DEF TypeOK, RowsTypeOK, ServerTypeOK, AgentTypeOK
  <2>2. ServerTypeOK'
    BY DEF TypeOK, RowsTypeOK, ServerTypeOK
  <2>3. AgentTypeOK'
    BY DEF TypeOK, AgentTypeOK
  <2>4. closed' \subseteq Job
    BY DEF TypeOK, Observe
  <2>5. cancels' \in 0..MaxCancels /\ faults' \in 0..MaxFaults
    BY DEF TypeOK
  <2>6. QED BY <2>1, <2>2, <2>3, <2>4, <2>5 DEF TypeOK
<1>2. OneAtATime'
  BY DEF TypeOK, RowsTypeOK, ServerTypeOK, AgentTypeOK, OneAtATime
<1>3. HandedOutOnce'
  BY DEF TypeOK, RowsTypeOK, ServerTypeOK, AgentTypeOK, OneAtATime, HandedOutOnce, RunsAtMostOnce, LeftQueue, CancelledExists
<1>4. ClosedIsHome'
  BY DEF TypeOK, RowsTypeOK, ServerTypeOK, AgentTypeOK, OneAtATime, ClosedIsHome, OnItsWay, LeftQueue, CancelledExists, Observe
<1>5. CancelledExists'
  BY DEF TypeOK, RowsTypeOK, ServerTypeOK, CancelledExists
<1>6. QED BY <1>1, <1>2, <1>3, <1>4, <1>5

LEMMA ReadCancelledInv ==
  ASSUME IInv, NEW j \in Job, ReadCancelled(j), Observe
  PROVE  IInv'
<1> USE DEF IInv, ReadCancelled
<1>1. TypeOK'
  <2>1. RowsTypeOK'
    BY DEF TypeOK, RowsTypeOK, ServerTypeOK, AgentTypeOK
  <2>2. ServerTypeOK'
    BY DEF TypeOK, RowsTypeOK, ServerTypeOK
  <2>3. AgentTypeOK'
    BY DEF TypeOK, AgentTypeOK
  <2>4. closed' \subseteq Job
    BY DEF TypeOK, Observe
  <2>5. cancels' \in 0..MaxCancels /\ faults' \in 0..MaxFaults
    BY DEF TypeOK
  <2>6. QED BY <2>1, <2>2, <2>3, <2>4, <2>5 DEF TypeOK
<1>2. OneAtATime'
  BY DEF TypeOK, RowsTypeOK, ServerTypeOK, AgentTypeOK, OneAtATime
<1>3. HandedOutOnce'
  BY DEF TypeOK, RowsTypeOK, ServerTypeOK, AgentTypeOK, OneAtATime, HandedOutOnce, RunsAtMostOnce, LeftQueue, CancelledExists
<1>4. ClosedIsHome'
  BY DEF TypeOK, RowsTypeOK, ServerTypeOK, AgentTypeOK, OneAtATime, ClosedIsHome, OnItsWay, LeftQueue, CancelledExists, Observe
<1>5. CancelledExists'
  BY DEF TypeOK, RowsTypeOK, ServerTypeOK, CancelledExists
<1>6. QED BY <1>1, <1>2, <1>3, <1>4, <1>5

LEMMA WriteCancelledInv ==
  ASSUME IInv, WriteCancelled, Observe
  PROVE  IInv'
<1> USE DEF IInv, WriteCancelled, IdleCanceller
<1>a. canceller.seen \in Statuses /\ status \in [Job -> Statuses]
  BY DEF TypeOK, RowsTypeOK, ServerTypeOK
<1>b. PICK new \in Statuses : /\ status' = [status EXCEPT ![canceller.job] = new]
                             /\ new # "queued"
                             /\ new = "absent" => canceller.seen = "absent"
  BY <1>a
<1>1. TypeOK'
  <2>1. RowsTypeOK'
    BY <1>a, <1>b DEF CancelledExists, TypeOK, RowsTypeOK, ServerTypeOK, AgentTypeOK
  <2>2. ServerTypeOK'
    BY DEF TypeOK, RowsTypeOK, ServerTypeOK
  <2>3. AgentTypeOK'
    BY DEF TypeOK, AgentTypeOK
  <2>4. closed' \subseteq Job
    BY DEF TypeOK, Observe
  <2>5. cancels' \in 0..MaxCancels /\ faults' \in 0..MaxFaults
    BY DEF TypeOK
  <2>6. QED BY <2>1, <2>2, <2>3, <2>4, <2>5 DEF TypeOK
<1>2. OneAtATime'
  BY <1>b DEF CancelledExists, TypeOK, RowsTypeOK, ServerTypeOK, AgentTypeOK, OneAtATime
<1>3. HandedOutOnce'
  BY <1>b DEF TypeOK, RowsTypeOK, ServerTypeOK, AgentTypeOK, OneAtATime, HandedOutOnce, RunsAtMostOnce, LeftQueue, CancelledExists
<1>4. ClosedIsHome'
  BY <1>b DEF TypeOK, RowsTypeOK, ServerTypeOK, AgentTypeOK, OneAtATime, ClosedIsHome, OnItsWay, LeftQueue, CancelledExists, Observe
<1>5. CancelledExists'
  BY DEF TypeOK, RowsTypeOK, ServerTypeOK, CancelledExists
<1>6. QED BY <1>1, <1>2, <1>3, <1>4, <1>5

LEMMA FindSilentInv ==
  ASSUME IInv, FindSilent, Observe
  PROVE  IInv'
<1> USE DEF IInv, FindSilent
<1>1. TypeOK'
  <2>1. RowsTypeOK'
    BY DEF TypeOK, RowsTypeOK, ServerTypeOK, AgentTypeOK
  <2>2. ServerTypeOK'
    BY DEF TypeOK, RowsTypeOK, ServerTypeOK
  <2>3. AgentTypeOK'
    BY DEF TypeOK, AgentTypeOK
  <2>4. closed' \subseteq Job
    BY DEF TypeOK, Observe
  <2>5. cancels' \in 0..MaxCancels /\ faults' \in 0..MaxFaults
    BY DEF TypeOK
  <2>6. QED BY <2>1, <2>2, <2>3, <2>4, <2>5 DEF TypeOK
<1>2. OneAtATime'
  BY DEF TypeOK, RowsTypeOK, ServerTypeOK, AgentTypeOK, OneAtATime
<1>3. HandedOutOnce'
  BY DEF TypeOK, RowsTypeOK, ServerTypeOK, AgentTypeOK, OneAtATime, HandedOutOnce, RunsAtMostOnce, LeftQueue, CancelledExists
<1>4. ClosedIsHome'
  BY DEF TypeOK, RowsTypeOK, ServerTypeOK, AgentTypeOK, OneAtATime, ClosedIsHome, OnItsWay, LeftQueue, CancelledExists, Observe
<1>5. CancelledExists'
  BY DEF TypeOK, RowsTypeOK, ServerTypeOK, CancelledExists
<1>6. QED BY <1>1, <1>2, <1>3, <1>4, <1>5

LEMMA WriteOffInv ==
  ASSUME IInv, WriteOff, Observe
  PROVE  IInv'
<1> USE DEF IInv, WriteOff, Lost
<1>1. TypeOK'
  <2>1. RowsTypeOK'
    BY DEF TypeOK, RowsTypeOK, ServerTypeOK, AgentTypeOK
  <2>2. ServerTypeOK'
    BY DEF TypeOK, RowsTypeOK, ServerTypeOK
  <2>3. AgentTypeOK'
    BY DEF TypeOK, AgentTypeOK
  <2>4. closed' \subseteq Job
    BY DEF TypeOK, Observe
  <2>5. cancels' \in 0..MaxCancels /\ faults' \in 0..MaxFaults
    BY DEF TypeOK
  <2>6. QED BY <2>1, <2>2, <2>3, <2>4, <2>5 DEF TypeOK
<1>2. OneAtATime'
  BY DEF TypeOK, RowsTypeOK, ServerTypeOK, AgentTypeOK, OneAtATime
<1>3. HandedOutOnce'
  BY DEF TypeOK, RowsTypeOK, ServerTypeOK, AgentTypeOK, OneAtATime, HandedOutOnce, RunsAtMostOnce, LeftQueue, CancelledExists
<1>4. ClosedIsHome'
  BY DEF TypeOK, RowsTypeOK, ServerTypeOK, AgentTypeOK, OneAtATime, ClosedIsHome, OnItsWay, LeftQueue, CancelledExists, Observe
<1>5. CancelledExists'
  BY DEF TypeOK, RowsTypeOK, ServerTypeOK, CancelledExists
<1>6. QED BY <1>1, <1>2, <1>3, <1>4, <1>5

LEMMA BeatInv ==
  ASSUME IInv, Beat, Observe
  PROVE  IInv'
<1> USE DEF IInv, Beat
<1>1. TypeOK'
  <2>1. RowsTypeOK'
    BY DEF TypeOK, RowsTypeOK, ServerTypeOK, AgentTypeOK
  <2>2. ServerTypeOK'
    BY DEF TypeOK, RowsTypeOK, ServerTypeOK
  <2>3. AgentTypeOK'
    BY DEF TypeOK, AgentTypeOK
  <2>4. closed' \subseteq Job
    BY DEF TypeOK, Observe
  <2>5. cancels' \in 0..MaxCancels /\ faults' \in 0..MaxFaults
    BY DEF TypeOK
  <2>6. QED BY <2>1, <2>2, <2>3, <2>4, <2>5 DEF TypeOK
<1>2. OneAtATime'
  BY DEF TypeOK, RowsTypeOK, ServerTypeOK, AgentTypeOK, OneAtATime
<1>3. HandedOutOnce'
  BY DEF TypeOK, RowsTypeOK, ServerTypeOK, AgentTypeOK, OneAtATime, HandedOutOnce, RunsAtMostOnce, LeftQueue, CancelledExists
<1>4. ClosedIsHome'
  BY DEF TypeOK, RowsTypeOK, ServerTypeOK, AgentTypeOK, OneAtATime, ClosedIsHome, OnItsWay, LeftQueue, CancelledExists, Observe
<1>5. CancelledExists'
  BY DEF TypeOK, RowsTypeOK, ServerTypeOK, CancelledExists
<1>6. QED BY <1>1, <1>2, <1>3, <1>4, <1>5

LEMMA ReadClaimInv ==
  ASSUME IInv, NEW l \in Line, ReadClaim(l), Observe
  PROVE  IInv'
<1> USE DEF IInv, ReadClaim, ClaimEnds, IdleBeat, NextJob, Oldest, Queued
<1>1. TypeOK'
  <2>1. RowsTypeOK'
    BY DEF TypeOK, RowsTypeOK, ServerTypeOK, AgentTypeOK
  <2>2. ServerTypeOK'
    BY DEF TypeOK, RowsTypeOK, ServerTypeOK
  <2>3. AgentTypeOK'
    BY DEF TypeOK, AgentTypeOK
  <2>4. closed' \subseteq Job
    BY DEF TypeOK, Observe
  <2>5. cancels' \in 0..MaxCancels /\ faults' \in 0..MaxFaults
    BY DEF TypeOK
  <2>6. QED BY <2>1, <2>2, <2>3, <2>4, <2>5 DEF TypeOK
<1>2. OneAtATime'
  BY DEF TypeOK, RowsTypeOK, ServerTypeOK, AgentTypeOK, OneAtATime
<1>3. HandedOutOnce'
  BY DEF TypeOK, RowsTypeOK, ServerTypeOK, AgentTypeOK, OneAtATime, HandedOutOnce, RunsAtMostOnce, LeftQueue, CancelledExists
<1>4. ClosedIsHome'
  BY DEF TypeOK, RowsTypeOK, ServerTypeOK, AgentTypeOK, OneAtATime, ClosedIsHome, OnItsWay, LeftQueue, CancelledExists, Observe
<1>5. CancelledExists'
  BY DEF TypeOK, RowsTypeOK, ServerTypeOK, CancelledExists
<1>6. QED BY <1>1, <1>2, <1>3, <1>4, <1>5

LEMMA MarkClaimInv ==
  ASSUME IInv, NEW l \in Line, MarkClaim(l), Observe
  PROVE  IInv'
<1> USE DEF IInv, MarkClaim, ClaimEnds, IdleBeat
<1>1. TypeOK'
  <2>1. RowsTypeOK'
    BY DEF TypeOK, RowsTypeOK, ServerTypeOK, AgentTypeOK
  <2>2. ServerTypeOK'
    BY DEF TypeOK, RowsTypeOK, ServerTypeOK
  <2>3. AgentTypeOK'
    BY DEF TypeOK, AgentTypeOK
  <2>4. closed' \subseteq Job
    BY DEF TypeOK, Observe
  <2>5. cancels' \in 0..MaxCancels /\ faults' \in 0..MaxFaults
    BY DEF TypeOK
  <2>6. QED BY <2>1, <2>2, <2>3, <2>4, <2>5 DEF TypeOK
<1>2. OneAtATime'
  BY DEF TypeOK, RowsTypeOK, ServerTypeOK, AgentTypeOK, OneAtATime
<1>3. HandedOutOnce'
  BY DEF TypeOK, RowsTypeOK, ServerTypeOK, AgentTypeOK, OneAtATime, HandedOutOnce, RunsAtMostOnce, LeftQueue, CancelledExists
<1>4. ClosedIsHome'
  BY DEF TypeOK, RowsTypeOK, ServerTypeOK, AgentTypeOK, OneAtATime, ClosedIsHome, OnItsWay, LeftQueue, CancelledExists, Observe
<1>5. CancelledExists'
  BY DEF TypeOK, RowsTypeOK, ServerTypeOK, CancelledExists
<1>6. QED BY <1>1, <1>2, <1>3, <1>4, <1>5

LEMMA AnswerInv ==
  ASSUME IInv, Answer, Observe
  PROVE  IInv'
<1> USE DEF IInv, Answer, IdleBeat, IdleWorker
<1>1. TypeOK'
  <2>1. RowsTypeOK'
    BY DEF TypeOK, RowsTypeOK, ServerTypeOK, AgentTypeOK
  <2>2. ServerTypeOK'
    BY DEF TypeOK, RowsTypeOK, ServerTypeOK
  <2>3. AgentTypeOK'
    <3>1. cancelled' \subseteq Job
      BY DEF TypeOK, RowsTypeOK, AgentTypeOK, Cancellations
    <3>2. beats["live"].job \in Job \cup {NoJob} /\ 0 \in 0..(MaxAttempts - 1)
      BY DEF TypeOK, AgentTypeOK
    <3>3. worker' \in [at : {"idle", "ack", "run", "report"}, job : Job \cup {NoJob},
                      attempts : 0..(MaxAttempts - 1), result : {"running"} \cup Outcomes]
      BY <3>2 DEF TypeOK, AgentTypeOK
    <3>4. beats' \in [Line -> [at : {"idle", "claim", "mark", "answer"}, job : Job \cup {NoJob}]]
      BY DEF TypeOK, AgentTypeOK
    <3>5. QED BY <3>1, <3>3, <3>4 DEF TypeOK, AgentTypeOK
  <2>4. closed' \subseteq Job
    BY DEF TypeOK, Observe
  <2>5. cancels' \in 0..MaxCancels /\ faults' \in 0..MaxFaults
    BY DEF TypeOK
  <2>6. QED BY <2>1, <2>2, <2>3, <2>4, <2>5 DEF TypeOK
<1>2. OneAtATime'
  BY DEF TypeOK, RowsTypeOK, ServerTypeOK, AgentTypeOK, OneAtATime
<1>3. HandedOutOnce'
  BY DEF TypeOK, RowsTypeOK, ServerTypeOK, AgentTypeOK, OneAtATime, HandedOutOnce, RunsAtMostOnce, LeftQueue, CancelledExists
<1>4. ClosedIsHome'
  BY DEF TypeOK, RowsTypeOK, ServerTypeOK, AgentTypeOK, OneAtATime, ClosedIsHome, OnItsWay, LeftQueue, CancelledExists, Observe
<1>5. CancelledExists'
  BY DEF TypeOK, RowsTypeOK, ServerTypeOK, CancelledExists
<1>6. QED BY <1>1, <1>2, <1>3, <1>4, <1>5

LEMMA PostInv ==
  ASSUME IInv, Post, Observe
  PROVE  IInv'
<1> USE DEF IInv, Post
<1>1. TypeOK'
  <2>1. RowsTypeOK'
    BY DEF TypeOK, RowsTypeOK, ServerTypeOK, AgentTypeOK
  <2>2. ServerTypeOK'
    BY DEF TypeOK, RowsTypeOK, ServerTypeOK
  <2>3. AgentTypeOK'
    BY DEF TypeOK, AgentTypeOK
  <2>4. closed' \subseteq Job
    BY DEF TypeOK, Observe
  <2>5. cancels' \in 0..MaxCancels /\ faults' \in 0..MaxFaults
    BY DEF TypeOK
  <2>6. QED BY <2>1, <2>2, <2>3, <2>4, <2>5 DEF TypeOK
<1>2. OneAtATime'
  BY DEF TypeOK, RowsTypeOK, ServerTypeOK, AgentTypeOK, OneAtATime
<1>3. HandedOutOnce'
  BY DEF TypeOK, RowsTypeOK, ServerTypeOK, AgentTypeOK, OneAtATime, HandedOutOnce, RunsAtMostOnce, LeftQueue, CancelledExists
<1>4. ClosedIsHome'
  BY DEF TypeOK, RowsTypeOK, ServerTypeOK, AgentTypeOK, OneAtATime, ClosedIsHome, OnItsWay, LeftQueue, CancelledExists, Observe
<1>5. CancelledExists'
  BY DEF TypeOK, RowsTypeOK, ServerTypeOK, CancelledExists
<1>6. QED BY <1>1, <1>2, <1>3, <1>4, <1>5

LEMMA ReadResultInv ==
  ASSUME IInv, NEW l \in Line, ReadResult(l), Observe
  PROVE  IInv'
<1> USE DEF IInv, ReadResult, ResultEnds, IdlePost
<1>1. TypeOK'
  <2>1. RowsTypeOK'
    BY DEF TypeOK, RowsTypeOK, ServerTypeOK, AgentTypeOK
  <2>2. ServerTypeOK'
    BY DEF TypeOK, RowsTypeOK, ServerTypeOK
  <2>3. AgentTypeOK'
    BY DEF TypeOK, AgentTypeOK
  <2>4. closed' \subseteq Job
    BY DEF TypeOK, Observe
  <2>5. cancels' \in 0..MaxCancels /\ faults' \in 0..MaxFaults
    BY DEF TypeOK
  <2>6. QED BY <2>1, <2>2, <2>3, <2>4, <2>5 DEF TypeOK
<1>2. OneAtATime'
  BY DEF TypeOK, RowsTypeOK, ServerTypeOK, AgentTypeOK, OneAtATime
<1>3. HandedOutOnce'
  BY DEF TypeOK, RowsTypeOK, ServerTypeOK, AgentTypeOK, OneAtATime, HandedOutOnce, RunsAtMostOnce, LeftQueue, CancelledExists
<1>4. ClosedIsHome'
  BY DEF TypeOK, RowsTypeOK, ServerTypeOK, AgentTypeOK, OneAtATime, ClosedIsHome, OnItsWay, LeftQueue, CancelledExists, Observe
<1>5. CancelledExists'
  BY DEF TypeOK, RowsTypeOK, ServerTypeOK, CancelledExists
<1>6. QED BY <1>1, <1>2, <1>3, <1>4, <1>5

LEMMA WriteResultInv ==
  ASSUME IInv, NEW l \in Line, WriteResult(l), Observe
  PROVE  IInv'
<1> USE DEF IInv, WriteResult, ResultEnds, IdlePost
<1>1. TypeOK'
  <2>1. RowsTypeOK'
    BY DEF TypeOK, RowsTypeOK, ServerTypeOK, AgentTypeOK
  <2>2. ServerTypeOK'
    BY DEF TypeOK, RowsTypeOK, ServerTypeOK
  <2>3. AgentTypeOK'
    BY DEF TypeOK, AgentTypeOK
  <2>4. closed' \subseteq Job
    BY DEF TypeOK, Observe
  <2>5. cancels' \in 0..MaxCancels /\ faults' \in 0..MaxFaults
    BY DEF TypeOK
  <2>6. QED BY <2>1, <2>2, <2>3, <2>4, <2>5 DEF TypeOK
<1>2. OneAtATime'
  BY DEF TypeOK, RowsTypeOK, ServerTypeOK, AgentTypeOK, OneAtATime
<1>3. HandedOutOnce'
  BY DEF TypeOK, RowsTypeOK, ServerTypeOK, AgentTypeOK, OneAtATime, HandedOutOnce, RunsAtMostOnce, LeftQueue, CancelledExists
<1>4. ClosedIsHome'
  BY DEF TypeOK, RowsTypeOK, ServerTypeOK, AgentTypeOK, OneAtATime, ClosedIsHome, OnItsWay, LeftQueue, CancelledExists, Observe
<1>5. CancelledExists'
  BY DEF TypeOK, RowsTypeOK, ServerTypeOK, CancelledExists
<1>6. QED BY <1>1, <1>2, <1>3, <1>4, <1>5

LEMMA DeliveredInv ==
  ASSUME IInv, Delivered, Observe
  PROVE  IInv'
<1> USE DEF IInv, Delivered
<1>1. /\ beats["live"].job \in Job \cup {NoJob} /\ worker.job \in Job \cup {NoJob}
      /\ worker \in [at : {"idle", "ack", "run", "report"}, job : Job \cup {NoJob},
                     attempts : 0..(MaxAttempts - 1), result : {"running"} \cup Outcomes]
      /\ runs \in [Job -> Nat] /\ 0 \in 0..(MaxAttempts - 1)
  BY DEF TypeOK, AgentTypeOK
<1>2. UNCHANGED <<status, beats, canceller>>
  OBVIOUS
<1>3. CASE worker.at = "ack"
  <2>1. worker.job \in Job /\ runs[worker.job] = 0 /\ LeftQueue(worker.job)
    BY <1>1, <1>3 DEF OneAtATime, HandedOutOnce
  <2>2. worker' = [worker EXCEPT !.at = "run", !.attempts = 0] /\ worker'.job = worker.job
    BY <1>1, <1>3
  <2>3. runs' \in [Job -> Nat] /\ \A j \in Job : runs'[j] = IF j = worker.job THEN 1 ELSE runs[j]
    BY <1>1, <1>3, <2>1
  <2>4. worker'.at = "run" /\ beats["live"].job = NoJob
    BY <1>1, <2>1, <2>2 DEF OneAtATime, HandedOutOnce, TypeOK, AgentTypeOK
  <2>5. AgentTypeOK'
    <3>1. worker' \in [at : {"idle", "ack", "run", "report"}, job : Job \cup {NoJob},
                      attempts : 0..(MaxAttempts - 1), result : {"running"} \cup Outcomes]
      BY <1>1, <2>2
    <3>2. posts' \in [Line -> [at : {"idle", "read", "write", "answer", "broken"},
                              job : Job \cup {NoJob}, body : {"running"} \cup Outcomes]]
      BY DEF TypeOK, AgentTypeOK, IdlePost
    <3>3. QED BY <2>3, <3>1, <3>2 DEF TypeOK, AgentTypeOK
  <2>6. TypeOK'
    BY <2>5 DEF TypeOK, RowsTypeOK, ServerTypeOK, Observe
  <2>7. OneAtATime'
    BY <1>1, <1>2, <2>1, <2>2, <2>4 DEF OneAtATime
  <2>8. HandedOutOnce'
    BY <1>1, <1>2, <2>1, <2>2, <2>3, <2>4 DEF HandedOutOnce, RunsAtMostOnce, LeftQueue
  <2>9. ClosedIsHome'
    BY <1>2, <2>1, <2>2 DEF ClosedIsHome, OnItsWay, LeftQueue, Observe
  <2>10. CancelledExists'
    BY <1>2 DEF CancelledExists
  <2>11. QED BY <2>6, <2>7, <2>8, <2>9, <2>10
<1>4. CASE worker.at # "ack"
  <2>1. worker' = IdleWorker /\ runs' = runs /\ worker'.at = "idle" /\ worker'.job = NoJob
    BY <1>4 DEF IdleWorker
  <2>2. AgentTypeOK'
    <3>1. worker' \in [at : {"idle", "ack", "run", "report"}, job : Job \cup {NoJob},
                      attempts : 0..(MaxAttempts - 1), result : {"running"} \cup Outcomes]
      BY <1>1, <2>1 DEF IdleWorker
    <3>2. posts' \in [Line -> [at : {"idle", "read", "write", "answer", "broken"},
                              job : Job \cup {NoJob}, body : {"running"} \cup Outcomes]]
      BY DEF TypeOK, AgentTypeOK, IdlePost
    <3>3. QED BY <2>1, <3>1, <3>2 DEF TypeOK, AgentTypeOK
  <2>3. TypeOK'
    BY <2>2 DEF TypeOK, RowsTypeOK, ServerTypeOK, Observe
  <2>4. OneAtATime'
    BY <1>1, <1>2, <2>1 DEF OneAtATime
  <2>5. HandedOutOnce'
    BY <1>1, <1>2, <2>1 DEF HandedOutOnce, RunsAtMostOnce, LeftQueue
  <2>6. ClosedIsHome'
    BY <1>1, <1>2, <2>1 DEF ClosedIsHome, OnItsWay, LeftQueue, Observe
  <2>7. CancelledExists'
    BY <1>2 DEF CancelledExists
  <2>8. QED BY <2>3, <2>4, <2>5, <2>6, <2>7
<1>5. QED BY <1>3, <1>4

LEMMA DeliveryFailsInv ==
  ASSUME IInv, DeliveryFails, Observe
  PROVE  IInv'
<1> USE DEF IInv, DeliveryFails, GiveUp, IdlePost, IdleWorker
<1>1. TypeOK'
  <2>1. RowsTypeOK'
    BY DEF TypeOK, RowsTypeOK, ServerTypeOK, AgentTypeOK
  <2>2. ServerTypeOK'
    BY DEF TypeOK, RowsTypeOK, ServerTypeOK
  <2>3. AgentTypeOK'
    BY DEF TypeOK, AgentTypeOK
  <2>4. closed' \subseteq Job
    BY DEF TypeOK, Observe
  <2>5. cancels' \in 0..MaxCancels /\ faults' \in 0..MaxFaults
    BY DEF TypeOK
  <2>6. QED BY <2>1, <2>2, <2>3, <2>4, <2>5 DEF TypeOK
<1>2. OneAtATime'
  BY DEF TypeOK, RowsTypeOK, ServerTypeOK, AgentTypeOK, OneAtATime
<1>3. HandedOutOnce'
  BY DEF TypeOK, RowsTypeOK, ServerTypeOK, AgentTypeOK, OneAtATime, HandedOutOnce, RunsAtMostOnce, LeftQueue, CancelledExists
<1>4. ClosedIsHome'
  BY DEF TypeOK, RowsTypeOK, ServerTypeOK, AgentTypeOK, OneAtATime, ClosedIsHome, OnItsWay, LeftQueue, CancelledExists, Observe
<1>5. CancelledExists'
  BY DEF TypeOK, RowsTypeOK, ServerTypeOK, CancelledExists
<1>6. QED BY <1>1, <1>2, <1>3, <1>4, <1>5

LEMMA ExecuteInv ==
  ASSUME IInv, NEW outcome \in Outcomes, Execute(outcome), Observe
  PROVE  IInv'
<1> USE DEF IInv, Execute
<1>1. TypeOK'
  <2>1. RowsTypeOK'
    BY DEF TypeOK, RowsTypeOK, ServerTypeOK, AgentTypeOK
  <2>2. ServerTypeOK'
    BY DEF TypeOK, RowsTypeOK, ServerTypeOK
  <2>3. AgentTypeOK'
    BY DEF TypeOK, AgentTypeOK
  <2>4. closed' \subseteq Job
    BY DEF TypeOK, Observe
  <2>5. cancels' \in 0..MaxCancels /\ faults' \in 0..MaxFaults
    BY DEF TypeOK
  <2>6. QED BY <2>1, <2>2, <2>3, <2>4, <2>5 DEF TypeOK
<1>2. OneAtATime'
  BY DEF TypeOK, RowsTypeOK, ServerTypeOK, AgentTypeOK, OneAtATime
<1>3. HandedOutOnce'
  BY DEF TypeOK, RowsTypeOK, ServerTypeOK, AgentTypeOK, OneAtATime, HandedOutOnce, RunsAtMostOnce, LeftQueue, CancelledExists
<1>4. ClosedIsHome'
  BY DEF TypeOK, RowsTypeOK, ServerTypeOK, AgentTypeOK, OneAtATime, ClosedIsHome, OnItsWay, LeftQueue, CancelledExists, Observe
<1>5. CancelledExists'
  BY DEF TypeOK, RowsTypeOK, ServerTypeOK, CancelledExists
<1>6. QED BY <1>1, <1>2, <1>3, <1>4, <1>5

LEMMA BeatFailsInv ==
  ASSUME IInv, BeatFails, Observe
  PROVE  IInv'
<1> USE DEF IInv, BeatFails, Fault, GiveUp, IdleBeat
<1>1. TypeOK'
  <2>1. RowsTypeOK'
    BY DEF TypeOK, RowsTypeOK, ServerTypeOK, AgentTypeOK
  <2>2. ServerTypeOK'
    BY DEF TypeOK, RowsTypeOK, ServerTypeOK
  <2>3. AgentTypeOK'
    BY DEF TypeOK, AgentTypeOK
  <2>4. closed' \subseteq Job
    BY DEF TypeOK, Observe
  <2>5. cancels' \in 0..MaxCancels /\ faults' \in 0..MaxFaults
    BY DEF TypeOK
  <2>6. QED BY <2>1, <2>2, <2>3, <2>4, <2>5 DEF TypeOK
<1>2. OneAtATime'
  BY DEF TypeOK, RowsTypeOK, ServerTypeOK, AgentTypeOK, OneAtATime
<1>3. HandedOutOnce'
  BY DEF TypeOK, RowsTypeOK, ServerTypeOK, AgentTypeOK, OneAtATime, HandedOutOnce, RunsAtMostOnce, LeftQueue, CancelledExists
<1>4. ClosedIsHome'
  BY DEF TypeOK, RowsTypeOK, ServerTypeOK, AgentTypeOK, OneAtATime, ClosedIsHome, OnItsWay, LeftQueue, CancelledExists, Observe
<1>5. CancelledExists'
  BY DEF TypeOK, RowsTypeOK, ServerTypeOK, CancelledExists
<1>6. QED BY <1>1, <1>2, <1>3, <1>4, <1>5

LEMMA GoesSilentInv ==
  ASSUME IInv, GoesSilent, Observe
  PROVE  IInv'
<1> USE DEF IInv, GoesSilent, Fault
<1>1. TypeOK'
  <2>1. RowsTypeOK'
    BY DEF TypeOK, RowsTypeOK, ServerTypeOK, AgentTypeOK
  <2>2. ServerTypeOK'
    BY DEF TypeOK, RowsTypeOK, ServerTypeOK
  <2>3. AgentTypeOK'
    BY DEF TypeOK, AgentTypeOK
  <2>4. closed' \subseteq Job
    BY DEF TypeOK, Observe
  <2>5. cancels' \in 0..MaxCancels /\ faults' \in 0..MaxFaults
    BY DEF TypeOK
  <2>6. QED BY <2>1, <2>2, <2>3, <2>4, <2>5 DEF TypeOK
<1>2. OneAtATime'
  BY DEF TypeOK, RowsTypeOK, ServerTypeOK, AgentTypeOK, OneAtATime
<1>3. HandedOutOnce'
  BY DEF TypeOK, RowsTypeOK, ServerTypeOK, AgentTypeOK, OneAtATime, HandedOutOnce, RunsAtMostOnce, LeftQueue, CancelledExists
<1>4. ClosedIsHome'
  BY DEF TypeOK, RowsTypeOK, ServerTypeOK, AgentTypeOK, OneAtATime, ClosedIsHome, OnItsWay, LeftQueue, CancelledExists, Observe
<1>5. CancelledExists'
  BY DEF TypeOK, RowsTypeOK, ServerTypeOK, CancelledExists
<1>6. QED BY <1>1, <1>2, <1>3, <1>4, <1>5

LEMMA AgentCrashesInv ==
  ASSUME IInv, AgentCrashes, Observe
  PROVE  IInv'
<1> USE DEF IInv, AgentCrashes, Fault, GiveUp, IdleBeat, IdlePost, IdleWorker
<1>1. TypeOK'
  <2>1. RowsTypeOK'
    BY DEF TypeOK, RowsTypeOK, ServerTypeOK, AgentTypeOK
  <2>2. ServerTypeOK'
    BY DEF TypeOK, RowsTypeOK, ServerTypeOK
  <2>3. AgentTypeOK'
    BY DEF TypeOK, AgentTypeOK
  <2>4. closed' \subseteq Job
    BY DEF TypeOK, Observe
  <2>5. cancels' \in 0..MaxCancels /\ faults' \in 0..MaxFaults
    BY DEF TypeOK
  <2>6. QED BY <2>1, <2>2, <2>3, <2>4, <2>5 DEF TypeOK
<1>2. OneAtATime'
  BY DEF TypeOK, RowsTypeOK, ServerTypeOK, AgentTypeOK, OneAtATime
<1>3. HandedOutOnce'
  BY DEF TypeOK, RowsTypeOK, ServerTypeOK, AgentTypeOK, OneAtATime, HandedOutOnce, RunsAtMostOnce, LeftQueue, CancelledExists
<1>4. ClosedIsHome'
  BY DEF TypeOK, RowsTypeOK, ServerTypeOK, AgentTypeOK, OneAtATime, ClosedIsHome, OnItsWay, LeftQueue, CancelledExists, Observe
<1>5. CancelledExists'
  BY DEF TypeOK, RowsTypeOK, ServerTypeOK, CancelledExists
<1>6. QED BY <1>1, <1>2, <1>3, <1>4, <1>5

LEMMA ServerRestartsInv ==
  ASSUME IInv, ServerRestarts, Observe
  PROVE  IInv'
<1> USE DEF IInv, ServerRestarts, Fault, Lost, IdleCanceller, IdleAdmin, IdleBeat, IdlePost
<1>1. TypeOK'
  <2>1. RowsTypeOK'
    BY DEF TypeOK, RowsTypeOK, ServerTypeOK, AgentTypeOK
  <2>2. ServerTypeOK'
    BY DEF TypeOK, RowsTypeOK, ServerTypeOK
  <2>3. AgentTypeOK'
    BY DEF TypeOK, AgentTypeOK
  <2>4. closed' \subseteq Job
    BY DEF TypeOK, Observe
  <2>5. cancels' \in 0..MaxCancels /\ faults' \in 0..MaxFaults
    BY DEF TypeOK
  <2>6. QED BY <2>1, <2>2, <2>3, <2>4, <2>5 DEF TypeOK
<1>2. OneAtATime'
  BY DEF TypeOK, RowsTypeOK, ServerTypeOK, AgentTypeOK, OneAtATime
<1>3. HandedOutOnce'
  BY DEF TypeOK, RowsTypeOK, ServerTypeOK, AgentTypeOK, OneAtATime, HandedOutOnce, RunsAtMostOnce, LeftQueue, CancelledExists
<1>4. ClosedIsHome'
  BY DEF TypeOK, RowsTypeOK, ServerTypeOK, AgentTypeOK, OneAtATime, ClosedIsHome, OnItsWay, LeftQueue, CancelledExists, Observe
<1>5. CancelledExists'
  BY DEF TypeOK, RowsTypeOK, ServerTypeOK, CancelledExists
<1>6. QED BY <1>1, <1>2, <1>3, <1>4, <1>5

LEMMA StepInv == IInv /\ [GatewayNext]_vars => IInv'
<1> SUFFICES ASSUME IInv, [GatewayNext]_vars PROVE IInv'
  OBVIOUS
<1>1. CASE UNCHANGED vars
  BY <1>1 DEF vars, IInv, TypeOK, RowsTypeOK, ServerTypeOK, AgentTypeOK, OneAtATime, HandedOutOnce, RunsAtMostOnce, ClosedIsHome,
     CancelledExists, LeftQueue, OnItsWay
<1>2. CASE GatewayNext
  <2>1. GatewayStep /\ Observe
    BY <1>2 DEF GatewayNext
  <2>2. CASE \E j \in Job : Submit(j)
    BY <2>1, <2>2, SubmitInv
  <2>3. CASE AskApproval
    BY <2>1, <2>3, AskApprovalInv
  <2>4. CASE \E a \in Admin, j \in Job, approve \in BOOLEAN : ReadApproval(a, j, approve)
    BY <2>1, <2>4, ReadApprovalInv
  <2>5. CASE \E a \in Admin : WriteApproval(a)
    BY <2>1, <2>5, WriteApprovalInv
  <2>6. CASE \E a \in Admin : RejectJob(a)
    BY <2>1, <2>6, RejectJobInv
  <2>7. CASE \E j \in Job : ReadCancelled(j)
    BY <2>1, <2>7, ReadCancelledInv
  <2>8. CASE WriteCancelled
    BY <2>1, <2>8, WriteCancelledInv
  <2>9. CASE FindSilent
    BY <2>1, <2>9, FindSilentInv
  <2>10. CASE WriteOff
    BY <2>1, <2>10, WriteOffInv
  <2>11. CASE Beat
    BY <2>1, <2>11, BeatInv
  <2>12. CASE \E l \in Line : ReadClaim(l)
    BY <2>1, <2>12, ReadClaimInv
  <2>13. CASE \E l \in Line : MarkClaim(l)
    BY <2>1, <2>13, MarkClaimInv
  <2>14. CASE Answer
    BY <2>1, <2>14, AnswerInv
  <2>15. CASE Post
    BY <2>1, <2>15, PostInv
  <2>16. CASE \E l \in Line : ReadResult(l)
    BY <2>1, <2>16, ReadResultInv
  <2>17. CASE \E l \in Line : WriteResult(l)
    BY <2>1, <2>17, WriteResultInv
  <2>18. CASE Delivered
    BY <2>1, <2>18, DeliveredInv
  <2>19. CASE DeliveryFails
    BY <2>1, <2>19, DeliveryFailsInv
  <2>20. CASE \E outcome \in Outcomes : Execute(outcome)
    BY <2>1, <2>20, ExecuteInv
  <2>21. CASE BeatFails
    BY <2>1, <2>21, BeatFailsInv
  <2>22. CASE GoesSilent
    BY <2>1, <2>22, GoesSilentInv
  <2>23. CASE AgentCrashes
    BY <2>1, <2>23, AgentCrashesInv
  <2>24. CASE ServerRestarts
    BY <2>1, <2>24, ServerRestartsInv
  <2>25. QED BY <2>1, <2>2, <2>3, <2>4, <2>5, <2>6, <2>7, <2>8, <2>9, <2>10, <2>11, <2>12, <2>13, <2>14, <2>15, <2>16, <2>17, <2>18, <2>19, <2>20, <2>21, <2>22, <2>23, <2>24 DEF GatewayStep
<1>3. QED BY <1>1, <1>2

LEMMA Invariance == GatewaySpec => []IInv
<1>1. QED BY InitInv, StepInv, PTL DEF GatewaySpec

-----------------------------------------------------------------------------
(* The rows, the handlers and the agent keep to their domains.             *)
THEOREM TypeCorrect == GatewaySpec => []TypeOK
<1>1. IInv => TypeOK
  BY DEF IInv
<1>2. QED BY <1>1, Invariance, PTL

(* No job is executed twice, however many requests are lost or repeated.   *)
THEOREM AtMostOnce == GatewaySpec => []RunsAtMostOnce
<1>1. IInv => RunsAtMostOnce
  BY DEF IInv, HandedOutOnce
<1>2. QED BY <1>1, Invariance, PTL

(* What was cancelled, rejected or written off before it was handed out    *)
(* never reaches the agent.                                                *)
THEOREM ClosedStaysHome == GatewaySpec => []FinishedStaysHome
<1>1. IInv => FinishedStaysHome
  BY DEF IInv, ClosedIsHome, FinishedStaysHome
<1>2. QED BY <1>1, Invariance, PTL
=============================================================================
