----------------------------- MODULE DevGateway -----------------------------
(***************************************************************************)
(* pinoc/development.py and pinoc_agent.py: the development jobs of one    *)
(* device, its agent, and the HTTP handlers between them.  Every handler   *)
(* reads a row and writes it later, without a lock.                        *)
(*                                                                         *)
(* The agent has two threads: run() sends a heartbeat and waits for its    *)
(* answer, execute_job() sends the reports of current_job and waits for    *)
(* theirs.  A request whose answer is lost or comes too late is given up   *)
(* by the agent while its handler, a "stray" one, goes on.                 *)
(***************************************************************************)
EXTENDS Integers

CONSTANTS Job,           (* job ids in the order of their requested_at       *)
          NeedsApproval, (* jobs of a state-changing test profile            *)
          Admin,         (* threads of decide()                              *)
          NoJob,         (* current_job is None                              *)
          MaxAttempts,   (* MAX_DELIVERY_ATTEMPTS                            *)
          MaxCancels,    (* bound on cancel()                                *)
          MaxFaults      (* bound on heartbeats given up, silences, crashes  *)
                         (* of the agent and restarts of the server          *)

ASSUME GatewayAssumption == /\ Job \subseteq Nat
                            /\ NeedsApproval \subseteq Job
                            /\ NoJob \notin Job
                            /\ MaxAttempts \in Nat \ {0}
                            /\ MaxCancels \in Nat /\ MaxFaults \in Nat

VARIABLES status,     (* development_jobs.status                             *)
          approval,   (* job_approvals.status, "none" without a row          *)
          asked,      (* jobs with cancel_requested = 1                      *)
          submitting, (* the job submit() still owes its row of approval     *)
          canceller,  (* the thread of cancel() and the status it read       *)
          admins,     (* the threads of decide()                             *)
          checker,    (* _agent() has found last_seen too old                *)
          beats,      (* handlers of a heartbeat: the live one, a stray one  *)
          posts,      (* handlers of a report: the live one, a stray one     *)
          worker,     (* the agent's execute_job() and current_job           *)
          cancelled,  (* Executor.cancelled: jobs the agent was told to stop *)
          silent,     (* last_seen is older than offline_seconds             *)
          runs,       (* how often the agent has executed a job              *)
          closed,     (* jobs once seen finished with nothing of them at the *)
                      (* agent                                               *)
          cancels, faults

dbVars     == <<status, approval, asked>>
serverVars == <<submitting, canceller, admins, checker>>
agentVars  == <<beats, posts, worker, cancelled, runs>>
bounds     == <<cancels, faults>>
vars       == <<dbVars, serverVars, agentVars, silent, bounds, closed>>

Line     == {"live", "stray"}
Active   == {"dispatched", "running"}
Outcomes == {"done", "cancelled"}   (* "done": succeeded, failed or timed_out, which no *)
                                    (* step tells apart                                 *)
Finished == Outcomes \cup {"agent_lost", "rejected"}
Statuses == {"absent", "queued"} \cup Active \cup Finished

IdleBeat      == [at |-> "idle", job |-> NoJob]
IdlePost      == [at |-> "idle", job |-> NoJob, body |-> "running"]
IdleWorker    == [at |-> "idle", job |-> NoJob, attempts |-> 0, result |-> "running"]
IdleCanceller == [at |-> "idle", job |-> NoJob, seen |-> "absent"]
IdleAdmin     == [at |-> "idle", job |-> NoJob, approve |-> FALSE]

GatewayInit == /\ status = [j \in Job |-> "absent"]
               /\ approval = [j \in Job |-> "none"]
               /\ asked = {}
               /\ submitting = NoJob
               /\ canceller = IdleCanceller
               /\ admins = [a \in Admin |-> IdleAdmin]
               /\ checker = FALSE
               /\ beats = [l \in Line |-> IdleBeat]
               /\ posts = [l \in Line |-> IdlePost]
               /\ worker = IdleWorker
               /\ cancelled = {}
               /\ silent = FALSE
               /\ runs = [j \in Job |-> 0]
               /\ closed = {}
               /\ cancels = 0
               /\ faults = 0

-----------------------------------------------------------------------------
(* submit(): the row of the job, and later the row of its approval.        *)
Submit(j) == /\ submitting = NoJob /\ ~silent
             /\ status[j] = "absent"
             /\ \A i \in Job : i < j => status[i] # "absent"
             /\ status' = [status EXCEPT ![j] = "queued"]
             /\ submitting' = IF j \in NeedsApproval THEN j ELSE NoJob
             /\ UNCHANGED <<approval, asked, canceller, admins, checker, agentVars, silent, bounds>>

AskApproval == /\ submitting # NoJob
               /\ approval' = [approval EXCEPT ![submitting] = "pending"]
               /\ submitting' = NoJob
               /\ UNCHANGED <<status, asked, canceller, admins, checker, agentVars, silent, bounds>>

(* decide(): the row of the approval is written first, that of the job     *)
(* second.                                                                 *)
ReadApproval(a, j, approve) ==
    /\ admins[a].at = "idle" /\ approval[j] = "pending"
    /\ admins' = [admins EXCEPT ![a] = [at |-> "approval", job |-> j, approve |-> approve]]
    /\ UNCHANGED <<dbVars, submitting, canceller, checker, agentVars, silent, bounds>>

WriteApproval(a) ==
    LET it == admins[a] IN
    /\ it.at = "approval"
    /\ approval' = [approval EXCEPT ![it.job] = IF it.approve THEN "approved" ELSE "rejected"]
    /\ admins' = [admins EXCEPT ![a] = IF it.approve THEN IdleAdmin ELSE [it EXCEPT !.at = "job"]]
    /\ UNCHANGED <<status, asked, submitting, canceller, checker, agentVars, silent, bounds>>

RejectJob(a) == /\ admins[a].at = "job"
                /\ status' = [status EXCEPT ![admins[a].job] = "rejected"]
                /\ admins' = [admins EXCEPT ![a] = IdleAdmin]
                /\ UNCHANGED <<approval, asked, submitting, canceller, checker, agentVars, silent, bounds>>

(* cancel(): the status that was read is written back.                     *)
ReadCancelled(j) == /\ canceller.at = "idle" /\ cancels < MaxCancels
                    /\ status[j] # "absent"
                    /\ canceller' = [at |-> "write", job |-> j, seen |-> status[j]]
                    /\ cancels' = cancels + 1
                    /\ UNCHANGED <<dbVars, submitting, admins, checker, agentVars, silent, faults>>

(* Mutation of WriteCancelled: the status is left to the agent.            *)
WriteCancelledFlag == /\ canceller.at = "write"
                      /\ asked' = asked \cup {canceller.job}
                      /\ status' = [status EXCEPT ![canceller.job] = canceller.seen]
                      /\ canceller' = IdleCanceller
                      /\ UNCHANGED <<approval, submitting, admins, checker, agentVars, silent, bounds>>

WriteCancelled ==
    /\ canceller.at = "write"
    /\ asked' = asked \cup {canceller.job}
    /\ status' = [status EXCEPT ![canceller.job] = IF canceller.seen = "queued" THEN "cancelled"
                                                  ELSE canceller.seen]
    /\ canceller' = IdleCanceller
    /\ UNCHANGED <<approval, submitting, admins, checker, agentVars, silent, bounds>>

(* agents(): whoever lists the agents, submit() among them, writes off the *)
(* jobs of a silent one.                                                   *)
Lost == [j \in Job |-> IF status[j] \in Active THEN "agent_lost" ELSE status[j]]

FindSilent == /\ silent /\ ~checker
              /\ checker' = TRUE
              /\ UNCHANGED <<dbVars, submitting, canceller, admins, agentVars, silent, bounds>>

(* Mutation of WriteOff: the jobs of a lost agent are queued again.        *)
WriteOffRequeues == /\ checker
                    /\ checker' = FALSE
                    /\ status' = [j \in Job |-> IF status[j] \in Active THEN "queued" ELSE status[j]]
                    /\ UNCHANGED <<approval, asked, submitting, canceller, admins, agentVars, silent, bounds>>

WriteOff == /\ checker
            /\ checker' = FALSE
            /\ status' = Lost
            /\ UNCHANGED <<approval, asked, submitting, canceller, admins, agentVars, silent, bounds>>

-----------------------------------------------------------------------------
(* run(): the heartbeat, which asks for a job when current_job is None.    *)
Beat == /\ beats["live"].at = "idle"
        /\ beats' = [beats EXCEPT !["live"].at = IF worker.job = NoJob THEN "claim" ELSE "answer"]
        /\ silent' = FALSE
        /\ UNCHANGED <<dbVars, serverVars, posts, worker, cancelled, runs, bounds>>

(* claim(): the oldest queued job without a pending approval, if any ...    *)
Queued    == {j \in Job : status[j] = "queued"}
Oldest(S) == {j \in S : \A i \in S : j <= i}

(* Mutation of NextJob: the oldest queued job, if it is free to go.        *)
NextJobHead == {j \in Oldest(Queued) : approval[j] # "pending"}
NextJob == Oldest({j \in Queued : approval[j] # "pending"})

(* Nobody waits for the answer of a stray handler.                         *)
ClaimEnds(l, job) == IF l = "live" THEN [at |-> "answer", job |-> job] ELSE IdleBeat

ReadClaim(l) == /\ beats[l].at = "claim"
                /\ \/ /\ NextJob = {}
                      /\ beats' = [beats EXCEPT ![l] = ClaimEnds(l, NoJob)]
                   \/ \E j \in NextJob : beats' = [beats EXCEPT ![l] = [at |-> "mark", job |-> j]]
                /\ UNCHANGED <<dbVars, serverVars, posts, worker, cancelled, runs, silent, bounds>>

(* ... is handed out whether or not the UPDATE found it still queued.      *)
MarkClaim(l) == LET j == beats[l].job IN
                /\ beats[l].at = "mark"
                /\ status' = IF status[j] = "queued" THEN [status EXCEPT ![j] = "dispatched"] ELSE status
                /\ beats' = [beats EXCEPT ![l] = ClaimEnds(l, j)]
                /\ UNCHANGED <<approval, asked, serverVars, posts, worker, cancelled, runs, silent, bounds>>

(* The answer: jobs to cancel, and the job to execute.                     *)
Cancellations == {j \in asked : status[j] \in Active}

Answer == LET j == beats["live"].job IN
          /\ beats["live"].at = "answer"
          /\ beats' = [beats EXCEPT !["live"] = IdleBeat]
          /\ cancelled' = cancelled \cup Cancellations
          /\ worker' = IF j = NoJob THEN worker ELSE [IdleWorker EXCEPT !.at = "ack", !.job = j]
          /\ UNCHANGED <<dbVars, serverVars, posts, runs, silent, bounds>>

-----------------------------------------------------------------------------
(* execute_job(): "running" is reported before the job is executed, its    *)
(* result after it; _deliver() gives up after MaxAttempts.                 *)
Post == /\ worker.at \in {"ack", "report"} /\ posts["live"].at = "idle"
        /\ posts' = [posts EXCEPT !["live"] = [at |-> "read", job |-> worker.job, body |-> worker.result]]
        /\ UNCHANGED <<dbVars, serverVars, beats, worker, cancelled, runs, silent, bounds>>

(* result(): a job that is finished is answered as it is.                  *)
ResultEnds(l) == IF l = "live" THEN [posts[l] EXCEPT !.at = "answer"] ELSE IdlePost

ReadResult(l) == /\ posts[l].at = "read"
                 /\ posts' = [posts EXCEPT ![l] = IF status[@.job] \in Finished THEN ResultEnds(l)
                                                  ELSE [@ EXCEPT !.at = "write"]]
                 /\ UNCHANGED <<dbVars, serverVars, beats, worker, cancelled, runs, silent, bounds>>

WriteResult(l) == /\ posts[l].at = "write"
                  /\ status' = [status EXCEPT ![posts[l].job] = posts[l].body]
                  /\ posts' = [posts EXCEPT ![l] = ResultEnds(l)]
                  /\ UNCHANGED <<approval, asked, serverVars, beats, worker, cancelled, runs, silent, bounds>>

(* The answer does not say whether the job was finished before.            *)
Delivered == /\ posts["live"].at = "answer"
             /\ posts' = [posts EXCEPT !["live"] = IdlePost]
             /\ IF worker.at = "ack"
                THEN /\ worker' = [worker EXCEPT !.at = "run", !.attempts = 0]
                     /\ runs' = [runs EXCEPT ![worker.job] = @ + 1]
                ELSE /\ worker' = IdleWorker
                     /\ UNCHANGED runs
             /\ UNCHANGED <<dbVars, serverVars, beats, cancelled, silent, bounds>>

(* What becomes of the handlers of requests the agent gives up: the bound  *)
(* is one stray handler of each kind at a time.                            *)
GiveUp(calls, idle) ==
    LET left == calls["stray"] = idle /\ calls["live"].at \notin {"answer", "broken"}
    IN [l \in Line |-> IF l = "live" THEN idle ELSE IF left THEN calls["live"] ELSE calls["stray"]]

(* Mutation of DeliveryFails: the report is sent until it is accepted.     *)
DeliveryFailsForever ==
    /\ posts["live"].at # "idle"
    /\ posts' \in {GiveUp(posts, IdlePost), [posts EXCEPT !["live"] = IdlePost]}
    /\ worker' = [worker EXCEPT !.attempts = IF @ + 1 < MaxAttempts THEN @ + 1 ELSE @]
    /\ UNCHANGED <<dbVars, serverVars, beats, cancelled, runs, silent, bounds>>

(* The request did not arrive, was refused, or its answer is lost.         *)
DeliveryFails ==
    /\ posts["live"].at # "idle"
    /\ posts' \in {GiveUp(posts, IdlePost), [posts EXCEPT !["live"] = IdlePost]}
    /\ worker' = IF worker.attempts + 1 >= MaxAttempts THEN IdleWorker
                 ELSE [worker EXCEPT !.attempts = @ + 1]
    /\ UNCHANGED <<dbVars, serverVars, beats, cancelled, runs, silent, bounds>>

(* Executor.execute(): a cancel that came in makes the result "cancelled", *)
(* unless the time was over or the job refused.                            *)
Execute(outcome) ==
    /\ worker.at = "run"
    /\ outcome = "cancelled" => worker.job \in cancelled
    /\ worker' = [worker EXCEPT !.at = "report", !.result = outcome]
    /\ cancelled' = cancelled \ {worker.job}
    /\ UNCHANGED <<dbVars, serverVars, beats, posts, runs, silent, bounds>>

-----------------------------------------------------------------------------
(* What goes wrong.                                                        *)
Fault == faults < MaxFaults /\ faults' = faults + 1

BeatFails == /\ Fault
             /\ beats["live"].at # "idle"
             /\ beats' = GiveUp(beats, IdleBeat)
             /\ UNCHANGED <<dbVars, serverVars, posts, worker, cancelled, runs, silent, cancels>>

GoesSilent == /\ Fault
              /\ ~silent
              /\ silent' = TRUE
              /\ UNCHANGED <<dbVars, serverVars, agentVars, cancels>>

AgentCrashes == /\ Fault
                /\ worker' = IdleWorker /\ cancelled' = {}
                /\ beats' = GiveUp(beats, IdleBeat)
                /\ posts' = GiveUp(posts, IdlePost)
                /\ UNCHANGED <<dbVars, serverVars, runs, silent, cancels>>

(* __init__() writes off every job that was handed out.                    *)
ServerRestarts ==
    /\ Fault
    /\ status' = Lost
    /\ submitting' = NoJob
    /\ canceller' = IdleCanceller
    /\ admins' = [a \in Admin |-> IdleAdmin]
    /\ checker' = FALSE
    /\ beats' = [l \in Line |-> IdleBeat]
    /\ posts' = [l \in Line |-> IF l = "live" /\ posts[l].at # "idle"
                                THEN [posts[l] EXCEPT !.at = "broken"] ELSE IdlePost]
    /\ UNCHANGED <<approval, asked, worker, cancelled, runs, silent, cancels>>

-----------------------------------------------------------------------------
GatewayStep ==
    \/ \E j \in Job : Submit(j) \/ ReadCancelled(j)
    \/ \E a \in Admin, j \in Job, approve \in BOOLEAN : ReadApproval(a, j, approve)
    \/ \E a \in Admin : WriteApproval(a) \/ RejectJob(a)
    \/ AskApproval \/ WriteCancelled \/ FindSilent \/ WriteOff
    \/ Beat \/ Answer \/ Post \/ Delivered \/ DeliveryFails
    \/ \E l \in Line : ReadClaim(l) \/ MarkClaim(l) \/ ReadResult(l) \/ WriteResult(l)
    \/ \E outcome \in Outcomes : Execute(outcome)
    \/ BeatFails \/ GoesSilent \/ AgentCrashes \/ ServerRestarts

(* What the agent has of a job, or is about to get.                        *)
OnItsWay == {beats["live"].job, worker.job} \ {NoJob}

Observe == closed' = closed \cup {j \in Job : status'[j] \in Finished /\ j \notin OnItsWay'}

GatewayNext == GatewayStep /\ Observe

GatewaySpec == GatewayInit /\ [][GatewayNext]_vars

(* The agent's loop and its worker go on; an execution has a time limit;   *)
(* the server's handlers come to their end.                                *)
FairSpec ==
    /\ GatewaySpec
    /\ WF_vars((Beat \/ ReadClaim("live") \/ MarkClaim("live") \/ Answer) /\ Observe)
    /\ WF_vars(Post /\ Observe)
    /\ WF_vars((\E outcome \in Outcomes : Execute(outcome)) /\ Observe)
    /\ WF_vars((ReadResult("live") \/ WriteResult("live") \/ Delivered \/ DeliveryFails) /\ Observe)

-----------------------------------------------------------------------------
(* The rows, the handlers and the agent stay in their domains.             *)
RowsTypeOK == /\ status \in [Job -> Statuses]
              /\ approval \in [Job -> {"none", "pending", "approved", "rejected"}]
              /\ asked \subseteq Job

ServerTypeOK ==
    /\ submitting \in NeedsApproval \cup {NoJob}
    /\ canceller \in [at : {"idle", "write"}, job : Job \cup {NoJob}, seen : Statuses]
    /\ admins \in [Admin -> [at : {"idle", "approval", "job"}, job : Job \cup {NoJob}, approve : BOOLEAN]]
    /\ checker \in BOOLEAN /\ silent \in BOOLEAN

AgentTypeOK ==
    /\ beats \in [Line -> [at : {"idle", "claim", "mark", "answer"}, job : Job \cup {NoJob}]]
    /\ posts \in [Line -> [at : {"idle", "read", "write", "answer", "broken"}, job : Job \cup {NoJob},
                           body : {"running"} \cup Outcomes]]
    /\ worker \in [at : {"idle", "ack", "run", "report"}, job : Job \cup {NoJob},
                   attempts : 0..(MaxAttempts - 1), result : {"running"} \cup Outcomes]
    /\ cancelled \subseteq Job /\ runs \in [Job -> Nat]

TypeOK == /\ RowsTypeOK /\ ServerTypeOK /\ AgentTypeOK
          /\ closed \subseteq Job
          /\ cancels \in 0..MaxCancels /\ faults \in 0..MaxFaults

(* No job is executed twice, although claim() hands out what another claim *)
(* may have taken, answers get lost, stale statuses are written back and   *)
(* either side restarts.                                                   *)
RunsAtMostOnce == \A j \in Job : runs[j] <= 1

(* A job once finished while the agent had nothing of it (cancelled,       *)
(* rejected or written off) is never handed out, although handlers write   *)
(* back statuses they read before.                                         *)
FinishedStaysHome == closed \cap OnItsWay = {}

(* "An unbounded retry here permanently wedges the agent": whatever the    *)
(* server answers, the agent gets rid of a job it has taken.               *)
AgentFreed == \A j \in Job : worker.job = j ~> worker.job # j

(* A job free to go leaves the queue, also behind one that waits for its   *)
(* approval.                                                               *)
QueuedMoves == \A j \in Job :
    status[j] = "queued" /\ (j \notin NeedsApproval \/ approval[j] = "approved") ~> status[j] # "queued"

=============================================================================
