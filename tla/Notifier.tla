------------------------------ MODULE Notifier ------------------------------
(***************************************************************************)
(* pinoc/notifications.py: threads that open and resolve alerts enqueue    *)
(* messages, one worker fans each out to all channels through a pool and   *)
(* records the results, request and report threads send past the queue,    *)
(* and main() stops the service when PiNOC ends.  Messages are numbered in *)
(* the order in which the queue takes them.                                *)
(***************************************************************************)
EXTENDS Naturals, Sequences

CONSTANTS Channels,     (* enabled channels, numbered as configured          *)
          Producers,    (* threads that raise alerts                         *)
          QueueSize,    (* queue_size                                        *)
          MaxMessages,  (* bound: messages accepted                          *)
          MaxDirect     (* bound: messages sent past the queue               *)

ASSUME NotifierAssumption == /\ Channels \subseteq Nat
                             /\ QueueSize \in Nat \ {0}
                             /\ MaxMessages \in Nat /\ MaxDirect \in Nat

VARIABLES queue,     (* messages that wait                                   *)
          raising,   (* producers between the tests of enqueue() and the put *)
          accepted,  (* messages the queue has taken so far                  *)
          worker,    (* _run(): where it is and the message in hand          *)
          unsent,    (* sends the pool has not made yet                      *)
          unheard,   (* channels whose result the worker has not recorded    *)
          tried,     (* per channel, the messages attempted, in order        *)
          counted,   (* per channel, sent and failed together                *)
          logged,    (* per channel, rows of notification_log                *)
          direct,    (* sends past the queue                                 *)
          stopping,  (* stop_event                                           *)
          promised   (* messages accepted when it was set                    *)

notifierVars == <<queue, raising, accepted, worker, unsent, unheard, tried, counted, logged,
                  direct, stopping, promised>>

delivering == <<worker, unsent, unheard, tried>>
recording  == <<counted, logged, direct>>
halting    == <<stopping, promised>>
Waiting    == [at |-> "waiting", message |-> 0]
Zero       == [c \in Channels |-> 0]

NotifierInit == /\ queue = <<>> /\ raising = {} /\ accepted = 0
                /\ worker = Waiting /\ unsent = {} /\ unheard = {}
                /\ tried = [c \in Channels |-> <<>>]
                /\ counted = Zero /\ logged = Zero /\ direct = 0
                /\ stopping = FALSE /\ promised = 0

-----------------------------------------------------------------------------
(* enqueue(): a transition whose severity is not wanted, or that comes     *)
(* after stop(), goes no further.                                          *)
Raises(p) == /\ p \notin raising /\ ~stopping
             /\ raising' = raising \cup {p}
             /\ UNCHANGED <<queue, accepted, delivering, recording, halting>>

(* put_nowait(): what does not fit is dropped.                             *)
Puts(p) == /\ p \in raising /\ raising' = raising \ {p}
           /\ Len(queue) < QueueSize /\ accepted < MaxMessages
           /\ accepted' = accepted + 1
           /\ queue' = Append(queue, accepted + 1)
           /\ UNCHANGED <<delivering, recording, halting>>

Drops(p) == /\ p \in raising /\ raising' = raising \ {p}
            /\ Len(queue) >= QueueSize
            /\ UNCHANGED <<queue, accepted, delivering, recording, halting>>

-----------------------------------------------------------------------------
(* Mutation of Heard: the results of a message are not waited for.         *)
HeardLater == TRUE
Heard == unheard = {}

(* The worker ends once it is told to and nothing waits.                   *)
Drained == stopping /\ queue = <<>>

(* The next message goes to the pool for every channel.                    *)
Fans == /\ worker.at = "waiting" \/ (worker.at = "sending" /\ Heard)
        /\ queue # <<>>
        /\ worker' = [at |-> "sending", message |-> Head(queue)]
        /\ queue' = Tail(queue)
        /\ unsent' = unsent \cup {<<c, Head(queue)>> : c \in Channels}
        /\ unheard' = Channels
        /\ UNCHANGED <<raising, accepted, tried, recording, halting>>

(* _send() in a thread of the pool; a failure is a result like another.    *)
Sends(c, m) == /\ <<c, m>> \in unsent /\ worker.at # "killed"
               /\ unsent' = unsent \ {<<c, m>>}
               /\ tried' = [tried EXCEPT ![c] = Append(@, m)]
               /\ UNCHANGED <<queue, raising, accepted, worker, unheard, recording, halting>>

(* _record(), channel by channel; the row of the log may fail.             *)
Records(c) == /\ worker.at = "sending" /\ c \in unheard
              /\ \A d \in unheard : c <= d
              /\ <<c, worker.message>> \notin unsent
              /\ unheard' = unheard \ {c}
              /\ counted' = [counted EXCEPT ![c] = @ + 1]
              /\ logged' \in {logged, [logged EXCEPT ![c] = @ + 1]}
              /\ UNCHANGED <<queue, raising, accepted, worker, unsent, tried, direct, halting>>

Rests == /\ worker.at = "sending" /\ Heard /\ queue = <<>>
         /\ worker' = Waiting
         /\ UNCHANGED <<queue, raising, accepted, unsent, unheard, tried, recording, halting>>

(* Mutation of SendsDirectly: what is sent past the queue is logged alone. *)
SendsUncounted(c) == /\ direct < MaxDirect /\ worker.at # "killed" /\ direct' = direct + 1
                     /\ logged' = [logged EXCEPT ![c] = @ + 1]
                     /\ UNCHANGED <<queue, raising, accepted, delivering, counted, halting>>

(* test_channel() and send_direct() of a report, in their caller's thread. *)
SendsDirectly(c) == /\ direct < MaxDirect /\ worker.at # "killed" /\ direct' = direct + 1
                    /\ counted' = [counted EXCEPT ![c] = @ + 1]
                    /\ logged' \in {logged, [logged EXCEPT ![c] = @ + 1]}
                    /\ UNCHANGED <<queue, raising, accepted, delivering, halting>>

-----------------------------------------------------------------------------
(* stop(): the worker drains the queue and ends; main() waits for it for a *)
(* while, and the daemon thread dies with the process.                     *)
Stops == /\ ~stopping /\ stopping' = TRUE /\ promised' = accepted
         /\ UNCHANGED <<queue, raising, accepted, delivering, recording>>

WorkerEnds == /\ worker.at = "waiting" /\ Drained
              /\ worker' = [worker EXCEPT !.at = "ended"]
              /\ UNCHANGED <<queue, raising, accepted, unsent, unheard, tried, recording, halting>>

JoinTimesOut == /\ stopping /\ worker.at \in {"waiting", "sending"}
                /\ worker' = [worker EXCEPT !.at = "killed"]
                /\ UNCHANGED <<queue, raising, accepted, unsent, unheard, tried, recording, halting>>

NotifierNext == \/ \E p \in Producers : Raises(p) \/ Puts(p) \/ Drops(p)
                \/ Fans \/ Rests \/ Stops \/ WorkerEnds \/ JoinTimesOut
                \/ \E send \in unsent : Sends(send[1], send[2])
                \/ \E c \in Channels : Records(c) \/ SendsDirectly(c)

NotifierTypeOK == /\ queue \in Seq(1..MaxMessages) /\ Len(queue) <= QueueSize
                  /\ raising \subseteq Producers /\ accepted \in 0..MaxMessages
                  /\ worker.at \in {"waiting", "sending", "ended", "killed"}
                  /\ unsent \subseteq Channels \X (1..MaxMessages) /\ unheard \subseteq Channels
                  /\ \A c \in Channels : logged[c] <= counted[c]
                  /\ direct \in 0..MaxDirect

(* Each channel is told of the alerts in the order in which they were      *)
(* accepted, none twice and none left out, however slow another channel    *)
(* is, and what was accepted before an orderly stop has been tried at      *)
(* every channel when the worker ends.                                     *)
DeliveredInOrder ==
    \A c \in Channels : /\ \A i \in 1..Len(tried[c]) : tried[c][i] = i
                        /\ worker.at = "ended" => Len(tried[c]) >= promised
=============================================================================
