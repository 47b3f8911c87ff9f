-------------------------- MODULE CollectionProofs --------------------------
(***************************************************************************)
(* Proofs about Collection, for any period, any requests, and a device     *)
(* that changes, comes and goes any number of times.                       *)
(***************************************************************************)
EXTENDS Collection, TLAPS

Knowledge == [Sections -> Nat]

Kinds == /\ world \in Nat /\ listed \in {"configured", "discovered", "gone"}
         /\ snapshot \in Knowledge
         /\ results \in [there : BOOLEAN, facts : Knowledge]
         /\ cache \in [there : BOOLEAN, facts : Knowledge, probe : {"none", "pending", "passing", "failing"}]
         /\ fleet \in [at : {"idle", "submitted", "polling", "polled", "collected"},
                       due : SUBSET Gated, took : SUBSET Environments, there : BOOLEAN]
         /\ forced \subseteq Environments /\ probe \in {"none", "passing", "failing"}

(* Facts travel from the device to the snapshot, the results and the       *)
(* cache: who is further on has seen no less.                              *)
Downstream == \A s \in Sections :
    /\ snapshot[s] <= world
    /\ results.there => results.facts[s] <= snapshot[s]
    /\ cache.there => cache.facts[s] <= snapshot[s]
    /\ cache.there /\ results.there => cache.facts[s] <= results.facts[s]

(* A poll of a configured device has a result, and what the cache holds of *)
(* such a device it holds from the results.                                *)
Polled == /\ fleet.at = "polled" => fleet.there
          /\ listed = "configured" /\ fleet.at = "polling" => fleet.there
          /\ listed = "configured" /\ cache.there => results.there

(* The inductive invariant behind the theorem.                             *)
IInv == Kinds /\ Downstream /\ Polled

-----------------------------------------------------------------------------
LEMMA InitInv == CollectionInit => IInv
BY CollectionAssumption
   DEF CollectionInit, IInv, Kinds, Knowledge, Downstream, Polled, Nothing, Absent, Uncached, NoPoll,
       Sections, Gated

(* A step that leaves the facts and the poll alone.                        *)
LEMMA AsideInv ==
  ASSUME IInv,
         \/ DeviceMoves \/ Ticks \/ Hears \/ ProbeRuns \/ ProbeMerges
         \/ (\E e \in Environments : Asks(e)) \/ Wakes
  PROVE  IInv'
<1> USE DEF IInv, Kinds, polling, showing, asking
<1>1. CASE DeviceMoves
  BY <1>1, CollectionAssumption DEF DeviceMoves, Downstream, Polled, Knowledge
<1>2. CASE Ticks \/ Wakes \/ ProbeRuns
  BY <1>2 DEF Ticks, Wakes, ProbeRuns, Downstream, Polled
<1>3. CASE Hears
  BY <1>3 DEF Hears, Downstream, Polled
<1>4. CASE ProbeMerges
  BY <1>4 DEF ProbeMerges, Downstream, Polled
<1>5. CASE \E e \in Environments : Asks(e)
  BY <1>5 DEF Asks, Downstream, Polled
<1>6. QED BY <1>1, <1>2, <1>3, <1>4, <1>5

LEMMA SubmitsInv == ASSUME IInv, Submits PROVE IInv'
BY DEF IInv, Kinds, Downstream, Polled, Submits, NoPoll, showing, asking

(* The poll is taken up with what is forced, and the device if it is there. *)
LEMMA FleetBeginsInv == ASSUME IInv, FleetBegins PROVE IInv'
<1> USE DEF IInv, FleetBegins, showing
<1>1. Kinds'
  BY DEF Kinds, Gated
<1>2. Downstream'
  BY DEF Downstream
<1>3. Polled'
  BY DEF Polled
<1>4. QED BY <1>1, <1>2, <1>3

(* What a poll has seen is the device as it is, or what was known of it.   *)
LEMMA PollEndsInv == ASSUME IInv, NEW o \in Outcomes, PollEnds(o) PROVE IInv'
<1> USE DEF IInv, PollEnds, showing
<1>1. /\ snapshot' \in Knowledge
      /\ \A s \in Sections : snapshot[s] <= snapshot'[s] /\ snapshot'[s] <= world
  <2>1. /\ Seen \in Knowledge
        /\ \A s \in Sections : snapshot[s] <= Seen[s] /\ Seen[s] <= world
    BY DEF Kinds, Downstream, Knowledge, Seen, Kept
  <2>2. snapshot \in Knowledge /\ \A s \in Sections : snapshot[s] <= snapshot[s] /\ snapshot[s] <= world
    BY DEF Kinds, Downstream, Knowledge
  <2>3. QED BY <2>1, <2>2
<1>2. Kinds'
  BY <1>1 DEF Kinds
<1>3. Downstream'
  BY <1>1 DEF Kinds, Downstream, Knowledge
<1>4. Polled'
  BY DEF Kinds, Polled
<1>5. QED BY <1>2, <1>3, <1>4

(* All results are handed over from the snapshot of the poll.              *)
LEMMA HandsOverInv == ASSUME IInv, HandsOver PROVE IInv'
<1> USE DEF IInv, HandsOver, showing, asking
<1>1. /\ results' \in [there : BOOLEAN, facts : Knowledge]
      /\ results'.there = fleet.there
      /\ fleet.there => results'.facts = snapshot
  BY DEF Kinds, Collected, Knowledge, Nothing
<1>2. Kinds'
  BY <1>1 DEF Kinds, NoPoll
<1>3. Downstream'
  BY <1>1 DEF Kinds, Downstream, Knowledge
<1>4. Polled'
  BY <1>1 DEF Polled, NoPoll
<1>5. QED BY <1>2, <1>3, <1>4

(* What is shown are the results.                                          *)
Caches == [there : BOOLEAN, facts : Knowledge, probe : {"none", "pending", "passing", "failing"}]

LEMMA ShownIs ==
  ASSUME Kinds
  PROVE  /\ Shown \in Caches /\ Shown.there = results.there
         /\ results.there => Shown.facts = results.facts
<1>1. Uncached \in Caches /\ Uncached.there = FALSE
  BY DEF Caches, Uncached, Nothing, Knowledge
<1>2. results.there \in BOOLEAN /\ results.facts \in Knowledge
  BY DEF Kinds
<1>3. CASE results.there
  <2> DEFINE shown == [there |-> TRUE, facts |-> results.facts, probe |-> "pending"]
  <2>1. shown \in Caches /\ shown.there = TRUE /\ shown.facts = results.facts
    BY <1>2 DEF Caches
  <2>2. Shown = shown
    BY <1>3 DEF Shown
  <2> HIDE DEF shown
  <2>3. QED BY <1>2, <1>3, <2>1, <2>2
<1>4. CASE ~results.there
  <2>1. Shown = Uncached
    BY <1>4 DEF Shown
  <2>2. QED BY <1>1, <1>2, <1>4, <2>1
<1>5. QED BY <1>3, <1>4

(* The cache becomes what the results are.                                 *)
LEMMA PublishesInv == ASSUME IInv, FleetPublishes \/ OtherPublishes PROVE IInv'
<1> USE DEF IInv, FleetPublishes, OtherPublishes, Published, polling, asking
<1>1. /\ cache' \in Caches /\ cache'.there = results.there
      /\ results.there => cache'.facts = results.facts
  BY ShownIs
<1>2. Kinds'
  <2>1. CASE FleetPublishes
    BY <1>1, <2>1 DEF Kinds, Caches, NoPoll
  <2>2. CASE OtherPublishes
    BY <1>1, <2>2 DEF Kinds, Caches
  <2>3. QED BY <2>1, <2>2
<1>3. Downstream'
  BY <1>1 DEF Kinds, Downstream, Knowledge
<1>4. Polled'
  BY <1>1 DEF Polled, NoPoll
<1>5. QED BY <1>2, <1>3, <1>4

LEMMA NextInv == IInv /\ [CollectionNext]_collectionVars => IInv'
<1> SUFFICES ASSUME IInv, [CollectionNext]_collectionVars PROVE IInv'
  OBVIOUS
<1>1. CASE CollectionNext
  BY <1>1, AsideInv, SubmitsInv, FleetBeginsInv, PollEndsInv, HandsOverInv, PublishesInv
     DEF CollectionNext
<1>2. CASE UNCHANGED collectionVars
  BY <1>2 DEF collectionVars, IInv, Kinds, Downstream, Polled
<1>3. QED BY <1>1, <1>2

-----------------------------------------------------------------------------
(* One step of the cache: what it knows, and that a configured device      *)
(* stays in it.                                                            *)
Grows == cache.there => /\ listed = "configured" => cache'.there
                        /\ cache'.there => \A s \in Sections : cache'.facts[s] >= cache.facts[s]

LEMMA NextGrows == ASSUME IInv, [CollectionNext]_collectionVars PROVE Grows
<1> USE DEF IInv
<1>1. CASE UNCHANGED <<cache, listed>>
  BY <1>1 DEF Kinds, Grows, Knowledge
<1>2. CASE FleetPublishes \/ OtherPublishes
  <2>1. /\ cache'.there = results.there
        /\ results.there => cache'.facts = results.facts
    BY <1>2, ShownIs DEF FleetPublishes, OtherPublishes, Published
  <2>2. QED BY <2>1 DEF Kinds, Downstream, Polled, Grows, Knowledge
<1>3. CASE ProbeMerges
  BY <1>3 DEF ProbeMerges, Kinds, Grows, Knowledge
<1>4. CASE Hears
  BY <1>4 DEF Hears, showing, Kinds, Grows, Knowledge
<1>5. CASE \/ DeviceMoves \/ Ticks \/ Submits \/ FleetBegins \/ HandsOver \/ ProbeRuns \/ Wakes
           \/ (\E e \in Environments : Asks(e)) \/ (\E o \in Outcomes : PollEnds(o))
  <2>1. UNCHANGED <<cache, listed>>
    BY <1>5 DEF DeviceMoves, Ticks, Submits, FleetBegins, HandsOver, ProbeRuns, Wakes, Asks, PollEnds,
                showing
  <2>2. QED BY <1>1, <2>1
<1>6. CASE UNCHANGED collectionVars
  BY <1>1, <1>6 DEF collectionVars
<1>7. QED BY <1>2, <1>3, <1>4, <1>5, <1>6 DEF CollectionNext

(* _publish() and collect_device(): whichever task replaces the cache, and *)
(* however a poll ends, the cache never knows less of a device than it     *)
(* did, and a configured device stays in it.                               *)
THEOREM CacheOnlyGrows == CollectionSpec => NeverForgets
<1>1. CollectionInit => IInv
  BY InitInv
<1>2. IInv /\ [CollectionNext]_collectionVars => IInv'
  BY NextInv
<1>3. IInv /\ [CollectionNext]_collectionVars => [Grows]_collectionVars
  BY NextGrows
<1>4. QED BY <1>1, <1>2, <1>3, PTL DEF CollectionSpec, NeverForgets, Grows
=============================================================================
