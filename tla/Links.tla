------------------------------- MODULE Links --------------------------------
(***************************************************************************)
(* The network matrix: pinoc/topology.py derives segments of devices and   *)
(* the pairs to be sampled, pinoc/collectors/network_matrix.py pings each  *)
(* pair when its interval has passed, and the correlation of alerts asks   *)
(* whether a device's segment is degraded.  Devices and tags are numbers,  *)
(* in the order of their names, and a segment has its place in the list    *)
(* and the number of its name; round trips are reduced to good and bad.    *)
(***************************************************************************)
EXTENDS Integers, Sequences, FiniteSets

CONSTANTS Layouts,      (* sections network_topology with the devices' tags  *)
          Nodes,        (* devices                                           *)
          Lan,          (* the number of the tag 'lan'                       *)
          MaxPairs,     (* max_pairs                                         *)
          Persistence,  (* persistence_samples                               *)
          MaxTurns,     (* bound: links that turn good or bad                *)
          MaxMishaps    (* bound: samples that mislead or get lost, restarts *)

ASSUME LinksAssumption == /\ Nodes \subseteq Nat /\ Lan \in Nat /\ {MaxPairs, Persistence} \subseteq Nat \ {0}
                          /\ {MaxTurns, MaxMishaps} \subseteq Nat

VARIABLES topology,  (* the segments and the pairs that the section gives     *)
          bad,       (* pairs whose link is bad                              *)
          pings,     (* network_matrix_samples of each pair, newest first    *)
          due,       (* pairs that this cycle has still to visit             *)
          turns, mishaps

linkVars == <<topology, bad, pings, due, turns, mishaps>>

-----------------------------------------------------------------------------
(* _auto_segments(): a segment for every tag of two devices or more, by    *)
(* the name of the tag, and last the devices that are in none of these;    *)
(* that one is named 'lan', whether or not a tag is.                       *)
AutoSegments(tags) ==
    LET Tagged(t) == {d \in Nodes : t \in tags[d]}
        shared    == {t \in UNION {tags[d] : d \in Nodes} : Cardinality(Tagged(t)) >= 2}
        left      == {d \in Nodes : tags[d] \cap shared = {}}
        place(t)  == Cardinality({u \in shared : u < t}) + 1
        last      == Cardinality(shared) + 1
    IN  {[place |-> place(t), name |-> t, devices |-> Tagged(t)] : t \in shared}
        \cup (IF Cardinality(left) >= 2
              THEN {[place |-> last, name |-> Lan, devices |-> left]} ELSE {})

(* _auto_pairs(): neighbours in each segment, up to max_pairs of them; a   *)
(* pair of two segments counts twice.                                      *)
AutoPairs(segments) ==
    LET chained == {c \in segments \X Nodes \X Nodes :
                       /\ {c[2], c[3]} \subseteq c[1].devices /\ c[2] < c[3]
                       /\ \A d \in c[1].devices : d <= c[2] \/ d >= c[3]}
        Before(c) == {e \in chained : \/ e[1].place < c[1].place
                                      \/ e[1] = c[1] /\ e[2] < c[2]}
    IN  {<<c[2], c[3]>> : c \in {e \in chained : Cardinality(Before(e)) < MaxPairs}}

(* The pairs of the section: devices that are not known, and a pair given  *)
(* again or the other way round, are passed over.                          *)
GivenPairs(listed) ==
    LET Counts(i) == /\ listed[i][1] # listed[i][2]
                     /\ {listed[i][1], listed[i][2]} \subseteq Nodes
                     /\ \A j \in 1..i - 1 : {listed[j][1], listed[j][2]}
                                            # {listed[i][1], listed[i][2]}
    IN  {listed[i] : i \in {j \in DOMAIN listed :
            Counts(j) /\ Cardinality({e \in 1..j - 1 : Counts(e)}) < MaxPairs}}

(* parse_topology_config(), of the same section at every cycle; a segment  *)
(* of the section lists its devices by their names, and has a name of its  *)
(* own.                                                                    *)
Parsed(layout) ==
    LET segments == IF layout.segments = <<>> THEN AutoSegments(layout.tags)
                    ELSE {[place |-> s, name |-> s, devices |-> layout.segments[s] \cap Nodes] :
                         s \in DOMAIN layout.segments} IN
    [segments |-> segments,
     pairs |-> IF layout.pairs = <<>> THEN AutoPairs(segments) ELSE GivenPairs(layout.pairs)]

Pairs == topology.pairs

-----------------------------------------------------------------------------
(* pair_samples() and pair_degraded(): all of the newest samples are bad.  *)
Window(p) == SubSeq(pings[p], 1, Persistence)
Degraded(p) == /\ Len(pings[p]) >= Persistence
               /\ \A i \in 1..Persistence : Window(p)[i] = "bad"

Within(p, s) == {p[1], p[2]} \subseteq s.devices
First(segments) == CHOOSE s \in segments : \A t \in segments : s.place <= t.place

(* segment_for(): the first segment of the device.                         *)
Of(d) == {s \in topology.segments : d \in s.devices}
SegmentFor(d) == First(Of(d))

(* segment_statuses(), of which degraded_segment_for() takes the first of  *)
(* that name: it is degraded if any of the pairs within it is.             *)
StatusFor(d) == First({s \in topology.segments : s.name = SegmentFor(d).name})
Hinted(d) == Of(d) # {} /\ \E p \in Pairs : Within(p, StatusFor(d)) /\ Degraded(p)

LinksInit == /\ topology \in {Parsed(l) : l \in Layouts} /\ bad = {} /\ turns = 0 /\ mishaps = 0
             /\ pings = [p \in Pairs |-> <<>>] /\ due = Pairs

(* collect(): the pair counts as run before it is pinged; a sample that is *)
(* not recorded is logged.                                                 *)
(* Mutation of Record: ORDER BY id, the pair is judged by its first samples. *)
Latest(q) == SubSeq(q, 1, IF Len(q) > Persistence + 1 THEN Persistence + 1 ELSE Len(q))
RecordAscending(p, s) == Latest(Append(pings[p], s))
Record(p, s) == Latest(<<s>> \o pings[p])

SamplesPair(p) == /\ p \in due /\ due' = due \ {p}
                  /\ pings' = [pings EXCEPT ![p] = Record(p, IF p \in bad THEN "bad"
                                                                 ELSE "good")]
                  /\ UNCHANGED <<topology, bad, turns, mishaps>>

(* One slow answer of a good link, one good answer of a bad one, or an     *)
(* error of the database.                                                  *)
SampleMisleads(p) == /\ p \in due /\ due' = due \ {p}
                     /\ mishaps < MaxMishaps /\ mishaps' = mishaps + 1
                     /\ pings' \in {pings,
                                      [pings EXCEPT ![p] = Record(p, IF p \in bad THEN "good"
                                                                       ELSE "bad")]}
                     /\ UNCHANGED <<topology, bad, turns>>

(* collect() has visited every pair that was due before it is called       *)
(* again; all pairs have one interval.                                     *)
IntervalPasses == /\ due = {} /\ due' = Pairs
                  /\ UNCHANGED <<topology, bad, pings, turns, mishaps>>

(* The service starts again: _last_run is empty.                           *)
CollectorRestarts == /\ mishaps < MaxMishaps /\ mishaps' = mishaps + 1
                     /\ due' = Pairs
                     /\ UNCHANGED <<topology, bad, pings, turns>>

LinkTurns(p) == /\ turns < MaxTurns /\ turns' = turns + 1
                /\ bad' = (bad \ {p}) \cup ({p} \ bad)
                /\ UNCHANGED <<topology, pings, due, mishaps>>

CollectorStep == IntervalPasses \/ \E p \in Pairs : SamplesPair(p)

LinksNext == \/ CollectorStep \/ CollectorRestarts
             \/ \E p \in Pairs : SampleMisleads(p) \/ LinkTurns(p)

LinksTypeOK == /\ bad \subseteq Pairs /\ due \subseteq Pairs
               /\ \A p \in Pairs : Len(pings[p]) <= Persistence + 1

(* Once the links stay as they are, a device is said to be in a degraded   *)
(* segment exactly if a sampled pair of its segment is bad: one sample     *)
(* that misled, was lost, or is from before the link turned, decides       *)
(* nothing for good, whatever segments share devices or pairs.  But for    *)
(* the devices without a shared tag where two others share the tag 'lan':  *)
(* their segment has the name of the other's, whose pairs decide.          *)
Shadowed(s) == \E t \in topology.segments : t.name = s.name /\ t.place < s.place
LinksSettle == <>[](\A d \in Nodes :
    Of(d) = {} \/ ~Shadowed(SegmentFor(d)) =>
        (Hinted(d) <=> Of(d) # {} /\ \E p \in Pairs : p \in bad /\ Within(p, SegmentFor(d))))
=============================================================================
