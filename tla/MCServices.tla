----------------------------- MODULE MCServices -----------------------------
(* Small instances of the services: one instance of an application, two    *)
(* facts, two request threads; one environment; two channels and two       *)
(* threads that raise alerts; one signal of each overseer; a service and   *)
(* a command of one release each; two levels; four layouts of four         *)
(* devices; two contents.                                                  *)
EXTENDS Services

OneInstance == {1}
TwoFacts    == {"old", "new"}
TwoChannels == 1..2
OneSignal   == [o \in Overseers |-> IF o = "slo" THEN {"burn"} ELSE {"lag"}]
TwoReleases == [p \in Programs |-> IF p = "service" THEN 3 ELSE 2]
IndexesOnly == {2}
TwoLevels   == {100, 110}
Devices     == 1..4

(* Tags shared in a chain; a tag named as the segment of the other two is; *)
(* pairs the section gives, in both directions, and one on its own; a      *)
(* segment the section gives beside the tags.                              *)
TagOfLan == 2
FourLayouts ==
    {[tags |-> <<{1}, {1, 3}, {3}, {}>>, segments |-> <<>>, pairs |-> <<>>],
     [tags |-> <<{2}, {2}, {}, {1}>>, segments |-> <<>>, pairs |-> <<>>],
     [tags |-> <<{1}, {1}, {1}, {}>>, segments |-> <<>>, pairs |-> <<<<3, 1>>, <<1, 3>>, <<1, 5>>>>],
     [tags |-> <<{}, {}, {}, {}>>, segments |-> <<{1, 2, 5}, {2, 3}>>, pairs |-> <<>>]}
=============================================================================
