------------------------- MODULE MCActionDispatcher -------------------------
(* Instances of ActionDispatcher for TLC.                                  *)
EXTENDS ActionDispatcher, TLC

(* Job ids are drawn at random, threads and devices are alike.             *)
Symmetric == Permutations(JobIds) \cup Permutations(Clients)
             \cup Permutations(Workers) \cup Permutations(Devices)
=============================================================================
