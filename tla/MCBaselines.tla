----------------------------- MODULE MCBaselines -----------------------------
(* Two levels a small step apart and one a larger step away.               *)
EXTENDS Baselines

ThreeLevels == {100, 110, 140}
=============================================================================
